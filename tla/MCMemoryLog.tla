---------------------------- MODULE MCMemoryLog ----------------------------
(***************************************************************************)
(* A small instance of MemoryLog: a reader that adopts any events at all.  *)
(* The caller of record is the machine of MCMachine.                       *)
(***************************************************************************)
EXTENDS MemoryLog

CONSTANT MaxEvents  \* how many queries a log may have

MCInitial == [c \in Chained |-> CHOOSE v \in Value : v # Zero]

\* Any event, one past the clock included.  A log that breaks a timestamp rule
\* is not extended: it breaks it for good.
AnyEvent == [cell : Cell, ts : 0..ClockEnd, readTs : 0..(ClockEnd - 1), read : Value, write : Value]

AdoptNext ==
  /\ Len(events) < MaxEvents
  /\ TimestampRules(events)
  /\ \E e \in AnyEvent : Adopt(e)

AdoptSpec == LogInit /\ [][AdoptNext]_logVars
=============================================================================

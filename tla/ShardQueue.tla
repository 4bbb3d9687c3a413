----------------------------- MODULE ShardQueue -----------------------------
(***************************************************************************)
(* What the pipeline promises, without its threads, its lock or its        *)
(* counts: shards are numbered in the order they fill, begun in that order,*)
(* at most Bound of them unfinished at once, and filled only on demand; and*)
(* the answer is the one a single worker would have given, unless something*)
(* panicked.                                                               *)
(***************************************************************************)
EXTENDS Integers, Sequences, FiniteSets

CONSTANTS Bound, Running, Done, Reraised

VARIABLES
  filled,   \* shards 0 .. filled - 1 exist
  outcome,  \* of the shards begun: outcome[k + 1] is shard k's
  source,   \* the execution: running, exited, failed or panicked
  stopped,  \* nothing more is begun or filled
  result    \* what the caller is told

queueVars == <<filled, outcome, source, stopped, result>>

Unfinished == {k \in 1..Len(outcome) : outcome[k] = "working"}
Wrong(o) == \E k \in 1..Len(outcome) : outcome[k] = o

QueueInit ==
  /\ filled = 0 /\ outcome = <<>> /\ source = "running"
  /\ stopped = FALSE /\ result = Running

\* Demand: the execution moves only when every shard it filled has begun.
Demanded == ~stopped /\ source = "running" /\ Len(outcome) = filled

Fill ==
  /\ Demanded
  /\ filled' > filled
  /\ UNCHANGED <<outcome, source, stopped, result>>

Exit ==
  /\ Demanded
  /\ filled' >= filled /\ source' = "exited"
  /\ UNCHANGED <<outcome, stopped, result>>

Break ==
  /\ Demanded
  /\ source' \in {"failed", "panicked"} /\ stopped' = TRUE
  /\ UNCHANGED <<filled, outcome, result>>

Begin ==
  /\ ~stopped /\ Len(outcome) < filled
  /\ Cardinality(Unfinished) < Bound
  /\ outcome' = Append(outcome, "working")
  /\ UNCHANGED <<filled, source, stopped, result>>

Conclude ==
  /\ \E k \in Unfinished, o \in {"ok", "err", "panicked"} :
       outcome' = [outcome EXCEPT ![k] = o]
  /\ UNCHANGED <<filled, source, stopped, result>>

StopBeginning ==
  /\ ~stopped /\ (Wrong("err") \/ Wrong("panicked"))
  /\ stopped' = TRUE
  /\ UNCHANGED <<filled, outcome, source, result>>

\* What a single worker, working the shards one by one, would have returned.
Tell ==
  /\ result = Running /\ Unfinished = {}
  /\ IF source = "panicked" \/ Wrong("panicked")
     THEN result' = Reraised
     ELSE IF Wrong("err")
     THEN \E k \in 1..Len(outcome) :
            /\ outcome[k] = "err" /\ \A j \in 1..(k - 1) : outcome[j] = "ok"
            /\ result' = [at |-> k - 1, by |-> "work"]
     ELSE IF source = "failed"
     THEN result' = [at |-> filled, by |-> "executor"]
     ELSE source = "exited" /\ Len(outcome) = filled /\ result' = Done
  /\ UNCHANGED <<filled, outcome, source, stopped>>

QueueNext ==
  Fill \/ Exit \/ Break \/ Begin \/ Conclude \/ StopBeginning \/ Tell

QueueSpec == QueueInit /\ [][QueueNext]_queueVars
=============================================================================

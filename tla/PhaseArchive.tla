---------------------------- MODULE PhaseArchive ----------------------------
(***************************************************************************)
(* The container of the staged prover's phases and its file               *)
(* (crates/trace/src/archive.rs): TraceArchive::from_execution, fill,      *)
(* export and import.                                                      *)
(*                                                                         *)
(* An archive is the execution it was built from, the content of the four  *)
(* later phases and the timing of all five.  A file is its ten entries,    *)
(* five sections and five timings: an entry cut in two is a missing one,   *)
(* since neither decodes.  Contents are opaque here.                       *)
(***************************************************************************)
EXTENDS Integers, Sequences

CONSTANTS
  Empty,   \* Option::None
  Garbled  \* a section's bytes, one too many or too few

Phase == 0..4
LaterPhase == 1..4

-----------------------------------------------------------------------------
(* In memory *)

NoArchive ==
  [post |-> Empty, later |-> [p \in LaterPhase |-> Empty], timing |-> [p \in Phase |-> Empty]]

FromExecution(run, t) ==
  [post   |-> run,
   later  |-> [p \in LaterPhase |-> Empty],
   timing |-> [p \in Phase |-> IF p = 0 THEN t ELSE Empty]]

IsFilled(a, p) == p = 0 \/ a.later[p] # Empty

\* What fill refuses: post-execution, a filled phase, a phase before its turn.
MayFill(a, p) == p # 0 /\ a.later[p] = Empty /\ IsFilled(a, p - 1)

Filled(a, p, content, t) == [a EXCEPT !.later[p] = content, !.timing[p] = t]

-----------------------------------------------------------------------------
(* In a file *)

\* postcard also reads overlong integers; export writes the shortest.
Entry(tag, value) == [tag |-> tag, value |-> value, shortest |-> TRUE]

\* Mutant: the final section is left out.
ExportedButTheLast(a) ==
  [i \in 1..10 |->
     IF i <= 5 THEN Entry(i - 1, CASE i = 1 -> a.post [] i = 5 -> Empty [] OTHER -> a.later[i - 1])
               ELSE Entry(i - 6, a.timing[i - 6])]
Exported(a) ==
  [i \in 1..10 |->
     IF i <= 5 THEN Entry(i - 1, IF i = 1 THEN a.post ELSE a.later[i - 1])
               ELSE Entry(i - 6, a.timing[i - 6])]

Imported(file) ==
  [post   |-> file[1].value,
   later  |-> [p \in LaterPhase |-> file[p + 1].value],
   timing |-> [p \in Phase |-> file[p + 6].value]]

TagsInOrder(file) == \A p \in Phase : file[p + 1].tag = p /\ file[p + 6].tag = p

TimedWhenFilled(file) ==
  \A p \in Phase : file[p + 1].value = Empty <=> file[p + 6].value = Empty

FilledInOrder(file) ==
  \A p \in LaterPhase : file[p + 1].value # Empty => file[p].value # Empty

\* Mutant: timings are not compared with sections.
AcceptsUntimed(file) ==
  /\ Len(file) = 10
  /\ TagsInOrder(file)
  /\ FilledInOrder(file)
  /\ file[1].value \notin {Empty, Garbled}
  /\ file = Exported(Imported(file))
\* What import takes.  The last conjunct is the canonical form.
Accepts(file) ==
  /\ Len(file) = 10
  /\ TagsInOrder(file)
  /\ TimedWhenFilled(file)
  /\ FilledInOrder(file)
  /\ file[1].value \notin {Empty, Garbled}
  /\ file = Exported(Imported(file))

\* "A phase has timing exactly when it has content, and the filled phases are
\* a prefix of the five."
WellFormed(a) ==
  /\ \A p \in Phase : IsFilled(a, p) <=> a.timing[p] # Empty
  /\ \A p \in LaterPhase : IsFilled(a, p) => IsFilled(a, p - 1)
=============================================================================

------------------------------ MODULE MCMachine ------------------------------
(***************************************************************************)
(* A small instance of Machine: two registers, one of them x0, frames of   *)
(* one and of two words, and every way two field cells can overlap.  A     *)
(* guest either uses no field cell or does nothing but use them.           *)
(***************************************************************************)
EXTENDS Machine, TLC

CONSTANTS x0, a0, w1, w2, pc, f1, f2, k1

MCChained == {x0, a0, w1, w2, pc}
MCFrames == {<<w1>>, <<w2, w1>>}
MCBlocks == {<<w2>>, <<w1, w2>>}
MCVectors == {<<f1, f2>>, <<f2, f1>>}
FieldSymmetry == Permutations({f1, f2})

\* An image whose words are not zero.
MCInitial == [c \in Chained |-> IF c \in Words THEN 1 ELSE 0]
MCAnchorOf == [f \in Frames |-> k1]

VARIABLE recursing  \* which of the two guests this is

MCVars == <<machineVars, recursing>>

MCNext ==
  /\ UNCHANGED recursing
  /\ \/ ~recursing /\ (ExecuteNext \/ BaseDelegateNext)
     \/ recursing /\ \E result \in Value : FieldDelegate(<<w1>>, result)
     \/ LogQuery

MCInit == MachineInit /\ recursing \in BOOLEAN
MCMachineSpec == MCInit /\ [][MCNext]_MCVars
=============================================================================

--------------------------- MODULE MCStagedProver ---------------------------
(***************************************************************************)
(* Small instances of StagedProver: executions of a few shards, some of    *)
(* them failing at different phases.                                       *)
(***************************************************************************)
EXTENDS StagedProver

CONSTANT MaxShards

Run(n, unfillable, uncountable, recursion) ==
  [shards |-> n, unfillable |-> unfillable, uncountable |-> uncountable,
   recursion |-> recursion]

Damaged == Run(2, {}, {}, FALSE)

\* All shards good, some that fail, and a recursion program.
MCExecution ==
  {Run(MaxShards, {}, {}, r) : r \in BOOLEAN}
    \cup {Run(MaxShards, {}, S, FALSE) : S \in {{2}, 2..MaxShards}}
    \cup {Run(MaxShards, {2}, {1}, FALSE), Damaged}

\* Only the short execution's file is damaged.  What a damaged file gives is
\* loaded and proved to the end; when it is refused, nothing more happens.
Unharmed(A) == damage = 0 /\ A
Long(A) == execution # Damaged /\ A
Refused == damage > 0 /\ ~Running /\ ~Accepts(file) /\ UNCHANGED vars

MCNext ==
  \/ Prove \/ ProveBlock(TRUE) \/ Long(ProveBlock(FALSE))
  \/ \E until \in Phase : Unharmed(Advance(until))
  \/ Unharmed(Execute) \/ Load \/ Refused \/ Crash
  \/ Unharmed(Save) \/ WriteEntry \/ Long(SaveFails)
  \/ execution = Damaged /\ Damage

MCStagedSpec == Init /\ [][MCNext]_vars /\ WF_vars(Prove)
=============================================================================

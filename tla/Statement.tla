----------------------------- MODULE Statement -----------------------------
(***************************************************************************)
(* A statement as the prover and every verifier read it: its shards in     *)
(* statement order, the window rules over its shape, and the messages of   *)
(* its global transcript, whole and in the three parts a recursion tree    *)
(* runs it in (crates/verifier-core/src/{statement,chain}.rs).             *)
(*                                                                         *)
(* `counts` maps families to shard counts, `heights` families to trace     *)
(* heights, `windows` is ZERO_WINDOWS' list of ids.  A digest or a         *)
(* commitment is the value it commits to: collisions are not modelled.     *)
(* Heights and addresses are in words, over a small RAM, and a public      *)
(* window is one word.                                                     *)
(***************************************************************************)
EXTENDS Integers, Sequences, FiniteSets, SequencesExt

CONSTANTS
    Families,       \* the config's families, in ascending order
    CycleOwning,    \* those whose rows are cycles
    RamOrigin,      \* the image's first word: window 0 is masked below it
    AdviceOrigin,   \* the advice region's first word
    RamEnd,         \* the top of the address space
    PublicAt        \* the word each public family's window is at

WindowFamilies == {"INIT_TEARDOWN", "ZERO_WINDOWS", "ADVICE_WINDOWS"}
PublicFamilies == {"PUBLIC_INPUT", "PUBLIC_OUTPUT"}

ASSUME StatementAssumption ==
    /\ WindowFamilies \cup PublicFamilies \subseteq ToSet(Families)
    /\ Families \in Seq(ToSet(Families)) /\ IsInjective(Families)
    /\ CycleOwning \subseteq ToSet(Families) \ (WindowFamilies \cup PublicFamilies)
    /\ {RamOrigin, AdviceOrigin, RamEnd} \subseteq Nat
    /\ \A f \in PublicFamilies : PublicAt[f] \in 0..RamOrigin - 1
    /\ PublicAt["PUBLIC_INPUT"] # PublicAt["PUBLIC_OUTPUT"]

-----------------------------------------------------------------------------
(* The statement's shards. *)

\* INIT_TEARDOWN, ZERO_WINDOWS, then every other family ascending.
Without(s, f) == RemoveAt(s, CHOOSE i \in 1..Len(s) : s[i] = f)
GroupOrder ==
    <<"INIT_TEARDOWN", "ZERO_WINDOWS">>
        \o Without(Without(Families, "INIT_TEARDOWN"), "ZERO_WINDOWS")

\* The shards of some families, and how many there are before a group.
ShardsOf(counts, families) ==
    UNION {{[family |-> f, index |-> i] : i \in 0..counts[f] - 1} : f \in families}
GroupStart(counts, g) ==
    Cardinality(ShardsOf(counts, {GroupOrder[h] : h \in 1..g - 1}))
Total(counts) == Cardinality(ShardsOf(counts, ToSet(Families)))

StatementShards(counts) ==
    FlattenSeq([g \in 1..Len(GroupOrder) |->
                   [i \in 1..counts[GroupOrder[g]] |->
                       [family |-> GroupOrder[g], index |-> i - 1]]])

-----------------------------------------------------------------------------
(* The memory windows. *)

\* The one height of the window families, with both public windows inside
\* window 0 and at their pinned height.
WindowHeightHolds(heights) ==
    /\ heights["ZERO_WINDOWS"] = heights["INIT_TEARDOWN"]
    /\ heights["ADVICE_WINDOWS"] = heights["INIT_TEARDOWN"]
    /\ \A f \in PublicFamilies : heights[f] = 1 /\ PublicAt[f] < heights["INIT_TEARDOWN"]

AdviceFirstWindow(height) == AdviceOrigin \div height

\* What the rule on ZERO_WINDOWS' list asks of neighbours.
RepeatedIds(windows) == \A i \in 1..Len(windows) - 1 : windows[i] <= windows[i + 1]
WindowIdsAscend(windows) == \A i \in 1..Len(windows) - 1 : windows[i] < windows[i + 1]

CheckMemoryWindows(heights, counts, windows) ==
    LET h == heights["INIT_TEARDOWN"]
    IN  /\ WindowHeightHolds(heights)
        /\ counts["INIT_TEARDOWN"] = 1
        /\ Len(windows) = counts["ZERO_WINDOWS"]
        /\ WindowIdsAscend(windows)
        /\ \A i \in 1..Len(windows) : windows[i] \in 1..AdviceFirstWindow(h) - 1
        /\ \A f \in PublicFamilies : counts[f] = 1
        /\ AdviceFirstWindow(h) + counts["ADVICE_WINDOWS"] <= RamEnd \div h

\* The window shard (f, i) initializes, on its family's grid.
ShardWindow(f, i, heights, windows) ==
    CASE f = "INIT_TEARDOWN"  -> 0
      [] f = "ZERO_WINDOWS"   -> windows[i + 1]
      [] f \in PublicFamilies -> PublicAt[f]
      [] f = "ADVICE_WINDOWS" -> AdviceFirstWindow(heights[f]) + i

-----------------------------------------------------------------------------
(* The global transcript, message by message: <<tag, length, body>>.  The   *)
(* length is in scalars; a commitment list's is four a point.              *)

BoundaryLen == 2    \* the code's 64, as even
Message(tag, len, body) == <<tag, len, body>>
K == Len(Families)

PrefixMessages(counts, windows, identity, io) ==
    << Message("PROTOCOL_SUITE", 1, "version"),
       Message("SRS_DIGEST", 1, "srs"),
       Message("VM_CONFIG", 2 * K + 1, "config"),
       Message("SHARD_COUNTS", K, counts),
       Message("MEMORY_WINDOWS", Len(windows), windows),
       Message("PROGRAM_IDENTITY", 1, identity),
       Message("PUBLIC_INPUTS", 2, io) >>

\* The MEMORY_GROUP messages of the groups starting at position p.
GroupMessage(counts, g) ==
    Message("MEMORY_GROUP", 2, <<GroupOrder[g], counts[GroupOrder[g]]>>)
GroupMessages(counts, p) ==
    FlattenSeq([g \in 1..Len(GroupOrder) |->
                   IF GroupStart(counts, g) = p THEN <<GroupMessage(counts, g)>> ELSE <<>>])

\* Position p's messages: the groups that start there, then its shard's list.
CommitmentMessage(list) == Message("COMMITMENT", 4, list)
OccupiedGroupsOnly(counts, p, list) ==
    Append(SelectSeq(GroupMessages(counts, p), LAMBDA m : m[3][2] > 0), CommitmentMessage(list))
SegmentMessages(counts, p, list) ==
    Append(GroupMessages(counts, p), CommitmentMessage(list))

SuffixMessages(counts, boundary) ==
    Append(GroupMessages(counts, Total(counts)), Message("MEMORY_BOUNDARY", BoundaryLen, boundary))

\* The global transcript as the prover and `verify_block` run it: every group
\* in order, its message and then its shards' lists.
GlobalMessages(counts, windows, identity, io, lists, boundary) ==
    LET group(g) ==
            <<GroupMessage(counts, g)>>
                \o [i \in 1..counts[GroupOrder[g]] |->
                       CommitmentMessage(lists[GroupStart(counts, g) + i])]
    IN  PrefixMessages(counts, windows, identity, io)
        \o FlattenSeq([g \in 1..Len(GroupOrder) |-> group(g)])
        \o <<Message("MEMORY_BOUNDARY", BoundaryLen, boundary)>>
=============================================================================

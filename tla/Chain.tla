-------------------------------- MODULE Chain --------------------------------
(***************************************************************************)
(* The global transcript as a recursion tree runs it: a chain cut between  *)
(* any two shards, each part resumed from the three lanes and the at most  *)
(* one pending input a node's journal carries                              *)
(* (crates/verifier-core/src/chain.rs, and `statement` in node.rs), next   *)
(* to the same transcript run without a cut (`global_transcript`).         *)
(***************************************************************************)
EXTENDS Statement, Transcript

CONSTANTS
    Shapes          \* the shapes a host may name: [heights, counts, windows]

\* A count for each family; a window family's height is on the menu, whose
\* highest is far below the advice region.
ASSUME ShapesAssumption ==
    \A s \in Shapes :
        /\ s.counts \in [ToSet(Families) -> Nat]
        /\ s.windows \in Seq(Nat)
        /\ \A f \in WindowFamilies : s.heights[f] \in 1..AdviceOrigin

VARIABLES
    shape,          \* the statement's shape
    at,             \* the position the chain is at; -1 before the prefix
    chain,          \* the chain's transcript
    uncut,          \* the native transcript, run beside it
    drawn           \* the five challenges of the two, once the suffix is run

chainVars == <<shape, at, chain, uncut, drawn>>

Lists == [p \in 1..Total(shape.counts) |-> <<"commitments of shard", p>>]
Tags == <<"MEMORY_CHALLENGE", "MEMORY_CHALLENGE", "MEMORY_CHALLENGE", "MEMORY_CHALLENGE",
          "GLOBAL_STATE_DIGEST">>

\* Whether a boundary between shards holds a pending input: the prefix is
\* 3k + w + 20 scalars and every message after it an even number.
FamiliesAlone(s) == K % 2 = 1
Pending(s) == (K + Len(s.windows)) % 2 = 1

ChainInit ==
    /\ shape \in Shapes
    /\ at = -1
    /\ chain = NewTranscript
    /\ uncut = NewTranscript
    /\ drawn = <<>>

\* G1 to G7, by the node with the statement's first shard, which holds its
\* shape to the window rules before.
Prefix ==
    LET ms == PrefixMessages(shape.counts, shape.windows, "identity", "io")
    IN  /\ at = -1
        /\ CheckMemoryWindows(shape.heights, shape.counts, shape.windows)
        /\ at' = 0
        /\ chain' = AppendMessages(NewTranscript, ms)
        /\ uncut' = AppendMessages(NewTranscript, ms)
        /\ UNCHANGED <<shape, drawn>>

\* G8 for the shard at this position.
Segment ==
    /\ at \in 0..Total(shape.counts) - 1
    /\ chain' = AppendMessages(chain, SegmentMessages(shape.counts, at, Lists[at + 1]))
    /\ at' = at + 1
    /\ UNCHANGED <<shape, uncut, drawn>>

\* The node ends here and the next begins: the journal's CHAIN_OUT, 0 where
\* nothing is pending, read back as the next node's CHAIN and PENDING claims
\* by what the shape says of the boundary.
CarriedInput(t) == IF t.input # <<>> THEN t.input[1] ELSE <<"zero">>
Cut ==
    /\ at \in 1..Total(shape.counts) - 1
    /\ chain' = Resume(Checkpoint(chain).state,
                       IF Pending(shape) THEN <<CarriedInput(chain)>> ELSE <<>>)
    /\ UNCHANGED <<shape, at, uncut, drawn>>

\* G9 to G11 on both sides: the native one is given the groups, the lists and
\* the boundary after its prefix.
Suffix ==
    LET whole == GlobalMessages(shape.counts, shape.windows, "identity", "io", Lists, "boundary")
        after == SubSeq(whole, 8, Len(whole))
    IN  /\ at = Total(shape.counts) /\ drawn = <<>>
        /\ chain' = AppendMessages(chain, SuffixMessages(shape.counts, "boundary"))
        /\ uncut' = AppendMessages(uncut, after)
        /\ drawn' = <<Challenges(chain', Tags).values, Challenges(uncut', Tags).values>>
        /\ UNCHANGED <<shape, at>>

ChainDone == drawn # <<>> /\ UNCHANGED chainVars
ChainRefused ==
    /\ at = -1 /\ ~CheckMemoryWindows(shape.heights, shape.counts, shape.windows)
    /\ UNCHANGED chainVars

ChainNext == Prefix \/ Segment \/ Cut \/ Suffix \/ ChainDone \/ ChainRefused
ChainSpec == ChainInit /\ [][ChainNext]_chainVars

-----------------------------------------------------------------------------
\* However a tree cuts the statement into nodes, the node that runs the suffix
\* draws the memory challenges and the digest the native global transcript
\* draws over the same statement: nothing absorbed before a cut is lost or
\* absorbed twice, and no group message moves (chain.rs `segment`, `suffix`;
\* node.rs `statement`).
CutChainsDrawTheGlobalChallenges == drawn = <<>> \/ drawn[1] = drawn[2]

\* At every boundary a node's journal says as many inputs are pending as the
\* next node's tapes were built for (chain.rs `pending`; the assertion "the
\* chain's parity" in node.rs).
ThePendingInputIsPredicted ==
    at >= 0 /\ drawn = <<>> => (chain.input # <<>>) = Pending(shape)

\* A shape the window rules accept gives no word two initial rows, and gives
\* one to every word of the image's window, of the public windows, of the
\* windows it lists and of the advice windows (statement.rs
\* `check_memory_windows`).
Covers(s, word) ==
    /\ s.family \in WindowFamilies \cup PublicFamilies
    /\ LET h == shape.heights[s.family]
           w == ShardWindow(s.family, s.index, shape.heights, shape.windows)
       IN  word \in w * h..(w + 1) * h - 1
    /\ s.family = "INIT_TEARDOWN" => word >= RamOrigin
InitRows(word) ==
    Cardinality({s \in ShardsOf(shape.counts, ToSet(Families)) : Covers(s, word)})

Listed(word) ==
    LET h == shape.heights["INIT_TEARDOWN"]
        advice == AdviceFirstWindow(h)
    IN  \/ word \in RamOrigin..h - 1
        \/ \E f \in PublicFamilies : word = PublicAt[f]
        \/ \E i \in 1..Len(shape.windows) : word \div h = shape.windows[i]
        \/ word \div h \in advice..advice + shape.counts["ADVICE_WINDOWS"] - 1

WordsHaveOneInitRow ==
    at = 0 => \A word \in 0..RamEnd - 1 :
                  InitRows(word) <= 1 /\ (Listed(word) => InitRows(word) = 1)
=============================================================================

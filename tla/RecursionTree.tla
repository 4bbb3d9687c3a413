--------------------------- MODULE RecursionTree ---------------------------
(***************************************************************************)
(* A block proof's recursion tree: the plan of its nodes                   *)
(* (crates/host/src/recursion.rs), what a node checks of the shards or the *)
(* children it verifies (crates/verifier-core/src/node.rs), and what the   *)
(* decider asks of the root (crates/host/src/decider.rs).                  *)
(*                                                                         *)
(* The prover is not trusted: beside following the plan it may name any    *)
(* claims, shards, commitments and identities it holds, mix statements and *)
(* put a program of its own in a node's place.  What it cannot do is break *)
(* the proofs: a node whose checks fail exits with a status, not 0.  A     *)
(* digest named before it is computed is a token, bound to the first       *)
(* transcript that comes out as it.                                        *)
(***************************************************************************)
EXTENDS BlockVerifier

CONSTANTS
    Plans,          \* what the tree is planned over: [costs, leaf, budget, fan_in]
    PlanGrid,       \* the plans PlansAreTrees looks at
    Statements,     \* the statements the prover holds proofs of
    Departures,     \* how many leaves may depart from one statement's proofs
    Forgeries       \* whether a program of the prover's own may be a node

VARIABLES
    tree,           \* the planned nodes, children first
    proved,         \* the node proofs so far, in the plan's order
    digests,        \* what each token is the hash of
    token,          \* the digest named for leaves of mixed parts, or "own"
    departed,       \* how many leaves departed
    keptTo,         \* the honest statements every choice so far was the own of
    decided         \* the contract's answer: "none", "accepted", "refused"

treeVars == <<tree, proved, digests, token, departed, keptTo, decided>>

-----------------------------------------------------------------------------
(* The plan: Tree::plan.  The last node is the root. *)

\* What `Tree::plan` asserts of its arguments.
ASSUME PlansAssumption ==
    \A plan \in Plans \cup PlanGrid :
        /\ plan.costs \in Seq(Nat) /\ plan.costs # <<>>
        /\ plan.leaf \in Nat \ {0} /\ plan.budget \in Nat /\ plan.fan_in \in Nat \ {0, 1}

\* What a run is started with: at most four children a node (recurse.rs).
ASSUME FanInAssumption == \A plan \in Plans : plan.fan_in <= 4

\* The leaf under way takes shard i or ends before it.
Close(plan, acc, i) ==
    IF i - 1 > acc.from /\ (i - 1 - acc.from = plan.leaf
                            \/ acc.spent + plan.costs[i] > plan.budget)
    THEN [leaves |-> Append(acc.leaves, [kind |-> "leaf", from |-> acc.from, to |-> i - 1]),
          from |-> i - 1, spent |-> plan.costs[i]]
    ELSE [acc EXCEPT !.spent = @ + plan.costs[i]]
Leaves(plan) ==
    LET n == Len(plan.costs)
        upto[i \in 0..n] == IF i = 0 THEN [leaves |-> <<>>, from |-> 0, spent |-> 0]
                            ELSE Close(plan, upto[i - 1], i)
    IN  Append(upto[n].leaves, [kind |-> "leaf", from |-> upto[n].from, to |-> n])

Chunks(s, k) ==
    [g \in 1..(Len(s) + k - 1) \div k |->
        SubSeq(s, (g - 1) * k + 1, IF g * k < Len(s) THEN g * k ELSE Len(s))]

\* One level: a node over each group, a group of one carried up as it is.
DroppingOrphans(acc, group) ==
    IF Len(group) = 1 THEN acc
    ELSE [nodes |-> Append(acc.nodes, [kind |-> "node", children |-> group]),
          next |-> Append(acc.next, Len(acc.nodes) + 1)]
Climb(acc, group) ==
    IF Len(group) = 1
    THEN [acc EXCEPT !.next = Append(@, group[1])]
    ELSE [nodes |-> Append(acc.nodes, [kind |-> "node", children |-> group]),
          next |-> Append(acc.next, Len(acc.nodes) + 1)]

Level(acc, fan_in) ==
    LET groups == Chunks(acc.next, fan_in)
        upto[g \in 0..Len(groups)] == IF g = 0 THEN [acc EXCEPT !.next = <<>>]
                                      ELSE Climb(upto[g - 1], groups[g])
    IN  IF Len(acc.next) = 1 THEN acc ELSE upto[Len(groups)]

Plan(plan) ==
    LET leaves == Leaves(plan)
        n == Len(leaves)
        upto[i \in 0..n] == IF i = 0 THEN [nodes |-> leaves, next |-> [j \in 1..n |-> j]]
                            ELSE Level(upto[i - 1], plan.fan_in)
    IN  upto[n].nodes

-----------------------------------------------------------------------------
(* A leaf: shards from..to of one statement. *)

\* The chain's state at a position of a statement, as the host runs it.
ChainState(s, at) ==
    PrefixMessages(s.counts, s.windows, "identity", s.io)
    \o FlattenSeq([p \in 1..at |-> SegmentMessages(s.counts, p - 1, s.lists[p])])

ShardProof(s, p, digest) ==
    LET shard == StatementShards(s.counts)[p]
    IN  [family |-> shard.family, index |-> shard.index, ts |-> s.ts[p], under |-> digest,
         commitment |-> s.lists[p], roots |-> RootsOf(s.lists[p])]

\* What the host gives a leaf: header, claims, shard proofs, public windows,
\* boundary; here all one statement's (Statement::of).
Advice(s, from, to, digest) ==
    [counts |-> s.counts, windows |-> s.windows, from |-> from, to |-> to,
     digest |-> digest, io |-> s.io, exit |-> s.exit, identity |-> "identity",
     chain |-> ChainState(s, from),
     shards |-> [i \in 1..to - from |-> ShardProof(s, from + i, digest)],
     public |-> s.io, boundary |-> s.boundary]

\* The chain after this leaf's segment, and after the suffix.
ChainIn(a) ==
    IF a.from = 0 THEN PrefixMessages(a.counts, a.windows, a.identity, a.io) ELSE a.chain
ChainOut(a) ==
    ChainIn(a) \o FlattenSeq([i \in 1..a.to - a.from |->
                                 SegmentMessages(a.counts, a.from + i - 1, a.shards[i].commitment)])
Ends(a) == a.to = Total(a.counts)
Transcript(a) == ChainOut(a) \o SuffixMessages(a.counts, a.boundary)

\* A statement has a count a family and a list a shard; a digest names the one
\* transcript it is the hash of.
ASSUME StatementsAssumption ==
    LET whole(s) == Transcript(Advice(s, 0, Total(s.counts), s.digest))
    IN  \A s \in Statements :
            /\ s.digest # "mixed"
            /\ s.counts \in [ToSet(Families) -> Nat]
            /\ s.lists \in [1..Total(s.counts) -> DOMAIN TraceOf]
            /\ \A t \in Statements : s.digest = t.digest <=> whole(s) = whole(t)

Known(t) == \E d \in DOMAIN digests : digests[d] = t
DigestIs(d, t) == IF digests[d] = <<>> THEN ~Known(t) ELSE digests[d] = t

\* The journal, but its accumulator as whether everything folded in opens; and
\* beside it the shard proofs the leaves under it were given.
LeafJournal(a) ==
    [shape |-> <<a.counts, a.windows>>, digest |-> a.digest, io |-> a.io, exit |-> a.exit,
     total |-> Total(a.counts), from |-> a.from, to |-> a.to,
     chain_in |-> ChainIn(a), chain_out |-> ChainOut(a),
     reads |-> Product([i \in 1..Len(a.shards) |-> a.shards[i].roots.reads]),
     writes |-> Product([i \in 1..Len(a.shards) |-> a.shards[i].roots.writes]),
     factors |-> IF Ends(a) THEN a.boundary ELSE "one",
     first |-> a.shards[1], last |-> Last(a.shards),
     opens |-> \A i \in 1..Len(a.shards) : Opens(a.shards[i]),
     identities |-> <<"zero", "zero">>,
     shards |-> a.shards]

\* `statement` over a leaf's shards.
IsPublic(proof) == proof.family \in PublicFamilies
LeafHolds(a) ==
    LET shards == StatementShards(a.counts)
    IN  /\ CheckMemoryWindows(KeyHeights, a.counts, a.windows)
        /\ a.from < a.to /\ a.to <= Total(a.counts)
        /\ a.identity = "identity"
        /\ \A i \in 1..Len(a.shards) :
              /\ VerifyShardLocal(a.shards[i], shards[a.from + i], a.digest, a.public)
              /\ IsPublic(a.shards[i]) => a.public = a.io
        /\ CheckTsWindows(a.shards)
        /\ Ends(a) =>
              /\ DigestIs(a.digest, Transcript(a))
              /\ FinalsOf[a.boundary].exit = a.exit
              /\ a.from = 0 => Reconciles(LeafJournal(a).reads, LeafJournal(a).writes, a.boundary)

\* A node proof: the program it ran, its exit status, its journal.
NodeProof(program, holds, journal) ==
    [program |-> program, exit |-> IF holds THEN 0 ELSE 1, journal |-> journal]

-----------------------------------------------------------------------------
(* An internal node: two to four children, or the one child of the top. *)

UnboundFacts(j) == <<j.shape, j.digest, j.exit, j.total>>
Facts(j) == <<j.shape, j.digest, j.io, j.exit, j.total>>

\* A child proof verifies, ran to its exit, is of one of the two programs the
\* node names, and required them itself if it is a node's.
ChildHolds(c, ids) ==
    /\ c.exit = 0
    /\ \E p \in 1..2 : c.program = ids[p] /\ (p = 2 => c.journal.identities = ids)

\* A child beside the one before it.  Mutant: with time between them.
NeighboursApart(j, k) ==
    /\ Facts(k) = Facts(j)
    /\ k.from = j.to
    /\ k.chain_in = j.chain_out
    /\ TsWindowsApart(j.last, k.first)
Neighbours(j, k) ==
    /\ Facts(k) = Facts(j)
    /\ k.from = j.to
    /\ k.chain_in = j.chain_out
    /\ TsWindowsMeet(j.last, k.first)

Whole(js) == js[1].from = 0 /\ Last(js).to = js[1].total
ProductsReconcile(js) ==
    Reconciles(Product([i \in 1..Len(js) |-> js[i].reads]),
               Product([i \in 1..Len(js) |-> js[i].writes]), Last(js).factors)

InternalHolds(children, ids) ==
    LET js == [i \in 1..Len(children) |-> children[i].journal]
    IN  /\ Len(children) \in 2..4
        /\ \A i \in 1..Len(js) : ChildHolds(children[i], ids)
        /\ \A i \in 1..Len(js) - 1 : Neighbours(js[i], js[i + 1])
        /\ Whole(js) => ProductsReconcile(js)

InternalJournal(children, ids) ==
    LET js == [i \in 1..Len(children) |-> children[i].journal]
        first == js[1]
        last == Last(js)
    IN  [shape |-> first.shape, digest |-> first.digest, io |-> first.io, exit |-> first.exit,
         total |-> first.total, from |-> first.from, to |-> last.to,
         chain_in |-> first.chain_in, chain_out |-> last.chain_out,
         reads |-> Product([i \in 1..Len(js) |-> js[i].reads]),
         writes |-> Product([i \in 1..Len(js) |-> js[i].writes]),
         factors |-> last.factors, first |-> first.first, last |-> last.last,
         opens |-> \A i \in 1..Len(js) : js[i].opens,
         identities |-> ids,
         shards |-> FlattenSeq([i \in 1..Len(js) |-> js[i].shards])]

\* The top, in the decider's circuit under the contract's identities: it holds
\* the root to cover the statement rather than asking, and what it folded opens.
Programs == <<"leaf", "node">>
TopHolds(root) ==
    /\ ChildHolds(root, Programs)
    /\ Whole(<<root.journal>>)
    /\ ProductsReconcile(<<root.journal>>)
    /\ root.journal.opens

-----------------------------------------------------------------------------
(* The prover. *)

\* One part of a leaf's advice that is not its statement's: all of it from
\* another place, the shape, a shard proof, one's time or root, or a fact.
Elsewhere(a) ==
    UNION {{Advice(s, f, t, a.digest) : f \in 0..Total(s.counts) - 1, t \in 1..Total(s.counts)} :
              s \in Statements}
OtherShape(a) ==
    {[a EXCEPT !.counts = s.counts, !.windows = s.windows,
               !.shards = [i \in 1..Len(@) |-> ShardProof(s, a.from + i, a.digest)]] :
        s \in Statements}
OtherShard(a) ==
    {[a EXCEPT !.shards[i] = ShardProof(s, a.from + i, d)] :
        i \in 1..Len(a.shards), d \in DOMAIN digests,
        s \in {s \in Statements : a.to <= Total(s.counts)}}
OtherTime(a) == {[a EXCEPT !.shards[i].ts = <<0, Clock>>] : i \in 1..Len(a.shards)}
OtherRoot(a) == {[a EXCEPT !.shards[i].roots.reads = One] : i \in 1..Len(a.shards)}
OtherFact(a, s) ==
    {[a EXCEPT !.io = s.io], [a EXCEPT !.io = s.io, !.public = s.io],
     [a EXCEPT !.boundary = s.boundary], [a EXCEPT !.exit = 1], [a EXCEPT !.identity = "another"]}
Departed(a) ==
    Elsewhere(a) \cup OtherShape(a) \cup OtherShard(a) \cup OtherTime(a) \cup OtherRoot(a)
        \cup UNION {OtherFact(a, s) : s \in Statements}

Usable(a) == a.from < a.to /\ Len(a.shards) = a.to - a.from

\* The block the leaves under a root were given, put together.
Block(j) ==
    [counts |-> j.shape[1], windows |-> j.shape[2],
     lists |-> [i \in 1..Len(j.shards) |-> j.shards[i].commitment],
     roots |-> [i \in 1..Len(j.shards) |-> j.shards[i].roots],
     proofs |-> j.shards, io |-> j.io, exit |-> j.exit, boundary |-> j.factors]

\* A statement whose own block `verify_block` accepts.
Honest(s) ==
    VerifyBlock(Block(LeafJournal(Advice(s, 0, Total(s.counts), s.digest))), s.digest)

TreeInit ==
    /\ token \in {"own", "mixed"}
    /\ \E plan \in Plans :
          /\ tree = Plan(plan)
          /\ keptTo = {s \in Statements : /\ token = "own" /\ Honest(s)
                                         /\ Total(s.counts) = Len(plan.costs)}
    /\ proved = <<>>
    /\ digests = [d \in {s.digest : s \in Statements} \cup {"mixed"} |->
                    IF d = "mixed" THEN <<>>
                    ELSE LET s == CHOOSE s \in Statements : s.digest = d
                         IN  Transcript(Advice(s, 0, Total(s.counts), d))]
    /\ departed = 0
    /\ decided = "none"

Next1 == Len(proved) + 1
InTurn(kind) == Next1 <= Len(tree) /\ tree[Next1].kind = kind /\ decided = "none"

\* The chain claims are the statement's own, or what the last proof left.
WithChains(a) ==
    {a} \cup (IF proved = <<>> THEN {} ELSE {[a EXCEPT !.chain = Last(proved).journal.chain_out]})

Publish(a) ==
    LET holds == LeafHolds(a)
    IN  /\ proved' = Append(proved, NodeProof("leaf", holds, LeafJournal(a)))
        /\ digests' = IF holds /\ Ends(a) THEN [digests EXCEPT ![a.digest] = Transcript(a)]
                      ELSE digests
        /\ UNCHANGED <<tree, token, decided>>

ProveLeaf ==
    /\ InTurn("leaf")
    /\ \E s \in Statements :
         LET own == Advice(s, tree[Next1].from, tree[Next1].to,
                           IF token = "own" THEN s.digest ELSE token)
         IN  \E a \in WithChains(own) :
               /\ Publish(a)
               /\ keptTo' = IF a = own THEN keptTo \cap {s} ELSE {}
               /\ UNCHANGED departed

DepartingLeaf ==
    /\ InTurn("leaf") /\ departed < Departures
    /\ \E s \in Statements :
         LET own == Advice(s, tree[Next1].from, tree[Next1].to,
                           IF token = "own" THEN s.digest ELSE token)
         IN  \E a \in WithChains(own) : \E b \in Departed(a) :
               /\ Usable(b)
               /\ Publish(b)
               /\ departed' = departed + 1
               /\ keptTo' = {}

Children == [i \in 1..Len(tree[Next1].children) |-> proved[tree[Next1].children[i]]]

ProveNode ==
    /\ InTurn("node")
    /\ \E ids \in {Programs, <<"leaf", "fake">>, <<"fake", "node">>} :
         /\ proved' = Append(proved, NodeProof("node", InternalHolds(Children, ids),
                                               InternalJournal(Children, ids)))
         /\ keptTo' = IF ids = Programs THEN keptTo ELSE {}
    /\ UNCHANGED <<tree, digests, token, departed, decided>>

\* A program of the prover's own publishes the journal of a leaf whose shards
\* it never verified.
ForgedNode ==
    /\ Forgeries /\ InTurn("leaf")
    /\ \E s \in Statements :
         LET a == Advice(s, tree[Next1].from, tree[Next1].to, s.digest)
             forged == [LeafJournal(a) EXCEPT
                           !.shards[1].roots.reads = One, !.identities = Programs]
         IN  proved' = Append(proved, NodeProof("fake", TRUE, forged))
    /\ keptTo' = {}
    /\ UNCHANGED <<tree, digests, token, departed, decided>>

Decide ==
    /\ Len(proved) = Len(tree) /\ decided = "none"
    /\ decided' = IF TopHolds(Last(proved)) THEN "accepted" ELSE "refused"
    /\ UNCHANGED <<tree, proved, digests, token, departed, keptTo>>

TreeDone == decided # "none" /\ UNCHANGED treeVars

TreeNext == ProveLeaf \/ DepartingLeaf \/ ProveNode \/ ForgedNode \/ Decide \/ TreeDone
TreeSpec == TreeInit /\ [][TreeNext]_treeVars

-----------------------------------------------------------------------------
DigestOf(t) == IF Known(t) THEN CHOOSE d \in DOMAIN digests : digests[d] = t ELSE "unknown"

\* A root the contract accepts is a block `verify_block` accepts: whatever the
\* prover gave the nodes, the shards under the root are one statement's, each
\* once and in order, proved under the digest of the transcript that absorbed
\* them, their roots reconcile, their openings hold, and the public values and
\* the exit status are that statement's (node.rs `internal`, `statement`).
AcceptedRootsAreAcceptedBlocks ==
    decided = "accepted" =>
        LET block == Block(Last(proved).journal)
        IN  VerifyBlock(block, DigestOf(BlockMessages(block)))

\* A prover that follows the plan with the proofs of one statement, whose block
\* `verify_block` accepts, meets no refusal, at a node or at the contract,
\* however the plan cut and grouped the shards.
PlannedTreesAreAccepted ==
    keptTo # {} => /\ \A i \in 1..Len(proved) : proved[i].exit = 0
                   /\ decided # "refused"

\* The plan is a tree over the shards: the last node is under none and every
\* other under one, a node takes two to `fan_in` children, each once and planned
\* before it, and the leaves are consecutive, within the shard limit, and within
\* the budget unless a shard alone is over it (Tree::plan).
PlanIsTree(plan) ==
    LET nodes == Plan(plan)
        n == Len(nodes)
        internal == {i \in 1..n : nodes[i].kind = "node"}
        over(j) == {i \in internal : j \in ToSet(nodes[i].children)}
        before[i \in 0..Len(plan.costs)] ==
            IF i = 0 THEN 0 ELSE before[i - 1] + plan.costs[i]
    IN  /\ over(n) = {} /\ \A j \in 1..n - 1 : \E i \in internal : over(j) = {i}
        /\ \A i \in internal : /\ Len(nodes[i].children) \in 2..plan.fan_in
                               /\ IsInjective(nodes[i].children)
                               /\ ToSet(nodes[i].children) \subseteq 1..i - 1
        /\ \E m \in 1..n :
              /\ internal = m + 1..n
              /\ nodes[1].from = 0 /\ nodes[m].to = Len(plan.costs)
              /\ \A i \in 1..m - 1 : nodes[i].to = nodes[i + 1].from
              /\ \A i \in 1..m :
                    LET shards == nodes[i].to - nodes[i].from
                    IN  /\ shards \in 1..plan.leaf
                        /\ shards > 1 =>
                              before[nodes[i].to] - before[nodes[i].from] <= plan.budget

PlansAreTrees == proved = <<>> => \A plan \in PlanGrid : PlanIsTree(plan)
=============================================================================

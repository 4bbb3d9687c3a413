--------------------------- MODULE BlockVerifier ---------------------------
(***************************************************************************)
(* What `verify_block` asks of a block proof                               *)
(* (crates/verifier/src/lib.rs, crates/verifier-core/src/{reduce,block}.rs)*)
(*                                                                         *)
(* A shard proof is abstract: the digest it was seeded with, the shard it  *)
(* is of, its time window, the commitment it opens and the roots it        *)
(* claims.  The circuit and the opening are sound and complete: a proof    *)
(* opens exactly when its commitment holds a trace of its family and the   *)
(* roots it claims are the trace's.  A root is the product of one tuple a  *)
(* row under random challenges, so it is the bag of the tuples.            *)
(***************************************************************************)
EXTENDS Statement

CONSTANTS
    KeyHeights,     \* the key's heights
    Clock,          \* 2^TS_BITS
    Tuples,         \* the memory argument's tuples
    TraceOf,        \* commitment -> [family, reads, writes, words]
    FinalsOf        \* boundary -> [reads, writes, exit]

ASSUME TracesAssumption ==
    \A c \in DOMAIN TraceOf :
        TraceOf[c].reads \in [Tuples -> Nat] /\ TraceOf[c].writes \in [Tuples -> Nat]

Times(a, b) == [x \in Tuples |-> a[x] + b[x]]
One == [x \in Tuples |-> 0]
Product(bags) ==
    LET upto[n \in 0..Len(bags)] == IF n = 0 THEN One ELSE Times(upto[n - 1], bags[n])
    IN  upto[Len(bags)]

\* Step 10b: `x10`'s final value is the exit status, and the roots of every
\* shard reconcile against the boundary's factors.
Reconciles(reads, writes, boundary) ==
    Times(reads, FinalsOf[boundary].reads) = Times(writes, FinalsOf[boundary].writes)

\* Step 12, deferred.
RootsOf(c) == [reads |-> TraceOf[c].reads, writes |-> TraceOf[c].writes]
Opens(proof) ==
    /\ TraceOf[proof.commitment].family = proof.family
    /\ proof.roots = RootsOf(proof.commitment)

\* Step 10c: a public shard's column is the statement's bytes.
PublicValueHolds(proof, io) ==
    /\ proof.family = "PUBLIC_INPUT" => TraceOf[proof.commitment].words = io[1]
    /\ proof.family = "PUBLIC_OUTPUT" => TraceOf[proof.commitment].words = io[2]

\* A shard proof against the global phase: steps 4 to 11.
VerifyShardLocal(proof, shard, digest, io) ==
    /\ proof.ts[1] <= proof.ts[2] /\ proof.ts[2] <= Clock
    /\ proof.under = digest
    /\ proof.family = shard.family /\ proof.index = shard.index
    /\ PublicValueHolds(proof, io)

\* The time windows of cycle-owning families: not empty, and one family's
\* neighbours in order.
TsWindowHolds(proof) == proof.family \in CycleOwning => proof.ts[1] < proof.ts[2]
TsWindowsApart(prev, next) ==
    prev.family = next.family /\ prev.family \in CycleOwning => prev.ts[2] < next.ts[1]
TsWindowsMeet(prev, next) ==
    prev.family = next.family /\ prev.family \in CycleOwning => prev.ts[2] <= next.ts[1]
CheckTsWindows(proofs) ==
    /\ \A i \in 1..Len(proofs) : TsWindowHolds(proofs[i])
    /\ \A i \in 1..Len(proofs) - 1 : TsWindowsMeet(proofs[i], proofs[i + 1])

\* The global transcript of a block [counts, windows, lists, roots, proofs, io,
\* exit, boundary].
BlockMessages(b) ==
    GlobalMessages(b.counts, b.windows, "identity", b.io, b.lists, b.boundary)

\* The block under the key, its global transcript hashed to `digest`.
VerifyBlock(b, digest) ==
    LET shards == StatementShards(b.counts)
    IN  /\ CheckMemoryWindows(KeyHeights, b.counts, b.windows)
        /\ Len(b.lists) = Total(b.counts) /\ Len(b.roots) = Total(b.counts)
        /\ Len(b.proofs) = Total(b.counts)
        /\ CheckTsWindows(b.proofs)
        /\ FinalsOf[b.boundary].exit = b.exit
        /\ Reconciles(Product([i \in 1..Len(b.roots) |-> b.roots[i].reads]),
                      Product([i \in 1..Len(b.roots) |-> b.roots[i].writes]), b.boundary)
        /\ \A i \in 1..Len(b.proofs) :
              /\ VerifyShardLocal(b.proofs[i], shards[i], digest, b.io)
              /\ b.proofs[i].commitment = b.lists[i]
              /\ b.proofs[i].roots = b.roots[i]
              /\ Opens(b.proofs[i])
=============================================================================

--------------------------- MODULE StreamedProver ---------------------------
(***************************************************************************)
(* `prove_block_streaming` (crates/prover/src/streaming.rs): one execution *)
(* run twice through the pipeline.  Pass 1 commits each shard as it fills, *)
(* and at the exit the window shards, which no chunk carries; its          *)
(* commitments make the statement.  Pass 2 proves each shard under that    *)
(* statement.  The pipeline is what ShardQueue promises of it, its results *)
(* in no order; each is placed by its family and index.                    *)
(*                                                                         *)
(* An execution is its statement [counts, windows, lists, io, exit,        *)
(* boundary, ts], the families its shards fill in, whether it traps        *)
(* in place of exiting, and the shards, by position, that have no columns  *)
(* or whose lookups cannot be counted.  Both passes run the same one: the  *)
(* executor is a function of the image and its input.                      *)
(***************************************************************************)
EXTENDS BlockVerifier

CONSTANTS
    Executions,
    InFlight,       \* max_in_flight
    Running, Done, Reraised     \* of a pipeline's result

VARIABLES
    execution,
    pass,           \* 1, 2, or 0 when the call has returned
    filled, outcome, source, stopped, result,   \* the pass's pipeline
    committed,      \* the statement's memory commitments, after pass 1
    global,         \* and what the global transcript absorbed
    answer          \* what the call returned

queueVars == <<filled, outcome, source, stopped, result>>
streamVars == <<execution, pass, queueVars, committed, global, answer>>

Queue == INSTANCE ShardQueue WITH Bound <- InFlight

-----------------------------------------------------------------------------
(* Shards. *)

Orders == [counts \in {e.counts : e \in Executions} |-> StatementShards(counts)]
Order == Orders[execution.counts]

\* The k-th chunk: the executor numbers each family's own.
ChunkOf(e, k) ==
    LET before == {j \in 1..k - 1 : e.fills[j] = e.fills[k]}
    IN  [family |-> e.fills[k], index |-> Cardinality(before)]
Chunk(k) == ChunkOf(execution, k)

\* What an execution is of its statement: the plan's counts are of its chunks,
\* of every shard of a family that fills and of no other, and what it leaves is
\* right, in time windows, public values, exit status and memory, which Machine
\* and RowCircuits are about.
FillsThePlan(e, order) ==
    /\ e.fills \in Seq(ToSet(Families))
    /\ \A k \in 1..Len(e.fills) : ChunkOf(e, k) \in ToSet(order)
    /\ \A p \in DOMAIN order : order[p].family \in ToSet(e.fills) =>
           \E k \in 1..Len(e.fills) : ChunkOf(e, k) = order[p]
ASSUME ExecutionsAssumption ==
    \A e \in Executions :
        LET order == StatementShards(e.counts)
            n == Total(e.counts)
            of(p) == [family |-> order[p].family, ts |-> e.ts[p], commitment |-> e.lists[p]]
        IN  /\ n \in Nat /\ DOMAIN order = 1..n /\ IsInjective(order)
            /\ FillsThePlan(e, order)
            /\ e.traps \in BOOLEAN /\ e.unfillable \cup e.uncountable \subseteq 1..n
            /\ CheckMemoryWindows(KeyHeights, e.counts, e.windows)
            /\ e.lists \in [1..n -> DOMAIN TraceOf]
            /\ \A p \in 1..n :
                  /\ TraceOf[e.lists[p]].family = order[p].family
                  /\ e.ts[p][1] <= e.ts[p][2] /\ e.ts[p][2] <= Clock
                  /\ PublicValueHolds(of(p), e.io)
            /\ CheckTsWindows([p \in 1..n |-> of(p)])
            /\ FinalsOf[e.boundary].exit = e.exit
            /\ Reconciles(Product([p \in 1..n |-> RootsOf(e.lists[p]).reads]),
                          Product([p \in 1..n |-> RootsOf(e.lists[p]).writes]), e.boundary)
\* What a pipeline returns when no shard failed is neither nothing nor a failure.
ASSUME ResultAssumption ==
    /\ Done # Running
    /\ \A e \in Executions, by \in {"work", "executor"} :
          \A at \in 0..Len(e.fills) : [at |-> at, by |-> by] \notin {Running, Done}

Position(shard) == CHOOSE i \in DOMAIN Order : Order[i] = shard

\* commit_source reads a shard's memory columns, prove_source all of them.
Works(p) == p \notin execution.unfillable /\ (pass = 2 => p \notin execution.uncountable)

\* A commitment, and a proof: its opening is against the statement's
\* commitment, its roots are of the columns of this pass.
GlobalOf(lists) ==
    GlobalMessages(execution.counts, execution.windows, "identity", execution.io,
                   lists, execution.boundary)
ProofAt(p) ==
    [family |-> Order[p].family, index |-> Order[p].index, ts |-> execution.ts[p],
     under |-> global, commitment |-> committed[p],
     roots |-> RootsOf(execution.lists[p])]
Made(p) == IF pass = 1 THEN execution.lists[p] ELSE ProofAt(p)

-----------------------------------------------------------------------------
(* The pipeline of a pass, over this execution. *)

ChunkCount == Len(execution.fills)
FillChunks ==
    /\ filled' \in filled + 1..ChunkCount
    /\ Queue!Fill
EndExecution ==
    IF execution.traps THEN filled = ChunkCount /\ source' = "failed" /\ Queue!Break
    ELSE filled' = ChunkCount /\ Queue!Exit
WorkChunk ==
    \E k \in Queue!Unfinished :
        /\ outcome' = [outcome EXCEPT ![k] = IF Works(Position(Chunk(k))) THEN "ok" ELSE "err"]
        /\ Queue!Conclude

RunPipeline ==
    /\ pass # 0
    /\ FillChunks \/ EndExecution \/ WorkChunk \/ Queue!Begin \/ Queue!StopBeginning \/ Queue!Tell
    /\ UNCHANGED <<execution, pass, committed, global, answer>>

-----------------------------------------------------------------------------
(* After it. *)

\* The shards whose results the workers' lists hold, joined.
Results == {[i \in 1..ChunkCount |-> Chunk(s[i])] : s \in Bijection(1..ChunkCount, 1..ChunkCount)}

\* The shards no chunk carried: by family in pass 1, by place in pass 2.
Unplaced(results) ==
    IF pass = 1
    THEN {p \in DOMAIN Order : \A i \in DOMAIN results : results[i].family # Order[p].family}
    ELSE {p \in DOMAIN Order : \A i \in DOMAIN results : results[i] # Order[p]}

\* Mutant: results in the order they came, the window shards where they go.
PlacedAsTheyCame(results) ==
    LET rest == Unplaced(results)
        before(p) == Cardinality({q \in 1..p : q \notin rest})
    IN  [p \in DOMAIN Order |-> IF p \in rest THEN Made(p) ELSE Made(Position(results[before(p)]))]
\* Each statement shard's own: from the chunks, or built from the final state.
Placed(results) ==
    [p \in DOMAIN Order |->
        IF p \in Unplaced(results) THEN Made(p)
        ELSE Made(Position(CHOOSE shard \in ToSet(results) : shard = Order[p]))]

\* The assertions: each result has its place, alone, and pass 1 filled the
\* plan's counts.
ResultsFit(results) ==
    /\ \A i \in DOMAIN results : results[i] \in ToSet(Order)
    /\ \A i, j \in DOMAIN results : results[i] = results[j] => i = j
    /\ Len(results) + Cardinality(Unplaced(results)) = Len(Order)

Answered(kind, at) == [kind |-> kind, pass |-> pass, at |-> at, block |-> <<>>]
Return(a) == pass' = 0 /\ answer' = a /\ UNCHANGED <<execution, queueVars, committed, global>>

\* public_inputs, and the block around it.
BlockOf(proofs) ==
    [counts |-> execution.counts, windows |-> execution.windows, lists |-> committed,
     roots |-> [p \in DOMAIN proofs |-> proofs[p].roots], proofs |-> proofs,
     io |-> execution.io, exit |-> execution.exit, boundary |-> execution.boundary]

StartPass(n) ==
    /\ pass' = n
    /\ filled' = 0 /\ outcome' = <<>> /\ source' = "running" /\ stopped' = FALSE
    /\ result' = Running

\* The window shards in batches, of which the first failure is returned, and
\* then the end of the pass.
EndPass ==
    /\ pass # 0
    /\ result = Done
    /\ \E results \in Results :
        LET failing == {p \in Unplaced(results) : ~Works(p)}
        IN  IF ~ResultsFit(results) THEN Return(Answered("panic", 0))
            ELSE IF failing # {}
            THEN Return(Answered("work", CHOOSE p \in failing : \A q \in failing : p <= q))
            ELSE IF pass = 1
            THEN /\ committed' = Placed(results)
                 /\ global' = GlobalOf(committed')
                 /\ StartPass(2)
                 /\ UNCHANGED <<execution, answer>>
            ELSE Return([Answered("block", 0) EXCEPT !.block = BlockOf(Placed(results))])

PassFails ==
    /\ pass # 0
    /\ result \notin {Running, Done}
    /\ Return(Answered(result.by, IF result.by = "work" THEN Position(Chunk(result.at + 1)) ELSE 0))

StreamInit ==
    /\ execution \in Executions
    /\ pass = 1
    /\ Queue!QueueInit
    /\ committed = <<>> /\ global = <<>>
    /\ answer = [kind |-> "none", pass |-> 0, at |-> 0, block |-> <<>>]

StreamNext == RunPipeline \/ EndPass \/ PassFails

StreamSpec == StreamInit /\ [][StreamNext]_streamVars

-----------------------------------------------------------------------------
\* What one worker would answer: of pass 1, then of pass 2, the first chunk in
\* fill order that fails, the executor's failure after them, then the first
\* window shard.
FirstFailure(bad) ==
    LET chunks == {k \in 1..ChunkCount : Position(Chunk(k)) \in bad}
        windows == {p \in bad : \A k \in 1..ChunkCount : Chunk(k) # Order[p]}
        first(S) == CHOOSE x \in S : \A y \in S : x <= y
    IN  IF chunks # {} THEN <<"work", Position(Chunk(first(chunks)))>>
        ELSE IF execution.traps THEN <<"executor", 0>>
        ELSE IF windows # {} THEN <<"work", first(windows)>>
        ELSE <<"none", 0>>

\* The streamed block is the archived prover's: the statement's commitments and
\* proofs, each at its own place, and one the verifier takes, at any bound and
\* whatever order the shards ended in; and if shards fail, the failure returned
\* is the one a single worker would have met first.
StreamedAnswersAreTheExecutions ==
    LET met(bad) == FirstFailure(bad)
        one == met(execution.unfillable)
        two == met(execution.unfillable \cup execution.uncountable)
    IN  pass = 0 =>
        IF one[1] # "none" THEN <<answer.kind, answer.pass, answer.at>> = <<one[1], 1, one[2]>>
        ELSE IF two[1] # "none" THEN <<answer.kind, answer.pass, answer.at>> = <<two[1], 2, two[2]>>
        ELSE /\ answer.kind = "block"
             /\ answer.block.lists = execution.lists
             /\ VerifyBlock(answer.block, BlockMessages(answer.block))
=============================================================================

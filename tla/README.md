# Apogee VM in TLA+

A model of the parts of the Apogee zkVM whose correctness depends on the order
in which things happen. Apogee proves executions of RV32IMAC programs: it runs
the guest, cuts the execution into *shards*, commits and proves each shard, and
a verifier (natively, recursively or on chain) checks the whole block. Paths
below are relative to `src/`.

## 1. The system

| component | code | state it keeps | operations | depends on |
| --- | --- | --- | --- | --- |
| streaming pipeline | `crates/prover/src/streaming.rs` | `Source` behind one mutex: the executor, waiting shards, counts, earliest failure, stop flag; per worker the shard it holds | `claim`, `admit`, `give_back`, `fail`, `StopOnPanic::drop`, the join in `pipeline` | the streaming executor, the shard prover |
| two passes | same file | the statement, both passes' results, positions | `pass1`, `pass2`, `commit_source`, `prove_source` | the pipeline, the verifier's transcript |
| streaming executor, recorder | `crates/emulator/src/lib.rs` | the machine; per family a row buffer, a row count, the shards filled and not handed over | `next_shards`, `finish`, `record`, `flush_*` | the memory log, the shard plan |
| shard plan | `crates/trace/src/lib.rs` | none (pure) | `plan_shards`, `init_windows`, advice windows | - |
| memory event log | `crates/trace/src/log.rs`, `memory.rs` | last value and time of every cell, the events | `record`, `final_state`, `self_check` | - |
| phase archive, staged prover | `crates/trace/src/archive.rs`, `crates/prover/src/phases.rs` | which phases are filled, each phase's parts | `fill`, `export`, `import`, `advance`, `finish` | shard prover |
| shard filler, shard prover | `crates/prover/src/fill.rs`, `lib.rs` | columns of one shard | `fill`, `prove_shard` | GKR, PCS, transcript |
| transcript | `crates/transcript` | sponge state, input and output buffers | `observe`, `sample`, `snapshot`, `restore` | Poseidon2 |
| block verifier | `crates/verifier-core`, `crates/verifier` | none (pure) | shape, window, statement and reconciliation checks | transcript, GKR, PCS |
| recursion | `crates/verifier-core/src/{chain,node,fold,tape,reduce}.rs`, `crates/host/src/recursion.rs` | a node's journal: shards covered, chain state at both ends, root products, accumulator | leaf, internal node, root | block verifier |
| decider, ceremony | `crates/groth16` | the ceremony's transcript and files | `contribute`, `apply`, `seal`, `verify`, `finish` | SRS |
| host | `crates/host` | RPC cache directory, recorded witness | `call`, `fetch`, `load` | network |
| guest SDK | `crates/guest-sdk` | journal window, bump pointer | `commit`, `journal`, `alloc` | emulator's memory map |
| loader, program, isa | `crates/{loader,program,isa}` | none (pure) | image, tables, decode | - |
| circuits, checker, GKR, sumcheck, PCS, field, curve | the crates of those names | none (pure) | arithmetic over a 254-bit field | - |
| guests | `guests/*` | the program's own | - | guest SDK |
| contract | `contracts/` | none | one pairing check | the decider |
| tools | `tools/bench` | a tree's directory: programs, plan, proofs, partial proofs; a ceremony's two files | `recurse` and its node processes, `ceremony` | recursion, the ceremony |

**How they interact.** A block is proved by executing the guest twice through
the same pipeline. Each worker thread locks `Source`, gives back the shard it
held, and claims another; if none waits it steps the executor, under the lock,
until a buffer fills. The worker then works the shard outside the lock. After
the last worker is joined, the pipeline re-raises a panic, or returns the
earliest failure, or the results, which the pass places by statement position.
The commitments of pass 1 make the statement: its digest seeds every shard's
proof in pass 2. `verify_block` runs the same transcript again. A recursion tree
does it in parts: a leaf verifies some neighbouring shards and says in its
journal where the transcript stood before and after them; a node joins children
whose journals meet; the decider asks of the root what `verify_block` asks of the
block. `bench recurse` proves the tree's nodes as processes that share only a
directory.

**What is hard.** Interleavings of workers under one lock; failures and panics
of some workers while others hold shards; a poisoned mutex; ordering claims
made of *every* schedule ("the failure returned is the earliest in fill order,
at any worker count", "no deadlock", "the executor never runs ahead of
demand"); the arithmetic of an incremental cut that must agree with a plan made
afterwards. A transcript cut anywhere must be the one that was not cut, and a
prover who may give each node of a tree something else must not gain by it. A
row's gates and lookups must leave one write, the emulator's, for every operand,
at every carry, sign and zero. Files are written in place, and processes are
stopped. `PROJECT.json` lists each hazard with its line.

**What makes each part correct.** The recorder: its shards are the plan's, each
once, with the plan's rows. The pipeline: claims in fill order, once; bounded
shards; no lost failure; the single-worker answer; it always ends. The log: every
read returns the last write. The archive: a phase is filled once, in order, and a
resumed prover ends with the proof an uninterrupted one makes. The transcript:
the verifier and the prover absorb the same messages in the same order, and a
restored sponge continues the original. The window rules: no word has two initial
rows. Recursion: a root the contract takes is a block `verify_block` takes. The
circuits: a row is a step of the emulator, and each step has a row. The scheduler:
no node waits for what another holds, and a stopped tree is proved in the end. The
ceremony: a state that verifies, and a key, are of the circuit and the
contributions on record.

## 2. The modules

| module | models | role |
| --- | --- | --- |
| `Executor` | `StreamingRun`, `Recorder` | component |
| `Pipeline` | `pipeline`, `worker`, `Source`, `StopOnPanic`, over `Executor` | composition |
| `ShardQueue` | what a caller of the pipeline may rely on | abstract specification |
| `StreamedProver` | `prove_block_streaming`, two passes over `ShardQueue` | composition |
| `MemoryLog` | `MemoryState`, `MemoryEventLog`, `self_check` | component |
| `Machine` | `Machine::execute`, `ecall`, `delegate`, `Recorder::record`, over `MemoryLog` | composition |
| `PhaseArchive` | `TraceArchive`: `fill`, `export`, `import` | component |
| `StagedProver` | `advance`, `prove_block`, `finish`, over `PhaseArchive` | composition, with a caller |
| `Statement` | a statement's shards, window rules and messages | pure |
| `Transcript` | the duplex sponge and its tagged messages | pure |
| `Chain` | the global transcript cut between nodes, beside the uncut one | component |
| `BlockVerifier` | `verify_block`, and the checks recursion shares with it | pure |
| `RecursionTree` | the tree's plan, leaf and internal nodes, the decider, a prover who is not trusted | composition |
| `Isa` | what `execute`, `ecall`, loads, stores and AMOs compute | pure, reference |
| `RowGadgets` | the circuits' shared gadgets | pure |
| `AddSubCircuit`, `JumpBranchCircuit`, `ShiftCircuit`, `MulDivCircuit`, `MemoryCircuits`, `AtomicsCircuit` | the gates and lookups of the seven execution families, and their fills | pure |
| `RowCircuits` | a row given its columns, group by group | composition |
| `TreeScheduler` | `bench recurse`: `run` and its `node` processes over a directory | component |
| `Ceremony` | `phase2.rs`, and its command over two files | component |
| `MC...` | small instances | TLC |
| `PipelineProofs`, `MemoryLogProofs`, `MachineProofs`, `StagedProofs`, `StatementProofs`, `TreeProofs`, `SchedulerProofs`, `CeremonyProofs` | the theorems about `Executor` with `Pipeline`, `MemoryLog`, `Machine`, `StagedProver`, `Chain` with `StreamedProver`, `RecursionTree`, `TreeScheduler` and `Ceremony` | TLAPS |

### Executor

| model | code |
| --- | --- |
| `phase` | the run's life: stepping, `exited`, inside `flush_partial`, finished, failed |
| `cycle` | the machine's cycle counter; `MaxCycles` is the last cycle the 38-bit clock times |
| `rows[f]` | every row given to family `f`; the code keeps only its length (`row_counts`) |
| `buffer[f]` | `Recorder`'s family or delegation buffer |
| `ready` | the shards `next_shards` has not returned yet, and `flush_partial`'s `out` |
| `handed` | everything returned to the caller so far (history) |
| `PushRows`, `Flushed` | `record`, `flush_family`, `flush_delegation` |
| `StepCycle`, `StepDelegation`, `StepExit`, `StepFails` | one turn of `next_shards`' loop |
| `BeginFinish`, `FlushBuffer`, `Finish` | `StreamingRun::finish` |

A row is the number of its cycle, so two rows of a family are never equal and a
shard's contents say exactly which cycles it covers. The guest is abstract: any
sequence of families may own the cycles. Memory events of a row are left out;
they ride with the row and decide nothing about the cut.

### Pipeline

One action per critical section or per executor step within one:
`Enter` (lock and `give_back`), `Claim`, `Leave`, `Drive*` (steps taken by the
lock's holder), `FindPoison`, `Work*` (outside the lock), `Unwind`
(`StopOnPanic`), `Join`. Splitting the critical section lets another worker's
work end between any two executor steps, as it can in the code. `hand` and
`verdict` stand for the local `held`; `mine` is the worker's own result list.
A panic inside the executor releases and poisons the lock in one step.

`ShardQueue` is the specification of the whole: shards are numbered as they
fill, begun in that order, at most `Bound` unfinished, filled only on demand,
and the result is the one a single worker would give. `Queue` in `Pipeline` is
the refinement mapping.

### MemoryLog

| model | code |
| --- | --- |
| a cell | an address with its space; `Chained` are registers, RAM and the pc, `Anchors` the delegation spaces, `FieldCells` the field memory |
| `events` | `MemoryEventLog.events` |
| `lastAccess`, `fieldAccess` | `MemoryState`'s `regs`, `pc`, `ram` and `field`: present only for a touched cell |
| `Record`, `RecordField` | `record`, `record_field`; their assertions are the guards |
| `Adopt` | one turn of `from_events`: any event at all |
| `TimestampRules`, `Unbalanced`, `SelfCheck` | the two halves of `self_check`; the balance is a count per tuple |
| `Named` | the query a refusal names |

`Coherent` is what `self_check` is for and is written without it: every query
reads the last write before it at its cell. A value is any of a set, so nothing
depends on what a machine computes.

### Machine

An instruction is one action: it stages its queries and changes the machine at
once, as the code does. `pending` is then logged a query at a time, in the order
of `Recorder::record`, which is not the order of staging. `Compute` is every
instruction of registers alone; `Atomic` is `lr`, `sc` and the AMOs; `AnswerInPlace`
is the six base delegations; `FrOp` and `FrDigit`, `VectorOp` (`P2_FIELD`, `FQ_OP`),
`FieldImport` and `FieldExport` are the recursion ones. Which address a register
holds, what is computed and what a delegation answers are left open. An access
that the machine refuses (misaligned, out of bounds, a malformed frame) ends the
run before anything is logged; `Executor`'s `StepFails` is that step.

### PhaseArchive and StagedProver

| model | code |
| --- | --- |
| `archive` | the caller's `TraceArchive`; `NoArchive` while no process runs |
| `call` | where the running `advance` or `prove_block` is, and the phases' values it holds |
| `ended` | the results of the rayon tasks of `gkr_part` or `opening_part`, as they end |
| `answer` | what the last call returned |
| `file`, `saving` | the file's ten entries, whether `export` is writing them |
| `saved` | the archive whose export ended last (history) |
| `Commit`, `StartTasks`, `Task`, `JoinTasks`, `MakeFinal`, `ReadBack` | the bodies of `advance`'s phases |
| `Finish` | what `prove_block` does after its `advance` |
| `Save`, `WriteEntry`, `SaveFails`, `Load`, `Execute` | `export`, `import` and `from_execution`, called by the caller |
| `Crash`, `Damage` | the process ends; the file is changed on disk |

A commitment, a proof or a transcript is a term that says what it was made from,
so two contents are equal exactly when the same things went into them, in the
same order. A shard is its place in the statement. A section's bytes are the
term, `Empty`, or `Garbled` for bytes that decode to nothing; an entry cut in the
middle is a missing one, since neither decodes. `check_parts` is that difference.
The setup is the same before and after a resume, as the keys are. The caller is
external: the repository has the functions it calls and no program that stops
and goes on. Any panic, and an end for want of memory, is `Crash`.

### Statement, Transcript and Chain

| model | code |
| --- | --- |
| `StatementShards`, `GroupOrder` | `shards_in_statement_order`, `group_order` |
| `CheckMemoryWindows` | `check_memory_windows` over a RAM of 32 words |
| `PrefixMessages`, `SegmentMessages`, `SuffixMessages` | `chain.rs`' three parts |
| `GlobalMessages` | `global_transcript` |
| `Observe`, `Sample`, `Resume` | `Transcript`'s, and the cell twin of `tape.rs` |
| `Prefix`, `Segment`, `Cut`, `Suffix` | what a leaf runs of the chain; `Cut` is between two nodes |

The permutation is taken as injective and one-way: a sponge's state is the log of
what its duplex steps absorbed, so two states are equal exactly when the same
scalars went in at the same steps. A node's journal holds three lanes and at most
one pending scalar, whose presence a node computes from the parity of what came
before (`families_alone`, `pending`); `Cut` resumes from that, and `uncut` runs on
beside it.

### BlockVerifier, RecursionTree and StreamedProver

A shard proof is opaque: it opens exactly when its commitment holds a trace of its
family and the roots it claims are the trace's. A root is a product of tuples
under random challenges, so it is their bag. What is modelled is what the code
around the proofs compares with what.

| model | code |
| --- | --- |
| `Plan`, `Leaves`, `Close`, `Level`, `Climb` | `Tree::plan` |
| `Advice`, `LeafHolds`, `LeafJournal` | what the host gives a leaf; `statement` and the leaf's journal |
| `ChildHolds`, `Neighbours`, `InternalHolds`, `InternalJournal` | `internal` |
| `TopHolds` | the decider's circuit under the contract's identities |
| `ProveLeaf`, `DepartingLeaf`, `ProveNode`, `ForgedNode`, `Decide` | the prover's choices |

The prover holds proofs of two statements. It may cut a leaf elsewhere, take one
part of its advice from the other statement, claim a chain state the last node
left, name a digest before it is known, or put a program of its own in a node's
place and publish any journal. It cannot break a proof, a hash or a permutation.
`keptTo` holds the honest statements every choice so far was the own of: a
statement is `Honest` when `verify_block` accepts its own block, and it is dropped at
the first choice that is not its proofs at the plan's place under the contract's
identities.

`StreamedProver` runs `ShardQueue` once a pass and takes its results in any
order. `Placed` and the `ResultsFit` assertions are the code's; the traps and
failing shards are the execution's, the same in both passes, as the executor is a
function of the image and its input.

### Isa, RowGadgets and the circuits

`Isa` gives a step's effect: the registers and the word it writes, the next pc,
the delegation it asks for. It is a machine of `ByteBits`-bit bytes, four to a
word. A gadget in `RowGadgets` is the set of assignments its gates and lookups
allow over the field of `P` elements. Each circuit module splits a family's
columns into groups, in an order in which each group's gates read only itself and
those before (`Columns`), says what the row writes (`Outcome`), and what the
prover fills (`Fill`). A group's columns are every assignment the gates allow, so
an under-constrained column is a second row. Decoded columns are the family's
table row of the step's pc; a present query reads its register, which is the
memory argument's business. `RowCircuits` gives a row its groups one at a time.

### TreeScheduler

| model | code |
| --- | --- |
| `Launch`, `Check`, `Write` | `run` up to its loop: programs and plan read, refused or rewritten |
| `Start`, `Proved`, `Failed`, `CheckRoot` | its loop and `check_root` |
| `Share`, `Spare` | the shards in flight a node is given |
| `Read`, `Open`, `Fill`, `Rename` | `node`, one file operation at a time |
| `StopAlone`, `StopAll`, `StopNode` | a run stopped without its nodes, with them; a node stopped |

A file is absent, whole, torn, or being written by the process that truncated it
last: a node of a stopped run may still write when the next run proves its node
again.

### Ceremony

A group element is its discrete logarithm modulo `Q`, and a pairing equation is
one between products. A Schnorr proof is what it was made over.

| model | code |
| --- | --- |
| `Contributed`, `Sealed`, `Verifies`, `KeyOf` | `contribute` and `apply`; `seal`; `verify`; `key` |
| `StateLists`, `StateReadable`, `StateIn` | `State::write` and `State::read` |
| `KeyLists`, `KeyReadable`, `KeyIn` | `finish` and `ProvingKey::read` |
| `Begin`, `Contribute`, `Seal`, `Finish` | the steps of `bench ceremony` up to their write |
| `WriteState`, `WriteKey`, `Stop` | the write; a command stopped before it or within it |

A file is the lists written to it, in the order of the code's writes. Each carries its
length, so a list that is cut is refused as a file that ends before it is, and a
write that is cut short leaves any proper prefix (`Cut`). That such a file is refused
is what `read` does with it: it asks for every list, and takes what they hold. (What
the model has no data for, the magic, the constraints and the bound wires, is one
list, and a record's nonce and response are one column.) The mutants that write over an old file without truncating it leave one that is
taken. `finished` is history: the state of the key in the file, when that was written
whole. `Stranger` is what a state may become in other hands: one element
changed, a record dropped or added, an element moved under a trapdoor it has no
record of, round 1's terms summed after another contribution. `verify` must refuse
it or be right about it.

## 3. The runs

| run | instance | shows |
| --- | --- | --- |
| `pipeline` | 2 workers, 3 families (heights 2, 1, 1), 4 cycles, every fault, work that need not end | the cut, the counts, claims, demand, the answer; every schedule ends if the work does; no barrier; the abstract queue is implemented |
| `memory_audit` | one chained cell, one anchor, every log of 3 events | the self-check means coherence; what it names |
| `memory_named` | the same | expected violation, below |
| `machine` | 2 registers (one `x0`), 2 words, 2 field cells, frames of 1 and 2 words, 2 cycles | no query of an honest machine is refused; tables and machine agree |
| `staged` | 3 shards, five executions, four of them failing or recursive, crashes and torn files; 2 shards, a file changed twice | a resumed run gives the bytes and errors of an uninterrupted one; a changed file is refused or loads as a well-formed archive |
| `staged_recursion` | the executions of `staged` | expected violation, below |
| `chain` | 7 families, every shape over 32 words, every set of cuts | a cut transcript draws the native challenges; no word has two initial rows |
| `recursion` | 5 shards, leaves of 2 or 5, fan-in 2 or 4, two statements, one departure; 4 chunks, two in flight | the contract accepts what `verify_block` does; every plan followed is accepted; the streamed answer |
| `circuits` | words of 4 bits, a field of 521 | rows are steps, steps have rows |
| `scheduler` | 5 nodes, 3 in flight, one stop | the budget; no ready node waits; the tree is proved |
| `resume` | 3 nodes, one stop | expected violation, below |
| `ceremony` | a group of 11, 3 wires, up to 8 records, writes cut after any list | what reads back verifies; verified states and keys are of the contributions |

**Three findings.** `memory_named` shows that a refused balance at a *delegation anchor*
may name an honest request. `self_check` replays the unbalanced address as if it
chained, so the second request at one frame base, which rightly reads the answer
`(0, 0)`, is named before a corrupted third one. The doc of `SelfCheckError` says
that the timestamp is that of the query "that reads a value no write produced"
(`crates/trace/src/log.rs:201`). The refusal itself is right; in chained spaces so
is the name (`ChainedRefusalsNameTheFault`).

`staged_recursion` shows an archive that is built and cannot be exported.
`from_execution` takes every execution whose parts `check_parts` admits, and the doc
says of that check that "every archive that can be built can be read back"
(`crates/trace/src/archive.rs:54-56`, `131-132`). `export` asserts besides that no
buffer has field accesses (`archive.rs:438`), and a recursion family's buffer has
its columns of them even while it is empty: exporting the archive of any program
with a recursion family panics.

`resume` shows a stopped tree that does not resume. `run` truncates and rewrites the
programs and `tree.txt` in place at every start (`tools/bench/src/recurse.rs:217`,
`246`) and refuses a directory in which they differ from its own (`203`, `239`). A
run stopped between the truncation and the end of the write leaves a short file,
and every later run of the same tree is refused, though its doc says that "a
stopped run resumes" (`28-29`). `scheduler` checks that it does in every other
case, unless two processes prove one node: a node of a killed run that is still
proving when the next run starts it again may rename the other's half-written
file, which is why `StoppedRunsFinish` supposes neither.

**Bounds.** `MaxCycles` is a parameter of the code's own (the clock's end), so
the bounded runs reach the clock's exhaustion as well as the exit. Four cycles
over heights 2, 1 and 1 give families with zero, one and several shards, a partial
one, and steps that fill two buffers. Two workers are the least of which one fails
or panics while the other waits or holds a shard. The theorems cover any number of
workers, any families and heights.

Three events are enough for a cycle of reads that balances without the gap rule,
and for a stale read, a lost write and a forged value; the theorem covers the
rest. Two cycles are the least in which a cycle reads what another wrote; within
one, the small sets make every pair of operands overlap. A guest of `machine`
either uses recursion delegations or does not (`recursing`), as a program's
families are fixed; its two field cells are symmetric, since no definition tells
them apart. The log's clock is 4 ticks, so its end is reached.

Three shards are the least in which the failing task that ends first need not be
the first in the statement while another succeeds, and in which results may be
out of place by a rotation. Two changes to a file are enough to change a section
and the timing that should match it; those executions have two shards, and only
load and prove to the end once the file is changed.

`chain` has lists of window ids of each parity, so the sponge is cut with a pending
scalar and without; 32 words hold several windows of each height, touching,
overlapping and at either end. Five shards make leaves and nodes of
several sizes, and a carried orphan; `PlansAreTrees` looks at every plan of up to
six shards. One departure is enough for a lie; two statements share enough parts
to be mixed.

A bit a byte is the width of the repository's own exhaustive checks of these gates
(`crates/checker/tests/`): a word has a sign, a carry, four bytes and two halves.
`P` is over twice the square of a word, as the real field is. A step's operands
are ten values around zero, the sign and the top; its columns are unrestricted.
A state with six records takes no more, so there are up to three contributions to
round 1, or one and then two to round 2. Factors 2, 4 and 8 modulo 11 have no product
of up to three at 1, so that a contribution always shows. Five nodes have a join, a node carried up a level and three ready at
once.

**Deadlock** is checked in `pipeline`, `staged`, `chain`, `recursion` and `ceremony`,
where what has ended stutters by an action of its own (`Answered`, `ChainDone`,
`TreeDone`). It is not in `machine`, `memory_audit` and `memory_named`, whose logs end
with the clock or the bound, in `circuits`, whose rows end, and in `scheduler` and
`resume`, where a proved tree stops.

**Fairness.** `LockFairness`: a free mutex some worker waits for is taken by
some worker (not by each: `std::sync::Mutex` is not fair), and a worker inside the
critical section runs on, since nothing there blocks. `SlowSpec` is that and no
more: the work of a shard may go on for ever, which `NoBarrier` needs, and
`Terminates` is about the behaviours in which it ends. In `StagedProver`,
`WF(Prove)`: a call's own thread and its tasks run on, and nothing in them waits for
the caller, which has no fairness at all. In `TreeScheduler`, a run that ended is
started again, by whoever ran it, and the run and each process take their next
steps; no stop is fair.

## 4. The proofs

`PipelineProofs` proves of the executor, for every choice of families, heights and clock bound,
that the cut is the planned cut in every reachable state (`ShardsFollowThePlan`,
`FinishedRunsAreThePlan`), and the types, the partial buffers and the one shard a
family in each batch that it follows from.

`ExecutorInv` is inductive. The properties are not: that a shard handed over is
the planned cut says nothing of the shards still in `ready`, nor of what a
buffer holds. The strengthening says

- `BuffersInv`: buffer `f` is exactly the rows after the last multiple of
  `Height[f]`, unless the final flush has passed it;
- `ShardsInv`: each shard in `handed \o ready` holds the planned rows of its
  index, full or, after the flush, the tail;
- `OnceInv`: no two positions of `handed \o ready` have one family and index;
- `CoverInv`: every full multiple of rows has its shard there;
- `FlushInv`: `flushAt` is 0 before the flush, and the buffers it has passed are
  empty, with their tails cut;
- `OneShardPerFamilyReady` until the run ends.

The arithmetic facts it rests on (`QuotientIsUnique`, `NextMultiple`,
`CeilingCounts`, `PlacesAreApart`) are lemmas stated once. `ExecutorInv` was
checked with TLC before it was proved.

`PipelineProofs` proves, for any number of workers besides, every safety property
of the pipeline's run, the refinement of `ShardQueue` included. A pipeline step is an executor step
or leaves the executor alone (`PipelineRunsTheExecutor`), so the executor's
theorems hold of the pipeline too. On them the invariant is built in layers,
each proved inductive relative to the ones before it:

- `HoldInv`: the types; what a worker's hand may hold in each of its states;
  that a stop, a poisoned lock and a failure have their causes; that a worker
  leaves only for a reason that lasts (`HandsInv`, `CausesInv`, `LeftInv`);
- `CountInv`: `working` is the number of hands that hold a shard, and `peak`
  bounds it (`CountsAreRight`, `PipelineTypeCorrect`);
- `PlacesInv`: the queue is dense above the claimed places, and each claimed
  place is in one hand or in one worker's results (`ClaimsFollowFillOrder`); with
  the demand rule, one shard waits per family (`ProductionFollowsDemand`);
- `PoisonInv` and the causes give the join's expectations (`JoinsAsExpected`);
- `FailureInv`: every claimed place before the recorded failure is owned by
  somebody, and each failed shard is recorded or still in a hand. This is what
  the property itself lacks: a failure that is not yet reported may still be the
  first. With `AnswerInv` it gives `TheFirstFailureIsReturned`;
- `LinkInv`: place `k` is the `k`-th shard handed over, for what waits and for the
  results alike. With the executor's `FinishedRunsAreThePlan` and a counting
  lemma it gives `ResultsAreThePlan`: the answer is the plan's shards, each once;
- `LeaversInv` and `BrokenOffInv`: what a worker that leaves or panics still holds,
  and that the executor has failed when its failure is recorded, and neither
  finished nor failed when it panicked under the lock.

On all of these `PipelineImplementsTheQueue` shows each step of a thread to be one
action of `ShardQueue` or none. The mapping chooses the hand that holds a place;
since no two do, a place's outcome is its worker's state, or, in no hand, whether it is
among the results (`OutcomesShow`). So a shard given back keeps its outcome
although its evidence moves from the hand to the results or is dropped
(`EnterIsAQueueStep`), an empty hand leaves room for one more unfinished shard
(`AnEmptyHandIsRoom`), and the join's answer, which looks at panics and one recorded
failure only, is the one a look at every outcome would give (`JoinIsAQueueStep`).

`MemoryLogProofs` proves the argument on which the whole zkVM's memory rests, for
every log and every set of cells: `BalanceIsCoherence`. From the balance: in a
chained space a tuple is written at most once (`ChainedWrittenOnce`), so each
query reads the initial value or an earlier write and no two read the same
(`PassedReads`); then the least query that did not read its predecessor would
read a write, or the initial value, that another query already reads
(`PassedChainedCells`). At an anchor, what requests write the invocations consume,
so a tuple other than the answer is never read (`PassedAnchors`). Conversely each
write is read once, by the next query or at teardown (`WritesBalance`,
`InitialBalances`, `AnchorsBalance`). It is a theorem about `log`, not a state: the
runs check its instance for `events`.

For recording, `LogInv` is inductive: the types, the tables, the order of
timestamps (`InOrder`: strict within a chained cell, which no property states),
and `Chains`, coherence without the first reads, which the tables imply for the
next event (`ReadOfTheTables`). `LogSpec` has no bound on the number of queries.
`RefusalsAreExplained` is about any log again: at a chained cell whose balance is
refused, the least query that does not read its predecessor is the one named,
since what an earlier one reads is balanced by the write before it.

`MachineProofs` proves of every program's machine, over that log, what the run
`machine` checks: `RecordingNeverPanics`, `TeardownBindsTheMachine`,
`RoutingIsBySlot`, `HonestExecutionsPass`; and that the machine only records
(`MachinesRecord`: `MachineSpec` implies `LogSpec`), so that the log's theorems are
the machine's. In the middle of a cycle the tables and the machine differ, so none of it is
inductive. `MachineInv` adds

- `PendingPlays`: the queries still to be logged *play*, each reading what is there
  and leaving what it writes, from the memory in the tables to the machine's, and
  stand in the order of their slots;
- `OnTheClock`: what is logged is of this cycle or an earlier one, the pc's last
  write of the one before until the pc's own query is logged;
- `PendingAreFresh`: a cell still to be logged was last written strictly before,
  and its slot holds nothing but words that may share it.

An instruction's queries are sequences put end to end. Each kind, a register, a
load, a frame, an answer, a block of field cells, is a segment that plays and is
ordered (one lemma each), and two segments in order make one.

`StagedProofs` proves the safety properties of `staged` for any executions, shards,
crashes and damage: `StagedTypes`, `EveryArchiveIsWellFormed`,
`ResumedRunsAreTheRun`, `AnswersAreTheStatements`, `LoadsReturnTheSaved`. The
properties speak of archives and answers; `StagedInv` says besides what the call
under way holds: each phase before its own gave it what the execution's does,
computed or read back (`CallOK`), which is why no shard of the execution fails
before that phase; each result of a region is its own shard's, once (`RegionOK`);
and a file that is being written is a prefix of the archive's encoding
(`ExportOK`), so that one cut short is not accepted. The first failing result in
statement order is then the same whatever order the tasks end in.

`StatementProofs` proves the three properties of `Chain` for any families, shapes and
heights, and `StreamedAnswers` of `StreamedProver`; both rest on a statement's order.

- `CutChallengesAreGlobal`, `PendingIsPredicted`: however a tree cuts the transcript,
  it ends as the uncut one, and each boundary holds a pending input just where a
  tape expects one. `ChainInv` says what the chain has absorbed: the prefix and the
  segments up to its position, through every cut. A cut is harmless because the
  lanes and the input over are the whole sponge, and there is an input over exactly
  when an odd number of scalars went in (`StreamIsEven`). At the end it has absorbed
  position by position what the native transcript absorbs group by group, which is
  `SegmentsAreTheGroups`: groups with no shard start where the next one does, and
  those after the last shard belong to the suffix.
- `OneInitRow`: under the window rules two windows of the grid are equal only for one
  shard, as the listed ids ascend below the advice region and a word has one
  quotient by the height; the image's window begins above the public ones.

Sequences put end to end are known by what each adds: a function on naturals that
begins as another and goes on as it does is the other, by the least place at which
they would differ (`SameSteps`). No fold is computed.

`StreamedAnswers` is for any execution whose chunks are its plan's. `StreamInv` says of a pass which
chunks' failures it may have met and that a result names the first; at its end
the chunks and the window shards are the statement's shards, each once, so what is
placed by family and index is in order, and the verifier's checks hold of it.

`TreeProofs` proves `AcceptedBlocks` of `RecursionTree`: for any plans, any
statements, any number of departures and forgeries, a root the contract accepts is of
a block `verify_block` accepts. `TreeInv` says, of each proof whose program and
identities are the contract's, that its journal is `Sound`, against the shard proofs
the leaves under it were given, which the model carries beside the journal:

- they are at `from..to` of a shape the window rules accept, each verified against its
  place there, under the journal's digest and public values, and in time order;
- the journal's products are theirs, and what it says opens does;
- if the chain it took is one, the chain it leaves is that and their segments; and
  where they end the statement, the digest is of that chain and the suffix.

A leaf that holds publishes a sound journal, whatever parts it was given
(`LeafIsSound`), and two sound journals that are neighbours make one (`JoinedIsSound`),
by which a node over any number of sound children has one (`NodeIsSound`). A program
of the prover's own publishes what it likes, but no node with the contract's
identities takes it. Below the root the chain and the digest are claims: a leaf that
starts late is given a chain nobody has checked. The root starts at 0 and ends the
statement, so its chain is the transcript from the prefix on, which is
`global_transcript`'s by `SegmentsAreTheGroups`, and its digest, under which every
shard proof was checked, is of that transcript and no other: `TreeInv` also says that
no two digests are of one transcript and that none is rebound.

The converse is `PlannedTreesPass`, and rests on `PlannedTrees`: every plan is a tree
over the block's shards. The leaves are laid one after the other within the limits
(`LeavesAre`, by the costs of the shards so far). Between two levels the next level's
nodes are the roots of a forest whose spans meet from the first shard to the last
(`Tier`); within a level they are the nodes over the groups so far and the old ones
left (`Climbed`), and a group of one is carried up as it is (`ClimbKeeps`). A level
over more than one root leaves fewer (`LevelKeeps`), so the rounds `Plan` runs, one a
leaf, end with one, and as no child comes after its node that one is the last
(`TierTops`). Beside `TreeInv`, `KeptInv` then says of a prover that kept to the plan
that every node proof is one its parent takes and has the journal of exactly the
shards the node is over, of the statement's own, with the host's chain at either end
(`OwnTo`). A leaf of such shards holds by what `verify_block` checked of the whole block
(`OwnLeafHolds`); neighbours' chains and times meet because the whole block's do, and a
node over all of them reconciles because the block does (`OwnNodeHolds`).

`SchedulerProofs` proves `BudgetIsKept` and `NoReadyNodeIsStarved` for any tree,
places and shares. Neither is inductive: a share given to one node must leave one
for the others that are ready now, and for those that become ready before it is
given back. `RoomForTheReady` is what holds: what is held and one shard for each
node that is ready and has a place are within the budget together. When a child
ends, at most one parent becomes ready, for the share that is given back.

`CeremonyProofs` proves everything the run `ceremony` checks in any group of odd prime
order, for any circuit, any factors and any number of records: `ReadableStates`,
`StrangersAreFound`, `KeysAreTheCircuits`. Its first part is arithmetic modulo `Q`:
that a product of factors that are not zero is not, by descent, and so that each has
an inverse. The core is `VerifyIsSound`, about any state of the file's format and not
only those a stranger makes: a state that verifies is the circuit's under the
product of the factors on its record. A product over a record of any length is the last
trapdoor on it by the least record at which it would not be. `CeremonyInv` is that a
state that can be read or is held verifies, and that a key that can be read is a
completed state's. A contribution keeps it because the factor it multiplies a trapdoor
by is the one its elements are divided by (`ContributionToRoundTwo`), and a write
because what it wrote reads back as what was held (`WrittenStatesRead`,
`WrittenKeysRead`), and what it wrote a part of does not (`CutFilesAreRefused`).

The inductive invariants were checked with TLC, on the runs' instances, before they
were proved.

Assumed: the named assumptions on the constants only (`FamiliesAssumption`,
`BufferOrderAssumption`, `HeightAssumption`, `MaxCyclesAssumption`,
`WorkersAssumption`, `MarksAssumption`, `CellsAssumption`, `ValueAssumption`,
`ClockAssumption`, `SpacesAssumption`, `OperandsAssumption`, `ExecutionAssumption`,
`AbsentAssumption`, `DamageAssumption`, `ContentAssumption`, `StatementAssumption`,
`ShapesAssumption`, `ExecutionsAssumption`, `ResultAssumption`, `TreeAssumption`,
`CeremonyAssumption`, `TracesAssumption`, `StatementsAssumption`, `PlansAssumption`,
`FanInAssumption`),
which TLC evaluates for each instance. `ExecutionsAssumption` is the widest: that an
execution's chunks are its plan's shards, once each, and that the statement it leaves
passes the checks that read it. The first is what `FinishedRunsAreThePlan` proves of
the executor; the second is about the machine and the circuits. `PlansAssumption` is
what `Tree::plan` asserts of its arguments, `FanInAssumption` what `bench recurse`
refuses of its own. `RowAssumption` is that of modules without a theorem.

Only model-checked:

- the liveness properties (`Terminates`, `NoBarrier`, `CallsReturn`,
  `StoppedRunsFinish`), which are out of the prover's reach;
- the circuits, which use `Bitwise`, as no module with a theorem can.

## 5. Plan

Built: the pipeline with its executor; the log and the machine over it; the staged
prover; the transcript, the statement, the block verifier, the recursion tree and
the two streamed passes; the execution families' circuits; the tree's scheduler;
the ceremony; and the proofs of section 4. Left, in this order:

1. The window circuits (initial rows, zero and advice windows, public windows)
   against the tuples `BlockVerifier` takes of a trace.
2. The base delegations' circuits (SHA-256, Keccak, Poseidon2 and the others), whose
   steps are rounds of arithmetic.

## 6. Not modelled

Field, curve, pairing and polynomial arithmetic, and with them GKR, sumcheck and
the commitments: a proof opens what it commits to, which is true up to a
probability over a 254-bit field and false over a field TLC can enumerate. `fold.rs`
and the accumulator, which are that arithmetic in cells. ELF, wire and JSON
parsing, instruction decoding, logging, reports, benchmarks and vector generators,
and third-party guest code. The contract is one pairing check.

The RPC cache is sequential and one file: an answer is read from it before any
request is made, and a torn one is refused as not JSON by every later run, until
the file is deleted. The guest's allocator compares one pointer with the lower of
the stack pointer and the stack's reserve; whether the stack outgrows its reserve
later is the guest's doing. The example guests are sequential programs the machine
runs. `PROJECT.json` gives the reason for each component.

------------------------------ MODULE Pipeline ------------------------------
(***************************************************************************)
(* The streaming prover's pipeline (src/crates/prover/src/streaming.rs):   *)
(* `max_in_flight` worker threads over one executor behind one mutex.      *)
(*                                                                         *)
(* A worker's critical section is Enter (lock, give back the shard it held)*)
(* followed by `Source::claim`: take a waiting shard, or step the executor *)
(* until one fills.  Each step of the executor is a step here, taken by the*)
(* worker that holds the lock.  What a shard's work returns is not modelled*)
(* beyond whether it succeeded, failed or panicked.                        *)
(***************************************************************************)
EXTENDS Executor, FiniteSets

CONSTANTS
  Workers,   \* the worker threads; max_in_flight of them
  NoWorker,  \* the lock is free
  NoShard,   \* a worker's hand is empty
  NoFailure,
  Running,   \* the pipeline has not answered
  Done,      \* it returned its results
  Reraised   \* it re-raised a worker's panic

ASSUME WorkersAssumption ==
  /\ IsFiniteSet(Workers) /\ Workers # {}
  /\ NoWorker \notin Workers

VARIABLES
  lock,      \* the worker inside the critical section
  poisoned,  \* a worker panicked holding the lock
  pc,        \* each worker's place in `worker`
  hand,      \* the shard each worker has claimed and not given back
  verdict,   \* its work's outcome: none yet, ok, err
  mine,      \* the results each worker has collected
  waiting,   \* Source.waiting: filled, not claimed
  filled,    \* Source.filled: how many shards have been filled
  working,   \* Source.working: how many are claimed and not given back
  peak,      \* Source.peak
  failure,   \* Source.failure: the earliest failure in fill order
  stop,      \* Source.stop
  answer     \* what `pipeline` returned

sourceVars == <<waiting, filled, working, peak, failure, stop>>
workerVars == <<lock, poisoned, pc, hand, verdict, mine>>
vars == <<executorVars, sourceVars, workerVars, answer>>

Placed == [seq : Nat, chunk : Chunk]
Result == [seq : Nat, family : Families, index : Nat]
Failure == [at : Nat, by : {"work", "executor"}]

\* The marks are no shard, no failure and distinct answers.
ASSUME MarksAssumption ==
  /\ NoShard \notin Placed
  /\ NoFailure \notin Failure
  /\ {Running, Done, Reraised} \cap Failure = {}
  /\ Running # Done /\ Running # Reraised /\ Done # Reraised

PipelineTypeOK ==
  /\ ExecutorTypeOK
  /\ lock \in Workers \cup {NoWorker}
  /\ poisoned \in BOOLEAN
  /\ pc \in [Workers -> {"claim", "locked", "work", "unwind", "returned", "panicked"}]
  /\ hand \in [Workers -> Placed \cup {NoShard}]
  /\ verdict \in [Workers -> {"none", "ok", "err"}]
  /\ mine \in [Workers -> SUBSET Result]
  /\ waiting \in Seq(Placed)
  /\ filled \in Nat
  /\ working \in Nat
  /\ peak \in Nat
  /\ failure \in Failure \cup {NoFailure}
  /\ stop \in BOOLEAN
  /\ answer \in {Running, Done, Reraised} \cup Failure

Init ==
  /\ ExecutorInit
  /\ lock = NoWorker /\ poisoned = FALSE
  /\ pc = [w \in Workers |-> "claim"]
  /\ hand = [w \in Workers |-> NoShard]
  /\ verdict = [w \in Workers |-> "none"]
  /\ mine = [w \in Workers |-> {}]
  /\ waiting = <<>> /\ filled = 0 /\ working = 0 /\ peak = 0
  /\ failure = NoFailure /\ stop = FALSE
  /\ answer = Running

-----------------------------------------------------------------------------
(* Source. *)

\* Mutant: the first failure to arrive wins.
FailFirstCome(at, by) ==
  /\ failure' = IF failure = NoFailure THEN [at |-> at, by |-> by] ELSE failure
  /\ stop' = TRUE

\* Source::fail: the earliest failure wins, and every later claim is refused.
Fail(at, by) ==
  /\ failure' = IF failure = NoFailure \/ at < failure.at
                THEN [at |-> at, by |-> by] ELSE failure
  /\ stop' = TRUE

\* Mutant: a failed shard is not counted out.
GiveBackUncounted(w) ==
  IF hand[w] = NoShard
  THEN UNCHANGED <<hand, verdict, working, failure, stop>>
  ELSE /\ hand' = [hand EXCEPT ![w] = NoShard]
       /\ verdict' = [verdict EXCEPT ![w] = "none"]
       /\ IF verdict[w] = "err"
          THEN Fail(hand[w].seq, "work") /\ UNCHANGED working
          ELSE working' = working - 1 /\ UNCHANGED <<failure, stop>>

\* Mutant: a failure is given back as if the shard had been worked.
GiveBackSilently(w) ==
  IF hand[w] = NoShard
  THEN UNCHANGED <<hand, verdict, working, failure, stop>>
  ELSE /\ working' = working - 1
       /\ hand' = [hand EXCEPT ![w] = NoShard]
       /\ verdict' = [verdict EXCEPT ![w] = "none"]
       /\ UNCHANGED <<failure, stop>>

\* Source::give_back, for a worker entering the critical section.
GiveBack(w) ==
  IF hand[w] = NoShard
  THEN UNCHANGED <<hand, verdict, working, failure, stop>>
  ELSE /\ working' = working - 1
       /\ hand' = [hand EXCEPT ![w] = NoShard]
       /\ verdict' = [verdict EXCEPT ![w] = "none"]
       /\ IF verdict[w] = "err" THEN Fail(hand[w].seq, "work")
                                ELSE UNCHANGED <<failure, stop>>

\* Mutant: a whole batch is given one place.
AdmitOnePlace(chunks) ==
  /\ waiting' = waiting \o [i \in 1..Len(chunks) |->
                              [seq |-> filled, chunk |-> chunks[i]]]
  /\ filled' = filled + Len(chunks)

\* Source::admit: shards join the queue in the order they filled, each with
\* its place in that order.
Admit(chunks) ==
  /\ waiting' = waiting \o [i \in 1..Len(chunks) |->
                              [seq |-> filled + i - 1, chunk |-> chunks[i]]]
  /\ filled' = filled + Len(chunks)

-----------------------------------------------------------------------------
(* One worker. *)

Release(w, where) ==
  /\ lock' = NoWorker
  /\ pc' = [pc EXCEPT ![w] = where]

\* Mutant: a worker waits for the others' work before it claims again.
EnterAtBarrier(w) ==
  /\ pc[w] = "claim" /\ lock = NoWorker /\ ~poisoned
  /\ \A v \in Workers : pc[v] # "work"
  /\ lock' = w
  /\ pc' = [pc EXCEPT ![w] = "locked"]
  /\ GiveBack(w)
  /\ UNCHANGED <<executorVars, waiting, filled, peak, poisoned, mine, answer>>

\* Lock the source and give back the shard just worked.
Enter(w) ==
  /\ pc[w] = "claim" /\ lock = NoWorker /\ ~poisoned
  /\ lock' = w
  /\ pc' = [pc EXCEPT ![w] = "locked"]
  /\ GiveBack(w)
  /\ UNCHANGED <<executorVars, waiting, filled, peak, poisoned, mine, answer>>

\* Mutant: a worker that finds the lock poisoned tries it again.
FindPoisonRetries(w) ==
  /\ pc[w] = "claim" /\ lock = NoWorker /\ poisoned
  /\ UNCHANGED vars

\* A poisoned lock: another worker panicked inside the executor.
FindPoison(w) ==
  /\ pc[w] = "claim" /\ lock = NoWorker /\ poisoned
  /\ pc' = [pc EXCEPT ![w] = "returned"]
  /\ UNCHANGED <<executorVars, sourceVars, lock, poisoned, hand, verdict, mine, answer>>

\* Mutant: a worker leaves as soon as nothing waits.
LeaveEarly(w) ==
  /\ lock = w
  /\ stop \/ waiting = <<>>
  /\ Release(w, "returned")
  /\ UNCHANGED <<executorVars, sourceVars, poisoned, hand, verdict, mine, answer>>

\* claim returns None: the pipeline has stopped, or the execution is over and
\* every shard it filled has been claimed.
Leave(w) ==
  /\ lock = w
  /\ stop \/ (waiting = <<>> /\ phase = "finished")
  /\ Release(w, "returned")
  /\ UNCHANGED <<executorVars, sourceVars, poisoned, hand, verdict, mine, answer>>

\* Mutant: a waiting shard is claimed although the pipeline has stopped.
ClaimAfterStop(w) ==
  /\ lock = w /\ waiting # <<>>
  /\ hand' = [hand EXCEPT ![w] = Head(waiting)]
  /\ waiting' = Tail(waiting)
  /\ working' = working + 1
  /\ peak' = IF working + 1 > peak THEN working + 1 ELSE peak
  /\ Release(w, "work")
  /\ UNCHANGED <<executorVars, filled, failure, stop, poisoned, verdict, mine, answer>>

\* claim returns the shard that has waited longest.
Claim(w) ==
  /\ lock = w /\ ~stop /\ waiting # <<>>
  /\ hand' = [hand EXCEPT ![w] = Head(waiting)]
  /\ waiting' = Tail(waiting)
  /\ working' = working + 1
  /\ peak' = IF working + 1 > peak THEN working + 1 ELSE peak
  /\ Release(w, "work")
  /\ UNCHANGED <<executorVars, filled, failure, stop, poisoned, verdict, mine, answer>>

\* Mutant: a worker steps the executor while shards wait.
MayDriveAhead(w) == lock = w /\ ~stop

\* Nothing waits, so this worker steps the executor.
MayDrive(w) == lock = w /\ ~stop /\ waiting = <<>>

DriveStep(w) ==
  /\ MayDrive(w)
  /\ Step
  /\ IF phase' = "failed" THEN Fail(filled, "executor")
                          ELSE UNCHANGED <<failure, stop>>
  /\ UNCHANGED <<waiting, filled, working, peak, workerVars, answer>>

DriveHandOver(w) ==
  /\ MayDrive(w)
  /\ HandOver
  /\ Admit(ready)
  /\ UNCHANGED <<working, peak, failure, stop, workerVars, answer>>

DriveFlush(w) ==
  /\ MayDrive(w)
  /\ BeginFinish \/ FlushBuffer
  /\ UNCHANGED <<sourceVars, workerVars, answer>>

DriveFinish(w) ==
  /\ MayDrive(w)
  /\ Finish
  /\ IF phase' = "failed"
     THEN Fail(filled, "executor") /\ UNCHANGED <<waiting, filled>>
     ELSE Admit(ready) /\ UNCHANGED <<failure, stop>>
  /\ UNCHANGED <<working, peak, workerVars, answer>>

\* An assertion of the executor fails while it steps or finishes: the guard is
\* dropped by a panicking thread, which poisons the lock.
DrivePanics(w) ==
  /\ MayDrive(w) /\ phase # "finished" /\ "executor panic" \in Faults
  /\ Release(w, "unwind")
  /\ poisoned' = TRUE
  /\ UNCHANGED <<executorVars, sourceVars, hand, verdict, mine, answer>>

\* The shard's work, outside the lock.
WorkOk(w) ==
  /\ pc[w] = "work"
  /\ mine' = [mine EXCEPT ![w] = @ \cup {[seq    |-> hand[w].seq,
                                          family |-> hand[w].chunk.family,
                                          index  |-> hand[w].chunk.index]}]
  /\ verdict' = [verdict EXCEPT ![w] = "ok"]
  /\ pc' = [pc EXCEPT ![w] = "claim"]
  /\ UNCHANGED <<executorVars, sourceVars, lock, poisoned, hand, answer>>

WorkFails(w) ==
  /\ pc[w] = "work" /\ "work" \in Faults
  /\ verdict' = [verdict EXCEPT ![w] = "err"]
  /\ pc' = [pc EXCEPT ![w] = "claim"]
  /\ UNCHANGED <<executorVars, sourceVars, lock, poisoned, hand, mine, answer>>

WorkPanics(w) ==
  /\ pc[w] = "work" /\ "panic" \in Faults
  /\ pc' = [pc EXCEPT ![w] = "unwind"]
  /\ UNCHANGED <<executorVars, sourceVars, lock, poisoned, hand, verdict, mine, answer>>

\* StopOnPanic: the unwinding thread stops the claims, unless the lock it
\* would set the flag under is poisoned, which stops them by itself.
Unwind(w) ==
  /\ pc[w] = "unwind" /\ lock = NoWorker
  /\ stop' = (stop \/ ~poisoned)
  /\ pc' = [pc EXCEPT ![w] = "panicked"]
  /\ UNCHANGED <<executorVars, waiting, filled, working, peak, failure,
                 lock, poisoned, hand, verdict, mine, answer>>

AllStopped == \A w \in Workers : pc[w] \in {"returned", "panicked"}
Panicked == \E w \in Workers : pc[w] = "panicked"

\* Mutant: a failure is returned and the panic swallowed.
JoinFailureFirst ==
  /\ AllStopped /\ answer = Running
  /\ answer' = IF failure # NoFailure THEN failure
               ELSE IF Panicked THEN Reraised ELSE Done
  /\ UNCHANGED <<executorVars, sourceVars, workerVars>>

\* `pipeline` has joined every worker: a panic is re-raised, else a failure is
\* returned, else the results.
Join ==
  /\ AllStopped /\ answer = Running
  /\ answer' = IF Panicked THEN Reraised
               ELSE IF failure # NoFailure THEN failure ELSE Done
  /\ UNCHANGED <<executorVars, sourceVars, workerVars>>

Drive(w) == DriveStep(w) \/ DriveHandOver(w) \/ DriveFlush(w) \/ DriveFinish(w)
            \/ DrivePanics(w)
Work(w) == WorkOk(w) \/ WorkFails(w) \/ WorkPanics(w)
TakeLock(w) == Enter(w) \/ FindPoison(w) \/ Unwind(w)
HoldLock(w) == Leave(w) \/ Claim(w) \/ Drive(w)

\* A pipeline that has answered is over.
Answered == answer # Running /\ UNCHANGED vars

Next ==
  \/ \E w \in Workers : TakeLock(w) \/ HoldLock(w) \/ Work(w)
  \/ Join
  \/ Answered

Spec == Init /\ [][Next]_vars

\* The mutex is not fair to any one thread, but a free lock is taken; a thread
\* that holds it runs on.
LockFairness ==
  /\ WF_vars(\E w \in Workers : TakeLock(w))
  /\ \A w \in Workers : WF_vars(HoldLock(w))

\* No shard's work need ever end.
SlowSpec == Spec /\ LockFairness

\* Every claimed shard's work ends, and the main thread joins.
WorkEnds == WF_vars(Join) /\ \A w \in Workers : WF_vars(Work(w))
-----------------------------------------------------------------------------
(* What the pipeline promises. *)

\* Shards claimed so far are the places 0 .. Claimed - 1.
Claimed == filled - Len(waiting)

Results == UNION {mine[w] : w \in Workers}
Succeeded == {r.seq : r \in Results}
InHand == {w \in Workers : hand[w] # NoShard}

\* "The count of shards in flight never holds one twice or drops one"
\* (`worker`), whatever panics; so claim's assertion that `working` is at most
\* the number of workers cannot fail, and neither can the report overstate it.
WorkingCountsTheHands ==
  /\ working = Cardinality(InHand)
  /\ working <= peak /\ peak <= Cardinality(Workers)

\* Claims follow fill order and a shard is claimed once: what waits is
\* exactly the places not yet claimed, and no two workers ever hold, or have
\* results of, one place.
ClaimedOnceInFillOrder ==
  /\ \A i \in 1..Len(waiting) : waiting[i].seq = Claimed + i - 1
  /\ \A w \in InHand : hand[w].seq < Claimed
  /\ \A v, w \in Workers :
       v # w => /\ {v, w} \subseteq InHand => hand[v].seq # hand[w].seq
                /\ \A r \in mine[v] :
                     /\ w \in InHand => hand[w].seq # r.seq
                     /\ \A q \in mine[w] : q.seq # r.seq

\* At most one filled shard of each family waits: production follows demand.
\* Source::admit asserts it.
OneShardPerFamilyWaiting ==
  \A i, j \in 1..Len(waiting) :
    waiting[i].chunk.family = waiting[j].chunk.family => i = j

\* The failure returned is the one a single worker would have met: every shard
\* before it in fill order was worked and succeeded, and an executor failure
\* ranks after every shard it filled (Source::fail, streaming.md section 5).
FirstFailureIsReturned ==
  answer \in Failure =>
    /\ \A k \in 0..(answer.at - 1) : k \in Succeeded
    /\ answer.by = "executor" => answer.at = filled
    /\ answer.by = "work" => answer.at < Claimed /\ answer.at \notin Succeeded

\* No failure is lost: a pipeline that returns results has run the guest to its
\* exit, and they are the results of the shard plan, each shard's once.
DoneIsThePlan ==
  answer = Done =>
    /\ phase = "finished"
    /\ Succeeded = 0..(filled - 1)
    /\ Cardinality(Results) = filled
    /\ {<<r.family, r.index>> : r \in Results}
         = UNION {{<<f, i>> : i \in 0..(PlanShards[f] - 1)} : f \in Families}

\* What `pipeline` expects once no worker's panic has been re-raised: the lock
\* is not poisoned, and without a failure the guest ran to its exit.
JoinExpectationsHold ==
  AllStopped /\ ~Panicked =>
    ~poisoned /\ (failure # NoFailure \/ phase = "finished")

\* A failure or a panic ends the claims: once the pipeline must stop, no new
\* shard is claimed or filled.
StopIsFinal ==
  [][stop \/ poisoned => Claimed' <= Claimed /\ filled' = filled]_vars

\* Every schedule ends if the shards' work does: no deadlock, whoever fails or
\* panics.
Terminates == WorkEnds => <>(answer # Running)

\* There is no barrier: a worker that is done goes on although another shard's
\* work never ends.
NoBarrier == \A w \in Workers : pc[w] = "claim" ~> pc[w] # "claim"
-----------------------------------------------------------------------------
(* The pipeline implements the queue a caller may rely on. *)

\* A place's outcome: in hand, among the results, or given back as a failure.
OutcomeOf(k) ==
  IF \E w \in InHand : hand[w].seq = k
  THEN LET w == CHOOSE w \in InHand : hand[w].seq = k IN
         IF pc[w] \in {"unwind", "panicked"} THEN "panicked"
         ELSE IF verdict[w] = "none" THEN "working" ELSE verdict[w]
  ELSE IF k \in Succeeded THEN "ok" ELSE "err"

Queue == INSTANCE ShardQueue WITH
  Bound   <- Cardinality(Workers),
  outcome <- [i \in 1..Claimed |-> OutcomeOf(i - 1)],
  source  <- CASE poisoned             -> "panicked"
               [] phase = "finished"   -> "exited"
               [] phase = "failed"     -> "failed"
               [] OTHER                -> "running",
  stopped <- stop \/ poisoned,
  result  <- answer

\* Every schedule of the threads is one of the queue's behaviours.
ImplementsTheQueue == Queue!QueueSpec
=============================================================================

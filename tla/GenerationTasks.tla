--------------------------- MODULE GenerationTasks ---------------------------
(***************************************************************************)
(* ai-service's generation pipeline: TasksService.create in the HTTP       *)
(* process, the BullMQ queue between, GenerationWorker.process in the      *)
(* worker's slots, and the deliveries to jobs-service and resume-service.  *)
(* One action per await: between two of them anything else may run.        *)
(*                                                                         *)
(* `faults' is the set of things that may go wrong in a behaviour; it is   *)
(* chosen once, from FaultModels, so that a property can say which faults  *)
(* it withstands.  A text is a number: the one that the k-th billed call   *)
(* of generate() for a task returns is k, and 0 is null.                   *)
(***************************************************************************)
EXTENDS Integers, Sequences, FiniteSets

CONSTANTS
  Tasks,        \* the create requests of one user, and the rows they insert
  TailorTasks,  \* those of type RESUME_TAILOR
  Slots,        \* AI_WORKER_CONCURRENCY concurrent executions of process()
  MaxAttempts,  \* AI_MAX_ATTEMPTS, BullMQ attempts including the first
  MaxStalls,    \* BullMQ's maxStalledCount
  FaultModels,  \* the sets of faults a behaviour may be exposed to
  NoTask, NoSlot

FaultKinds ==
  { "quota",      \* consume() throws: over the cap, or Redis fails
    "model",      \* the model errs, refuses, pauses too often or says nothing,
                  \* before or after it produced tokens
    "delivery",   \* the owning service answers with an error, or not at all
    "enqueue",    \* queue.add() throws
    "publish",    \* a Redis publish throws, as it does once shutdown began
    "refund",     \* refund() throws; both callers swallow it
    "db",         \* a Prisma call throws
    "lostReply",  \* a failing call may have taken effect all the same
    "crash",      \* the ai-service process dies
    "lostLock",   \* a live execution loses its BullMQ lock
    "wipe" }      \* a task row is deleted behind the service's back

ASSUME TaskAssumption == TailorTasks \subseteq Tasks /\ NoTask \notin Tasks
ASSUME SlotAssumption == NoSlot \notin Slots
ASSUME AttemptAssumption == MaxAttempts \in Nat \ {0} /\ MaxStalls \in Nat
ASSUME FaultAssumption == FaultModels \subseteq SUBSET FaultKinds

VARIABLES
  faults,  \* what may go wrong in this behaviour; never changes
  req,     \* [Tasks -> where the create request of a task stands]
  charge,  \* [Tasks -> quota units taken for it minus units given back]
  row,     \* [Tasks -> its generation_tasks row: status and result]
  job,     \* [Tasks -> its BullMQ job]
  slot,    \* [Slots -> an execution of process(), with its locals]
  billed,  \* [Tasks -> calls of generate() in which the model produced tokens]
  owned    \* [Tasks -> the texts its owning service holds, oldest first]

vars == <<faults, req, charge, row, job, slot, billed, owned>>
inputs == <<req, charge>>
upstream == <<billed, owned>>

Terminal == {"SUCCEEDED", "FAILED"}
RowStatus == {"absent", "QUEUED", "RUNNING"} \cup Terminal
RequestPC == {"new", "insert", "enqueue", "refundUnsaved", "refundSaved",
              "markUnqueued", "accepted", "rejected", "lost"}
JobState == {"none", "waiting", "active", "completed", "failed"}
SlotPC == {"idle", "find", "start", "announceRunning", "generate", "persist",
           "deliver", "succeed", "announceSucceeded", "done", "rethrow",
           "fail", "announceFailed", "refund", "giveUp"}

Row == [status : RowStatus, result : Nat]
Job == [state : JobState, made : Nat, stalls : Nat, lock : Slots \cup {NoSlot}]
Execution == [pc : SlotPC, task : Tasks \cup {NoTask}, text : Nat, made : Nat]

Idle == [pc |-> "idle", task |-> NoTask, text |-> 0, made |-> 0]
Settled == {"accepted", "rejected", "lost"}

Init ==
  /\ faults \in FaultModels
  /\ req = [t \in Tasks |-> "new"]
  /\ charge = [t \in Tasks |-> 0]
  /\ row = [t \in Tasks |-> [status |-> "absent", result |-> 0]]
  /\ job = [t \in Tasks |->
              [state |-> "none", made |-> 0, stalls |-> 0, lock |-> NoSlot]]
  /\ slot = [s \in Slots |-> Idle]
  /\ billed = [t \in Tasks |-> 0]
  /\ owned = [t \in Tasks |-> <<>>]

-----------------------------------------------------------------------------
(* Calls that may fail.  UpdateFails is an UPDATE that throws: the row is   *)
(* gone, or the database erred, before or (lostReply) after it committed.   *)

Exists(t) == row[t].status # "absent"

Update(t, to) ==
  /\ Exists(t)
  /\ row' = [row EXCEPT ![t] = to]

UpdateFails(t, to) ==
  \/ /\ ~Exists(t) \/ "db" \in faults
     /\ row' = row
  \/ /\ {"db", "lostReply"} \subseteq faults
     /\ Update(t, to)

(* Whether describeFailure calls an error retryable: some are, some are not. *)
DescribeFailure == BOOLEAN

WithStatus(t, st) == [row[t] EXCEPT !.status = st]

(* The owner's copy: putArtifact replaces it, createTailored appends. *)
Hand(t, text) ==
  owned' = [owned EXCEPT ![t] =
              IF t \in TailorTasks THEN Append(@, text) ELSE <<text>>]

-----------------------------------------------------------------------------
(* TasksService.create, one request per task. *)

Await(t, at, next) == req[t] = at /\ req' = [req EXCEPT ![t] = next]

Consume(t) ==
  /\ \/ Await(t, "new", "insert") /\ charge' = [charge EXCEPT ![t] = 1]
     \/ /\ "quota" \in faults
        /\ Await(t, "new", "rejected")
        /\ \E n \in {0, 1} : charge' = [charge EXCEPT ![t] = n]
  /\ UNCHANGED <<faults, row, job, slot, upstream>>

InsertRow(t) ==
  LET queued == [row EXCEPT ![t] = [status |-> "QUEUED", result |-> 0]]
  IN /\ \/ Await(t, "insert", "enqueue") /\ row' = queued
        \/ /\ "db" \in faults
           /\ Await(t, "insert", "refundUnsaved")
           /\ \/ row' = row
              \/ "lostReply" \in faults /\ row' = queued
     /\ UNCHANGED <<faults, charge, job, slot, upstream>>

(* Mutant: queue.add() is not awaited, so its failure goes unnoticed. *)
EnqueueUnawaited(t) ==
  /\ Await(t, "enqueue", "accepted")
  /\ \/ job' = [job EXCEPT ![t].state = "waiting"]
     \/ "enqueue" \in faults /\ job' = job
  /\ UNCHANGED <<faults, charge, row, slot, upstream>>

Enqueue(t) ==
  LET added == [job EXCEPT ![t].state = "waiting"]
  IN /\ \/ Await(t, "enqueue", "accepted") /\ job' = added
        \/ /\ "enqueue" \in faults
           /\ Await(t, "enqueue", "refundSaved")
           /\ \/ job' = job
              \/ "lostReply" \in faults /\ job' = added
     /\ UNCHANGED <<faults, charge, row, slot, upstream>>

GiveBack(t) ==
  /\ \/ Await(t, "refundUnsaved", "rejected")
     \/ Await(t, "refundSaved", "markUnqueued")
  /\ \/ charge' = [charge EXCEPT ![t] = @ - 1]
     \/ "refund" \in faults /\ charge' = charge
  /\ UNCHANGED <<faults, row, job, slot, upstream>>

(* Mutant: a status the schema does not know. *)
MarkUnqueuedUnknown(t) ==
  /\ Await(t, "markUnqueued", "rejected")
  /\ Update(t, WithStatus(t, "ERROR"))
  /\ UNCHANGED <<faults, charge, job, slot, upstream>>

MarkUnqueued(t) ==
  /\ Await(t, "markUnqueued", "rejected")
  /\ \/ Update(t, WithStatus(t, "FAILED"))
     \/ UpdateFails(t, WithStatus(t, "FAILED"))
  /\ UNCHANGED <<faults, charge, job, slot, upstream>>

Create(t) ==
  Consume(t) \/ InsertRow(t) \/ Enqueue(t) \/ GiveBack(t) \/ MarkUnqueued(t)

-----------------------------------------------------------------------------
(* GenerationWorker.process, in slot s, for the task it took. *)

At(s, pc) == slot[s].pc = pc
Go(s, pc) == slot' = [slot EXCEPT ![s].pc = pc]
Task(s) == slot[s].task

(* Mutant: attemptsLeft is not looked at. *)
CaughtUncounted(s, retryable) == Go(s, IF retryable THEN "rethrow" ELSE "fail")

(* The catch block: rethrow for BullMQ to retry, or record the failure. *)
Caught(s, retryable) ==
  Go(s, IF retryable /\ MaxAttempts - (slot[s].made + 1) > 0
        THEN "rethrow" ELSE "fail")

Take(s, t) ==
  /\ At(s, "idle")
  /\ job[t].state = "waiting"
  /\ slot' = [slot EXCEPT ![s] =
                [pc |-> "find", task |-> t, text |-> 0, made |-> job[t].made]]
  /\ job' = [job EXCEPT ![t] = [@ EXCEPT !.state = "active", !.lock = s]]
  /\ UNCHANGED <<faults, inputs, row, upstream>>

(* Mutant: the stored result is not read. *)
FindTaskForgetful(s) ==
  /\ At(s, "find")
  /\ Exists(Task(s)) /\ Go(s, "start")
  /\ UNCHANGED <<faults, inputs, row, job, upstream>>

FindTask(s) ==
  /\ At(s, "find")
  /\ \/ /\ Exists(Task(s))
        /\ slot' = [slot EXCEPT ![s] =
                      [@ EXCEPT !.pc = "start", !.text = row[Task(s)].result]]
     \/ ~Exists(Task(s)) /\ Go(s, "giveUp")
     \/ "db" \in faults /\ Go(s, "rethrow")
  /\ UNCHANGED <<faults, inputs, row, job, upstream>>

StartRunning(s) ==
  LET running == WithStatus(Task(s), "RUNNING")
  IN /\ At(s, "start")
     /\ \/ Update(Task(s), running) /\ Go(s, "announceRunning")
        \/ UpdateFails(Task(s), running) /\ Go(s, "rethrow")
     /\ UNCHANGED <<faults, inputs, job, upstream>>

(* Mutants: generates whatever is stored; takes what is stored as delivered. *)
AnnounceRunningAgain(s) ==
  /\ At(s, "announceRunning")
  /\ Go(s, "generate")
  /\ UNCHANGED <<faults, inputs, row, job, upstream>>

AnnounceRunningDelivered(s) ==
  /\ At(s, "announceRunning")
  /\ Go(s, IF slot[s].text = 0 THEN "generate" ELSE "succeed")
  /\ UNCHANGED <<faults, inputs, row, job, upstream>>

AnnounceRunning(s) ==
  /\ At(s, "announceRunning")
  /\ \/ Go(s, IF slot[s].text = 0 THEN "generate" ELSE "deliver")
     \/ "publish" \in faults /\ Go(s, "rethrow")
  /\ UNCHANGED <<faults, inputs, row, job, upstream>>

Bill(t) == billed' = [billed EXCEPT ![t] = @ + 1]

(* A call that throws may be billed: a refusal, an empty answer, a stream   *)
(* that breaks off, an error after a paused turn all follow tokens.         *)
Generate(s) ==
  /\ At(s, "generate")
  /\ \/ /\ Bill(Task(s))
        /\ slot' = [slot EXCEPT ![s] =
                      [@ EXCEPT !.pc = "persist", !.text = billed'[Task(s)]]]
     \/ /\ "model" \in faults
        /\ \E retryable \in DescribeFailure : Caught(s, retryable)
        /\ billed' = billed \/ Bill(Task(s))
  /\ UNCHANGED <<faults, inputs, row, job, owned>>

(* Mutants: SUCCEEDED before delivery; delivery although storing failed. *)
PersistThenSucceed(s) ==
  /\ At(s, "persist")
  /\ Update(Task(s), [row[Task(s)] EXCEPT !.result = slot[s].text])
  /\ Go(s, "succeed")
  /\ UNCHANGED <<faults, inputs, job, upstream>>

PersistUnchecked(s) ==
  LET stored == [row[Task(s)] EXCEPT !.result = slot[s].text]
  IN /\ At(s, "persist")
     /\ Update(Task(s), stored) \/ UpdateFails(Task(s), stored)
     /\ Go(s, "deliver")
     /\ UNCHANGED <<faults, inputs, job, upstream>>

Persist(s) ==
  LET stored == [row[Task(s)] EXCEPT !.result = slot[s].text]
  IN /\ At(s, "persist")
     /\ \/ Update(Task(s), stored) /\ Go(s, "deliver")
        \/ UpdateFails(Task(s), stored) /\ Caught(s, TRUE)
     /\ UNCHANGED <<faults, inputs, job, upstream>>

(* A failed delivery is an HttpError, retryable or not.  It may have been   *)
(* applied: the answer was lost, or (a PUT is sent again) a later one 4xx.  *)
Deliver(s) ==
  /\ At(s, "deliver")
  /\ \/ Hand(Task(s), slot[s].text) /\ Go(s, "succeed")
     \/ /\ "delivery" \in faults
        /\ \E retryable \in DescribeFailure : Caught(s, retryable)
        /\ owned' = owned
     \/ /\ {"delivery", "lostReply"} \subseteq faults
        /\ \E retryable \in DescribeFailure :
             /\ retryable \/ Task(s) \notin TailorTasks
             /\ Caught(s, retryable)
        /\ Hand(Task(s), slot[s].text)
  /\ UNCHANGED <<faults, inputs, row, job, billed>>

MarkSucceeded(s) ==
  LET succeeded == WithStatus(Task(s), "SUCCEEDED")
  IN /\ At(s, "succeed")
     /\ \/ Update(Task(s), succeeded) /\ Go(s, "announceSucceeded")
        \/ UpdateFails(Task(s), succeeded) /\ Caught(s, TRUE)
     /\ UNCHANGED <<faults, inputs, job, upstream>>

AnnounceSucceeded(s) ==
  /\ At(s, "announceSucceeded")
  /\ \/ Go(s, "done")
     \/ "publish" \in faults /\ Caught(s, TRUE)
  /\ UNCHANGED <<faults, inputs, row, job, upstream>>

(* Inside the catch block nothing catches: an error leaves process() as it *)
(* is, and BullMQ sees a plain error instead of UnrecoverableError.        *)
MarkFailed(s) ==
  LET failed == WithStatus(Task(s), "FAILED")
  IN /\ At(s, "fail")
     /\ \/ Update(Task(s), failed) /\ Go(s, "announceFailed")
        \/ UpdateFails(Task(s), failed) /\ Go(s, "rethrow")
     /\ UNCHANGED <<faults, inputs, job, upstream>>

(* Mutant: the failure is recorded and the unit kept. *)
AnnounceFailedUnrefunded(s) ==
  /\ At(s, "announceFailed")
  /\ Go(s, "giveUp")
  /\ UNCHANGED <<faults, inputs, row, job, upstream>>

AnnounceFailed(s) ==
  /\ At(s, "announceFailed")
  /\ \/ Go(s, "refund")
     \/ "publish" \in faults /\ Go(s, "rethrow")
  /\ UNCHANGED <<faults, inputs, row, job, upstream>>

Refund(s) ==
  /\ At(s, "refund")
  /\ Go(s, "giveUp")
  /\ \/ charge' = [charge EXCEPT ![Task(s)] = @ - 1]
     \/ "refund" \in faults /\ charge' = charge
  /\ UNCHANGED <<faults, req, row, job, upstream>>

-----------------------------------------------------------------------------
(* BullMQ, from how the queue and the worker use it: it moves the job when  *)
(* process() ends, if this execution still holds the job's lock; a plain    *)
(* error is retried while attempts are left, UnrecoverableError never; and  *)
(* an active job whose lock is gone counts as stalled.                      *)

Settle(s, state) ==
  /\ slot' = [slot EXCEPT ![s] = Idle]
  /\ job' = IF job[Task(s)].lock = s
            THEN [job EXCEPT ![Task(s)] =
                    [@ EXCEPT !.state = state,
                              !.made = job[Task(s)].made + 1,
                              !.lock = NoSlot]]
            ELSE job
  /\ UNCHANGED <<faults, inputs, row, upstream>>

Complete(s) == At(s, "done") /\ Settle(s, "completed")
(* Mutant: a plain error is thrown for a failure recorded as terminal. *)
GiveUpRetried(s) ==
  /\ At(s, "giveUp")
  /\ Settle(s, IF slot[s].made + 1 < MaxAttempts THEN "waiting" ELSE "failed")

GiveUp(s) == At(s, "giveUp") /\ Settle(s, "failed")

Retry(s) ==
  /\ At(s, "rethrow")
  /\ Settle(s, IF slot[s].made + 1 < MaxAttempts THEN "waiting" ELSE "failed")

Stall(t) ==
  /\ job[t].state = "active"
  /\ job[t].lock = NoSlot
  /\ job' = [job EXCEPT ![t] =
               [@ EXCEPT !.state = IF job[t].stalls < MaxStalls
                                   THEN "waiting" ELSE "failed",
                         !.stalls = job[t].stalls + 1]]
  /\ UNCHANGED <<faults, inputs, row, slot, upstream>>

LoseLock(t) ==
  /\ "lostLock" \in faults
  /\ job[t].lock # NoSlot
  /\ job' = [job EXCEPT ![t].lock = NoSlot]
  /\ UNCHANGED <<faults, inputs, row, slot, upstream>>

(* One process serves the requests and runs the slots, so it takes both. *)
Crash ==
  /\ "crash" \in faults
  /\ \/ \E s \in Slots : ~At(s, "idle")
     \/ \E t \in Tasks : req[t] \notin Settled \cup {"new"}
  /\ slot' = [s \in Slots |-> Idle]
  /\ job' = [t \in Tasks |-> [job[t] EXCEPT !.lock = NoSlot]]
  /\ req' = [t \in Tasks |->
               IF req[t] \in Settled \cup {"new"} THEN req[t] ELSE "lost"]
  /\ UNCHANGED <<faults, charge, row, upstream>>

(* Somebody deletes the row: the case process() meets with !existing. *)
Wipe(t) ==
  /\ "wipe" \in faults
  /\ Exists(t)
  /\ row' = [row EXCEPT ![t] = [status |-> "absent", result |-> 0]]
  /\ UNCHANGED <<faults, inputs, job, slot, upstream>>

-----------------------------------------------------------------------------
Process(s) ==
  \/ FindTask(s) \/ StartRunning(s) \/ AnnounceRunning(s)
  \/ Generate(s) \/ Persist(s) \/ Deliver(s)
  \/ MarkSucceeded(s) \/ AnnounceSucceeded(s)
  \/ MarkFailed(s) \/ AnnounceFailed(s) \/ Refund(s)
  \/ Complete(s) \/ GiveUp(s) \/ Retry(s)

Next ==
  \/ \E t \in Tasks : Create(t) \/ Stall(t) \/ LoseLock(t) \/ Wipe(t)
  \/ \E s \in Slots, t \in Tasks : Take(s, t)
  \/ \E s \in Slots : Process(s)
  \/ Crash

Spec == Init /\ [][Next]_vars

(* Every request handler and execution runs on, a free slot takes a waiting *)
(* job and BullMQ's stalled check runs; nobody has to send a request, and   *)
(* no fault has to happen.                                                  *)
Fairness ==
  /\ \A t \in Tasks : WF_vars(req[t] # "new" /\ Create(t)) /\ WF_vars(Stall(t))
  /\ \A s \in Slots : WF_vars(Process(s))
  /\ \A t \in Tasks : WF_vars(\E s \in Slots : Take(s, t))

FairSpec == Spec /\ Fairness

-----------------------------------------------------------------------------
(* Properties. *)

Spared(kinds) == faults \cap kinds = {}
Working(t) == \E s \in Slots : Task(s) = t
AtRest(t) ==
  req[t] \in {"accepted", "rejected"} /\ job[t].state # "waiting" /\ ~Working(t)

(* Every variable stays in its domain, and a busy slot works for a task. *)
TypeOK ==
  /\ faults \in FaultModels
  /\ req \in [Tasks -> RequestPC]
  /\ charge \in [Tasks -> Int]
  /\ row \in [Tasks -> Row]
  /\ job \in [Tasks -> Job]
  /\ slot \in [Slots -> Execution]
  /\ \A s \in Slots : At(s, "idle") \/ Task(s) \in Tasks
  /\ billed \in [Tasks -> Nat]
  /\ owned \in [Tasks -> Seq(Nat)]

(* A client that sees SUCCEEDED can rely on the content being with the      *)
(* service that owns it, whatever fails, crashes, stalls or runs twice.     *)
SucceededIsDelivered ==
  \A t \in Tasks : row[t].status = "SUCCEEDED" => owned[t] # <<>>

(* Unless two executions of one job overlap, every copy its owner holds is  *)
(* the text the row stores: what the user polls is what was saved.          *)
DeliveredIsStored ==
  Spared({"lostLock"}) =>
    \A t \in Tasks : Exists(t) =>
      \A i \in DOMAIN owned[t] : owned[t][i] = row[t].result

(* Unless two executions of one job overlap, the model is never billed for  *)
(* a task whose row already stores a text.                                  *)
StoredIsReused ==
  [][Spared({"lostLock"}) =>
       \A t \in Tasks : billed'[t] # billed[t] => row[t].result = 0]_vars

(* Failing deliveries, publishes, refunds or enqueues never cost a second   *)
(* billed call of generate(); only a call that itself failed, a crash, a    *)
(* lost lock or a failing store can, and then a task is billed for at most  *)
(* one call per attempt and per stall.                                      *)
BillIsBounded ==
  \A t \in Tasks :
    billed[t] <= IF Spared({"model", "crash", "lostLock", "db"}) THEN 1
                 ELSE MaxAttempts + MaxStalls

(* The worker's attemptsLeft agrees with BullMQ's own count, and create()   *)
(* undoes what it began: a task that has not ended always has a handler or  *)
(* a job that will see to it, unless it stalled once too often, the process *)
(* died in create(), or a publish or a write outside the try block threw.   *)
NoTaskIsStranded ==
  Spared({"publish", "db", "lostLock"}) =>
    \A t \in Tasks :
      Exists(t) /\ row[t].status \notin Terminal =>
        \/ req[t] \notin {"accepted", "rejected"}
        \/ job[t].state \in {"waiting", "active"}
        \/ job[t].stalls > MaxStalls

(* Once nothing is under way for a recorded task, a failed one was given    *)
(* back exactly once and any other one is charged exactly once.             *)
ChargeMatchesOutcome ==
  Spared({"crash", "lostLock", "db", "publish", "refund"})
  /\ ~({"enqueue", "lostReply"} \subseteq faults) =>
    \A t \in Tasks :
      AtRest(t) /\ Exists(t) =>
        charge[t] = IF row[t].status = "FAILED" THEN 0 ELSE 1

(* An accepted task reaches SUCCEEDED or FAILED, crashes and retries        *)
(* notwithstanding, unless it stalls more often than BullMQ allows.         *)
AcceptedSettles ==
  \A t \in Tasks :
    (req[t] = "accepted" /\ Spared({"publish", "db", "lostLock", "wipe"}))
      ~> (row[t].status \in Terminal \/ job[t].stalls > MaxStalls)

(* "Stop BullMQ retrying a failure we've already recorded as terminal":     *)
(* a task recorded as FAILED is not waiting to be run again.                *)
RecordedFailureIsFinal ==
  \A t \in Tasks : row[t].status = "FAILED" => job[t].state # "waiting"

(* What a client and the owners see of a task, as TaskLifecycle states it:  *)
(* ReplaySpec under every fault, LiveSpec while nothing is run again.       *)
Lifecycle == INSTANCE TaskLifecycle WITH
  status <- [t \in Tasks |-> row[t].status],
  delivered <- [t \in Tasks |-> owned[t] # <<>>]

ImplementsReplay == Lifecycle!ReplaySpec
ImplementsLifecycle == Lifecycle!LiveSpec
=============================================================================

------------------------ MODULE GenerationSafetyProofs ------------------------
(***************************************************************************)
(* Proofs of GenerationTasks' remaining safety properties: what is stored, *)
(* what is billed, what is charged and what is left stranded, for every    *)
(* set of requests and slots and every set of faults.                      *)
(***************************************************************************)
EXTENDS GenerationTasksProofs, FiniteSetTheorems

-----------------------------------------------------------------------------
(* What each step does, field by field.  A step of an execution changes its *)
(* own slot and at most the row, job, bill, copy and charge of its task.    *)

Idling(s) == At(s, "idle")

MovedWith(s, p, n) ==
  /\ slot'[s].pc = p
  /\ slot'[s].text = n
  /\ slot'[s].task = slot[s].task
  /\ slot'[s].made = slot[s].made
  /\ \A u \in Slots : u # s => slot'[u] = slot[u]

Moved(s, p) == MovedWith(s, p, slot[s].text)

(* Where the catch block may go. *)
MovedByCatch(s) ==
  Moved(s, "fail") \/ (Moved(s, "rethrow") /\ slot[s].made + 1 < MaxAttempts)

(* The row of t gets a status, or a result, and no other row changes. *)
StatusSet(t, st) ==
  /\ Exists(t)
  /\ row'[t].status = st /\ row'[t].result = row[t].result
  /\ Untouched(t)

ResultSet(t, n) ==
  /\ Exists(t)
  /\ row'[t].status = row[t].status /\ row'[t].result = n
  /\ Untouched(t)

LEMMA GoMoves ==
  ASSUME TypeOK, NEW s \in Slots, NEW p, Go(s, p)
  PROVE  Moved(s, p)
BY DEF TypeOK, Execution, Go, Moved, MovedWith

LEMMA TextMoves ==
  ASSUME TypeOK, NEW s \in Slots, NEW p, NEW n,
         slot' = [slot EXCEPT ![s] = [@ EXCEPT !.pc = p, !.text = n]]
  PROVE  MovedWith(s, p, n)
BY DEF TypeOK, Execution, MovedWith

LEMMA CaughtMoves ==
  ASSUME TypeOK, NEW s \in Slots, NEW retryable \in BOOLEAN, Caught(s, retryable)
  PROVE  MovedByCatch(s)
<1>1. slot[s].made \in Nat
  BY DEF TypeOK, Execution
<1>2. MaxAttempts - (slot[s].made + 1) > 0 => slot[s].made + 1 < MaxAttempts
  BY <1>1, AttemptAssumption
<1> QED
  BY <1>2, GoMoves DEF Caught, MovedByCatch

LEMMA StatusWritten ==
  ASSUME TypeOK, NEW t \in Tasks, NEW st, Update(t, WithStatus(t, st))
  PROVE  StatusSet(t, st)
BY DEF TypeOK, Row, Update, WithStatus, StatusSet, Untouched

LEMMA ResultWritten ==
  ASSUME TypeOK, NEW t \in Tasks, NEW n,
         Update(t, [row[t] EXCEPT !.result = n])
  PROVE  ResultSet(t, n)
BY DEF TypeOK, Row, Update, ResultSet, Untouched

(* The task a busy slot works for. *)
LEMMA BusyTask ==
  ASSUME TypeOK, NEW s \in Slots, ~Idling(s)
  PROVE  Task(s) \in Tasks
BY DEF TypeOK, Idling

LEMMA FindEffect ==
  ASSUME TypeOK, NEW s \in Slots, FindTask(s)
  PROVE  /\ At(s, "find") /\ ~Idling(s)
         /\ UNCHANGED <<faults, req, charge, row, job, billed, owned>>
         /\ \/ Exists(Task(s)) /\ MovedWith(s, "start", row[Task(s)].result)
            \/ ~Exists(Task(s)) /\ Moved(s, "giveUp")
            \/ "db" \in faults /\ Moved(s, "rethrow")
BY GoMoves, TextMoves DEF FindTask, At, Idling, inputs, upstream

LEMMA StartEffect ==
  ASSUME TypeOK, NEW s \in Slots, StartRunning(s)
  PROVE  /\ At(s, "start") /\ ~Idling(s)
         /\ UNCHANGED <<faults, req, charge, job, billed, owned>>
         /\ \/ StatusSet(Task(s), "RUNNING") /\ Moved(s, "announceRunning")
            \/ ~Exists(Task(s)) /\ row' = row /\ Moved(s, "rethrow")
            \/ /\ "db" \in faults
               /\ row' = row \/ StatusSet(Task(s), "RUNNING")
               /\ Moved(s, "rethrow")
<1>1. Task(s) \in Tasks /\ ~Idling(s)
  BY DEF StartRunning, At, Idling, TypeOK
<1> QED
  BY <1>1, GoMoves, StatusWritten
     DEF StartRunning, UpdateFails, At, inputs, upstream

LEMMA AnnounceRunningEffect ==
  ASSUME TypeOK, NEW s \in Slots, AnnounceRunning(s)
  PROVE  /\ At(s, "announceRunning") /\ ~Idling(s)
         /\ UNCHANGED <<faults, req, charge, row, job, billed, owned>>
         /\ \/ slot[s].text = 0 /\ Moved(s, "generate")
            \/ slot[s].text # 0 /\ Moved(s, "deliver")
            \/ "publish" \in faults /\ Moved(s, "rethrow")
BY GoMoves DEF AnnounceRunning, At, Idling, inputs, upstream

LEMMA GenerateEffect ==
  ASSUME TypeOK, NEW s \in Slots, Generate(s)
  PROVE  /\ At(s, "generate") /\ ~Idling(s)
         /\ UNCHANGED <<faults, req, charge, row, job, owned>>
         /\ \/ /\ MovedWith(s, "persist", billed[Task(s)] + 1)
               /\ billed' = [billed EXCEPT ![Task(s)] = @ + 1]
            \/ /\ "model" \in faults /\ MovedByCatch(s)
               /\ billed' = billed \/ billed' = [billed EXCEPT ![Task(s)] = @ + 1]
<1>1. Task(s) \in Tasks /\ ~Idling(s)
  BY DEF Generate, At, Idling, TypeOK
<1>2. ASSUME billed' = [billed EXCEPT ![Task(s)] = @ + 1]
      PROVE  billed'[Task(s)] = billed[Task(s)] + 1
  BY <1>1, <1>2 DEF TypeOK
<1> QED
  BY <1>1, <1>2, TextMoves, CaughtMoves
     DEF Generate, Bill, DescribeFailure, At, inputs

LEMMA PersistEffect ==
  ASSUME TypeOK, NEW s \in Slots, Persist(s)
  PROVE  /\ At(s, "persist") /\ ~Idling(s)
         /\ UNCHANGED <<faults, req, charge, job, billed, owned>>
         /\ \/ ResultSet(Task(s), slot[s].text) /\ Moved(s, "deliver")
            \/ ~Exists(Task(s)) /\ row' = row /\ MovedByCatch(s)
            \/ /\ "db" \in faults
               /\ row' = row \/ ResultSet(Task(s), slot[s].text)
               /\ MovedByCatch(s)
<1>1. Task(s) \in Tasks /\ ~Idling(s)
  BY DEF Persist, At, Idling, TypeOK
<1> QED
  BY <1>1, GoMoves, CaughtMoves, ResultWritten
     DEF Persist, UpdateFails, At, inputs, upstream

(* What the owner holds of t afterwards: what it held, and the text. *)
Handed(t, text) ==
  /\ owned' \in [Tasks -> Seq(Nat)]
  /\ owned'[t] # <<>>
  /\ \A i \in DOMAIN owned'[t] :
       owned'[t][i] = text \/ (i \in DOMAIN owned[t] /\ owned'[t][i] = owned[t][i])
  /\ \A u \in Tasks : u # t => owned'[u] = owned[u]

LEMMA HandEffect ==
  ASSUME TypeOK, NEW t \in Tasks, NEW text \in Nat, Hand(t, text)
  PROVE  Handed(t, text)
<1>1. owned[t] \in Seq(Nat)
  BY DEF TypeOK
<1>2. CASE t \in TailorTasks
  <2>1. owned'[t] = Append(owned[t], text)
    BY <1>2 DEF Hand, TypeOK
  <2>2. \A i \in DOMAIN Append(owned[t], text) :
           \/ Append(owned[t], text)[i] = text
           \/ i \in DOMAIN owned[t] /\ Append(owned[t], text)[i] = owned[t][i]
    BY <1>1
  <2> QED
    BY <2>1, <2>2, HandType DEF Handed
<1>3. CASE t \notin TailorTasks
  <2>1. owned'[t] = <<text>>
    BY <1>3 DEF Hand, TypeOK
  <2> QED
    BY <2>1, HandType DEF Handed
<1> QED
  BY <1>2, <1>3

LEMMA DeliverEffect ==
  ASSUME TypeOK, NEW s \in Slots, Deliver(s)
  PROVE  /\ At(s, "deliver") /\ ~Idling(s)
         /\ UNCHANGED <<faults, req, charge, row, job, billed>>
         /\ \/ Handed(Task(s), slot[s].text) /\ Moved(s, "succeed")
            \/ owned' = owned /\ MovedByCatch(s)
            \/ Handed(Task(s), slot[s].text) /\ MovedByCatch(s)
<1>1. Task(s) \in Tasks /\ ~Idling(s) /\ slot[s].text \in Nat
  BY DEF Deliver, At, Idling, TypeOK, Execution
<1> QED
  BY <1>1, GoMoves, CaughtMoves, HandEffect
     DEF Deliver, DescribeFailure, At, inputs

LEMMA SucceedEffect ==
  ASSUME TypeOK, NEW s \in Slots, MarkSucceeded(s)
  PROVE  /\ At(s, "succeed") /\ ~Idling(s)
         /\ UNCHANGED <<faults, req, charge, job, billed, owned>>
         /\ \/ StatusSet(Task(s), "SUCCEEDED") /\ Moved(s, "announceSucceeded")
            \/ ~Exists(Task(s)) /\ row' = row /\ MovedByCatch(s)
            \/ /\ "db" \in faults
               /\ row' = row \/ StatusSet(Task(s), "SUCCEEDED")
               /\ MovedByCatch(s)
<1>1. Task(s) \in Tasks /\ ~Idling(s)
  BY DEF MarkSucceeded, At, Idling, TypeOK
<1> QED
  BY <1>1, GoMoves, CaughtMoves, StatusWritten
     DEF MarkSucceeded, UpdateFails, At, inputs, upstream

LEMMA AnnounceSucceededEffect ==
  ASSUME TypeOK, NEW s \in Slots, AnnounceSucceeded(s)
  PROVE  /\ At(s, "announceSucceeded") /\ ~Idling(s)
         /\ UNCHANGED <<faults, req, charge, row, job, billed, owned>>
         /\ Moved(s, "done") \/ ("publish" \in faults /\ MovedByCatch(s))
BY GoMoves, CaughtMoves DEF AnnounceSucceeded, At, Idling, inputs, upstream

LEMMA FailEffect ==
  ASSUME TypeOK, NEW s \in Slots, MarkFailed(s)
  PROVE  /\ At(s, "fail") /\ ~Idling(s)
         /\ UNCHANGED <<faults, req, charge, job, billed, owned>>
         /\ \/ StatusSet(Task(s), "FAILED") /\ Moved(s, "announceFailed")
            \/ ~Exists(Task(s)) /\ row' = row /\ Moved(s, "rethrow")
            \/ /\ "db" \in faults
               /\ row' = row \/ StatusSet(Task(s), "FAILED")
               /\ Moved(s, "rethrow")
<1>1. Task(s) \in Tasks /\ ~Idling(s)
  BY DEF MarkFailed, At, Idling, TypeOK
<1> QED
  BY <1>1, GoMoves, StatusWritten
     DEF MarkFailed, UpdateFails, At, inputs, upstream

LEMMA AnnounceFailedEffect ==
  ASSUME TypeOK, NEW s \in Slots, AnnounceFailed(s)
  PROVE  /\ At(s, "announceFailed") /\ ~Idling(s)
         /\ UNCHANGED <<faults, req, charge, row, job, billed, owned>>
         /\ Moved(s, "refund") \/ ("publish" \in faults /\ Moved(s, "rethrow"))
BY GoMoves DEF AnnounceFailed, At, Idling, inputs, upstream

LEMMA RefundEffect ==
  ASSUME TypeOK, NEW s \in Slots, Refund(s)
  PROVE  /\ At(s, "refund") /\ ~Idling(s)
         /\ UNCHANGED <<faults, req, row, job, billed, owned>>
         /\ Moved(s, "giveUp")
         /\ \A v \in Tasks : v # Task(s) => charge'[v] = charge[v]
         /\ \/ charge'[Task(s)] = charge[Task(s)] - 1
            \/ "refund" \in faults /\ charge' = charge
<1>1. Task(s) \in Tasks /\ ~Idling(s)
  BY DEF Refund, At, Idling, TypeOK
<1> QED
  BY <1>1, GoMoves DEF Refund, At, TypeOK, upstream

(* Everything recorded of every task but t stays as it is. *)
OthersKept(t) ==
  \A v \in Tasks : v # t =>
    /\ req'[v] = req[v] /\ charge'[v] = charge[v]
    /\ row'[v] = row[v] /\ job'[v] = job[v]
    /\ billed'[v] = billed[v] /\ owned'[v] = owned[v]

(* The job of t gets these fields. *)
JobSet(t, state, made, stalls, lock) ==
  /\ job'[t].state = state /\ job'[t].made = made
  /\ job'[t].stalls = stalls /\ job'[t].lock = lock

LEMMA ConsumeEffect ==
  ASSUME TypeOK, NEW t \in Tasks, Consume(t)
  PROVE  /\ req[t] = "new"
         /\ UNCHANGED <<faults, row, job, slot, billed, owned>> /\ OthersKept(t)
         /\ \/ req'[t] = "insert" /\ charge'[t] = 1
            \/ req'[t] = "rejected"
BY DEF TypeOK, Consume, Await, OthersKept, upstream

LEMMA InsertEffect ==
  ASSUME TypeOK, NEW t \in Tasks, InsertRow(t)
  PROVE  /\ req[t] = "insert"
         /\ UNCHANGED <<faults, charge, job, slot, billed, owned>> /\ OthersKept(t)
         /\ \/ req'[t] = "enqueue"
            \/ req'[t] = "refundUnsaved" /\ "db" \in faults
         /\ row'[t] = row[t] \/ row'[t] = [status |-> "QUEUED", result |-> 0]
BY DEF TypeOK, InsertRow, Await, OthersKept, upstream

Queued(t) == JobSet(t, "waiting", job[t].made, job[t].stalls, job[t].lock)

LEMMA EnqueueEffect ==
  ASSUME TypeOK, NEW t \in Tasks, Enqueue(t)
  PROVE  /\ req[t] = "enqueue"
         /\ UNCHANGED <<faults, charge, row, slot, billed, owned>> /\ OthersKept(t)
         /\ \/ req'[t] = "accepted" /\ Queued(t)
            \/ req'[t] = "refundSaved" /\ "enqueue" \in faults /\ job' = job
            \/ /\ req'[t] = "refundSaved" /\ {"enqueue", "lostReply"} \subseteq faults
               /\ Queued(t)
<1>1. /\ req[t] = "enqueue" /\ UNCHANGED <<faults, charge, row, slot, billed, owned>>
      /\ job' = job \/ job' = [job EXCEPT ![t].state = "waiting"]
  BY DEF Enqueue, Await, upstream
<1>2. OthersKept(t)
  BY <1>1 DEF TypeOK, Enqueue, Await, OthersKept
<1>3. job' = [job EXCEPT ![t].state = "waiting"] => Queued(t)
  BY DEF TypeOK, Job, JobSet, Queued
<1>4. \/ req'[t] = "accepted" /\ Queued(t)
      \/ req'[t] = "refundSaved" /\ "enqueue" \in faults /\ job' = job
      \/ /\ req'[t] = "refundSaved" /\ {"enqueue", "lostReply"} \subseteq faults
         /\ Queued(t)
  BY <1>3 DEF TypeOK, Enqueue, Await
<1> QED
  BY <1>1, <1>2, <1>4

LEMMA GiveBackEffect ==
  ASSUME TypeOK, NEW t \in Tasks, GiveBack(t)
  PROVE  /\ UNCHANGED <<faults, row, job, slot, billed, owned>> /\ OthersKept(t)
         /\ \/ req[t] = "refundUnsaved" /\ req'[t] = "rejected"
            \/ req[t] = "refundSaved" /\ req'[t] = "markUnqueued"
         /\ \/ charge'[t] = charge[t] - 1
            \/ "refund" \in faults /\ charge' = charge
BY DEF TypeOK, GiveBack, Await, OthersKept, upstream

LEMMA MarkEffect ==
  ASSUME TypeOK, NEW t \in Tasks, MarkUnqueued(t)
  PROVE  /\ req[t] = "markUnqueued" /\ req'[t] = "rejected"
         /\ UNCHANGED <<faults, charge, job, slot, billed, owned>> /\ OthersKept(t)
         /\ \/ StatusSet(t, "FAILED")
            \/ ~Exists(t) /\ row' = row
            \/ "db" \in faults /\ row' = row
<1>1. req[t] = "markUnqueued" /\ req'[t] = "rejected"
  BY DEF TypeOK, MarkUnqueued, Await
<1>2. UNCHANGED <<faults, charge, job, slot, billed, owned>>
  BY DEF MarkUnqueued, upstream
<1>3. \/ StatusSet(t, "FAILED")
      \/ ~Exists(t) /\ row' = row
      \/ "db" \in faults /\ row' = row
  BY StatusWritten DEF MarkUnqueued, UpdateFails
<1>4. OthersKept(t)
  BY <1>2, <1>3 DEF TypeOK, MarkUnqueued, Await, OthersKept, StatusSet, Untouched
<1> QED
  BY <1>1, <1>2, <1>3, <1>4

LEMMA TakeEffect ==
  ASSUME TypeOK, NEW s \in Slots, NEW t \in Tasks, Take(s, t)
  PROVE  /\ Idling(s) /\ job[t].state = "waiting"
         /\ slot'[s].pc = "find" /\ slot'[s].task = t
         /\ slot'[s].text = 0 /\ slot'[s].made = job[t].made
         /\ \A u \in Slots : u # s => slot'[u] = slot[u]
         /\ UNCHANGED <<faults, req, charge, row, billed, owned>> /\ OthersKept(t)
         /\ JobSet(t, "active", job[t].made, job[t].stalls, s)
BY DEF TypeOK, Job, Take, Idling, OthersKept, JobSet, inputs, upstream

LEMMA SettleEffect ==
  ASSUME TypeOK, NEW s \in Slots, ~Idling(s), NEW state, Settle(s, state)
  PROVE  /\ slot'[s] = Idle /\ \A u \in Slots : u # s => slot'[u] = slot[u]
         /\ UNCHANGED <<faults, req, charge, row, billed, owned>>
         /\ OthersKept(Task(s))
         /\ \/ /\ job[Task(s)].lock = s
               /\ JobSet(Task(s), state, job[Task(s)].made + 1,
                         job[Task(s)].stalls, NoSlot)
            \/ job[Task(s)].lock # s /\ job' = job
<1>1. Task(s) \in Tasks
  BY BusyTask
<1> QED
  BY <1>1 DEF TypeOK, Job, Settle, OthersKept, JobSet, inputs, upstream

LEMMA StallEffect ==
  ASSUME TypeOK, NEW t \in Tasks, Stall(t)
  PROVE  /\ job[t].state = "active" /\ job[t].lock = NoSlot
         /\ UNCHANGED <<faults, req, charge, row, slot, billed, owned>>
         /\ OthersKept(t)
         /\ \/ /\ job[t].stalls < MaxStalls
               /\ JobSet(t, "waiting", job[t].made, job[t].stalls + 1, NoSlot)
            \/ /\ ~(job[t].stalls < MaxStalls)
               /\ JobSet(t, "failed", job[t].made, job[t].stalls + 1, NoSlot)
BY DEF TypeOK, Job, Stall, OthersKept, JobSet, inputs, upstream

LEMMA LoseEffect ==
  ASSUME TypeOK, NEW t \in Tasks, LoseLock(t)
  PROVE  /\ "lostLock" \in faults /\ job[t].lock # NoSlot
         /\ UNCHANGED <<faults, req, charge, row, slot, billed, owned>>
         /\ OthersKept(t)
         /\ JobSet(t, job[t].state, job[t].made, job[t].stalls, NoSlot)
BY DEF TypeOK, Job, LoseLock, OthersKept, JobSet, inputs, upstream

LEMMA WipeEffect ==
  ASSUME TypeOK, NEW t \in Tasks, Wipe(t)
  PROVE  /\ row'[t] = [status |-> "absent", result |-> 0]
         /\ UNCHANGED <<faults, req, charge, job, slot, billed, owned>>
         /\ OthersKept(t)
BY DEF TypeOK, Wipe, OthersKept, inputs, upstream

LEMMA CrashEffect ==
  ASSUME TypeOK, Crash
  PROVE  /\ "crash" \in faults
         /\ \A s \in Slots : slot'[s] = Idle
         /\ UNCHANGED <<faults, charge, row, billed, owned>>
         /\ \A t \in Tasks :
              /\ JobSet(t, job[t].state, job[t].made, job[t].stalls, NoSlot)
              /\ req'[t] = "lost" \/ req'[t] = req[t]
BY DEF TypeOK, Job, Crash, JobSet, upstream

(* An execution's step, seen from outside: its own slot and task only. *)
LEMMA ProcessFrame ==
  ASSUME TypeOK, NEW s \in Slots, Process(s)
  PROVE  /\ ~Idling(s) /\ Task(s) \in Tasks
         /\ UNCHANGED <<faults, req>> /\ OthersKept(Task(s))
         /\ \A u \in Slots : u # s => slot'[u] = slot[u]
<1> USE DEF Moved, MovedWith, MovedByCatch, OthersKept
<1>1. CASE FindTask(s)
  BY <1>1, FindEffect, BusyTask
<1>2. CASE StartRunning(s)
  BY <1>2, StartEffect, BusyTask DEF StatusSet, Untouched
<1>3. CASE AnnounceRunning(s)
  BY <1>3, AnnounceRunningEffect, BusyTask
<1>4. CASE Generate(s)
  BY <1>4, GenerateEffect, BusyTask DEF TypeOK
<1>5. CASE Persist(s)
  BY <1>5, PersistEffect, BusyTask DEF ResultSet, Untouched
<1>6. CASE Deliver(s)
  BY <1>6, DeliverEffect, BusyTask DEF Handed
<1>7. CASE MarkSucceeded(s)
  BY <1>7, SucceedEffect, BusyTask DEF StatusSet, Untouched
<1>8. CASE AnnounceSucceeded(s)
  BY <1>8, AnnounceSucceededEffect, BusyTask
<1>9. CASE MarkFailed(s)
  BY <1>9, FailEffect, BusyTask DEF StatusSet, Untouched
<1>10. CASE AnnounceFailed(s)
  BY <1>10, AnnounceFailedEffect, BusyTask
<1>11. CASE Refund(s)
  BY <1>11, RefundEffect, BusyTask
<1>12. ASSUME NEW state, Settle(s, state), ~Idling(s)
       PROVE  /\ UNCHANGED <<faults, req>> /\ OthersKept(Task(s))
              /\ \A u \in Slots : u # s => slot'[u] = slot[u]
  BY <1>12, SettleEffect
<1>13. CASE Complete(s) \/ GiveUp(s) \/ Retry(s)
  <2>1. ~Idling(s)
    BY <1>13 DEF Complete, GiveUp, Retry, At, Idling
  <2> QED
    BY <1>12, <1>13, <2>1, BusyTask DEF Complete, GiveUp, Retry
<1> QED
  BY <1>1, <1>2, <1>3, <1>4, <1>5, <1>6, <1>7, <1>8, <1>9, <1>10, <1>11, <1>13
     DEF Process

(* An execution goes on holding its job, or ends and settles it. *)
Continues(s) ==
  /\ job' = job
  /\ slot'[s].pc # "idle" /\ slot'[s].task = slot[s].task
  /\ slot'[s].made = slot[s].made

EndsAs(s, state) ==
  /\ Settle(s, state)
  /\ \/ state = "completed" /\ At(s, "done")
     \/ state = "failed" /\ At(s, "giveUp")
     \/ state = "failed" /\ At(s, "rethrow") /\ ~(slot[s].made + 1 < MaxAttempts)
     \/ state = "waiting" /\ At(s, "rethrow") /\ slot[s].made + 1 < MaxAttempts

LEMMA ProcessContinues ==
  ASSUME TypeOK, NEW s \in Slots, Process(s)
  PROVE  \/ Continues(s)
         \/ \E state \in {"completed", "failed", "waiting"} : EndsAs(s, state)
<1> USE DEF Moved, MovedWith, MovedByCatch, Continues
<1>1. CASE FindTask(s)
  BY <1>1, FindEffect
<1>2. CASE StartRunning(s)
  BY <1>2, StartEffect
<1>3. CASE AnnounceRunning(s)
  BY <1>3, AnnounceRunningEffect
<1>4. CASE Generate(s)
  BY <1>4, GenerateEffect
<1>5. CASE Persist(s)
  BY <1>5, PersistEffect
<1>6. CASE Deliver(s)
  BY <1>6, DeliverEffect
<1>7. CASE MarkSucceeded(s)
  BY <1>7, SucceedEffect
<1>8. CASE AnnounceSucceeded(s)
  BY <1>8, AnnounceSucceededEffect
<1>9. CASE MarkFailed(s)
  BY <1>9, FailEffect
<1>10. CASE AnnounceFailed(s)
  BY <1>10, AnnounceFailedEffect
<1>11. CASE Refund(s)
  BY <1>11, RefundEffect
<1>12. CASE Complete(s) \/ GiveUp(s) \/ Retry(s)
  BY <1>12 DEF Complete, GiveUp, Retry, EndsAs
<1> QED
  BY <1>1, <1>2, <1>3, <1>4, <1>5, <1>6, <1>7, <1>8, <1>9, <1>10, <1>11, <1>12
     DEF Process

-----------------------------------------------------------------------------
(* The lease, whatever goes wrong: a lock belongs to an active job, its     *)
(* holder has BullMQ's own count of the attempts made, nothing has been     *)
(* done for a job that was never queued, and attempts and stalls stay       *)
(* within their limits while the job may still be run.                      *)

LeaseOf(t) ==
  /\ job[t].lock # NoSlot => job[t].state = "active"
  /\ req[t] \in {"new", "insert", "enqueue"} => job[t].state = "none"
  /\ job[t].state = "none" => billed[t] = 0 /\ owned[t] = <<>>
  /\ job[t].state \in {"none", "waiting", "active"} =>
       job[t].made < MaxAttempts /\ job[t].stalls <= MaxStalls
  /\ job[t].made + job[t].stalls <= MaxAttempts + MaxStalls

LeaseHeldBy(s) ==
  \/ Idling(s)
  \/ /\ job[Task(s)].state # "none"
     /\ job[Task(s)].lock = s => slot[s].made = job[Task(s)].made

LeaseInv ==
  /\ TypeOK
  /\ \A t \in Tasks : LeaseOf(t)
  /\ \A s \in Slots : LeaseHeldBy(s)

LEMMA LeaseInit == Init => LeaseInv
<1> SUFFICES ASSUME Init
             PROVE  LeaseInv
  OBVIOUS
<1>1. \A t \in Tasks : LeaseOf(t)
  BY AttemptAssumption DEF Init, LeaseOf
<1>2. \A s \in Slots : LeaseHeldBy(s)
  BY DEF Init, LeaseHeldBy, Idling, At, Idle
<1> QED
  BY <1>1, <1>2, TypeInit DEF LeaseInv

(* What the lease says of a task nobody touched, and of a slot likewise. *)
LEMMA LeaseOfKept ==
  ASSUME NEW t \in Tasks, LeaseOf(t),
         req'[t] = req[t], job'[t] = job[t], billed'[t] = billed[t],
         owned'[t] = owned[t]
  PROVE  LeaseOf(t)'
BY DEF LeaseOf

LEMMA LeaseHeldKept ==
  ASSUME NEW s \in Slots, LeaseHeldBy(s), slot'[s] = slot[s],
         Idling(s) \/ job'[Task(s)] = job[Task(s)]
  PROVE  LeaseHeldBy(s)'
BY DEF LeaseHeldBy, Idling, At, Task

LEMMA JobNumbers ==
  ASSUME TypeOK, NEW t \in Tasks
  PROVE  /\ job[t].made \in Nat /\ job[t].stalls \in Nat
         /\ job[t].lock \in Slots \cup {NoSlot} /\ job[t].state \in JobState
         /\ MaxAttempts \in Nat /\ MaxAttempts > 0 /\ MaxStalls \in Nat
BY AttemptAssumption DEF TypeOK, Job

(* A step of the request, or of BullMQ, on one task, with no slot moving. *)
LEMMA LeaseTaskStep ==
  ASSUME LeaseInv, NEW t \in Tasks,
         Create(t) \/ Stall(t) \/ LoseLock(t) \/ Wipe(t)
  PROVE  (\A v \in Tasks : LeaseOf(v)') /\ \A s \in Slots : LeaseHeldBy(s)'
<1> USE DEF LeaseInv
<1>1. LeaseOf(t) /\ \A s \in Slots : LeaseHeldBy(s)
  OBVIOUS
<1>2. OthersKept(t) /\ slot' = slot
  BY ConsumeEffect, InsertEffect, EnqueueEffect, GiveBackEffect, MarkEffect,
     StallEffect, LoseEffect, WipeEffect DEF Create
<1>3. \A v \in Tasks : v # t => LeaseOf(v)'
  BY <1>2, LeaseOfKept DEF OthersKept
<1>4. ASSUME NEW s \in Slots, Task(s) # t
      PROVE  LeaseHeldBy(s)'
  BY <1>2, <1>4, LeaseHeldKept, BusyTask DEF OthersKept
<1>5. CASE job' = job /\ req'[t] \notin {"new", "insert", "enqueue"}
  <2>1. billed' = billed /\ owned' = owned
    BY <1>5, ConsumeEffect, InsertEffect, EnqueueEffect, GiveBackEffect, MarkEffect,
       StallEffect, LoseEffect, WipeEffect DEF Create
  <2>2. LeaseOf(t)'
    BY <1>1, <1>5, <2>1 DEF LeaseOf
  <2>3. \A s \in Slots : LeaseHeldBy(s)'
    BY <1>1, <1>2, <1>5, LeaseHeldKept
  <2> QED
    BY <1>3, <2>2, <2>3
<1>6. CASE job' = job /\ req[t] \in {"new", "insert", "enqueue"}
  <2>1. billed' = billed /\ owned' = owned
    BY <1>6, ConsumeEffect, InsertEffect, EnqueueEffect, GiveBackEffect, MarkEffect,
       StallEffect, LoseEffect, WipeEffect DEF Create
  <2>2. LeaseOf(t)'
    BY <1>1, <1>6, <2>1 DEF LeaseOf
  <2>3. \A s \in Slots : LeaseHeldBy(s)'
    BY <1>1, <1>2, <1>6, LeaseHeldKept
  <2> QED
    BY <1>3, <2>2, <2>3
<1>7. CASE Consume(t) \/ InsertRow(t)
  BY <1>6, <1>7, ConsumeEffect, InsertEffect
<1>8. CASE GiveBack(t) \/ MarkUnqueued(t)
  BY <1>5, <1>8, GiveBackEffect, MarkEffect
<1>9. CASE Wipe(t)
  BY <1>5, <1>6, <1>9, WipeEffect
<1>10. CASE Enqueue(t)
  <2>1. req[t] = "enqueue" /\ billed' = billed /\ owned' = owned
    BY <1>10, EnqueueEffect
  <2>2. /\ job[t].state = "none" /\ job[t].lock = NoSlot
        /\ job[t].made < MaxAttempts /\ job[t].stalls <= MaxStalls
    BY <1>1, <2>1 DEF LeaseOf
  <2>3. CASE job' = job
    BY <1>6, <2>1, <2>3
  <2>4. CASE req'[t] \in {"accepted", "refundSaved"} /\ Queued(t)
    <3>1. LeaseOf(t)'
      BY <1>1, <2>2, <2>4 DEF LeaseOf, Queued, JobSet
    <3>2. ASSUME NEW s \in Slots, Task(s) = t
          PROVE  LeaseHeldBy(s)'
      BY <1>1, <1>2, <2>2, <3>2 DEF LeaseHeldBy, Idling, At, Task
    <3> QED
      BY <1>3, <1>4, <3>1, <3>2
  <2> QED
    BY <1>10, <2>3, <2>4, EnqueueEffect
<1>11. CASE Stall(t)
  <2>1. billed' = billed /\ owned' = owned /\ req' = req /\ job[t].state = "active"
    BY <1>11, StallEffect
  <2>2. LeaseOf(t)'
    <3>1. /\ job[t].made < MaxAttempts /\ job[t].stalls <= MaxStalls
          /\ ~(req[t] \in {"new", "insert", "enqueue"})
      BY <1>1, <2>1 DEF LeaseOf
    <3>2. /\ job[t].made \in Nat /\ job[t].stalls \in Nat
          /\ MaxAttempts \in Nat /\ MaxStalls \in Nat
      BY JobNumbers
    <3>3. \/ /\ job[t].stalls < MaxStalls
             /\ JobSet(t, "waiting", job[t].made, job[t].stalls + 1, NoSlot)
          \/ JobSet(t, "failed", job[t].made, job[t].stalls + 1, NoSlot)
      BY <1>11, StallEffect
    <3>4. /\ job'[t].lock = NoSlot /\ job'[t].made = job[t].made
          /\ job'[t].stalls = job[t].stalls + 1
          /\ \/ job'[t].state = "waiting" /\ job'[t].stalls <= MaxStalls
             \/ job'[t].state = "failed"
      BY <3>2, <3>3 DEF JobSet
    <3>5. job'[t].made + job'[t].stalls <= MaxAttempts + MaxStalls
      BY <3>1, <3>2, <3>4
    <3> QED
      BY <2>1, <3>1, <3>4, <3>5 DEF LeaseOf
  <2>3. ASSUME NEW s \in Slots, Task(s) = t
        PROVE  LeaseHeldBy(s)'
    <3>1. job'[t].state # "none" /\ job'[t].lock = NoSlot
      BY <1>11, StallEffect DEF JobSet
    <3> QED
      BY <1>2, <2>3, <3>1, SlotAssumption DEF LeaseHeldBy, Task
  <2> QED
    BY <1>3, <1>4, <2>2, <2>3
<1>12. CASE LoseLock(t)
  <2>1. LeaseOf(t)'
    BY <1>1, <1>12, LoseEffect DEF LeaseOf, JobSet
  <2>2. ASSUME NEW s \in Slots, Task(s) = t
        PROVE  LeaseHeldBy(s)'
    <3>1. job'[t].state = job[t].state /\ job'[t].lock = NoSlot
      BY <1>12, LoseEffect DEF JobSet
    <3> QED
      BY <1>1, <1>2, <2>2, <3>1, SlotAssumption DEF LeaseHeldBy, Idling, At, Task
  <2> QED
    BY <1>3, <1>4, <2>1, <2>2
<1> QED
  BY <1>7, <1>8, <1>9, <1>10, <1>11, <1>12 DEF Create

LEMMA LeaseTake ==
  ASSUME LeaseInv, NEW s \in Slots, NEW t \in Tasks, Take(s, t)
  PROVE  (\A v \in Tasks : LeaseOf(v)') /\ \A u \in Slots : LeaseHeldBy(u)'
<1> USE DEF LeaseInv
<1>1. LeaseOf(t) /\ OthersKept(t) /\ job[t].state = "waiting"
  BY TakeEffect
<1>2. JobSet(t, "active", job[t].made, job[t].stalls, s)
  BY TakeEffect
<1>3. \A v \in Tasks : v # t => LeaseOf(v)'
  BY <1>1, LeaseOfKept DEF OthersKept
<1>4. LeaseOf(t)'
  <2>1. req' = req /\ req[t] \notin {"new", "insert", "enqueue"}
    BY <1>1, TakeEffect DEF LeaseOf
  <2> QED
    BY <1>1, <1>2, <2>1 DEF LeaseOf, JobSet
<1>5. LeaseHeldBy(s)'
  <2>1. slot'[s].task = t /\ slot'[s].made = job[t].made
    BY TakeEffect
  <2> QED
    BY <1>2, <2>1 DEF LeaseHeldBy, JobSet, Task
<1>6. ASSUME NEW u \in Slots, u # s, Task(u) = t
      PROVE  LeaseHeldBy(u)'
  <2>1. slot'[u] = slot[u]
    BY <1>6, TakeEffect
  <2> QED
    BY <1>2, <1>6, <2>1 DEF LeaseHeldBy, JobSet, Task
<1>7. ASSUME NEW u \in Slots, u # s, Task(u) # t
      PROVE  LeaseHeldBy(u)'
  BY <1>1, <1>7, TakeEffect, LeaseHeldKept, BusyTask DEF OthersKept
<1> QED
  BY <1>3, <1>4, <1>5, <1>6, <1>7

LEMMA LeaseProcess ==
  ASSUME LeaseInv, NEW s \in Slots, Process(s)
  PROVE  (\A v \in Tasks : LeaseOf(v)') /\ \A u \in Slots : LeaseHeldBy(u)'
<1> USE DEF LeaseInv
<1>t. PICK t \in Tasks : t = Task(s)
  BY ProcessFrame
<1>1. /\ ~Idling(s) /\ t = Task(s) /\ req' = req /\ OthersKept(t)
      /\ \A u \in Slots : u # s => slot'[u] = slot[u]
  BY <1>t, ProcessFrame
<1>2. LeaseOf(t) /\ job[t].state # "none"
  BY <1>1 DEF LeaseHeldBy
<1>3. \A v \in Tasks : v # t => LeaseOf(v)'
  BY <1>1, LeaseOfKept DEF OthersKept
<1>4. ASSUME NEW u \in Slots, u # s, Task(u) # t
      PROVE  LeaseHeldBy(u)'
  BY <1>1, <1>4, LeaseHeldKept, BusyTask DEF OthersKept
<1>5. CASE Continues(s)
  <2>1. LeaseOf(t)'
    BY <1>1, <1>2, <1>5 DEF LeaseOf, Continues
  <2>2. ASSUME NEW u \in Slots, u # s
        PROVE  LeaseHeldBy(u)'
    BY <1>1, <1>5, <2>2, LeaseHeldKept DEF Continues
  <2>3. LeaseHeldBy(s)'
    BY <1>1, <1>5 DEF LeaseHeldBy, Continues, Idling, At, Task
  <2> QED
    BY <1>3, <2>1, <2>2, <2>3
<1>6. ASSUME NEW state \in {"completed", "failed", "waiting"}, EndsAs(s, state)
      PROVE  (\A v \in Tasks : LeaseOf(v)') /\ \A u \in Slots : LeaseHeldBy(u)'
  <2>1. /\ slot'[s] = Idle /\ billed' = billed /\ owned' = owned
        /\ \/ /\ job[t].lock = s
              /\ JobSet(t, state, job[t].made + 1, job[t].stalls, NoSlot)
           \/ job[t].lock # s /\ job' = job
    BY <1>1, <1>6, SettleEffect DEF EndsAs
  <2>2. LeaseHeldBy(s)'
    BY <2>1 DEF LeaseHeldBy, Idling, At, Idle
  <2>3. CASE job' = job
    <3>1. LeaseOf(t)'
      BY <1>1, <1>2, <2>1, <2>3 DEF LeaseOf
    <3>2. ASSUME NEW u \in Slots, u # s
          PROVE  LeaseHeldBy(u)'
      BY <1>1, <2>3, <3>2, LeaseHeldKept
    <3> QED
      BY <1>3, <2>2, <3>1, <3>2
  <2>4. CASE /\ job[t].lock = s
             /\ JobSet(t, state, job[t].made + 1, job[t].stalls, NoSlot)
    <3>1. LeaseOf(t)'
      <4>1. /\ slot[s].made = job[t].made /\ job[t].state = "active"
            /\ job[t].made < MaxAttempts /\ job[t].stalls <= MaxStalls
            /\ req[t] \notin {"new", "insert", "enqueue"}
        BY <1>1, <1>2, <2>4, SlotAssumption DEF LeaseHeldBy, LeaseOf
      <4>2. state = "waiting" => job[t].made + 1 < MaxAttempts
        BY <1>6, <4>1 DEF EndsAs
      <4> QED
        BY <1>1, <2>1, <2>4, <4>1, <4>2, JobNumbers DEF LeaseOf, JobSet
    <3>2. ASSUME NEW u \in Slots, u # s, Task(u) = t
          PROVE  LeaseHeldBy(u)'
      <4>1. slot'[u] = slot[u] /\ job'[t].lock = NoSlot /\ job'[t].state # "none"
        BY <1>1, <2>4, <3>2 DEF JobSet
      <4> QED
        BY <3>2, <4>1, SlotAssumption DEF LeaseHeldBy, Task
    <3> QED
      BY <1>3, <1>4, <2>2, <3>1, <3>2
  <2> QED
    BY <2>1, <2>3, <2>4
<1> QED
  BY <1>5, <1>6, ProcessContinues

LEMMA LeaseCrash ==
  ASSUME LeaseInv, Crash
  PROVE  (\A v \in Tasks : LeaseOf(v)') /\ \A u \in Slots : LeaseHeldBy(u)'
<1> USE DEF LeaseInv
<1>1. ASSUME NEW t \in Tasks
      PROVE  LeaseOf(t)'
  <2>1. /\ JobSet(t, job[t].state, job[t].made, job[t].stalls, NoSlot)
        /\ req'[t] = "lost" \/ req'[t] = req[t]
        /\ billed' = billed /\ owned' = owned
    BY CrashEffect
  <2> QED
    BY <2>1 DEF LeaseOf, JobSet
<1>2. ASSUME NEW u \in Slots
      PROVE  LeaseHeldBy(u)'
  BY CrashEffect DEF LeaseHeldBy, Idling, At, Idle
<1> QED
  BY <1>1, <1>2

LEMMA LeaseStep == LeaseInv /\ [Next]_vars => LeaseInv'
<1> SUFFICES ASSUME LeaseInv, [Next]_vars
             PROVE  LeaseInv'
  OBVIOUS
<1>1. TypeOK'
  BY TypeStep DEF LeaseInv
<1>2. (\A v \in Tasks : LeaseOf(v)') /\ \A u \in Slots : LeaseHeldBy(u)'
  <2>1. CASE UNCHANGED vars
    BY <2>1, LeaseOfKept, LeaseHeldKept DEF vars, LeaseInv
  <2>2. CASE Next
    BY <2>2, LeaseTaskStep, LeaseTake, LeaseProcess, LeaseCrash DEF Next
  <2> QED
    BY <2>1, <2>2
<1> QED
  BY <1>1, <1>2 DEF LeaseInv

-----------------------------------------------------------------------------
(* What a task may cost.  Every execution bills at most once, and there are *)
(* no more of them than attempts made, stalls, and the one under way: so    *)
(* the texts billed and the executions that may still bill are within that  *)
(* number, however many executions of one job overlap.                      *)

BeforeBilling == {"find", "start", "announceRunning", "generate"}
Unbilled(t) == {s \in Slots : Task(s) = t /\ slot[s].pc \in BeforeBilling}

Executions(t) ==
  job[t].made + job[t].stalls + (IF job[t].state = "active" THEN 1 ELSE 0)

BillOf(t) ==
  /\ IsFiniteSet(Unbilled(t))
  /\ billed[t] + Cardinality(Unbilled(t)) <= Executions(t)

BillInv == LeaseInv /\ \A t \in Tasks : BillOf(t)

LEMMA BillInit == Init => BillInv
<1> SUFFICES ASSUME Init, NEW t \in Tasks
             PROVE  BillOf(t)
  BY LeaseInit DEF BillInv
<1>1. Unbilled(t) = {}
  BY DEF Init, Unbilled, BeforeBilling, Idle
<1>2. billed[t] = 0 /\ Executions(t) = 0
  BY DEF Init, Executions
<1> QED
  BY <1>1, <1>2, FS_EmptySet DEF BillOf

LEMMA ExecutionsType ==
  ASSUME TypeOK, NEW t \in Tasks
  PROVE  Executions(t) \in Nat /\ billed[t] \in Nat
<1>1. job[t].made \in Nat /\ job[t].stalls \in Nat
  BY JobNumbers
<1>2. billed[t] \in Nat
  BY DEF TypeOK
<1> QED
  BY <1>1, <1>2 DEF Executions

(* Fewer executions that may still bill, and none fewer that ran. *)
LEMMA BillKept ==
  ASSUME TypeOK, TypeOK', NEW t \in Tasks, BillOf(t),
         Unbilled(t)' \subseteq Unbilled(t), billed'[t] = billed[t],
         Executions(t)' >= Executions(t)
  PROVE  BillOf(t)'
<1>1. /\ IsFiniteSet(Unbilled(t)')
      /\ Cardinality(Unbilled(t)') <= Cardinality(Unbilled(t))
  BY FS_Subset DEF BillOf
<1>2. Cardinality(Unbilled(t)') \in Nat /\ Cardinality(Unbilled(t)) \in Nat
  BY <1>1, FS_CardinalityType DEF BillOf
<1>3. Executions(t) \in Nat /\ Executions(t)' \in Nat /\ billed[t] \in Nat
  <2>1. job'[t].made \in Nat /\ job'[t].stalls \in Nat
    BY DEF TypeOK, Job
  <2> QED
    BY <2>1, ExecutionsType DEF Executions
<1>4. billed[t] + Cardinality(Unbilled(t)) <= Executions(t)
  BY DEF BillOf
<1>5. billed'[t] + Cardinality(Unbilled(t)') <= Executions(t)'
  BY <1>1, <1>2, <1>3, <1>4
<1> QED
  BY <1>1, <1>5 DEF BillOf

LEMMA BillTaskStep ==
  ASSUME BillInv, TypeOK', NEW t \in Tasks,
         Create(t) \/ Stall(t) \/ LoseLock(t) \/ Wipe(t),
         NEW v \in Tasks
  PROVE  BillOf(v)'
<1> USE DEF BillInv, LeaseInv
<1>1. slot' = slot /\ billed' = billed /\ OthersKept(t)
  BY ConsumeEffect, InsertEffect, EnqueueEffect, GiveBackEffect, MarkEffect,
     StallEffect, LoseEffect, WipeEffect DEF Create
<1>2. Unbilled(v)' = Unbilled(v) /\ billed'[v] = billed[v]
  BY <1>1 DEF Unbilled, Task
<1>3. Executions(v) \in Nat /\ BillOf(v) /\ LeaseOf(t)
  BY ExecutionsType
<1>4. Executions(v)' = Executions(v)
  <2>1. CASE v # t \/ job' = job
    BY <1>1, <2>1 DEF OthersKept, Executions
  <2>2. CASE v = t /\ Enqueue(t)
    BY <1>3, <2>1, <2>2, EnqueueEffect DEF LeaseOf, Executions, Queued, JobSet
  <2>3. CASE v = t /\ Stall(t)
    <3>1. job[t].stalls \in Nat /\ job[t].made \in Nat
      BY JobNumbers
    <3> QED
      BY <2>3, <3>1, StallEffect DEF Executions, JobSet
  <2>4. CASE v = t /\ LoseLock(t)
    BY <2>4, LoseEffect DEF Executions, JobSet
  <2> QED
    BY <2>1, <2>2, <2>3, <2>4, ConsumeEffect, InsertEffect, GiveBackEffect,
       MarkEffect, WipeEffect DEF Create
<1> QED
  BY <1>2, <1>3, <1>4, BillKept

LEMMA BillTake ==
  ASSUME BillInv, TypeOK', NEW s \in Slots, NEW t \in Tasks, Take(s, t),
         NEW v \in Tasks
  PROVE  BillOf(v)'
<1> USE DEF BillInv, LeaseInv
<1>1. /\ Idling(s) /\ slot'[s].pc = "find" /\ slot'[s].task = t
      /\ \A u \in Slots : u # s => slot'[u] = slot[u]
      /\ billed' = billed /\ OthersKept(t) /\ job[t].state = "waiting"
      /\ JobSet(t, "active", job[t].made, job[t].stalls, s)
  BY TakeEffect
<1>2. BillOf(v)
  OBVIOUS
<1>3. CASE v # t
  <2>1. Unbilled(v)' \subseteq Unbilled(v)
    BY <1>1, <1>3 DEF Unbilled, Task
  <2>2. Executions(v)' = Executions(v)
    BY <1>1, <1>3 DEF Executions, OthersKept
  <2> QED
    BY <1>1, <1>2, <2>1, <2>2, ExecutionsType, BillKept
<1>4. CASE v = t
  <2>1. s \notin Unbilled(t)
    BY <1>1 DEF Unbilled, BeforeBilling, Idling, At
  <2>2. Unbilled(t)' = Unbilled(t) \cup {s}
    BY <1>1 DEF Unbilled, BeforeBilling, Task
  <2>3. IsFiniteSet(Unbilled(t)) /\ Cardinality(Unbilled(t)) \in Nat
    BY <1>2, <1>4, FS_CardinalityType DEF BillOf
  <2>4. /\ IsFiniteSet(Unbilled(t)')
        /\ Cardinality(Unbilled(t)') = Cardinality(Unbilled(t)) + 1
    BY <2>1, <2>2, <2>3, FS_AddElement
  <2>5. Executions(t)' = Executions(t) + 1
    <3>1. job[t].stalls \in Nat /\ job[t].made \in Nat
      BY JobNumbers
    <3> QED
      BY <1>1, <3>1 DEF Executions, JobSet
  <2>6. Executions(t) \in Nat /\ billed[t] \in Nat
    BY ExecutionsType
  <2>7. billed[t] + Cardinality(Unbilled(t)) <= Executions(t)
    BY <1>2, <1>4 DEF BillOf
  <2>8. billed'[t] + Cardinality(Unbilled(t)') <= Executions(t)'
    BY <1>1, <2>3, <2>4, <2>5, <2>6, <2>7
  <2> QED
    BY <1>4, <2>4, <2>8 DEF BillOf
<1> QED
  BY <1>3, <1>4

(* An execution that may still bill has not moved past the model's call. *)
LEMMA ProcessUnbilled ==
  ASSUME TypeOK, NEW s \in Slots, Process(s)
  PROVE  /\ slot'[s].pc \in BeforeBilling =>
              slot[s].pc \in BeforeBilling /\ slot'[s].task = slot[s].task
         /\ \/ billed' = billed
            \/ /\ slot[s].pc = "generate" /\ slot'[s].pc \in {"persist", "fail", "rethrow"}
               /\ billed' = [billed EXCEPT ![Task(s)] = @ + 1]
<1> USE DEF Moved, MovedWith, MovedByCatch, BeforeBilling, At
<1>1. CASE FindTask(s)
  BY <1>1, FindEffect
<1>2. CASE StartRunning(s)
  BY <1>2, StartEffect
<1>3. CASE AnnounceRunning(s)
  BY <1>3, AnnounceRunningEffect
<1>4. CASE Generate(s)
  BY <1>4, GenerateEffect
<1>5. CASE Persist(s)
  BY <1>5, PersistEffect
<1>6. CASE Deliver(s)
  BY <1>6, DeliverEffect
<1>7. CASE MarkSucceeded(s)
  BY <1>7, SucceedEffect
<1>8. CASE AnnounceSucceeded(s)
  BY <1>8, AnnounceSucceededEffect
<1>9. CASE MarkFailed(s)
  BY <1>9, FailEffect
<1>10. CASE AnnounceFailed(s)
  BY <1>10, AnnounceFailedEffect
<1>11. CASE Refund(s)
  BY <1>11, RefundEffect
<1>12. CASE Complete(s) \/ GiveUp(s) \/ Retry(s)
  <2>1. PICK state : Settle(s, state)
    BY <1>12 DEF Complete, GiveUp, Retry
  <2>2. ~Idling(s)
    BY <1>12 DEF Complete, GiveUp, Retry, Idling
  <2> QED
    BY <2>1, <2>2, SettleEffect DEF Idle
<1> QED
  BY <1>1, <1>2, <1>3, <1>4, <1>5, <1>6, <1>7, <1>8, <1>9, <1>10, <1>11, <1>12
     DEF Process

LEMMA BillProcess ==
  ASSUME BillInv, TypeOK', NEW s \in Slots, Process(s), NEW v \in Tasks
  PROVE  BillOf(v)'
<1> USE DEF BillInv, LeaseInv
<1>t. PICK t \in Tasks : t = Task(s)
  BY ProcessFrame
<1>1. /\ ~Idling(s) /\ t = Task(s) /\ req' = req /\ OthersKept(t)
      /\ \A u \in Slots : u # s => slot'[u] = slot[u]
  BY <1>t, ProcessFrame
<1>2. Unbilled(v)' \subseteq Unbilled(v)
  BY <1>1, ProcessUnbilled DEF Unbilled, Task
<1>3. Executions(v)' = Executions(v)
  <2>1. CASE v # t \/ job' = job
    BY <1>1, <2>1 DEF OthersKept, Executions
  <2>2. ASSUME v = t, NEW state \in {"completed", "failed", "waiting"},
               EndsAs(s, state), job' # job
        PROVE  Executions(v)' = Executions(v)
    <3>1. /\ job[t].lock = s
          /\ JobSet(t, state, job[t].made + 1, job[t].stalls, NoSlot)
      BY <1>1, <2>2, SettleEffect DEF EndsAs
    <3>2. job[t].state = "active"
      BY <3>1, SlotAssumption DEF LeaseOf
    <3>3. job[t].stalls \in Nat /\ job[t].made \in Nat
      BY JobNumbers
    <3> QED
      BY <2>2, <3>1, <3>2, <3>3 DEF Executions, JobSet
  <2> QED
    BY <2>1, <2>2, ProcessContinues DEF Continues
<1>4. Executions(v) \in Nat /\ billed[v] \in Nat /\ BillOf(v)
  BY ExecutionsType
<1>5. CASE billed'[v] = billed[v]
  BY <1>2, <1>3, <1>4, <1>5, BillKept
<1>6. CASE billed'[v] # billed[v]
  <2>1. /\ v = t /\ slot[s].pc = "generate" /\ slot'[s].pc \in {"persist", "fail", "rethrow"}
        /\ billed'[t] = billed[t] + 1
    BY <1>1, <1>6, ProcessUnbilled DEF OthersKept, TypeOK
  <2>2. s \in Unbilled(t) /\ s \notin Unbilled(t)'
    BY <1>1, <2>1 DEF Unbilled, BeforeBilling
  <2>3. Unbilled(t)' = Unbilled(t) \ {s}
    BY <1>1, <2>1, <2>2 DEF Unbilled, Task
  <2>4. IsFiniteSet(Unbilled(t)) /\ Cardinality(Unbilled(t)) \in Nat
    BY <1>4, <2>1, FS_CardinalityType DEF BillOf
  <2>5. /\ IsFiniteSet(Unbilled(t)')
        /\ Cardinality(Unbilled(t)') = Cardinality(Unbilled(t)) - 1
    BY <2>2, <2>3, <2>4, FS_RemoveElement
  <2>6. billed[t] + Cardinality(Unbilled(t)) <= Executions(t)
    BY <1>4, <2>1 DEF BillOf
  <2>7. billed'[t] + Cardinality(Unbilled(t)') <= Executions(t)'
    BY <1>3, <1>4, <2>1, <2>4, <2>5, <2>6
  <2> QED
    BY <2>1, <2>5, <2>7 DEF BillOf
<1> QED
  BY <1>5, <1>6

LEMMA BillCrash ==
  ASSUME BillInv, TypeOK', Crash, NEW v \in Tasks
  PROVE  BillOf(v)'
<1> USE DEF BillInv, LeaseInv
<1>1. Unbilled(v)' = {}
  BY CrashEffect DEF Unbilled, BeforeBilling, Idle
<1>2. Executions(v)' = Executions(v) /\ billed' = billed
  BY CrashEffect DEF Executions, JobSet
<1>3. Executions(v) \in Nat /\ BillOf(v)
  BY ExecutionsType
<1> QED
  BY <1>1, <1>2, <1>3, BillKept

LEMMA BillStep == BillInv /\ [Next]_vars => BillInv'
<1> SUFFICES ASSUME BillInv, [Next]_vars
             PROVE  BillInv'
  OBVIOUS
<1>1. LeaseInv' /\ TypeOK'
  BY LeaseStep DEF BillInv, LeaseInv
<1>2. ASSUME NEW v \in Tasks
      PROVE  BillOf(v)'
  <2>1. CASE UNCHANGED vars
    BY <2>1 DEF vars, BillInv, BillOf, Unbilled, Executions, Task
  <2>2. CASE Next
    BY <1>1, <2>2, BillTaskStep, BillTake, BillProcess, BillCrash DEF Next
  <2> QED
    BY <2>1, <2>2
<1> QED
  BY <1>1, <1>2 DEF BillInv

(* Under every fault a task costs at most one text per attempt and stall.   *)
LEMMA BillWithinAttempts ==
  ASSUME BillInv, NEW t \in Tasks
  PROVE  billed[t] <= MaxAttempts + MaxStalls
<1>1. BillOf(t) /\ LeaseOf(t) /\ TypeOK
  BY DEF BillInv, LeaseInv
<1>2. Cardinality(Unbilled(t)) \in Nat
  BY <1>1, FS_CardinalityType DEF BillOf
<1>3. Executions(t) \in Nat /\ billed[t] \in Nat
  BY <1>1, ExecutionsType
<1>4. Executions(t) <= MaxAttempts + MaxStalls
  BY <1>1, JobNumbers DEF Executions, LeaseOf
<1> QED
  BY <1>1, <1>2, <1>3, <1>4, JobNumbers DEF BillOf

-----------------------------------------------------------------------------
(* While no live execution loses its lock, each holds the lock of an active *)
(* job: so no two of them work for the same task.                           *)

HoldsLock(s) ==
  Idling(s) \/ (job[Task(s)].state = "active" /\ job[Task(s)].lock = s)

ExclusiveInv ==
  LeaseInv /\ (Spared({"lostLock"}) => \A s \in Slots : HoldsLock(s))

LEMMA ExclusiveInit == Init => ExclusiveInv
BY LeaseInit DEF Init, ExclusiveInv, HoldsLock, Idling, At, Idle

LEMMA LockKept ==
  ASSUME NEW s \in Slots, HoldsLock(s), slot'[s] = slot[s],
         Idling(s) \/ job'[Task(s)] = job[Task(s)]
  PROVE  HoldsLock(s)'
BY DEF HoldsLock, Idling, At, Task

LEMMA OneAtWork ==
  ASSUME ExclusiveInv, Spared({"lostLock"}), NEW s \in Slots, NEW u \in Slots,
         ~Idling(s), ~Idling(u), Task(s) = Task(u)
  PROVE  s = u
BY DEF ExclusiveInv, HoldsLock

LEMMA FaultsKept ==
  ASSUME TypeOK, [Next]_vars
  PROVE  faults' = faults
<1>1. CASE UNCHANGED vars
  BY <1>1 DEF vars
<1>2. CASE Next
  BY <1>2, ConsumeEffect, InsertEffect, EnqueueEffect, GiveBackEffect, MarkEffect,
     StallEffect, LoseEffect, WipeEffect, TakeEffect, ProcessFrame, CrashEffect
     DEF Next, Create
<1> QED
  BY <1>1, <1>2

(* A task without a job, or whose job nobody holds, has no execution. *)
LEMMA NobodyWorks ==
  ASSUME ExclusiveInv, Spared({"lostLock"}), NEW t \in Tasks, NEW s \in Slots,
         job[t].state # "active" \/ job[t].lock = NoSlot
  PROVE  Idling(s) \/ Task(s) # t
BY SlotAssumption DEF ExclusiveInv, HoldsLock

LEMMA ExclusiveStep == ExclusiveInv /\ [Next]_vars => ExclusiveInv'
<1> SUFFICES ASSUME ExclusiveInv, [Next]_vars
             PROVE  ExclusiveInv'
  OBVIOUS
<1>1. LeaseInv' /\ faults' = faults /\ TypeOK
  BY LeaseStep, FaultsKept DEF ExclusiveInv, LeaseInv
<1>2. ASSUME Spared({"lostLock"}), NEW u \in Slots
      PROVE  HoldsLock(u)'
  <2>1. HoldsLock(u)
    BY <1>2 DEF ExclusiveInv
  <2>2. CASE UNCHANGED vars
    BY <2>1, <2>2, LockKept DEF vars
  <2>3. ASSUME NEW t \in Tasks, Create(t) \/ Stall(t) \/ LoseLock(t) \/ Wipe(t)
        PROVE  HoldsLock(u)'
    <3>1. OthersKept(t) /\ slot' = slot
      BY <1>1, <2>3, ConsumeEffect, InsertEffect, EnqueueEffect, GiveBackEffect,
         MarkEffect, StallEffect, LoseEffect, WipeEffect DEF Create
    <3>2. CASE Idling(u) \/ Task(u) # t \/ job' = job
      BY <1>1, <2>1, <3>1, <3>2, LockKept, BusyTask DEF OthersKept
    <3>3. CASE ~Idling(u) /\ Task(u) = t
      <4>1. job[t].state = "active" /\ job[t].lock = u
        BY <2>1, <3>3 DEF HoldsLock
      <4>2. ~Enqueue(t)
        <5>1. LeaseOf(t)
          BY DEF ExclusiveInv, LeaseInv
        <5> QED
          BY <1>1, <4>1, <5>1, EnqueueEffect DEF LeaseOf
      <4>3. ~Stall(t) /\ ~LoseLock(t)
        BY <1>1, <1>2, <4>1, StallEffect, LoseEffect, SlotAssumption DEF Spared
      <4>4. job' = job
        BY <1>1, <2>3, <4>2, <4>3, ConsumeEffect, InsertEffect, GiveBackEffect,
           MarkEffect, WipeEffect DEF Create
      <4> QED
        BY <3>2, <4>4
    <3> QED
      BY <3>2, <3>3
  <2>4. ASSUME NEW s \in Slots, NEW t \in Tasks, Take(s, t)
        PROVE  HoldsLock(u)'
    <3>1. /\ Idling(s) /\ job[t].state = "waiting" /\ slot'[s].task = t
          /\ \A w \in Slots : w # s => slot'[w] = slot[w]
          /\ OthersKept(t) /\ job'[t].state = "active" /\ job'[t].lock = s
      BY <1>1, <2>4, TakeEffect DEF JobSet
    <3>2. CASE u = s
      BY <3>1, <3>2 DEF HoldsLock, Task
    <3>3. CASE u # s
      <4>1. Idling(u) \/ Task(u) # t
        BY <1>2, <3>1, NobodyWorks
      <4> QED
        BY <1>1, <2>1, <3>1, <3>3, <4>1, LockKept, BusyTask DEF OthersKept
    <3> QED
      BY <3>2, <3>3
  <2>5. ASSUME NEW s \in Slots, Process(s)
        PROVE  HoldsLock(u)'
    <3>1. /\ ~Idling(s) /\ OthersKept(Task(s))
          /\ \A w \in Slots : w # s => slot'[w] = slot[w]
      BY <1>1, <2>5, ProcessFrame
    <3>2. CASE u # s
      <4>1. Idling(u) \/ Task(u) # Task(s)
        BY <1>2, <3>1, <3>2, OneAtWork
      <4> QED
        BY <1>1, <2>1, <3>1, <3>2, <4>1, LockKept, BusyTask DEF OthersKept
    <3>3. CASE u = s /\ Continues(s)
      BY <2>1, <3>1, <3>3 DEF HoldsLock, Continues, Idling, At, Task
    <3>4. ASSUME u = s, NEW state, EndsAs(s, state)
          PROVE  HoldsLock(u)'
      BY <1>1, <3>1, <3>4, SettleEffect DEF EndsAs, HoldsLock, Idling, At, Idle
    <3> QED
      BY <1>1, <2>5, <3>2, <3>3, <3>4, ProcessContinues
  <2>6. CASE Crash
    BY <1>1, <2>6, CrashEffect DEF HoldsLock, Idling, At, Idle
  <2> QED
    BY <2>2, <2>3, <2>4, <2>5, <2>6 DEF Next
<1> QED
  BY <1>1, <1>2 DEF ExclusiveInv, Spared

-----------------------------------------------------------------------------
(* What is stored and what was delivered.  An execution that has looked at  *)
(* its row holds the text stored there, or none when there is none; a text  *)
(* just generated is stored before anything else; and what the owner holds  *)
(* is what is stored.                                                       *)

TextHeld(s) ==
  /\ slot[s].pc \in {"start", "announceRunning", "generate", "deliver"}
     /\ Exists(Task(s)) => row[Task(s)].result = slot[s].text
  /\ slot[s].pc = "generate" => slot[s].text = 0
  /\ slot[s].pc = "persist" => slot[s].text # 0 /\ row[Task(s)].result = 0
  /\ slot[s].pc = "deliver" => slot[s].text # 0

OwnedOf(t) ==
  Exists(t) => \A i \in DOMAIN owned[t] :
                 row[t].result # 0 /\ owned[t][i] = row[t].result

AbsentIsBlank(t) == ~Exists(t) => row[t].result = 0

StoreInv ==
  /\ ExclusiveInv /\ DeliveryInv
  /\ \A t \in Tasks : AbsentIsBlank(t)
  /\ Spared({"lostLock"}) =>
       /\ \A t \in Tasks : OwnedOf(t)
       /\ \A s \in Slots : Idling(s) \/ TextHeld(s)

LEMMA StoreInit == Init => StoreInv
<1> SUFFICES ASSUME Init
             PROVE  StoreInv
  OBVIOUS
<1>1. \A t \in Tasks : AbsentIsBlank(t) /\ OwnedOf(t)
  BY DEF Init, AbsentIsBlank, OwnedOf, Exists
<1>2. \A s \in Slots : Idling(s)
  BY DEF Init, Idling, At, Idle
<1> QED
  BY <1>1, <1>2, ExclusiveInit, DeliveryInit DEF StoreInv

LEMMA OwnedOfKept ==
  ASSUME NEW t \in Tasks, OwnedOf(t), row'[t] = row[t], owned'[t] = owned[t]
  PROVE  OwnedOf(t)'
BY DEF OwnedOf, Exists

LEMMA BlankKept ==
  ASSUME NEW t \in Tasks, AbsentIsBlank(t), row'[t] = row[t]
  PROVE  AbsentIsBlank(t)'
BY DEF AbsentIsBlank, Exists

LEMMA TextHeldKept ==
  ASSUME NEW s \in Slots, Idling(s) \/ TextHeld(s), slot'[s] = slot[s],
         Idling(s) \/ row'[Task(s)] = row[Task(s)]
  PROVE  Idling(s)' \/ TextHeld(s)'
BY DEF TextHeld, Idling, At, Task, Exists

(* A row whose status alone is written keeps all of it true. *)
LEMMA StatusSetKeeps ==
  ASSUME NEW t \in Tasks, NEW st, st # "absent", StatusSet(t, st)
  PROVE  /\ AbsentIsBlank(t)'
         /\ OwnedOf(t) /\ owned'[t] = owned[t] => OwnedOf(t)'
         /\ \A s \in Slots :
              slot'[s] = slot[s] /\ Task(s) = t /\ (Idling(s) \/ TextHeld(s))
                => Idling(s)' \/ TextHeld(s)'
BY DEF AbsentIsBlank, OwnedOf, TextHeld, Idling, At, Task, Exists, StatusSet

LEMMA BlankStep ==
  ASSUME StoreInv, [Next]_vars, NEW t \in Tasks
  PROVE  AbsentIsBlank(t)'
<1>1. TypeOK /\ AbsentIsBlank(t) /\ DeliveryInv
  BY DEF StoreInv, DeliveryInv
<1>2. CASE row' = row
  BY <1>1, <1>2, BlankKept
<1>3. ASSUME NEW v \in Tasks, InsertRow(v) \/ MarkUnqueued(v) \/ Wipe(v)
      PROVE  AbsentIsBlank(t)'
  <2>1. CASE t # v
    <3>1. row'[t] = row[t]
      BY <1>1, <1>3, <2>1, InsertEffect, MarkEffect, WipeEffect DEF OthersKept
    <3> QED
      BY <1>1, <3>1, BlankKept
  <2>2. CASE t = v
    BY <1>1, <1>2, <1>3, <2>2, InsertEffect, MarkEffect, WipeEffect, StatusSetKeeps
       DEF AbsentIsBlank, Exists
  <2> QED
    BY <2>1, <2>2
<1>4. ASSUME NEW s \in Slots, Process(s), row' # row
      PROVE  AbsentIsBlank(t)'
  <2>1. Task(s) \in Tasks /\ OthersKept(Task(s))
    BY <1>1, <1>4, ProcessFrame
  <2>2. CASE t # Task(s)
    <3>1. row'[t] = row[t]
      BY <2>1, <2>2 DEF OthersKept
    <3> QED
      BY <1>1, <3>1, BlankKept
  <2>3. CASE t = Task(s)
    <3>1. Exists(t)'
      <4>1. CASE StartRunning(s)
        BY <1>1, <1>4, <2>3, <4>1, StartEffect DEF StatusSet, Exists
      <4>2. CASE Persist(s)
        BY <1>1, <1>4, <2>3, <4>2, PersistEffect DEF ResultSet, Exists
      <4>3. CASE MarkSucceeded(s)
        BY <1>1, <1>4, <2>3, <4>3, SucceedEffect DEF StatusSet, Exists
      <4>4. CASE MarkFailed(s)
        BY <1>1, <1>4, <2>3, <4>4, FailEffect DEF StatusSet, Exists
      <4> QED
        BY <1>4, <4>1, <4>2, <4>3, <4>4
           DEF Process, FindTask, AnnounceRunning, Generate, Deliver,
               AnnounceSucceeded, AnnounceFailed, Refund, Complete, GiveUp, Retry,
               Settle
    <3> QED
      BY <3>1 DEF AbsentIsBlank
  <2> QED
    BY <2>2, <2>3
<1>5. CASE Next
  BY <1>1, <1>2, <1>3, <1>4, <1>5, ConsumeEffect, EnqueueEffect, GiveBackEffect,
     StallEffect, LoseEffect, TakeEffect, CrashEffect
     DEF Next, Create
<1> QED
  BY <1>2, <1>5 DEF vars

(* A request's or BullMQ's step keeps what is held and what is owned. *)
LEMMA StoreTaskStep ==
  ASSUME StoreInv, Spared({"lostLock"}), NEW t \in Tasks,
         Create(t) \/ Stall(t) \/ LoseLock(t) \/ Wipe(t)
  PROVE  /\ \A v \in Tasks : OwnedOf(v)'
         /\ \A s \in Slots : Idling(s)' \/ TextHeld(s)'
<1>1. /\ TypeOK /\ ExclusiveInv /\ DeliveryInv /\ LeaseOf(t) /\ AbsentIsBlank(t)
      /\ \A v \in Tasks : OwnedOf(v)
      /\ \A s \in Slots : Idling(s) \/ TextHeld(s)
  BY DEF StoreInv, DeliveryInv, ExclusiveInv, LeaseInv
<1>2. OthersKept(t) /\ slot' = slot /\ owned' = owned
  BY <1>1, ConsumeEffect, InsertEffect, EnqueueEffect, GiveBackEffect, MarkEffect,
     StallEffect, LoseEffect, WipeEffect DEF Create
<1>3. ASSUME NEW v \in Tasks, v # t
      PROVE  OwnedOf(v)'
  BY <1>1, <1>2, <1>3, OwnedOfKept DEF OthersKept
<1>4. ASSUME NEW s \in Slots, Idling(s) \/ Task(s) # t
      PROVE  Idling(s)' \/ TextHeld(s)'
  BY <1>1, <1>2, <1>4, TextHeldKept, BusyTask DEF OthersKept
<1>5. CASE row' = row
  BY <1>1, <1>2, <1>5, OwnedOfKept, TextHeldKept
<1>6. CASE InsertRow(t) /\ row' # row
  <2>1. req[t] = "insert"
    BY <1>1, <1>6, InsertEffect
  <2>2. job[t].state = "none" /\ owned[t] = <<>>
    BY <1>1, <2>1 DEF LeaseOf
  <2>3. OwnedOf(t)'
    BY <1>2, <2>2 DEF OwnedOf
  <2>4. \A s \in Slots : Idling(s) \/ Task(s) # t
    BY <1>1, <2>2, NobodyWorks
  <2> QED
    BY <1>3, <1>4, <2>3, <2>4
<1>7. CASE MarkUnqueued(t) /\ row' # row
  <2>1. StatusSet(t, "FAILED")
    BY <1>1, <1>7, MarkEffect
  <2>2. OwnedOf(t)'
    BY <1>1, <1>2, <2>1, StatusSetKeeps
  <2>3. ASSUME NEW s \in Slots, Task(s) = t
        PROVE  Idling(s)' \/ TextHeld(s)'
    BY <1>1, <1>2, <2>1, <2>3, StatusSetKeeps
  <2> QED
    BY <1>3, <1>4, <2>2, <2>3
<1>8. CASE Wipe(t)
  <2>1. row'[t].status = "absent" /\ row'[t].result = 0
    BY <1>1, <1>8, WipeEffect
  <2>2. OwnedOf(t)'
    BY <2>1 DEF OwnedOf, Exists
  <2>3. ASSUME NEW s \in Slots, Task(s) = t
        PROVE  Idling(s)' \/ TextHeld(s)'
    BY <1>1, <1>2, <2>1, <2>3 DEF TextHeld, Idling, At, Task, Exists
  <2> QED
    BY <1>3, <1>4, <2>2, <2>3
<1> QED
  BY <1>1, <1>5, <1>6, <1>7, <1>8, ConsumeEffect, EnqueueEffect, GiveBackEffect,
     StallEffect, LoseEffect DEF Create

LEMMA StoreTake ==
  ASSUME StoreInv, Spared({"lostLock"}), NEW s \in Slots, NEW t \in Tasks, Take(s, t)
  PROVE  /\ \A v \in Tasks : OwnedOf(v)'
         /\ \A u \in Slots : Idling(u)' \/ TextHeld(u)'
<1>1. /\ TypeOK /\ \A v \in Tasks : OwnedOf(v)
      /\ \A u \in Slots : Idling(u) \/ TextHeld(u)
  BY DEF StoreInv, DeliveryInv
<1>2. /\ row' = row /\ owned' = owned /\ slot'[s].pc = "find"
      /\ \A u \in Slots : u # s => slot'[u] = slot[u]
  BY <1>1, TakeEffect
<1>3. \A v \in Tasks : OwnedOf(v)'
  BY <1>1, <1>2, OwnedOfKept
<1>4. ASSUME NEW u \in Slots, u # s
      PROVE  Idling(u)' \/ TextHeld(u)'
  BY <1>1, <1>2, <1>4, TextHeldKept
<1>5. TextHeld(s)'
  BY <1>2 DEF TextHeld
<1> QED
  BY <1>3, <1>4, <1>5

(* What an execution's own step leaves of its text and its task's copies. *)
LEMMA StoreOwnStep ==
  ASSUME StoreInv, Spared({"lostLock"}), NEW s \in Slots, Process(s),
         NEW t \in Tasks, t = Task(s)
  PROVE  (Idling(s)' \/ TextHeld(s)') /\ OwnedOf(t)'
<1>1. /\ TypeOK /\ OwnedOf(t) /\ AbsentIsBlank(t) /\ ~Idling(s) /\ TextHeld(s)
      /\ t = slot[s].task /\ t = Task(s)
  BY ProcessFrame DEF StoreInv, DeliveryInv, Task
<1>2. ASSUME slot'[s].pc \in {"fail", "rethrow", "giveUp", "succeed",
                              "announceSucceeded", "done", "announceFailed",
                              "refund", "idle"}
      PROVE  TextHeld(s)'
  BY <1>2 DEF TextHeld
<1>3. ASSUME row' = row, owned' = owned
      PROVE  OwnedOf(t)'
  BY <1>1, <1>3, OwnedOfKept
<1>4. ASSUME NEW st, st # "absent", StatusSet(t, st), owned' = owned
      PROVE  OwnedOf(t)'
  BY <1>1, <1>4, StatusSetKeeps
<1>5. CASE FindTask(s)
  <2>1. ASSUME MovedWith(s, "start", row[t].result), row' = row
        PROVE  TextHeld(s)'
    BY <1>1, <2>1 DEF TextHeld, MovedWith, Task, Exists
  <2> QED
    BY <1>1, <1>2, <1>3, <1>5, <2>1, FindEffect DEF Moved, MovedWith
<1>6. CASE StartRunning(s)
  <2>1. ASSUME StatusSet(t, "RUNNING"), Moved(s, "announceRunning")
        PROVE  TextHeld(s)'
    <3>1. At(s, "start")
      BY <1>1, <1>6, StartEffect
    <3> QED
      BY <1>1, <2>1, <3>1 DEF TextHeld, Moved, MovedWith, Task, Exists, StatusSet, At
  <2> QED
    BY <1>1, <1>2, <1>3, <1>4, <1>6, <2>1, StartEffect DEF Moved, MovedWith
<1>7. CASE AnnounceRunning(s)
  <2>1. /\ row' = row /\ owned' = owned /\ At(s, "announceRunning")
        /\ \/ slot[s].text = 0 /\ Moved(s, "generate")
           \/ slot[s].text # 0 /\ Moved(s, "deliver")
           \/ Moved(s, "rethrow")
    BY <1>1, <1>7, AnnounceRunningEffect
  <2>2. TextHeld(s)'
    BY <1>1, <2>1 DEF TextHeld, Moved, MovedWith, Task, Exists, At
  <2> QED
    BY <1>3, <2>1, <2>2
<1>8. CASE Generate(s)
  <2>1. row' = row /\ owned' = owned /\ At(s, "generate")
    BY <1>1, <1>8, GenerateEffect
  <2>2. ASSUME MovedWith(s, "persist", billed[t] + 1)
        PROVE  TextHeld(s)'
    <3>1. billed[t] + 1 # 0
      BY <1>1 DEF TypeOK
    <3>2. row[t].result = 0
      BY <1>1, <2>1 DEF TextHeld, AbsentIsBlank, At
    <3> QED
      BY <1>1, <2>1, <2>2, <3>1, <3>2 DEF TextHeld, MovedWith, Task
  <2>3. ASSUME MovedByCatch(s)
        PROVE  TextHeld(s)'
    BY <1>2, <2>3 DEF MovedByCatch, Moved, MovedWith
  <2> QED
    BY <1>1, <1>3, <1>8, <2>1, <2>2, <2>3, GenerateEffect
<1>9. CASE Persist(s)
  <2>1. owned' = owned /\ slot[s].text # 0 /\ row[t].result = 0
    BY <1>1, <1>9, PersistEffect DEF TextHeld, At
  <2>2. ResultSet(t, slot[s].text) => OwnedOf(t)'
    BY <1>1, <2>1 DEF OwnedOf, ResultSet
  <2>3. ASSUME ResultSet(t, slot[s].text), Moved(s, "deliver")
        PROVE  TextHeld(s)'
    BY <1>1, <2>1, <2>3 DEF TextHeld, Moved, MovedWith, Task, Exists, ResultSet
  <2>4. ASSUME MovedByCatch(s)
        PROVE  TextHeld(s)'
    BY <1>2, <2>4 DEF MovedByCatch, Moved, MovedWith
  <2> QED
    BY <1>1, <1>3, <1>9, <2>1, <2>2, <2>3, <2>4, PersistEffect
<1>10. CASE Deliver(s)
  <2>1. /\ row' = row /\ slot[s].text # 0
        /\ Exists(t) => row[t].result = slot[s].text
    BY <1>1, <1>10, DeliverEffect DEF TextHeld, At
  <2>2. Handed(t, slot[s].text) => OwnedOf(t)'
    BY <1>1, <2>1 DEF OwnedOf, Handed, Exists
  <2>3. OwnedOf(t)'
    BY <1>1, <1>3, <1>10, <2>1, <2>2, DeliverEffect
  <2>4. slot'[s].pc \in {"succeed", "fail", "rethrow"}
    BY <1>1, <1>10, DeliverEffect DEF MovedByCatch, Moved, MovedWith
  <2> QED
    BY <1>2, <2>3, <2>4
<1>11. CASE MarkSucceeded(s)
  BY <1>1, <1>2, <1>3, <1>4, <1>11, SucceedEffect
     DEF MovedByCatch, Moved, MovedWith
<1>12. CASE AnnounceSucceeded(s)
  BY <1>1, <1>2, <1>3, <1>12, AnnounceSucceededEffect
     DEF MovedByCatch, Moved, MovedWith
<1>13. CASE MarkFailed(s)
  BY <1>1, <1>2, <1>3, <1>4, <1>13, FailEffect DEF Moved, MovedWith
<1>14. CASE AnnounceFailed(s)
  BY <1>1, <1>2, <1>3, <1>14, AnnounceFailedEffect DEF Moved, MovedWith
<1>15. CASE Refund(s)
  BY <1>1, <1>2, <1>3, <1>15, RefundEffect DEF Moved, MovedWith
<1>16. CASE Complete(s) \/ GiveUp(s) \/ Retry(s)
  <2>1. PICK state : Settle(s, state)
    BY <1>16 DEF Complete, GiveUp, Retry
  <2>2. slot'[s] = Idle /\ row' = row /\ owned' = owned
    BY <1>1, <2>1, SettleEffect
  <2> QED
    BY <1>3, <2>2 DEF Idling, At, Idle
<1> QED
  BY <1>5, <1>6, <1>7, <1>8, <1>9, <1>10, <1>11, <1>12, <1>13, <1>14, <1>15, <1>16
     DEF Process

LEMMA StoreStep == StoreInv /\ [Next]_vars => StoreInv'
<1> SUFFICES ASSUME StoreInv, [Next]_vars
             PROVE  StoreInv'
  OBVIOUS
<1>1. ExclusiveInv' /\ DeliveryInv' /\ TypeOK /\ faults' = faults
  BY ExclusiveStep, DeliveryStep, FaultsKept DEF StoreInv, DeliveryInv
<1>2. ASSUME Spared({"lostLock"})
      PROVE  /\ \A t \in Tasks : OwnedOf(t)'
             /\ \A s \in Slots : Idling(s)' \/ TextHeld(s)'
  <2>1. /\ \A t \in Tasks : OwnedOf(t)
        /\ \A s \in Slots : Idling(s) \/ TextHeld(s)
    BY <1>2 DEF StoreInv
  <2>2. CASE UNCHANGED vars
    BY <2>1, <2>2, OwnedOfKept, TextHeldKept DEF vars
  <2>3. ASSUME NEW s \in Slots, Process(s)
        PROVE  /\ \A t \in Tasks : OwnedOf(t)'
               /\ \A u \in Slots : Idling(u)' \/ TextHeld(u)'
    <3>t. PICK t \in Tasks : t = Task(s)
      BY <1>1, <2>3, ProcessFrame
    <3>1. /\ ~Idling(s) /\ OthersKept(t)
          /\ \A u \in Slots : u # s => slot'[u] = slot[u]
      BY <1>1, <2>3, <3>t, ProcessFrame
    <3>2. OwnedOf(t)' /\ (Idling(s)' \/ TextHeld(s)')
      BY <1>2, <2>3, <3>t, StoreOwnStep
    <3>3. ASSUME NEW v \in Tasks, v # t
          PROVE  OwnedOf(v)'
      BY <2>1, <3>1, <3>3, OwnedOfKept DEF OthersKept
    <3>4. ASSUME NEW u \in Slots, u # s
          PROVE  Idling(u)' \/ TextHeld(u)'
      <4>1. Idling(u) \/ Task(u) # t
        BY <1>2, <3>t, <3>1, <3>4, OneAtWork DEF StoreInv
      <4> QED
        BY <1>1, <2>1, <3>1, <3>4, <4>1, TextHeldKept, BusyTask DEF OthersKept
    <3> QED
      BY <3>2, <3>3, <3>4
  <2>4. CASE Crash
    <3>1. row' = row /\ owned' = owned /\ \A s \in Slots : slot'[s] = Idle
      BY <1>1, <2>4, CrashEffect
    <3> QED
      BY <2>1, <3>1, OwnedOfKept DEF Idling, At, Idle
  <2> QED
    BY <1>2, <2>2, <2>3, <2>4, StoreTaskStep, StoreTake DEF Next
<1>3. \A t \in Tasks : AbsentIsBlank(t)'
  BY BlankStep
<1> QED
  BY <1>1, <1>2, <1>3 DEF StoreInv, Spared

(* Unless two executions of one job overlap, every copy the owner of an     *)
(* artefact holds is the text its row stores: what the user polls is what   *)
(* was saved, for every number of requests, slots and attempts and whatever *)
(* else goes wrong.                                                         *)
THEOREM DeliveredStored == Spec => []DeliveredIsStored
<1>1. StoreInv => DeliveredIsStored
  BY DEF StoreInv, DeliveredIsStored, OwnedOf
<1> QED
  BY StoreInit, StoreStep, <1>1, PTL DEF Spec

(* Unless two executions of one job overlap, the model is never billed for  *)
(* a task whose row already stores a text: a retry reuses what was saved.   *)
THEOREM StoredReused == Spec => StoredIsReused
<1>1. StoreInv /\ [Next]_vars =>
        [Spared({"lostLock"}) =>
           \A t \in Tasks : billed'[t] # billed[t] => row[t].result = 0]_vars
  <2> SUFFICES ASSUME StoreInv, [Next]_vars, Spared({"lostLock"}),
                      NEW t \in Tasks, billed'[t] # billed[t]
               PROVE  row[t].result = 0
    OBVIOUS
  <2>1. TypeOK
    BY DEF StoreInv, DeliveryInv
  <2>2. PICK s \in Slots : Generate(s)
    BY DEF Next, vars, Create, Consume, InsertRow, Enqueue, GiveBack, MarkUnqueued,
         Take, Process, FindTask, StartRunning, AnnounceRunning, Persist, Deliver,
         MarkSucceeded, AnnounceSucceeded, MarkFailed, AnnounceFailed, Refund,
         Complete, GiveUp, Retry, Settle, Stall, LoseLock, Crash, Wipe, upstream
  <2>3. t = Task(s) /\ At(s, "generate") /\ ~Idling(s)
    BY <2>1, <2>2, GenerateEffect DEF TypeOK
  <2>4. TextHeld(s) /\ AbsentIsBlank(t)
    BY <2>3 DEF StoreInv
  <2> QED
    BY <2>3, <2>4 DEF TextHeld, AbsentIsBlank, At
<1> QED
  BY StoreInit, StoreStep, <1>1, PTL DEF Spec, StoredIsReused

-----------------------------------------------------------------------------
(* A task is billed once while the model answers and the process, its locks  *)
(* and its database hold up: what was billed is in the row, or in the hands  *)
(* of the one execution about to store it, and whoever found nothing stored  *)
(* finds nothing billed.                                                     *)

SoundStore == Spared({"model", "crash", "lostLock", "db"})

UnbilledYet(s) ==
  slot[s].pc \in {"start", "announceRunning", "generate"} /\ slot[s].text = 0
    => billed[Task(s)] = 0

Storing(t) == \E s \in Slots : Task(s) = t /\ slot[s].pc = "persist"

BilledOnce(t) ==
  /\ billed[t] <= 1
  /\ billed[t] # 0 /\ Exists(t) => row[t].result # 0 \/ Storing(t)

OnceInv ==
  /\ StoreInv
  /\ SoundStore => /\ \A t \in Tasks : BilledOnce(t)
                   /\ \A s \in Slots : Idling(s) \/ UnbilledYet(s)

LEMMA OnceInit == Init => OnceInv
<1> SUFFICES ASSUME Init
             PROVE  OnceInv
  OBVIOUS
<1>1. \A t \in Tasks : BilledOnce(t)
  BY DEF Init, BilledOnce
<1>2. \A s \in Slots : Idling(s)
  BY DEF Init, Idling, At, Idle
<1> QED
  BY <1>1, <1>2, StoreInit DEF OnceInv

LEMMA UnbilledKept ==
  ASSUME NEW s \in Slots, Idling(s) \/ UnbilledYet(s), slot'[s] = slot[s],
         Idling(s) \/ billed'[Task(s)] = billed[Task(s)]
  PROVE  Idling(s)' \/ UnbilledYet(s)'
BY DEF UnbilledYet, Idling, At, Task

(* Nothing new is written of t, and who is storing goes on storing. *)
LEMMA OnceKept ==
  ASSUME NEW t \in Tasks, BilledOnce(t), billed'[t] = billed[t],
         Exists(t)' => Exists(t) /\ row'[t].result = row[t].result,
         Storing(t) => Storing(t)'
  PROVE  BilledOnce(t)'
BY DEF BilledOnce

LEMMA StoringKept ==
  ASSUME NEW t \in Tasks, NEW s,
         \A u \in Slots : u # s => slot'[u] = slot[u],
         slot[s].pc # "persist" \/ Task(s) # t
  PROVE  Storing(t) => Storing(t)'
BY DEF Storing, Task

LEMMA OnceTaskStep ==
  ASSUME OnceInv, SoundStore, NEW t \in Tasks,
         Create(t) \/ Stall(t) \/ LoseLock(t) \/ Wipe(t)
  PROVE  /\ \A v \in Tasks : BilledOnce(v)'
         /\ \A s \in Slots : Idling(s)' \/ UnbilledYet(s)'
<1>1. /\ TypeOK /\ LeaseOf(t)
      /\ \A v \in Tasks : BilledOnce(v)
      /\ \A s \in Slots : Idling(s) \/ UnbilledYet(s)
  BY DEF OnceInv, StoreInv, DeliveryInv, ExclusiveInv, LeaseInv
<1>2. OthersKept(t) /\ slot' = slot /\ billed' = billed
  BY <1>1, ConsumeEffect, InsertEffect, EnqueueEffect, GiveBackEffect, MarkEffect,
     StallEffect, LoseEffect, WipeEffect DEF Create
<1>3. \A s \in Slots : Idling(s)' \/ UnbilledYet(s)'
  BY <1>1, <1>2, UnbilledKept
<1>4. \A v \in Tasks : Storing(v)' = Storing(v)
  BY <1>2 DEF Storing, Task
<1>5. ASSUME NEW v \in Tasks, v # t \/ row' = row
      PROVE  BilledOnce(v)'
  BY <1>1, <1>2, <1>4, <1>5, OnceKept DEF OthersKept, Exists
<1>6. CASE InsertRow(t)
  <2>1. billed[t] = 0
    BY <1>1, <1>6, InsertEffect DEF LeaseOf
  <2>2. BilledOnce(t)'
    BY <1>2, <2>1 DEF BilledOnce
  <2> QED
    BY <1>3, <1>5, <2>2
<1>7. CASE MarkUnqueued(t)
  <2>1. row' = row \/ StatusSet(t, "FAILED")
    BY <1>1, <1>7, MarkEffect
  <2>2. StatusSet(t, "FAILED") => BilledOnce(t)'
    BY <1>1, <1>2, <1>4, OnceKept DEF StatusSet
  <2> QED
    BY <1>3, <1>5, <2>1, <2>2
<1>8. CASE Wipe(t)
  <2>1. BilledOnce(t)'
    BY <1>1, <1>2, <1>8, WipeEffect DEF BilledOnce, Exists
  <2> QED
    BY <1>3, <1>5, <2>1
<1> QED
  BY <1>1, <1>3, <1>5, <1>6, <1>7, <1>8, ConsumeEffect, EnqueueEffect,
     GiveBackEffect, StallEffect, LoseEffect DEF Create

LEMMA OnceTake ==
  ASSUME OnceInv, SoundStore, NEW s \in Slots, NEW t \in Tasks, Take(s, t)
  PROVE  /\ \A v \in Tasks : BilledOnce(v)'
         /\ \A u \in Slots : Idling(u)' \/ UnbilledYet(u)'
<1>1. /\ TypeOK /\ \A v \in Tasks : BilledOnce(v)
      /\ \A u \in Slots : Idling(u) \/ UnbilledYet(u)
  BY DEF OnceInv, StoreInv, DeliveryInv
<1>2. /\ Idling(s) /\ row' = row /\ billed' = billed /\ slot'[s].pc = "find"
      /\ \A u \in Slots : u # s => slot'[u] = slot[u]
  BY <1>1, TakeEffect
<1>3. ASSUME NEW v \in Tasks
      PROVE  BilledOnce(v)'
  <2>1. Storing(v) => Storing(v)'
    BY <1>2, StoringKept DEF Idling, At
  <2> QED
    BY <1>1, <1>2, <2>1, OnceKept DEF Exists
<1>4. ASSUME NEW u \in Slots, u # s
      PROVE  Idling(u)' \/ UnbilledYet(u)'
  BY <1>1, <1>2, <1>4, UnbilledKept
<1>5. UnbilledYet(s)'
  BY <1>2 DEF UnbilledYet
<1> QED
  BY <1>3, <1>4, <1>5

LEMMA OnceOwnStep ==
  ASSUME OnceInv, SoundStore, NEW s \in Slots, Process(s),
         NEW t \in Tasks, t = Task(s)
  PROVE  (Idling(s)' \/ UnbilledYet(s)') /\ BilledOnce(t)'
<1>1. /\ TypeOK /\ ~Idling(s) /\ t = slot[s].task /\ t = Task(s)
      /\ BilledOnce(t) /\ UnbilledYet(s) /\ TextHeld(s)
      /\ \A u \in Slots : u # s => slot'[u] = slot[u]
  BY ProcessFrame DEF OnceInv, StoreInv, DeliveryInv, Task, SoundStore, Spared
<1>2. "db" \notin faults
  BY DEF SoundStore, Spared
<1>3. ASSUME NEW u \in Slots, Task(u) = t, ~Idling(u)
      PROVE  u = s
  BY <1>1, <1>3, OneAtWork DEF OnceInv, StoreInv, SoundStore, Spared
<1>4. ASSUME Storing(t), billed[t] # 0
      PROVE  At(s, "persist")
  BY <1>3, <1>4 DEF Storing, Idling, At
<1>5. ASSUME slot'[s].pc \notin {"start", "announceRunning", "generate"}
      PROVE  UnbilledYet(s)'
  BY <1>5 DEF UnbilledYet
<1>6. ASSUME ~At(s, "persist"), billed' = billed,
             row' = row \/ \E st : StatusSet(t, st)
      PROVE  BilledOnce(t)'
  BY <1>1, <1>4, <1>6 DEF BilledOnce, Exists, StatusSet
<1>7. CASE FindTask(s)
  <2>1. row' = row /\ billed' = billed /\ At(s, "find")
    BY <1>1, <1>7, FindEffect
  <2>2. BilledOnce(t)'
    BY <1>6, <2>1 DEF At
  <2>3. ASSUME Exists(t), MovedWith(s, "start", row[t].result)
        PROVE  UnbilledYet(s)'
    <3>1. row[t].result = 0 => billed[t] = 0
      BY <1>1, <1>4, <2>1, <2>3 DEF BilledOnce, At
    <3> QED
      BY <1>1, <2>1, <2>3, <3>1 DEF UnbilledYet, MovedWith, Task
  <2> QED
    BY <1>1, <1>5, <1>7, <2>2, <2>3, FindEffect DEF Moved, MovedWith
<1>8. CASE StartRunning(s)
  <2>1. billed' = billed /\ At(s, "start")
    BY <1>1, <1>8, StartEffect
  <2>2. BilledOnce(t)'
    BY <1>1, <1>6, <1>8, <2>1, StartEffect DEF At
  <2>3. Moved(s, "announceRunning") => UnbilledYet(s)'
    BY <1>1, <2>1 DEF UnbilledYet, Moved, MovedWith, Task, At
  <2> QED
    BY <1>1, <1>5, <1>8, <2>2, <2>3, StartEffect DEF Moved, MovedWith
<1>9. CASE AnnounceRunning(s)
  <2>1. row' = row /\ billed' = billed /\ At(s, "announceRunning")
    BY <1>1, <1>9, AnnounceRunningEffect
  <2>2. BilledOnce(t)'
    BY <1>6, <2>1 DEF At
  <2>3. Moved(s, "generate") => UnbilledYet(s)'
    BY <1>1, <2>1 DEF UnbilledYet, Moved, MovedWith, Task, At
  <2> QED
    BY <1>1, <1>5, <1>9, <2>2, <2>3, AnnounceRunningEffect DEF Moved, MovedWith
<1>10. CASE Generate(s)
  <2>1. row' = row /\ At(s, "generate")
    BY <1>1, <1>10, GenerateEffect
  <2>2. ASSUME billed' = [billed EXCEPT ![t] = @ + 1],
               MovedWith(s, "persist", billed[t] + 1)
        PROVE  BilledOnce(t)'
    <3>1. billed[t] = 0
      BY <1>1, <2>1 DEF UnbilledYet, TextHeld, At
    <3>2. billed'[t] = 1
      BY <1>1, <2>2, <3>1 DEF TypeOK
    <3>3. Storing(t)'
      BY <1>1, <2>2 DEF Storing, Task, MovedWith
    <3> QED
      BY <3>2, <3>3 DEF BilledOnce
  <2>3. "model" \notin faults
    BY DEF SoundStore, Spared
  <2>4. slot'[s].pc \in {"persist", "fail", "rethrow"}
    BY <1>1, <1>10, GenerateEffect DEF MovedByCatch, Moved, MovedWith
  <2> QED
    BY <1>1, <1>5, <1>10, <2>2, <2>3, <2>4, GenerateEffect
<1>11. CASE Persist(s)
  <2>1. billed' = billed /\ slot[s].text # 0
    BY <1>1, <1>11, PersistEffect DEF TextHeld, At
  <2>2. BilledOnce(t)'
    BY <1>1, <1>2, <1>11, <2>1, PersistEffect DEF BilledOnce, ResultSet, Exists
  <2>3. slot'[s].pc \in {"deliver", "fail", "rethrow"}
    BY <1>1, <1>11, PersistEffect DEF MovedByCatch, Moved, MovedWith
  <2> QED
    BY <1>5, <2>2, <2>3
<1>12. CASE Deliver(s)
  BY <1>1, <1>5, <1>6, <1>12, DeliverEffect DEF MovedByCatch, Moved, MovedWith, At
<1>13. CASE MarkSucceeded(s)
  BY <1>1, <1>5, <1>6, <1>13, SucceedEffect DEF MovedByCatch, Moved, MovedWith, At
<1>14. CASE AnnounceSucceeded(s)
  BY <1>1, <1>5, <1>6, <1>14, AnnounceSucceededEffect
     DEF MovedByCatch, Moved, MovedWith, At
<1>15. CASE MarkFailed(s)
  BY <1>1, <1>5, <1>6, <1>15, FailEffect DEF Moved, MovedWith, At
<1>16. CASE AnnounceFailed(s)
  BY <1>1, <1>5, <1>6, <1>16, AnnounceFailedEffect DEF Moved, MovedWith, At
<1>17. CASE Refund(s)
  BY <1>1, <1>5, <1>6, <1>17, RefundEffect DEF Moved, MovedWith, At
<1>18. CASE Complete(s) \/ GiveUp(s) \/ Retry(s)
  <2>1. PICK state : Settle(s, state)
    BY <1>18 DEF Complete, GiveUp, Retry
  <2>2. slot'[s] = Idle /\ row' = row /\ billed' = billed
    BY <1>1, <2>1, SettleEffect
  <2>3. ~At(s, "persist")
    BY <1>18 DEF Complete, GiveUp, Retry, At
  <2> QED
    BY <1>6, <2>2, <2>3 DEF Idling, At, Idle
<1> QED
  BY <1>7, <1>8, <1>9, <1>10, <1>11, <1>12, <1>13, <1>14, <1>15, <1>16, <1>17, <1>18
     DEF Process

LEMMA OnceStep == OnceInv /\ [Next]_vars => OnceInv'
<1> SUFFICES ASSUME OnceInv, [Next]_vars
             PROVE  OnceInv'
  OBVIOUS
<1>1. StoreInv' /\ TypeOK /\ faults' = faults
  BY StoreStep, FaultsKept DEF OnceInv, StoreInv, DeliveryInv
<1>2. ASSUME SoundStore
      PROVE  /\ \A t \in Tasks : BilledOnce(t)'
             /\ \A s \in Slots : Idling(s)' \/ UnbilledYet(s)'
  <2>1. /\ \A t \in Tasks : BilledOnce(t)
        /\ \A s \in Slots : Idling(s) \/ UnbilledYet(s)
    BY <1>2 DEF OnceInv
  <2>2. CASE UNCHANGED vars
    BY <2>1, <2>2 DEF vars, BilledOnce, UnbilledYet, Storing, Idling, At, Task, Exists
  <2>3. ASSUME NEW s \in Slots, Process(s)
        PROVE  /\ \A t \in Tasks : BilledOnce(t)'
               /\ \A u \in Slots : Idling(u)' \/ UnbilledYet(u)'
    <3>t. PICK t \in Tasks : t = Task(s)
      BY <1>1, <2>3, ProcessFrame
    <3>1. /\ ~Idling(s) /\ OthersKept(t)
          /\ \A u \in Slots : u # s => slot'[u] = slot[u]
      BY <1>1, <2>3, <3>t, ProcessFrame
    <3>2. BilledOnce(t)' /\ (Idling(s)' \/ UnbilledYet(s)')
      BY <1>2, <2>3, <3>t, OnceOwnStep
    <3>3. ASSUME NEW v \in Tasks, v # t
          PROVE  BilledOnce(v)'
      <4>1. Storing(v) => Storing(v)'
        BY <3>t, <3>1, <3>3, StoringKept
      <4> QED
        BY <2>1, <3>1, <3>3, <4>1, OnceKept DEF OthersKept, Exists
    <3>4. ASSUME NEW u \in Slots, u # s
          PROVE  Idling(u)' \/ UnbilledYet(u)'
      <4>1. Idling(u) \/ Task(u) # t
        BY <1>2, <3>t, <3>1, <3>4, OneAtWork
           DEF OnceInv, StoreInv, SoundStore, Spared
      <4> QED
        BY <1>1, <2>1, <3>1, <3>4, <4>1, UnbilledKept, BusyTask DEF OthersKept
    <3> QED
      BY <3>2, <3>3, <3>4
  <2>4. CASE Crash
    BY <1>1, <1>2, <2>4, CrashEffect DEF SoundStore, Spared
  <2> QED
    BY <1>2, <2>2, <2>3, <2>4, OnceTaskStep, OnceTake DEF Next
<1> QED
  BY <1>1, <1>2 DEF OnceInv, SoundStore, Spared

(* Failing deliveries, publishes, refunds or enqueues never cost a second   *)
(* billed call of generate(); only a call that itself failed, a crash, a    *)
(* lost lock or a failing store can, and then a task is billed for at most  *)
(* one call per attempt and per stall.                                      *)
THEOREM BillBounded == Spec => []BillIsBounded
<1>1. BillInv /\ OnceInv => BillIsBounded
  BY BillWithinAttempts DEF OnceInv, SoundStore, BilledOnce, BillIsBounded
<1> QED
  BY BillInit, BillStep, OnceInit, OnceStep, <1>1, PTL DEF Spec

-----------------------------------------------------------------------------
(* Who will see to a task that has not ended: create() undoes what it began, *)
(* an execution ends its job as failed only over a closed row, and it        *)
(* rethrows only over a missing row or with attempts left.                   *)

Attentive == Spared({"publish", "db", "lostLock"})

Closed(t) == row[t].status \in Terminal \cup {"absent"}

AttendedTo(t) ==
  /\ req[t] # "refundUnsaved"
  /\ req[t] = "accepted" => job[t].state # "none"
  /\ req[t] = "rejected" /\ job[t].state = "none" => Closed(t)
  /\ job[t].state \in {"completed", "failed"} /\ job[t].stalls <= MaxStalls =>
       Closed(t)

EndsClosed(s) ==
  /\ slot[s].pc \in {"announceSucceeded", "done", "announceFailed", "refund",
                     "giveUp"} => Closed(Task(s))
  /\ slot[s].pc = "rethrow" =>
       ~Exists(Task(s)) \/ slot[s].made + 1 < MaxAttempts

AttendedInv ==
  /\ ExclusiveInv /\ DeliveryInv
  /\ Attentive => /\ \A t \in Tasks : AttendedTo(t)
                  /\ \A s \in Slots : Idling(s) \/ EndsClosed(s)

LEMMA AttendedInit == Init => AttendedInv
<1> SUFFICES ASSUME Init
             PROVE  AttendedInv
  OBVIOUS
<1>1. \A t \in Tasks : AttendedTo(t)
  BY DEF Init, AttendedTo
<1>2. \A s \in Slots : Idling(s)
  BY DEF Init, Idling, At, Idle
<1> QED
  BY <1>1, <1>2, ExclusiveInit, DeliveryInit DEF AttendedInv

LEMMA AttendedKept ==
  ASSUME NEW t \in Tasks, AttendedTo(t),
         req'[t] = req[t] \/ req'[t] = "lost", row'[t] = row[t],
         job'[t].state = job[t].state, job'[t].stalls = job[t].stalls
  PROVE  AttendedTo(t)'
BY DEF AttendedTo, Closed

LEMMA EndsClosedKept ==
  ASSUME NEW s \in Slots, Idling(s) \/ EndsClosed(s), slot'[s] = slot[s],
         \/ Idling(s)
         \/ row'[Task(s)] = row[Task(s)]
         \/ Exists(Task(s)) /\ row'[Task(s)].status = "FAILED"
         \/ row'[Task(s)].status = "absent"
  PROVE  Idling(s)' \/ EndsClosed(s)'
BY DEF EndsClosed, Closed, Idling, At, Task, Exists, Terminal

LEMMA AttendedTaskStep ==
  ASSUME AttendedInv, Attentive, NEW t \in Tasks,
         Create(t) \/ Stall(t) \/ LoseLock(t) \/ Wipe(t)
  PROVE  /\ \A v \in Tasks : AttendedTo(v)'
         /\ \A s \in Slots : Idling(s)' \/ EndsClosed(s)'
<1>1. /\ TypeOK /\ LeaseOf(t) /\ NotYetInserted
      /\ "db" \notin faults /\ "lostLock" \notin faults
      /\ \A v \in Tasks : AttendedTo(v)
      /\ \A s \in Slots : Idling(s) \/ EndsClosed(s)
  BY DEF AttendedInv, DeliveryInv, ExclusiveInv, LeaseInv, Attentive, Spared
<1>2. OthersKept(t) /\ slot' = slot
  BY <1>1, ConsumeEffect, InsertEffect, EnqueueEffect, GiveBackEffect, MarkEffect,
     StallEffect, LoseEffect, WipeEffect DEF Create
<1>3. ASSUME NEW v \in Tasks, v # t
      PROVE  AttendedTo(v)'
  BY <1>1, <1>2, <1>3, AttendedKept DEF OthersKept
<1>4. ASSUME NEW s \in Slots, Idling(s) \/ Task(s) # t \/ row' = row
      PROVE  Idling(s)' \/ EndsClosed(s)'
  BY <1>1, <1>2, <1>4, EndsClosedKept, BusyTask DEF OthersKept
<1>5. CASE Consume(t)
  <2>1. req[t] = "new" /\ req'[t] \in {"insert", "rejected"}
        /\ row' = row /\ job' = job
    BY <1>1, <1>5, ConsumeEffect
  <2>2. job[t].state = "none" /\ row[t].status = "absent"
    BY <1>1, <2>1 DEF LeaseOf, NotYetInserted, Exists
  <2>3. AttendedTo(t)'
    BY <2>1, <2>2 DEF AttendedTo, Closed
  <2> QED
    BY <1>3, <1>4, <2>1, <2>3
<1>6. CASE InsertRow(t)
  <2>1. req[t] = "insert" /\ req'[t] = "enqueue" /\ job' = job
    BY <1>1, <1>6, InsertEffect
  <2>2. job[t].state = "none"
    BY <1>1, <2>1 DEF LeaseOf
  <2>3. AttendedTo(t)'
    BY <2>1, <2>2 DEF AttendedTo
  <2>4. \A s \in Slots : Idling(s) \/ Task(s) # t
    BY <2>2, NobodyWorks DEF AttendedInv, Attentive, Spared
  <2> QED
    BY <1>3, <1>4, <2>3, <2>4
<1>7. CASE Enqueue(t)
  <2>1. /\ row' = row
        /\ \/ req'[t] = "accepted" /\ job'[t].state = "waiting"
           \/ /\ req'[t] = "refundSaved"
              /\ job'[t].state = "waiting" \/ job' = job
    BY <1>1, <1>7, EnqueueEffect DEF Queued, JobSet
  <2>2. job[t].state = "none"
    BY <1>1, <1>7, EnqueueEffect DEF LeaseOf
  <2>3. AttendedTo(t)'
    BY <2>1, <2>2 DEF AttendedTo
  <2> QED
    BY <1>3, <1>4, <2>1, <2>3
<1>8. CASE GiveBack(t)
  <2>1. req'[t] = "markUnqueued" /\ row' = row /\ job' = job
    BY <1>1, <1>8, GiveBackEffect DEF AttendedTo
  <2>2. AttendedTo(t)'
    BY <1>1, <2>1 DEF AttendedTo, Closed
  <2> QED
    BY <1>3, <1>4, <2>1, <2>2
<1>9. CASE MarkUnqueued(t)
  <2>1. /\ req'[t] = "rejected" /\ job' = job
        /\ StatusSet(t, "FAILED") \/ (~Exists(t) /\ row' = row)
    BY <1>1, <1>9, MarkEffect
  <2>2. AttendedTo(t)'
    BY <1>1, <2>1 DEF AttendedTo, Closed, StatusSet, Exists, Terminal
  <2>3. ASSUME NEW s \in Slots, Task(s) = t
        PROVE  Idling(s)' \/ EndsClosed(s)'
    BY <1>1, <1>2, <2>1, <2>3, EndsClosedKept DEF StatusSet
  <2> QED
    BY <1>3, <1>4, <2>2, <2>3
<1>10. CASE Stall(t)
  <2>1. row' = row /\ req' = req /\ job[t].stalls \in Nat /\ MaxStalls \in Nat
    BY <1>1, <1>10, StallEffect, JobNumbers
  <2>2. \/ job'[t].state = "waiting"
        \/ job'[t].state = "failed" /\ ~(job'[t].stalls <= MaxStalls)
    BY <1>1, <1>10, <2>1, StallEffect DEF JobSet
  <2>3. AttendedTo(t)'
    <3>1. job[t].state = "active"
      BY <1>1, <1>10, StallEffect
    <3> QED
      BY <1>1, <2>1, <2>2, <3>1 DEF AttendedTo
  <2> QED
    BY <1>3, <1>4, <2>1, <2>3
<1>11. CASE LoseLock(t)
  BY <1>1, <1>11, LoseEffect
<1>12. CASE Wipe(t)
  <2>1. row'[t].status = "absent" /\ req' = req /\ job' = job
    BY <1>1, <1>12, WipeEffect
  <2>2. AttendedTo(t)'
    BY <1>1, <2>1 DEF AttendedTo, Closed
  <2>3. ASSUME NEW s \in Slots, Task(s) = t
        PROVE  Idling(s)' \/ EndsClosed(s)'
    BY <1>1, <1>2, <2>1, <2>3, EndsClosedKept
  <2> QED
    BY <1>3, <1>4, <2>2, <2>3
<1> QED
  BY <1>5, <1>6, <1>7, <1>8, <1>9, <1>10, <1>11, <1>12 DEF Create

LEMMA AttendedTake ==
  ASSUME AttendedInv, Attentive, NEW s \in Slots, NEW t \in Tasks, Take(s, t)
  PROVE  /\ \A v \in Tasks : AttendedTo(v)'
         /\ \A u \in Slots : Idling(u)' \/ EndsClosed(u)'
<1>1. /\ TypeOK /\ \A v \in Tasks : AttendedTo(v)
      /\ \A u \in Slots : Idling(u) \/ EndsClosed(u)
  BY DEF AttendedInv, DeliveryInv
<1>2. /\ OthersKept(t) /\ row' = row /\ req' = req /\ slot'[s].pc = "find"
      /\ job[t].state = "waiting" /\ job'[t].state = "active"
      /\ \A u \in Slots : u # s => slot'[u] = slot[u]
  BY <1>1, TakeEffect DEF JobSet
<1>3. ASSUME NEW v \in Tasks, v # t
      PROVE  AttendedTo(v)'
  BY <1>1, <1>2, <1>3, AttendedKept DEF OthersKept
<1>4. AttendedTo(t)'
  BY <1>1, <1>2 DEF AttendedTo
<1>5. ASSUME NEW u \in Slots, u # s
      PROVE  Idling(u)' \/ EndsClosed(u)'
  BY <1>1, <1>2, <1>5, EndsClosedKept
<1>6. EndsClosed(s)'
  BY <1>2 DEF EndsClosed
<1> QED
  BY <1>3, <1>4, <1>5, <1>6

(* An execution on its way out has closed its row, or will be run again. *)
LEMMA EndsClosedStep ==
  ASSUME AttendedInv, Attentive, NEW s \in Slots, Process(s)
  PROVE  Idling(s)' \/ EndsClosed(s)'
<1>t. PICK t \in Tasks : t = Task(s)
  BY ProcessFrame DEF AttendedInv, DeliveryInv
<1>1. /\ TypeOK /\ ~Idling(s) /\ t = slot[s].task /\ t = Task(s) /\ EndsClosed(s)
      /\ "db" \notin faults /\ "publish" \notin faults
  BY <1>t, ProcessFrame
     DEF AttendedInv, DeliveryInv, Task, Attentive, Spared
<1>2. ASSUME slot'[s].pc \notin {"announceSucceeded", "done", "announceFailed",
                                 "refund", "giveUp", "rethrow"}
      PROVE  EndsClosed(s)'
  BY <1>2 DEF EndsClosed
<1>3. ASSUME MovedByCatch(s)
      PROVE  EndsClosed(s)'
  BY <1>3 DEF EndsClosed, MovedByCatch, Moved, MovedWith
<1>4. ASSUME NEW p, Moved(s, p), p # "rethrow",
             row'[t].status \in {"SUCCEEDED", "FAILED", "absent"}
      PROVE  EndsClosed(s)'
  BY <1>1, <1>4 DEF EndsClosed, Moved, MovedWith, Closed, Terminal, Task
<1>5. ASSUME Moved(s, "rethrow"), ~Exists(t), row' = row
      PROVE  EndsClosed(s)'
  BY <1>1, <1>5 DEF EndsClosed, Moved, MovedWith, Task, Exists
<1>6. CASE FindTask(s)
  BY <1>1, <1>2, <1>4, <1>6, FindEffect DEF Exists, MovedWith
<1>7. CASE StartRunning(s)
  BY <1>1, <1>2, <1>5, <1>7, StartEffect DEF Moved, MovedWith
<1>8. CASE AnnounceRunning(s)
  BY <1>1, <1>2, <1>8, AnnounceRunningEffect DEF Moved, MovedWith
<1>9. CASE Generate(s)
  BY <1>1, <1>2, <1>3, <1>9, GenerateEffect DEF MovedWith
<1>10. CASE Persist(s)
  BY <1>1, <1>2, <1>3, <1>10, PersistEffect DEF Moved, MovedWith
<1>11. CASE Deliver(s)
  BY <1>1, <1>2, <1>3, <1>11, DeliverEffect DEF Moved, MovedWith
<1>12. CASE MarkSucceeded(s)
  BY <1>1, <1>3, <1>4, <1>12, SucceedEffect DEF StatusSet
<1>13. CASE AnnounceSucceeded(s)
  <2>1. Moved(s, "done") /\ row' = row /\ Closed(t)
    BY <1>1, <1>13, AnnounceSucceededEffect DEF EndsClosed, At
  <2> QED
    BY <1>4, <2>1 DEF Closed, Terminal
<1>14. CASE MarkFailed(s)
  BY <1>1, <1>4, <1>5, <1>14, FailEffect DEF StatusSet
<1>15. CASE AnnounceFailed(s)
  <2>1. Moved(s, "refund") /\ row' = row /\ Closed(t)
    BY <1>1, <1>15, AnnounceFailedEffect DEF EndsClosed, At
  <2> QED
    BY <1>4, <2>1 DEF Closed, Terminal
<1>16. CASE Refund(s)
  <2>1. Moved(s, "giveUp") /\ row' = row /\ Closed(t)
    BY <1>1, <1>16, RefundEffect DEF EndsClosed, At
  <2> QED
    BY <1>4, <2>1 DEF Closed, Terminal
<1>17. CASE Complete(s) \/ GiveUp(s) \/ Retry(s)
  <2>1. PICK state : Settle(s, state)
    BY <1>17 DEF Complete, GiveUp, Retry
  <2> QED
    BY <1>1, <2>1, SettleEffect DEF Idling, At, Idle
<1> QED
  BY <1>6, <1>7, <1>8, <1>9, <1>10, <1>11, <1>12, <1>13, <1>14, <1>15, <1>16, <1>17
     DEF Process

LEMMA AttendedOwnStep ==
  ASSUME AttendedInv, Attentive, NEW s \in Slots, Process(s),
         NEW t \in Tasks, t = Task(s)
  PROVE  AttendedTo(t)'
<1>1. /\ TypeOK /\ ~Idling(s) /\ req' = req /\ AttendedTo(t) /\ EndsClosed(s)
      /\ job[t].state = "active" /\ job[t].lock = s
  BY ProcessFrame DEF AttendedInv, DeliveryInv, ExclusiveInv, HoldsLock, Attentive,
                      Spared
<1>2. CASE Continues(s)
  BY <1>1, <1>2 DEF AttendedTo, Continues
<1>3. ASSUME NEW state \in {"completed", "failed", "waiting"}, EndsAs(s, state)
      PROVE  AttendedTo(t)'
  <2>1. row' = row /\ job'[t].state = state
    BY <1>1, <1>3, SettleEffect DEF EndsAs, JobSet
  <2>2. state # "waiting" => Closed(t)
    BY <1>1, <1>3 DEF EndsAs, EndsClosed, At, Closed, Exists
  <2>3. state # "waiting" => Closed(t)'
    BY <2>1, <2>2 DEF Closed
  <2> QED
    BY <1>1, <2>1, <2>3 DEF AttendedTo
<1> QED
  BY <1>1, <1>2, <1>3, ProcessContinues

LEMMA AttendedStep == AttendedInv /\ [Next]_vars => AttendedInv'
<1> SUFFICES ASSUME AttendedInv, [Next]_vars
             PROVE  AttendedInv'
  OBVIOUS
<1>1. ExclusiveInv' /\ DeliveryInv' /\ TypeOK /\ faults' = faults
  BY ExclusiveStep, DeliveryStep, FaultsKept DEF AttendedInv, DeliveryInv
<1>2. ASSUME Attentive
      PROVE  /\ \A t \in Tasks : AttendedTo(t)'
             /\ \A s \in Slots : Idling(s)' \/ EndsClosed(s)'
  <2>1. /\ \A t \in Tasks : AttendedTo(t)
        /\ \A s \in Slots : Idling(s) \/ EndsClosed(s)
    BY <1>2 DEF AttendedInv
  <2>2. CASE UNCHANGED vars
    BY <2>1, <2>2, AttendedKept, EndsClosedKept DEF vars
  <2>3. ASSUME NEW s \in Slots, Process(s)
        PROVE  /\ \A t \in Tasks : AttendedTo(t)'
               /\ \A u \in Slots : Idling(u)' \/ EndsClosed(u)'
    <3>t. PICK t \in Tasks : t = Task(s)
      BY <1>1, <2>3, ProcessFrame
    <3>1. /\ ~Idling(s) /\ OthersKept(t)
          /\ \A u \in Slots : u # s => slot'[u] = slot[u]
      BY <1>1, <2>3, <3>t, ProcessFrame
    <3>2. AttendedTo(t)' /\ (Idling(s)' \/ EndsClosed(s)')
      BY <1>2, <2>3, <3>t, AttendedOwnStep, EndsClosedStep
    <3>3. ASSUME NEW v \in Tasks, v # t
          PROVE  AttendedTo(v)'
      BY <2>1, <3>1, <3>3, AttendedKept DEF OthersKept
    <3>4. ASSUME NEW u \in Slots, u # s
          PROVE  Idling(u)' \/ EndsClosed(u)'
      <4>1. Idling(u) \/ Task(u) # t
        BY <1>2, <3>t, <3>1, <3>4, OneAtWork DEF AttendedInv, Attentive, Spared
      <4> QED
        BY <1>1, <2>1, <3>1, <3>4, <4>1, EndsClosedKept, BusyTask DEF OthersKept
    <3> QED
      BY <3>2, <3>3, <3>4
  <2>4. CASE Crash
    <3>1. ASSUME NEW t \in Tasks
          PROVE  AttendedTo(t)'
      BY <1>1, <2>1, <2>4, CrashEffect, AttendedKept DEF JobSet
    <3>2. \A s \in Slots : Idling(s)'
      BY <1>1, <2>4, CrashEffect DEF Idling, At, Idle
    <3> QED
      BY <3>1, <3>2
  <2> QED
    BY <1>2, <2>2, <2>3, <2>4, AttendedTaskStep, AttendedTake DEF Next
<1> QED
  BY <1>1, <1>2 DEF AttendedInv, Attentive, Spared

(* The worker's attemptsLeft agrees with BullMQ's own count, and create()   *)
(* undoes what it began: a task that has not ended has a handler or a job   *)
(* that will see to it, unless it stalled once too often, the process died  *)
(* in create(), or a publish or a write outside the try block threw.        *)
THEOREM NobodyStranded == Spec => []NoTaskIsStranded
<1>1. AttendedInv => NoTaskIsStranded
  <2> SUFFICES ASSUME AttendedInv, Attentive, NEW t \in Tasks,
                      Exists(t), row[t].status \notin Terminal,
                      req[t] \in {"accepted", "rejected"},
                      job[t].state \notin {"waiting", "active"}
               PROVE  job[t].stalls > MaxStalls
    BY DEF NoTaskIsStranded, Attentive
  <2>1. ~Closed(t)
    BY DEF Closed, Exists
  <2>2. job[t].state \in {"completed", "failed"}
    BY <2>1, JobNumbers DEF AttendedInv, AttendedTo, DeliveryInv, JobState
  <2>3. job[t].stalls \in Nat /\ MaxStalls \in Nat
    BY JobNumbers DEF AttendedInv, DeliveryInv
  <2> QED
    BY <2>1, <2>2, <2>3 DEF AttendedInv, AttendedTo
<1> QED
  BY AttendedInit, AttendedStep, <1>1, PTL DEF Spec

-----------------------------------------------------------------------------
(* The charge of a task at every place of its request and its execution.    *)
(* Where nothing but the model, the deliveries and the quota itself fail, a *)
(* job exists exactly for the accepted requests, is active exactly while an *)
(* execution holds it, and the unit is given back once, over a FAILED row.  *)

Undisturbed ==
  /\ Spared({"crash", "lostLock", "db", "publish", "refund"})
  /\ ~({"enqueue", "lostReply"} \subseteq faults)

Refunded(t) == charge[t] = 0 /\ row[t].status = "FAILED"

ChargedAt(t) ==
  /\ req[t] \notin {"lost", "refundUnsaved"}
  /\ req[t] \in {"insert", "enqueue", "refundSaved"} => charge[t] = 1
  /\ req[t] = "markUnqueued" => charge[t] = 0
  /\ req[t] = "rejected" /\ Exists(t) => Refunded(t)
  /\ job[t].state = "none" <=> req[t] # "accepted"
  /\ job[t].state = "waiting" => charge[t] = 1
  /\ job[t].state = "completed" /\ Exists(t) =>
       charge[t] = 1 /\ row[t].status # "FAILED"
  /\ job[t].state = "failed" /\ Exists(t) => Refunded(t)

Worked(t) ==
  job[t].state = "active" => \E s \in Slots : ~Idling(s) /\ Task(s) = t

ChargedIn(s) ==
  /\ slot[s].pc # "giveUp" => charge[Task(s)] = 1
  /\ slot[s].pc = "giveUp" /\ Exists(Task(s)) => Refunded(Task(s))
  /\ slot[s].pc \in {"announceSucceeded", "done"} /\ Exists(Task(s)) =>
       row[Task(s)].status # "FAILED"
  /\ slot[s].pc \in {"announceFailed", "refund"} /\ Exists(Task(s)) =>
       row[Task(s)].status = "FAILED"

ChargeInv ==
  /\ AttendedInv
  /\ Undisturbed => /\ \A t \in Tasks : ChargedAt(t) /\ Worked(t)
                    /\ \A s \in Slots : Idling(s) \/ ChargedIn(s)

LEMMA ChargeInit == Init => ChargeInv
<1> SUFFICES ASSUME Init
             PROVE  ChargeInv
  OBVIOUS
<1>1. \A t \in Tasks : ChargedAt(t) /\ Worked(t)
  BY DEF Init, ChargedAt, Worked, Exists
<1>2. \A s \in Slots : Idling(s)
  BY DEF Init, Idling, At, Idle
<1> QED
  BY <1>1, <1>2, AttendedInit DEF ChargeInv

LEMMA ChargedAtKept ==
  ASSUME NEW t \in Tasks, ChargedAt(t), req'[t] = req[t], charge'[t] = charge[t],
         row'[t] = row[t] \/ ~Exists(t)', job'[t].state = job[t].state
  PROVE  ChargedAt(t)'
BY DEF ChargedAt, Exists, Refunded

LEMMA ChargedInKept ==
  ASSUME NEW s \in Slots, Idling(s) \/ ChargedIn(s), slot'[s] = slot[s],
         \/ Idling(s)
         \/ /\ charge'[Task(s)] = charge[Task(s)]
            /\ row'[Task(s)] = row[Task(s)] \/ row'[Task(s)].status = "absent"
  PROVE  Idling(s)' \/ ChargedIn(s)'
BY DEF ChargedIn, Idling, At, Task, Exists, Refunded

(* Who works for a task goes on doing so when another slot, or none, moves. *)
LEMMA WorkedKept ==
  ASSUME NEW t \in Tasks, Worked(t), NEW s,
         \A u \in Slots : u # s => slot'[u] = slot[u],
         s \notin Slots \/ Idling(s) \/ Task(s) # t,
         job'[t].state # "active" \/ job'[t].state = job[t].state
  PROVE  Worked(t)'
BY DEF Worked, Idling, At, Task

LEMMA ChargeTaskStep ==
  ASSUME ChargeInv, Undisturbed, NEW t \in Tasks,
         Create(t) \/ Stall(t) \/ LoseLock(t) \/ Wipe(t)
  PROVE  /\ \A v \in Tasks : ChargedAt(v)' /\ Worked(v)'
         /\ \A s \in Slots : Idling(s)' \/ ChargedIn(s)'
<1>1. /\ TypeOK /\ ExclusiveInv /\ NotYetInserted
      /\ Spared({"lostLock"}) /\ "db" \notin faults /\ "refund" \notin faults
      /\ "lostLock" \notin faults
      /\ \A v \in Tasks : ChargedAt(v) /\ Worked(v)
      /\ \A s \in Slots : Idling(s) \/ ChargedIn(s)
  BY DEF ChargeInv, AttendedInv, DeliveryInv, Undisturbed, Spared
<1>2. OthersKept(t) /\ slot' = slot
  BY <1>1, ConsumeEffect, InsertEffect, EnqueueEffect, GiveBackEffect, MarkEffect,
     StallEffect, LoseEffect, WipeEffect DEF Create
<1>3. ASSUME NEW v \in Tasks, v # t
      PROVE  ChargedAt(v)' /\ Worked(v)'
  BY <1>1, <1>2, <1>3, ChargedAtKept, WorkedKept, SlotAssumption DEF OthersKept
<1>4. ASSUME NEW s \in Slots, Idling(s) \/ Task(s) # t
      PROVE  Idling(s)' \/ ChargedIn(s)'
  BY <1>1, <1>2, <1>4, ChargedInKept, BusyTask DEF OthersKept
<1>5. CASE Create(t)
  <2>1. job[t].state = "none"
    <3>1. req[t] # "accepted"
      BY <1>1, <1>5, ConsumeEffect, InsertEffect, EnqueueEffect, GiveBackEffect,
         MarkEffect DEF Create
    <3> QED
      BY <1>1, <3>1 DEF ChargedAt
  <2>2. \A s \in Slots : Idling(s) \/ Task(s) # t
    BY <1>1, <2>1, NobodyWorks
  <2>3. ChargedAt(t)' /\ Worked(t)'
    <3>1. CASE Consume(t)
      <4>1. ~Exists(t)
        BY <1>1, <3>1, ConsumeEffect DEF NotYetInserted
      <4> QED
        BY <1>1, <2>1, <3>1, <4>1, ConsumeEffect DEF ChargedAt, Worked, Exists
    <3>2. CASE InsertRow(t)
      BY <1>1, <2>1, <3>2, InsertEffect DEF ChargedAt, Worked
    <3>3. CASE Enqueue(t)
      <4>1. /\ req[t] = "enqueue" /\ charge' = charge
            /\ \/ req'[t] = "accepted" /\ job'[t].state = "waiting"
               \/ req'[t] = "refundSaved" /\ job' = job
        BY <1>1, <3>3, EnqueueEffect DEF Undisturbed, Queued, JobSet
      <4> QED
        BY <1>1, <2>1, <4>1 DEF ChargedAt, Worked
    <3>4. CASE GiveBack(t)
      <4>1. /\ req[t] = "refundSaved" /\ req'[t] = "markUnqueued" /\ job' = job
            /\ charge'[t] = charge[t] - 1
        BY <1>1, <3>4, GiveBackEffect DEF ChargedAt
      <4> QED
        BY <1>1, <2>1, <4>1 DEF ChargedAt, Worked
    <3>5. CASE MarkUnqueued(t)
      <4>1. /\ req[t] = "markUnqueued" /\ req'[t] = "rejected" /\ job' = job
            /\ charge' = charge
            /\ StatusSet(t, "FAILED") \/ (~Exists(t) /\ row' = row)
        BY <1>1, <3>5, MarkEffect
      <4> QED
        BY <1>1, <2>1, <4>1 DEF ChargedAt, Worked, StatusSet, Refunded, Exists
    <3> QED
      BY <1>5, <3>1, <3>2, <3>3, <3>4, <3>5 DEF Create
  <2> QED
    BY <1>3, <1>4, <2>2, <2>3
<1>6. CASE Stall(t)
  <2>1. job[t].state = "active" /\ job[t].lock = NoSlot
    BY <1>1, <1>6, StallEffect
  <2>2. PICK s \in Slots : ~Idling(s) /\ Task(s) = t
    BY <1>1, <2>1 DEF Worked
  <2> QED
    BY <1>1, <2>1, <2>2, NobodyWorks
<1>7. CASE LoseLock(t)
  BY <1>1, <1>7, LoseEffect
<1>8. CASE Wipe(t)
  <2>1. /\ row'[t].status = "absent" /\ req' = req /\ job' = job /\ charge' = charge
    BY <1>1, <1>8, WipeEffect
  <2>2. ChargedAt(t)' /\ Worked(t)'
    BY <1>1, <1>2, <2>1, ChargedAtKept, WorkedKept, SlotAssumption DEF Exists
  <2>3. ASSUME NEW s \in Slots, Task(s) = t
        PROVE  Idling(s)' \/ ChargedIn(s)'
    BY <1>1, <1>2, <2>1, <2>3, ChargedInKept
  <2> QED
    BY <1>3, <1>4, <2>2, <2>3
<1> QED
  BY <1>5, <1>6, <1>7, <1>8

LEMMA ChargeTake ==
  ASSUME ChargeInv, Undisturbed, NEW s \in Slots, NEW t \in Tasks, Take(s, t)
  PROVE  /\ \A v \in Tasks : ChargedAt(v)' /\ Worked(v)'
         /\ \A u \in Slots : Idling(u)' \/ ChargedIn(u)'
<1>1. /\ TypeOK /\ \A v \in Tasks : ChargedAt(v) /\ Worked(v)
      /\ \A u \in Slots : Idling(u) \/ ChargedIn(u)
  BY DEF ChargeInv, AttendedInv, DeliveryInv
<1>2. /\ OthersKept(t) /\ row' = row /\ req' = req /\ charge' = charge
      /\ slot'[s].pc = "find" /\ slot'[s].task = t /\ Idling(s)
      /\ job[t].state = "waiting" /\ job'[t].state = "active"
      /\ \A u \in Slots : u # s => slot'[u] = slot[u]
  BY <1>1, TakeEffect DEF JobSet
<1>3. ASSUME NEW v \in Tasks, v # t
      PROVE  ChargedAt(v)' /\ Worked(v)'
  BY <1>1, <1>2, <1>3, ChargedAtKept, WorkedKept DEF OthersKept
<1>4. charge[t] = 1 /\ ChargedAt(t)'
  BY <1>1, <1>2 DEF ChargedAt, Exists, Refunded
<1>5. Worked(t)'
  BY <1>2 DEF Worked, Idling, At, Task
<1>6. ASSUME NEW u \in Slots, u # s
      PROVE  Idling(u)' \/ ChargedIn(u)'
  BY <1>1, <1>2, <1>6, ChargedInKept
<1>7. ChargedIn(s)'
  BY <1>2, <1>4 DEF ChargedIn, Task
<1> QED
  BY <1>3, <1>4, <1>5, <1>6, <1>7

LEMMA ChargeOwnStep ==
  ASSUME ChargeInv, Undisturbed, NEW s \in Slots, Process(s),
         NEW t \in Tasks, t = Task(s)
  PROVE  (Idling(s)' \/ ChargedIn(s)') /\ ChargedAt(t)' /\ Worked(t)'
<1>1. /\ TypeOK /\ ~Idling(s) /\ t = slot[s].task /\ t = Task(s) /\ req' = req
      /\ "db" \notin faults /\ "publish" \notin faults /\ "refund" \notin faults
      /\ ChargedIn(s) /\ ChargedAt(t) /\ EndsClosed(s)
      /\ job[t].state = "active" /\ job[t].lock = s
  BY ProcessFrame
     DEF ChargeInv, AttendedInv, DeliveryInv, ExclusiveInv, HoldsLock, Task,
         Undisturbed, Attentive, Spared
<1>2. req[t] = "accepted"
  BY <1>1 DEF ChargedAt
<1>3. CASE Continues(s)
  <2>1. ChargedAt(t)'
    BY <1>1, <1>2, <1>3 DEF ChargedAt, Continues
  <2>2. Worked(t)'
    BY <1>1, <1>3 DEF Worked, Continues, Idling, At, Task
  <2>3. ASSUME NEW p, NEW n, MovedWith(s, p, n), charge' = charge,
               ~At(s, "giveUp"),
               p \notin {"giveUp", "announceSucceeded", "done", "announceFailed",
                         "refund"}
        PROVE  ChargedIn(s)'
    BY <1>1, <2>3 DEF ChargedIn, MovedWith, Task, At
  <2>4. MovedByCatch(s) /\ charge' = charge /\ ~At(s, "giveUp") => ChargedIn(s)'
    BY <2>3 DEF MovedByCatch, Moved
  <2>5. CASE FindTask(s)
    <3>1. CASE ~Exists(t) /\ Moved(s, "giveUp") /\ row' = row
      <4>1. ChargedIn(s)'
        BY <1>1, <3>1 DEF ChargedIn, Moved, MovedWith, Task, Exists
      <4> QED
        BY <2>1, <2>2, <4>1
    <3>2. CASE MovedWith(s, "start", row[t].result)
      BY <1>1, <2>1, <2>2, <2>3, <2>5, <3>2, FindEffect DEF At
    <3> QED
      BY <1>1, <2>5, <3>1, <3>2, FindEffect
  <2>6. CASE StartRunning(s)
    BY <1>1, <2>1, <2>2, <2>3, <2>6, StartEffect DEF Moved, At
  <2>7. CASE AnnounceRunning(s)
    BY <1>1, <2>1, <2>2, <2>3, <2>7, AnnounceRunningEffect DEF Moved, At
  <2>8. CASE Generate(s)
    BY <1>1, <2>1, <2>2, <2>3, <2>4, <2>8, GenerateEffect DEF At
  <2>9. CASE Persist(s)
    BY <1>1, <2>1, <2>2, <2>3, <2>4, <2>9, PersistEffect DEF Moved, At
  <2>10. CASE Deliver(s)
    BY <1>1, <2>1, <2>2, <2>3, <2>4, <2>10, DeliverEffect DEF Moved, At
  <2>11. CASE MarkSucceeded(s)
    <3>1. At(s, "succeed") /\ charge' = charge
      BY <1>1, <2>11, SucceedEffect
    <3>2. ASSUME StatusSet(t, "SUCCEEDED"), Moved(s, "announceSucceeded")
          PROVE  ChargedIn(s)'
      BY <1>1, <3>1, <3>2 DEF ChargedIn, Moved, MovedWith, Task, StatusSet, At
    <3> QED
      BY <1>1, <2>1, <2>2, <2>4, <2>11, <3>1, <3>2, SucceedEffect DEF At
  <2>12. CASE AnnounceSucceeded(s)
    <3>1. /\ At(s, "announceSucceeded") /\ charge' = charge /\ row' = row
          /\ Moved(s, "done")
      BY <1>1, <2>12, AnnounceSucceededEffect
    <3>2. ChargedIn(s)'
      BY <1>1, <3>1 DEF ChargedIn, Moved, MovedWith, Task, Exists, At
    <3> QED
      BY <2>1, <2>2, <3>2
  <2>13. CASE MarkFailed(s)
    <3>1. At(s, "fail") /\ charge' = charge
      BY <1>1, <2>13, FailEffect
    <3>2. ASSUME StatusSet(t, "FAILED"), Moved(s, "announceFailed")
          PROVE  ChargedIn(s)'
      BY <1>1, <3>1, <3>2 DEF ChargedIn, Moved, MovedWith, Task, StatusSet, At
    <3> QED
      BY <1>1, <2>1, <2>2, <2>3, <2>13, <3>1, <3>2, FailEffect DEF Moved, At
  <2>14. CASE AnnounceFailed(s)
    <3>1. /\ At(s, "announceFailed") /\ charge' = charge /\ row' = row
          /\ Moved(s, "refund")
      BY <1>1, <2>14, AnnounceFailedEffect
    <3>2. ChargedIn(s)'
      BY <1>1, <3>1 DEF ChargedIn, Moved, MovedWith, Task, Exists, At
    <3> QED
      BY <2>1, <2>2, <3>2
  <2>15. CASE Refund(s)
    <3>1. /\ At(s, "refund") /\ charge'[t] = charge[t] - 1 /\ row' = row
          /\ Moved(s, "giveUp")
      BY <1>1, <2>15, RefundEffect
    <3>2. charge[t] = 1 /\ (Exists(t) => row[t].status = "FAILED")
      BY <1>1, <3>1 DEF ChargedIn, At
    <3>3. ChargedIn(s)'
      BY <1>1, <3>1, <3>2 DEF ChargedIn, Moved, MovedWith, Task, Exists, Refunded
    <3> QED
      BY <2>1, <2>2, <3>3
  <2>16. CASE Complete(s) \/ GiveUp(s) \/ Retry(s)
    BY <1>1, <1>3, <2>16, SettleEffect
       DEF Complete, GiveUp, Retry, Continues, Idle
  <2> QED
    BY <2>5, <2>6, <2>7, <2>8, <2>9, <2>10, <2>11, <2>12, <2>13, <2>14, <2>15,
       <2>16 DEF Process
<1>4. ASSUME NEW state \in {"completed", "failed", "waiting"}, EndsAs(s, state)
      PROVE  (Idling(s)' \/ ChargedIn(s)') /\ ChargedAt(t)' /\ Worked(t)'
  <2>1. row' = row /\ charge' = charge /\ job'[t].state = state /\ slot'[s] = Idle
    BY <1>1, <1>4, SettleEffect DEF EndsAs, JobSet
  <2>2. CASE state = "completed"
    <3>1. charge[t] = 1 /\ (Exists(t) => row[t].status # "FAILED")
      BY <1>1, <1>4, <2>2 DEF EndsAs, ChargedIn, At
    <3> QED
      BY <1>1, <1>2, <2>1, <2>2, <3>1
         DEF ChargedAt, Worked, Exists, Refunded, Idling, At, Idle
  <2>3. CASE state = "failed"
    <3>1. Exists(t) => Refunded(t)
      BY <1>1, <1>4, <2>3 DEF EndsAs, ChargedIn, EndsClosed, At
    <3> QED
      BY <1>1, <1>2, <2>1, <2>3, <3>1
         DEF ChargedAt, Worked, Exists, Refunded, Idling, At, Idle
  <2>4. CASE state = "waiting"
    <3>1. charge[t] = 1
      BY <1>1, <1>4, <2>4 DEF EndsAs, ChargedIn, At
    <3> QED
      BY <1>1, <1>2, <2>1, <2>4, <3>1
         DEF ChargedAt, Worked, Exists, Refunded, Idling, At, Idle
  <2> QED
    BY <2>2, <2>3, <2>4
<1> QED
  BY <1>1, <1>3, <1>4, ProcessContinues

LEMMA ChargeStep == ChargeInv /\ [Next]_vars => ChargeInv'
<1> SUFFICES ASSUME ChargeInv, [Next]_vars
             PROVE  ChargeInv'
  OBVIOUS
<1>1. AttendedInv' /\ TypeOK /\ faults' = faults /\ ExclusiveInv
  BY AttendedStep, FaultsKept DEF ChargeInv, AttendedInv, DeliveryInv
<1>2. ASSUME Undisturbed
      PROVE  /\ \A t \in Tasks : ChargedAt(t)' /\ Worked(t)'
             /\ \A s \in Slots : Idling(s)' \/ ChargedIn(s)'
  <2>1. /\ \A t \in Tasks : ChargedAt(t) /\ Worked(t)
        /\ \A s \in Slots : Idling(s) \/ ChargedIn(s)
        /\ Spared({"lostLock"})
    BY <1>2 DEF ChargeInv, Undisturbed, Spared
  <2>2. CASE UNCHANGED vars
    BY <2>1, <2>2, ChargedAtKept, WorkedKept, ChargedInKept, SlotAssumption DEF vars
  <2>3. ASSUME NEW s \in Slots, Process(s)
        PROVE  /\ \A t \in Tasks : ChargedAt(t)' /\ Worked(t)'
               /\ \A u \in Slots : Idling(u)' \/ ChargedIn(u)'
    <3>t. PICK t \in Tasks : t = Task(s)
      BY <1>1, <2>3, ProcessFrame
    <3>1. /\ ~Idling(s) /\ req' = req /\ OthersKept(t)
          /\ \A u \in Slots : u # s => slot'[u] = slot[u]
      BY <1>1, <2>3, <3>t, ProcessFrame
    <3>2. ChargedAt(t)' /\ Worked(t)' /\ (Idling(s)' \/ ChargedIn(s)')
      BY <1>2, <2>3, <3>t, ChargeOwnStep
    <3>3. ASSUME NEW v \in Tasks, v # t
          PROVE  ChargedAt(v)' /\ Worked(v)'
      BY <2>1, <3>t, <3>1, <3>3, ChargedAtKept, WorkedKept DEF OthersKept
    <3>4. ASSUME NEW u \in Slots, u # s
          PROVE  Idling(u)' \/ ChargedIn(u)'
      <4>1. Idling(u) \/ Task(u) # t
        BY <1>1, <2>1, <3>t, <3>1, <3>4, OneAtWork
      <4> QED
        BY <1>1, <2>1, <3>1, <3>4, <4>1, ChargedInKept, BusyTask DEF OthersKept
    <3> QED
      BY <3>2, <3>3, <3>4
  <2>4. CASE Crash
    BY <1>1, <1>2, <2>4, CrashEffect DEF Undisturbed, Spared
  <2> QED
    BY <1>2, <2>2, <2>3, <2>4, ChargeTaskStep, ChargeTake DEF Next
<1> QED
  BY <1>1, <1>2 DEF ChargeInv, Undisturbed, Spared

(* Once nothing is under way for a recorded task, a failed one was given    *)
(* back exactly once and any other one is charged exactly once: create()'s  *)
(* compensation and the worker's refund never both run, nor neither.        *)
THEOREM ChargeMatches == Spec => []ChargeMatchesOutcome
<1>1. ChargeInv => ChargeMatchesOutcome
  <2> SUFFICES ASSUME ChargeInv, Undisturbed, NEW t \in Tasks,
                      AtRest(t), Exists(t)
               PROVE  charge[t] = IF row[t].status = "FAILED" THEN 0 ELSE 1
    BY DEF ChargeMatchesOutcome, Undisturbed
  <2>1. ChargedAt(t) /\ Worked(t) /\ job[t].state \in JobState
    BY JobNumbers DEF ChargeInv, AttendedInv, DeliveryInv
  <2>2. job[t].state \in {"none", "completed", "failed"}
    BY <2>1 DEF AtRest, Working, Worked, JobState
  <2> QED
    BY <2>1, <2>2 DEF AtRest, ChargedAt, Refunded
<1> QED
  BY ChargeInit, ChargeStep, <1>1, PTL DEF Spec
-----------------------------------------------------------------------------
(* TaskLifecycle's plain promise, without replays.  Where calls only fail,  *)
(* a task moves forward: it is QUEUED until its execution starts it and     *)
(* RUNNING as long as that execution, or a retry of it, has not ended it.   *)

Orderly ==
  /\ Spared({"crash", "lostLock", "db", "publish", "wipe"})
  /\ ~({"enqueue", "lostReply"} \subseteq faults)

Begun(t) == row[t].status \in {"QUEUED", "RUNNING"}

ForwardAt(t) ==
  /\ req[t] \notin {"lost", "refundUnsaved"}
  /\ req[t] \in {"enqueue", "refundSaved", "markUnqueued"} => row[t].status = "QUEUED"
  /\ job[t].state = "none" <=> req[t] # "accepted"
  /\ job[t].state = "waiting" => Begun(t)

ForwardIn(s) ==
  /\ slot[s].pc \in {"find", "start"} => Begun(Task(s))
  /\ slot[s].pc \in {"announceRunning", "generate", "persist", "deliver",
                     "succeed", "fail", "rethrow"} => row[Task(s)].status = "RUNNING"

ForwardInv ==
  /\ ExclusiveInv /\ DeliveryInv
  /\ Orderly => /\ \A t \in Tasks : ForwardAt(t) /\ Worked(t)
                /\ \A s \in Slots : Idling(s) \/ ForwardIn(s)

LEMMA ForwardInit == Init => ForwardInv
<1> SUFFICES ASSUME Init
             PROVE  ForwardInv
  OBVIOUS
<1>1. \A t \in Tasks : ForwardAt(t) /\ Worked(t)
  BY DEF Init, ForwardAt, Worked
<1>2. \A s \in Slots : Idling(s)
  BY DEF Init, Idling, At, Idle
<1> QED
  BY <1>1, <1>2, ExclusiveInit, DeliveryInit DEF ForwardInv

LEMMA ForwardAtKept ==
  ASSUME NEW t \in Tasks, ForwardAt(t), req'[t] = req[t],
         row'[t].status = row[t].status, job'[t].state = job[t].state
  PROVE  ForwardAt(t)'
BY DEF ForwardAt, Begun

LEMMA ForwardInKept ==
  ASSUME NEW s \in Slots, Idling(s) \/ ForwardIn(s), slot'[s] = slot[s],
         Idling(s) \/ row'[Task(s)] = row[Task(s)]
  PROVE  Idling(s)' \/ ForwardIn(s)'
BY DEF ForwardIn, Idling, At, Task, Begun

LEMMA InsertedRow ==
  ASSUME TypeOK, "db" \notin faults, NEW t \in Tasks, InsertRow(t)
  PROVE  /\ req'[t] = "enqueue" /\ row'[t].status = "QUEUED" /\ owned' = owned
         /\ Untouched(t)
BY DEF TypeOK, InsertRow, Await, Untouched, upstream

LEMMA ForwardTaskStep ==
  ASSUME ForwardInv, Orderly, NEW t \in Tasks,
         Create(t) \/ Stall(t) \/ LoseLock(t) \/ Wipe(t)
  PROVE  /\ \A v \in Tasks : ForwardAt(v)' /\ Worked(v)'
         /\ \A s \in Slots : Idling(s)' \/ ForwardIn(s)'
<1>1. /\ TypeOK /\ ExclusiveInv /\ NotYetInserted
      /\ Spared({"lostLock"}) /\ "db" \notin faults /\ "wipe" \notin faults
      /\ "lostLock" \notin faults
      /\ \A v \in Tasks : ForwardAt(v) /\ Worked(v)
      /\ \A s \in Slots : Idling(s) \/ ForwardIn(s)
  BY DEF ForwardInv, DeliveryInv, Orderly, Spared
<1>2. OthersKept(t) /\ slot' = slot
  BY <1>1, ConsumeEffect, InsertEffect, EnqueueEffect, GiveBackEffect, MarkEffect,
     StallEffect, LoseEffect, WipeEffect DEF Create
<1>3. ASSUME NEW v \in Tasks, v # t
      PROVE  ForwardAt(v)' /\ Worked(v)'
  BY <1>1, <1>2, <1>3, ForwardAtKept, WorkedKept, SlotAssumption DEF OthersKept
<1>4. ASSUME NEW s \in Slots, Idling(s) \/ Task(s) # t
      PROVE  Idling(s)' \/ ForwardIn(s)'
  BY <1>1, <1>2, <1>4, ForwardInKept, BusyTask DEF OthersKept
<1>5. CASE Create(t)
  <2>1. job[t].state = "none"
    <3>1. req[t] # "accepted"
      BY <1>1, <1>5, ConsumeEffect, InsertEffect, EnqueueEffect, GiveBackEffect,
         MarkEffect DEF Create
    <3> QED
      BY <1>1, <3>1 DEF ForwardAt
  <2>2. \A s \in Slots : Idling(s) \/ Task(s) # t
    BY <1>1, <2>1, NobodyWorks
  <2>3. ForwardAt(t)' /\ Worked(t)'
    <3>1. CASE Consume(t)
      BY <1>1, <2>1, <3>1, ConsumeEffect DEF ForwardAt, Worked
    <3>2. CASE InsertRow(t)
      BY <1>1, <2>1, <3>2, InsertEffect, InsertedRow DEF ForwardAt, Worked
    <3>3. CASE Enqueue(t)
      <4>1. /\ req[t] = "enqueue" /\ row' = row
            /\ \/ req'[t] = "accepted" /\ job'[t].state = "waiting"
               \/ req'[t] = "refundSaved" /\ job' = job
        BY <1>1, <3>3, EnqueueEffect DEF Orderly, Queued, JobSet
      <4> QED
        BY <1>1, <2>1, <4>1 DEF ForwardAt, Worked, Begun
    <3>4. CASE GiveBack(t)
      <4>1. /\ req[t] = "refundSaved" /\ req'[t] = "markUnqueued" /\ UNCHANGED <<job, row>>
        BY <1>1, <3>4, GiveBackEffect DEF ForwardAt
      <4> QED
        BY <1>1, <2>1, <4>1 DEF ForwardAt, Worked
    <3>5. CASE MarkUnqueued(t)
      BY <1>1, <2>1, <3>5, MarkEffect DEF ForwardAt, Worked
    <3> QED
      BY <1>5, <3>1, <3>2, <3>3, <3>4, <3>5 DEF Create
  <2> QED
    BY <1>3, <1>4, <2>2, <2>3
<1>6. CASE Stall(t)
  <2>1. job[t].state = "active" /\ job[t].lock = NoSlot
    BY <1>1, <1>6, StallEffect
  <2>2. PICK s \in Slots : ~Idling(s) /\ Task(s) = t
    BY <1>1, <2>1 DEF Worked
  <2> QED
    BY <1>1, <2>1, <2>2, NobodyWorks
<1>7. CASE LoseLock(t) \/ Wipe(t)
  BY <1>1, <1>7, LoseEffect DEF Wipe
<1> QED
  BY <1>5, <1>6, <1>7

LEMMA ForwardTake ==
  ASSUME ForwardInv, Orderly, NEW s \in Slots, NEW t \in Tasks, Take(s, t)
  PROVE  /\ \A v \in Tasks : ForwardAt(v)' /\ Worked(v)'
         /\ \A u \in Slots : Idling(u)' \/ ForwardIn(u)'
<1>1. /\ TypeOK /\ \A v \in Tasks : ForwardAt(v) /\ Worked(v)
      /\ \A u \in Slots : Idling(u) \/ ForwardIn(u)
  BY DEF ForwardInv, DeliveryInv
<1>2. /\ OthersKept(t) /\ row' = row /\ req' = req
      /\ slot'[s].pc = "find" /\ slot'[s].task = t /\ Idling(s)
      /\ job[t].state = "waiting" /\ job'[t].state = "active"
      /\ \A u \in Slots : u # s => slot'[u] = slot[u]
  BY <1>1, TakeEffect DEF JobSet
<1>3. ASSUME NEW v \in Tasks, v # t
      PROVE  ForwardAt(v)' /\ Worked(v)'
  BY <1>1, <1>2, <1>3, ForwardAtKept, WorkedKept DEF OthersKept
<1>4. Begun(t) /\ ForwardAt(t)'
  BY <1>1, <1>2 DEF ForwardAt
<1>5. Worked(t)'
  BY <1>2 DEF Worked, Idling, At, Task
<1>6. ASSUME NEW u \in Slots, u # s
      PROVE  Idling(u)' \/ ForwardIn(u)'
  BY <1>1, <1>2, <1>6, ForwardInKept
<1>7. ForwardIn(s)'
  BY <1>2, <1>4 DEF ForwardIn, Task, Begun
<1> QED
  BY <1>3, <1>4, <1>5, <1>6, <1>7

LEMMA ForwardOwnStep ==
  ASSUME ForwardInv, Orderly, NEW s \in Slots, Process(s),
         NEW t \in Tasks, t = Task(s)
  PROVE  (Idling(s)' \/ ForwardIn(s)') /\ ForwardAt(t)' /\ Worked(t)'
<1>1. /\ TypeOK /\ ~Idling(s) /\ t = slot[s].task /\ t = Task(s) /\ req' = req
      /\ "db" \notin faults /\ "publish" \notin faults
      /\ ForwardIn(s) /\ ForwardAt(t)
      /\ job[t].state = "active" /\ job[t].lock = s
  BY ProcessFrame
     DEF ForwardInv, DeliveryInv, ExclusiveInv, HoldsLock, Task, Orderly, Spared
<1>2. req[t] = "accepted"
  BY <1>1 DEF ForwardAt
<1>3. CASE Continues(s)
  <2>1. ForwardAt(t)'
    BY <1>1, <1>2, <1>3 DEF ForwardAt, Continues
  <2>2. Worked(t)'
    BY <1>1, <1>3 DEF Worked, Continues, Idling, At, Task
  <2>3. ASSUME NEW p, NEW n, MovedWith(s, p, n),
               \/ row'[t].status = "RUNNING"
               \/ p \in {"announceSucceeded", "done", "announceFailed", "refund", "giveUp"}
        PROVE  ForwardIn(s)'
    BY <1>1, <2>3 DEF ForwardIn, MovedWith, Task, Begun
  <2>4. MovedByCatch(s) /\ row'[t].status = "RUNNING" => ForwardIn(s)'
    BY <2>3 DEF MovedByCatch, Moved
  <2>5. CASE FindTask(s)
    <3>1. Begun(t) /\ row' = row
      BY <1>1, <2>5, FindEffect DEF ForwardIn, At
    <3>2. MovedWith(s, "start", row[t].result)
      BY <1>1, <2>5, <3>1, FindEffect DEF Begun, Exists
    <3>3. ForwardIn(s)'
      BY <1>1, <3>1, <3>2 DEF ForwardIn, MovedWith, Task, Begun
    <3> QED
      BY <2>1, <2>2, <3>3
  <2>6. CASE StartRunning(s)
    <3>1. Exists(t)
      BY <1>1, <2>6, StartEffect DEF ForwardIn, At, Begun, Exists
    <3>2. row'[t].status = "RUNNING" /\ Moved(s, "announceRunning")
      BY <1>1, <2>6, <3>1, StartEffect DEF StatusSet
    <3> QED
      BY <2>1, <2>2, <2>3, <3>2 DEF Moved
  <2>7. CASE AnnounceRunning(s)
    <3>1. row'[t].status = "RUNNING"
      BY <1>1, <2>7, AnnounceRunningEffect DEF ForwardIn, At
    <3> QED
      BY <1>1, <2>1, <2>2, <2>3, <2>7, <3>1, AnnounceRunningEffect DEF Moved
  <2>8. CASE Generate(s)
    <3>1. row'[t].status = "RUNNING"
      BY <1>1, <2>8, GenerateEffect DEF ForwardIn, At
    <3> QED
      BY <1>1, <2>1, <2>2, <2>3, <2>4, <2>8, <3>1, GenerateEffect
  <2>9. CASE Persist(s)
    <3>1. row[t].status = "RUNNING"
      BY <1>1, <2>9, PersistEffect DEF ForwardIn, At
    <3>2. row'[t].status = "RUNNING"
      BY <1>1, <2>9, <3>1, PersistEffect DEF ResultSet
    <3> QED
      BY <1>1, <2>1, <2>2, <2>3, <2>4, <2>9, <3>2, PersistEffect DEF Moved
  <2>10. CASE Deliver(s)
    <3>1. row'[t].status = "RUNNING"
      BY <1>1, <2>10, DeliverEffect DEF ForwardIn, At
    <3> QED
      BY <1>1, <2>1, <2>2, <2>3, <2>4, <2>10, <3>1, DeliverEffect DEF Moved
  <2>11. CASE MarkSucceeded(s)
    <3>1. Exists(t)
      BY <1>1, <2>11, SucceedEffect DEF ForwardIn, At, Exists
    <3>2. Moved(s, "announceSucceeded")
      BY <1>1, <2>11, <3>1, SucceedEffect
    <3> QED
      BY <2>1, <2>2, <2>3, <3>2 DEF Moved
  <2>12. CASE AnnounceSucceeded(s)
    BY <1>1, <2>1, <2>2, <2>3, <2>12, AnnounceSucceededEffect DEF Moved
  <2>13. CASE MarkFailed(s)
    <3>1. Exists(t)
      BY <1>1, <2>13, FailEffect DEF ForwardIn, At, Exists
    <3>2. Moved(s, "announceFailed")
      BY <1>1, <2>13, <3>1, FailEffect
    <3> QED
      BY <2>1, <2>2, <2>3, <3>2 DEF Moved
  <2>14. CASE AnnounceFailed(s)
    BY <1>1, <2>1, <2>2, <2>3, <2>14, AnnounceFailedEffect DEF Moved
  <2>15. CASE Refund(s)
    BY <1>1, <2>1, <2>2, <2>3, <2>15, RefundEffect DEF Moved
  <2>16. CASE Complete(s) \/ GiveUp(s) \/ Retry(s)
    BY <1>1, <1>3, <2>16, SettleEffect
       DEF Complete, GiveUp, Retry, Continues, Idle
  <2> QED
    BY <2>5, <2>6, <2>7, <2>8, <2>9, <2>10, <2>11, <2>12, <2>13, <2>14, <2>15,
       <2>16 DEF Process
<1>4. ASSUME NEW state \in {"completed", "failed", "waiting"}, EndsAs(s, state)
      PROVE  (Idling(s)' \/ ForwardIn(s)') /\ ForwardAt(t)' /\ Worked(t)'
  <2>1. row' = row /\ job'[t].state = state /\ slot'[s] = Idle
    BY <1>1, <1>4, SettleEffect DEF EndsAs, JobSet
  <2>2. state = "waiting" => Begun(t)
    BY <1>1, <1>4 DEF EndsAs, ForwardIn, At, Begun
  <2> QED
    BY <1>1, <1>2, <1>4, <2>1, <2>2 DEF ForwardAt, Worked, Begun, Idling, At, Idle
<1> QED
  BY <1>1, <1>3, <1>4, ProcessContinues

LEMMA ForwardStep == ForwardInv /\ [Next]_vars => ForwardInv'
<1> SUFFICES ASSUME ForwardInv, [Next]_vars
             PROVE  ForwardInv'
  OBVIOUS
<1>1. ExclusiveInv' /\ DeliveryInv' /\ TypeOK /\ faults' = faults
  BY ExclusiveStep, DeliveryStep, FaultsKept DEF ForwardInv, DeliveryInv
<1>2. ASSUME Orderly
      PROVE  /\ \A t \in Tasks : ForwardAt(t)' /\ Worked(t)'
             /\ \A s \in Slots : Idling(s)' \/ ForwardIn(s)'
  <2>1. /\ \A t \in Tasks : ForwardAt(t) /\ Worked(t)
        /\ \A s \in Slots : Idling(s) \/ ForwardIn(s)
        /\ Spared({"lostLock"}) /\ ExclusiveInv
    BY <1>2 DEF ForwardInv, Orderly, Spared
  <2>2. CASE UNCHANGED vars
    BY <2>1, <2>2, ForwardAtKept, WorkedKept, ForwardInKept, SlotAssumption DEF vars
  <2>3. ASSUME NEW s \in Slots, Process(s)
        PROVE  /\ \A t \in Tasks : ForwardAt(t)' /\ Worked(t)'
               /\ \A u \in Slots : Idling(u)' \/ ForwardIn(u)'
    <3>t. PICK t \in Tasks : t = Task(s)
      BY <1>1, <2>3, ProcessFrame
    <3>1. /\ ~Idling(s) /\ req' = req /\ OthersKept(t)
          /\ \A u \in Slots : u # s => slot'[u] = slot[u]
      BY <1>1, <2>3, <3>t, ProcessFrame
    <3>2. ForwardAt(t)' /\ Worked(t)' /\ (Idling(s)' \/ ForwardIn(s)')
      BY <1>2, <2>3, <3>t, ForwardOwnStep
    <3>3. ASSUME NEW v \in Tasks, v # t
          PROVE  ForwardAt(v)' /\ Worked(v)'
      BY <2>1, <3>t, <3>1, <3>3, ForwardAtKept, WorkedKept DEF OthersKept
    <3>4. ASSUME NEW u \in Slots, u # s
          PROVE  Idling(u)' \/ ForwardIn(u)'
      <4>1. Idling(u) \/ Task(u) # t
        BY <2>1, <3>t, <3>1, <3>4, OneAtWork
      <4> QED
        BY <1>1, <2>1, <3>1, <3>4, <4>1, ForwardInKept, BusyTask DEF OthersKept
    <3> QED
      BY <3>2, <3>3, <3>4
  <2>4. CASE Crash
    BY <1>1, <1>2, <2>4, CrashEffect DEF Orderly, Spared
  <2> QED
    BY <1>2, <2>2, <2>3, <2>4, ForwardTaskStep, ForwardTake DEF Next
<1> QED
  BY <1>1, <1>2 DEF ForwardInv, Orderly, Spared

(* The refinement mapping, step by step: a row that is written is a move of *)
(* TaskLifecycle, a text that is handed over a delivery.                   *)

LEMMA StatusMoves ==
  ASSUME TypeOK, NEW t \in Tasks, NEW from, NEW to,
         row[t].status \in from, row'[t].status = to, Untouched(t), owned' = owned
  PROVE  Lifecycle!Move(t, from, to)
<1>1. \A u \in Tasks : u # t => row'[u].status = row[u].status
  BY DEF Untouched
<1>2. [u \in Tasks |-> row'[u].status] =
        [[u \in Tasks |-> row[u].status] EXCEPT ![t] = to]
  BY <1>1
<1>3. UNCHANGED [u \in Tasks |-> owned[u] # <<>>]
  OBVIOUS
<1> QED
  BY <1>2, <1>3 DEF Lifecycle!Move

LEMMA StatusesStay ==
  ASSUME \A t \in Tasks : row'[t].status = row[t].status, owned' = owned
  PROVE  UNCHANGED Lifecycle!vars
BY DEF Lifecycle!vars

LEMMA HandedMaps ==
  ASSUME NEW t \in Tasks, NEW text, Handed(t, text), row' = row,
         row[t].status = "RUNNING"
  PROVE  Lifecycle!Deliver(t)
BY DEF Handed, Lifecycle!Deliver

(* An execution's step, as TaskLifecycle sees it. *)
LEMMA OwnStepMaps ==
  ASSUME ForwardInv, Orderly, NEW s \in Slots, Process(s),
         NEW t \in Tasks, t = Task(s)
  PROVE  Lifecycle!Next \/ UNCHANGED Lifecycle!vars
<1>1. /\ TypeOK /\ t = slot[s].task /\ "db" \notin faults /\ ForwardIn(s) /\ AboutToSucceed
  BY ProcessFrame DEF ForwardInv, DeliveryInv, Task, Orderly, Spared, Idling
<1>2. ASSUME row' = row, owned' = owned
      PROVE  UNCHANGED Lifecycle!vars
  BY <1>2, StatusesStay
<1>3. CASE StartRunning(s)
  <2>1. Begun(t) /\ Exists(t)
    BY <1>1, <1>3, StartEffect DEF ForwardIn, At, Begun, Exists
  <2>2. row'[t].status = "RUNNING" /\ Untouched(t) /\ owned' = owned
    BY <1>1, <1>3, <2>1, StartEffect DEF StatusSet
  <2>3. CASE row[t].status = "QUEUED"
    <3>1. Lifecycle!Start(t)
      BY <1>1, <2>2, <2>3, StatusMoves DEF Lifecycle!Start
    <3> QED
      BY <3>1 DEF Lifecycle!Next, Lifecycle!Step
  <2>4. CASE row[t].status = "RUNNING"
    BY <2>2, <2>4, StatusesStay DEF Untouched
  <2> QED
    BY <2>1, <2>3, <2>4 DEF Begun
<1>4. CASE Persist(s)
  <2>1. owned' = owned /\ \A u \in Tasks : row'[u].status = row[u].status
    BY <1>1, <1>4, PersistEffect DEF ResultSet, Untouched
  <2> QED
    BY <2>1, StatusesStay
<1>5. CASE Deliver(s)
  <2>1. row[t].status = "RUNNING" /\ row' = row
    BY <1>1, <1>5, DeliverEffect DEF ForwardIn, At
  <2>2. owned' = owned \/ Handed(t, slot[s].text)
    BY <1>1, <1>5, DeliverEffect
  <2>3. CASE Handed(t, slot[s].text)
    <3>1. Lifecycle!Deliver(t)
      BY <2>1, <2>3, HandedMaps
    <3> QED
      BY <3>1 DEF Lifecycle!Next
  <2> QED
    BY <1>2, <2>1, <2>2, <2>3
<1>6. CASE MarkSucceeded(s)
  <2>1. row[t].status = "RUNNING" /\ owned[t] # <<>> /\ Exists(t) /\ owned' = owned
    BY <1>1, <1>6, SucceedEffect DEF ForwardIn, At, Exists, AboutToSucceed
  <2>2. row'[t].status = "SUCCEEDED" /\ Untouched(t)
    BY <1>1, <1>6, <2>1, SucceedEffect DEF StatusSet
  <2>3. Lifecycle!Move(t, {"RUNNING"}, "SUCCEEDED")
    BY <1>1, <2>1, <2>2, StatusMoves
  <2>4. Lifecycle!Succeed(t)
    BY <2>1, <2>3 DEF Lifecycle!Succeed
  <2> QED
    BY <2>4 DEF Lifecycle!Next, Lifecycle!Step
<1>7. CASE MarkFailed(s)
  <2>1. row[t].status = "RUNNING" /\ Exists(t) /\ owned' = owned
    BY <1>1, <1>7, FailEffect DEF ForwardIn, At, Exists
  <2>2. row'[t].status = "FAILED" /\ Untouched(t)
    BY <1>1, <1>7, <2>1, FailEffect DEF StatusSet
  <2>3. Lifecycle!Fail(t)
    BY <1>1, <2>1, <2>2, StatusMoves DEF Lifecycle!Fail
  <2> QED
    BY <2>3 DEF Lifecycle!Next, Lifecycle!Step
<1>8. CASE \/ FindTask(s) \/ AnnounceRunning(s) \/ Generate(s)
           \/ AnnounceSucceeded(s) \/ AnnounceFailed(s) \/ Refund(s)
           \/ Complete(s) \/ GiveUp(s) \/ Retry(s)
  <2>1. row' = row /\ owned' = owned
    BY <1>8 DEF FindTask, AnnounceRunning, Generate, AnnounceSucceeded, AnnounceFailed,
                Refund, Complete, GiveUp, Retry, Settle, upstream
  <2> QED
    BY <1>2, <2>1
<1> QED
  BY <1>3, <1>4, <1>5, <1>6, <1>7, <1>8 DEF Process

LEMMA ForwardMaps ==
  ASSUME ForwardInv, Orderly, [Next]_vars
  PROVE  [Lifecycle!Next]_(Lifecycle!vars)
<1>1. /\ TypeOK /\ NotYetInserted /\ "db" \notin faults /\ "wipe" \notin faults
      /\ \A t \in Tasks : ForwardAt(t)
  BY DEF ForwardInv, DeliveryInv, Orderly, Spared
<1>2. ASSUME row' = row, owned' = owned
      PROVE  UNCHANGED Lifecycle!vars
  BY <1>2, StatusesStay
<1>3. ASSUME NEW s \in Slots, Process(s)
      PROVE  Lifecycle!Next \/ UNCHANGED Lifecycle!vars
  <2>1. PICK t \in Tasks : t = Task(s)
    BY <1>1, <1>3, ProcessFrame
  <2> QED
    BY <1>3, <2>1, OwnStepMaps
<1>4. ASSUME NEW t \in Tasks, InsertRow(t)
      PROVE  Lifecycle!Next
  <2>1. row[t].status = "absent"
    BY <1>1, <1>4, InsertEffect DEF NotYetInserted, Exists
  <2>2. row'[t].status = "QUEUED" /\ owned' = owned /\ Untouched(t)
    BY <1>1, <1>4, InsertedRow
  <2>3. Lifecycle!Submit(t)
    BY <1>1, <2>1, <2>2, StatusMoves DEF Lifecycle!Submit
  <2> QED
    BY <2>3 DEF Lifecycle!Next
<1>5. ASSUME NEW t \in Tasks, MarkUnqueued(t)
      PROVE  Lifecycle!Next
  <2>1. row[t].status = "QUEUED" /\ Exists(t) /\ owned' = owned
    BY <1>1, <1>5, MarkEffect DEF ForwardAt, Exists
  <2>2. row'[t].status = "FAILED" /\ Untouched(t)
    BY <1>1, <1>5, <2>1, MarkEffect DEF StatusSet
  <2>3. Lifecycle!Fail(t)
    BY <1>1, <2>1, <2>2, StatusMoves DEF Lifecycle!Fail
  <2> QED
    BY <2>3 DEF Lifecycle!Next, Lifecycle!Step
<1>6. CASE \/ UNCHANGED vars \/ Crash
           \/ \E t \in Tasks : \/ Consume(t) \/ Enqueue(t) \/ GiveBack(t)
                              \/ Stall(t) \/ LoseLock(t)
           \/ \E s \in Slots, t \in Tasks : Take(s, t)
  <2>1. row' = row /\ owned' = owned
    BY <1>6 DEF vars, Crash, Consume, Enqueue, GiveBack, Stall, LoseLock, Take, upstream
  <2> QED
    BY <1>2, <2>1
<1>7. \A t \in Tasks : ~Wipe(t)
  BY <1>1 DEF Wipe
<1> QED
  BY <1>3, <1>4, <1>5, <1>6, <1>7 DEF Next, Create

(* Where calls fail but nothing is run again, lost or failed behind the     *)
(* service's back, the pipeline implements TaskLifecycle's plain promise:   *)
(* statuses only move forward, an end is final, a delivery happens while    *)
(* the task is RUNNING, and SUCCEEDED follows it.                           *)
THEOREM PipelineImplementsLifecycle == Spec /\ Orderly => Lifecycle!Spec
<1>1. ForwardInv /\ Orderly /\ [Next]_vars => Orderly' /\ [Lifecycle!Next]_(Lifecycle!vars)
  <2> SUFFICES ASSUME ForwardInv, Orderly, [Next]_vars
               PROVE  Orderly' /\ [Lifecycle!Next]_(Lifecycle!vars)
    OBVIOUS
  <2>1. faults' = faults
    BY FaultsKept DEF ForwardInv, DeliveryInv
  <2>2. Orderly'
    BY <2>1 DEF Orderly, Spared
  <2> QED
    BY <2>2, ForwardMaps
<1> QED
  BY ForwardInit, ForwardStep, LifecycleInit, <1>1, PTL DEF Spec, Lifecycle!Spec
=============================================================================

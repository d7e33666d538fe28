------------------------ MODULE GenerationTasksProofs ------------------------
(***************************************************************************)
(* Proofs about GenerationTasks for every set of requests and slots, every *)
(* number of attempts and stalls, and every set of faults.                 *)
(***************************************************************************)
EXTENDS GenerationTasks, TLAPS

BusyOK == \A s \in Slots : At(s, "idle") \/ Task(s) \in Tasks

-----------------------------------------------------------------------------
(* Lemmas on the helpers the actions are built from. *)

(* An execution that is under way and moves to another place stays typed. *)
LEMMA GoType ==
  ASSUME TypeOK, NEW s \in Slots, ~At(s, "idle"),
         NEW p \in SlotPC, p # "idle", Go(s, p)
  PROVE  slot' \in [Slots -> Execution] /\ BusyOK' /\ Task(s) \in Tasks
BY DEF TypeOK, BusyOK, At, Go, Task, Execution

(* So does one that also takes up a text. *)
LEMMA GoWithTextType ==
  ASSUME TypeOK, NEW s \in Slots, Task(s) \in Tasks,
         NEW p \in SlotPC, NEW n \in Nat,
         slot' = [slot EXCEPT ![s] = [@ EXCEPT !.pc = p, !.text = n]]
  PROVE  slot' \in [Slots -> Execution] /\ BusyOK'
<1>1. slot[s] \in Execution
  BY DEF TypeOK
<1>2. [slot[s] EXCEPT !.pc = p, !.text = n] \in Execution
  BY <1>1 DEF Execution
<1>3. slot' \in [Slots -> Execution]
  BY <1>2 DEF TypeOK
<1>4. \A u \in Slots : slot'[u].task = slot[u].task /\ (u = s \/ slot'[u] = slot[u])
  BY <1>1 DEF TypeOK, Execution
<1> QED
  BY <1>3, <1>4 DEF TypeOK, BusyOK, At, Task

(* The catch block only ever rethrows or goes on to record the failure. *)
LEMMA CaughtType ==
  ASSUME TypeOK, NEW s \in Slots, ~At(s, "idle"),
         NEW retryable \in BOOLEAN, Caught(s, retryable)
  PROVE  slot' \in [Slots -> Execution] /\ BusyOK' /\ Task(s) \in Tasks
<1>1. CASE Go(s, "rethrow")
  BY <1>1, GoType DEF SlotPC
<1>2. CASE Go(s, "fail")
  BY <1>2, GoType DEF SlotPC
<1> QED
  BY <1>1, <1>2 DEF Caught

(* A write that throws leaves the rows alone or does what it was asked. *)
LEMMA UpdateCases ==
  ASSUME NEW t, NEW to, Update(t, to) \/ UpdateFails(t, to)
  PROVE  row' = row \/ (Exists(t) /\ row' = [row EXCEPT ![t] = to])
BY DEF Update, UpdateFails

LEMMA UpdateType ==
  ASSUME TypeOK, NEW t \in Tasks, NEW to \in Row,
         Update(t, to) \/ UpdateFails(t, to)
  PROVE  row' \in [Tasks -> Row]
BY DEF TypeOK, Update, UpdateFails

LEMMA WithStatusType ==
  ASSUME TypeOK, NEW t \in Tasks, NEW st \in RowStatus
  PROVE  WithStatus(t, st) \in Row /\ WithStatus(t, st).status = st
BY DEF TypeOK, WithStatus, Row

(* What the owner holds stays a sequence of texts, and is never empty again. *)
LEMMA HandType ==
  ASSUME TypeOK, NEW t \in Tasks, NEW text \in Nat, Hand(t, text)
  PROVE  /\ owned' \in [Tasks -> Seq(Nat)]
         /\ owned'[t] # <<>>
         /\ \A u \in Tasks : u # t => owned'[u] = owned[u]
<1>1. owned[t] \in Seq(Nat)
  BY DEF TypeOK
<1>2. Append(owned[t], text) \in Seq(Nat) /\ <<text>> \in Seq(Nat)
  BY <1>1
<1>3. Append(owned[t], text) # <<>> /\ <<text>> # <<>>
  BY <1>1
<1> QED
  BY <1>2, <1>3 DEF TypeOK, Hand

(* The three ways BullMQ rewrites a job. *)
LEMMA JobType ==
  ASSUME NEW j \in Job, NEW state \in JobState
  PROVE  /\ [j EXCEPT !.state = state] \in Job
         /\ [j EXCEPT !.state = state, !.stalls = j.stalls + 1] \in Job
         /\ [j EXCEPT !.state = state, !.made = j.made + 1, !.lock = NoSlot] \in Job
<1>1. /\ j.made \in Nat /\ j.stalls \in Nat
      /\ j.made + 1 \in Nat /\ j.stalls + 1 \in Nat
  BY DEF Job
<1> QED
  BY <1>1 DEF Job

-----------------------------------------------------------------------------
(* Type correctness, one step per action. *)

LEMMA TypeInit == Init => TypeOK
BY DEF Init, TypeOK, Row, Job, Execution, Idle, SlotPC, RowStatus, JobState,
       RequestPC, At

LEMMA TypeCreate ==
  ASSUME TypeOK, NEW t \in Tasks, Create(t)
  PROVE  TypeOK'
<1>1. CASE Consume(t)
  <2>1. req' \in [Tasks -> RequestPC]
    BY <1>1 DEF TypeOK, Consume, Await, RequestPC
  <2>2. charge' \in [Tasks -> Int]
    BY <1>1 DEF TypeOK, Consume
  <2> QED
    BY <1>1, <2>1, <2>2 DEF TypeOK, Consume, upstream, At, Task
<1>2. CASE InsertRow(t)
  <2>1. req' \in [Tasks -> RequestPC]
    BY <1>2 DEF TypeOK, InsertRow, Await, RequestPC
  <2>2. row' \in [Tasks -> Row]
    <3>1. [status |-> "QUEUED", result |-> 0] \in Row
      BY DEF Row, RowStatus
    <3> QED
      BY <1>2, <3>1 DEF TypeOK, InsertRow
  <2> QED
    BY <1>2, <2>1, <2>2 DEF TypeOK, InsertRow, upstream, At, Task
<1>3. CASE Enqueue(t)
  <2>1. req' \in [Tasks -> RequestPC]
    BY <1>3 DEF TypeOK, Enqueue, Await, RequestPC
  <2>2. job' \in [Tasks -> Job]
    <3>1. job[t] \in Job
      BY DEF TypeOK
    <3>2. [job[t] EXCEPT !.state = "waiting"] \in Job
      BY <3>1 DEF JobState, Job
    <3>3. job' = job \/ job' = [job EXCEPT ![t] = [@ EXCEPT !.state = "waiting"]]
      BY <1>3 DEF Enqueue
    <3> QED
      BY <3>2, <3>3 DEF TypeOK
  <2> QED
    BY <1>3, <2>1, <2>2 DEF TypeOK, Enqueue, upstream, At, Task
<1>4. CASE GiveBack(t)
  <2>1. req' \in [Tasks -> RequestPC]
    BY <1>4 DEF TypeOK, GiveBack, Await, RequestPC
  <2>2. charge' \in [Tasks -> Int]
    BY <1>4 DEF TypeOK, GiveBack
  <2> QED
    BY <1>4, <2>1, <2>2 DEF TypeOK, GiveBack, upstream, At, Task
<1>5. CASE MarkUnqueued(t)
  <2>1. row' \in [Tasks -> Row]
    BY <1>5, UpdateType, WithStatusType
       DEF MarkUnqueued, RowStatus, Terminal
  <2> QED
    BY <1>5, <2>1 DEF TypeOK, MarkUnqueued, Await, RequestPC, upstream, At, Task
<1> QED
  BY <1>1, <1>2, <1>3, <1>4, <1>5 DEF Create

LEMMA TypeTake ==
  ASSUME TypeOK, NEW s \in Slots, NEW t \in Tasks, Take(s, t)
  PROVE  TypeOK'
<1>1. job[t] \in Job /\ slot[s] \in Execution
  BY DEF TypeOK
<1>2. [pc |-> "find", task |-> t, text |-> 0, made |-> job[t].made] \in Execution
  BY <1>1 DEF Execution, SlotPC, Job
<1>3. slot' \in [Slots -> Execution] /\ BusyOK'
  BY <1>2 DEF TypeOK, BusyOK, Take, At, Task
<1>4. [job[t] EXCEPT !.state = "active", !.lock = s] \in Job
  BY <1>1 DEF Job, JobState
<1>5. job' \in [Tasks -> Job]
  BY <1>4 DEF TypeOK, Take
<1> QED
  BY <1>3, <1>5 DEF TypeOK, BusyOK, Take, inputs, upstream

(* Settling a job frees the slot, and moves the job if its lock is held. *)
LEMMA TypeSettle ==
  ASSUME TypeOK, NEW s \in Slots, NEW state \in JobState, Settle(s, state)
  PROVE  TypeOK'
<1>1. slot' \in [Slots -> Execution] /\ BusyOK'
  BY DEF TypeOK, Settle, BusyOK, Idle, Execution, SlotPC, At, Task
<1>2. job' \in [Tasks -> Job]
  <2>1. ASSUME NEW t \in Tasks
        PROVE  [job[t] EXCEPT !.state = state, !.made = job[t].made + 1,
                              !.lock = NoSlot] \in Job
    BY JobType DEF TypeOK
  <2>2. CASE job' = job
    BY <2>2 DEF TypeOK
  <2>3. CASE Task(s) \in Tasks
    BY <2>1, <2>3 DEF TypeOK, Settle
  <2>4. CASE Task(s) \notin Tasks
    BY <2>4 DEF TypeOK, Settle
  <2> QED
    BY <2>2, <2>3, <2>4
<1> QED
  BY <1>1, <1>2 DEF TypeOK, Settle, BusyOK, inputs, upstream

LEMMA TypeProcess ==
  ASSUME TypeOK, NEW s \in Slots, Process(s)
  PROVE  TypeOK'
<1> USE DEF inputs, upstream
<1>1. CASE FindTask(s)
  <2>1. /\ slot' \in [Slots -> Execution]
        /\ BusyOK'
    <3>1. CASE Go(s, "giveUp") \/ Go(s, "rethrow")
      BY <1>1, <3>1, GoType DEF FindTask, SlotPC, At
    <3>2. CASE slot' = [slot EXCEPT ![s] =
                   [@ EXCEPT !.pc = "start", !.text = row[Task(s)].result]]
      <4>1. Task(s) \in Tasks /\ row[Task(s)].result \in Nat
        BY <1>1 DEF TypeOK, FindTask, At, Row
      <4> QED
        BY <3>2, <4>1, GoWithTextType DEF SlotPC
    <3> QED
      BY <1>1, <3>1, <3>2 DEF FindTask
  <2> QED
    BY <1>1, <2>1 DEF TypeOK, FindTask, BusyOK
<1>2. CASE StartRunning(s)
  <2>1. ~At(s, "idle")
    BY <1>2 DEF StartRunning, At
  <2>2. slot' \in [Slots -> Execution] /\ BusyOK' /\ Task(s) \in Tasks
    BY <1>2, <2>1, GoType DEF StartRunning, SlotPC
  <2>3. row' \in [Tasks -> Row]
    BY <1>2, <2>2, UpdateType, WithStatusType DEF StartRunning, RowStatus
  <2> QED
    BY <1>2, <2>2, <2>3 DEF TypeOK, StartRunning, BusyOK
<1>3. CASE AnnounceRunning(s)
  <2>1. slot' \in [Slots -> Execution] /\ BusyOK'
    BY <1>3, GoType DEF AnnounceRunning, SlotPC, At
  <2> QED
    BY <1>3, <2>1 DEF TypeOK, AnnounceRunning, BusyOK
<1>4. CASE Generate(s)
  <2>1. ~At(s, "idle") /\ Task(s) \in Tasks
    BY <1>4 DEF Generate, At, TypeOK
  <2>2. billed' \in [Tasks -> Nat]
    <3>1. billed' = billed \/ billed' = [billed EXCEPT ![Task(s)] = @ + 1]
      BY <1>4 DEF Generate, Bill
    <3> QED
      BY <2>1, <3>1 DEF TypeOK
  <2>3. slot' \in [Slots -> Execution] /\ BusyOK'
    <3>1. CASE \E retryable \in BOOLEAN : Caught(s, retryable)
      BY <3>1, <2>1, CaughtType
    <3>2. CASE slot' = [slot EXCEPT ![s] =
                   [@ EXCEPT !.pc = "persist", !.text = billed'[Task(s)]]]
      <4>1. billed'[Task(s)] \in Nat
        BY <2>1, <2>2
      <4> QED
        BY <3>2, <2>1, <4>1, GoWithTextType DEF SlotPC
    <3> QED
      BY <1>4, <3>1, <3>2 DEF Generate, DescribeFailure
  <2> QED
    BY <1>4, <2>2, <2>3 DEF TypeOK, Generate, BusyOK
<1>5. CASE Persist(s)
  <2>1. ~At(s, "idle")
    BY <1>5 DEF Persist, At
  <2>2. slot' \in [Slots -> Execution] /\ BusyOK' /\ Task(s) \in Tasks
    BY <1>5, <2>1, GoType, CaughtType DEF Persist, SlotPC
  <2>3. [row[Task(s)] EXCEPT !.result = slot[s].text] \in Row
    BY <2>2 DEF TypeOK, Row, Execution
  <2>4. row' \in [Tasks -> Row]
    BY <1>5, <2>2, <2>3, UpdateType DEF Persist
  <2> QED
    BY <1>5, <2>2, <2>4 DEF TypeOK, Persist, BusyOK
<1>6. CASE Deliver(s)
  <2>1. ~At(s, "idle")
    BY <1>6 DEF Deliver, At
  <2>2. slot' \in [Slots -> Execution] /\ BusyOK' /\ Task(s) \in Tasks
    BY <1>6, <2>1, GoType, CaughtType DEF Deliver, DescribeFailure, SlotPC
  <2>3. owned' \in [Tasks -> Seq(Nat)]
    <3>1. owned' = owned \/ Hand(Task(s), slot[s].text)
      BY <1>6 DEF Deliver
    <3>2. slot[s].text \in Nat
      BY DEF TypeOK, Execution
    <3> QED
      BY <2>2, <3>1, <3>2, HandType DEF TypeOK
  <2> QED
    BY <1>6, <2>2, <2>3 DEF TypeOK, Deliver, BusyOK
<1>7. CASE MarkSucceeded(s)
  <2>1. ~At(s, "idle")
    BY <1>7 DEF MarkSucceeded, At
  <2>2. slot' \in [Slots -> Execution] /\ BusyOK' /\ Task(s) \in Tasks
    BY <1>7, <2>1, GoType, CaughtType DEF MarkSucceeded, SlotPC
  <2>3. row' \in [Tasks -> Row]
    BY <1>7, <2>2, UpdateType, WithStatusType
       DEF MarkSucceeded, RowStatus, Terminal
  <2> QED
    BY <1>7, <2>2, <2>3 DEF TypeOK, MarkSucceeded, BusyOK
<1>8. CASE AnnounceSucceeded(s)
  <2>1. slot' \in [Slots -> Execution] /\ BusyOK'
    BY <1>8, GoType, CaughtType DEF AnnounceSucceeded, SlotPC, At
  <2> QED
    BY <1>8, <2>1 DEF TypeOK, AnnounceSucceeded, BusyOK
<1>9. CASE MarkFailed(s)
  <2>1. ~At(s, "idle")
    BY <1>9 DEF MarkFailed, At
  <2>2. slot' \in [Slots -> Execution] /\ BusyOK' /\ Task(s) \in Tasks
    BY <1>9, <2>1, GoType DEF MarkFailed, SlotPC
  <2>3. row' \in [Tasks -> Row]
    BY <1>9, <2>2, UpdateType, WithStatusType DEF MarkFailed, RowStatus, Terminal
  <2> QED
    BY <1>9, <2>2, <2>3 DEF TypeOK, MarkFailed, BusyOK
<1>10. CASE AnnounceFailed(s)
  <2>1. slot' \in [Slots -> Execution] /\ BusyOK'
    BY <1>10, GoType DEF AnnounceFailed, SlotPC, At
  <2> QED
    BY <1>10, <2>1 DEF TypeOK, AnnounceFailed, BusyOK
<1>11. CASE Refund(s)
  <2>1. ~At(s, "idle")
    BY <1>11 DEF Refund, At
  <2>2. slot' \in [Slots -> Execution] /\ BusyOK' /\ Task(s) \in Tasks
    BY <1>11, <2>1, GoType DEF Refund, SlotPC
  <2>3. charge' \in [Tasks -> Int]
    <3>1. charge' = charge \/ charge' = [charge EXCEPT ![Task(s)] = @ - 1]
      BY <1>11 DEF Refund
    <3> QED
      BY <2>2, <3>1 DEF TypeOK
  <2> QED
    BY <1>11, <2>2, <2>3 DEF TypeOK, Refund, BusyOK
<1>12. CASE Complete(s)
  BY <1>12, TypeSettle DEF Complete, JobState
<1>13. CASE GiveUp(s)
  BY <1>13, TypeSettle DEF GiveUp, JobState
<1>14. CASE Retry(s)
  BY <1>14, TypeSettle DEF Retry, JobState
<1> QED
  BY <1>1, <1>2, <1>3, <1>4, <1>5, <1>6, <1>7, <1>8, <1>9, <1>10, <1>11,
     <1>12, <1>13, <1>14 DEF Process

LEMMA TypeEnvironment ==
  ASSUME TypeOK, NEW t \in Tasks, Stall(t) \/ LoseLock(t) \/ Wipe(t)
  PROVE  TypeOK'
<1> USE DEF inputs, upstream
<1>1. CASE Stall(t)
  <2>1. job' \in [Tasks -> Job]
    <3>1. [job[t] EXCEPT
             !.state = IF job[t].stalls < MaxStalls THEN "waiting" ELSE "failed",
             !.stalls = job[t].stalls + 1] \in Job
      <4>1. job[t] \in Job
        BY DEF TypeOK
      <4>2. (IF job[t].stalls < MaxStalls THEN "waiting" ELSE "failed") \in JobState
        BY DEF JobState
      <4> QED
        BY <4>1, <4>2, JobType
    <3> QED
      BY <1>1, <3>1 DEF TypeOK, Stall
  <2> QED
    BY <1>1, <2>1 DEF TypeOK, Stall, At, Task
<1>2. CASE LoseLock(t)
  BY <1>2 DEF TypeOK, LoseLock, Job, At, Task
<1>3. CASE Wipe(t)
  BY <1>3 DEF TypeOK, Wipe, Row, RowStatus, At, Task
<1> QED
  BY <1>1, <1>2, <1>3

LEMMA TypeCrash ==
  ASSUME TypeOK, Crash
  PROVE  TypeOK'
<1>1. slot' \in [Slots -> Execution] /\ BusyOK'
  BY DEF Crash, TypeOK, BusyOK, Idle, Execution, SlotPC, At
<1>2. job' \in [Tasks -> Job]
  BY DEF Crash, TypeOK, Job
<1>3. req' \in [Tasks -> RequestPC]
  BY DEF Crash, TypeOK, RequestPC
<1> QED
  BY <1>1, <1>2, <1>3 DEF TypeOK, Crash, BusyOK, upstream

LEMMA TypeStep == TypeOK /\ [Next]_vars => TypeOK'
<1> SUFFICES ASSUME TypeOK, [Next]_vars
             PROVE  TypeOK'
  OBVIOUS
<1>1. CASE UNCHANGED vars
  BY <1>1 DEF vars, inputs, upstream, TypeOK, At, Task
<1>2. CASE Next
  BY <1>2, TypeCreate, TypeTake, TypeProcess, TypeEnvironment, TypeCrash DEF Next
<1> QED
  BY <1>1, <1>2

(* Every variable stays in its domain: the locals of process(), the BullMQ  *)
(* job and the rows hold only values the code can have written there.       *)
THEOREM TypeCorrect == Spec => []TypeOK
BY TypeInit, TypeStep, PTL DEF Spec

-----------------------------------------------------------------------------
(* SUCCEEDED comes after delivery.  What makes it inductive: an execution   *)
(* about to write SUCCEEDED has delivered, and nothing delivered is lost;   *)
(* and a row is absent until its own request inserts it.                    *)

AboutToSucceed ==
  \A s \in Slots : At(s, "succeed") => owned[Task(s)] # <<>>

NotYetInserted ==
  \A t \in Tasks : req[t] \in {"new", "insert"} => ~Exists(t)

DeliveryInv ==
  TypeOK /\ SucceededIsDelivered /\ AboutToSucceed /\ NotYetInserted

(* Nothing a service holds is taken back by any step. *)
LEMMA OwnedIsKept ==
  ASSUME TypeOK, [Next]_vars, NEW t \in Tasks, owned[t] # <<>>
  PROVE  owned'[t] # <<>>
<1>1. CASE owned' = owned
  BY <1>1
<1>2. ASSUME NEW s \in Slots, Deliver(s), owned' # owned
      PROVE  owned'[t] # <<>>
  <2>1. Task(s) \in Tasks /\ slot[s].text \in Nat
    BY <1>2 DEF TypeOK, Deliver, At, Execution
  <2>2. Hand(Task(s), slot[s].text)
    BY <1>2 DEF Deliver
  <2> QED
    BY <2>1, <2>2, HandType
<1>3. owned' = owned \/ \E s \in Slots : Deliver(s)
  BY DEF Next, vars, Create, Consume, InsertRow, Enqueue, GiveBack, MarkUnqueued,
         Take, Process, FindTask, StartRunning, AnnounceRunning, Generate, Persist,
         MarkSucceeded, AnnounceSucceeded, MarkFailed, AnnounceFailed, Refund,
         Complete, GiveUp, Retry, Settle, Stall, LoseLock, Crash, Wipe, upstream
<1> QED
  BY <1>1, <1>2, <1>3

(* A slot is about to succeed only if it was before, or has just delivered. *)
LEMMA SucceedAfterDelivery ==
  ASSUME TypeOK, [Next]_vars, NEW s \in Slots, At(s, "succeed")'
  PROVE  \/ At(s, "succeed") /\ Task(s)' = Task(s)
         \/ owned'[Task(s)'] # <<>>
<1> USE DEF TypeOK, At, Task
<1>1. CASE slot' = slot
  BY <1>1
<1>2. ASSUME NEW u \in Slots, NEW t \in Tasks, Take(u, t)
      PROVE  At(s, "succeed") /\ Task(s)' = Task(s)
  BY <1>2 DEF Take
<1>3. CASE Crash
  BY <1>3 DEF Crash, Idle
<1>4. ASSUME NEW u \in Slots, Process(u), u # s
      PROVE  At(s, "succeed") /\ Task(s)' = Task(s)
  <2>1. slot'[s] = slot[s]
    BY <1>4 DEF Process, FindTask, StartRunning, AnnounceRunning, Generate, Persist,
         Deliver, MarkSucceeded, AnnounceSucceeded, MarkFailed, AnnounceFailed,
         Refund, Complete, GiveUp, Retry, Settle, Go, Caught
  <2> QED
    BY <2>1
<1>5. ASSUME Process(s)
      PROVE  owned'[Task(s)'] # <<>>
  <2>1. CASE Deliver(s)
    <3>1. Task(s) \in Tasks /\ slot[s].text \in Nat
      BY <2>1 DEF Deliver, Execution
    <3>2. Hand(Task(s), slot[s].text) /\ Task(s)' = Task(s)
      BY <2>1 DEF Deliver, DescribeFailure, Go, Caught, Execution
    <3> QED
      BY <3>1, <3>2, HandType
  <2>2. CASE ~Deliver(s)
    <3>1. ASSUME NEW p, Go(s, p), p # "succeed"
          PROVE  FALSE
      BY <3>1 DEF Go, Execution
    <3>2. ASSUME NEW r \in BOOLEAN, Caught(s, r)
          PROVE  FALSE
      BY <3>1, <3>2 DEF Caught
    <3>3. ASSUME NEW p, Settle(s, p)
          PROVE  FALSE
      BY <3>3 DEF Settle, Idle
    <3>4. CASE FindTask(s)
      <4>1. slot' # [slot EXCEPT ![s] =
                       [@ EXCEPT !.pc = "start", !.text = row[Task(s)].result]]
        BY DEF Execution
      <4> QED
        BY <3>1, <3>4, <4>1 DEF FindTask
    <3>5. CASE StartRunning(s) \/ AnnounceRunning(s)
      BY <3>1, <3>5 DEF StartRunning, AnnounceRunning
    <3>6. CASE Generate(s)
      <4>1. \/ \E r \in BOOLEAN : Caught(s, r)
            \/ slot' = [slot EXCEPT ![s] =
                          [@ EXCEPT !.pc = "persist", !.text = billed'[Task(s)]]]
        BY <3>6 DEF Generate, DescribeFailure
      <4> QED
        BY <3>2, <4>1 DEF Execution
    <3>7. CASE Persist(s) \/ MarkSucceeded(s) \/ AnnounceSucceeded(s)
      BY <3>1, <3>2, <3>7 DEF Persist, MarkSucceeded, AnnounceSucceeded
    <3>8. CASE MarkFailed(s) \/ AnnounceFailed(s) \/ Refund(s)
      BY <3>1, <3>8 DEF MarkFailed, AnnounceFailed, Refund
    <3>9. CASE Complete(s) \/ GiveUp(s) \/ Retry(s)
      BY <3>3, <3>9 DEF Complete, GiveUp, Retry
    <3> QED
      BY <1>5, <2>2, <3>4, <3>5, <3>6, <3>7, <3>8, <3>9 DEF Process
  <2> QED
    BY <2>1, <2>2
<1>6. \/ slot' = slot
      \/ \E u \in Slots, t \in Tasks : Take(u, t)
      \/ \E u \in Slots : Process(u)
      \/ Crash
  BY DEF Next, vars, Create, Consume, InsertRow, Enqueue, GiveBack, MarkUnqueued,
         Stall, LoseLock, Wipe
<1> QED
  BY <1>1, <1>2, <1>3, <1>4, <1>5, <1>6

(* How a step may change the row of a task, as the refinement sees it. *)
Written(t) ==
  \/ row'[t].status = row[t].status
  \/ Exists(t) /\ row'[t].status \in {"RUNNING", "FAILED"}
  \/ Exists(t) /\ row'[t].status = "SUCCEEDED" /\ owned[t] # <<>>
  \/ Exists(t) /\ row'[t].status = "absent"
  \/ ~Exists(t) /\ row'[t].status = "QUEUED" /\ req'[t] \notin {"new", "insert"}

Untouched(t) == \A u \in Tasks \ {t} : row'[u] = row[u]

LEMMA WrittenByUpdate ==
  ASSUME TypeOK, NEW t \in Tasks, NEW to \in Row,
         Update(t, to) \/ UpdateFails(t, to)
  PROVE  /\ Untouched(t)
         /\ row'[t] = row[t] \/ (Exists(t) /\ row'[t] = to)
BY DEF TypeOK, Update, UpdateFails, Untouched

(* A step that writes rows at all writes one, in one of those ways. *)
LEMMA RowStep ==
  ASSUME DeliveryInv, Next, row' # row
  PROVE  \E t \in Tasks : Written(t) /\ Untouched(t) /\ owned' = owned
<1> USE DEF DeliveryInv
<1>1. ASSUME NEW t \in Tasks, InsertRow(t)
      PROVE  Written(t) /\ Untouched(t) /\ owned' = owned
  <2>1. /\ row' = [row EXCEPT ![t] = [status |-> "QUEUED", result |-> 0]]
        /\ req[t] = "insert" /\ owned' = owned
    BY <1>1 DEF InsertRow, Await, upstream
  <2>2. ~Exists(t) /\ req'[t] \in {"enqueue", "refundUnsaved"}
    BY <1>1, <2>1 DEF NotYetInserted, InsertRow, Await, TypeOK
  <2> QED
    BY <2>1, <2>2 DEF Written, Untouched, TypeOK
<1>2. ASSUME NEW t \in Tasks, MarkUnqueued(t)
      PROVE  Written(t) /\ Untouched(t) /\ owned' = owned
  BY <1>2, WrittenByUpdate, WithStatusType
     DEF MarkUnqueued, Written, RowStatus, Terminal, upstream
<1>3. ASSUME NEW t \in Tasks, Wipe(t)
      PROVE  Written(t) /\ Untouched(t) /\ owned' = owned
  BY <1>3 DEF Wipe, Written, Untouched, TypeOK, upstream
<1>4. ASSUME NEW s \in Slots, StartRunning(s)
      PROVE  Task(s) \in Tasks /\ Written(Task(s)) /\ Untouched(Task(s)) /\ owned' = owned
  <2>1. Task(s) \in Tasks
    BY <1>4 DEF TypeOK, StartRunning, At
  <2> QED
    BY <1>4, <2>1, WrittenByUpdate, WithStatusType
       DEF StartRunning, Written, RowStatus, upstream
<1>5. ASSUME NEW s \in Slots, Persist(s)
      PROVE  Task(s) \in Tasks /\ Written(Task(s)) /\ Untouched(Task(s)) /\ owned' = owned
  <2>1. Task(s) \in Tasks /\ slot[s].text \in Nat /\ row[Task(s)] \in Row
    BY <1>5 DEF TypeOK, Persist, At, Execution
  <2>2. /\ [row[Task(s)] EXCEPT !.result = slot[s].text] \in Row
        /\ [row[Task(s)] EXCEPT !.result = slot[s].text].status = row[Task(s)].status
    BY <2>1 DEF Row
  <2> QED
    BY <1>5, <2>1, <2>2, WrittenByUpdate DEF Persist, Written, upstream
<1>6. ASSUME NEW s \in Slots, MarkSucceeded(s)
      PROVE  Task(s) \in Tasks /\ Written(Task(s)) /\ Untouched(Task(s)) /\ owned' = owned
  <2>1. Task(s) \in Tasks
    BY <1>6 DEF TypeOK, MarkSucceeded, At
  <2>2. owned[Task(s)] # <<>>
    BY <1>6 DEF AboutToSucceed, MarkSucceeded
  <2>3. /\ WithStatus(Task(s), "SUCCEEDED") \in Row
        /\ WithStatus(Task(s), "SUCCEEDED").status = "SUCCEEDED"
    BY <2>1, WithStatusType DEF RowStatus, Terminal
  <2>4. /\ Untouched(Task(s))
        /\ \/ row'[Task(s)] = row[Task(s)]
           \/ Exists(Task(s)) /\ row'[Task(s)] = WithStatus(Task(s), "SUCCEEDED")
    BY <1>6, <2>1, <2>3, WrittenByUpdate DEF MarkSucceeded
  <2>5. owned' = owned
    BY <1>6 DEF MarkSucceeded, upstream
  <2> QED
    BY <2>1, <2>2, <2>3, <2>4, <2>5 DEF Written
<1>7. ASSUME NEW s \in Slots, MarkFailed(s)
      PROVE  Task(s) \in Tasks /\ Written(Task(s)) /\ Untouched(Task(s)) /\ owned' = owned
  <2>1. Task(s) \in Tasks
    BY <1>7 DEF TypeOK, MarkFailed, At
  <2> QED
    BY <1>7, <2>1, WrittenByUpdate, WithStatusType
       DEF MarkFailed, Written, RowStatus, Terminal, upstream
<1>8. \/ \E t \in Tasks : InsertRow(t) \/ MarkUnqueued(t) \/ Wipe(t)
      \/ \E s \in Slots : \/ StartRunning(s) \/ Persist(s)
                         \/ MarkSucceeded(s) \/ MarkFailed(s)
  BY DEF Next, Create, Consume, Enqueue, GiveBack, Take, Process, FindTask,
         AnnounceRunning, Generate, Deliver, AnnounceSucceeded, AnnounceFailed,
         Refund, Complete, GiveUp, Retry, Settle, Stall, LoseLock, Crash
<1> QED
  BY <1>1, <1>2, <1>3, <1>4, <1>5, <1>6, <1>7, <1>8

(* A request never comes back to "new" or "insert". *)
LEMMA InsertOnce ==
  ASSUME DeliveryInv, [Next]_vars, NEW t \in Tasks, req'[t] \in {"new", "insert"}
  PROVE  req[t] \in {"new", "insert"}
<1>1. CASE req' = req
  BY <1>1
<1>2. ASSUME NEW u \in Tasks, Create(u)
      PROVE  req[t] \in {"new", "insert"}
  BY <1>2 DEF Create, Consume, InsertRow, Enqueue, GiveBack, MarkUnqueued, Await,
              DeliveryInv, TypeOK
<1>3. CASE Crash
  BY <1>3 DEF Crash, DeliveryInv, TypeOK, Settled
<1>4. req' = req \/ (\E u \in Tasks : Create(u)) \/ Crash
  BY DEF Next, vars, Take, Process, FindTask, StartRunning, AnnounceRunning, Generate,
         Persist, Deliver, MarkSucceeded, AnnounceSucceeded, MarkFailed,
         AnnounceFailed, Refund, Complete, GiveUp, Retry, Settle, Stall, LoseLock,
         Wipe, inputs
<1> QED
  BY <1>1, <1>2, <1>3, <1>4

LEMMA DeliveryInit == Init => DeliveryInv
BY TypeInit DEF Init, DeliveryInv, SucceededIsDelivered, AboutToSucceed,
                NotYetInserted, Exists, At, Idle

LEMMA DeliveryStep == DeliveryInv /\ [Next]_vars => DeliveryInv'
<1> SUFFICES ASSUME DeliveryInv, [Next]_vars
             PROVE  DeliveryInv'
  OBVIOUS
<1> USE DEF DeliveryInv
<1>1. TypeOK'
  BY TypeStep
<1>2. AboutToSucceed'
  <2> SUFFICES ASSUME NEW s \in Slots, At(s, "succeed")'
               PROVE  owned'[Task(s)'] # <<>>
    BY DEF AboutToSucceed
  <2>1. Task(s)' \in Tasks
    BY <1>1 DEF TypeOK, At
  <2> QED
    BY <2>1, SucceedAfterDelivery, OwnedIsKept DEF AboutToSucceed
<1>3. SucceededIsDelivered'
  <2> SUFFICES ASSUME NEW t \in Tasks, row'[t].status = "SUCCEEDED"
               PROVE  owned'[t] # <<>>
    BY DEF SucceededIsDelivered
  <2>1. CASE row'[t].status = row[t].status
    BY <2>1, OwnedIsKept DEF SucceededIsDelivered
  <2>2. CASE row'[t].status # row[t].status
    <3>1. row' # row
      BY <2>2
    <3>2. PICK u \in Tasks : Written(u) /\ Untouched(u)
      BY <3>1, RowStep DEF vars
    <3>3. u = t
      BY <2>2, <3>2 DEF Untouched
    <3> QED
      BY <2>2, <3>2, <3>3, OwnedIsKept DEF Written
  <2> QED
    BY <2>1, <2>2
<1>4. NotYetInserted'
  <2> SUFFICES ASSUME NEW t \in Tasks, req'[t] \in {"new", "insert"}
               PROVE  row'[t].status = "absent"
    BY DEF NotYetInserted, Exists
  <2>1. ~Exists(t)
    BY InsertOnce DEF NotYetInserted
  <2>2. CASE row' = row
    BY <2>1, <2>2 DEF Exists
  <2>3. CASE row' # row
    <3>1. PICK u \in Tasks : Written(u) /\ Untouched(u)
      BY <2>3, RowStep DEF vars
    <3> QED
      BY <2>1, <3>1 DEF Written, Untouched, Exists
  <2> QED
    BY <2>2, <2>3
<1> QED
  BY <1>1, <1>2, <1>3, <1>4

(* A client that sees SUCCEEDED can rely on the content being with its      *)
(* owner: under every set of faults, for any number of requests and slots.  *)
THEOREM SucceededAfterDelivery == Spec => []SucceededIsDelivered
<1>1. DeliveryInv => SucceededIsDelivered
  BY DEF DeliveryInv
<1> QED
  BY DeliveryInit, DeliveryStep, <1>1, PTL DEF Spec

-----------------------------------------------------------------------------
(* The refinement: initial states map to initial states, and every step to  *)
(* a step of ReplayNext or to a stutter.                                    *)

LEMMA LifecycleInit == Init => Lifecycle!Init
<1> SUFFICES ASSUME Init
             PROVE  Lifecycle!Init
  OBVIOUS
<1>1. [t \in Tasks |-> row[t].status] = [t \in Tasks |-> "absent"]
  BY DEF Init
<1>2. \A t \in Tasks : (owned[t] # <<>>) = FALSE
  BY DEF Init
<1>3. [t \in Tasks |-> owned[t] # <<>>] = [t \in Tasks |-> FALSE]
  BY <1>2, Zenon
<1> QED
  BY <1>1, <1>3 DEF Lifecycle!Init

(* A step that hands a text to its owner is ReplayDeliver or a stutter. *)
LEMMA DeliverMaps ==
  ASSUME TypeOK, NEW s \in Slots, Deliver(s)
  PROVE  [Lifecycle!ReplayNext]_(Lifecycle!vars)
<1>1. row' = row /\ Task(s) \in Tasks /\ slot[s].text \in Nat
  BY DEF TypeOK, Deliver, At, Execution
<1>2. CASE owned' = owned
  BY <1>1, <1>2 DEF Lifecycle!vars
<1>3. CASE Hand(Task(s), slot[s].text)
  <2>1. /\ owned'[Task(s)] # <<>>
        /\ \A u \in Tasks : u # Task(s) => owned'[u] = owned[u]
    BY <1>1, <1>3, HandType
  <2>2. PICK t \in Tasks : t = Task(s)
    BY <1>1
  <2>3. Lifecycle!ReplayDeliver(t)
    BY <1>1, <2>1, <2>2 DEF Lifecycle!ReplayDeliver
  <2> QED
    BY <2>3 DEF Lifecycle!ReplayNext
<1> QED
  BY <1>2, <1>3 DEF Deliver

(* A step that writes a row is a move of the lifecycle, or a stutter. *)
LEMMA WrittenMaps ==
  ASSUME TypeOK, NEW t \in Tasks, Written(t), Untouched(t), owned' = owned
  PROVE  [Lifecycle!ReplayNext]_(Lifecycle!vars)
<1> DEFINE status == [u \in Tasks |-> row[u].status]
<1>1. \A u \in Tasks : u # t => row'[u].status = row[u].status
  BY DEF Untouched
<1>2. [u \in Tasks |-> row'[u].status] = [status EXCEPT ![t] = row'[t].status]
  BY <1>1
<1>3. UNCHANGED [u \in Tasks |-> owned[u] # <<>>]
  OBVIOUS
<1>4. CASE row'[t].status = row[t].status
  BY <1>1, <1>3, <1>4 DEF Lifecycle!vars
<1>5. CASE Exists(t) /\ row'[t].status \in {"RUNNING", "FAILED"}
  <2>1. row[t].status \in Lifecycle!Status \ {"absent"}
    BY <1>5 DEF TypeOK, Exists, Row, RowStatus, Terminal, Lifecycle!Status,
                Lifecycle!Terminal
  <2>2. Lifecycle!Replay(t, "RUNNING") \/ Lifecycle!Replay(t, "FAILED")
    BY <1>2, <1>3, <1>5, <2>1 DEF Lifecycle!Replay, Lifecycle!Move
  <2> QED
    BY <2>2 DEF Lifecycle!ReplayNext
<1>6. CASE Exists(t) /\ row'[t].status = "SUCCEEDED" /\ owned[t] # <<>>
  <2>1. row[t].status \in Lifecycle!Status \ {"absent"}
    BY <1>6 DEF TypeOK, Exists, Row, RowStatus, Terminal, Lifecycle!Status,
                Lifecycle!Terminal
  <2>2. Lifecycle!ReplaySucceed(t)
    BY <1>2, <1>3, <1>6, <2>1
       DEF Lifecycle!ReplaySucceed, Lifecycle!Replay, Lifecycle!Move
  <2> QED
    BY <2>2 DEF Lifecycle!ReplayNext
<1>7. CASE Exists(t) /\ row'[t].status = "absent"
  <2>1. row[t].status \in Lifecycle!Status
    BY DEF TypeOK, Row, RowStatus, Terminal, Lifecycle!Status, Lifecycle!Terminal
  <2>2. Lifecycle!Forget(t)
    BY <1>2, <1>3, <1>7, <2>1 DEF Lifecycle!Forget, Lifecycle!Move
  <2> QED
    BY <2>2 DEF Lifecycle!ReplayNext
<1>8. CASE ~Exists(t) /\ row'[t].status = "QUEUED"
  <2>1. Lifecycle!Submit(t)
    BY <1>2, <1>3, <1>8 DEF Lifecycle!Submit, Lifecycle!Move, Exists
  <2> QED
    BY <2>1 DEF Lifecycle!ReplayNext
<1> QED
  BY <1>4, <1>5, <1>6, <1>7, <1>8 DEF Written

LEMMA LifecycleStep ==
  ASSUME DeliveryInv, [Next]_vars
  PROVE  [Lifecycle!ReplayNext]_(Lifecycle!vars)
<1>1. CASE row' = row /\ owned' = owned
  BY <1>1 DEF Lifecycle!vars
<1>2. CASE row' # row
  <2>1. PICK t \in Tasks : Written(t) /\ Untouched(t) /\ owned' = owned
    BY <1>2, RowStep DEF vars
  <2> QED
    BY <2>1, WrittenMaps DEF DeliveryInv
<1>3. CASE owned' # owned
  <2>1. PICK s \in Slots : Deliver(s)
    BY <1>3 DEF Next, vars, Create, Consume, InsertRow, Enqueue, GiveBack,
         MarkUnqueued, Take, Process, FindTask, StartRunning, AnnounceRunning,
         Generate, Persist, MarkSucceeded, AnnounceSucceeded, MarkFailed,
         AnnounceFailed, Refund, Complete, GiveUp, Retry, Settle, Stall, LoseLock,
         Crash, Wipe, upstream
  <2> QED
    BY <2>1, DeliverMaps DEF DeliveryInv
<1> QED
  BY <1>1, <1>2, <1>3

(* The pipeline implements what TaskLifecycle promises under every fault:   *)
(* a status may be replayed, but SUCCEEDED follows delivery and nothing     *)
(* delivered is taken back.                                                 *)
THEOREM PipelineImplementsReplay == Spec => ImplementsReplay
<1>1. DeliveryInv /\ [Next]_vars => [Lifecycle!ReplayNext]_(Lifecycle!vars)
  BY LifecycleStep
<1> QED
  BY DeliveryInit, DeliveryStep, LifecycleInit, <1>1, PTL
     DEF Spec, ImplementsReplay, Lifecycle!ReplaySpec
=============================================================================

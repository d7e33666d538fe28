--------------------------------- MODULE Jobs ---------------------------------
(***************************************************************************)
(* jobs-service on one job of its owner, with the two kinds of callers it  *)
(* has: the owner's browser tabs through the gateway, and ai-service, whose *)
(* http-client delivers a finished brief by PUT, gives an attempt up after *)
(* its timeout and tries again.  The worker that calls it may run a task   *)
(* again and deliver the same brief anew.  One action per await of a       *)
(* handler.                                                                *)
(*                                                                         *)
(* A request of anybody but the owner, or for another job, fails at        *)
(* assertOwned as one for a deleted job does.                              *)
(***************************************************************************)
EXTENDS Integers, Sequences, FiniteSets

Seqs == INSTANCE SequencesExt

CONSTANTS
  Stages,
  Changes, Edits,  \* POST stage and PATCH requests that browsers send
  Briefs,          \* the results delivered as the job's artifact of one type
  MaxDeliveries,   \* the bound on the client's calls that deliver one brief
  MaxAttempts,     \* 1 + retries of the client, for a PUT
  Occasions,       \* the sets of things that may happen in a behaviour
  None

ServiceOccasions ==
  { "changes",   \* any tabs move the job between stages
    "edits",     \* another tab edits its description or notes
    "removal",   \* the job is deleted
    "db",        \* a Prisma call throws
    "timeout",   \* an attempt of the client times out or loses its connection
    "contract" } \* an answer does not match its schema

ASSUME AttemptAssumption == MaxAttempts \in Nat \ {0} /\ MaxDeliveries \in Nat \ {0}
ASSUME JobAssumption ==
  /\ Changes \cap Edits = {}
  /\ None \notin Stages \cup Changes \cup Edits \cup Briefs

VARIABLES
  may,      \* what may happen in this behaviour; never changes
  job,      \* the row of jobs; jd stands for its description and notes
  history,  \* its stage_events by their time, of open transactions as well
  change,   \* [Changes -> a changeStage]
  edit,     \* [Edits -> an update, and the text it carries]
  held,     \* history: the texts that job.jd has been
  text,     \* the content of its artifact: a brief, or None
  by,       \* history: the delivery that wrote it, or None
  written,  \* history: the briefs that were the content at some time
  call,     \* [Deliveries -> a call of the client]
  put,      \* [Deliveries -> [1 .. MaxAttempts -> a putArtifact]]
  before,   \* history: the deliveries that had ended when one began
  raced     \* history: a change committed while another was under way

jobVars ==
  <<may, job, history, change, edit, held, text, by, written, call, put, before, raced>>

Attempts == 1 .. MaxAttempts

(* The n-th delivery of a brief. *)
Rounds == 1 .. MaxDeliveries
Deliveries == Briefs \X Rounds

Change ==
  [pc : {"none", "checked", "open", "ok", "missing", "error"}, to : Stages \cup {None}]
Put == [pc : {"none", "wire", "checked", "ok", "missing", "error"}, givenUp : BOOLEAN]
Call == [pc : {"idle", "out", "backoff", "done", "failed"}, attempt : 0 .. MaxAttempts]

(* A new text is named by an edit; None is the text the job is created with. *)
Texts == Edits \cup {None}
Update == [pc : {"none", "checked", "ok", "missing", "error"}, text : Texts]

(* The opening event is the job's own. *)
Event == [by : Changes \cup {None}, stage : Stages]

JobsInit ==
  /\ may \in Occasions
  /\ job = [row |-> "none", stage |-> None, jd |-> None]
  /\ history = <<>>
  /\ change = [r \in Changes |-> [pc |-> "none", to |-> None]]
  /\ edit = [r \in Edits |-> [pc |-> "none", text |-> None]]
  /\ held = {}
  /\ text = None
  /\ by = None
  /\ written = {}
  /\ call = [c \in Deliveries |-> [pc |-> "idle", attempt |-> 0]]
  /\ put = [c \in Deliveries |-> [n \in Attempts |-> [pc |-> "none", givenUp |-> FALSE]]]
  /\ before = [c \in Deliveries |-> {}]
  /\ raced = FALSE

-----------------------------------------------------------------------------
Live == job.row = "live"

serviceKeeps == <<text, by, written, call, put, before>>

(* The job and its opening history entry are one statement. *)
Create(s) ==
  /\ job.row = "none"
  /\ job' = [row |-> "live", stage |-> s, jd |-> None]
  /\ held' = {None}
  /\ history' = <<[by |-> None, stage |-> s]>>
  /\ UNCHANGED <<may, change, edit, serviceKeeps, raced>>

(* Mutant: re-selecting the stage the job is in is not told apart. *)
CheckAnyStage(r, s) ==
  /\ job.row # "none"
  /\ change[r].pc = "none"
  /\ change' = [change EXCEPT ![r] =
       [pc |-> IF Live THEN "checked" ELSE "missing", to |-> s]]
  /\ UNCHANGED <<may, job, history, edit, held, serviceKeeps, raced>>

(* changeStage as far as its read: the stage read decides what it does. *)
CheckStage(r, s) ==
  /\ job.row # "none"
  /\ change[r].pc = "none"
  /\ change' = [change EXCEPT ![r] =
       [ pc |-> IF ~Live THEN "missing" ELSE IF job.stage = s THEN "ok" ELSE "checked",
         to |-> s ]]
  /\ UNCHANGED <<may, job, history, edit, held, serviceKeeps, raced>>

(* The transaction opens and inserts its event, which a deleted job refuses. *)
InsertEvent(r) ==
  /\ change[r].pc = "checked"
  /\ IF Live
     THEN /\ change' = [change EXCEPT ![r].pc = "open"]
          /\ history' = Append(history, [by |-> r, stage |-> change[r].to])
     ELSE /\ change' = [change EXCEPT ![r].pc = "error"]
          /\ history' = history
  /\ UNCHANGED <<may, job, edit, held, serviceKeeps, raced>>

(* It moves the job and commits. *)
MoveStage(r) ==
  /\ change[r].pc = "open"
  /\ change' = [change EXCEPT ![r].pc = "ok"]
  /\ job' = [job EXCEPT !.stage = change[r].to]
  /\ raced' = (raced \/ \E o \in Changes \ {r} : change[o].pc \in {"checked", "open"})
  /\ UNCHANGED <<may, history, edit, held, serviceKeeps>>

(* A failure before the commit rolls the event back. *)
AbortChange(r) ==
  /\ "db" \in may
  /\ change[r].pc \in {"checked", "open"}
  /\ change' = [change EXCEPT ![r].pc = "error"]
  /\ IF change[r].pc = "open"
     THEN \E i \in DOMAIN history :
            history[i].by = r /\ history' = Seqs!RemoveAt(history, i)
     ELSE history' = history
  /\ UNCHANGED <<may, job, edit, held, serviceKeeps, raced>>

(* update as far as assertOwned; the body carries the text t. *)
CheckEdit(r, t) ==
  /\ job.row # "none"
  /\ edit[r].pc = "none"
  /\ edit' = [edit EXCEPT ![r] =
       [pc |-> IF Live THEN "checked" ELSE "missing", text |-> t]]
  /\ UNCHANGED <<may, job, history, change, held, serviceKeeps, raced>>

(* A stage in the body is not among the fields written.  Without the row    *)
(* the update throws.                                                       *)
Edit(r) ==
  /\ edit[r].pc = "checked"
  /\ \/ /\ Live
        /\ edit' = [edit EXCEPT ![r].pc = "ok"]
        /\ job' = [job EXCEPT !.jd = edit[r].text]
        /\ held' = held \cup {edit[r].text}
     \/ /\ ~Live \/ "db" \in may
        /\ edit' = [edit EXCEPT ![r].pc = "error"]
        /\ UNCHANGED <<job, held>>
  /\ UNCHANGED <<may, history, change, serviceKeeps, raced>>

(* remove: an open transaction holds a lock on the row its event refers to, *)
(* which the delete waits for; events and artifacts go with the job.        *)
Remove ==
  /\ Live
  /\ \A r \in Changes : change[r].pc # "open"
  /\ job' = [row |-> "gone", stage |-> None, jd |-> None]
  /\ history' = <<>>
  /\ text' = None
  /\ by' = None
  /\ UNCHANGED <<may, change, edit, held, written, call, put, before, raced>>

-----------------------------------------------------------------------------
(* The client's side of a delivery. *)

browserKeeps == <<may, job, history, change, edit, held, raced>>

Attempt(c, n) ==
  /\ call' = [call EXCEPT ![c] = [pc |-> "out", attempt |-> n]]
  /\ put' = [put EXCEPT ![c][n].pc = "wire"]

Ended(c) == call[c].pc \in {"done", "failed"}

Deliver(c) ==
  /\ call[c].pc = "idle"
  /\ Attempt(c, 1)
  /\ before' = [before EXCEPT ![c] = {o \in Deliveries : Ended(o)}]
  /\ UNCHANGED <<browserKeeps, text, by, written>>

(* The backoff is over. *)
Retry(c) ==
  /\ call[c].pc = "backoff"
  /\ Attempt(c, call[c].attempt + 1)
  /\ UNCHANGED <<browserKeeps, text, by, written, before>>

(* Mutant: one attempt too many. *)
NextOrFailLate(c) ==
  call' = [call EXCEPT ![c].pc = IF call[c].attempt <= MaxAttempts THEN "backoff" ELSE "failed"]

(* A 5xx, or a 429, is worth another attempt; a 404 is not. *)
Retryable(answer) == answer = "error"

(* After a failure worth retrying. *)
NextOrFail(c) ==
  call' = [call EXCEPT ![c].pc = IF call[c].attempt < MaxAttempts THEN "backoff" ELSE "failed"]

(* The answer to the attempt that is out; one that does not match its schema *)
(* is not asked for again.                                                   *)
Hear(c) ==
  LET answer == put[c][call[c].attempt].pc
  IN /\ call[c].pc = "out"
     /\ \/ answer = "ok" /\ call' = [call EXCEPT ![c].pc = "done"]
        \/ answer = "ok" /\ "contract" \in may /\ call' = [call EXCEPT ![c].pc = "failed"]
        \/ /\ answer \in {"missing", "error"}
           /\ IF Retryable(answer) THEN NextOrFail(c)
              ELSE call' = [call EXCEPT ![c].pc = "failed"]
     /\ UNCHANGED <<browserKeeps, text, by, written, put, before>>

(* The attempt is aborted; it may be anywhere between here and its row. *)
TimeOut(c) ==
  /\ "timeout" \in may
  /\ call[c].pc = "out"
  /\ NextOrFail(c)
  /\ put' = [put EXCEPT ![c][call[c].attempt].givenUp = TRUE]
  /\ UNCHANGED <<browserKeeps, text, by, written, before>>

(* putArtifact as far as assertOwned. *)
CheckPut(c, n) ==
  /\ put[c][n].pc = "wire"
  /\ put' = [put EXCEPT ![c][n].pc = IF Live THEN "checked" ELSE "missing"]
  /\ UNCHANGED <<browserKeeps, text, by, written, call, before>>

(* Mutant: answers without awaiting the upsert. *)
UpsertUnawaited(c, n) ==
  /\ \/ put[c][n].pc = "checked" /\ put' = [put EXCEPT ![c][n].pc = "ok"]
        /\ UNCHANGED <<text, by, written>>
     \/ put[c][n].pc = "ok" /\ Live /\ c[1] \notin written
        /\ text' = c[1] /\ by' = c /\ written' = written \cup {c[1]} /\ put' = put
  /\ UNCHANGED <<browserKeeps, call, before>>

(* The upsert: a deleted job fails its foreign key. *)
Upsert(c, n) ==
  /\ put[c][n].pc = "checked"
  /\ \/ /\ Live
        /\ put' = [put EXCEPT ![c][n].pc = "ok"]
        /\ text' = c[1]
        /\ by' = c
        /\ written' = written \cup {c[1]}
     \/ /\ ~Live \/ "db" \in may
        /\ put' = [put EXCEPT ![c][n].pc = "error"]
        /\ UNCHANGED <<text, by, written>>
  /\ UNCHANGED <<browserKeeps, call, before>>

JobsNext ==
  \/ \E s \in Stages :
       \/ Create(s)
       \/ "changes" \in may /\ \E r \in Changes : CheckStage(r, s)
  \/ \E r \in Changes : InsertEvent(r) \/ MoveStage(r) \/ AbortChange(r)
  \/ \E r \in Edits : \/ "edits" \in may /\ CheckEdit(r, r)
                      \/ Edit(r)
  \/ "removal" \in may /\ Remove
  \/ \E c \in Deliveries : \/ Retry(c) \/ Hear(c) \/ TimeOut(c)
                           \/ \E n \in Attempts : CheckPut(c, n) \/ Upsert(c, n)

-----------------------------------------------------------------------------
JobsTypeOK ==
  /\ may \in Occasions
  /\ job \in [row : {"none", "live", "gone"}, stage : Stages \cup {None}, jd : Texts]
  /\ history \in Seq(Event)
  /\ change \in [Changes -> Change]
  /\ edit \in [Edits -> Update]
  /\ held \subseteq Texts
  /\ text \in Briefs \cup {None}
  /\ by \in Deliveries \cup {None}
  /\ written \subseteq Briefs
  /\ call \in [Deliveries -> Call]
  /\ put \in [Deliveries -> [Attempts -> Put]]
  /\ before \in [Deliveries -> SUBSET Deliveries]
  /\ raced \in BOOLEAN

(* What a reader sees of the history: the events of committed transactions. *)
Timeline ==
  {i \in DOMAIN history : history[i].by = None \/ change[history[i].by].pc = "ok"}

(* "history is never silently skipped": the job's stage is in its timeline, *)
(* and where no two changes overlapped it is the newest entry, and no entry *)
(* repeats the one before.                                                  *)
HistoryTellsStage ==
  Live =>
    /\ \E i \in Timeline : history[i].stage = job.stage
    /\ raced \/
       /\ \A i \in Timeline :
            (\A j \in Timeline : j <= i) => history[i].stage = job.stage
       /\ \A i, k \in Timeline :
            i < k /\ (\A j \in Timeline : j <= i \/ k <= j)
              => history[i].stage # history[k].stage

(* What a delivery has replaced stays replaced: one that had ended when the *)
(* delivery of the present text began puts its own text back only by an     *)
(* attempt that its caller gave up on, for what a call heard an answer to   *)
(* has been written by then.  A task that the worker runs again delivers    *)
(* its older text by a new call: of deliveries that do not overlap the last *)
(* one stands, whichever text is the newer.                                 *)
OldTextOnlyFromStray ==
  [][ \A c \in Deliveries :
        {text, text'} \subseteq Briefs /\ by' = c /\ c \in before[by] =>
          \E n \in Attempts : put[c][n].givenUp /\ put'[c][n] # put[c][n] ]_text
=============================================================================

------------------------------ MODULE TaskStream ------------------------------
(***************************************************************************)
(* How browsers follow one generation task: the worker writes the row and  *)
(* then publishes the new status on Redis, TaskStreamController replays    *)
(* the row to a client and then relays what is published, and useGeneration*)
(* falls back to polling when its stream ends without an outcome.          *)
(*                                                                         *)
(* Only the status of a task is kept: a SUCCEEDED event carries the result *)
(* and a FAILED one the error.  `faults' is chosen once per behaviour.     *)
(***************************************************************************)
EXTENDS Integers, Sequences

CONSTANTS
  Clients,      \* the tabs that follow the task
  MaxAttempts,  \* how often the worker may run the task
  MaxPolls,     \* MAX_POLLS
  FaultModels   \* the sets of faults a behaviour may be exposed to

FaultKinds ==
  { "lostEvent",  \* Redis pub/sub drops an event
    "break",      \* a stream is refused, or its connection breaks
    "leave",      \* a tab navigates away
    "poll",       \* a poll is answered with an error, or not at all
    "rerun",      \* BullMQ runs a task again that had reached its end
    "stranded" }  \* the worker gives a task up without recording an end

ASSUME BoundAssumption == MaxAttempts \in Nat \ {0} /\ MaxPolls \in Nat \ {0}
ASSUME FaultAssumption == FaultModels \subseteq SUBSET FaultKinds

VARIABLES
  faults,   \* what may go wrong in this behaviour; never changes
  status,   \* the status in the task's row
  worker,   \* where the worker stands, and which attempt it makes
  channel,  \* the published events the service's subscriber has yet to get
  stream,   \* [Clients -> the handler of the client's stream request]
  wire,     \* [Clients -> what was written to it and not yet read]
  client    \* [Clients -> where useGeneration stands]

vars == <<faults, status, worker, channel, stream, wire, client>>
task == <<status, worker, channel>>

Terminal == {"SUCCEEDED", "FAILED"}
Status == {"QUEUED", "RUNNING"} \cup Terminal
Outcome == Terminal \cup {"none", "unreachable", "overdue"}

Worker == [pc : {"start", "announceRunning", "work", "announceEnd", "done"},
           made : Nat]
Stream == [pc : {"asked", "read", "open", "ended"}, seen : Status,
           conn : {"up", "cut", "closed"}]
Client == [pc : {"listen", "wait", "answer", "done", "left"}, polls : Nat,
           seen : Status, outcome : Outcome]

Init ==
  /\ faults \in FaultModels
  /\ status = "QUEUED"
  /\ worker = [pc |-> "start", made |-> 0]
  /\ channel = <<>>
  /\ stream = [c \in Clients |-> [pc |-> "asked", seen |-> "QUEUED", conn |-> "up"]]
  /\ wire = [c \in Clients |-> <<>>]
  /\ client = [c \in Clients |-> [pc |-> "listen", polls |-> 0,
                                  seen |-> "QUEUED", outcome |-> "none"]]

-----------------------------------------------------------------------------
(* The worker, as far as a client can see it: each write to the row is     *)
(* followed by a publish, and anything may happen in between.              *)

WorkerGoes(from, to) ==
  /\ worker.pc = from
  /\ worker' = [worker EXCEPT !.pc = to]
  /\ UNCHANGED <<faults, stream, wire, client>>

Write(st) == status' = st /\ UNCHANGED channel
Publish(st) == channel' = Append(channel, st) /\ UNCHANGED status

StartRunning == WorkerGoes("start", "announceRunning") /\ Write("RUNNING")
AnnounceRunning == WorkerGoes("announceRunning", "work") /\ Publish("RUNNING")

(* Mutant: announces the end before it is recorded. *)
EndUnrecorded ==
  \E st \in Terminal :
    \/ WorkerGoes("work", "announceEnd") /\ Publish(st)
    \/ WorkerGoes("announceEnd", "done") /\ Write(st)

RecordEnd == \E st \in Terminal : WorkerGoes("work", "announceEnd") /\ Write(st)
AnnounceEnd == WorkerGoes("announceEnd", "done") /\ Publish(status)

(* A failed attempt leaves the row RUNNING and is made again; with rerun,  *)
(* so is one that ended, before or after it could announce its end.        *)
Retry ==
  /\ worker.made + 1 < MaxAttempts
  /\ \/ worker.pc \in {"announceRunning", "work"}
     \/ "rerun" \in faults /\ worker.pc \in {"announceEnd", "done"}
  /\ worker' = [pc |-> "start", made |-> worker.made + 1]
  /\ UNCHANGED <<faults, status, channel, stream, wire, client>>

Abandon ==
  /\ "stranded" \in faults
  /\ worker.pc \in {"start", "announceRunning", "work"}
  /\ worker' = [worker EXCEPT !.pc = "done"]
  /\ UNCHANGED <<faults, status, channel, stream, wire, client>>

Work ==
  StartRunning \/ AnnounceRunning \/ RecordEnd \/ AnnounceEnd \/ Retry \/ Abandon

-----------------------------------------------------------------------------
(* TaskEventsService: one subscriber hands each event to the listeners that *)
(* are there when it arrives.                                               *)

Subscribed(c) == stream[c].pc = "open"

(* res.write: nothing arrives once the connection is gone. *)
Written(c, st) == IF stream[c].conn = "up" THEN Append(wire[c], st) ELSE wire[c]

EventArrives ==
  /\ channel # <<>>
  /\ channel' = Tail(channel)
  /\ wire' = [c \in Clients |->
                IF Subscribed(c) THEN Written(c, Head(channel)) ELSE wire[c]]
  /\ stream' = [c \in Clients |->
                  IF Subscribed(c) /\ Head(channel) \in Terminal
                  THEN [stream[c] EXCEPT !.pc = "ended"] ELSE stream[c]]
  /\ UNCHANGED <<faults, status, worker, client>>

EventIsLost ==
  /\ "lostEvent" \in faults
  /\ channel # <<>>
  /\ channel' = Tail(channel)
  /\ UNCHANGED <<faults, status, worker, stream, wire, client>>

-----------------------------------------------------------------------------
(* TaskStreamController.stream, for one client. *)

ReadTask(c) ==
  /\ stream[c].pc = "asked"
  /\ stream' = [stream EXCEPT ![c] = [@ EXCEPT !.pc = "read", !.seen = status]]
  /\ UNCHANGED <<faults, task, wire, client>>

(* Replays what was read and ends, or subscribes; only now is the listener *)
(* for the end of the connection in place.                                 *)
OpenStream(c) ==
  /\ stream[c].pc = "read"
  /\ wire' = [wire EXCEPT ![c] = Written(c, stream[c].seen)]
  /\ stream' = [stream EXCEPT ![c].pc =
                  IF stream[c].seen \in Terminal THEN "ended" ELSE "open"]
  /\ UNCHANGED <<faults, task, client>>

(* Mutant: streams may stay open for ever. *)
NeverExpire(c) == FALSE /\ UNCHANGED vars

(* maxLifetime: close(). *)
Expire(c) ==
  /\ Subscribed(c)
  /\ stream' = [stream EXCEPT ![c].pc = "ended"]
  /\ UNCHANGED <<faults, task, wire, client>>

(* The response emits "close", once: close(), if the stream is open by now. *)
CloseEvent(c) ==
  /\ stream[c].conn = "cut"
  /\ stream' = [stream EXCEPT ![c] =
       [@ EXCEPT !.conn = "closed",
                 !.pc = IF Subscribed(c) THEN "ended" ELSE stream[c].pc]]
  /\ UNCHANGED <<faults, task, wire, client>>

-----------------------------------------------------------------------------
(* useGeneration, once the task is created. *)

Following(c) == client[c].pc \in {"listen", "wait", "answer"}

Leaves(c, next, outcome) ==
  client' = [client EXCEPT ![c] = [@ EXCEPT !.pc = next, !.outcome = outcome]]

HangUp(c) ==
  /\ stream' = [stream EXCEPT ![c].conn = "cut"]
  /\ wire' = [wire EXCEPT ![c] = <<>>]

(* One message: a terminal one is the outcome, and the reader is cancelled. *)
Hear(c) ==
  /\ client[c].pc = "listen"
  /\ wire[c] # <<>>
  /\ LET st == Head(wire[c])
     IN \/ st \in Terminal /\ Leaves(c, "done", st) /\ HangUp(c)
        \/ /\ st \notin Terminal
           /\ wire' = [wire EXCEPT ![c] = Tail(@)]
           /\ UNCHANGED <<stream, client>>
  /\ UNCHANGED <<faults, task>>

StreamEnds(c) ==
  /\ client[c].pc = "listen"
  /\ stream[c].pc = "ended" /\ wire[c] = <<>>
  /\ Leaves(c, "wait", "none")
  /\ UNCHANGED <<faults, task, stream, wire>>

StreamBreaks(c) ==
  /\ "break" \in faults
  /\ client[c].pc = "listen"
  /\ Leaves(c, "wait", "none")
  /\ HangUp(c)
  /\ UNCHANGED <<faults, task>>

Poll(c) ==
  /\ client[c].pc = "wait"
  /\ client' = [client EXCEPT ![c] = [@ EXCEPT !.pc = "answer", !.seen = status]]
  /\ UNCHANGED <<faults, task, stream, wire>>

(* Mutants: polls are not counted; the last answer passes for an outcome. *)
AnswerUncounted(c) ==
  /\ client[c].pc = "answer"
  /\ LET st == client[c].seen
     IN Leaves(c, IF st \in Terminal THEN "done" ELSE "wait",
                  IF st \in Terminal THEN st ELSE "none")
  /\ UNCHANGED <<faults, task, stream, wire>>

AnswerAnything(c) ==
  /\ client[c].pc = "answer"
  /\ Leaves(c, "done", client[c].seen)
  /\ UNCHANGED <<faults, task, stream, wire>>

Answer(c) ==
  /\ client[c].pc = "answer"
  /\ LET st == client[c].seen
         polls == client[c].polls + 1
     IN \/ st \in Terminal /\ Leaves(c, "done", st)
        \/ /\ st \notin Terminal /\ polls < MaxPolls
           /\ client' = [client EXCEPT ![c] =
                           [@ EXCEPT !.pc = "wait", !.polls = polls]]
        \/ /\ st \notin Terminal /\ polls = MaxPolls
           /\ Leaves(c, "done", "overdue")
  /\ UNCHANGED <<faults, task, stream, wire>>

PollFails(c) ==
  /\ "poll" \in faults
  /\ client[c].pc = "answer"
  /\ Leaves(c, "done", "unreachable")
  /\ UNCHANGED <<faults, task, stream, wire>>

(* Unmounting cancels the run and aborts its stream. *)
Leave(c) ==
  /\ "leave" \in faults
  /\ Following(c)
  /\ Leaves(c, "left", "none")
  /\ \/ client[c].pc = "listen" /\ HangUp(c)
     \/ client[c].pc # "listen" /\ UNCHANGED <<stream, wire>>
  /\ UNCHANGED <<faults, task>>

-----------------------------------------------------------------------------
Serve(c) == ReadTask(c) \/ OpenStream(c)
Follow(c) == Hear(c) \/ StreamEnds(c) \/ Poll(c) \/ Answer(c)

Next ==
  \/ Work \/ EventArrives \/ EventIsLost
  \/ \E c \in Clients :
       \/ Serve(c) \/ Expire(c) \/ CloseEvent(c)
       \/ Follow(c) \/ StreamBreaks(c) \/ PollFails(c) \/ Leave(c)

Spec == Init /\ [][Next]_vars

(* Handlers and clients run on, timers fire and a closed connection is      *)
(* noticed.  Nothing makes the worker finish, nor the subscriber get events. *)
Fairness ==
  \A c \in Clients :
    WF_vars(Serve(c)) /\ WF_vars(Expire(c)) /\ WF_vars(CloseEvent(c))
    /\ WF_vars(Follow(c))

FairSpec == Spec /\ Fairness

-----------------------------------------------------------------------------
Spared(kinds) == faults \cap kinds = {}

(* Every variable stays in its domain. *)
TypeOK ==
  /\ faults \in FaultModels
  /\ status \in Status
  /\ worker \in Worker
  /\ channel \in Seq(Status)
  /\ stream \in [Clients -> Stream]
  /\ wire \in [Clients -> Seq(Status)]
  /\ client \in [Clients -> Client]

(* The outcome a tab reports is the one the row records, whichever of       *)
(* replay, event and poll brought it, unless the task was run again since.  *)
OutcomeIsRecorded ==
  Spared({"rerun"}) =>
    \A c \in Clients :
      client[c].outcome \in Terminal => status = client[c].outcome

(* Once the task has ended, a tab that still follows it with a poll to      *)
(* spare reports how it ended, although the event may have been lost,       *)
(* published between the read and the subscription, or cut off.             *)
EndIsLearned ==
  \A c \in Clients : \A st \in Terminal :
    (/\ status = st /\ Following(c) /\ client[c].polls + 1 < MaxPolls
     /\ Spared({"rerun", "poll", "leave"})) ~> client[c].outcome = st

(* No tab follows a task for ever, even one the worker never ends.          *)
FollowingEnds == \A c \in Clients : Following(c) ~> ~Following(c)

(* No subscription stays for ever, whether its tab left, lost its stream    *)
(* or missed the event that ends it.                                        *)
SubscriptionsEnd == \A c \in Clients : Subscribed(c) ~> ~Subscribed(c)

(* "The client navigating away or closing the tab must release the          *)
(* subscription and the timers": none is left after the response closed.    *)
ReleasedOnHangUp ==
  \A c \in Clients : stream[c].conn = "closed" => ~Subscribed(c)
=============================================================================

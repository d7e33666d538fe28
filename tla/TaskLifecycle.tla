---------------------------- MODULE TaskLifecycle ----------------------------
(***************************************************************************)
(* What ai-service promises about a generation task, whatever goes on      *)
(* inside: the status a client polls, and whether the owner of the content *)
(* (jobs-service or resume-service) has it.                                *)
(*                                                                         *)
(* Spec is the promise when the infrastructure behaves: statuses only move *)
(* forward, terminal ones are final, and SUCCEEDED comes after delivery.   *)
(* ReplaySpec is what is left of it when a job can be run again, lost or   *)
(* failed behind the service's back: a terminal status may be overwritten  *)
(* by a replay, but SUCCEEDED still comes only after delivery, and nothing *)
(* delivered is ever taken back.                                           *)
(***************************************************************************)
CONSTANT Tasks

VARIABLES
  status,     \* [Tasks -> Status]; "absent" until the row is inserted
  delivered   \* [Tasks -> BOOLEAN]; the content is with its owner

vars == <<status, delivered>>

Terminal == {"SUCCEEDED", "FAILED"}
Status == {"absent", "QUEUED", "RUNNING"} \cup Terminal

Init ==
  /\ status = [t \in Tasks |-> "absent"]
  /\ delivered = [t \in Tasks |-> FALSE]

Move(t, from, to) ==
  /\ status[t] \in from
  /\ status' = [status EXCEPT ![t] = to]
  /\ UNCHANGED delivered

Submit(t) == Move(t, {"absent"}, "QUEUED")
Start(t) == Move(t, {"QUEUED"}, "RUNNING")
Fail(t) == Move(t, {"QUEUED", "RUNNING"}, "FAILED")
Succeed(t) == delivered[t] /\ Move(t, {"RUNNING"}, "SUCCEEDED")

Deliver(t) ==
  /\ status[t] = "RUNNING"
  /\ delivered' = [delivered EXCEPT ![t] = TRUE]
  /\ UNCHANGED status

Step(t) == Start(t) \/ Fail(t) \/ Succeed(t)
Next == \E t \in Tasks : Submit(t) \/ Deliver(t) \/ Step(t)

Spec == Init /\ [][Next]_vars

(* The same promise with progress: a submitted task reaches an end. *)
LiveSpec == Spec /\ \A t \in Tasks : WF_vars(Step(t))

-----------------------------------------------------------------------------
Replay(t, to) == Move(t, Status \ {"absent"}, to)
ReplaySucceed(t) == delivered[t] /\ Replay(t, "SUCCEEDED")
Forget(t) == Move(t, Status, "absent")

ReplayDeliver(t) ==
  /\ delivered' = [delivered EXCEPT ![t] = TRUE]
  /\ UNCHANGED status

ReplayNext ==
  \E t \in Tasks :
    \/ Submit(t)
    \/ Replay(t, "RUNNING")
    \/ Replay(t, "FAILED")
    \/ ReplaySucceed(t)
    \/ ReplayDeliver(t)
    \/ Forget(t)

ReplaySpec == Init /\ [][ReplayNext]_vars
=============================================================================

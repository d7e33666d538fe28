-------------------------- MODULE MCGenerationTasks --------------------------
(* Bounds and fault models for checking GenerationTasks with TLC. *)
EXTENDS GenerationTasks, TLC

CONSTANTS r1, r2, s1, s2

OneTailor == {r1}
OneOfEach == {r1, r2}
TwoSlots == {s1, s2}
SlotSymmetry == Permutations(TwoSlots)

Answers == {"quota", "model", "delivery", "refund"}

(* Everything; everything but overlapping executions; what BullMQ recovers  *)
(* from; failing calls alone, with enqueue's answer reliable or not; and a  *)
(* model that answers, with everything failing that must not cost another   *)
(* call of it.                                                              *)
AllFaults ==
  { FaultKinds,
    FaultKinds \ {"lostLock"},
    Answers \cup {"enqueue", "lostReply", "crash", "wipe"},
    Answers \cup {"enqueue", "lostReply", "publish"},
    {"quota", "model", "delivery", "enqueue"},
    {"quota", "delivery", "refund", "enqueue", "publish", "lostReply", "wipe"} }

(* A process that dies, with the calls before a text is stored failing, or  *)
(* those around it.                                                         *)
Recoverable == { {"model", "enqueue", "crash"}, {"quota", "delivery", "refund", "crash"} }

Reliable ==
  { Answers \cup {"enqueue"},
    Answers \cup {"lostReply"} }

ShutDown == { {"model", "publish"} }
=============================================================================

---------------------------- MODULE MCTaskStream -----------------------------
(* Fault models for checking TaskStream with TLC. *)
EXTENDS TaskStream

CONSTANT c1

OneTab == {c1}

(* Everything; tasks that end once; and tabs that stay and can poll.        *)
AllFaults ==
  { FaultKinds,
    FaultKinds \ {"rerun"},
    {"lostEvent", "break", "stranded"} }

TabsLeave == { {"leave"} }
=============================================================================

---------------------------- MODULE MCWebSession ----------------------------
(* Two accounts, and a page with two requests out. *)
EXTENDS WebSession

CONSTANTS ann, bob, jobs, resume

BothAccounts == {ann, bob}
BothPages == {jobs, resume}
SomeFaults == { {"refused"}, {"network"}, {"otherTab"} }
=============================================================================

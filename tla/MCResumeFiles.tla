---------------------------- MODULE MCResumeFiles ----------------------------
(* An upload, two requests about it and a sign-in, of two users, and the    *)
(* faults they meet.  Users, and requests of one kind, are alike.           *)
EXTENDS ResumeFiles, TLC

CONSTANTS u1, u2, up1, rq1, rq2, in1

BothUsers == {u1, u2}
TheUploads == {up1}
TheRequests == {rq1, rq2}
SignIns == {in1}
AllRequests == TheUploads \cup TheRequests \cup SignIns
SomeFaults ==
  { {"token"}, {"hangUp"}, {"redis"}, {"proxy"}, {"window", "db"},
    {"window", "db", "lostReply"}, {"window", "db", "storage", "crash"} }
Alike == Permutations(BothUsers) \cup Permutations(TheRequests)
=============================================================================

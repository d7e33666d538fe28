-------------------------- MODULE TailoredVersions ---------------------------
(***************************************************************************)
(* resume-service's createTailored, for the requests that append a version *)
(* to one user's tailored resumes of one job.  A request reads the latest  *)
(* version and inserts the next one; between the two other requests, in    *)
(* this process or another replica, may do the same.  The unique index on  *)
(* (userId, jobId, version) is what refuses the second insert.             *)
(***************************************************************************)
EXTENDS Integers, FiniteSets, FiniteSetsExt

CONSTANTS
  Writers,        \* the createTailored requests
  VersionRetries  \* how many times a request tries

ASSUME WriterAssumption == IsFiniteSet(Writers)
ASSUME RetryAssumption == VersionRetries \in Nat \ {0}

VARIABLES
  version,  \* [Writers -> the version of the row a request committed, or 0]
  call      \* [Writers -> where a request stands, and its locals]

vars == <<version, call>>

PC == {"new", "read", "insert", "created", "conflict", "error"}
Call == [pc : PC, latest : Nat, attempt : Nat]

Committed == {w \in Writers : version[w] # 0}
Versions == {version[w] : w \in Committed}

(* findFirst, orderBy version desc: the latest version, 0 if there is none. *)
Latest == Max(Versions \cup {0})

Init ==
  /\ version = [w \in Writers |-> 0]
  /\ call = [w \in Writers |-> [pc |-> "new", latest |-> 0, attempt |-> 0]]

-----------------------------------------------------------------------------
Start(w) ==
  /\ call[w].pc = "new"
  /\ call' = [call EXCEPT ![w] = [@ EXCEPT !.pc = "read"]]
  /\ UNCHANGED version

(* Mutants: no row yet counts as -1; skips ahead after a collision. *)
ReadFromMinusOne(w) ==
  /\ call[w].pc = "read"
  /\ call' = [call EXCEPT ![w] = [@ EXCEPT !.pc = "insert", !.latest = Latest - 1]]
  /\ UNCHANGED version

ReadSkipping(w) ==
  /\ call[w].pc = "read"
  /\ call' = [call EXCEPT ![w] =
       [@ EXCEPT !.pc = "insert", !.latest = Latest + call[w].attempt]]
  /\ UNCHANGED version

Read(w) ==
  /\ call[w].pc = "read"
  /\ call' = [call EXCEPT ![w] = [@ EXCEPT !.pc = "insert", !.latest = Latest]]
  /\ UNCHANGED version

(* Mutants: the unique index is missing; the loop is one try short. *)
InsertUnindexed(w) ==
  /\ call[w].pc = "insert"
  /\ version' = [version EXCEPT ![w] = call[w].latest + 1]
  /\ call' = [call EXCEPT ![w] = [@ EXCEPT !.pc = "created"]]

InsertOneTryShort(w) ==
  LET next == call[w].latest + 1
      tries == call[w].attempt + 1
  IN /\ call[w].pc = "insert"
     /\ \/ next \notin Versions /\ InsertUnindexed(w)
        \/ /\ next \in Versions
           /\ call' = [call EXCEPT ![w] =
                [@ EXCEPT !.attempt = tries,
                          !.pc = IF tries + 1 < VersionRetries
                                 THEN "read" ELSE "conflict"]]
           /\ UNCHANGED version

(* The row commits, or the unique index refuses it and the loop goes on.   *)
Insert(w) ==
  LET next == call[w].latest + 1
      tries == call[w].attempt + 1
  IN /\ call[w].pc = "insert"
     /\ \/ /\ next \notin Versions
           /\ version' = [version EXCEPT ![w] = next]
           /\ call' = [call EXCEPT ![w] = [@ EXCEPT !.pc = "created"]]
        \/ /\ next \in Versions
           /\ call' = [call EXCEPT ![w] =
                [@ EXCEPT !.attempt = tries,
                          !.pc = IF tries < VersionRetries
                                 THEN "read" ELSE "conflict"]]
           /\ UNCHANGED version

(* Any other database error is thrown; an insert may have committed.       *)
Fail(w) ==
  /\ call[w].pc \in {"read", "insert"}
  /\ call' = [call EXCEPT ![w] = [@ EXCEPT !.pc = "error"]]
  /\ \/ UNCHANGED version
     \/ /\ call[w].pc = "insert"
        /\ call[w].latest + 1 \notin Versions
        /\ version' = [version EXCEPT ![w] = call[w].latest + 1]

Next == \E w \in Writers : Start(w) \/ Read(w) \/ Insert(w) \/ Fail(w)

Spec == Init /\ [][Next]_vars

-----------------------------------------------------------------------------
(* Every variable stays in its domain. *)
TypeOK ==
  /\ version \in [Writers -> Nat]
  /\ call \in [Writers -> Call]

(* The versions of a job's tailored resumes are 1, 2, ... n, one row each:  *)
(* none is claimed twice and none is skipped, however requests interleave.  *)
VersionsAreDense ==
  /\ Versions = 1 .. Cardinality(Committed)
  /\ \A u, w \in Committed : version[u] = version[w] => u = w

(* A row that commits is the newest: the list, newest version first, never  *)
(* shows a later tailoring below an earlier one.                            *)
CommitsNewest ==
  [][\A w \in Writers :
       version'[w] # version[w] => \A u \in Committed : version[u] < version'[w]]_vars

(* A request gives up with CONFLICT only after VersionRetries other rows    *)
(* were committed: with at most that many concurrent requests none does.    *)
ConflictNeedsRivals ==
  \A w \in Writers :
    call[w].pc = "conflict" => Cardinality(Committed \ {w}) >= VersionRetries
=============================================================================

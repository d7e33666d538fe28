----------------------- MODULE TailoredVersionsProofs ------------------------
(***************************************************************************)
(* Proofs about TailoredVersions for any finite set of requests and any    *)
(* number of retries.                                                      *)
(***************************************************************************)
EXTENDS TailoredVersions, FiniteSetTheorems, TLAPS

(* What a request has read, and how often it lost, never exceeds the number *)
(* of committed rows; and only a request that ended may own one of them.    *)
Progress ==
  \A w \in Writers :
    /\ call[w].pc \in {"new", "read", "insert", "conflict"} => version[w] = 0
    /\ call[w].attempt <= Cardinality(Committed)
    /\ call[w].pc = "insert" =>
         call[w].attempt <= call[w].latest /\ call[w].latest <= Cardinality(Committed)
    /\ call[w].pc = "conflict" => call[w].attempt >= VersionRetries

VersionInv == TypeOK /\ VersionsAreDense /\ Progress

(* The number of committed rows is a natural number. *)
LEMMA CommittedFinite ==
  IsFiniteSet(Committed) /\ Cardinality(Committed) \in Nat
<1>1. IsFiniteSet(Committed)
  BY WriterAssumption, FS_Subset DEF Committed
<1> QED
  BY <1>1, FS_CardinalityType

(* With dense versions the latest one is the number of rows. *)
LEMMA LatestIsCount ==
  ASSUME VersionsAreDense
  PROVE  Latest = Cardinality(Committed)
<1> DEFINE n == Cardinality(Committed)
<1>1. n \in Nat
  BY CommittedFinite
<1>2. Versions \cup {0} = 0 .. n
  BY <1>1 DEF VersionsAreDense
<1>3. n \in 0 .. n /\ \A y \in 0 .. n : n >= y
  BY <1>1
<1>4. \A x \in 0 .. n : (\A y \in 0 .. n : x >= y) => x = n
  BY <1>1
<1> QED
  BY <1>2, <1>3, <1>4 DEF Latest, Max

(* A row committed by w adds one row and the next version. *)
LEMMA CommitAdds ==
  ASSUME VersionInv, NEW w \in Writers, call[w].pc = "insert",
         call[w].latest + 1 \notin Versions,
         version' = [version EXCEPT ![w] = call[w].latest + 1]
  PROVE  /\ call[w].latest = Cardinality(Committed)
         /\ Committed' = Committed \cup {w}
         /\ w \notin Committed
         /\ Cardinality(Committed') = Cardinality(Committed) + 1
         /\ VersionsAreDense'
<1> DEFINE n == Cardinality(Committed)
<1>1. n \in Nat /\ IsFiniteSet(Committed)
  BY CommittedFinite
<1>2. call[w].latest \in Nat /\ call[w].latest <= n /\ version[w] = 0
  BY DEF VersionInv, TypeOK, Call, Progress
<1>3. call[w].latest = n
  <2>1. Versions = 1 .. n
    BY DEF VersionInv, VersionsAreDense
  <2> QED
    BY <1>1, <1>2, <2>1
<1>4. w \notin Committed
  BY <1>2 DEF Committed
<1>5. version' = [version EXCEPT ![w] = n + 1] /\ version \in [Writers -> Nat]
  BY <1>3 DEF VersionInv, TypeOK
<1>6. Committed' = Committed \cup {w}
  BY <1>1, <1>5 DEF Committed
<1>7. Cardinality(Committed') = n + 1
  BY <1>1, <1>4, <1>6, FS_AddElement
<1>8. Versions' = Versions \cup {n + 1}
  BY <1>4, <1>5, <1>6 DEF Versions, Committed
<1>9. Versions' = 1 .. Cardinality(Committed')
  <2>1. Versions = 1 .. n
    BY DEF VersionInv, VersionsAreDense
  <2> QED
    BY <1>1, <1>7, <1>8, <2>1
<1>10. \A u, x \in Committed' : version'[u] = version'[x] => u = x
  <2>1. \A u \in Committed : version[u] \in 1 .. n
    BY DEF VersionInv, VersionsAreDense, Versions
  <2>2. \A u \in Committed : version'[u] = version[u] /\ version'[u] # n + 1
    BY <1>1, <1>4, <1>5, <2>1 DEF Committed
  <2>3. version'[w] = n + 1
    BY <1>5
  <2> QED
    BY <1>6, <2>2, <2>3 DEF VersionInv, VersionsAreDense
<1> QED
  BY <1>3, <1>4, <1>6, <1>7, <1>9, <1>10 DEF VersionsAreDense

-----------------------------------------------------------------------------
LEMMA VersionInit == Init => VersionInv
<1> SUFFICES ASSUME Init
             PROVE  VersionInv
  OBVIOUS
<1>1. TypeOK
  BY DEF Init, TypeOK, Call, PC
<1>2. Committed = {} /\ Versions = {}
  BY DEF Init, Committed, Versions
<1>3. Cardinality(Committed) = 0
  BY <1>2, FS_EmptySet
<1>4. VersionsAreDense
  BY <1>2, <1>3 DEF VersionsAreDense
<1>5. Progress
  BY <1>3 DEF Init, Progress
<1> QED
  BY <1>1, <1>4, <1>5 DEF VersionInv

(* A step that commits nothing keeps the rows, so only the caller's locals   *)
(* are left to check.                                                       *)
LEMMA NothingCommitted ==
  ASSUME VersionInv, UNCHANGED version, NEW w \in Writers, NEW c \in Call,
         call' = [call EXCEPT ![w] = c],
         c.pc \in {"read", "insert", "conflict"} => version[w] = 0,
         c.attempt <= Cardinality(Committed),
         c.pc = "insert" => c.attempt <= c.latest /\ c.latest <= Cardinality(Committed),
         c.pc = "conflict" => c.attempt >= VersionRetries, c.pc # "new"
  PROVE  VersionInv'
<1>1. Committed' = Committed /\ Versions' = Versions
  BY DEF Committed, Versions
<1>2. TypeOK'
  BY DEF VersionInv, TypeOK
<1>3. VersionsAreDense'
  BY <1>1 DEF VersionInv, VersionsAreDense
<1>4. Progress'
  BY <1>1 DEF VersionInv, TypeOK, Progress
<1> QED
  BY <1>2, <1>3, <1>4 DEF VersionInv

(* A step that commits w's row ends w's request. *)
LEMMA RowCommitted ==
  ASSUME VersionInv, NEW w \in Writers, call[w].pc = "insert",
         call[w].latest + 1 \notin Versions,
         version' = [version EXCEPT ![w] = call[w].latest + 1],
         NEW end \in {"created", "error"},
         call' = [call EXCEPT ![w] = [@ EXCEPT !.pc = end]]
  PROVE  VersionInv'
<1>1. /\ VersionsAreDense'
      /\ Cardinality(Committed') = Cardinality(Committed) + 1
      /\ Cardinality(Committed) \in Nat
  BY CommitAdds, CommittedFinite
<1>2. TypeOK'
  BY DEF VersionInv, TypeOK, Call, PC
<1>3. Progress'
  <2> SUFFICES ASSUME NEW u \in Writers
               PROVE  /\ call'[u].pc \in {"new", "read", "insert", "conflict"} => version'[u] = 0
                      /\ call'[u].attempt <= Cardinality(Committed')
                      /\ call'[u].pc = "insert" =>
                           /\ call'[u].attempt <= call'[u].latest
                           /\ call'[u].latest <= Cardinality(Committed')
                      /\ call'[u].pc = "conflict" => call'[u].attempt >= VersionRetries
    BY DEF Progress
  <2>1. call[u].attempt \in Nat /\ call[u].latest \in Nat
    BY DEF VersionInv, TypeOK, Call
  <2>2. CASE u # w
    BY <1>1, <2>1, <2>2 DEF VersionInv, TypeOK, Progress
  <2>3. CASE u = w
    <3>1. call'[w].pc = end /\ call'[w].attempt = call[w].attempt
      BY DEF VersionInv, TypeOK, Call
    <3> QED
      BY <1>1, <2>1, <2>3, <3>1 DEF VersionInv, Progress
  <2> QED
    BY <2>2, <2>3
<1> QED
  BY <1>1, <1>2, <1>3 DEF VersionInv

LEMMA VersionStep == VersionInv /\ [Next]_vars => VersionInv'
<1> SUFFICES ASSUME VersionInv, [Next]_vars
             PROVE  VersionInv'
  OBVIOUS
<1>1. CASE UNCHANGED vars
  BY <1>1 DEF vars, VersionInv, TypeOK, VersionsAreDense, Progress, Committed, Versions
<1>2. ASSUME NEW w \in Writers, Next,
             Start(w) \/ Read(w) \/ Insert(w) \/ Fail(w)
      PROVE  VersionInv'
  <2> DEFINE n == Cardinality(Committed)
  <2>1. n \in Nat /\ Latest = n
    BY CommittedFinite, LatestIsCount DEF VersionInv
  <2>2. /\ call[w] \in Call /\ call[w].attempt <= n
        /\ call[w].attempt \in Nat /\ call[w].latest \in Nat
    BY DEF VersionInv, TypeOK, Progress, Call
  <2>3. CASE Start(w)
    <3>1. [call[w] EXCEPT !.pc = "read"] \in Call /\ version[w] = 0
      BY <2>2, <2>3 DEF Start, Call, PC, VersionInv, Progress
    <3> QED
      BY <2>2, <2>3, <3>1, NothingCommitted DEF Start, Call
  <2>4. CASE Read(w)
    <3> DEFINE c == [call[w] EXCEPT !.pc = "insert", !.latest = n]
    <3>1. /\ c \in Call /\ version[w] = 0
          /\ c.pc = "insert" /\ c.latest = n /\ c.attempt = call[w].attempt
      BY <2>1, <2>2, <2>4 DEF Read, Call, PC, VersionInv, Progress
    <3>2. call' = [call EXCEPT ![w] = c] /\ UNCHANGED version
      BY <2>1, <2>4 DEF Read
    <3>3. c.attempt <= n /\ c.latest <= n /\ c.attempt <= c.latest
      BY <2>1, <2>2, <3>1
    <3>4. c.pc # "conflict" /\ c.pc # "new"
      BY <3>1
    <3> HIDE DEF c
    <3> QED
      BY <3>1, <3>2, <3>3, <3>4, NothingCommitted
  <2>5. CASE Fail(w)
    <3>1. CASE UNCHANGED version
      <4>1. [call[w] EXCEPT !.pc = "error"] \in Call
        BY <2>2 DEF Call, PC
      <4> QED
        BY <2>2, <2>5, <3>1, <4>1, NothingCommitted DEF Fail, Call
    <3>2. CASE ~UNCHANGED version
      BY <2>5, <3>2, RowCommitted DEF Fail
    <3> QED
      BY <3>1, <3>2
  <2>6. CASE Insert(w) /\ call[w].latest + 1 \notin Versions
    BY <2>6, RowCommitted DEF Insert
  <2>7. CASE Insert(w) /\ call[w].latest + 1 \in Versions
    <3> DEFINE tries == call[w].attempt + 1
               pc == IF tries < VersionRetries THEN "read" ELSE "conflict"
               c == [call[w] EXCEPT !.attempt = tries, !.pc = pc]
    <3>1. call[w].latest + 1 \in 1 .. n
      BY <2>7 DEF VersionInv, VersionsAreDense
    <3>2. call[w].attempt <= call[w].latest /\ version[w] = 0
      BY <2>7 DEF Insert, VersionInv, Progress
    <3>3. tries <= n /\ tries \in Nat
      BY <2>1, <2>2, <3>1, <3>2
    <3>4. c \in Call /\ c.attempt = tries /\ c.pc = pc
      BY <2>2, <3>3 DEF Call, PC
    <3>5. call' = [call EXCEPT ![w] = c] /\ UNCHANGED version
      BY <2>7 DEF Insert
    <3>6. c.pc = "conflict" => c.attempt >= VersionRetries
      BY <3>3, <3>4, RetryAssumption
    <3>7. c.pc # "new" /\ c.pc # "insert"
      BY <3>4
    <3> QED
      BY <3>2, <3>3, <3>4, <3>5, <3>6, <3>7, NothingCommitted
  <2> QED
    BY <1>2, <2>3, <2>4, <2>5, <2>6, <2>7
<1> QED
  BY <1>1, <1>2 DEF Next

-----------------------------------------------------------------------------
(* createTailored's rows and locals stay in their domains.                  *)
THEOREM VersionsTypeOK == Spec => []TypeOK
<1>1. VersionInv => TypeOK
  BY DEF VersionInv
<1> QED
  BY VersionInit, VersionStep, <1>1, PTL DEF Spec

(* The versions of a job's tailored resumes are 1 .. n, one row each, for   *)
(* any number of concurrent requests.                                       *)
THEOREM VersionsStayDense == Spec => []VersionsAreDense
<1>1. VersionInv => VersionsAreDense
  BY DEF VersionInv
<1> QED
  BY VersionInit, VersionStep, <1>1, PTL DEF Spec

(* CONFLICT is answered only after VersionRetries rows of other requests:   *)
(* so never with at most that many requests at work, whatever the number.   *)
THEOREM ConflictOnlyAmongRivals == Spec => []ConflictNeedsRivals
<1>1. VersionInv => ConflictNeedsRivals
  <2> SUFFICES ASSUME VersionInv, NEW w \in Writers, call[w].pc = "conflict"
               PROVE  Cardinality(Committed \ {w}) >= VersionRetries
    BY DEF ConflictNeedsRivals
  <2>1. w \notin Committed
    BY DEF VersionInv, Progress, Committed
  <2>2. Committed \ {w} = Committed
    BY <2>1
  <2>3. call[w].attempt \in Nat
    BY DEF VersionInv, TypeOK, Call
  <2> QED
    BY <2>2, <2>3, CommittedFinite, RetryAssumption DEF VersionInv, Progress
<1> QED
  BY VersionInit, VersionStep, <1>1, PTL DEF Spec

(* Every row that commits is newer than all rows before it. *)
THEOREM NewestIsLast == Spec => CommitsNewest
<1>1. ASSUME VersionInv, [Next]_vars, NEW w \in Writers, version'[w] # version[w],
             NEW u \in Committed
      PROVE  version[u] < version'[w]
  <2>1. /\ call[w].pc = "insert"
        /\ call[w].latest + 1 \notin Versions
        /\ version' = [version EXCEPT ![w] = call[w].latest + 1]
    BY <1>1 DEF Next, vars, Start, Read, Insert, Fail, VersionInv, TypeOK
  <2>2. call[w].latest = Cardinality(Committed) /\ Cardinality(Committed) \in Nat
    BY <1>1, <2>1, CommitAdds, CommittedFinite
  <2>3. version'[w] = Cardinality(Committed) + 1
    BY <1>1, <2>1, <2>2 DEF VersionInv, TypeOK
  <2>4. version[u] \in 1 .. Cardinality(Committed)
    BY <1>1 DEF VersionInv, VersionsAreDense, Versions
  <2> QED
    BY <2>2, <2>3, <2>4
<1>2. VersionInv /\ [Next]_vars =>
        [\A w \in Writers :
           version'[w] # version[w] =>
             \A u \in Committed : version[u] < version'[w]]_vars
  BY <1>1
<1> QED
  BY VersionInit, VersionStep, <1>2, PTL DEF Spec, CommitsNewest
=============================================================================

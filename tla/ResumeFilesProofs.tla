-------------------------- MODULE ResumeFilesProofs --------------------------
(***************************************************************************)
(* Proofs about Gateway and ResumeFiles for any finite set of requests,    *)
(* any users, limits and windows, and every set of faults.  The invariants *)
(* are stated of tables given as arguments, so that the lemmas compare two *)
(* tables as constants.                                                    *)
(***************************************************************************)
EXTENDS ResumeFiles, FiniteSetTheorems, TLAPS

(* The gateway's own invariant.  A response is counted until it has        *)
(* finished, or has closed before its end.                                 *)
Counts(x) == x.pc = "ended" \/ (x.open /\ x.pc \notin {"new", "finished"})
CountedIn(e) == {r \in Requests : Counts(e[r])}

IdOf(x, r) == IF IsPublic(r) \/ x.userId = Nobody THEN TheIp ELSE x.userId
MeteredIn(e, i, w, g) ==
  {r \in Requests : e[r].gate = g /\ e[r].bucket = w /\ IdOf(e[r], r) = i}
Limit(i) == IF i = TheIp THEN AuthLimit ELSE ApiLimit

(* Where a request stands tells whom it names and whether it was metered.  *)
ExchangeOK(x, r) ==
  /\ x.pc = "new" => x.open
  /\ x.pc = "dropped" => ~x.open
  /\ x.pc \in {"new", "verify", "limit"} => x.gate = "none"
  /\ x.pc = "verify" => ~IsPublic(r)
  /\ x.pc \in {"limit", "upstream"} \/ x.gate # "none" =>
       IF IsPublic(r) THEN x.userId = Nobody ELSE x.token \in Users /\ x.userId = x.token

(* The limiter's counter k of an identity and a window counts at least the *)
(* requests it admitted, and while Redis answers no others up to the limit.*)
BucketOK(fs, k, e, i, w) ==
  LET n == Cardinality(MeteredIn(e, i, w, "counted"))
  IN /\ n <= k /\ n <= Limit(i)
     /\ "redis" \notin fs =>
          /\ n = k \/ n = Limit(i)
          /\ MeteredIn(e, i, w, "refused") # {} => n = Limit(i)

GateGood(fs, u, n, e) ==
  /\ u \in [Identities -> [Windows -> Nat]]
  /\ e \in [Requests -> Exchange]
  /\ n = Cardinality(CountedIn(e))
  /\ \A r \in Requests : ExchangeOK(e[r], r)
  /\ \A i \in Identities, w \in Windows : BucketOK(fs, u[i][w], e, i, w)

GateInv ==
  /\ faults \in FaultModels
  /\ window \in Windows
  /\ GateGood(faults, used, inFlight, exchange)

-----------------------------------------------------------------------------
LEMMA GateFinite ==
  ASSUME NEW e
  PROVE  /\ IsFiniteSet(CountedIn(e)) /\ Cardinality(CountedIn(e)) \in Nat
         /\ \A i, w, g : /\ IsFiniteSet(MeteredIn(e, i, w, g))
                         /\ Cardinality(MeteredIn(e, i, w, g)) \in Nat
<1>1. CountedIn(e) \subseteq Requests /\ \A i, w, g : MeteredIn(e, i, w, g) \subseteq Requests
  BY DEF CountedIn, MeteredIn
<1>2. IsFiniteSet(CountedIn(e)) /\ \A i, w, g : IsFiniteSet(MeteredIn(e, i, w, g))
  BY <1>1, RequestAssumption, FS_Subset
<1> QED
  BY <1>2, FS_CardinalityType

LEMMA Limits == \A i : Limit(i) \in Nat
BY LimitAssumption DEF Limit

(* What a step from x to y on one request makes of the gauge n. *)
Gauge(x, y, n) ==
  IF Counts(y) = Counts(x) THEN n ELSE IF Counts(y) THEN n + 1 ELSE n - 1

LEMMA GaugeStep ==
  ASSUME NEW e \in [Requests -> Exchange], NEW r \in Requests, NEW x,
         NEW e2, e2 = [e EXCEPT ![r] = x]
  PROVE  Cardinality(CountedIn(e2)) = Gauge(e[r], x, Cardinality(CountedIn(e)))
<1>1. e2[r] = x /\ \A v \in Requests : v # r => e2[v] = e[v]
  OBVIOUS
<1>2. Cardinality(CountedIn(e)) \in Nat /\ IsFiniteSet(CountedIn(e))
  BY GateFinite
<1>3. CASE Counts(x) = Counts(e[r])
  <2>1. CountedIn(e2) = CountedIn(e)
    BY <1>1, <1>3 DEF CountedIn
  <2> QED
    BY <1>3, <2>1 DEF Gauge
<1>4. CASE Counts(x) # Counts(e[r]) /\ Counts(x)
  <2>1. CountedIn(e2) = CountedIn(e) \cup {r} /\ r \notin CountedIn(e)
    BY <1>1, <1>4 DEF CountedIn, Counts
  <2>2. Cardinality(CountedIn(e2)) = Cardinality(CountedIn(e)) + 1
    BY <1>2, <2>1, FS_AddElement
  <2> QED
    BY <1>4, <2>2 DEF Gauge
<1>5. CASE Counts(x) # Counts(e[r]) /\ ~Counts(x)
  <2>1. CountedIn(e2) = CountedIn(e) \ {r} /\ r \in CountedIn(e)
    BY <1>1, <1>5 DEF CountedIn, Counts
  <2>2. Cardinality(CountedIn(e2)) = Cardinality(CountedIn(e)) - 1
    BY <1>2, <2>1, FS_RemoveElement
  <2> QED
    BY <1>5, <2>2 DEF Gauge
<1> QED
  BY <1>3, <1>4, <1>5

(* A step that leaves a request's metering alone. *)
LEMMA PlainStep ==
  ASSUME NEW fs, NEW u, NEW n, NEW e, GateGood(fs, u, n, e),
         NEW r \in Requests, NEW x \in Exchange, ExchangeOK(x, r),
         x.gate = e[r].gate,
         x.gate = "none" \/ (x.userId = e[r].userId /\ x.bucket = e[r].bucket),
         NEW e2, e2 = [e EXCEPT ![r] = x], NEW n2, n2 = Cardinality(CountedIn(e2))
  PROVE  GateGood(fs, u, n2, e2)
<1>1. /\ e \in [Requests -> Exchange]
      /\ u \in [Identities -> [Windows -> Nat]]
      /\ \A v \in Requests : ExchangeOK(e[v], v)
      /\ \A i \in Identities, w \in Windows : BucketOK(fs, u[i][w], e, i, w)
  BY DEF GateGood
<1>2. /\ e2 \in [Requests -> Exchange]
      /\ e2[r] = x /\ \A v \in Requests : v # r => e2[v] = e[v]
  BY <1>1
<1>4. \A v \in Requests : ExchangeOK(e2[v], v)
  BY <1>1, <1>2
<1>5. ASSUME NEW i, NEW w, NEW g \in {"counted", "refused"}
      PROVE  MeteredIn(e2, i, w, g) = MeteredIn(e, i, w, g)
  <2>1. x.gate = g => IdOf(x, r) = IdOf(e[r], r) /\ x.bucket = e[r].bucket
    BY DEF IdOf
  <2>2. \A v \in Requests :
          (e2[v].gate = g /\ e2[v].bucket = w /\ IdOf(e2[v], v) = i)
            <=> (e[v].gate = g /\ e[v].bucket = w /\ IdOf(e[v], v) = i)
    BY <1>2, <2>1
  <2> QED
    BY <2>2 DEF MeteredIn
<1>6. \A i \in Identities, w \in Windows : BucketOK(fs, u[i][w], e2, i, w)
  BY <1>1, <1>5 DEF BucketOK
<1> QED
  BY <1>1, <1>2, <1>4, <1>6 DEF GateGood

(* One more request let through. *)
LEMMA BucketCounts ==
  ASSUME NEW fs, NEW k0 \in Nat, NEW e, NEW i, NEW w, BucketOK(fs, k0, e, i, w),
         NEW k, k = k0 + 1, k <= Limit(i), NEW e2,
         NEW r, r \notin MeteredIn(e, i, w, "counted"),
         MeteredIn(e2, i, w, "counted") = MeteredIn(e, i, w, "counted") \cup {r},
         MeteredIn(e2, i, w, "refused") = MeteredIn(e, i, w, "refused")
  PROVE  BucketOK(fs, k, e2, i, w)
<1>1. PICK n \in Nat : n = Cardinality(MeteredIn(e, i, w, "counted"))
  BY GateFinite
<1>2. PICK limit \in Nat : limit = Limit(i)
  BY Limits
<1>3. n <= k0 /\ n <= limit /\ n + 1 <= k /\ n + 1 <= limit
  BY <1>1, <1>2 DEF BucketOK
<1>4. "redis" \notin fs =>
        /\ n = k0 \/ n = limit
        /\ MeteredIn(e, i, w, "refused") # {} => n = limit
  BY <1>1, <1>2 DEF BucketOK
<1>5. Cardinality(MeteredIn(e2, i, w, "counted")) = n + 1
  BY <1>1, GateFinite, FS_AddElement
<1> QED
  BY <1>1, <1>2, <1>3, <1>4, <1>5 DEF BucketOK

(* A step of the limiter: the counter of a request's identity and window   *)
(* goes to k, and the request is let through, refused, or not counted.     *)
LEMMA MeterStep ==
  ASSUME NEW fs, NEW u, NEW n, NEW e, GateGood(fs, u, n, e),
         NEW r \in Requests, NEW x \in Exchange, ExchangeOK(x, r),
         e[r].gate = "none", Counts(x) = Counts(e[r]),
         NEW i \in Identities, i = IdOf(x, r), NEW w \in Windows, w = x.bucket,
         NEW k \in Nat, k >= u[i][w],
         \/ x.gate = "counted" /\ k = u[i][w] + 1 /\ k <= Limit(i)
         \/ x.gate = "refused" /\ k = u[i][w] + 1 /\ k > Limit(i)
         \/ x.gate = "unmetered" /\ "redis" \in fs,
         NEW e2, e2 = [e EXCEPT ![r] = x], NEW u2, u2 = [u EXCEPT ![i][w] = k]
  PROVE  GateGood(fs, u2, n, e2)
<1>1. /\ e \in [Requests -> Exchange] /\ n = Cardinality(CountedIn(e))
      /\ u \in [Identities -> [Windows -> Nat]]
      /\ \A v \in Requests : ExchangeOK(e[v], v)
      /\ \A j \in Identities, v \in Windows : BucketOK(fs, u[j][v], e, j, v)
  BY DEF GateGood
<1>2. /\ e2 \in [Requests -> Exchange]
      /\ e2[r] = x /\ \A v \in Requests : v # r => e2[v] = e[v]
  BY <1>1
<1>3. n = Cardinality(CountedIn(e2))
  <2>1. Cardinality(CountedIn(e2)) = Gauge(e[r], x, n)
    BY <1>1, GaugeStep
  <2> QED
    BY <2>1 DEF Gauge
<1>4. \A v \in Requests : ExchangeOK(e2[v], v)
  BY <1>1, <1>2
<1>5. /\ u2 \in [Identities -> [Windows -> Nat]]
      /\ \A j \in Identities, v \in Windows :
           u2[j][v] = IF j = i /\ v = w THEN k ELSE u[j][v]
  <2>1. [u[i] EXCEPT ![w] = k] \in [Windows -> Nat]
    BY <1>1
  <2>2. u2 = [u EXCEPT ![i] = [u[i] EXCEPT ![w] = k]]
    OBVIOUS
  <2> QED
    BY <1>1, <2>1, <2>2
<1>6. ASSUME NEW j \in Identities, NEW v \in Windows
      PROVE  BucketOK(fs, u2[j][v], e2, j, v)
  <2>1. BucketOK(fs, u[j][v], e, j, v)
    BY <1>1
  <2>2. CASE j # i \/ v # w
    <3>1. \A g \in {"counted", "refused"} : MeteredIn(e2, j, v, g) = MeteredIn(e, j, v, g)
      BY <1>2, <2>2 DEF MeteredIn
    <3> QED
      BY <1>5, <2>1, <2>2, <3>1 DEF BucketOK
  <2>3. CASE j = i /\ v = w
    <3>1. \A g \in {"counted", "refused"} :
            /\ MeteredIn(e2, i, w, g) =
                 IF g = x.gate THEN MeteredIn(e, i, w, g) \cup {r} ELSE MeteredIn(e, i, w, g)
            /\ r \notin MeteredIn(e, i, w, g)
      BY <1>2 DEF MeteredIn
    <3>3. /\ Cardinality(MeteredIn(e, i, w, "counted")) \in Nat
          /\ u[i][w] \in Nat /\ Limit(i) \in Nat /\ u2[i][w] = k
      BY <1>1, <1>5, GateFinite, Limits
    <3>6. BucketOK(fs, u[i][w], e, i, w)
      BY <2>1, <2>3
    <3>4. BucketOK(fs, k, e2, i, w)
      <4>1. CASE x.gate = "counted"
        <5>1. k = u[i][w] + 1 /\ k <= Limit(i)
          BY <4>1
        <5>2. /\ MeteredIn(e2, i, w, "counted") = MeteredIn(e, i, w, "counted") \cup {r}
              /\ MeteredIn(e2, i, w, "refused") = MeteredIn(e, i, w, "refused")
              /\ r \notin MeteredIn(e, i, w, "counted")
          BY <3>1, <4>1
        <5> QED
          BY <3>3, <3>6, <5>1, <5>2, BucketCounts
      <4>2. CASE x.gate = "refused"
        BY <3>1, <3>3, <3>6, <4>2 DEF BucketOK
      <4>3. CASE x.gate = "unmetered"
        BY <3>1, <3>3, <3>6, <4>3 DEF BucketOK
      <4> QED
        BY <4>1, <4>2, <4>3
    <3> QED
      BY <2>3, <3>3, <3>4
  <2> QED
    BY <2>2, <2>3
<1> QED
  BY <1>2, <1>3, <1>4, <1>5, <1>6 DEF GateGood

-----------------------------------------------------------------------------
(* One field of a record is written at a time. *)
LEMMA WithPc ==
  ASSUME NEW x \in Exchange,
         NEW pc \in {"new", "verify", "limit", "upstream", "ended", "finished", "dropped"},
         NEW y, y = [x EXCEPT !.pc = pc]
  PROVE  /\ y \in Exchange /\ y.pc = pc
         /\ y.token = x.token /\ y.userId = x.userId /\ y.bucket = x.bucket
         /\ y.gate = x.gate /\ y.open = x.open
BY DEF Exchange

LEMMA WithToken ==
  ASSUME NEW x \in Exchange, NEW token \in Tokens,
         NEW y, y = [x EXCEPT !.token = token]
  PROVE  /\ y \in Exchange /\ y.token = token
         /\ y.userId = x.userId /\ y.bucket = x.bucket /\ y.gate = x.gate
         /\ y.pc = x.pc /\ y.open = x.open
BY DEF Exchange

LEMMA WithUserId ==
  ASSUME NEW x \in Exchange, NEW u \in Users \cup {Nobody},
         NEW y, y = [x EXCEPT !.userId = u]
  PROVE  /\ y \in Exchange /\ y.userId = u
         /\ y.token = x.token /\ y.bucket = x.bucket /\ y.gate = x.gate
         /\ y.pc = x.pc /\ y.open = x.open
BY DEF Exchange

LEMMA WithBucket ==
  ASSUME NEW x \in Exchange, NEW w \in Windows,
         NEW y, y = [x EXCEPT !.bucket = w]
  PROVE  /\ y \in Exchange /\ y.bucket = w
         /\ y.token = x.token /\ y.userId = x.userId /\ y.gate = x.gate
         /\ y.pc = x.pc /\ y.open = x.open
BY DEF Exchange

LEMMA WithGate ==
  ASSUME NEW x \in Exchange, NEW gate \in {"counted", "refused", "unmetered"},
         NEW y, y = [x EXCEPT !.gate = gate]
  PROVE  /\ y \in Exchange /\ y.gate = gate
         /\ y.token = x.token /\ y.userId = x.userId /\ y.bucket = x.bucket
         /\ y.pc = x.pc /\ y.open = x.open
BY DEF Exchange

LEMMA WithOpen ==
  ASSUME NEW x \in Exchange, NEW b \in BOOLEAN,
         NEW y, y = [x EXCEPT !.open = b]
  PROVE  /\ y \in Exchange /\ y.open = b
         /\ y.token = x.token /\ y.userId = x.userId /\ y.bucket = x.bucket
         /\ y.gate = x.gate /\ y.pc = x.pc
BY DEF Exchange

LEMMA WithStatus ==
  ASSUME NEW x \in Exchange,
         NEW st \in {0, 200, 201, 204, 400, 401, 404, 429, 500, 502},
         NEW y, y = [x EXCEPT !.status = st]
  PROVE  /\ y \in Exchange /\ y.pc = x.pc
         /\ y.token = x.token /\ y.userId = x.userId /\ y.bucket = x.bucket
         /\ y.gate = x.gate /\ y.open = x.open
BY DEF Exchange

(* The records the helpers of Gateway make. *)
LEMMA EndedType ==
  ASSUME NEW x \in Exchange, NEW st \in {0, 200, 201, 204, 400, 401, 404, 429, 500, 502},
         NEW y, y = Ended(x, st)
  PROVE  /\ y \in Exchange /\ y.pc = IF x.open THEN "ended" ELSE "dropped"
         /\ y.token = x.token /\ y.userId = x.userId /\ y.bucket = x.bucket
         /\ y.gate = x.gate /\ y.open = x.open
<1> DEFINE pc == IF x.open THEN "ended" ELSE "dropped"
<1>1. pc \in {"ended", "dropped"} /\ pc = IF x.open THEN "ended" ELSE "dropped"
  OBVIOUS
<1> DEFINE z == [x EXCEPT !.pc = pc]
<1>3. y = [z EXCEPT !.status = st]
  BY DEF Ended
<1> HIDE DEF pc
<1>4. /\ z \in Exchange /\ z.pc = pc
      /\ z.token = x.token /\ z.userId = x.userId /\ z.bucket = x.bucket
      /\ z.gate = x.gate /\ z.open = x.open
  BY <1>1, WithPc
<1> HIDE DEF z
<1> QED
  BY <1>1, <1>3, <1>4, WithStatus

LEMMA MeteredType ==
  ASSUME window \in Windows, NEW x \in Exchange, NEW y, y = Metered(x)
  PROVE  /\ y \in Exchange /\ y.pc = "limit" /\ y.bucket = window
         /\ y.token = x.token /\ y.userId = x.userId
         /\ y.gate = x.gate /\ y.open = x.open
<1>1. PICK z : z = [x EXCEPT !.pc = "limit"]
  OBVIOUS
<1>2. y = [z EXCEPT !.bucket = window]
  BY <1>1 DEF Metered
<1>3. /\ z \in Exchange /\ z.pc = "limit"
      /\ z.token = x.token /\ z.userId = x.userId
      /\ z.gate = x.gate /\ z.open = x.open
  BY <1>1, WithPc
<1> QED
  BY <1>2, <1>3, WithBucket

LEMMA ForwardedType ==
  ASSUME NEW x \in Exchange, NEW gate \in {"counted", "unmetered"}, NEW y, y = Forwarded(x, gate)
  PROVE  /\ y \in Exchange /\ y.gate = gate /\ y.pc = "upstream"
         /\ y.token = x.token /\ y.userId = x.userId /\ y.bucket = x.bucket
         /\ y.open = x.open
<1>1. PICK z : z = [x EXCEPT !.pc = "upstream"]
  OBVIOUS
<1>2. y = [z EXCEPT !.gate = gate]
  BY <1>1 DEF Forwarded
<1>3. /\ z \in Exchange /\ z.pc = "upstream"
      /\ z.token = x.token /\ z.userId = x.userId /\ z.bucket = x.bucket
      /\ z.open = x.open
  BY <1>1, WithPc
<1> QED
  BY <1>2, <1>3, WithGate

(* What an action finds. *)
LEMMA GateReads ==
  ASSUME GateInv, NEW r \in Requests
  PROVE  /\ exchange \in [Requests -> Exchange] /\ exchange[r] \in Exchange
         /\ ExchangeOK(exchange[r], r) /\ window \in Windows
         /\ GateGood(faults, used, inFlight, exchange)
         /\ inFlight \in Int
<1>1. inFlight = Cardinality(CountedIn(exchange))
  BY DEF GateInv, GateGood
<1> QED
  BY <1>1, GateFinite DEF GateInv, GateGood

(* A step on one request that leaves the limiter alone. *)
LEMMA PlainKeeps ==
  ASSUME GateInv, NEW r \in Requests, NEW x \in Exchange, ExchangeOK(x, r),
         x.gate = exchange[r].gate,
         x.gate = "none" \/ (x.userId = exchange[r].userId /\ x.bucket = exchange[r].bucket),
         To(r, x), UNCHANGED <<faults, window, used>>,
         inFlight' = Gauge(exchange[r], x, inFlight)
  PROVE  GateInv'
<1>1. PICK fs, u, n, e : fs = faults /\ u = used /\ n = inFlight /\ e = exchange
  OBVIOUS
<1>2. PICK e2 : e2 = [e EXCEPT ![r] = x]
  OBVIOUS
<1>3. GateGood(fs, u, n, e) /\ fs \in FaultModels /\ window \in Windows
  BY <1>1 DEF GateInv
<1>4. n = Cardinality(CountedIn(e)) /\ e \in [Requests -> Exchange]
  BY <1>3 DEF GateGood
<1>5. x.gate = e[r].gate /\ (x.gate = "none" \/ (x.userId = e[r].userId /\ x.bucket = e[r].bucket))
  BY <1>1
<1>6. PICK n2 : n2 = Cardinality(CountedIn(e2))
  OBVIOUS
<1>7. GateGood(fs, u, n2, e2)
  BY <1>2, <1>3, <1>5, <1>6, PlainStep
<1>11. Cardinality(CountedIn(e2)) = Gauge(e[r], x, Cardinality(CountedIn(e)))
  BY <1>2, <1>4, GaugeStep
<1>8. n2 = Gauge(e[r], x, n)
  BY <1>4, <1>6, <1>11
<1>9. inFlight' = n2
  BY <1>1, <1>8
<1>10. faults' = fs /\ window' = window /\ used' = u /\ exchange' = e2
  BY <1>1, <1>2 DEF To
<1> QED
  BY <1>3, <1>7, <1>9, <1>10 DEF GateInv, Windows

LEMMA ArriveKeeps ==
  ASSUME GateInv, NEW r \in Requests, Arrive(r)
  PROVE  GateInv'
<1>11. PICK token \in IF IsPublic(r) THEN {Nobody} ELSE TokensSent :
         LET x == [exchange[r] EXCEPT !.token = token, !.userId = Nobody]
         IN To(r, IF IsPublic(r) THEN Metered(x)
                  ELSE IF token = Nobody THEN Ended(x, 401)
                  ELSE [x EXCEPT !.pc = "verify"])
  BY DEF Arrive
<1>12. token \in Tokens
  BY DEF TokensSent, Tokens
<1>13. PICK x : x = [exchange[r] EXCEPT !.token = token, !.userId = Nobody]
  OBVIOUS
<1>1. /\ x = [exchange[r] EXCEPT !.token = token, !.userId = Nobody]
      /\ To(r, IF IsPublic(r) THEN Metered(x)
               ELSE IF token = Nobody THEN Ended(x, 401)
               ELSE [x EXCEPT !.pc = "verify"])
  BY <1>11, <1>13
<1>2. /\ exchange[r].pc = "new" /\ exchange[r].open /\ exchange[r].gate = "none"
      /\ exchange[r] \in Exchange /\ window \in Windows
  BY GateReads DEF Arrive, At, ExchangeOK
<1>3. /\ x \in Exchange /\ x.pc = "new" /\ x.open /\ x.gate = "none"
      /\ x.userId = Nobody
  <2>1. PICK z : z = [exchange[r] EXCEPT !.token = token]
    OBVIOUS
  <2>2. z \in Exchange /\ z.pc = "new" /\ z.open /\ z.gate = "none"
    BY <1>12, <1>2, <2>1, WithToken
  <2>3. x = [z EXCEPT !.userId = Nobody]
    BY <1>1, <2>1
  <2> QED
    BY <2>2, <2>3, WithUserId
<1>4. PICK y : y = IF IsPublic(r) THEN Metered(x)
                   ELSE IF token = Nobody THEN Ended(x, 401)
                   ELSE [x EXCEPT !.pc = "verify"]
  OBVIOUS
<1>5. /\ y \in Exchange /\ y.gate = "none" /\ y.open /\ y.userId = Nobody
      /\ y.pc \in {"verify", "ended", "limit"}
      /\ y.pc = "verify" => ~IsPublic(r)
      /\ y.pc = "limit" => IsPublic(r)
  <2>1. CASE IsPublic(r)
    BY <1>2, <1>3, <1>4, <2>1, MeteredType
  <2>2. CASE ~IsPublic(r) /\ token = Nobody
    BY <1>3, <1>4, <2>2, EndedType
  <2>3. CASE ~IsPublic(r) /\ token # Nobody
    BY <1>3, <1>4, <2>3, WithPc
  <2> QED
    BY <2>1, <2>2, <2>3
<1>6. ExchangeOK(y, r)
  BY <1>5 DEF ExchangeOK
<1>7. Counts(y) /\ ~Counts(exchange[r])
  BY <1>2, <1>5 DEF Counts
<1>8. To(r, y) /\ inFlight' = inFlight + 1 /\ UNCHANGED <<faults, window, used>>
  BY <1>1, <1>4 DEF Arrive
<1> QED
  BY <1>2, <1>5, <1>6, <1>7, <1>8, PlainKeeps DEF Gauge

LEMMA VerifyKeeps ==
  ASSUME GateInv, NEW r \in Requests, Verify(r)
  PROVE  GateInv'
<1>1. PICK x \in Exchange : x = exchange[r]
  BY GateReads
<1>2. x.pc = "verify" /\ x.gate = "none" /\ window \in Windows /\ ~IsPublic(r)
  BY <1>1, GateReads DEF Verify, At, ExchangeOK
<1>3. PICK y : y = IF x.token \in Users THEN Metered([x EXCEPT !.userId = x.token])
                   ELSE Ended(x, 401)
  OBVIOUS
<1>4. /\ y \in Exchange /\ y.gate = "none" /\ y.open = x.open
      /\ \/ y.pc = "limit" /\ y.token \in Users /\ y.userId = y.token
         \/ y.pc = IF x.open THEN "ended" ELSE "dropped"
  <2>1. CASE x.token \in Users
    <3>1. PICK z : z = [x EXCEPT !.userId = x.token]
      OBVIOUS
    <3>2. /\ z \in Exchange /\ z.userId = x.token /\ z.token = x.token
          /\ z.gate = "none" /\ z.open = x.open
      BY <1>2, <2>1, <3>1, WithUserId
    <3>3. y = Metered(z)
      BY <1>3, <2>1, <3>1
    <3> QED
      BY <1>2, <2>1, <3>2, <3>3, MeteredType
  <2>2. CASE x.token \notin Users
    BY <1>2, <1>3, <2>2, EndedType
  <2> QED
    BY <2>1, <2>2
<1>5. ExchangeOK(y, r)
  BY <1>2, <1>4 DEF ExchangeOK
<1>6. Counts(y) = Counts(exchange[r])
  BY <1>1, <1>2, <1>4 DEF Counts
<1>7. To(r, y) /\ inFlight' = inFlight /\ UNCHANGED <<faults, window, used>>
  BY <1>1, <1>3 DEF Verify
<1> QED
  BY <1>1, <1>2, <1>4, <1>5, <1>6, <1>7, PlainKeeps DEF Gauge

(* A step of the limiter on one request. *)
LEMMA MeterKeeps ==
  ASSUME GateInv, NEW r \in Requests, NEW x \in Exchange, ExchangeOK(x, r),
         exchange[r].gate = "none", Counts(x) = Counts(exchange[r]),
         NEW i \in Identities, i = IdOf(x, r), NEW w \in Windows, w = x.bucket,
         NEW k \in Nat, k >= used[i][w],
         \/ x.gate = "counted" /\ k = used[i][w] + 1 /\ k <= Limit(i)
         \/ x.gate = "refused" /\ k = used[i][w] + 1 /\ k > Limit(i)
         \/ x.gate = "unmetered" /\ "redis" \in faults,
         To(r, x), used' = [used EXCEPT ![i][w] = k],
         UNCHANGED <<faults, window, inFlight>>
  PROVE  GateInv'
<1>1. PICK fs, u, n, e : fs = faults /\ u = used /\ n = inFlight /\ e = exchange
  OBVIOUS
<1>2. PICK e2, u2 : e2 = [e EXCEPT ![r] = x] /\ u2 = [u EXCEPT ![i][w] = k]
  OBVIOUS
<1>3. GateGood(fs, u, n, e) /\ fs \in FaultModels /\ window \in Windows
  BY <1>1 DEF GateInv
<1>4. /\ e[r].gate = "none" /\ k >= u[i][w] /\ Counts(x) = Counts(e[r])
      /\ \/ x.gate = "counted" /\ k = u[i][w] + 1 /\ k <= Limit(i)
         \/ x.gate = "refused" /\ k = u[i][w] + 1 /\ k > Limit(i)
         \/ x.gate = "unmetered" /\ "redis" \in fs
  BY <1>1
<1>5. GateGood(fs, u2, n, e2)
  BY <1>2, <1>3, <1>4, MeterStep
<1>6. faults' = fs /\ window' = window /\ inFlight' = n /\ used' = u2 /\ exchange' = e2
  BY <1>1, <1>2 DEF To
<1> QED
  BY <1>3, <1>5, <1>6 DEF GateInv, Windows

(* Whom a request at the limiter is charged to. *)
LEMMA ChargedTo ==
  ASSUME GateInv, NEW r \in Requests, At(r, "limit")
  PROVE  /\ exchange[r] \in Exchange /\ exchange[r].gate = "none"
         /\ exchange[r].pc = "limit" /\ exchange[r].bucket \in Windows
         /\ Identity(r) \in Identities /\ Identity(r) = IdOf(exchange[r], r)
         /\ LimitOf(r) = Limit(Identity(r))
         /\ used[Identity(r)][exchange[r].bucket] \in Nat
         /\ IF IsPublic(r) THEN exchange[r].userId = Nobody
            ELSE exchange[r].token \in Users /\ exchange[r].userId = exchange[r].token
<1>1. PICK x \in Exchange : x = exchange[r]
  BY GateReads
<1>2. x.pc = "limit" /\ ExchangeOK(x, r) /\ x.bucket \in Windows
  BY <1>1, GateReads DEF At, Exchange
<1>3. /\ x.gate = "none"
      /\ IF IsPublic(r) THEN x.userId = Nobody ELSE x.token \in Users /\ x.userId = x.token
  BY <1>2 DEF ExchangeOK
<1>4. Identity(r) = IdOf(x, r)
  BY <1>1 DEF Identity, IdOf
<1>5. IdOf(x, r) = IF IsPublic(r) THEN TheIp ELSE x.userId
  BY <1>3, NameAssumption DEF IdOf
<1>6. IdOf(x, r) \in Identities
  BY <1>3, <1>5 DEF Identities
<1>7. LimitOf(r) = Limit(IdOf(x, r))
  BY <1>3, <1>5, NameAssumption DEF LimitOf, Limit
<1>8. used \in [Identities -> [Windows -> Nat]]
  BY GateReads DEF GateGood
<1> QED
  BY <1>1, <1>2, <1>3, <1>4, <1>6, <1>7, <1>8

LEMMA RateLimitKeeps ==
  ASSUME GateInv, NEW r \in Requests, RateLimit(r)
  PROVE  GateInv'
<1>0. At(r, "limit")
  BY DEF RateLimit
<1>1. PICK x \in Exchange, i \in Identities, w \in Windows :
        x = exchange[r] /\ i = Identity(r) /\ w = x.bucket
  BY <1>0, ChargedTo
<1>2. PICK k \in Nat : k = used[i][w] + 1 /\ used[i][w] \in Nat
  BY <1>0, <1>1, ChargedTo
<1>3. /\ x.gate = "none" /\ x.pc = "limit" /\ i = IdOf(x, r) /\ LimitOf(r) = Limit(i)
      /\ IF IsPublic(r) THEN x.userId = Nobody ELSE x.token \in Users /\ x.userId = x.token
  BY <1>0, <1>1, ChargedTo
<1>4. PICK y : y = IF k > Limit(i) THEN Ended([x EXCEPT !.gate = "refused"], 429)
                   ELSE Forwarded(x, "counted")
  OBVIOUS
<1>5. /\ To(r, y) /\ used' = [used EXCEPT ![i][w] = k]
      /\ UNCHANGED <<faults, window, inFlight>>
  BY <1>1, <1>2, <1>3, <1>4 DEF RateLimit
<1>6. /\ y \in Exchange /\ y.token = x.token /\ y.userId = x.userId
      /\ y.bucket = x.bucket /\ y.open = x.open
      /\ \/ /\ k > Limit(i) /\ y.gate = "refused"
            /\ y.pc = IF x.open THEN "ended" ELSE "dropped"
         \/ k <= Limit(i) /\ y.gate = "counted" /\ y.pc = "upstream"
  <2>1. CASE k > Limit(i)
    <3>1. PICK z : z = [x EXCEPT !.gate = "refused"]
      OBVIOUS
    <3>2. /\ z \in Exchange /\ z.gate = "refused" /\ z.token = x.token
          /\ z.userId = x.userId /\ z.bucket = x.bucket /\ z.open = x.open
      BY <3>1, WithGate
    <3>3. y = Ended(z, 429)
      BY <1>4, <2>1, <3>1
    <3> QED
      BY <2>1, <3>2, <3>3, EndedType
  <2>2. CASE ~(k > Limit(i))
    <3>1. y = Forwarded(x, "counted")
      BY <1>4, <2>2
    <3>2. k <= Limit(i)
      BY <2>2, Limits
    <3> QED
      BY <3>1, <3>2, ForwardedType
  <2> QED
    BY <2>1, <2>2
<1>7. ExchangeOK(y, r)
  BY <1>3, <1>6 DEF ExchangeOK
<1>8. Counts(y) = Counts(exchange[r])
  BY <1>1, <1>3, <1>6 DEF Counts
<1>9. i = IdOf(y, r) /\ w = y.bucket
  BY <1>1, <1>3, <1>6 DEF IdOf
<1>10. k >= used[i][w] /\ exchange[r].gate = "none"
  BY <1>1, <1>2, <1>3
<1>11. \/ y.gate = "counted" /\ k = used[i][w] + 1 /\ k <= Limit(i)
       \/ y.gate = "refused" /\ k = used[i][w] + 1 /\ k > Limit(i)
       \/ y.gate = "unmetered" /\ "redis" \in faults
  BY <1>2, <1>6
<1>12. y \in Exchange
  BY <1>6
<1> HIDE <1>6
<1> QED
  BY <1>5, <1>7, <1>8, <1>9, <1>10, <1>11, <1>12, MeterKeeps

LEMMA FailOpenKeeps ==
  ASSUME GateInv, NEW r \in Requests, FailOpen(r)
  PROVE  GateInv'
<1>0. At(r, "limit") /\ "redis" \in faults
  BY DEF FailOpen
<1>1. PICK x \in Exchange, i \in Identities, w \in Windows :
        x = exchange[r] /\ i = Identity(r) /\ w = x.bucket
  BY <1>0, ChargedTo
<1>13. PICK m \in {0, 1} : used' = [used EXCEPT ![i][w] = @ + m]
  BY <1>1 DEF FailOpen
<1>14. PICK k : k = used[i][w] + m
  OBVIOUS
<1>2. k \in Nat /\ k >= used[i][w] /\ used' = [used EXCEPT ![i][w] = k]
  <2>1. used[i][w] \in Nat
    BY <1>0, <1>1, ChargedTo
  <2> QED
    BY <1>13, <1>14, <2>1
<1>3. /\ x.gate = "none" /\ x.pc = "limit" /\ i = IdOf(x, r)
      /\ IF IsPublic(r) THEN x.userId = Nobody ELSE x.token \in Users /\ x.userId = x.token
  BY <1>0, <1>1, ChargedTo
<1>4. PICK y : y = Forwarded(x, "unmetered")
  OBVIOUS
<1>5. To(r, y) /\ UNCHANGED <<faults, window, inFlight>>
  BY <1>1, <1>4 DEF FailOpen
<1>6. /\ y \in Exchange /\ y.gate = "unmetered" /\ y.pc = "upstream"
      /\ y.token = x.token /\ y.userId = x.userId /\ y.bucket = x.bucket
      /\ y.open = x.open
  BY <1>4, ForwardedType
<1>7. ExchangeOK(y, r)
  BY <1>3, <1>6 DEF ExchangeOK
<1>8. Counts(y) = Counts(exchange[r])
  BY <1>1, <1>3, <1>6 DEF Counts
<1>9. i = IdOf(y, r) /\ w = y.bucket
  BY <1>1, <1>3, <1>6 DEF IdOf
<1>10. k >= used[i][w] /\ exchange[r].gate = "none"
  BY <1>1, <1>2, <1>3
<1>11. \/ y.gate = "counted" /\ k = used[i][w] + 1 /\ k <= Limit(i)
       \/ y.gate = "refused" /\ k = used[i][w] + 1 /\ k > Limit(i)
       \/ y.gate = "unmetered" /\ "redis" \in faults
  BY <1>0, <1>6
<1>12. y \in Exchange /\ k \in Nat /\ used' = [used EXCEPT ![i][w] = k]
  BY <1>2, <1>6
<1> HIDE <1>6
<1> QED
  BY <1>5, <1>7, <1>8, <1>9, <1>10, <1>11, <1>12, MeterKeeps

LEMMA UpstreamAnswersKeeps ==
  ASSUME GateInv, NEW r \in Requests,
         NEW st \in {0, 200, 201, 204, 400, 401, 404, 429, 500, 502}, UpstreamAnswers(r, st)
  PROVE  GateInv'
<1>1. PICK x \in Exchange : x = exchange[r]
  BY GateReads
<1>2. PICK y : y = Ended(x, st)
  OBVIOUS
<1>3. x.pc = "upstream" /\ ExchangeOK(x, r)
  BY <1>1, GateReads DEF UpstreamAnswers, At
<1>4. /\ y \in Exchange /\ y.pc = IF x.open THEN "ended" ELSE "dropped"
      /\ y.token = x.token /\ y.userId = x.userId /\ y.bucket = x.bucket
      /\ y.gate = x.gate /\ y.open = x.open
  BY <1>2, EndedType
<1>5. ExchangeOK(y, r)
  BY <1>3, <1>4 DEF ExchangeOK
<1>6. Counts(y) = Counts(exchange[r])
  BY <1>1, <1>3, <1>4 DEF Counts
<1>7. To(r, y) /\ inFlight' = inFlight /\ UNCHANGED <<faults, window, used>>
  BY <1>1, <1>2 DEF UpstreamAnswers
<1> QED
  BY <1>1, <1>4, <1>5, <1>6, <1>7, PlainKeeps DEF Gauge

LEMMA FinishKeeps ==
  ASSUME GateInv, NEW r \in Requests, Finish(r) \/ LateFinish(r)
  PROVE  GateInv'
<1>1. PICK x \in Exchange : x = exchange[r]
  BY GateReads
<1>2. x.pc = "ended" /\ x.open /\ ExchangeOK(x, r)
  BY <1>1, GateReads DEF Finish, LateFinish, At
<1>3. PICK z : z = [x EXCEPT !.pc = "finished"]
  OBVIOUS
<1>4. /\ z \in Exchange /\ z.pc = "finished" /\ z.token = x.token /\ z.userId = x.userId
      /\ z.bucket = x.bucket /\ z.gate = x.gate
  BY <1>3, WithPc
<1>5. PICK y : /\ y \in Exchange /\ y.pc = "finished" /\ y.token = x.token
               /\ y.userId = x.userId /\ y.bucket = x.bucket /\ y.gate = x.gate
               /\ To(r, y)
  <2>1. CASE Finish(r)
    BY <1>1, <1>3, <1>4, <2>1 DEF Finish
  <2>2. CASE LateFinish(r)
    <3>1. PICK y : y = [z EXCEPT !.open = FALSE]
      OBVIOUS
    <3>2. To(r, y)
      BY <1>1, <1>3, <2>2, <3>1 DEF LateFinish
    <3> QED
      BY <1>4, <3>1, <3>2, WithOpen
  <2> QED
    BY <2>1, <2>2
<1>6. ExchangeOK(y, r)
  BY <1>2, <1>5 DEF ExchangeOK
<1>7. ~Counts(y) /\ Counts(exchange[r])
  BY <1>1, <1>2, <1>5 DEF Counts
<1>8. inFlight' = inFlight - 1 /\ UNCHANGED <<faults, window, used>>
  BY DEF Finish, LateFinish
<1>9. /\ y \in Exchange /\ y.gate = exchange[r].gate /\ y.userId = exchange[r].userId
      /\ y.bucket = exchange[r].bucket /\ To(r, y)
  BY <1>1, <1>5
<1> QED
  BY <1>6, <1>7, <1>8, <1>9, PlainKeeps DEF Gauge

LEMMA CloseKeeps ==
  ASSUME GateInv, NEW r \in Requests, Close(r)
  PROVE  GateInv'
<1>1. PICK x \in Exchange : x = exchange[r]
  BY GateReads
<1>2. x.pc # "new" /\ x.open /\ ExchangeOK(x, r)
  BY <1>1, GateReads DEF Close, At
<1>3. PICK y : y = [x EXCEPT !.open = FALSE]
  OBVIOUS
<1>4. /\ y \in Exchange /\ y.pc = x.pc /\ ~y.open /\ y.token = x.token
      /\ y.userId = x.userId /\ y.bucket = x.bucket /\ y.gate = x.gate
  BY <1>3, WithOpen
<1>5. ExchangeOK(y, r)
  BY <1>2, <1>4 DEF ExchangeOK
<1>6. Counts(y) <=> x.pc = "ended"
  BY <1>4 DEF Counts
<1>7. Counts(exchange[r]) <=> x.pc # "finished"
  BY <1>1, <1>2 DEF Counts
<1>8. /\ To(r, y) /\ UNCHANGED <<faults, window, used>>
      /\ inFlight' = IF x.pc \in {"ended", "finished"} THEN inFlight ELSE inFlight - 1
  BY <1>1, <1>3 DEF Close
<1>9. inFlight' = Gauge(exchange[r], y, inFlight)
  <2>1. CASE x.pc \in {"ended", "finished"}
    <3>1. (Counts(y) <=> Counts(exchange[r])) /\ inFlight' = inFlight
      BY <1>6, <1>7, <1>8, <2>1
    <3>2. Counts(y) = Counts(exchange[r])
      BY <3>1 DEF Counts
    <3> QED
      BY <3>1, <3>2 DEF Gauge
  <2>2. CASE x.pc \notin {"ended", "finished"}
    <3>1. ~Counts(y) /\ Counts(exchange[r]) /\ inFlight' = inFlight - 1
      BY <1>6, <1>7, <1>8, <2>2
    <3> QED
      BY <3>1 DEF Gauge
  <2> QED
    BY <2>1, <2>2
<1> QED
  BY <1>1, <1>4, <1>5, <1>8, <1>9, PlainKeeps

LEMMA NextWindowKeeps ==
  ASSUME GateInv, NextWindow
  PROVE  GateInv'
<1>1. window' \in Windows
  BY LimitAssumption DEF NextWindow, GateInv, Windows
<1> QED
  BY <1>1 DEF NextWindow, GateInv, Windows

-----------------------------------------------------------------------------
LEMMA GateInit ==
  ASSUME Init
  PROVE  GateInv
<1>1. /\ used \in [Identities -> [Windows -> Nat]]
      /\ \A i \in Identities, w \in Windows : used[i][w] = 0
      /\ 0 \in Windows
  BY LimitAssumption DEF Init, GatewayInit, Windows
<1>2. /\ exchange \in [Requests -> Exchange]
      /\ \A r \in Requests :
           exchange[r].pc = "new" /\ exchange[r].open /\ exchange[r].gate = "none"
  <2>1. \A r \in Requests :
          exchange[r] = [pc |-> "new", token |-> Nobody, userId |-> Nobody,
                         bucket |-> 0, gate |-> "none", status |-> 0, open |-> TRUE]
    BY DEF Init, GatewayInit
  <2>2. [pc |-> "new", token |-> Nobody, userId |-> Nobody,
         bucket |-> 0, gate |-> "none", status |-> 0, open |-> TRUE] \in Exchange
    BY <1>1 DEF Exchange, Tokens
  <2> QED
    BY <2>1, <2>2 DEF Init, GatewayInit
<1>3. CountedIn(exchange) = {}
  BY <1>2 DEF CountedIn, Counts
<1>4. \A r \in Requests : ExchangeOK(exchange[r], r)
  BY <1>2 DEF ExchangeOK
<1>5. \A i, w, g : g # "none" => MeteredIn(exchange, i, w, g) = {}
  BY <1>2 DEF MeteredIn
<1>6. \A i \in Identities, w \in Windows : BucketOK(faults, used[i][w], exchange, i, w)
  BY <1>1, <1>5, Limits, FS_EmptySet DEF BucketOK
<1>7. inFlight = Cardinality(CountedIn(exchange))
  BY <1>3, FS_EmptySet DEF Init, GatewayInit
<1> QED
  BY <1>1, <1>2, <1>4, <1>6, <1>7 DEF GateInv, GateGood, Init, GatewayInit

LEMMA GateUnchanged ==
  ASSUME GateInv, UNCHANGED gatewayVars
  PROVE  GateInv'
BY DEF GateInv, gatewayVars, Windows

-----------------------------------------------------------------------------
(* The files' own invariant, of tables h of the handlers, ro of the rows   *)
(* and ob of the objects.                                                  *)
HandlerPcs == {"none", "put", "create", "cleanUp", "find", "deleteRow",
               "deleteObject", "answered", "dead"}
AnswerStatuses == {0, 200, 201, 204, 400, 404, 500}

HandlerOK(x, r) ==
  IF r \in Uploads
  THEN /\ x.pc \in {"none", "put", "create", "cleanUp", "answered", "dead"}
       /\ x.pc \in {"put", "create", "cleanUp"} => x.file = r /\ x.user \in Users
  ELSE /\ x.pc \in {"none", "deleteRow", "deleteObject", "answered", "dead"}
       /\ x.pc \in {"deleteRow", "deleteObject"} => x.file \in Uploads

ReplyLost(fs) == {"db", "lostReply"} \subseteq fs

(* Until its upload has ended a file has no row, and so no removal.        *)
FileOK(fs, h, ro, ob, f) ==
  /\ ro[f] # Nobody => h[f].pc \in {"cleanUp", "answered", "dead"}
  /\ ~ReplyLost(fs) =>
       /\ h[f].pc = "create" => f \in ob
       /\ h[f].pc = "cleanUp" => ro[f] = Nobody
       /\ ro[f] # Nobody => f \in ob
       /\ \A r \in Requests :
            h[r].file = f =>
              /\ h[r].pc \in {"deleteRow", "deleteObject"} => h[f].pc \in {"answered", "dead"}
              /\ h[r].pc = "deleteObject" => ro[f] = Nobody
       /\ {"storage", "crash"} \cap fs = {} /\ f \in ob /\ ro[f] = Nobody =>
            \E r \in Requests : h[r].pc \in {"create", "cleanUp", "deleteObject"} /\ h[r].file = f

FilesGood(fs, h, ro, ob) ==
  /\ h \in [Requests -> Handler]
  /\ ro \in [Uploads -> Users \cup {Nobody}]
  /\ ob \subseteq Uploads
  /\ \A r \in Requests : HandlerOK(h[r], r)
  /\ \A f \in Uploads : FileOK(fs, h, ro, ob, f)

FilesInv == GateInv /\ FilesGood(faults, handler, row, objects)

(* Writing a handler, and its fields. *)
Replied(h, r, st) == [h EXCEPT ![r].pc = "answered", ![r].status = st]
Received(h, r, pc, u, f) == [h EXCEPT ![r].pc = pc, ![r].user = u, ![r].file = f]

LEMMA HandlerWrites ==
  ASSUME NEW h \in [Requests -> Handler], NEW r \in Requests, NEW x \in Handler
  PROVE  /\ [h EXCEPT ![r] = x] \in [Requests -> Handler] /\ [h EXCEPT ![r] = x][r] = x
         /\ \A v \in Requests : v # r => [h EXCEPT ![r] = x][v] = h[v]
OBVIOUS

LEMMA GoOnWrites ==
  ASSUME NEW h \in [Requests -> Handler], NEW r \in Requests, NEW pc \in HandlerPcs,
         NEW h2, h2 = [h EXCEPT ![r].pc = pc]
  PROVE  /\ h2 \in [Requests -> Handler] /\ \A v \in Requests : v # r => h2[v] = h[v]
         /\ h2[r].pc = pc /\ h2[r].file = h[r].file /\ h2[r].user = h[r].user
<1>1. PICK x : x = [h[r] EXCEPT !.pc = pc]
  OBVIOUS
<1>2. h[r] \in Handler
  OBVIOUS
<1>3. x \in Handler /\ x.pc = pc /\ x.file = h[r].file /\ x.user = h[r].user
  BY <1>1, <1>2 DEF Handler, HandlerPcs
<1>4. h2 = [h EXCEPT ![r] = x]
  BY <1>1
<1> QED
  BY <1>3, <1>4

LEMMA ReplyWrites ==
  ASSUME NEW h \in [Requests -> Handler], NEW r \in Requests, NEW st \in AnswerStatuses,
         NEW h2, h2 = Replied(h, r, st)
  PROVE  /\ h2 \in [Requests -> Handler] /\ \A v \in Requests : v # r => h2[v] = h[v]
         /\ h2[r].pc = "answered"
<1>1. PICK h1 : h1 = [h EXCEPT ![r].pc = "answered"]
  OBVIOUS
<1>2. /\ h1 \in [Requests -> Handler] /\ \A v \in Requests : v # r => h1[v] = h[v]
      /\ h1[r].pc = "answered"
  BY <1>1, GoOnWrites DEF HandlerPcs
<1>3. PICK x : x = [h1[r] EXCEPT !.status = st]
  OBVIOUS
<1>4. h1[r] \in Handler
  BY <1>2
<1>5. x \in Handler /\ x.pc = "answered"
  BY <1>2, <1>3, <1>4 DEF Handler, AnswerStatuses
<1>6. h2 = [h1 EXCEPT ![r] = x]
  BY <1>1, <1>3 DEF Replied
<1>7. /\ h2 \in [Requests -> Handler] /\ \A v \in Requests : v # r => h2[v] = h1[v]
      /\ h2[r] = x
  BY <1>2, <1>5, <1>6, HandlerWrites
<1> QED
  BY <1>2, <1>5, <1>7

RepliedAtOnce(h, r, st) == [h EXCEPT ![r] = [@ EXCEPT !.pc = "answered", !.status = st]]

LEMMA RepliedAsOne ==
  ASSUME NEW h \in [Requests -> Handler], NEW r \in Requests, NEW st
  PROVE  RepliedAtOnce(h, r, st) = Replied(h, r, st)
<1>1. PICK y, z : y = [h[r] EXCEPT !.pc = "answered"] /\ z = [y EXCEPT !.status = st]
  OBVIOUS
<1>2. PICK h1 : h1 = [h EXCEPT ![r] = y]
  OBVIOUS
<1>3. h1[r] = y
  BY <1>2
<1>4. Replied(h, r, st) = [h1 EXCEPT ![r] = z]
  BY <1>1, <1>2, <1>3 DEF Replied
<1>5. [h1 EXCEPT ![r] = z] = [h EXCEPT ![r] = z]
  BY <1>2
<1>6. RepliedAtOnce(h, r, st) = [h EXCEPT ![r] = z]
  BY <1>1 DEF RepliedAtOnce
<1> QED
  BY <1>4, <1>5, <1>6

LEMMA ReceiveWrites ==
  ASSUME NEW h \in [Requests -> Handler], NEW r \in Requests, NEW pc \in HandlerPcs,
         NEW u \in Users \cup {Nobody}, NEW f \in Uploads \cup {NoFile},
         NEW h2, h2 = Received(h, r, pc, u, f)
  PROVE  /\ h2 \in [Requests -> Handler] /\ \A v \in Requests : v # r => h2[v] = h[v]
         /\ h2[r].pc = pc /\ h2[r].user = u /\ h2[r].file = f
<1>1. PICK h1 : h1 = [h EXCEPT ![r].pc = pc]
  OBVIOUS
<1>2. /\ h1 \in [Requests -> Handler] /\ \A v \in Requests : v # r => h1[v] = h[v]
      /\ h1[r].pc = pc
  BY <1>1, GoOnWrites
<1>3. PICK x : x = [h1[r] EXCEPT !.user = u]
  OBVIOUS
<1>4. h1[r] \in Handler
  BY <1>2
<1>5. x \in Handler /\ x.pc = pc /\ x.user = u
  BY <1>2, <1>3, <1>4 DEF Handler
<1>6. PICK y : y = [x EXCEPT !.file = f]
  OBVIOUS
<1>7. y \in Handler /\ y.pc = pc /\ y.user = u /\ y.file = f
  BY <1>5, <1>6 DEF Handler
<1>8. h2 = [h1 EXCEPT ![r] = y]
  BY <1>1, <1>3, <1>6 DEF Received
<1>9. /\ h2 \in [Requests -> Handler] /\ \A v \in Requests : v # r => h2[v] = h1[v]
      /\ h2[r] = y
  BY <1>2, <1>7, <1>8, HandlerWrites
<1> QED
  BY <1>2, <1>7, <1>9

-----------------------------------------------------------------------------
(* A handler that starts, or ends before it did anything. *)
LEMMA Begins ==
  ASSUME NEW fs, NEW h, NEW ro, NEW ob, FilesGood(fs, h, ro, ob),
         NEW r \in Requests, h[r].pc = "none",
         NEW h2 \in [Requests -> Handler], \A v \in Requests : v # r => h2[v] = h[v],
         \/ h2[r].pc = "answered"
         \/ r \in Uploads /\ h2[r].pc = "put" /\ h2[r].file = r /\ h2[r].user \in Users
         \/ /\ r \notin Uploads /\ h2[r].pc = "deleteRow"
            /\ h2[r].file \in Uploads /\ ro[h2[r].file] # Nobody
  PROVE  FilesGood(fs, h2, ro, ob)
<1>1. /\ ro \in [Uploads -> Users \cup {Nobody}] /\ ob \subseteq Uploads
      /\ \A v \in Requests : HandlerOK(h[v], v)
      /\ \A f \in Uploads : FileOK(fs, h, ro, ob, f)
  BY DEF FilesGood
<1>2. \A v \in Requests : HandlerOK(h2[v], v)
  BY <1>1 DEF HandlerOK
<1>3. ASSUME NEW f \in Uploads
      PROVE  FileOK(fs, h2, ro, ob, f)
  <2>1. FileOK(fs, h, ro, ob, f) /\ f \in Requests
    BY <1>1, FileRequestAssumption
  <2>2. ro[f] # Nobody => h2[f].pc \in {"cleanUp", "answered", "dead"}
    BY <2>1 DEF FileOK
  <2>3. ASSUME ~ReplyLost(fs)
        PROVE  /\ h2[f].pc = "create" => f \in ob
               /\ h2[f].pc = "cleanUp" => ro[f] = Nobody
               /\ ro[f] # Nobody => f \in ob
    BY <2>1, <2>3 DEF FileOK
  <2>4. ASSUME ~ReplyLost(fs), NEW v \in Requests, h2[v].file = f
        PROVE  /\ h2[v].pc \in {"deleteRow", "deleteObject"} => h2[f].pc \in {"answered", "dead"}
               /\ h2[v].pc = "deleteObject" => ro[f] = Nobody
    BY <2>1, <2>4 DEF FileOK
  <2>5. ASSUME ~ReplyLost(fs), {"storage", "crash"} \cap fs = {}, f \in ob, ro[f] = Nobody
        PROVE  \E v \in Requests : /\ h2[v].pc \in {"create", "cleanUp", "deleteObject"}
                                   /\ h2[v].file = f
    <3>1. PICK v \in Requests :
            h[v].pc \in {"create", "cleanUp", "deleteObject"} /\ h[v].file = f
      BY <2>1, <2>5 DEF FileOK
    <3>2. h2[v] = h[v]
      BY <3>1
    <3> QED
      BY <3>1, <3>2
  <2> QED
    BY <2>2, <2>3, <2>4, <2>5 DEF FileOK
<1> QED
  BY <1>1, <1>2, <1>3 DEF FilesGood

(* The object is put, or the put throws. *)
LEMMA Puts ==
  ASSUME NEW fs, NEW h, NEW ro, NEW ob, FilesGood(fs, h, ro, ob),
         NEW r \in Requests, h[r].pc = "put",
         NEW h2 \in [Requests -> Handler], \A v \in Requests : v # r => h2[v] = h[v],
         NEW ob2 \in SUBSET (ob \cup {r}), ob \subseteq ob2,
         \/ /\ h2[r].pc = "create" /\ h2[r].file = h[r].file /\ h2[r].user = h[r].user
            /\ r \in ob2
         \/ h2[r].pc = "answered" /\ "storage" \in fs
  PROVE  FilesGood(fs, h2, ro, ob2)
<1>1. /\ ro \in [Uploads -> Users \cup {Nobody}] /\ ob \subseteq Uploads
      /\ \A v \in Requests : HandlerOK(h[v], v)
      /\ \A f \in Uploads : FileOK(fs, h, ro, ob, f)
  BY DEF FilesGood
<1>2. r \in Uploads /\ h[r].file = r /\ h[r].user \in Users
  BY <1>1 DEF HandlerOK
<1>3. \A v \in Requests : HandlerOK(h2[v], v)
  BY <1>1, <1>2 DEF HandlerOK
<1>4. ob2 \subseteq Uploads
  BY <1>1, <1>2
<1>5. ASSUME NEW f \in Uploads
      PROVE  FileOK(fs, h2, ro, ob2, f)
  <2>1. FileOK(fs, h, ro, ob, f) /\ f \in Requests
    BY <1>1, FileRequestAssumption
  <2>2. ro[f] # Nobody => f # r /\ h2[f].pc \in {"cleanUp", "answered", "dead"}
    BY <2>1 DEF FileOK
  <2>3. ASSUME ~ReplyLost(fs)
        PROVE  /\ h2[f].pc = "create" => f \in ob2
               /\ h2[f].pc = "cleanUp" => ro[f] = Nobody
               /\ ro[f] # Nobody => f \in ob2
    BY <2>1, <2>3 DEF FileOK
  <2>4. ASSUME ~ReplyLost(fs), NEW v \in Requests, h2[v].file = f
        PROVE  /\ h2[v].pc \in {"deleteRow", "deleteObject"} => h2[f].pc \in {"answered", "dead"}
               /\ h2[v].pc = "deleteObject" => ro[f] = Nobody
    BY <2>1, <2>4 DEF FileOK
  <2>5. ASSUME ~ReplyLost(fs), {"storage", "crash"} \cap fs = {}, f \in ob2, ro[f] = Nobody
        PROVE  \E v \in Requests : /\ h2[v].pc \in {"create", "cleanUp", "deleteObject"}
                                   /\ h2[v].file = f
    <3>1. h2[r].pc = "create" /\ h2[r].file = r
      BY <1>2, <2>5
    <3>2. CASE f = r
      BY <3>1, <3>2
    <3>3. CASE f # r
      <4>1. PICK v \in Requests :
              h[v].pc \in {"create", "cleanUp", "deleteObject"} /\ h[v].file = f
        BY <2>1, <2>5, <3>3 DEF FileOK
      <4>2. h2[v] = h[v]
        BY <4>1
      <4> QED
        BY <4>1, <4>2
    <3> QED
      BY <3>2, <3>3
  <2> QED
    BY <2>2, <2>3, <2>4, <2>5 DEF FileOK
<1> QED
  BY <1>1, <1>3, <1>4, <1>5 DEF FilesGood

(* The row is created, or the create throws, having created it or not. *)
LEMMA Creates ==
  ASSUME NEW fs, NEW h, NEW ro, NEW ob, FilesGood(fs, h, ro, ob),
         NEW r \in Requests, h[r].pc = "create",
         NEW h2 \in [Requests -> Handler], \A v \in Requests : v # r => h2[v] = h[v],
         NEW ro2, ro2 = ro \/ ro2 = [ro EXCEPT ![r] = h[r].user],
         \/ h2[r].pc = "answered" /\ ro2 = [ro EXCEPT ![r] = h[r].user]
         \/ /\ h2[r].pc = "cleanUp" /\ h2[r].file = h[r].file /\ h2[r].user = h[r].user
            /\ ro2 = ro \/ ReplyLost(fs)
  PROVE  FilesGood(fs, h2, ro2, ob)
<1>1. /\ ro \in [Uploads -> Users \cup {Nobody}] /\ ob \subseteq Uploads
      /\ \A v \in Requests : HandlerOK(h[v], v)
      /\ \A f \in Uploads : FileOK(fs, h, ro, ob, f)
  BY DEF FilesGood
<1>2. r \in Uploads /\ h[r].file = r /\ h[r].user \in Users /\ h[r].user # Nobody
  BY <1>1, NameAssumption DEF HandlerOK
<1>3. \A v \in Requests : HandlerOK(h2[v], v)
  BY <1>1, <1>2 DEF HandlerOK
<1>4. /\ ro2 \in [Uploads -> Users \cup {Nobody}]
      /\ \A f \in Uploads : f # r => ro2[f] = ro[f]
      /\ ro2 = ro \/ ro2[r] = h[r].user
      /\ h2[r].pc = "answered" => ro2[r] = h[r].user
  BY <1>1, <1>2
<1>5. ASSUME NEW f \in Uploads
      PROVE  FileOK(fs, h2, ro2, ob, f)
  <2>1. FileOK(fs, h, ro, ob, f) /\ f \in Requests
    BY <1>1, FileRequestAssumption
  <2>2. ro2[f] # Nobody => h2[f].pc \in {"cleanUp", "answered", "dead"}
    BY <1>4, <2>1 DEF FileOK
  <2>3. ASSUME ~ReplyLost(fs), f = r
        PROVE  f \in ob /\ ro[f] = Nobody /\ (h2[f].pc = "cleanUp" => ro2[f] = Nobody)
    BY <2>1, <2>3 DEF FileOK
  <2>4. ASSUME ~ReplyLost(fs)
        PROVE  /\ h2[f].pc = "create" => f \in ob
               /\ h2[f].pc = "cleanUp" => ro2[f] = Nobody
               /\ ro2[f] # Nobody => f \in ob
    BY <1>4, <2>1, <2>3, <2>4 DEF FileOK
  <2>5. ASSUME ~ReplyLost(fs), NEW v \in Requests, h2[v].file = f
        PROVE  /\ h2[v].pc \in {"deleteRow", "deleteObject"} => h2[f].pc \in {"answered", "dead"}
               /\ h2[v].pc = "deleteObject" => ro2[f] = Nobody
    <3>1. CASE h2[v].pc \in {"deleteRow", "deleteObject"}
      <4>1. v # r /\ h2[v] = h[v]
        BY <3>1
      <4>2. h[f].pc \in {"answered", "dead"} /\ f # r
        BY <2>1, <2>5, <3>1, <4>1 DEF FileOK
      <4> QED
        BY <1>4, <2>1, <2>5, <4>1, <4>2 DEF FileOK
    <3> QED
      BY <3>1
  <2>6. ASSUME ~ReplyLost(fs), {"storage", "crash"} \cap fs = {}, f \in ob, ro2[f] = Nobody
        PROVE  \E v \in Requests : /\ h2[v].pc \in {"create", "cleanUp", "deleteObject"}
                                   /\ h2[v].file = f
    <3>1. CASE f = r
      <4>1. h2[r].pc = "cleanUp" /\ h2[r].file = r
        BY <1>2, <1>4, <2>6, <3>1
      <4> QED
        BY <3>1, <4>1
    <3>2. CASE f # r
      <4>1. PICK v \in Requests :
              h[v].pc \in {"create", "cleanUp", "deleteObject"} /\ h[v].file = f
        BY <1>4, <2>1, <2>6, <3>2 DEF FileOK
      <4>2. h2[v] = h[v]
        BY <1>2, <3>2, <4>1
      <4> QED
        BY <4>1, <4>2
    <3> QED
      BY <3>1, <3>2
  <2> QED
    BY <2>2, <2>4, <2>5, <2>6 DEF FileOK
<1> QED
  BY <1>1, <1>3, <1>4, <1>5 DEF FilesGood

(* The object is removed, or the removal throws; the handler answers. *)
LEMMA Removes ==
  ASSUME NEW fs, NEW h, NEW ro, NEW ob, FilesGood(fs, h, ro, ob),
         NEW r \in Requests, h[r].pc \in {"cleanUp", "deleteObject"},
         NEW h2 \in [Requests -> Handler], \A v \in Requests : v # r => h2[v] = h[v],
         h2[r].pc = "answered",
         NEW ob2, ob2 = ob \ {h[r].file} \/ (ob2 = ob /\ "storage" \in fs)
  PROVE  FilesGood(fs, h2, ro, ob2)
<1>1. /\ ro \in [Uploads -> Users \cup {Nobody}] /\ ob2 \subseteq Uploads /\ ob2 \subseteq ob
      /\ \A v \in Requests : HandlerOK(h[v], v)
      /\ \A f \in Uploads : FileOK(fs, h, ro, ob, f)
  BY DEF FilesGood
<1>2. \A v \in Requests : HandlerOK(h2[v], v)
  BY <1>1 DEF HandlerOK
<1>3. ASSUME NEW f \in Uploads
      PROVE  FileOK(fs, h2, ro, ob2, f)
  <2>1. FileOK(fs, h, ro, ob, f) /\ f \in Requests
    BY <1>1, FileRequestAssumption
  <2>2. ro[f] # Nobody => h2[f].pc \in {"cleanUp", "answered", "dead"}
    BY <2>1 DEF FileOK
  <2>3. ASSUME ~ReplyLost(fs), f \in ob, h[r].file = f
        PROVE  h2[f].pc # "create" /\ ro[f] = Nobody
    <3>1. CASE h[r].pc = "cleanUp"
      <4>1. r = f
        BY <1>1, <2>3, <3>1 DEF HandlerOK
      <4> QED
        BY <2>1, <2>3, <3>1, <4>1 DEF FileOK
    <3>2. CASE h[r].pc = "deleteObject"
      <4>1. h[f].pc \in {"answered", "dead"} /\ ro[f] = Nobody
        BY <2>1, <2>3, <3>2 DEF FileOK
      <4> QED
        BY <2>1, <4>1
    <3> QED
      BY <3>1, <3>2
  <2>4. ASSUME ~ReplyLost(fs)
        PROVE  /\ h2[f].pc = "create" => f \in ob2
               /\ h2[f].pc = "cleanUp" => ro[f] = Nobody
               /\ ro[f] # Nobody => f \in ob2
    BY <2>1, <2>3, <2>4 DEF FileOK
  <2>5. ASSUME ~ReplyLost(fs), NEW v \in Requests, h2[v].file = f
        PROVE  /\ h2[v].pc \in {"deleteRow", "deleteObject"} => h2[f].pc \in {"answered", "dead"}
               /\ h2[v].pc = "deleteObject" => ro[f] = Nobody
    BY <2>1, <2>5 DEF FileOK
  <2>6. ASSUME ~ReplyLost(fs), {"storage", "crash"} \cap fs = {}, f \in ob2, ro[f] = Nobody
        PROVE  \E v \in Requests : /\ h2[v].pc \in {"create", "cleanUp", "deleteObject"}
                                   /\ h2[v].file = f
    <3>1. f # h[r].file
      BY <2>6
    <3>2. PICK v \in Requests :
            h[v].pc \in {"create", "cleanUp", "deleteObject"} /\ h[v].file = f
      BY <1>1, <2>1, <2>6 DEF FileOK
    <3>3. h2[v] = h[v]
      BY <3>1, <3>2
    <3> QED
      BY <3>2, <3>3
  <2> QED
    BY <2>2, <2>4, <2>5, <2>6 DEF FileOK
<1> QED
  BY <1>1, <1>2, <1>3 DEF FilesGood

(* The row is deleted, or the delete throws. *)
LEMMA Deletes ==
  ASSUME NEW fs, NEW h, NEW ro, NEW ob, FilesGood(fs, h, ro, ob),
         NEW r \in Requests, h[r].pc = "deleteRow",
         NEW h2 \in [Requests -> Handler], \A v \in Requests : v # r => h2[v] = h[v],
         NEW ro2,
         \/ /\ h2[r].pc = "deleteObject" /\ h2[r].file = h[r].file
            /\ ro2 = [ro EXCEPT ![h[r].file] = Nobody]
         \/ /\ h2[r].pc = "answered"
            /\ ro2 = ro \/ (ReplyLost(fs) /\ ro2 = [ro EXCEPT ![h[r].file] = Nobody])
  PROVE  FilesGood(fs, h2, ro2, ob)
<1>1. /\ ro \in [Uploads -> Users \cup {Nobody}] /\ ob \subseteq Uploads
      /\ \A v \in Requests : HandlerOK(h[v], v)
      /\ \A f \in Uploads : FileOK(fs, h, ro, ob, f)
  BY DEF FilesGood
<1>2. h[r].file \in Uploads /\ r \notin Uploads
  BY <1>1 DEF HandlerOK
<1>3. \A v \in Requests : HandlerOK(h2[v], v)
  BY <1>1, <1>2 DEF HandlerOK
<1>4. /\ ro2 \in [Uploads -> Users \cup {Nobody}]
      /\ \A f \in Uploads : ro2[f] = ro[f] \/ (f = h[r].file /\ ro2[f] = Nobody)
      /\ h2[r].pc = "deleteObject" => ro2[h[r].file] = Nobody
      /\ ~ReplyLost(fs) /\ h2[r].pc = "answered" => ro2 = ro
      /\ \A f \in Uploads : f # h[r].file => ro2[f] = ro[f]
  BY <1>1, <1>2
<1>5. ASSUME NEW f \in Uploads
      PROVE  FileOK(fs, h2, ro2, ob, f)
  <2>1. FileOK(fs, h, ro, ob, f) /\ f \in Requests
    BY <1>1, FileRequestAssumption
  <2>2. h2[f] = h[f]
    BY <1>2, <2>1
  <2>3. ro2[f] # Nobody => h2[f].pc \in {"cleanUp", "answered", "dead"}
    BY <1>4, <2>1, <2>2 DEF FileOK
  <2>4. ASSUME ~ReplyLost(fs)
        PROVE  /\ h2[f].pc = "create" => f \in ob
               /\ h2[f].pc = "cleanUp" => ro2[f] = Nobody
               /\ ro2[f] # Nobody => f \in ob
    BY <1>4, <2>1, <2>2, <2>4 DEF FileOK
  <2>5. ASSUME ~ReplyLost(fs), NEW v \in Requests, h2[v].file = f
        PROVE  /\ h2[v].pc \in {"deleteRow", "deleteObject"} => h2[f].pc \in {"answered", "dead"}
               /\ h2[v].pc = "deleteObject" => ro2[f] = Nobody
    <3>1. CASE v # r
      BY <1>4, <2>1, <2>2, <2>5, <3>1 DEF FileOK
    <3>2. CASE v = r
      <4>1. CASE h2[r].pc = "deleteObject"
        <5>1. f = h[r].file /\ h[f].pc \in {"answered", "dead"}
          BY <2>1, <2>5, <3>2, <4>1 DEF FileOK
        <5> QED
          BY <1>4, <2>2, <3>2, <4>1, <5>1
      <4>2. CASE h2[r].pc # "deleteObject"
        BY <3>2, <4>2
      <4> QED
        BY <4>1, <4>2
    <3> QED
      BY <3>1, <3>2
  <2>6. ASSUME ~ReplyLost(fs), {"storage", "crash"} \cap fs = {}, f \in ob, ro2[f] = Nobody
        PROVE  \E v \in Requests : /\ h2[v].pc \in {"create", "cleanUp", "deleteObject"}
                                   /\ h2[v].file = f
    <3>1. CASE ro[f] = Nobody
      <4>1. PICK v \in Requests :
              h[v].pc \in {"create", "cleanUp", "deleteObject"} /\ h[v].file = f
        BY <2>1, <2>6, <3>1 DEF FileOK
      <4>2. h2[v] = h[v]
        BY <4>1
      <4> QED
        BY <4>1, <4>2
    <3>2. CASE ro[f] # Nobody
      <4>1. f = h[r].file /\ ro2 # ro
        BY <1>4, <2>6, <3>2
      <4>2. h2[r].pc = "deleteObject" /\ h2[r].file = f
        BY <1>4, <2>6, <4>1
      <4> QED
        BY <4>2
    <3> QED
      BY <3>1, <3>2
  <2> QED
    BY <2>3, <2>4, <2>5, <2>6 DEF FileOK
<1> QED
  BY <1>1, <1>3, <1>4, <1>5 DEF FilesGood

(* The process dies under some of its handlers. *)
LEMMA Crashes ==
  ASSUME NEW fs, "crash" \in fs, NEW h, NEW ro, NEW ob, FilesGood(fs, h, ro, ob),
         NEW h2 \in [Requests -> Handler],
         \A v \in Requests : h2[v] = h[v] \/ (h[v].pc # "none" /\ h2[v].pc = "dead")
  PROVE  FilesGood(fs, h2, ro, ob)
<1>1. /\ ro \in [Uploads -> Users \cup {Nobody}] /\ ob \subseteq Uploads
      /\ \A v \in Requests : HandlerOK(h[v], v)
      /\ \A f \in Uploads : FileOK(fs, h, ro, ob, f)
  BY DEF FilesGood
<1>2. \A v \in Requests : HandlerOK(h2[v], v)
  BY <1>1 DEF HandlerOK
<1>3. ASSUME NEW f \in Uploads
      PROVE  FileOK(fs, h2, ro, ob, f)
  <2>1. FileOK(fs, h, ro, ob, f) /\ f \in Requests
    BY <1>1, FileRequestAssumption
  <2>2. h2[f] = h[f] \/ h2[f].pc = "dead"
    BY <2>1
  <2>3. ro[f] # Nobody => h2[f].pc \in {"cleanUp", "answered", "dead"}
    BY <2>1, <2>2 DEF FileOK
  <2>4. ASSUME ~ReplyLost(fs)
        PROVE  /\ h2[f].pc = "create" => f \in ob
               /\ h2[f].pc = "cleanUp" => ro[f] = Nobody
               /\ ro[f] # Nobody => f \in ob
    BY <2>1, <2>2, <2>4 DEF FileOK
  <2>5. ASSUME ~ReplyLost(fs), NEW v \in Requests, h2[v].file = f
        PROVE  /\ h2[v].pc \in {"deleteRow", "deleteObject"} => h2[f].pc \in {"answered", "dead"}
               /\ h2[v].pc = "deleteObject" => ro[f] = Nobody
    <3>1. h2[v] = h[v] \/ h2[v].pc = "dead"
      OBVIOUS
    <3> QED
      BY <2>1, <2>2, <2>5, <3>1 DEF FileOK
  <2>6. {"storage", "crash"} \cap fs # {}
    OBVIOUS
  <2> QED
    BY <2>3, <2>4, <2>5, <2>6 DEF FileOK
<1> QED
  BY <1>1, <1>2, <1>3 DEF FilesGood

-----------------------------------------------------------------------------
(* What a request that reached resume-service says of its user. *)
LEMMA UpstreamUser ==
  ASSUME FilesInv, NEW r \in Requests, At(r, "upstream"), ~IsPublic(r)
  PROVE  exchange[r].userId \in Users
BY GateReads DEF FilesInv, At, ExchangeOK

LEMMA StartUploadKeeps ==
  ASSUME FilesInv, NEW r \in Requests, StartUpload(r)
  PROVE  FilesInv'
<1>1. /\ r \in Uploads /\ At(r, "upstream") /\ ~IsPublic(r)
      /\ handler[r].pc = "none" /\ UNCHANGED <<gatewayVars, row, objects>>
  BY FileRequestAssumption DEF StartUpload, Receive, Doing, IsPublic
<1>2. PICK fs, h, ro, ob, u :
        fs = faults /\ h = handler /\ ro = row /\ ob = objects /\ u = exchange[r].userId
  OBVIOUS
<1>3. FilesGood(fs, h, ro, ob) /\ h \in [Requests -> Handler] /\ u \in Users
  BY <1>1, <1>2, UpstreamUser DEF FilesInv, FilesGood
<1>4. PICK h2 : h2 = Received(h, r, "put", u, r)
  OBVIOUS
<1>5. /\ h2 \in [Requests -> Handler] /\ \A v \in Requests : v # r => h2[v] = h[v]
      /\ h2[r].pc = "put" /\ h2[r].file = r /\ h2[r].user \in Users
  BY <1>1, <1>3, <1>4, ReceiveWrites DEF HandlerPcs
<1>6. FilesGood(fs, h2, ro, ob)
  BY <1>1, <1>2, <1>3, <1>5, Begins
<1>7. handler' = h2
  BY <1>2, <1>4 DEF StartUpload, Receive, Received
<1>8. GateInv' /\ faults' = fs /\ row' = ro /\ objects' = ob
  BY <1>1, <1>2, GateUnchanged DEF FilesInv, gatewayVars
<1> QED
  BY <1>6, <1>7, <1>8 DEF FilesInv

(* A handler that has done nothing answers. *)
LEMMA EarlyReplyKeeps ==
  ASSUME FilesInv, NEW r \in Requests, handler[r].pc = "none",
         NEW st \in AnswerStatuses, Reply(r, st), UNCHANGED <<gatewayVars, row, objects>>
  PROVE  FilesInv'
<1>1. PICK fs, h, ro, ob : fs = faults /\ h = handler /\ ro = row /\ ob = objects
  OBVIOUS
<1>2. FilesGood(fs, h, ro, ob) /\ h \in [Requests -> Handler] /\ h[r].pc = "none"
  BY <1>1 DEF FilesInv, FilesGood
<1>3. PICK h2 : h2 = Replied(h, r, st)
  OBVIOUS
<1>4. /\ h2 \in [Requests -> Handler] /\ \A v \in Requests : v # r => h2[v] = h[v]
      /\ h2[r].pc = "answered"
  BY <1>2, <1>3, ReplyWrites
<1>5. FilesGood(fs, h2, ro, ob)
  BY <1>2, <1>4, Begins
<1>6. handler' = h2
  BY <1>1, <1>3 DEF Reply, Replied
<1>7. GateInv' /\ faults' = fs /\ row' = ro /\ objects' = ob
  BY <1>1, GateUnchanged DEF FilesInv, gatewayVars
<1> QED
  BY <1>5, <1>6, <1>7 DEF FilesInv

LEMMA RejectUploadKeeps ==
  ASSUME FilesInv, NEW r \in Requests, RejectUpload(r)
  PROVE  FilesInv'
<1>1. /\ handler[r].pc = "none" /\ Reply(r, 400) /\ UNCHANGED <<gatewayVars, row, objects>>
  BY DEF RejectUpload, Doing, Throw, ERROR_STATUS
<1> QED
  BY <1>1, EarlyReplyKeeps DEF AnswerStatuses

LEMMA FindKeeps ==
  ASSUME FilesInv, NEW r \in Requests, NEW next \in {"answered", "deleteRow"}, Find(r, next)
  PROVE  FilesInv'
<1>1. /\ ~IsPublic(r) /\ r \notin Uploads /\ At(r, "upstream") /\ handler[r].pc = "none"
      /\ UNCHANGED <<gatewayVars, row, objects>>
  BY DEF Find, Doing
<1>2. CASE Throw(r, "INTERNAL") \/ Reply(r, 404)
  <2>1. Reply(r, 500) \/ Reply(r, 404)
    BY <1>2 DEF Throw, ERROR_STATUS
  <2> QED
    BY <1>1, <2>1, EarlyReplyKeeps DEF AnswerStatuses
<1>3. CASE ~(Throw(r, "INTERNAL") \/ Reply(r, 404))
  <2>1. PICK fs, h, ro, ob, u :
          fs = faults /\ h = handler /\ ro = row /\ ob = objects /\ u = exchange[r].userId
    OBVIOUS
  <2>2. /\ FilesGood(fs, h, ro, ob) /\ h \in [Requests -> Handler] /\ u \in Users
        /\ h[r].pc = "none"
    BY <1>1, <2>1, UpstreamUser DEF FilesInv, FilesGood
  <2>3. PICK f \in Uploads, st \in {0, 200} :
          /\ ro[f] = u
          /\ handler' = [h EXCEPT ![r] = [pc |-> next, user |-> u, file |-> f, status |-> st]]
    <3>1. PICK f \in Uploads :
            handler' = [handler EXCEPT ![r] =
              IF row[f] = exchange[r].userId
              THEN [pc |-> next, user |-> exchange[r].userId, file |-> f,
                    status |-> IF next = "answered" THEN 200 ELSE 0]
              ELSE [@ EXCEPT !.pc = "answered", !.status = ERROR_STATUS.NOT_FOUND]]
      BY <1>3 DEF Find
    <3>2. CASE row[f] # exchange[r].userId
      <4>1. handler' = [handler EXCEPT ![r] =
                          [@ EXCEPT !.pc = "answered", !.status = 404]]
        BY <3>1, <3>2 DEF ERROR_STATUS
      <4>2. Reply(r, 404)
        <5>1. PICK h2 : h2 = handler'
          OBVIOUS
        <5>2. h2 = RepliedAtOnce(h, r, 404)
          BY <2>1, <4>1, <5>1 DEF RepliedAtOnce
        <5>3. h2 = Replied(h, r, 404)
          BY <2>2, <5>2, RepliedAsOne
        <5> QED
          BY <2>1, <5>1, <5>3 DEF Reply, Replied
      <4> QED
        BY <1>3, <4>2
    <3>3. CASE row[f] = exchange[r].userId
      <4>1. PICK st \in {0, 200} : st = IF next = "answered" THEN 200 ELSE 0
        OBVIOUS
      <4>2. handler' = [h EXCEPT ![r] = [pc |-> next, user |-> u, file |-> f, status |-> st]]
        BY <2>1, <3>1, <3>3, <4>1
      <4> QED
        BY <2>1, <3>3, <4>2
    <3> QED
      BY <3>2, <3>3
  <2> DEFINE x == [pc |-> next, user |-> u, file |-> f, status |-> st]
  <2>4. handler' = [h EXCEPT ![r] = x]
    BY <2>3
  <2>5. x \in Handler /\ x.pc = next /\ x.file = f
    BY <2>2 DEF Handler
  <2> HIDE DEF x
  <2>6. PICK h2 : h2 = [h EXCEPT ![r] = x]
    OBVIOUS
  <2>7. /\ h2 \in [Requests -> Handler] /\ \A v \in Requests : v # r => h2[v] = h[v]
        /\ h2[r] = x
    BY <2>2, <2>5, <2>6, HandlerWrites
  <2>8. ro[f] # Nobody
    BY <2>2, <2>3, NameAssumption
  <2>9. FilesGood(fs, h2, ro, ob)
    <3>1. CASE next = "answered"
      BY <2>2, <2>5, <2>7, <3>1, Begins
    <3>2. CASE next = "deleteRow"
      BY <1>1, <2>2, <2>5, <2>7, <2>8, <3>2, Begins
    <3> QED
      BY <3>1, <3>2
  <2>10. GateInv' /\ faults' = fs /\ handler' = h2 /\ row' = ro /\ objects' = ob
    BY <1>1, <2>1, <2>4, <2>6, GateUnchanged DEF FilesInv, gatewayVars
  <2> QED
    BY <2>9, <2>10 DEF FilesInv
<1> QED
  BY <1>2, <1>3

LEMMA PutObjectKeeps ==
  ASSUME FilesInv, NEW r \in Requests, PutObject(r)
  PROVE  FilesInv'
<1>1. PICK fs, h, ro, ob : fs = faults /\ h = handler /\ ro = row /\ ob = objects
  OBVIOUS
<1>2. FilesGood(fs, h, ro, ob) /\ h \in [Requests -> Handler] /\ h[r].pc = "put"
  BY <1>1 DEF FilesInv, FilesGood, PutObject, Doing
<1>3. PICK ob2 \in SUBSET (ob \cup {r}) : ob2 = objects' /\ ob \subseteq ob2
  BY <1>1 DEF PutObject, OrLost
<1>4. PICK h2 : h2 = handler'
  OBVIOUS
<1>5. FilesGood(fs, h2, ro, ob2)
  <2>1. CASE GoOn(r, "create") /\ objects' = objects \cup {r}
    <3>1. h2 = [h EXCEPT ![r].pc = "create"] /\ r \in ob2
      BY <1>1, <1>3, <1>4, <2>1 DEF GoOn
    <3>2. /\ h2 \in [Requests -> Handler] /\ \A v \in Requests : v # r => h2[v] = h[v]
          /\ h2[r].pc = "create" /\ h2[r].file = h[r].file /\ h2[r].user = h[r].user
      BY <1>2, <3>1, GoOnWrites DEF HandlerPcs
    <3>3. r \in ob2 /\ ob2 \in SUBSET (ob \cup {r}) /\ ob \subseteq ob2
      BY <1>3, <3>1
    <3> QED
      BY <1>2, <3>2, <3>3, Puts
  <2>2. CASE Fails("storage") /\ Throw(r, "INTERNAL")
    <3>1. h2 = Replied(h, r, 500) /\ "storage" \in fs
      BY <1>1, <1>4, <2>2 DEF Fails, Throw, Reply, Replied, ERROR_STATUS
    <3>2. /\ h2 \in [Requests -> Handler] /\ \A v \in Requests : v # r => h2[v] = h[v]
          /\ h2[r].pc = "answered"
      BY <1>2, <3>1, ReplyWrites DEF AnswerStatuses
    <3>3. ob2 \in SUBSET (ob \cup {r}) /\ ob \subseteq ob2 /\ "storage" \in fs
      BY <1>3, <3>1
    <3> QED
      BY <1>2, <3>2, <3>3, Puts
  <2> QED
    BY <2>1, <2>2 DEF PutObject
<1>6. GateInv' /\ faults' = fs /\ row' = ro
  BY <1>1, GateUnchanged DEF PutObject, FilesInv, gatewayVars
<1> QED
  BY <1>3, <1>4, <1>5, <1>6 DEF FilesInv

LEMMA CreateRowKeeps ==
  ASSUME FilesInv, NEW r \in Requests, CreateRow(r)
  PROVE  FilesInv'
<1>1. PICK fs, h, ro, ob : fs = faults /\ h = handler /\ ro = row /\ ob = objects
  OBVIOUS
<1>2. FilesGood(fs, h, ro, ob) /\ h \in [Requests -> Handler] /\ h[r].pc = "create"
  BY <1>1 DEF FilesInv, FilesGood, CreateRow, Doing
<1>3. PICK h2, ro2 : h2 = handler' /\ ro2 = row'
  OBVIOUS
<1>4. FilesGood(fs, h2, ro2, ob)
  <2>1. CASE Reply(r, 201) /\ row' = [row EXCEPT ![r] = handler[r].user]
    <3>1. /\ h2 = Replied(h, r, 201)
          /\ ro2 = [ro EXCEPT ![r] = h[r].user]
      BY <1>1, <1>3, <2>1 DEF Reply, Replied
    <3>2. /\ h2 \in [Requests -> Handler] /\ \A v \in Requests : v # r => h2[v] = h[v]
          /\ h2[r].pc = "answered"
      BY <1>2, <3>1, ReplyWrites DEF AnswerStatuses
    <3>3. /\ ro2 = ro \/ ro2 = [ro EXCEPT ![r] = h[r].user]
          /\ h2[r].pc = "answered" /\ ro2 = [ro EXCEPT ![r] = h[r].user]
      BY <3>1, <3>2
    <3> QED
      BY <1>2, <3>2, <3>3, Creates
  <2>2. CASE /\ Fails("db") /\ GoOn(r, "cleanUp")
             /\ row' \in OrLost(row, [row EXCEPT ![r] = handler[r].user])
    <3>1. /\ h2 = [h EXCEPT ![r].pc = "cleanUp"]
          /\ ro2 = ro \/ (ro2 = [ro EXCEPT ![r] = h[r].user] /\ ReplyLost(fs))
      BY <1>1, <1>3, <2>2 DEF Fails, GoOn, OrLost, ReplyLost
    <3>2. /\ h2 \in [Requests -> Handler] /\ \A v \in Requests : v # r => h2[v] = h[v]
          /\ h2[r].pc = "cleanUp" /\ h2[r].file = h[r].file /\ h2[r].user = h[r].user
      BY <1>2, <3>1, GoOnWrites DEF HandlerPcs
    <3> QED
      BY <1>2, <3>1, <3>2, Creates
  <2> QED
    BY <2>1, <2>2 DEF CreateRow
<1>5. GateInv' /\ faults' = fs /\ objects' = ob
  BY <1>1, GateUnchanged DEF CreateRow, FilesInv, gatewayVars
<1> QED
  BY <1>3, <1>4, <1>5 DEF FilesInv

LEMMA RemoveObjectKeeps ==
  ASSUME FilesInv, NEW r \in Requests, NEW pc \in {"cleanUp", "deleteObject"},
         NEW st \in AnswerStatuses, RemoveObject(r, pc, st)
  PROVE  FilesInv'
<1>1. PICK fs, h, ro, ob : fs = faults /\ h = handler /\ ro = row /\ ob = objects
  OBVIOUS
<1>2. FilesGood(fs, h, ro, ob) /\ h \in [Requests -> Handler] /\ h[r].pc = pc
  BY <1>1 DEF FilesInv, FilesGood, RemoveObject, Doing
<1>3. PICK h2, ob2 : h2 = handler' /\ ob2 = objects'
  OBVIOUS
<1>4. /\ h2 = Replied(h, r, st)
      /\ ob2 = ob \ {h[r].file} \/ (ob2 = ob /\ "storage" \in fs)
  BY <1>1, <1>3 DEF RemoveObject, Reply, Replied, Fails
<1>5. /\ h2 \in [Requests -> Handler] /\ \A v \in Requests : v # r => h2[v] = h[v]
      /\ h2[r].pc = "answered"
  BY <1>2, <1>4, ReplyWrites
<1>6. FilesGood(fs, h2, ro, ob2)
  BY <1>2, <1>4, <1>5, Removes
<1>7. GateInv' /\ faults' = fs /\ row' = ro
  BY <1>1, GateUnchanged DEF RemoveObject, FilesInv, gatewayVars
<1> QED
  BY <1>3, <1>6, <1>7 DEF FilesInv

LEMMA DeleteRowKeeps ==
  ASSUME FilesInv, NEW r \in Requests, DeleteRow(r)
  PROVE  FilesInv'
<1>1. PICK fs, h, ro, ob : fs = faults /\ h = handler /\ ro = row /\ ob = objects
  OBVIOUS
<1>2. FilesGood(fs, h, ro, ob) /\ h \in [Requests -> Handler] /\ h[r].pc = "deleteRow"
  BY <1>1 DEF FilesInv, FilesGood, DeleteRow, Doing
<1>3. PICK h2, ro2 : h2 = handler' /\ ro2 = row'
  OBVIOUS
<1>4. FilesGood(fs, h2, ro2, ob)
  <2>1. CASE GoOn(r, "deleteObject") /\ row' = [row EXCEPT ![handler[r].file] = Nobody]
    <3>1. /\ h2 = [h EXCEPT ![r].pc = "deleteObject"]
          /\ ro2 = [ro EXCEPT ![h[r].file] = Nobody]
      BY <1>1, <1>3, <2>1 DEF GoOn
    <3>2. /\ h2 \in [Requests -> Handler] /\ \A v \in Requests : v # r => h2[v] = h[v]
          /\ h2[r].pc = "deleteObject" /\ h2[r].file = h[r].file
      BY <1>2, <3>1, GoOnWrites DEF HandlerPcs
    <3> QED
      BY <1>2, <3>1, <3>2, Deletes
  <2>2. CASE /\ Throw(r, "INTERNAL")
             /\ \/ row' = row
                \/ /\ Fails("db")
                   /\ row' \in OrLost(row, [row EXCEPT ![handler[r].file] = Nobody])
    <3>1. /\ h2 = Replied(h, r, 500)
          /\ ro2 = ro \/ (ReplyLost(fs) /\ ro2 = [ro EXCEPT ![h[r].file] = Nobody])
      BY <1>1, <1>3, <2>2 DEF Fails, Throw, Reply, Replied, ERROR_STATUS, OrLost, ReplyLost
    <3>2. /\ h2 \in [Requests -> Handler] /\ \A v \in Requests : v # r => h2[v] = h[v]
          /\ h2[r].pc = "answered"
      BY <1>2, <3>1, ReplyWrites DEF AnswerStatuses
    <3> QED
      BY <1>2, <3>1, <3>2, Deletes
  <2> QED
    BY <2>1, <2>2 DEF DeleteRow
<1>5. GateInv' /\ faults' = fs /\ objects' = ob
  BY <1>1, GateUnchanged DEF DeleteRow, FilesInv, gatewayVars
<1> QED
  BY <1>3, <1>4, <1>5 DEF FilesInv

LEMMA CrashKeeps ==
  ASSUME FilesInv, Crash
  PROVE  FilesInv'
<1>1. PICK fs, h, ro, ob : fs = faults /\ h = handler /\ ro = row /\ ob = objects
  OBVIOUS
<1>2. FilesGood(fs, h, ro, ob) /\ h \in [Requests -> Handler] /\ "crash" \in fs
  BY <1>1 DEF FilesInv, FilesGood, Crash, Fails
<1>3. PICK h2 : h2 = [r \in Requests |-> IF r \in Busy THEN [h[r] EXCEPT !.pc = "dead"] ELSE h[r]]
  OBVIOUS
<1>4. ASSUME NEW v \in Requests
      PROVE  /\ h2[v] \in Handler
             /\ h2[v] = h[v] \/ (h[v].pc # "none" /\ h2[v].pc = "dead")
  <2>1. h[v] \in Handler
    BY <1>2
  <2>2. CASE v \in Busy
    <3>1. PICK x : x = [h[v] EXCEPT !.pc = "dead"]
      OBVIOUS
    <3>2. x \in Handler /\ x.pc = "dead"
      BY <2>1, <3>1 DEF Handler
    <3>3. h2[v] = x /\ h[v].pc # "none"
      BY <1>1, <1>3, <2>2, <3>1 DEF Busy
    <3> QED
      BY <3>2, <3>3
  <2>3. CASE v \notin Busy
    BY <1>3, <2>1, <2>3
  <2> QED
    BY <2>2, <2>3
<1>5. h2 \in [Requests -> Handler]
  BY <1>3, <1>4
<1>6. FilesGood(fs, h2, ro, ob)
  BY <1>2, <1>4, <1>5, Crashes
<1>7. GateInv' /\ faults' = fs /\ handler' = h2 /\ row' = ro /\ objects' = ob
  BY <1>1, <1>3, GateUnchanged DEF Crash, FilesInv, gatewayVars
<1> QED
  BY <1>6, <1>7 DEF FilesInv

-----------------------------------------------------------------------------
(* The gateway's steps leave the files alone, but for passing an answer on. *)
LEMMA GateStepKeeps ==
  ASSUME FilesInv, GateInv', UNCHANGED fileVars, faults' = faults
  PROVE  FilesInv'
BY DEF FilesInv, fileVars

LEMMA PassKeeps ==
  ASSUME FilesInv, NEW r \in Requests, Pass(r), UNCHANGED fileVars
  PROVE  FilesInv'
<1>1. GateInv
  BY DEF FilesInv
<1>2. CASE Arrive(r)
  BY <1>1, <1>2, ArriveKeeps, GateStepKeeps DEF Arrive
<1>3. CASE Verify(r)
  BY <1>1, <1>3, VerifyKeeps, GateStepKeeps DEF Verify
<1>4. CASE RateLimit(r)
  BY <1>1, <1>4, RateLimitKeeps, GateStepKeeps DEF RateLimit
<1>5. CASE FailOpen(r)
  BY <1>1, <1>5, FailOpenKeeps, GateStepKeeps DEF FailOpen
<1>6. CASE ProxyFails(r)
  <2>1. UpstreamAnswers(r, 502)
    BY <1>6 DEF ProxyFails
  <2>2. GateInv'
    BY <1>1, <2>1, UpstreamAnswersKeeps
  <2> QED
    BY <2>1, <2>2, GateStepKeeps DEF UpstreamAnswers
<1>7. CASE Finish(r)
  BY <1>1, <1>7, FinishKeeps, GateStepKeeps DEF Finish
<1>8. CASE Close(r)
  BY <1>1, <1>8, CloseKeeps, GateStepKeeps DEF Close
<1>9. CASE LateFinish(r)
  BY <1>1, <1>9, FinishKeeps, GateStepKeeps DEF LateFinish
<1> QED
  BY <1>2, <1>3, <1>4, <1>5, <1>6, <1>7, <1>8, <1>9 DEF Pass

LEMMA AnswerKeeps ==
  ASSUME FilesInv, NEW r \in Requests, Answer(r)
  PROVE  FilesInv'
<1>1. handler[r] \in Handler /\ GateInv
  BY DEF FilesInv, FilesGood
<1>2. handler[r].status \in AnswerStatuses
  BY <1>1 DEF Handler, AnswerStatuses
<1>3. PICK st \in AnswerStatuses \cup {502} : UpstreamAnswers(r, st)
  BY <1>2 DEF Answer, AnswerStatuses
<1>4. GateInv'
  BY <1>1, <1>3, UpstreamAnswersKeeps DEF AnswerStatuses
<1>5. UNCHANGED fileVars /\ faults' = faults
  BY <1>3 DEF Answer, UpstreamAnswers
<1> QED
  BY <1>4, <1>5, GateStepKeeps

LEMMA HandleKeeps ==
  ASSUME FilesInv, NEW r \in Requests, Handle(r)
  PROVE  FilesInv'
<1>1. CASE StartUpload(r) \/ RejectUpload(r)
  BY <1>1, StartUploadKeeps, RejectUploadKeeps
<1>2. CASE PutObject(r) \/ CreateRow(r)
  BY <1>2, PutObjectKeeps, CreateRowKeeps
<1>3. CASE CleanUp(r) \/ DeleteObject(r)
  <2>1. RemoveObject(r, "cleanUp", 500) \/ RemoveObject(r, "deleteObject", 204)
    BY <1>3 DEF CleanUp, DeleteObject, ERROR_STATUS
  <2> QED
    BY <2>1, RemoveObjectKeeps DEF AnswerStatuses
<1>4. CASE FindToRemove(r) \/ Download(r)
  BY <1>4, FindKeeps DEF FindToRemove, Download
<1>5. CASE DeleteRow(r)
  BY <1>5, DeleteRowKeeps
<1> QED
  BY <1>1, <1>2, <1>3, <1>4, <1>5 DEF Handle

LEMMA FilesInit ==
  ASSUME Init
  PROVE  FilesInv
<1>1. handler \in [Requests -> Handler] /\ \A r \in Requests : handler[r].pc = "none"
  <2>1. [pc |-> "none", user |-> Nobody, file |-> NoFile, status |-> 0] \in Handler
    BY DEF Handler
  <2> QED
    BY <2>1 DEF Init
<1>2. row \in [Uploads -> Users \cup {Nobody}] /\ objects = {}
      /\ \A f \in Uploads : row[f] = Nobody
  BY DEF Init
<1>3. \A r \in Requests : HandlerOK(handler[r], r)
  BY <1>1 DEF HandlerOK
<1>4. \A f \in Uploads : FileOK(faults, handler, row, objects, f)
  BY <1>1, <1>2, FileRequestAssumption DEF FileOK
<1> QED
  BY <1>1, <1>2, <1>3, <1>4, GateInit DEF FilesInv, FilesGood

LEMMA FilesInvHolds == Spec => []FilesInv
<1>1. Init => FilesInv
  BY FilesInit
<1>2. FilesInv /\ [Next]_vars => FilesInv'
  <2> SUFFICES ASSUME FilesInv, [Next]_vars
               PROVE  FilesInv'
    OBVIOUS
  <2>1. ASSUME NEW r \in Requests, Pass(r), UNCHANGED fileVars
        PROVE  FilesInv'
    BY <2>1, PassKeeps
  <2>2. ASSUME NEW r \in Requests, Handle(r) \/ Answer(r)
        PROVE  FilesInv'
    BY <2>2, HandleKeeps, AnswerKeeps
  <2>3. CASE NextWindow /\ UNCHANGED fileVars
    <3>1. GateInv' /\ faults' = faults
      BY <2>3, NextWindowKeeps DEF FilesInv, NextWindow
    <3> QED
      BY <2>3, <3>1, GateStepKeeps
  <2>4. CASE Crash
    BY <2>4, CrashKeeps
  <2>5. CASE UNCHANGED vars
    <3>1. GateInv' /\ faults' = faults /\ UNCHANGED fileVars
      BY <2>5, GateUnchanged DEF FilesInv, vars, gatewayVars, fileVars
    <3> QED
      BY <3>1, GateStepKeeps
  <2> QED
    BY <2>1, <2>2, <2>3, <2>4, <2>5 DEF Next
<1> QED
  BY <1>1, <1>2, PTL DEF Spec

-----------------------------------------------------------------------------
(* The gateway, the rows, the objects and the handlers keep their types. *)
THEOREM FilesTypeOK == Spec => []TypeOK
<1>1. FilesInv => TypeOK
  BY GateFinite DEF FilesInv, GateInv, GateGood, FilesGood, TypeOK, GatewayTypeOK
<1> QED
  BY <1>1, FilesInvHolds, PTL

(* The in-flight gauge counts each open, unfinished response once; all that *)
(* it ever leaks are responses cut after their end and before their flush.  *)
THEOREM GaugeIsExact == Spec => []GaugeCountsOpen
<1>1. FilesInv => GaugeCountsOpen
  <2> SUFFICES ASSUME FilesInv PROVE GaugeCountsOpen
    OBVIOUS
  <2>1. inFlight = Cardinality(CountedIn(exchange)) /\ exchange \in [Requests -> Exchange]
    BY DEF FilesInv, GateInv, GateGood
  <2>2. CountedIn(exchange) = Unfinished \cup CutAfterEnd /\ Unfinished \cap CutAfterEnd = {}
    <3>1. \A r \in Requests :
            /\ Counts(exchange[r]) <=> r \in Unfinished \/ r \in CutAfterEnd
            /\ ~(r \in Unfinished /\ r \in CutAfterEnd)
      BY DEF Counts, Unfinished, CutAfterEnd, At
    <3>2. CountedIn(exchange) \subseteq Requests /\ Unfinished \cup CutAfterEnd \subseteq Requests
      BY DEF CountedIn, Unfinished, CutAfterEnd
    <3> QED
      BY <3>1, <3>2 DEF CountedIn
  <2>3. IsFiniteSet(Unfinished) /\ IsFiniteSet(CutAfterEnd)
    BY RequestAssumption, FS_Subset DEF Unfinished, CutAfterEnd
  <2>4. /\ Cardinality(Unfinished) \in Nat /\ Cardinality(CutAfterEnd) \in Nat
        /\ Cardinality(Unfinished \cup CutAfterEnd) =
             Cardinality(Unfinished) + Cardinality(CutAfterEnd) - Cardinality({})
    <3>1. Cardinality(Unfinished) \in Nat /\ Cardinality(CutAfterEnd) \in Nat
      BY <2>3, FS_CardinalityType
    <3>2. Cardinality(Unfinished \cup CutAfterEnd) =
            Cardinality(Unfinished) + Cardinality(CutAfterEnd)
              - Cardinality(Unfinished \cap CutAfterEnd)
      BY <2>3, FS_Union
    <3> QED
      BY <2>2, <3>1, <3>2
  <2>5. Cardinality({}) = 0
    BY FS_EmptySet
  <2>6. Cardinality(CountedIn(exchange)) = Cardinality(Unfinished) + Cardinality(CutAfterEnd)
    BY <2>2, <2>4, <2>5
  <2> QED
    BY <2>1, <2>6 DEF GaugeCountsOpen
<1> QED
  BY <1>1, FilesInvHolds, PTL

(* However many requests race through the limiter, a window admits an      *)
(* identity's up to the limit, and refuses none before unless Redis failed. *)
THEOREM WindowsAdmitTheirLimit == Spec => []WindowAdmitsItsLimit
<1>1. FilesInv => WindowAdmitsItsLimit
  <2> SUFFICES ASSUME FilesInv, NEW r \in Requests
               PROVE  LET i == Identity(r)
                          w == exchange[r].bucket
                      IN /\ exchange[r].gate = "counted" =>
                              Cardinality(Metering(i, w, "counted")) <= LimitOf(r)
                         /\ exchange[r].gate = "refused" /\ "redis" \notin faults =>
                              Cardinality(Metering(i, w, "counted")) = LimitOf(r)
    BY DEF WindowAdmitsItsLimit
  <2> DEFINE i == Identity(r)
             w == exchange[r].bucket
  <2>1. CASE exchange[r].gate \in {"counted", "refused"}
    <3>1. exchange[r] \in Exchange /\ ExchangeOK(exchange[r], r) /\ w \in Windows
      BY GateReads DEF FilesInv, Exchange
    <3>2. IF IsPublic(r) THEN exchange[r].userId = Nobody
          ELSE exchange[r].token \in Users /\ exchange[r].userId = exchange[r].token
      BY <2>1, <3>1 DEF ExchangeOK
    <3>3. i = IF IsPublic(r) THEN TheIp ELSE exchange[r].userId
      BY <3>2, NameAssumption DEF Identity
    <3>4. i \in Identities /\ LimitOf(r) = Limit(i)
      BY <3>2, <3>3, NameAssumption DEF Identities, LimitOf, Limit
    <3>5. \A g : Metering(i, w, g) = MeteredIn(exchange, i, w, g)
      BY DEF Metering, MeteredIn, Identity, IdOf
    <3>6. BucketOK(faults, used[i][w], exchange, i, w)
      BY <3>1, <3>4 DEF FilesInv, GateInv, GateGood
    <3>7. exchange[r].gate = "refused" => r \in Metering(i, w, "refused")
      BY DEF Metering
    <3> QED
      BY <3>4, <3>5, <3>6, <3>7 DEF BucketOK
  <2>2. CASE exchange[r].gate \notin {"counted", "refused"}
    BY <2>2
  <2> QED
    BY <2>1, <2>2
<1> QED
  BY <1>1, FilesInvHolds, PTL

(* No header that a browser sends ever names the user a service sees.      *)
THEOREM IdentityIsVerified == Spec => []ForwardedAsVerified
<1>1. FilesInv => ForwardedAsVerified
  <2> SUFFICES ASSUME FilesInv, NEW r \in Requests,
                      exchange[r].gate \in {"counted", "unmetered"}
               PROVE  IF IsPublic(r) THEN exchange[r].userId = Nobody
                      ELSE exchange[r].token \in Users /\ exchange[r].userId = exchange[r].token
    BY DEF ForwardedAsVerified
  <2>1. ExchangeOK(exchange[r], r)
    BY GateReads DEF FilesInv
  <2> QED
    BY <2>1 DEF ExchangeOK
<1> QED
  BY <1>1, FilesInvHolds, PTL

(* A row never outlives its object, whichever calls fail and wherever the  *)
(* process dies, unless a create that threw had committed.                 *)
THEOREM RowsKeepObjects == Spec => []RowsHaveObjects
<1>1. FilesInv => RowsHaveObjects
  BY DEF FilesInv, FilesGood, FileOK, ReplyLost, RowsHaveObjects
<1> QED
  BY <1>1, FilesInvHolds, PTL

(* An object without a row is in some handler's hands, or has a failure to *)
(* blame that no handler could clean up after.                             *)
THEOREM OrphansAreExplained == Spec => []OrphansHaveACause
<1>1. FilesInv => OrphansHaveACause
  <2> SUFFICES ASSUME FilesInv, NEW f \in objects, row[f] = Nobody,
                      "storage" \notin faults, "crash" \notin faults, ~ReplyLost(faults)
               PROVE  \E r \in Busy : handler[r].file = f
    BY DEF OrphansHaveACause, ReplyLost
  <2>1. f \in Uploads /\ FileOK(faults, handler, row, objects, f)
    BY DEF FilesInv, FilesGood
  <2>2. PICK r \in Requests :
          handler[r].pc \in {"create", "cleanUp", "deleteObject"} /\ handler[r].file = f
    BY <2>1 DEF FileOK
  <2> QED
    BY <2>2 DEF Busy
<1> QED
  BY <1>1, FilesInvHolds, PTL
=============================================================================

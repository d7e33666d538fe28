----------------------------- MODULE QuotaProofs -----------------------------
(***************************************************************************)
(* Proofs about Quota for any finite sets of requests and refunds, any cap *)
(* and any number of days.  The invariant is stated of a table of counters *)
(* k, one of calls t and one of refunds f, so that its lemmas compare      *)
(* tables as constants.                                                    *)
(***************************************************************************)
EXTENDS Quota, FiniteSetTheorems, TLAPS

ChargedIn(t, d) == {c \in Calls : t[c].charged = d}
AdmittedIn(t, d) == {c \in ChargedIn(t, d) : ~t[c].over}
ReturnedIn(f, d) == {r \in Refunds : f[r].on = d}

(* The day's refunds are of its own requests, and no two of one request. *)
OwnIn(t, f, d) ==
  /\ \A r \in ReturnedIn(f, d) : f[r].of \in ChargedIn(t, d)
  /\ \A r, s \in ReturnedIn(f, d) : f[r].of = f[s].of => r = s

(* What a request has done by the place where it stands, and that it was   *)
(* only turned away on a day of more than Cap requests.                    *)
CallOK(t, c) ==
  /\ t[c].pc = "new" => t[c].charged = None /\ ~t[c].over
  /\ t[c].pc # "new" => t[c].charged \in Days
  /\ t[c].over => Cardinality(ChargedIn(t, t[c].charged)) > Cap

(* A refund is of an admitted request, and deletes on no ordinary day. *)
RefundOK(t, f, r) ==
  /\ f[r].pc = "new" => f[r].on = None
  /\ f[r].pc # "new" => /\ f[r].on \in Days
                        /\ f[r].of \in Calls
                        /\ t[f[r].of].pc = "admitted"
  /\ f[r].pc \in {"delete", "lost"} => ~OwnIn(t, f, f[r].on)

AllUnset(t, d) == \A x \in ChargedIn(t, d) : t[x].pc \in {"expire", "lost"}

(* Somebody will give day d's key a TTL or delete it, or died before that: *)
(* KeysExpire, with the day each call works on.                            *)
Cared(t, f, d) ==
  \/ \E c \in ChargedIn(t, d) :
       \/ t[c].pc = "expire"
       \/ t[c].pc = "lost" /\ (~OwnIn(t, f, d) \/ AllUnset(t, d))
  \/ \E r \in ReturnedIn(f, d) : f[r].pc \in {"delete", "lost"}

(* A day's counter q never exceeds the requests of the day.  On a day of   *)
(* its own refunds it is exact, within the cap, never deleted, and until   *)
(* it has a TTL none of its calls is past setting one.                     *)
DayOK(q, t, f, d) ==
  /\ q.n <= Cardinality(ChargedIn(t, d))
  /\ ~q.on => q.n = 0
  /\ OwnIn(t, f, d) =>
       /\ q.n = Cardinality(ChargedIn(t, d)) - Cardinality(ReturnedIn(f, d))
       /\ Cardinality(AdmittedIn(t, d)) - Cardinality(ReturnedIn(f, d)) <= Cap
       /\ ChargedIn(t, d) # {} => q.on
       /\ q.on /\ ~q.ttl => AllUnset(t, d)
  /\ q.on /\ ~q.ttl => Cared(t, f, d)

Good(k, t, f) ==
  /\ k \in [Days -> Key]
  /\ t \in [Calls -> Call]
  /\ f \in [Refunds -> Refunding]
  /\ \A c \in Calls : CallOK(t, c)
  /\ \A r \in Refunds : RefundOK(t, f, r)
  /\ \A d \in Days : DayOK(k[d], t, f, d)

QuotaInv == day \in Days /\ Good(key, call, refund)

-----------------------------------------------------------------------------
(* The sets a day is accounted by are finite, and on a day of its own      *)
(* refunds no more was given back than taken.                              *)
LEMMA DayFinite ==
  ASSUME NEW t, NEW f, NEW d
  PROVE  /\ IsFiniteSet(ChargedIn(t, d)) /\ Cardinality(ChargedIn(t, d)) \in Nat
         /\ IsFiniteSet(ReturnedIn(f, d)) /\ Cardinality(ReturnedIn(f, d)) \in Nat
         /\ IsFiniteSet(AdmittedIn(t, d)) /\ Cardinality(AdmittedIn(t, d)) \in Nat
         /\ Cardinality(AdmittedIn(t, d)) <= Cardinality(ChargedIn(t, d))
<1>1. /\ ChargedIn(t, d) \subseteq Calls /\ ReturnedIn(f, d) \subseteq Refunds
      /\ AdmittedIn(t, d) \subseteq ChargedIn(t, d)
  BY DEF ChargedIn, ReturnedIn, AdmittedIn
<1>2. IsFiniteSet(ChargedIn(t, d)) /\ IsFiniteSet(ReturnedIn(f, d))
  BY <1>1, CallAssumption, RefundAssumption, FS_Subset
<1>3. IsFiniteSet(AdmittedIn(t, d)) /\ Cardinality(AdmittedIn(t, d)) <= Cardinality(ChargedIn(t, d))
  BY <1>1, <1>2, FS_Subset
<1> QED
  BY <1>2, <1>3, FS_CardinalityType

LEMMA OwnBounds ==
  ASSUME NEW t, NEW f, NEW d, OwnIn(t, f, d)
  PROVE  Cardinality(ReturnedIn(f, d)) <= Cardinality(ChargedIn(t, d))
<1> DEFINE g == [r \in ReturnedIn(f, d) |-> f[r].of]
<1>1. g \in Injection(ReturnedIn(f, d), ChargedIn(t, d))
  BY DEF OwnIn, Injection, IsInjective
<1> HIDE DEF g
<1> QED
  BY <1>1, DayFinite, FS_Injection

(* A step that rewrites one request's record counts it on a day, or leaves *)
(* its day alone; and it is not one that was admitted before.              *)
MovesCall(r, s) ==
  /\ r.charged = s.charged \/ s.charged = None
  /\ s.pc # "admitted"

LEMMA NewCall ==
  ASSUME NEW t \in [Calls -> Call], NEW c \in Calls, NEW r \in Call,
         NEW t2, t2 = [t EXCEPT ![c] = r]
  PROVE  /\ t2 \in [Calls -> Call]
         /\ t2[c] = r
         /\ \A u \in Calls : u # c => t2[u] = t[u]
         /\ t[c] \in Call
OBVIOUS

(* The requests of a day only grow in number, and a day with refunds that  *)
(* are not its own stays one.                                              *)
LEMMA CallDays ==
  ASSUME NEW t \in [Calls -> Call], NEW c \in Calls, NEW r \in Call, MovesCall(r, t[c]),
         NEW f, \A x \in Refunds : RefundOK(t, f, x),
         NEW t2, t2 = [t EXCEPT ![c] = r], NEW e \in Days
  PROVE  /\ Cardinality(ChargedIn(t, e)) <= Cardinality(ChargedIn(t2, e))
         /\ ~OwnIn(t, f, e) => ~OwnIn(t2, f, e)
<1>1. t2[c] = r /\ \A v \in Calls : v # c => t2[v] = t[v]
  BY NewCall
<1>2. e # None
  BY DayAssumption DEF Days, None
<1>3. ChargedIn(t, e) \subseteq ChargedIn(t2, e)
  BY <1>1, <1>2 DEF ChargedIn, MovesCall
<1>4. Cardinality(ChargedIn(t, e)) <= Cardinality(ChargedIn(t2, e))
  BY <1>3, DayFinite, FS_Subset
<1>5. ASSUME NEW x \in ReturnedIn(f, e), f[x].of \notin ChargedIn(t, e)
      PROVE  f[x].of \notin ChargedIn(t2, e)
  <2>1. x \in Refunds /\ f[x].on = e /\ RefundOK(t, f, x)
    BY DEF ReturnedIn
  <2>2. f[x].of \in Calls /\ t[f[x].of].pc = "admitted"
    BY <1>2, <2>1 DEF RefundOK
  <2>3. f[x].of # c
    BY <2>2 DEF MovesCall
  <2> QED
    BY <1>1, <1>5, <2>2, <2>3 DEF ChargedIn
<1>6. ~OwnIn(t, f, e) => ~OwnIn(t2, f, e)
  BY <1>5 DEF OwnIn
<1> QED
  BY <1>4, <1>6

(* The other requests stay as they should be, *)
LEMMA OtherCalls ==
  ASSUME NEW t \in [Calls -> Call], NEW c \in Calls, NEW r \in Call, MovesCall(r, t[c]),
         NEW f, \A x \in Refunds : RefundOK(t, f, x),
         NEW t2, t2 = [t EXCEPT ![c] = r], NEW u \in Calls, u # c, CallOK(t, u)
  PROVE  CallOK(t2, u)
<1>1. t2[u] = t[u]
  BY NewCall
<1>2. ASSUME t[u].over
      PROVE  Cardinality(ChargedIn(t2, t[u].charged)) > Cap
  <2>1. PICK e : e = t[u].charged
    OBVIOUS
  <2>2. e \in Days /\ Cardinality(ChargedIn(t, e)) > Cap
    BY <1>2, <2>1 DEF CallOK
  <2>3. Cardinality(ChargedIn(t, e)) <= Cardinality(ChargedIn(t2, e))
    BY <2>2, CallDays
  <2>4. Cardinality(ChargedIn(t, e)) \in Nat /\ Cardinality(ChargedIn(t2, e)) \in Nat /\ Cap \in Nat
    BY DayFinite, CapAssumption
  <2>5. Cardinality(ChargedIn(t2, e)) > Cap
    BY <2>2, <2>3, <2>4
  <2> QED
    BY <2>1, <2>5
<1> QED
  BY <1>1, <1>2 DEF CallOK

(* and so do the refunds. *)
LEMMA RefundsStay ==
  ASSUME NEW t \in [Calls -> Call], NEW c \in Calls, NEW r \in Call, MovesCall(r, t[c]),
         NEW f, \A x \in Refunds : RefundOK(t, f, x),
         NEW t2, t2 = [t EXCEPT ![c] = r], NEW u \in Refunds
  PROVE  RefundOK(t2, f, u)
<1>1. t2[c] = r /\ \A v \in Calls : v # c => t2[v] = t[v]
  BY NewCall
<1>2. RefundOK(t, f, u)
  OBVIOUS
<1>3. ASSUME f[u].pc # "new"
      PROVE  t2[f[u].of].pc = "admitted"
  <2>1. f[u].of \in Calls /\ t[f[u].of].pc = "admitted"
    BY <1>2, <1>3 DEF RefundOK
  <2>2. f[u].of # c
    BY <2>1 DEF MovesCall
  <2> QED
    BY <1>1, <2>1, <2>2
<1>4. ASSUME f[u].pc \in {"delete", "lost"}
      PROVE  ~OwnIn(t2, f, f[u].on)
  <2>1. PICK e \in Days : e = f[u].on /\ ~OwnIn(t, f, e)
    BY <1>2, <1>4 DEF RefundOK
  <2>2. ~OwnIn(t, f, e) => ~OwnIn(t2, f, e)
    BY CallDays
  <2> QED
    BY <2>1, <2>2
<1> QED
  BY <1>2, <1>3, <1>4 DEF RefundOK

(* A day the request is not counted on stays as it should be. *)
LEMMA OtherCallDay ==
  ASSUME NEW t \in [Calls -> Call], NEW c \in Calls, NEW r \in Call, NEW d \in Days,
         r.charged # d, t[c].charged # d, NEW f, NEW q, DayOK(q, t, f, d),
         NEW t2, t2 = [t EXCEPT ![c] = r]
  PROVE  DayOK(q, t2, f, d)
<1>1. t2[c] = r /\ \A v \in Calls : v # c => t2[v] = t[v]
  BY NewCall
<1>2. ChargedIn(t2, d) = ChargedIn(t, d)
  BY <1>1 DEF ChargedIn
<1>3. \A x \in ChargedIn(t, d) : x \in Calls /\ t2[x] = t[x]
  BY <1>1 DEF ChargedIn
<1>4. AdmittedIn(t2, d) = AdmittedIn(t, d)
  BY <1>2, <1>3 DEF AdmittedIn
<1>5. OwnIn(t2, f, d) = OwnIn(t, f, d)
  BY <1>2 DEF OwnIn
<1>6. AllUnset(t2, d) = AllUnset(t, d)
  BY <1>2, <1>3 DEF AllUnset
<1>7. Cared(t2, f, d) = Cared(t, f, d)
  BY <1>2, <1>3, <1>5, <1>6 DEF Cared
<1> QED
  BY <1>2, <1>4, <1>5, <1>6, <1>7 DEF DayOK

(* So a request's step only owes its own record and the day it works on. *)
LEMMA GoodCall ==
  ASSUME NEW k, NEW t, NEW f, Good(k, t, f), NEW c \in Calls, NEW r \in Call,
         MovesCall(r, t[c]), NEW d \in Days, NEW q \in Key,
         \A e \in Days : e # d => r.charged # e /\ t[c].charged # e,
         NEW t2, t2 = [t EXCEPT ![c] = r], CallOK(t2, c), DayOK(q, t2, f, d)
  PROVE  Good([k EXCEPT ![d] = q], t2, f)
<1>1. /\ t \in [Calls -> Call] /\ k \in [Days -> Key] /\ f \in [Refunds -> Refunding]
      /\ \A u \in Calls : CallOK(t, u)
      /\ \A x \in Refunds : RefundOK(t, f, x)
      /\ \A e \in Days : DayOK(k[e], t, f, e)
  BY DEF Good
<1>2. t2 \in [Calls -> Call] /\ [k EXCEPT ![d] = q] \in [Days -> Key]
  BY <1>1
<1>3. \A u \in Calls : u # c => CallOK(t2, u)
  BY <1>1, OtherCalls
<1>4. \A x \in Refunds : RefundOK(t2, f, x)
  BY <1>1, RefundsStay
<1>5. ASSUME NEW e \in Days
      PROVE  DayOK([k EXCEPT ![d] = q][e], t2, f, e)
  <2>1. CASE e = d
    BY <1>1, <2>1
  <2>2. CASE e # d
    <3>1. [k EXCEPT ![d] = q][e] = k[e]
      BY <1>1, <2>2
    <3>2. DayOK(k[e], t2, f, e)
      BY <1>1, <2>2, OtherCallDay
    <3> QED
      BY <3>1, <3>2
  <2> QED
    BY <2>1, <2>2
<1> QED
  BY <1>1, <1>2, <1>3, <1>4, <1>5 DEF Good

(* A step that rewrites one refund's record begins it, or leaves alone what *)
(* it is of and its day.                                                    *)
MovesRefund(g, s) == s.pc = "new" \/ (g.of = s.of /\ g.on = s.on)

LEMMA NewRefund ==
  ASSUME NEW f \in [Refunds -> Refunding], NEW r \in Refunds, NEW g \in Refunding,
         NEW f2, f2 = [f EXCEPT ![r] = g]
  PROVE  /\ f2 \in [Refunds -> Refunding]
         /\ f2[r] = g
         /\ \A u \in Refunds : u # r => f2[u] = f[u]
         /\ f[r] \in Refunding
OBVIOUS

LEMMA OtherRefunds ==
  ASSUME NEW t, NEW f \in [Refunds -> Refunding], NEW r \in Refunds, NEW g \in Refunding,
         MovesRefund(g, f[r]), RefundOK(t, f, r),
         NEW f2, f2 = [f EXCEPT ![r] = g], NEW u \in Refunds, u # r, RefundOK(t, f, u)
  PROVE  RefundOK(t, f2, u)
<1>1. f2[r] = g /\ \A v \in Refunds : v # r => f2[v] = f[v]
  BY NewRefund
<1>2. f2[u] = f[u]
  BY <1>1
<1>3. ASSUME NEW e \in Days, ~OwnIn(t, f, e)
      PROVE  ~OwnIn(t, f2, e)
  <2>1. e # None
    BY DayAssumption DEF Days, None
  <2>2. \A x \in ReturnedIn(f, e) : x \in ReturnedIn(f2, e) /\ f2[x].of = f[x].of
    BY <1>1, <2>1 DEF ReturnedIn, MovesRefund, RefundOK
  <2> QED
    BY <1>3, <2>2 DEF OwnIn
<1> QED
  BY <1>2, <1>3 DEF RefundOK

LEMMA OtherRefundDay ==
  ASSUME NEW t, NEW f \in [Refunds -> Refunding], NEW r \in Refunds, NEW g \in Refunding,
         NEW d, g.on # d, f[r].on # d, NEW q, DayOK(q, t, f, d),
         NEW f2, f2 = [f EXCEPT ![r] = g]
  PROVE  DayOK(q, t, f2, d)
<1>1. f2[r] = g /\ \A v \in Refunds : v # r => f2[v] = f[v]
  BY NewRefund
<1>2. ReturnedIn(f2, d) = ReturnedIn(f, d)
  BY <1>1 DEF ReturnedIn
<1>3. \A x \in ReturnedIn(f, d) : f2[x] = f[x]
  BY <1>1 DEF ReturnedIn
<1>4. OwnIn(t, f2, d) <=> OwnIn(t, f, d)
  <2>1. /\ (\A x \in ReturnedIn(f2, d) : f2[x].of \in ChargedIn(t, d))
           <=> \A x \in ReturnedIn(f, d) : f[x].of \in ChargedIn(t, d)
        /\ (\A x, y \in ReturnedIn(f2, d) : f2[x].of = f2[y].of => x = y)
           <=> \A x, y \in ReturnedIn(f, d) : f[x].of = f[y].of => x = y
    BY <1>2, <1>3
  <2> QED
    BY <2>1 DEF OwnIn
<1>5. Cared(t, f2, d) = Cared(t, f, d)
  BY <1>2, <1>3, <1>4 DEF Cared
<1> QED
  BY <1>2, <1>4, <1>5 DEF DayOK

LEMMA GoodRefund ==
  ASSUME NEW k, NEW t, NEW f, Good(k, t, f), NEW r \in Refunds, NEW g \in Refunding,
         MovesRefund(g, f[r]), NEW d \in Days, NEW q \in Key,
         \A e \in Days : e # d => g.on # e /\ f[r].on # e,
         NEW f2, f2 = [f EXCEPT ![r] = g], RefundOK(t, f2, r), DayOK(q, t, f2, d)
  PROVE  Good([k EXCEPT ![d] = q], t, f2)
<1>1. /\ t \in [Calls -> Call] /\ k \in [Days -> Key] /\ f \in [Refunds -> Refunding]
      /\ \A u \in Calls : CallOK(t, u)
      /\ \A x \in Refunds : RefundOK(t, f, x)
      /\ \A e \in Days : DayOK(k[e], t, f, e)
  BY DEF Good
<1>2. f2 \in [Refunds -> Refunding] /\ [k EXCEPT ![d] = q] \in [Days -> Key]
  BY <1>1
<1>3. \A u \in Refunds : RefundOK(t, f2, u)
  BY <1>1, OtherRefunds
<1>4. ASSUME NEW e \in Days
      PROVE  DayOK([k EXCEPT ![d] = q][e], t, f2, e)
  <2>1. CASE e = d
    BY <1>1, <2>1
  <2>2. CASE e # d
    <3>1. [k EXCEPT ![d] = q][e] = k[e]
      BY <1>1, <2>2
    <3>2. DayOK(k[e], t, f2, e)
      BY <1>1, <2>2, OtherRefundDay
    <3> QED
      BY <3>1, <3>2
  <2> QED
    BY <2>1, <2>2
<1> QED
  BY <1>1, <1>2, <1>3, <1>4 DEF Good

-----------------------------------------------------------------------------
(* Where every action starts: the records it reads. *)
LEMMA Reads ==
  ASSUME QuotaInv
  PROVE  /\ key \in [Days -> Key] /\ call \in [Calls -> Call] /\ refund \in [Refunds -> Refunding]
         /\ Good(key, call, refund)
         /\ \A c \in Calls : call[c] \in Call /\ CallOK(call, c)
         /\ \A r \in Refunds : refund[r] \in Refunding /\ RefundOK(call, refund, r)
         /\ \A d \in Days : d # None /\ key[d] \in Key /\ DayOK(key[d], call, refund, d)
         /\ Cap \in Nat
BY DayAssumption, CapAssumption DEF QuotaInv, Good, Days, None

(* A counter that INCR or DECR leaves behind. *)
LEMMA Raised ==
  ASSUME NEW k \in Key, NEW m \in Int
  PROVE  /\ [k EXCEPT !.on = TRUE, !.n = m] \in Key
         /\ [k EXCEPT !.on = TRUE, !.n = m].on
         /\ [k EXCEPT !.on = TRUE, !.n = m].n = m
         /\ [k EXCEPT !.on = TRUE, !.n = m].ttl = k.ttl
<1> DEFINE k1 == [k EXCEPT !.on = TRUE]
<1>1. k1 \in Key /\ k1.on /\ k1.ttl = k.ttl
  BY DEF Key
<1> HIDE DEF k1
<1>2. /\ [k1 EXCEPT !.n = m] \in Key /\ [k1 EXCEPT !.n = m].on = k1.on
      /\ [k1 EXCEPT !.n = m].n = m /\ [k1 EXCEPT !.n = m].ttl = k1.ttl
  BY <1>1 DEF Key
<1> QED
  BY <1>1, <1>2 DEF k1

(* What consume()'s MULTI does: the record r of the request, the counter q. *)
LEMMA ConsumeEffect ==
  ASSUME QuotaInv, NEW c \in Calls, Consume(c)
  PROVE  \E d \in Days, r \in Call, q \in Key :
           /\ call[c].pc = "new" /\ call[c].charged = None
           /\ r.charged = d /\ r.pc \in {"expire", "admitted", "rejected"}
           /\ r.over <=> q.n > Cap
           /\ q.on /\ q.n = key[d].n + 1 /\ q.ttl = key[d].ttl
           /\ ~q.ttl => r.pc = "expire"
           /\ call' = [call EXCEPT ![c] = r]
           /\ key' = [key EXCEPT ![d] = q]
           /\ day' = day /\ refund' = refund
<1>1. PICK d \in Days : d = day
  BY DEF QuotaInv
<1>2. PICK n \in Int : n = key[d].n
  BY Reads DEF Key
<1>3. PICK ttl \in BOOLEAN : ttl = key[d].ttl
  BY Reads DEF Key
<1>4. PICK over \in BOOLEAN : over <=> n + 1 > Cap
  OBVIOUS
<1>5. PICK pc \in {"expire", "admitted", "rejected"} : pc = IF ttl THEN Verdict(over) ELSE "expire"
  BY DEF Verdict
<1> DEFINE r == [pc |-> pc, over |-> over, charged |-> d]
           q == [key[d] EXCEPT !.on = TRUE, !.n = n + 1]
<1>6. Count(c, over, ttl, d)
  <2>1. over = (key[day].n + 1 > Cap)
    BY <1>1, <1>2, <1>4
  <2> QED
    BY <1>1, <1>3, <2>1, Zenon DEF Consume
<1>7. /\ call[c].pc = "new" /\ call' = [call EXCEPT ![c] = r]
      /\ key' = [key EXCEPT ![d] = q] /\ day' = day /\ refund' = refund
  BY <1>1, <1>2, <1>5, <1>6 DEF Count, Add
<1>8. call[c].charged = None
  BY <1>7, Reads DEF CallOK
<1>9. key[d] \in Key /\ n + 1 \in Int
  BY Reads
<1>10. q \in Key /\ q.on /\ q.n = n + 1 /\ q.ttl = key[d].ttl
  BY <1>9, Raised, Zenon
<1>11. r \in Call /\ r.pc = pc /\ r.over = over /\ r.charged = d
  BY DEF Call
<1>12. ~ttl => pc = "expire"
  BY <1>5
<1> HIDE DEF r, q
<1> QED
  BY <1>2, <1>3, <1>4, <1>5, <1>7, <1>8, <1>10, <1>11, <1>12

(* consume() counts the request on the day it is. *)
LEMMA ConsumeKeeps ==
  ASSUME QuotaInv, NEW c \in Calls, Consume(c)
  PROVE  QuotaInv'
<1>1. PICK d \in Days, r \in Call, q \in Key :
           /\ call[c].pc = "new" /\ call[c].charged = None
           /\ r.charged = d /\ r.pc \in {"expire", "admitted", "rejected"}
           /\ r.over <=> q.n > Cap
           /\ q.on /\ q.n = key[d].n + 1 /\ q.ttl = key[d].ttl
           /\ ~q.ttl => r.pc = "expire"
           /\ call' = [call EXCEPT ![c] = r]
           /\ key' = [key EXCEPT ![d] = q]
           /\ day' = day /\ refund' = refund
  BY ConsumeEffect
<1>2. PICK t : t = call
  OBVIOUS
<1>3. PICK f : f = refund
  OBVIOUS
<1>4. PICK k \in Key : k = key[d]
  BY Reads
<1>5. PICK t2 : t2 = [t EXCEPT ![c] = r]
  OBVIOUS
<1>6. /\ t \in [Calls -> Call] /\ Good(key, t, f) /\ DayOK(k, t, f, d) /\ d # None
      /\ t[c].charged = None /\ t[c].pc = "new" /\ \A x \in Refunds : RefundOK(t, f, x)
      /\ k.n \in Int
  BY <1>1, <1>2, <1>3, <1>4, Reads DEF Key
<1>7. t2[c] = r /\ \A v \in Calls : v # c => t2[v] = t[v]
  BY <1>5, <1>6, NewCall
<1>8. /\ ChargedIn(t2, d) = ChargedIn(t, d) \cup {c} /\ c \notin ChargedIn(t, d)
      /\ AdmittedIn(t2, d) = IF r.over THEN AdmittedIn(t, d) ELSE AdmittedIn(t, d) \cup {c}
      /\ c \notin AdmittedIn(t, d)
  BY <1>1, <1>6, <1>7 DEF ChargedIn, AdmittedIn
<1>9. /\ Cardinality(ChargedIn(t2, d)) = Cardinality(ChargedIn(t, d)) + 1
      /\ Cardinality(AdmittedIn(t2, d)) =
           IF r.over THEN Cardinality(AdmittedIn(t, d)) ELSE Cardinality(AdmittedIn(t, d)) + 1
  BY <1>8, DayFinite, FS_AddElement
<1>10. /\ Cardinality(ChargedIn(t, d)) \in Nat /\ Cardinality(ReturnedIn(f, d)) \in Nat
       /\ Cardinality(AdmittedIn(t, d)) \in Nat /\ Cap \in Nat
       /\ Cardinality(AdmittedIn(t, d)) <= Cardinality(ChargedIn(t, d))
  BY DayFinite, CapAssumption
<1>11. MovesCall(r, t[c]) /\ \A e \in Days : e # d => r.charged # e /\ t[c].charged # e
  <2>1. \A e \in Days : e # None
    BY Reads
  <2> QED
    BY <1>1, <1>6, <2>1 DEF MovesCall
<1>12. OwnIn(t2, f, d) => OwnIn(t, f, d)
  <2>1. ~OwnIn(t, f, d) => ~OwnIn(t2, f, d)
    BY <1>5, <1>6, <1>11, CallDays
  <2> QED
    BY <2>1
<1>13. k.n <= Cardinality(ChargedIn(t, d)) /\ q.n = k.n + 1
  BY <1>1, <1>4, <1>6 DEF DayOK
<1>14. CallOK(t2, c)
  BY <1>1, <1>7, <1>9, <1>10, <1>13, <1>6 DEF CallOK
<1>15. DayOK(q, t2, f, d)
  <2>1. OwnIn(t2, f, d) =>
          /\ q.n = Cardinality(ChargedIn(t2, d)) - Cardinality(ReturnedIn(f, d))
          /\ Cardinality(AdmittedIn(t2, d)) - Cardinality(ReturnedIn(f, d)) <= Cap
    BY <1>1, <1>6, <1>9, <1>10, <1>12, <1>13 DEF DayOK
  <2>2. OwnIn(t2, f, d) /\ ~q.ttl => AllUnset(t2, d)
    <3> SUFFICES ASSUME OwnIn(t2, f, d), ~q.ttl, NEW x \in ChargedIn(t2, d)
                 PROVE  t2[x].pc \in {"expire", "lost"}
      BY DEF AllUnset
    <3>1. CASE x = c
      BY <1>1, <1>7, <3>1
    <3>2. CASE x # c
      <4>1. x \in ChargedIn(t, d) /\ t2[x] = t[x]
        BY <1>7, <1>8, <3>2 DEF ChargedIn
      <4>2. AllUnset(t, d)
        BY <1>1, <1>4, <1>6, <1>12, <4>1 DEF DayOK
      <4> QED
        BY <4>1, <4>2 DEF AllUnset
    <3> QED
      BY <3>1, <3>2
  <2>3. ~q.ttl => Cared(t2, f, d)
    BY <1>1, <1>7, <1>8 DEF Cared
  <2>4. q.n <= Cardinality(ChargedIn(t2, d)) /\ q.on
    BY <1>1, <1>6, <1>9, <1>10, <1>13
  <2> QED
    BY <2>1, <2>2, <2>3, <2>4 DEF DayOK
<1>16. Good([key EXCEPT ![d] = q], t2, f)
  BY <1>5, <1>6, <1>11, <1>14, <1>15, GoodCall
<1> QED
  BY <1>1, <1>2, <1>3, <1>5, <1>16 DEF QuotaInv

SameAccounts(t2, t) ==
  \A e : /\ ChargedIn(t2, e) = ChargedIn(t, e)
        /\ AdmittedIn(t2, e) = AdmittedIn(t, e)
        /\ \A f : OwnIn(t2, f, e) = OwnIn(t, f, e)

(* A step that only moves a request on leaves the accounts of every day. *)
LEMMA MovesOn ==
  ASSUME NEW t \in [Calls -> Call], NEW c \in Calls, NEW r \in Call,
         r.over = t[c].over, r.charged = t[c].charged, NEW t2, t2 = [t EXCEPT ![c] = r]
  PROVE  SameAccounts(t2, t)
<1>1. \A u \in Calls : t2[u].charged = t[u].charged /\ t2[u].over = t[u].over
  BY NewCall
<1>2. \A e : ChargedIn(t2, e) = ChargedIn(t, e)
  BY <1>1 DEF ChargedIn
<1>3. \A e : AdmittedIn(t2, e) = AdmittedIn(t, e)
  BY <1>1, <1>2 DEF AdmittedIn, ChargedIn
<1>4. \A e, f : OwnIn(t2, f, e) = OwnIn(t, f, e)
  BY <1>2 DEF OwnIn
<1> QED
  BY <1>2, <1>3, <1>4 DEF SameAccounts

(* EXPIRE gives the key of the request's own day a TTL. *)
LEMMA SetExpiryKeeps ==
  ASSUME QuotaInv, NEW c \in Calls, SetExpiry(c)
  PROVE  QuotaInv'
<1>1. PICK t \in [Calls -> Call] : t = call
  BY Reads
<1>2. PICK f \in [Refunds -> Refunding] : f = refund
  BY Reads
<1>3. PICK d \in Days : d = t[c].charged
  BY <1>1, Reads DEF SetExpiry, CallOK
<1>4. PICK k \in Key : k = key[d]
  BY Reads
<1>5. PICK pc \in {"admitted", "rejected"} : pc = Verdict(t[c].over)
  BY DEF Verdict
<1>6. PICK r : r = [t[c] EXCEPT !.pc = pc]
  OBVIOUS
<1>7. PICK q : q = [k EXCEPT !.ttl = k.on]
  OBVIOUS
<1>8. PICK t2 : t2 = [t EXCEPT ![c] = r]
  OBVIOUS
<1>9. q \in Key /\ q.on = k.on /\ q.n = k.n /\ q.ttl = k.on
  BY <1>7 DEF Key
<1>10. /\ call' = t2 /\ key' = [key EXCEPT ![d] = q] /\ day' = day /\ refund' = refund
       /\ t[c].pc = "expire"
  BY <1>1, <1>3, <1>4, <1>5, <1>6, <1>7, <1>8 DEF SetExpiry
<1>11. CallOK(t, c) /\ DayOK(k, t, f, d) /\ Good(key, t, f)
  BY <1>1, <1>2, <1>4, Reads
<1>12. /\ r \in Call /\ r.pc = pc /\ MovesCall(r, t[c]) /\ r.over = t[c].over /\ r.charged = d
       /\ \A e : /\ ChargedIn(t2, e) = ChargedIn(t, e)
                 /\ AdmittedIn(t2, e) = AdmittedIn(t, e)
                 /\ \A g : OwnIn(t2, g, e) = OwnIn(t, g, e)
  <2>1. t[c] \in Call
    OBVIOUS
  <2>2. r \in Call /\ r.pc = pc /\ r.over = t[c].over /\ r.charged = t[c].charged
    BY <2>1, <1>6 DEF Call
  <2>3. SameAccounts(t2, t)
    BY <2>2, <1>8, MovesOn
  <2> QED
    BY <1>3, <1>5, <1>10, <2>2, <2>3 DEF SameAccounts, MovesCall
<1>13. t2[c] = r
  BY <1>8, <1>12, NewCall
<1>14. CallOK(t2, c)
  BY <1>3, <1>11, <1>12, <1>13 DEF CallOK
<1>15. DayOK(q, t2, f, d)
  BY <1>9, <1>11, <1>12 DEF DayOK
<1>16. \A e \in Days : e # d => r.charged # e /\ t[c].charged # e
  BY <1>3, <1>12
<1>17. Good([key EXCEPT ![d] = q], t2, f)
  BY <1>8, <1>9, <1>11, <1>12, <1>14, <1>15, <1>16, GoodCall
<1> QED
  BY <1>2, <1>10, <1>17 DEF QuotaInv

(* A consume() that dies leaves the key as it is, and is remembered for it. *)
LEMMA DieKeeps ==
  ASSUME QuotaInv, NEW c \in Calls, Die(c)
  PROVE  QuotaInv'
<1>1. PICK t \in [Calls -> Call] : t = call
  BY Reads
<1>2. PICK f \in [Refunds -> Refunding] : f = refund
  BY Reads
<1>3. PICK d \in Days : d = t[c].charged
  BY <1>1, Reads DEF Die, CallOK
<1>4. PICK k \in Key : k = key[d]
  BY Reads
<1>5. PICK r : r = [t[c] EXCEPT !.pc = "lost"]
  OBVIOUS
<1>6. PICK t2 : t2 = [t EXCEPT ![c] = r]
  OBVIOUS
<1>7. call' = t2 /\ key' = key /\ day' = day /\ refund' = refund /\ t[c].pc = "expire"
  BY <1>1, <1>5, <1>6 DEF Die
<1>8. CallOK(t, c) /\ DayOK(k, t, f, d) /\ Good(key, t, f)
  BY <1>1, <1>2, <1>4, Reads
<1>9. /\ r \in Call /\ r.pc = "lost" /\ MovesCall(r, t[c]) /\ r.over = t[c].over /\ r.charged = d
      /\ \A e : /\ ChargedIn(t2, e) = ChargedIn(t, e)
                /\ AdmittedIn(t2, e) = AdmittedIn(t, e)
                /\ \A g : OwnIn(t2, g, e) = OwnIn(t, g, e)
  <2>1. t[c] \in Call
    OBVIOUS
  <2>2. r \in Call /\ r.pc = "lost" /\ r.over = t[c].over /\ r.charged = t[c].charged
    BY <2>1, <1>5 DEF Call
  <2>3. SameAccounts(t2, t)
    BY <2>2, <1>6, MovesOn
  <2> QED
    BY <1>3, <1>7, <2>2, <2>3 DEF SameAccounts, MovesCall
<1>10. t2[c] = r /\ \A v \in Calls : v # c => t2[v] = t[v]
  BY <1>6, <1>9, NewCall
<1>11. CallOK(t2, c)
  BY <1>3, <1>8, <1>9, <1>10 DEF CallOK
<1>12. AllUnset(t, d) => AllUnset(t2, d)
  <2>1. \A x \in Calls : t2[x].pc = t[x].pc \/ t2[x].pc = "lost"
    BY <1>9, <1>10
  <2>2. ChargedIn(t2, d) = ChargedIn(t, d) /\ ChargedIn(t, d) \subseteq Calls
    BY <1>9 DEF ChargedIn
  <2> QED
    BY <2>1, <2>2 DEF AllUnset
<1>13. ASSUME k.on, ~k.ttl
       PROVE  Cared(t2, f, d)
  <2>1. c \in ChargedIn(t2, d)
    BY <1>9, <1>10 DEF ChargedIn
  <2>2. ~OwnIn(t2, f, d) \/ AllUnset(t2, d)
    BY <1>8, <1>9, <1>12, <1>13 DEF DayOK
  <2> QED
    BY <1>9, <1>10, <2>1, <2>2 DEF Cared
<1>14. DayOK(k, t2, f, d)
  BY <1>8, <1>9, <1>12, <1>13 DEF DayOK
<1>15. \A e \in Days : e # d => r.charged # e /\ t[c].charged # e
  BY <1>3, <1>9
<1>16. Good([key EXCEPT ![d] = k], t2, f)
  BY <1>6, <1>8, <1>9, <1>11, <1>14, <1>15, GoodCall
<1>17. [key EXCEPT ![d] = k] = key
  BY <1>4, Reads
<1> QED
  BY <1>2, <1>7, <1>16, <1>17 DEF QuotaInv

(* What refund()'s DECR does: the record g of the refund, the counter q. *)
LEMMA RefundEffect ==
  ASSUME QuotaInv, NEW r \in Refunds, NEW c \in Calls, Refund(r, c)
  PROVE  \E d \in Days, g \in Refunding, q \in Key :
           /\ refund[r].pc = "new" /\ refund[r].on = None /\ call[c].pc = "admitted"
           /\ g.of = c /\ g.on = d /\ g.pc \in {"delete", "done"}
           /\ g.pc = "delete" <=> q.n < 0
           /\ q.on /\ q.n = key[d].n - 1 /\ q.ttl = key[d].ttl
           /\ refund' = [refund EXCEPT ![r] = g]
           /\ key' = [key EXCEPT ![d] = q]
           /\ day' = day /\ call' = call
<1>1. PICK d \in Days : d = day
  BY DEF QuotaInv
<1>2. PICK n \in Int : n = key[d].n
  BY Reads DEF Key
<1>3. PICK pc \in {"delete", "done"} : pc = IF n - 1 < 0 THEN "delete" ELSE "done"
  OBVIOUS
<1> DEFINE g == [pc |-> pc, of |-> c, on |-> d]
           q == [key[d] EXCEPT !.on = TRUE, !.n = n - 1]
<1>4. n + -1 = n - 1
  OBVIOUS
<1>5. /\ refund[r].pc = "new" /\ call[c].pc = "admitted"
      /\ refund' = [refund EXCEPT ![r] = g]
      /\ key' = [key EXCEPT ![d] = q] /\ day' = day /\ call' = call
  BY <1>1, <1>2, <1>3, <1>4 DEF Refund, GiveBack, Add
<1>6. refund[r].on = None
  BY <1>5, Reads DEF RefundOK
<1>7. key[d] \in Key /\ n - 1 \in Int
  BY Reads
<1>8. q \in Key /\ q.on /\ q.n = n - 1 /\ q.ttl = key[d].ttl
  BY <1>7, Raised, Zenon
<1>9. g \in Refunding /\ g.pc = pc /\ g.of = c /\ g.on = d
  BY DEF Refunding
<1>10. pc = "delete" <=> n - 1 < 0
  BY <1>3
<1> HIDE DEF g, q
<1> QED
  BY <1>2, <1>3, <1>5, <1>6, <1>8, <1>9, <1>10

(* DECR gives a unit back to the day it is. *)
LEMMA RefundKeeps ==
  ASSUME QuotaInv, NEW r \in Refunds, NEW c \in Calls, Refund(r, c)
  PROVE  QuotaInv'
<1>1. PICK d \in Days, g \in Refunding, q \in Key :
           /\ refund[r].pc = "new" /\ refund[r].on = None /\ call[c].pc = "admitted"
           /\ g.of = c /\ g.on = d /\ g.pc \in {"delete", "done"}
           /\ g.pc = "delete" <=> q.n < 0
           /\ q.on /\ q.n = key[d].n - 1 /\ q.ttl = key[d].ttl
           /\ refund' = [refund EXCEPT ![r] = g]
           /\ key' = [key EXCEPT ![d] = q]
           /\ day' = day /\ call' = call
  BY RefundEffect
<1>2. PICK t : t = call
  OBVIOUS
<1>3. PICK f : f = refund
  OBVIOUS
<1>4. PICK k \in Key : k = key[d]
  BY Reads
<1>5. PICK f2 : f2 = [f EXCEPT ![r] = g]
  OBVIOUS
<1>6. /\ f \in [Refunds -> Refunding] /\ Good(key, t, f) /\ DayOK(k, t, f, d) /\ d # None
      /\ f[r].on = None /\ f[r].pc = "new" /\ t[c].pc = "admitted" /\ k.n \in Int /\ q.n \in Int
  BY <1>1, <1>2, <1>3, <1>4, Reads DEF Key
<1>7. f2[r] = g /\ \A u \in Refunds : u # r => f2[u] = f[u]
  BY <1>5, <1>6, NewRefund
<1>8. ReturnedIn(f2, d) = ReturnedIn(f, d) \cup {r} /\ r \notin ReturnedIn(f, d)
  BY <1>1, <1>6, <1>7 DEF ReturnedIn
<1>9. Cardinality(ReturnedIn(f2, d)) = Cardinality(ReturnedIn(f, d)) + 1
  BY <1>8, DayFinite, FS_AddElement
<1>10. /\ Cardinality(ChargedIn(t, d)) \in Nat /\ Cardinality(ReturnedIn(f, d)) \in Nat
       /\ Cardinality(AdmittedIn(t, d)) \in Nat /\ Cap \in Nat
  BY DayFinite, CapAssumption
<1>11. \A x \in ReturnedIn(f, d) : x \in ReturnedIn(f2, d) /\ f2[x] = f[x]
  BY <1>7, <1>8 DEF ReturnedIn
<1>12. OwnIn(t, f2, d) => OwnIn(t, f, d) /\ c \in ChargedIn(t, d)
  <2>1. OwnIn(t, f2, d) => c \in ChargedIn(t, d)
    BY <1>1, <1>7, <1>8 DEF OwnIn
  <2>2. OwnIn(t, f2, d) => OwnIn(t, f, d)
    BY <1>11 DEF OwnIn
  <2> QED
    BY <2>1, <2>2
<1>13. ASSUME OwnIn(t, f2, d)
       PROVE  q.on /\ q.ttl /\ q.n >= 0
  <2>1. OwnIn(t, f, d) /\ c \in ChargedIn(t, d)
    BY <1>12, <1>13
  <2>2. k.on
    BY <1>6, <2>1 DEF DayOK
  <2>3. k.ttl
    BY <1>6, <2>1, <2>2 DEF DayOK, AllUnset
  <2>4. Cardinality(ReturnedIn(f2, d)) <= Cardinality(ChargedIn(t, d))
    BY <1>13, OwnBounds
  <2>5. k.n = Cardinality(ChargedIn(t, d)) - Cardinality(ReturnedIn(f, d))
    BY <1>6, <2>1 DEF DayOK
  <2>6. q.n = k.n - 1
    BY <1>1, <1>4
  <2>7. q.n >= 0
    BY <1>6, <1>9, <1>10, <2>4, <2>5, <2>6
  <2> QED
    BY <1>1, <1>4, <2>3, <2>7
<1>14. RefundOK(t, f2, r)
  <2>1. g.pc = "delete" => ~OwnIn(t, f2, d)
    BY <1>1, <1>6, <1>13
  <2> QED
    BY <1>1, <1>6, <1>7, <2>1 DEF RefundOK
<1>15. DayOK(q, t, f2, d)
  <2>1. k.n <= Cardinality(ChargedIn(t, d)) /\ q.n = k.n - 1
    BY <1>1, <1>4, <1>6 DEF DayOK
  <2>2. q.n <= Cardinality(ChargedIn(t, d))
    BY <1>6, <1>10, <2>1
  <2>3. OwnIn(t, f, d) =>
          /\ k.n = Cardinality(ChargedIn(t, d)) - Cardinality(ReturnedIn(f, d))
          /\ Cardinality(AdmittedIn(t, d)) - Cardinality(ReturnedIn(f, d)) <= Cap
    BY <1>6 DEF DayOK
  <2>4. OwnIn(t, f2, d) =>
          /\ q.n = Cardinality(ChargedIn(t, d)) - Cardinality(ReturnedIn(f2, d))
          /\ Cardinality(AdmittedIn(t, d)) - Cardinality(ReturnedIn(f2, d)) <= Cap
    BY <1>6, <1>9, <1>10, <1>12, <2>1, <2>3
  <2>5. ASSUME ~q.ttl
        PROVE  Cared(t, f2, d)
    <3>1. ~OwnIn(t, f2, d)
      BY <1>13, <2>5
    <3>2. CASE q.n < 0
      BY <1>1, <1>7, <1>8, <3>2 DEF Cared
    <3>3. CASE ~(q.n < 0)
      <4>1. k.n # 0
        BY <1>6, <2>1, <3>3
      <4>2. k.on /\ ~k.ttl
        BY <1>1, <1>4, <1>6, <2>5, <4>1 DEF DayOK
      <4>3. Cared(t, f, d)
        BY <1>6, <4>2 DEF DayOK
      <4> QED
        BY <1>11, <3>1, <4>3 DEF Cared
    <3> QED
      BY <3>2, <3>3
  <2> QED
    BY <1>1, <1>13, <2>2, <2>4, <2>5 DEF DayOK
<1>16. MovesRefund(g, f[r]) /\ \A e \in Days : e # d => g.on # e /\ f[r].on # e
  <2>1. \A e \in Days : e # None
    BY Reads
  <2> QED
    BY <1>1, <1>6, <2>1 DEF MovesRefund
<1>17. Good([key EXCEPT ![d] = q], t, f2)
  BY <1>5, <1>6, <1>14, <1>15, <1>16, GoodRefund
<1> QED
  BY <1>1, <1>2, <1>3, <1>5, <1>17 DEF QuotaInv

(* A refund that only moves on leaves the accounts alone. *)
LEMMA RefundMovesOn ==
  ASSUME NEW t, NEW f \in [Refunds -> Refunding], NEW r \in Refunds, NEW g \in Refunding,
         g.of = f[r].of, g.on = f[r].on, NEW f2, f2 = [f EXCEPT ![r] = g], NEW d
  PROVE  ReturnedIn(f2, d) = ReturnedIn(f, d) /\ (OwnIn(t, f2, d) <=> OwnIn(t, f, d))
<1>1. \A u \in Refunds : f2[u].on = f[u].on /\ f2[u].of = f[u].of
  BY NewRefund
<1>2. ReturnedIn(f2, d) = ReturnedIn(f, d)
  BY <1>1 DEF ReturnedIn
<1>3. \A x \in ReturnedIn(f, d) : f2[x].of = f[x].of
  BY <1>1 DEF ReturnedIn
<1>4. /\ (\A x \in ReturnedIn(f2, d) : f2[x].of \in ChargedIn(t, d))
         <=> \A x \in ReturnedIn(f, d) : f[x].of \in ChargedIn(t, d)
      /\ (\A x, y \in ReturnedIn(f2, d) : f2[x].of = f2[y].of => x = y)
         <=> \A x, y \in ReturnedIn(f, d) : f[x].of = f[y].of => x = y
  BY <1>2, <1>3
<1> QED
  BY <1>2, <1>4 DEF OwnIn

(* DEL empties a day that had a refund not its own, or one too many. *)
LEMMA DeleteKeyKeeps ==
  ASSUME QuotaInv, NEW r \in Refunds, DeleteKey(r)
  PROVE  QuotaInv'
<1>1. PICK f \in [Refunds -> Refunding] : f = refund
  BY Reads
<1>2. PICK t : t = call
  OBVIOUS
<1>3. PICK d \in Days : d = f[r].on
  BY <1>1, Reads DEF DeleteKey, RefundOK
<1>4. PICK g : g = [f[r] EXCEPT !.pc = "done"]
  OBVIOUS
<1>5. PICK f2 : f2 = [f EXCEPT ![r] = g]
  OBVIOUS
<1>6. /\ refund' = f2 /\ key' = [key EXCEPT ![d] = NoKey] /\ day' = day /\ call' = call
      /\ f[r].pc = "delete"
  BY <1>1, <1>3, <1>4, <1>5 DEF DeleteKey
<1>7. RefundOK(t, f, r) /\ Good(key, t, f)
  BY <1>1, <1>2, Reads
<1>8. g \in Refunding /\ g.pc = "done" /\ g.of = f[r].of /\ g.on = d
  <2>1. f[r] \in Refunding
    OBVIOUS
  <2> QED
    BY <1>3, <1>4, <2>1 DEF Refunding
<1>9. ~OwnIn(t, f2, d)
  <2>1. ~OwnIn(t, f, d)
    BY <1>3, <1>6, <1>7 DEF RefundOK
  <2> QED
    BY <1>3, <1>5, <1>8, <2>1, RefundMovesOn
<1>10. f2[r] = g
  BY <1>5, <1>8, NewRefund
<1>11. RefundOK(t, f2, r)
  BY <1>3, <1>6, <1>7, <1>8, <1>10 DEF RefundOK
<1>12. NoKey \in Key /\ ~NoKey.on /\ NoKey.n = 0
  BY DEF Key, NoKey
<1>13. DayOK(NoKey, t, f2, d)
  <2>1. Cardinality(ChargedIn(t, d)) >= 0
    BY DayFinite
  <2> QED
    BY <1>9, <1>12, <2>1 DEF DayOK
<1>14. MovesRefund(g, f[r]) /\ \A e \in Days : e # d => g.on # e /\ f[r].on # e
  BY <1>3, <1>8 DEF MovesRefund
<1>15. Good([key EXCEPT ![d] = NoKey], t, f2)
  BY <1>5, <1>7, <1>8, <1>11, <1>12, <1>13, <1>14, GoodRefund
<1> QED
  BY <1>2, <1>6, <1>15 DEF QuotaInv

(* A refund() that dies leaves the key below zero, and is remembered for it. *)
LEMMA DieRefundingKeeps ==
  ASSUME QuotaInv, NEW r \in Refunds, DieRefunding(r)
  PROVE  QuotaInv'
<1>1. PICK f \in [Refunds -> Refunding] : f = refund
  BY Reads
<1>2. PICK t : t = call
  OBVIOUS
<1>3. PICK d \in Days : d = f[r].on
  BY <1>1, Reads DEF DieRefunding, RefundOK
<1>4. PICK g : g = [f[r] EXCEPT !.pc = "lost"]
  OBVIOUS
<1>5. PICK f2 : f2 = [f EXCEPT ![r] = g]
  OBVIOUS
<1>6. /\ refund' = f2 /\ key' = key /\ day' = day /\ call' = call /\ f[r].pc = "delete"
  BY <1>1, <1>4, <1>5 DEF DieRefunding
<1>7. PICK k \in Key : k = key[d]
  BY Reads
<1>8. RefundOK(t, f, r) /\ Good(key, t, f) /\ DayOK(k, t, f, d)
  BY <1>1, <1>2, <1>7, Reads
<1>9. g \in Refunding /\ g.pc = "lost" /\ g.of = f[r].of /\ g.on = d
  <2>1. f[r] \in Refunding
    OBVIOUS
  <2> QED
    BY <1>3, <1>4, <2>1 DEF Refunding
<1>10. ~OwnIn(t, f2, d) /\ ReturnedIn(f2, d) = ReturnedIn(f, d)
  <2>1. ~OwnIn(t, f, d)
    BY <1>3, <1>6, <1>8 DEF RefundOK
  <2> QED
    BY <1>3, <1>5, <1>9, <2>1, RefundMovesOn
<1>11. f2[r] = g
  BY <1>5, <1>9, NewRefund
<1>12. RefundOK(t, f2, r)
  BY <1>3, <1>6, <1>8, <1>9, <1>10, <1>11 DEF RefundOK
<1>13. Cared(t, f2, d)
  <2>1. r \in ReturnedIn(f2, d)
    BY <1>9, <1>11 DEF ReturnedIn
  <2> QED
    BY <1>9, <1>11, <2>1 DEF Cared
<1>14. DayOK(k, t, f2, d)
  BY <1>8, <1>10, <1>13 DEF DayOK
<1>15. MovesRefund(g, f[r]) /\ \A e \in Days : e # d => g.on # e /\ f[r].on # e
  BY <1>3, <1>9 DEF MovesRefund
<1>16. Good([key EXCEPT ![d] = k], t, f2)
  BY <1>5, <1>8, <1>9, <1>12, <1>14, <1>15, GoodRefund
<1>17. [key EXCEPT ![d] = k] = key
  BY <1>7, Reads
<1> QED
  BY <1>2, <1>6, <1>16, <1>17 DEF QuotaInv

-----------------------------------------------------------------------------
LEMMA QuotaInit == Init => QuotaInv
<1> SUFFICES ASSUME Init
             PROVE  QuotaInv
  OBVIOUS
<1>1. /\ key \in [Days -> Key] /\ call \in [Calls -> Call] /\ day \in Days
      /\ refund \in [Refunds -> Refunding]
  BY DayAssumption DEF Init, Days, Key, NoKey, Call, Refunding, None
<1>2. ASSUME NEW d \in Days
      PROVE  DayOK(key[d], call, refund, d)
  <2>1. d # None
    BY DayAssumption DEF Days, None
  <2>2. ChargedIn(call, d) = {} /\ ReturnedIn(refund, d) = {} /\ AdmittedIn(call, d) = {}
    BY <2>1 DEF Init, ChargedIn, ReturnedIn, AdmittedIn
  <2>3. Cardinality(ChargedIn(call, d)) = 0 /\ Cardinality(ReturnedIn(refund, d)) = 0
        /\ Cardinality(AdmittedIn(call, d)) = 0
    BY <2>2, FS_EmptySet
  <2>4. key[d].n = 0 /\ ~key[d].on
    BY DEF Init, NoKey
  <2> QED
    BY <2>2, <2>3, <2>4, CapAssumption DEF DayOK
<1>3. \A c \in Calls : CallOK(call, c)
  BY DEF Init, CallOK
<1>4. \A r \in Refunds : RefundOK(call, refund, r)
  BY DEF Init, RefundOK
<1> QED
  BY <1>1, <1>2, <1>3, <1>4 DEF QuotaInv, Good

LEMMA QuotaStep == QuotaInv /\ [Next]_vars => QuotaInv'
<1> SUFFICES ASSUME QuotaInv, [Next]_vars
             PROVE  QuotaInv'
  OBVIOUS
<1>1. ASSUME NEW c \in Calls, Consume(c)
      PROVE  QuotaInv'
  BY <1>1, ConsumeKeeps
<1>2. ASSUME NEW c \in Calls, SetExpiry(c)
      PROVE  QuotaInv'
  BY <1>2, SetExpiryKeeps
<1>3. ASSUME NEW c \in Calls, Die(c)
      PROVE  QuotaInv'
  BY <1>3, DieKeeps
<1>4. ASSUME NEW r \in Refunds, NEW c \in Calls, Refund(r, c)
      PROVE  QuotaInv'
  BY <1>4, RefundKeeps
<1>5. ASSUME NEW r \in Refunds, DeleteKey(r)
      PROVE  QuotaInv'
  BY <1>5, DeleteKeyKeeps
<1>6. ASSUME NEW r \in Refunds, DieRefunding(r)
      PROVE  QuotaInv'
  BY <1>6, DieRefundingKeeps
<1>7. CASE Midnight
  BY <1>7, DayAssumption DEF Midnight, QuotaInv, Days
<1>8. CASE UNCHANGED vars
  BY <1>8 DEF vars, QuotaInv
<1> QED
  BY <1>1, <1>2, <1>3, <1>4, <1>5, <1>6, <1>7, <1>8 DEF Next

LEMMA QuotaInvariant == Spec => []QuotaInv
BY QuotaInit, QuotaStep, PTL DEF Spec

(* The accounts of Quota are those of the two tables. *)
LEMMA Accounts ==
  \A d : /\ Charged(d) = ChargedIn(call, d) /\ Returned(d) = ReturnedIn(refund, d)
         /\ Admitted(d) = AdmittedIn(call, d)
         /\ OwnRefundsOnly(d) <=> OwnIn(call, refund, d)
BY DEF Charged, ChargedIn, Returned, ReturnedIn, Admitted, AdmittedIn, OwnRefundsOnly, OwnIn

-----------------------------------------------------------------------------
(* QuotaService's counters and calls stay in their domains: no key is ever  *)
(* named for a day that has not come.                                       *)
THEOREM QuotaTypeOK == Spec => []TypeOK
<1>1. QuotaInv => TypeOK
  BY DEF QuotaInv, Good, TypeOK
<1> QED
  BY <1>1, QuotaInvariant, PTL

(* consume() and refund() lose no count to each other, nor to the DEL of a  *)
(* negative key, however many requests and refunds race, on a day whose     *)
(* refunds are its own and one a request.                                   *)
THEOREM QuotaCountIsExact == Spec => []CountIsExact
<1>1. QuotaInv => CountIsExact
  BY Accounts DEF QuotaInv, Good, DayOK, CountIsExact
<1> QED
  BY <1>1, QuotaInvariant, PTL

(* consume() counts before it compares, and still lets at most Cap requests *)
(* keep a unit of such a day.                                               *)
THEOREM QuotaCapHolds == Spec => []CapHolds
<1>1. QuotaInv => CapHolds
  BY Accounts DEF QuotaInv, Good, DayOK, CapHolds
<1> QED
  BY <1>1, QuotaInvariant, PTL

(* consume() turns nobody away on a day of Cap requests or fewer, late      *)
(* refunds and deletions of the key included.                               *)
THEOREM QuotaRejectedOnlyOverCap == Spec => []RejectedOnlyOverCap
<1>1. QuotaInv => RejectedOnlyOverCap
  BY Accounts DEF QuotaInv, Good, CallOK, RejectedOnlyOverCap
<1> QED
  BY <1>1, QuotaInvariant, PTL

(* A counter left without a TTL is the doing of a call still at work on it, *)
(* or of one that died: EXPIRE and DEL are the second of two round trips.   *)
THEOREM QuotaKeysExpire == Spec => []KeysExpire
<1>1. ASSUME QuotaInv, NEW d \in Days, key[d].on, ~key[d].ttl
      PROVE  Cared(call, refund, d)
  BY <1>1 DEF QuotaInv, Good, DayOK
<1>2. QuotaInv => KeysExpire
  BY <1>1, Accounts DEF KeysExpire, Cared, AllUnset
<1> QED
  BY <1>2, QuotaInvariant, PTL
=============================================================================

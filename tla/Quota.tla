-------------------------------- MODULE Quota --------------------------------
(***************************************************************************)
(* ai-service's QuotaService: one user's daily counters in Redis, the      *)
(* create requests that take a unit (consume), and the refunds, which      *)
(* create() makes when a step after consume fails and the worker whenever  *)
(* an execution fails for good: one task may be refunded again.  Each      *)
(* action is one Redis round trip; others run in between, and midnight may *)
(* pass.  A key is named by the UTC day on which the call computes it, so  *)
(* a refund goes to the day of the refund.                                 *)
(***************************************************************************)
EXTENDS Integers, FiniteSets

CONSTANTS
  Calls,    \* the create requests of one user
  Refunds,  \* the calls of refund() made for them
  Cap,      \* AI_DAILY_TASK_CAP
  LastDay   \* the last UTC day considered

ASSUME CallAssumption == IsFiniteSet(Calls)
ASSUME RefundAssumption == IsFiniteSet(Refunds)
ASSUME CapAssumption == Cap \in Nat \ {0}
ASSUME DayAssumption == LastDay \in Nat

VARIABLES
  day,    \* the UTC day it is
  key,    \* [Days -> the day's counter: does it exist, its value, has it a TTL]
  call,   \* [Calls -> where a request stands, and the day it was counted on]
  refund  \* [Refunds -> where a refund stands, the call it is for, its day]

vars == <<day, key, call, refund>>

Days == 0 .. LastDay
None == -1

Key == [on : BOOLEAN, n : Int, ttl : BOOLEAN]
NoKey == [on |-> FALSE, n |-> 0, ttl |-> FALSE]

(* over: INCR answered more than Cap. *)
Call == [pc : {"new", "expire", "admitted", "rejected", "lost"},
         over : BOOLEAN, charged : Days \cup {None}]

Refunding == [pc : {"new", "delete", "done", "lost"},
              of : Calls \cup {None}, on : Days \cup {None}]

Init ==
  /\ day = 0
  /\ key = [d \in Days |-> NoKey]
  /\ call = [c \in Calls |-> [pc |-> "new", over |-> FALSE, charged |-> None]]
  /\ refund = [r \in Refunds |-> [pc |-> "new", of |-> None, on |-> None]]

-----------------------------------------------------------------------------
Add(d, n) == key' = [key EXCEPT ![d] = [@ EXCEPT !.on = TRUE, !.n = key[d].n + n]]

Verdict(over) == IF over THEN "rejected" ELSE "admitted"

Count(c, over, expires, d) ==
  /\ call[c].pc = "new"
  /\ Add(day, 1)
  /\ call' = [call EXCEPT ![c] =
       [pc |-> IF expires THEN Verdict(over) ELSE "expire",
        over |-> over, charged |-> d]]
  /\ UNCHANGED <<day, refund>>

(* Mutants: names the wrong day; compares the count before it is raised;   *)
(* rejects at the cap; sets the expiry on the first increment only.        *)
ConsumeTomorrow(c) == Count(c, key[day].n + 1 > Cap, key[day].ttl, day + 1)
ConsumeLate(c) == Count(c, key[day].n > Cap, key[day].ttl, day)
ConsumeEarly(c) == Count(c, key[day].n + 1 >= Cap, key[day].ttl, day)
ConsumeExpireFirst(c) == Count(c, key[day].n + 1 > Cap, key[day].n # 0, day)

(* MULTI INCR TTL: counts first, rejects afterwards, and keeps the count.  *)
Consume(c) == Count(c, key[day].n + 1 > Cap, key[day].ttl, day)

(* EXPIRE, which does nothing when the key is gone. *)
SetExpiry(c) ==
  LET d == call[c].charged
  IN /\ call[c].pc = "expire"
     /\ key' = [key EXCEPT ![d] = [@ EXCEPT !.ttl = key[d].on]]
     /\ call' = [call EXCEPT ![c] = [@ EXCEPT !.pc = Verdict(call[c].over)]]
     /\ UNCHANGED <<day, refund>>

(* DECR of today's key for a request that was admitted. *)
GiveBack(r, c, empty) ==
  /\ refund[r].pc = "new"
  /\ call[c].pc = "admitted"
  /\ Add(day, -1)
  /\ refund' = [refund EXCEPT ![r] =
       [pc |-> IF empty THEN "delete" ELSE "done", of |-> c, on |-> day]]
  /\ UNCHANGED <<day, call>>

(* Mutant: deletes the key when it reaches zero. *)
RefundDeletingZero(r, c) == GiveBack(r, c, key[day].n - 1 <= 0)

(* DEL follows if the key went below zero, in a round trip of its own.     *)
(* Nothing tells a first refund of a task from a second, nor the refund of *)
(* a task that failed from that of one which is still to succeed.          *)
Refund(r, c) == GiveBack(r, c, key[day].n - 1 < 0)

DeleteKey(r) ==
  /\ refund[r].pc = "delete"
  /\ key' = [key EXCEPT ![refund[r].on] = NoKey]
  /\ refund' = [refund EXCEPT ![r] = [@ EXCEPT !.pc = "done"]]
  /\ UNCHANGED <<day, call>>

(* The process dies, or Redis fails, between the two round trips of a call *)
(* of consume() or of refund().                                            *)
Die(c) ==
  /\ call[c].pc = "expire"
  /\ call' = [call EXCEPT ![c] = [@ EXCEPT !.pc = "lost"]]
  /\ UNCHANGED <<day, key, refund>>

DieRefunding(r) ==
  /\ refund[r].pc = "delete"
  /\ refund' = [refund EXCEPT ![r] = [@ EXCEPT !.pc = "lost"]]
  /\ UNCHANGED <<day, key, call>>

Midnight ==
  /\ day < LastDay
  /\ day' = day + 1
  /\ UNCHANGED <<key, call, refund>>

Next ==
  \/ \E c \in Calls : Consume(c) \/ SetExpiry(c) \/ Die(c)
  \/ \E r \in Refunds : DeleteKey(r) \/ DieRefunding(r)
  \/ \E r \in Refunds, c \in Calls : Refund(r, c)
  \/ Midnight

Spec == Init /\ [][Next]_vars

-----------------------------------------------------------------------------
Charged(d) == {c \in Calls : call[c].charged = d}
Admitted(d) == {c \in Charged(d) : ~call[c].over}
Returned(d) == {r \in Refunds : refund[r].on = d}

(* Every unit given back on day d was taken on d, by a request of its own: *)
(* no refund crossed midnight into d, and none repeated another one of d.  *)
OwnRefundsOnly(d) ==
  /\ \A r \in Returned(d) : refund[r].of \in Charged(d)
  /\ \A r, s \in Returned(d) : refund[r].of = refund[s].of => r = s

(* What remaining() answers on day d. *)
Remaining(d) == IF key[d].n < Cap THEN Cap - key[d].n ELSE 0

(* Every variable stays in its domain. *)
TypeOK ==
  /\ day \in Days
  /\ key \in [Days -> Key]
  /\ call \in [Calls -> Call]
  /\ refund \in [Refunds -> Refunding]

(* On a day of its own refunds, one a task, concurrent consumes, refunds    *)
(* and deletes lose no count: the key holds what was taken, the rejected    *)
(* requests included, minus what was given back.  A second refund of one    *)
(* task, or one from another day, may take the key below zero, and the DEL  *)
(* that follows drops the requests counted meanwhile.                       *)
CountIsExact ==
  \A d \in Days :
    OwnRefundsOnly(d) =>
      key[d].n = Cardinality(Charged(d)) - Cardinality(Returned(d))

(* On such a day at most Cap admitted requests keep their unit, however     *)
(* requests and refunds race.  (A task refunded although it goes on to      *)
(* succeed holds no unit: it comes on top.)                                 *)
CapHolds ==
  \A d \in Days :
    OwnRefundsOnly(d) =>
      Cardinality(Admitted(d)) - Cardinality(Returned(d)) <= Cap

(* Nobody is turned away on a day on which Cap or fewer requests were made, *)
(* whatever refunds, deletes and midnights race with them.                  *)
RejectedOnlyOverCap ==
  \A c \in Calls :
    call[c].over => Cardinality(Charged(call[c].charged)) > Cap

(* A counter without a TTL has a call on the way that will give it one or   *)
(* delete it, or was left by a call that died before anyone else finished.  *)
KeysExpire ==
  \A d \in Days :
    LET left == ~OwnRefundsOnly(d) \/ \A x \in Charged(d) : call[x].pc \in {"expire", "lost"}
    IN  key[d].on /\ ~key[d].ttl =>
          \/ \E c \in Charged(d) : call[c].pc = "expire" \/ (call[c].pc = "lost" /\ left)
          \/ \E r \in Returned(d) : refund[r].pc \in {"delete", "lost"}

(* "a failure should not consume quota": what remains of a day is the cap   *)
(* minus the generations that stand on it.                                  *)
RefundRestoresUnit ==
  \A d \in Days :
    OwnRefundsOnly(d) =>
      Remaining(d) =
        Cap - (Cardinality(Admitted(d)) - Cardinality(Returned(d)))
=============================================================================

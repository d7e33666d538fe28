---------------------------- MODULE JobPageProofs ----------------------------
(***************************************************************************)
(* Proofs about JobPage and the jobs-service under it, for every set of    *)
(* stages, changes, edits and runs, every number of attempts and every     *)
(* set of occasions.                                                       *)
(***************************************************************************)
EXTENDS JobPage, SequenceTheorems, TLAPS

-----------------------------------------------------------------------------
(* What jobs-service sees of the steps of the page. *)

ServiceStep ==
  \/ \E s \in Stages : Create(s)
  \/ \E r \in Changes, s \in Stages : CheckStage(r, s)
  \/ \E r \in Changes : InsertEvent(r) \/ MoveStage(r) \/ AbortChange(r)
  \/ \E r \in Edits, t \in Texts : CheckEdit(r, t)
  \/ \E r \in Edits : Edit(r)
  \/ Remove
  \/ \E c \in Deliveries : Deliver(c) \/ Retry(c) \/ Hear(c) \/ TimeOut(c)
  \/ \E c \in Deliveries, n \in Attempts : CheckPut(c, n) \/ Upsert(c, n)
  \/ UNCHANGED jobVars

(* A step of the service itself is one of these. *)
LEMMA NextOfTheService == JobsNext => ServiceStep
BY DEF JobsNext, ServiceStep, Texts

(* The n-th delivery of a brief is a delivery, and it is of that brief. *)
LEMMA DeliveryPairs ==
  /\ 1 \in Rounds
  /\ \A g \in Briefs, k \in Rounds : <<g, k>> \in Deliveries /\ <<g, k>>[1] = g
  /\ \A c \in Deliveries : c[1] \in Briefs
BY AttemptAssumption DEF Rounds, Deliveries

(* So is what any step of the page asks of it. *)
LEMMA NextServes ==
  ASSUME draft \in Texts, [Next]_vars
  PROVE  ServiceStep
<1>1. CASE UNCHANGED vars
  BY <1>1 DEF vars, ServiceStep
<1>2. CASE JobsNext /\ UNCHANGED <<taskVars, pageVars>>
  BY <1>2, NextOfTheService
<1>3. ASSUME NEW g \in Runs, GenerateElsewhere(g) \/ Finish(g) \/ Rerun(g) \/ Settle(g)
      PROVE  ServiceStep
  <2>1. CASE GenerateElsewhere(g) \/ Settle(g)
    BY <2>1 DEF GenerateElsewhere, Settle, ServiceStep
  <2>2. CASE Finish(g)
    <3>1. CASE g \in Briefs
      <4>1. Deliver(<<g, 1>>) /\ <<g, 1>> \in Deliveries
        BY <2>2, <3>1, DeliveryPairs DEF Finish
      <4> QED
        BY <4>1 DEF ServiceStep
    <3>2. CASE g \notin Briefs
      BY <2>2, <3>2 DEF Finish, ServiceStep
    <3> QED
      BY <3>1, <3>2
  <2>3. CASE Rerun(g)
    <3>1. PICK k \in Rounds : Deliver(<<g, k>>)
      BY <2>3 DEF Rerun
    <3>2. <<g, k>> \in Deliveries
      BY <2>3, DeliveryPairs DEF Rerun
    <3> QED
      BY <3>1, <3>2 DEF ServiceStep
  <2> QED
    BY <1>3, <2>1, <2>2, <2>3
<1>4. CASE Open \/ ReadJob \/ Loaded \/ Leave \/ RefetchFails \/ StageChosen
  BY <1>4 DEF Open, ReadJob, Loaded, Leave, RefetchFails, StageChosen, ServiceStep
<1>5. CASE ConfirmDelete \/ DeleteJob \/ Deleted \/ BackToBoard
  BY <1>5 DEF ConfirmDelete, DeleteJob, Deleted, BackToBoard, ServiceStep
<1>6. ASSUME NEW r \in Changes, NEW s \in Stages, ChooseStage(r, s)
      PROVE  ServiceStep
  BY <1>6 DEF ChooseStage, ServiceStep
<1>7. ASSUME NEW r \in Edits, Type(r) \/ Save(r)
      PROVE  ServiceStep
  BY <1>7 DEF Type, Save, ServiceStep
<1>8. CASE EditSaved
  BY <1>8 DEF EditSaved, ServiceStep
<1>9. ASSUME NEW g \in Runs,
             \/ Start(g) \/ BaseLoaded(g) \/ BaseMissing(g) \/ TaskCreated(g) \/ CreateFails(g)
             \/ StreamThrows(g) \/ PollingEnds(g) \/ Outcome(g) \/ Saved(g)
      PROVE  ServiceStep
  BY <1>9 DEF Start, BaseLoaded, BaseMissing, TaskCreated, CreateFails, StreamThrows,
       PollingEnds, Outcome, Saved, ServiceStep
<1> QED
  BY <1>1, <1>2, <1>3, <1>4, <1>5, <1>6, <1>7, <1>8, <1>9 DEF Next

-----------------------------------------------------------------------------
(* Lemmas on the helpers the service's steps are built from. *)

(* What is left of a sequence without one of its elements. *)
LEMMA Removed ==
  ASSUME NEW A, NEW s \in Seq(A), NEW i \in 1 .. Len(s)
  PROVE  /\ Seqs!RemoveAt(s, i) \in Seq(A)
         /\ Len(Seqs!RemoveAt(s, i)) = Len(s) - 1
         /\ \A j \in 1 .. Len(s) - 1 :
              Seqs!RemoveAt(s, i)[j] = IF j < i THEN s[j] ELSE s[j + 1]
<1> DEFINE before_ == SubSeq(s, 1, i - 1)
           after_ == SubSeq(s, i + 1, Len(s))
<1>0. Len(s) \in Nat /\ i \in Nat /\ i >= 1 /\ i <= Len(s)
  BY LenProperties
<1>1. /\ before_ \in Seq(A) /\ Len(before_) = i - 1
      /\ \A j \in 1 .. i - 1 : before_[j] = s[j]
  BY <1>0
<1>2. /\ after_ \in Seq(A) /\ Len(after_) = Len(s) - i
      /\ \A j \in 1 .. Len(s) - i : after_[j] = s[i + j]
  BY <1>0
<1>3. Seqs!RemoveAt(s, i) = before_ \o after_
  BY DEF Seqs!RemoveAt
<1> HIDE DEF before_, after_
<1>4. /\ before_ \o after_ \in Seq(A)
      /\ Len(before_ \o after_) = Len(s) - 1
      /\ \A j \in 1 .. Len(s) - 1 :
           (before_ \o after_)[j] = IF j <= i - 1 THEN before_[j] ELSE after_[j - (i - 1)]
  <2>1. Len(before_) + Len(after_) = Len(s) - 1
    BY <1>0, <1>1, <1>2
  <2>2. /\ before_ \o after_ \in Seq(A)
        /\ Len(before_ \o after_) = Len(before_) + Len(after_)
        /\ \A j \in 1 .. Len(before_) + Len(after_) : (before_ \o after_)[j] =
             IF j <= Len(before_) THEN before_[j] ELSE after_[j - Len(before_)]
    BY <1>1, <1>2, ConcatProperties, Zenon
  <2> QED
    BY <2>1, <2>2, <1>1
<1>5. ASSUME NEW j \in 1 .. Len(s) - 1
      PROVE  (before_ \o after_)[j] = IF j < i THEN s[j] ELSE s[j + 1]
  <2>1. CASE j < i
    BY <2>1, <1>0, <1>1, <1>4
  <2>2. CASE ~(j < i)
    <3>1. j - (i - 1) \in 1 .. Len(s) - i /\ i + (j - (i - 1)) = j + 1 /\ ~(j <= i - 1)
      BY <2>2, <1>0
    <3> QED
      BY <3>1, <2>2, <1>2, <1>4
  <2> QED
    BY <2>1, <2>2
<1> QED
  BY <1>3, <1>4, <1>5

(* An attempt of a delivery moves on: it keeps its type, and no other moves. *)
LEMMA PutMoves ==
  ASSUME put \in [Deliveries -> [Attempts -> Put]], NEW c \in Deliveries, NEW n \in Attempts,
         NEW p \in {"none", "wire", "checked", "ok", "missing", "error"},
         put' = [put EXCEPT ![c][n].pc = p]
  PROVE  /\ put' \in [Deliveries -> [Attempts -> Put]]
         /\ put'[c][n].pc = p /\ put'[c][n].givenUp = put[c][n].givenUp
         /\ \A d \in Deliveries, m \in Attempts : d # c \/ m # n => put'[d][m] = put[d][m]
<1>1. put[c] \in [Attempts -> Put] /\ put[c][n] \in Put
  OBVIOUS
<1>2. [put[c][n] EXCEPT !.pc = p] \in Put
  BY <1>1 DEF Put
<1>3. /\ [put[c][n] EXCEPT !.pc = p].pc = p
      /\ [put[c][n] EXCEPT !.pc = p].givenUp = put[c][n].givenUp
  BY <1>1 DEF Put
<1>4. put'[c] = [put[c] EXCEPT ![n] = [put[c][n] EXCEPT !.pc = p]]
  BY <1>1
<1>5. put'[c][n] = [put[c][n] EXCEPT !.pc = p]
  BY <1>1, <1>4
<1>6. \A m \in Attempts : m # n => put'[c][m] = put[c][m]
  BY <1>1, <1>4
<1>7. put'[c] \in [Attempts -> Put]
  BY <1>1, <1>2, <1>4
<1>8. \A d \in Deliveries : d # c => put'[d] = put[d]
  OBVIOUS
<1> QED
  BY <1>3, <1>5, <1>6, <1>7, <1>8

(* An attempt that its caller gives up. *)
GiveUp(c, n) == put' = [put EXCEPT ![c][n].givenUp = TRUE]

LEMMA PutGivenUp ==
  ASSUME put \in [Deliveries -> [Attempts -> Put]], NEW c \in Deliveries, NEW n \in Attempts,
         GiveUp(c, n)
  PROVE  /\ put' \in [Deliveries -> [Attempts -> Put]]
         /\ put'[c][n].pc = put[c][n].pc /\ put'[c][n].givenUp
         /\ \A d \in Deliveries, m \in Attempts : d # c \/ m # n => put'[d][m] = put[d][m]
<1> USE DEF GiveUp
<1>1. put[c] \in [Attempts -> Put] /\ put[c][n] \in Put
  OBVIOUS
<1>2. [put[c][n] EXCEPT !.givenUp = TRUE] \in Put
  BY <1>1 DEF Put
<1>3. /\ [put[c][n] EXCEPT !.givenUp = TRUE].pc = put[c][n].pc
      /\ [put[c][n] EXCEPT !.givenUp = TRUE].givenUp
  BY <1>1 DEF Put
<1>4. put'[c] = [put[c] EXCEPT ![n] = [put[c][n] EXCEPT !.givenUp = TRUE]]
  BY <1>1
<1>5. put'[c][n] = [put[c][n] EXCEPT !.givenUp = TRUE]
  BY <1>1, <1>4
<1>6. \A m \in Attempts : m # n => put'[c][m] = put[c][m]
  BY <1>1, <1>4
<1>7. put'[c] \in [Attempts -> Put]
  BY <1>1, <1>2, <1>4
<1>8. \A d \in Deliveries : d # c => put'[d] = put[d]
  OBVIOUS
<1> QED
  BY <1>3, <1>5, <1>6, <1>7, <1>8

(* A call's progress changes, and nothing else about it or another one. *)
LEMMA CallMoves ==
  ASSUME call \in [Deliveries -> Call], NEW c \in Deliveries,
         NEW p \in {"idle", "out", "backoff", "done", "failed"},
         call' = [call EXCEPT ![c].pc = p]
  PROVE  /\ call' \in [Deliveries -> Call]
         /\ call'[c].pc = p /\ call'[c].attempt = call[c].attempt
         /\ \A d \in Deliveries : d # c => call'[d] = call[d]
<1>1. call[c] \in Call
  OBVIOUS
<1>2. [call[c] EXCEPT !.pc = p] \in Call
  BY <1>1 DEF Call
<1>3. [call[c] EXCEPT !.pc = p].pc = p /\ [call[c] EXCEPT !.pc = p].attempt = call[c].attempt
  BY <1>1 DEF Call
<1>4. call'[c] = [call[c] EXCEPT !.pc = p]
  OBVIOUS
<1> QED
  BY <1>2, <1>3, <1>4

(* An attempt goes out. *)
LEMMA AttemptGoesOut ==
  ASSUME call \in [Deliveries -> Call], put \in [Deliveries -> [Attempts -> Put]],
         NEW c \in Deliveries, NEW n \in Attempts, Attempt(c, n)
  PROVE  /\ call' \in [Deliveries -> Call]
         /\ call'[c].pc = "out" /\ call'[c].attempt = n
         /\ \A d \in Deliveries : d # c => call'[d] = call[d]
         /\ put' \in [Deliveries -> [Attempts -> Put]]
         /\ put'[c][n].pc = "wire" /\ put'[c][n].givenUp = put[c][n].givenUp
         /\ \A d \in Deliveries, m \in Attempts : d # c \/ m # n => put'[d][m] = put[d][m]
<1>1. call' = [call EXCEPT ![c] = [pc |-> "out", attempt |-> n]]
  BY DEF Attempt
<1>2. [pc |-> "out", attempt |-> n] \in Call
  BY AttemptAssumption DEF Call, Attempts
<1>3. call'[c] = [pc |-> "out", attempt |-> n]
  BY <1>1
<1>4. put' = [put EXCEPT ![c][n].pc = "wire"]
  BY DEF Attempt
<1>5. /\ put' \in [Deliveries -> [Attempts -> Put]]
      /\ put'[c][n].pc = "wire" /\ put'[c][n].givenUp = put[c][n].givenUp
      /\ \A d \in Deliveries, m \in Attempts : d # c \/ m # n => put'[d][m] = put[d][m]
  BY <1>4, PutMoves
<1> QED
  BY <1>1, <1>2, <1>3, <1>5

-----------------------------------------------------------------------------
(* The deliveries.  An attempt that may still reach the row is the one its *)
(* caller is waiting for, or its caller has given it up; an answer of      *)
(* success comes after the text is written.                                *)

DeliveryTypes ==
  /\ text \in Briefs \cup {None} /\ by \in Deliveries \cup {None}
  /\ written \subseteq Briefs
  /\ call \in [Deliveries -> Call]
  /\ put \in [Deliveries -> [Attempts -> Put]]
  /\ before \in [Deliveries -> SUBSET Deliveries]

CallOK(c) ==
  /\ call[c].pc = "backoff" => call[c].attempt < MaxAttempts
  /\ call[c].pc = "out" => call[c].attempt \in Attempts
  /\ call[c].pc = "done" => c[1] \in written

PutOK(c, n) ==
  /\ put[c][n].pc = "ok" => c[1] \in written
  /\ put[c][n].pc \in {"wire", "checked"} /\ ~put[c][n].givenUp
       => call[c].pc = "out" /\ call[c].attempt = n

ByOK == text \in Briefs => text \in written /\ by \in Deliveries

DeliveryInv ==
  /\ DeliveryTypes
  /\ ByOK
  /\ \A c \in Deliveries : CallOK(c)
  /\ \A c \in Deliveries, n \in Attempts : PutOK(c, n)
  /\ \A d \in Deliveries : \A c \in before[d] : Ended(c)

LEMMA DeliveryFrame ==
  ASSUME DeliveryInv, UNCHANGED <<written, call, put, before>>, <<text', by'>> \in {<<text, by>>, <<None, None>>}
  PROVE  DeliveryInv'
BY JobAssumption DEF DeliveryInv, DeliveryTypes, ByOK, CallOK, PutOK, Ended

LEMMA AttemptKeepsDelivery ==
  ASSUME DeliveryInv, NEW c \in Deliveries, NEW n \in Attempts, Attempt(c, n),
         call[c].pc \in {"idle", "backoff"}, UNCHANGED <<text, by, written>>,
         before' \in [Deliveries -> SUBSET Deliveries],
         \A d \in Deliveries : \A o \in before'[d] : Ended(o)
  PROVE  DeliveryInv'
<1>1. /\ call' \in [Deliveries -> Call]
      /\ call'[c].pc = "out" /\ call'[c].attempt = n
      /\ \A d \in Deliveries : d # c => call'[d] = call[d]
      /\ put' \in [Deliveries -> [Attempts -> Put]]
      /\ put'[c][n].pc = "wire" /\ put'[c][n].givenUp = put[c][n].givenUp
      /\ \A d \in Deliveries, m \in Attempts : d # c \/ m # n => put'[d][m] = put[d][m]
  <2>1. call \in [Deliveries -> Call] /\ put \in [Deliveries -> [Attempts -> Put]]
    BY DEF DeliveryInv, DeliveryTypes
  <2> QED
    BY <2>1, AttemptGoesOut
<1>2. DeliveryTypes'
  BY <1>1 DEF DeliveryInv, DeliveryTypes
<1>3. ASSUME NEW d \in Deliveries PROVE CallOK(d)'
  BY <1>1 DEF DeliveryInv, CallOK
<1>4. ASSUME NEW d \in Deliveries, NEW m \in Attempts PROVE PutOK(d, m)'
  BY <1>1 DEF DeliveryInv, PutOK
<1>5. ASSUME NEW d \in Deliveries, NEW o \in before'[d] PROVE Ended(o)'
  BY <1>1 DEF Ended
<1> QED
  BY <1>2, <1>3, <1>4, <1>5 DEF DeliveryInv, ByOK

LEMMA NextOrFailMoves ==
  ASSUME NEW c \in Deliveries, NextOrFail(c)
  PROVE  \E p \in {"backoff", "failed"} :
           /\ call' = [call EXCEPT ![c].pc = p]
           /\ p = "backoff" => call[c].attempt < MaxAttempts
<1>1. CASE call[c].attempt < MaxAttempts
  BY <1>1 DEF NextOrFail
<1>2. CASE ~(call[c].attempt < MaxAttempts)
  BY <1>2 DEF NextOrFail
<1> QED
  BY <1>1, <1>2

(* A call that was out moves on, and the attempt it made is answered or is *)
(* given up.                                                               *)
LEMMA CallMovesOn ==
  ASSUME DeliveryInv, NEW c \in Deliveries, call[c].pc = "out",
         NEW p \in {"backoff", "done", "failed"}, call' = [call EXCEPT ![c].pc = p],
         p = "backoff" => call[c].attempt < MaxAttempts,
         p = "done" => c[1] \in written,
         UNCHANGED <<text, by, written, before>>,
         put' \in [Deliveries -> [Attempts -> Put]],
         \A d \in Deliveries, m \in Attempts :
           /\ put'[d][m].pc = put[d][m].pc
           /\ put[d][m].givenUp => put'[d][m].givenUp,
         \/ put'[c][call[c].attempt].givenUp
         \/ put[c][call[c].attempt].pc \notin {"wire", "checked"}
  PROVE  DeliveryInv'
<1>1. /\ call' \in [Deliveries -> Call]
      /\ call'[c].pc = p /\ call'[c].attempt = call[c].attempt
      /\ \A d \in Deliveries : d # c => call'[d] = call[d]
  <2>1. call \in [Deliveries -> Call]
    BY DEF DeliveryInv, DeliveryTypes
  <2>2. p \in {"idle", "out", "backoff", "done", "failed"}
    OBVIOUS
  <2> QED
    BY <2>1, <2>2, CallMoves
<1>2. DeliveryTypes'
  BY <1>1 DEF DeliveryInv, DeliveryTypes
<1>3. ASSUME NEW d \in Deliveries PROVE CallOK(d)'
  BY <1>1 DEF DeliveryInv, CallOK
<1>4. ASSUME NEW d \in Deliveries, NEW m \in Attempts PROVE PutOK(d, m)'
  <2>1. /\ PutOK(d, m) /\ put'[d][m].pc = put[d][m].pc
        /\ put[d][m].givenUp => put'[d][m].givenUp
    BY DEF DeliveryInv
  <2>2. CASE d # c
    BY <1>1, <2>1, <2>2 DEF PutOK
  <2>3. CASE d = c
    BY <2>1, <2>3 DEF PutOK
  <2> QED
    BY <2>2, <2>3
<1>5. ASSUME NEW d \in Deliveries, NEW o \in before'[d] PROVE Ended(o)'
  <2>1. o \in Deliveries /\ Ended(o)
    BY DEF DeliveryInv, DeliveryTypes
  <2> QED
    BY <2>1, <1>1 DEF Ended
<1> QED
  BY <1>2, <1>3, <1>4, <1>5 DEF DeliveryInv, ByOK

(* An attempt makes progress in the service. *)
LEMMA PutKeepsDelivery ==
  ASSUME DeliveryInv, NEW c \in Deliveries, NEW n \in Attempts,
         NEW p \in {"checked", "ok", "missing", "error"},
         put[c][n].pc \in {"wire", "checked"}, put' = [put EXCEPT ![c][n].pc = p],
         \/ UNCHANGED <<text, by, written>>
         \/ text' = c[1] /\ by' = c /\ written' = written \cup {c[1]},
         p = "ok" => c[1] \in written',
         UNCHANGED <<call, before>>
  PROVE  DeliveryInv'
<1>1. /\ put' \in [Deliveries -> [Attempts -> Put]]
      /\ put'[c][n].pc = p /\ put'[c][n].givenUp = put[c][n].givenUp
      /\ \A d \in Deliveries, m \in Attempts : d # c \/ m # n => put'[d][m] = put[d][m]
  <2>1. put \in [Deliveries -> [Attempts -> Put]]
    BY DEF DeliveryInv, DeliveryTypes
  <2>2. p \in {"none", "wire", "checked", "ok", "missing", "error"}
    OBVIOUS
  <2> QED
    BY <2>1, <2>2, PutMoves
<1>2. DeliveryTypes' /\ ByOK'
  <2>1. c[1] \in Briefs
    BY DeliveryPairs
  <2> QED
    BY <1>1, <2>1 DEF DeliveryInv, DeliveryTypes, ByOK
<1>3. ASSUME NEW d \in Deliveries PROVE CallOK(d)'
  BY <1>1 DEF DeliveryInv, CallOK
<1>4. ASSUME NEW d \in Deliveries, NEW m \in Attempts PROVE PutOK(d, m)'
  BY <1>1 DEF DeliveryInv, PutOK
<1>5. ASSUME NEW d \in Deliveries, NEW o \in before'[d] PROVE Ended(o)'
  BY DEF Ended, DeliveryInv
<1> QED
  BY <1>2, <1>3, <1>4, <1>5 DEF DeliveryInv

(* Every step of the service keeps it. *)
LEMMA DeliveryStep ==
  ASSUME DeliveryInv, ServiceStep
  PROVE  DeliveryInv'
<1>1. CASE \/ \E s \in Stages : Create(s)
           \/ \E r \in Changes, s \in Stages : CheckStage(r, s)
           \/ \E r \in Changes : InsertEvent(r) \/ MoveStage(r) \/ AbortChange(r)
           \/ \E r \in Edits, t \in Texts : CheckEdit(r, t)
           \/ \E r \in Edits : Edit(r)
           \/ Remove
           \/ UNCHANGED jobVars
  <2>1. UNCHANGED <<written, call, put, before>> /\ <<text', by'>> \in {<<text, by>>, <<None, None>>}
    BY <1>1 DEF Create, CheckStage, InsertEvent, MoveStage, AbortChange, CheckEdit, Edit,
         Remove, serviceKeeps, jobVars
  <2> QED
    BY <2>1, DeliveryFrame
<1>2. ASSUME NEW c \in Deliveries, Deliver(c) PROVE DeliveryInv'
  <2>1. 1 \in Attempts
    BY AttemptAssumption DEF Attempts
  <2>2. /\ Attempt(c, 1) /\ call[c].pc = "idle" /\ UNCHANGED <<text, by, written>>
        /\ before' = [before EXCEPT ![c] = {o \in Deliveries : Ended(o)}]
    BY <1>2 DEF Deliver
  <2>3. /\ before' \in [Deliveries -> SUBSET Deliveries]
        /\ \A d \in Deliveries : \A o \in before'[d] : Ended(o)
    BY <2>2 DEF DeliveryInv, DeliveryTypes
  <2> QED
    BY <2>1, <2>2, <2>3, AttemptKeepsDelivery
<1>3. ASSUME NEW c \in Deliveries, Retry(c) PROVE DeliveryInv'
  <2>1. /\ call[c].pc = "backoff" /\ Attempt(c, call[c].attempt + 1)
        /\ UNCHANGED <<text, by, written, before>>
    BY <1>3 DEF Retry
  <2>2. call[c].attempt + 1 \in Attempts
    BY <2>1, AttemptAssumption DEF DeliveryInv, DeliveryTypes, CallOK, Call, Attempts
  <2>3. /\ before' \in [Deliveries -> SUBSET Deliveries]
        /\ \A d \in Deliveries : \A o \in before'[d] : Ended(o)
    BY <2>1 DEF DeliveryInv, DeliveryTypes
  <2> QED
    BY <2>1, <2>2, <2>3, AttemptKeepsDelivery
<1>4. ASSUME NEW c \in Deliveries, Hear(c) PROVE DeliveryInv'
  <2> DEFINE answer == put[c][call[c].attempt].pc
  <2>1. call[c].pc = "out" /\ UNCHANGED <<text, by, written, put, before>>
    BY <1>4 DEF Hear
  <2>2. answer \in {"ok", "missing", "error"}
    BY <1>4 DEF Hear
  <2>3. \E p \in {"backoff", "done", "failed"} :
          /\ call' = [call EXCEPT ![c].pc = p]
          /\ p = "backoff" => call[c].attempt < MaxAttempts
          /\ p = "done" => answer = "ok"
    <3>1. CASE NextOrFail(c)
      BY <3>1, NextOrFailMoves
    <3>2. CASE ~NextOrFail(c)
      BY <3>2, <1>4 DEF Hear, Retryable
    <3> QED
      BY <3>1, <3>2
  <2>4. answer = "ok" => c[1] \in written
    BY <2>1 DEF DeliveryInv, CallOK, PutOK
  <2>5. PICK p \in {"backoff", "done", "failed"} :
          /\ call' = [call EXCEPT ![c].pc = p]
          /\ p = "backoff" => call[c].attempt < MaxAttempts
          /\ p = "done" => answer = "ok"
    BY <2>3
  <2>6. put' \in [Deliveries -> [Attempts -> Put]]
    BY <2>1 DEF DeliveryInv, DeliveryTypes
  <2>7. p = "done" => c[1] \in written
    BY <2>4, <2>5
  <2>8. \A d \in Deliveries, m \in Attempts :
          /\ put'[d][m].pc = put[d][m].pc
          /\ put[d][m].givenUp => put'[d][m].givenUp
    BY <2>1
  <2>9. put[c][call[c].attempt].pc \notin {"wire", "checked"}
    BY <2>2
  <2> QED
    BY <2>1, <2>5, <2>6, <2>7, <2>8, <2>9, CallMovesOn
<1>5. ASSUME NEW c \in Deliveries, TimeOut(c) PROVE DeliveryInv'
  <2>1. /\ call[c].pc = "out" /\ NextOrFail(c) /\ UNCHANGED <<text, by, written, before>>
        /\ put' = [put EXCEPT ![c][call[c].attempt].givenUp = TRUE]
    BY <1>5 DEF TimeOut
  <2>2. call[c].attempt \in Attempts
    BY <2>1 DEF DeliveryInv, CallOK
  <2>3. PICK p \in {"backoff", "failed"} :
          /\ call' = [call EXCEPT ![c].pc = p]
          /\ p = "backoff" => call[c].attempt < MaxAttempts
    BY <2>1, NextOrFailMoves
  <2> DEFINE n == call[c].attempt
  <2>4. /\ put' \in [Deliveries -> [Attempts -> Put]]
        /\ put'[c][n].pc = put[c][n].pc /\ put'[c][n].givenUp
        /\ \A d \in Deliveries, m \in Attempts : d # c \/ m # n => put'[d][m] = put[d][m]
    <3>1. put \in [Deliveries -> [Attempts -> Put]]
      BY DEF DeliveryInv, DeliveryTypes
    <3>2. n \in Attempts /\ GiveUp(c, n)
      BY <2>1, <2>2 DEF GiveUp
    <3> HIDE DEF n
    <3> QED
      BY <3>1, <3>2, PutGivenUp
  <2>5. \A d \in Deliveries, m \in Attempts :
          /\ put'[d][m].pc = put[d][m].pc
          /\ put[d][m].givenUp => put'[d][m].givenUp
    BY <2>4
  <2> QED
    BY <2>1, <2>3, <2>4, <2>5, CallMovesOn
<1>6. ASSUME NEW c \in Deliveries, NEW n \in Attempts, CheckPut(c, n) PROVE DeliveryInv'
  <2>1. \E p \in {"checked", "missing"} : put' = [put EXCEPT ![c][n].pc = p]
    BY <1>6 DEF CheckPut
  <2>2. put[c][n].pc = "wire" /\ UNCHANGED <<text, by, written, call, before>>
    BY <1>6 DEF CheckPut
  <2> QED
    BY <2>1, <2>2, PutKeepsDelivery
<1>7. ASSUME NEW c \in Deliveries, NEW n \in Attempts, Upsert(c, n) PROVE DeliveryInv'
  <2>1. /\ put[c][n].pc = "checked" /\ UNCHANGED <<call, before>>
        /\ \E p \in {"ok", "error"} :
             /\ put' = [put EXCEPT ![c][n].pc = p]
             /\ \/ UNCHANGED <<text, by, written>>
                \/ text' = c[1] /\ by' = c /\ written' = written \cup {c[1]}
             /\ p = "ok" => c[1] \in written'
    BY <1>7 DEF Upsert
  <2> QED
    BY <2>1, PutKeepsDelivery
<1> QED
  BY <1>1, <1>2, <1>3, <1>4, <1>5, <1>6, <1>7 DEF ServiceStep

-----------------------------------------------------------------------------
(* The history of the job.  Every event is of one committed or open change, *)
(* an open change has its event, and the job's stage is that of a committed *)
(* one.  As long as no two changes have overlapped, the events of open      *)
(* changes come last, and what is pending would move the job.               *)

JobRow == [row : {"none", "live", "gone"}, stage : Stages \cup {None}, jd : Texts]
HistoryTypes ==
  /\ job \in JobRow
  /\ history \in Seq(Event)
  /\ change \in [Changes -> Change]
  /\ raced \in BOOLEAN

Pending(r) == change[r].pc \in {"checked", "open"}

NothingYet ==
  job.row = "none" => history = <<>> /\ \A r \in Changes : change[r].pc = "none"
EventsApart ==
  \A i, j \in DOMAIN history : history[i].by = history[j].by => i = j
EventsOfChanges ==
  \A i \in DOMAIN history :
    history[i].by # None =>
      /\ change[history[i].by].pc \in {"open", "ok"}
      /\ change[history[i].by].to = history[i].stage
PendingMoves ==
  \A r \in Changes : Pending(r) => change[r].to \in Stages
OpenHasEvent ==
  \A r \in Changes :
    change[r].pc = "open" => Live /\ \E i \in DOMAIN history : history[i].by = r
StageInTimeline == Live => \E i \in Timeline : history[i].stage = job.stage

OpenComeLast == \A i \in Timeline, k \in DOMAIN history \ Timeline : i < k
PendingDiffers == \A r \in Changes : Pending(r) => change[r].to # job.stage
NewestIsStage ==
  \A i \in Timeline : (\A j \in Timeline : j <= i) => history[i].stage = job.stage
NoneRepeats ==
  \A i, k \in Timeline :
    i < k /\ (\A j \in Timeline : j <= i \/ k <= j) => history[i].stage # history[k].stage
Undisturbed ==
  Live /\ ~raced => OpenComeLast /\ PendingDiffers /\ NewestIsStage /\ NoneRepeats

HistoryInv ==
  /\ HistoryTypes
  /\ NothingYet /\ EventsApart /\ EventsOfChanges
  /\ PendingMoves /\ OpenHasEvent /\ StageInTimeline
  /\ Undisturbed

(* Who looks at the timeline looks at its positions. *)
LEMMA InTimeline ==
  \A i : i \in Timeline <=>
    /\ i \in DOMAIN history
    /\ history[i].by = None \/ change[history[i].by].pc = "ok"
BY DEF Timeline

LEMMA EventFields ==
  ASSUME history \in Seq(Event), NEW i \in DOMAIN history
  PROVE  history[i].by \in Changes \cup {None} /\ history[i].stage \in Stages
<1>1. i \in 1 .. Len(history)
  OBVIOUS
<1>2. history[i] \in Event
  BY <1>1
<1> QED
  BY <1>2 DEF Event

(* A change that has not been opened has no event. *)
LEMMA NoEventYet ==
  ASSUME HistoryInv, NEW r \in Changes, change[r].pc \notin {"open", "ok"},
         NEW i \in DOMAIN history
  PROVE  history[i].by \in Changes \cup {None} /\ history[i].by # r
<1>1. history[i].by \in Changes \cup {None}
  BY EventFields DEF HistoryInv, HistoryTypes
<1>2. r # None
  BY JobAssumption
<1> QED
  BY <1>1, <1>2 DEF HistoryInv, EventsOfChanges

LEMMA ChangeMoves ==
  ASSUME change \in [Changes -> Change], NEW r \in Changes,
         NEW p \in {"none", "checked", "open", "ok", "missing", "error"},
         change' = [change EXCEPT ![r].pc = p]
  PROVE  /\ change' \in [Changes -> Change]
         /\ change'[r].pc = p /\ change'[r].to = change[r].to
         /\ \A o \in Changes : o # r => change'[o] = change[o]
<1>1. change[r] \in Change
  OBVIOUS
<1>2. [change[r] EXCEPT !.pc = p] \in Change
  BY <1>1 DEF Change
<1>3. [change[r] EXCEPT !.pc = p].pc = p /\ [change[r] EXCEPT !.pc = p].to = change[r].to
  BY <1>1 DEF Change
<1>4. change'[r] = [change[r] EXCEPT !.pc = p]
  OBVIOUS
<1> QED
  BY <1>2, <1>3, <1>4

(* A step that is not about stages. *)
LEMMA HistoryFrame ==
  ASSUME HistoryInv, UNCHANGED <<history, change, raced>>,
         job' \in JobRow, job'.row = job.row, job'.stage = job.stage
  PROVE  HistoryInv'
<1>1. Timeline' = Timeline
  BY DEF Timeline
<1>2. Live' = Live
  BY DEF Live
<1> QED
  BY <1>1, <1>2 DEF HistoryInv, HistoryTypes, NothingYet, EventsApart, EventsOfChanges, PendingMoves,
       Pending, OpenHasEvent, StageInTimeline, Undisturbed, OpenComeLast, PendingDiffers,
       NewestIsStage, NoneRepeats

LEMMA CreateHistory ==
  ASSUME HistoryInv, NEW s \in Stages, Create(s)
  PROVE  HistoryInv'
<1>1. /\ job.row = "none" /\ job' = [row |-> "live", stage |-> s, jd |-> None]
      /\ history' = <<[by |-> None, stage |-> s]>> /\ UNCHANGED <<change, raced>>
  BY DEF Create
<1>2. [by |-> None, stage |-> s] \in Event
  BY DEF Event
<1>3. /\ history' \in Seq(Event) /\ DOMAIN history' = {1}
      /\ history'[1].by = None /\ history'[1].stage = s
  BY <1>1, <1>2
<1>4. \A r \in Changes : change'[r].pc = "none"
  BY <1>1 DEF HistoryInv, NothingYet
<1>5. HistoryTypes'
  BY <1>1, <1>3 DEF HistoryInv, HistoryTypes, JobRow, Texts
<1>6. Timeline' = {1}
  BY <1>3 DEF Timeline
<1>7. job'.stage = s /\ job'.row = "live"
  BY <1>1
<1>8. NothingYet' /\ EventsApart' /\ EventsOfChanges'
  BY <1>3, <1>7 DEF NothingYet, EventsApart, EventsOfChanges
<1>9. PendingMoves' /\ OpenHasEvent' /\ StageInTimeline'
  BY <1>3, <1>4, <1>6, <1>7 DEF PendingMoves, Pending, OpenHasEvent, StageInTimeline
<1>10. OpenComeLast' /\ PendingDiffers' /\ NewestIsStage' /\ NoneRepeats'
  BY <1>3, <1>4, <1>6, <1>7 DEF OpenComeLast, PendingDiffers, Pending, NewestIsStage, NoneRepeats
<1> QED
  BY <1>5, <1>8, <1>9, <1>10 DEF HistoryInv, Undisturbed

LEMMA CheckStageHistory ==
  ASSUME HistoryInv, NEW r \in Changes, NEW s \in Stages, CheckStage(r, s)
  PROVE  HistoryInv'
<1>1. /\ job.row # "none" /\ change[r].pc = "none" /\ UNCHANGED <<job, history, raced>>
      /\ change' = [change EXCEPT ![r] =
           [ pc |-> IF ~Live THEN "missing" ELSE IF job.stage = s THEN "ok" ELSE "checked",
             to |-> s ]]
  BY DEF CheckStage
<1>2. PICK p \in {"missing", "ok", "checked"} :
        /\ p = (IF ~Live THEN "missing" ELSE IF job.stage = s THEN "ok" ELSE "checked")
        /\ p = "checked" => Live /\ job.stage # s
  <2>1. CASE ~Live
    BY <2>1
  <2>2. CASE Live /\ job.stage = s
    BY <2>2
  <2>3. CASE Live /\ job.stage # s
    BY <2>3
  <2> QED
    BY <2>1, <2>2, <2>3
<1>3. change' = [change EXCEPT ![r] = [pc |-> p, to |-> s]]
  BY <1>1, <1>2
<1>4. [pc |-> p, to |-> s] \in Change
  BY DEF Change
<1>5. /\ change' \in [Changes -> Change]
      /\ change'[r].pc = p /\ change'[r].to = s
      /\ \A o \in Changes : o # r => change'[o] = change[o]
  BY <1>3, <1>4 DEF HistoryInv, HistoryTypes
<1>6. \A i \in DOMAIN history : history[i].by \in Changes \cup {None} /\ history[i].by # r
  BY <1>1, NoEventYet
<1>7. Timeline' = Timeline
  BY <1>1, <1>5, <1>6 DEF Timeline
<1>8. HistoryTypes'
  BY <1>1, <1>5 DEF HistoryInv, HistoryTypes
<1>9. NothingYet' /\ EventsApart'
  BY <1>1 DEF HistoryInv, NothingYet, EventsApart
<1>10. EventsOfChanges'
  BY <1>1, <1>5, <1>6 DEF HistoryInv, EventsOfChanges
<1>11. PendingMoves' /\ OpenHasEvent'
  BY <1>1, <1>2, <1>5 DEF HistoryInv, PendingMoves, Pending, OpenHasEvent, Live
<1>12. StageInTimeline'
  BY <1>1, <1>7 DEF HistoryInv, StageInTimeline, Live
<1>13. ASSUME Live', ~raced' PROVE OpenComeLast' /\ PendingDiffers' /\ NewestIsStage' /\ NoneRepeats'
  <2>1. OpenComeLast /\ PendingDiffers /\ NewestIsStage /\ NoneRepeats
    BY <1>1, <1>13 DEF HistoryInv, Undisturbed, Live
  <2>2. OpenComeLast' /\ NewestIsStage' /\ NoneRepeats'
    BY <1>1, <1>7, <2>1 DEF OpenComeLast, NewestIsStage, NoneRepeats
  <2>3. PendingDiffers'
    BY <1>1, <1>2, <1>5, <2>1 DEF PendingDiffers, Pending
  <2> QED
    BY <2>2, <2>3
<1> QED
  BY <1>8, <1>9, <1>10, <1>11, <1>12, <1>13 DEF HistoryInv, Undisturbed

LEMMA InsertEventHistory ==
  ASSUME HistoryInv, NEW r \in Changes, InsertEvent(r)
  PROVE  HistoryInv'
<1>1. change[r].pc = "checked" /\ UNCHANGED <<job, raced>>
  BY DEF InsertEvent
<1>2. \A i \in DOMAIN history : history[i].by \in Changes \cup {None} /\ history[i].by # r
  BY <1>1, NoEventYet
<1>3. CASE ~Live
  <2>1. change' = [change EXCEPT ![r].pc = "error"] /\ history' = history
    BY <1>3 DEF InsertEvent
  <2>2. /\ change' \in [Changes -> Change]
        /\ change'[r].pc = "error" /\ change'[r].to = change[r].to
        /\ \A o \in Changes : o # r => change'[o] = change[o]
    BY <2>1, ChangeMoves DEF HistoryInv, HistoryTypes
  <2>3. ~Live' /\ job.row # "none"
    BY <1>1, <1>3 DEF Live, HistoryInv, NothingYet
  <2>4. HistoryTypes'
    BY <1>1, <2>1, <2>2 DEF HistoryInv, HistoryTypes
  <2>5. NothingYet' /\ EventsApart' /\ StageInTimeline' /\ Undisturbed'
    BY <1>1, <2>1, <2>3 DEF HistoryInv, NothingYet, EventsApart, StageInTimeline, Undisturbed
  <2>6. EventsOfChanges'
    BY <1>2, <2>1, <2>2 DEF HistoryInv, EventsOfChanges
  <2>7. PendingMoves' /\ OpenHasEvent'
    BY <1>1, <2>1, <2>2 DEF HistoryInv, PendingMoves, Pending, OpenHasEvent, Live
  <2> QED
    BY <2>4, <2>5, <2>6, <2>7 DEF HistoryInv
<1>4. CASE Live
  <2> DEFINE e == [by |-> r, stage |-> change[r].to]
             n == Len(history)
  <2>1. change' = [change EXCEPT ![r].pc = "open"] /\ history' = Append(history, e)
    BY <1>4 DEF InsertEvent
  <2>2. /\ change' \in [Changes -> Change]
        /\ change'[r].pc = "open" /\ change'[r].to = change[r].to
        /\ \A o \in Changes : o # r => change'[o] = change[o]
    BY <2>1, ChangeMoves DEF HistoryInv, HistoryTypes
  <2>3. e \in Event /\ e.by = r /\ e.stage = change[r].to
    BY <1>1 DEF HistoryInv, PendingMoves, Pending, Event
  <2>4. n \in Nat /\ DOMAIN history = 1 .. n
    BY DEF HistoryInv, HistoryTypes
  <2>5. /\ history' \in Seq(Event) /\ DOMAIN history' = 1 .. n + 1
        /\ history'[n + 1] = e /\ \A i \in 1 .. n : history'[i] = history[i]
    BY <2>1, <2>3, AppendProperties DEF HistoryInv, HistoryTypes
  <2> HIDE DEF e, n
  <2>6. DOMAIN history' = DOMAIN history \cup {n + 1} /\ \A i \in DOMAIN history : i < n + 1
    BY <2>4, <2>5
  <2>7. \A i \in DOMAIN history : history'[i] = history[i]
    BY <2>4, <2>5
  <2>8. r # None
    BY JobAssumption
  <2>9. Timeline' = Timeline
    <3>1. \A i \in DOMAIN history : i \in Timeline' <=> i \in Timeline
      BY <1>2, <2>2, <2>6, <2>7 DEF Timeline
    <3>2. n + 1 \notin Timeline'
      BY <2>2, <2>3, <2>5, <2>8 DEF Timeline
    <3>3. Timeline' \subseteq DOMAIN history' /\ Timeline \subseteq DOMAIN history
      BY DEF Timeline
    <3> QED
      BY <2>6, <3>1, <3>2, <3>3
  <2>10. HistoryTypes'
    BY <1>1, <2>2, <2>5 DEF HistoryInv, HistoryTypes
  <2>11. NothingYet'
    BY <1>1, <1>4 DEF NothingYet, Live
  <2>12. EventsApart'
    BY <1>2, <2>3, <2>5, <2>6, <2>7 DEF HistoryInv, EventsApart
  <2>13. EventsOfChanges'
    <3>1. ASSUME NEW i \in DOMAIN history, history'[i].by # None
          PROVE  /\ change'[history'[i].by].pc \in {"open", "ok"}
                 /\ change'[history'[i].by].to = history'[i].stage
      BY <3>1, <1>2, <2>2, <2>7 DEF HistoryInv, EventsOfChanges
    <3> QED
      BY <2>2, <2>3, <2>5, <2>6, <3>1 DEF EventsOfChanges
  <2>14. PendingMoves'
    BY <1>1, <2>2 DEF HistoryInv, PendingMoves, Pending
  <2>15. OpenHasEvent'
    <3>1. Live'
      BY <1>1, <1>4 DEF Live
    <3>2. history'[n + 1].by = r /\ n + 1 \in DOMAIN history'
      BY <2>3, <2>5, <2>6
    <3> QED
      BY <2>2, <2>6, <2>7, <3>1, <3>2 DEF HistoryInv, OpenHasEvent
  <2>16. \A i \in Timeline : history'[i] = history[i]
    BY <2>7 DEF Timeline
  <2>17. StageInTimeline'
    BY <1>1, <1>4, <2>9, <2>16 DEF HistoryInv, StageInTimeline, Live
  <2>18. ASSUME ~raced' PROVE OpenComeLast' /\ PendingDiffers' /\ NewestIsStage' /\ NoneRepeats'
    <3>1. OpenComeLast /\ PendingDiffers /\ NewestIsStage /\ NoneRepeats
      BY <1>1, <1>4, <2>18 DEF HistoryInv, Undisturbed
    <3>2. NewestIsStage'
      BY <1>1, <2>9, <2>16, <3>1 DEF NewestIsStage
    <3>3. NoneRepeats'
      BY <2>9, <2>16, <3>1 DEF NoneRepeats
    <3>4. PendingDiffers'
      BY <1>1, <2>2, <3>1 DEF PendingDiffers, Pending
    <3>5. OpenComeLast'
      BY <2>6, <2>9, <3>1 DEF OpenComeLast, Timeline
    <3> QED
      BY <3>2, <3>3, <3>4, <3>5
  <2> QED
    BY <2>10, <2>11, <2>12, <2>13, <2>14, <2>15, <2>17, <2>18 DEF HistoryInv, Undisturbed
<1> QED
  BY <1>3, <1>4

LEMMA MoveStageHistory ==
  ASSUME HistoryInv, NEW r \in Changes, MoveStage(r)
  PROVE  HistoryInv'
<1>1. /\ change[r].pc = "open" /\ history' = history
      /\ change' = [change EXCEPT ![r].pc = "ok"]
      /\ job' = [job EXCEPT !.stage = change[r].to]
      /\ raced' = (raced \/ \E o \in Changes \ {r} : change[o].pc \in {"checked", "open"})
  BY DEF MoveStage
<1>2. /\ change' \in [Changes -> Change]
      /\ change'[r].pc = "ok" /\ change'[r].to = change[r].to
      /\ \A o \in Changes : o # r => change'[o] = change[o]
  BY <1>1, ChangeMoves DEF HistoryInv, HistoryTypes
<1>3. change[r].to \in Stages /\ Live /\ r # None
  BY <1>1, JobAssumption DEF HistoryInv, PendingMoves, Pending, OpenHasEvent
<1>4. job' \in JobRow /\ job'.row = job.row /\ job'.stage = change[r].to
  BY <1>1, <1>3 DEF HistoryInv, HistoryTypes, JobRow
<1>5. PICK e \in DOMAIN history : history[e].by = r
  BY <1>1 DEF HistoryInv, OpenHasEvent
<1>6. \A i \in DOMAIN history : i # e => history[i].by # r
  BY <1>5 DEF HistoryInv, EventsApart
<1>7. \A i \in DOMAIN history : history[i].by \in Changes \cup {None}
  BY EventFields DEF HistoryInv, HistoryTypes
<1>8. history[e].stage = change[r].to
  BY <1>3, <1>5 DEF HistoryInv, EventsOfChanges
<1>9. Timeline' = Timeline \cup {e}
  <2>1. e \in Timeline'
    BY <1>1, <1>2, <1>5 DEF Timeline
  <2>2. \A i \in DOMAIN history : i # e => (i \in Timeline' <=> i \in Timeline)
    BY <1>1, <1>2, <1>6, <1>7 DEF Timeline
  <2>3. Timeline \subseteq DOMAIN history /\ Timeline' \subseteq DOMAIN history
    BY <1>1 DEF Timeline
  <2> QED
    BY <1>5, <2>1, <2>2, <2>3
<1>10. HistoryTypes'
  BY <1>1, <1>2, <1>4 DEF HistoryInv, HistoryTypes
<1>11. NothingYet' /\ EventsApart'
  BY <1>1, <1>3, <1>4 DEF HistoryInv, NothingYet, EventsApart, Live
<1>12. EventsOfChanges'
  BY <1>1, <1>2, <1>5, <1>6, <1>7, <1>8 DEF HistoryInv, EventsOfChanges
<1>13. PendingMoves' /\ OpenHasEvent'
  BY <1>1, <1>2, <1>4 DEF HistoryInv, PendingMoves, Pending, OpenHasEvent, Live
<1>14. StageInTimeline'
  BY <1>1, <1>4, <1>8, <1>9 DEF StageInTimeline
<1>15. ASSUME ~raced' PROVE OpenComeLast' /\ PendingDiffers' /\ NewestIsStage' /\ NoneRepeats'
  <2>1. ~raced /\ \A o \in Changes : o # r => ~Pending(o)
    BY <1>1, <1>15 DEF HistoryInv, HistoryTypes, Pending
  <2>2. OpenComeLast /\ PendingDiffers /\ NewestIsStage /\ NoneRepeats
    BY <1>3, <2>1 DEF HistoryInv, Undisturbed
  <2>3. DOMAIN history = Timeline \cup {e}
    BY <1>1, <1>5, <1>6, <1>7, <2>1 DEF HistoryInv, EventsOfChanges, Pending, Timeline
  <2>4. e \notin Timeline
    BY <1>1, <1>3, <1>5 DEF Timeline
  <2>5. \A i \in Timeline : i < e
    BY <1>5, <2>2, <2>4 DEF OpenComeLast
  <2>6. e \in Nat /\ Timeline \subseteq Nat
    <3>1. DOMAIN history \subseteq Nat
      BY DEF HistoryInv, HistoryTypes
    <3> QED
      BY <3>1, <2>3
  <2>7. PendingDiffers'
    BY <1>2, <2>1 DEF PendingDiffers, Pending
  <2>8. OpenComeLast'
    BY <1>1, <1>9, <2>3 DEF OpenComeLast
  <2>9. NewestIsStage'
    <3>1. ASSUME NEW i \in Timeline, e <= i PROVE FALSE
      BY <3>1, <2>5, <2>6
    <3> QED
      BY <1>1, <1>4, <1>8, <1>9, <3>1 DEF NewestIsStage
  <2>10. ASSUME NEW i \in Timeline', NEW k \in Timeline', i < k,
                \A j \in Timeline' : j <= i \/ k <= j
         PROVE  history'[i].stage # history'[k].stage
    <3>1. i # e
      <4>1. k <= e
        BY <1>9, <2>5, <2>6
      <4> QED
        BY <4>1, <2>6, <1>9, <2>10
    <3>2. i \in Timeline
      BY <3>1, <1>9
    <3>3. CASE k = e
      <4>1. \A j \in Timeline : j <= i
        BY <2>5, <2>6, <1>9, <2>10, <3>2, <3>3
      <4>2. history[i].stage = job.stage
        BY <4>1, <3>2, <2>2 DEF NewestIsStage
      <4>3. change[r].to # job.stage
        BY <1>1, <2>2 DEF PendingDiffers, Pending
      <4> QED
        BY <4>2, <4>3, <3>3, <1>1, <1>8
    <3>4. CASE k # e
      BY <3>2, <3>4, <1>1, <1>9, <2>2, <2>10 DEF NoneRepeats
    <3> QED
      BY <3>3, <3>4
  <2> QED
    BY <2>7, <2>8, <2>9, <2>10 DEF NoneRepeats
<1> QED
  BY <1>10, <1>11, <1>12, <1>13, <1>14, <1>15 DEF HistoryInv, Undisturbed

(* The event of the change goes, and those after it move up by one: was     *)
(* tells where an event that is left has been.                              *)
LEMMA AbortChangeHistory ==
  ASSUME HistoryInv, NEW r \in Changes, AbortChange(r)
  PROVE  HistoryInv'
<1>1. /\ Pending(r) /\ UNCHANGED <<job, raced>>
      /\ change' = [change EXCEPT ![r].pc = "error"]
  BY DEF AbortChange, Pending
<1>2. /\ change' \in [Changes -> Change]
      /\ change'[r].pc = "error" /\ change'[r].to = change[r].to
      /\ \A o \in Changes : o # r => change'[o] = change[o]
  BY <1>1, ChangeMoves DEF HistoryInv, HistoryTypes
<1>3. PendingMoves'
  BY <1>2 DEF HistoryInv, PendingMoves, Pending
<1>4. job.row # "none"
  BY <1>1 DEF HistoryInv, NothingYet, Pending
<1>5. PendingDiffers => PendingDiffers'
  BY <1>1, <1>2 DEF PendingDiffers, Pending
<1>6. CASE change[r].pc = "checked"
  <2>1. history' = history
    BY <1>6 DEF AbortChange
  <2>2. \A i \in DOMAIN history : history[i].by \in Changes \cup {None} /\ history[i].by # r
    BY <1>6, NoEventYet
  <2>3. Timeline' = Timeline
    BY <1>2, <2>1, <2>2 DEF Timeline
  <2>4. HistoryTypes' /\ NothingYet' /\ EventsApart'
    BY <1>1, <1>2, <1>4, <2>1 DEF HistoryInv, HistoryTypes, NothingYet, EventsApart
  <2>5. EventsOfChanges'
    BY <1>2, <2>1, <2>2 DEF HistoryInv, EventsOfChanges
  <2>6. OpenHasEvent' /\ StageInTimeline'
    BY <1>1, <1>2, <2>1, <2>3 DEF HistoryInv, OpenHasEvent, StageInTimeline, Live
  <2>7. Undisturbed'
    BY <1>1, <1>5, <2>1, <2>3 DEF HistoryInv, Undisturbed, OpenComeLast, NewestIsStage,
         NoneRepeats, Live
  <2> QED
    BY <1>3, <2>4, <2>5, <2>6, <2>7 DEF HistoryInv
<1>7. CASE change[r].pc = "open"
  <2> DEFINE n == Len(history)
  <2>1. PICK e \in DOMAIN history : history[e].by = r /\ history' = Seqs!RemoveAt(history, e)
    BY <1>7 DEF AbortChange
  <2> DEFINE was(j) == IF j < e THEN j ELSE j + 1
  <2>2. n \in Nat /\ DOMAIN history = 1 .. n /\ history \in Seq(Event)
    BY DEF HistoryInv, HistoryTypes
  <2>3. /\ history' \in Seq(Event) /\ Len(history') = n - 1
        /\ \A j \in 1 .. n - 1 : history'[j] = IF j < e THEN history[j] ELSE history[j + 1]
    BY <2>1, <2>2, Removed
  <2>4. DOMAIN history' = 1 .. n - 1
    BY <2>3
  <2>5. e \in 1 .. n /\ e \in Nat
    BY <2>1, <2>2
  <2>6. \A j \in DOMAIN history' :
          was(j) \in DOMAIN history /\ was(j) # e /\ history'[j] = history[was(j)]
    BY <2>2, <2>3, <2>4, <2>5
  <2>7. \A i \in DOMAIN history : i # e => \E j \in DOMAIN history' : was(j) = i
    <3>1. ASSUME NEW i \in DOMAIN history, i < e
          PROVE  i \in DOMAIN history' /\ was(i) = i
      BY <3>1, <2>2, <2>4, <2>5
    <3>2. ASSUME NEW i \in DOMAIN history, i > e
          PROVE  i - 1 \in DOMAIN history' /\ was(i - 1) = i
      BY <3>2, <2>2, <2>4, <2>5
    <3>3. \A i \in DOMAIN history : i # e => i < e \/ i > e
      BY <2>2, <2>5
    <3> QED
      BY <3>1, <3>2, <3>3
  <2>8. \A i, j \in DOMAIN history' :
          /\ i < j <=> was(i) < was(j)
          /\ i <= j <=> was(i) <= was(j)
          /\ i = j <=> was(i) = was(j)
    BY <2>4, <2>5
  <2> HIDE DEF n, was
  <2>9. \A i \in DOMAIN history : i # e => history[i].by # r
    BY <2>1 DEF HistoryInv, EventsApart
  <2>10. \A i \in DOMAIN history : history[i].by \in Changes \cup {None}
    BY EventFields DEF HistoryInv, HistoryTypes
  <2>11. \A j \in DOMAIN history' : j \in Timeline' <=> was(j) \in Timeline
    BY <1>2, <2>6, <2>9, <2>10 DEF Timeline
  <2>12. e \notin Timeline /\ Timeline \subseteq DOMAIN history /\ Timeline' \subseteq DOMAIN history'
    BY <1>7, <2>1, JobAssumption DEF Timeline
  <2>13. \A i \in Timeline : \E j \in Timeline' : was(j) = i
    BY <2>7, <2>11, <2>12
  <2>14. HistoryTypes'
    BY <1>1, <1>2, <2>3 DEF HistoryInv, HistoryTypes
  <2>15. NothingYet'
    BY <1>1, <1>4 DEF NothingYet
  <2>16. EventsApart'
    BY <2>6, <2>8 DEF HistoryInv, EventsApart
  <2>17. EventsOfChanges'
    BY <1>2, <2>6, <2>9, <2>10 DEF HistoryInv, EventsOfChanges
  <2>18. OpenHasEvent'
    <3>1. ASSUME NEW o \in Changes, change'[o].pc = "open"
          PROVE  Live' /\ \E j \in DOMAIN history' : history'[j].by = o
      <4>1. o # r /\ change[o].pc = "open"
        BY <1>2, <3>1
      <4>2. Live /\ \E i \in DOMAIN history : history[i].by = o
        BY <4>1 DEF HistoryInv, OpenHasEvent
      <4>3. PICK i \in DOMAIN history : history[i].by = o
        BY <4>2
      <4>4. i # e
        BY <4>1, <4>3, <2>1
      <4>5. PICK j \in DOMAIN history' : was(j) = i
        BY <4>4, <2>7
      <4> QED
        BY <1>1, <4>2, <4>3, <4>5, <2>6 DEF Live
    <3> QED
      BY <3>1 DEF OpenHasEvent
  <2>19. StageInTimeline'
    <3>1. ASSUME Live' PROVE \E j \in Timeline' : history'[j].stage = job'.stage
      <4>1. PICK i \in Timeline : history[i].stage = job.stage
        BY <1>1, <3>1 DEF HistoryInv, StageInTimeline, Live
      <4>2. PICK j \in Timeline' : was(j) = i
        BY <2>13
      <4> QED
        BY <1>1, <4>1, <4>2, <2>6, <2>12
    <3> QED
      BY <3>1 DEF StageInTimeline
  <2>20. ASSUME Live', ~raced' PROVE OpenComeLast' /\ PendingDiffers' /\ NewestIsStage' /\ NoneRepeats'
    <3>1. OpenComeLast /\ PendingDiffers /\ NewestIsStage /\ NoneRepeats
      BY <1>1, <2>20 DEF HistoryInv, Undisturbed, Live
    <3>2. OpenComeLast'
      BY <2>6, <2>8, <2>11, <2>12, <3>1 DEF OpenComeLast
    <3>3. ASSUME NEW i \in Timeline', \A j \in Timeline' : j <= i
          PROVE  history'[i].stage = job'.stage
      <4>1. \A k \in Timeline : k <= was(i)
        BY <3>3, <2>8, <2>12, <2>13
      <4>2. was(i) \in Timeline /\ history'[i] = history[was(i)]
        BY <2>6, <2>11, <2>12
      <4> QED
        BY <1>1, <4>1, <4>2, <3>1 DEF NewestIsStage
    <3>4. ASSUME NEW i \in Timeline', NEW k \in Timeline', i < k,
                 \A j \in Timeline' : j <= i \/ k <= j
          PROVE  history'[i].stage # history'[k].stage
      <4>1. \A j \in Timeline : j <= was(i) \/ was(k) <= j
        BY <3>4, <2>8, <2>12, <2>13
      <4>2. /\ was(i) \in Timeline /\ history'[i] = history[was(i)]
            /\ was(k) \in Timeline /\ history'[k] = history[was(k)]
        BY <2>6, <2>11, <2>12
      <4>3. was(i) < was(k)
        BY <3>4, <2>8, <2>12
      <4> QED
        BY <4>1, <4>2, <4>3, <3>1 DEF NoneRepeats
    <3> QED
      BY <1>5, <3>1, <3>2, <3>3, <3>4 DEF NewestIsStage, NoneRepeats
  <2> QED
    BY <1>3, <2>14, <2>15, <2>16, <2>17, <2>18, <2>19, <2>20 DEF HistoryInv, Undisturbed
<1> QED
  BY <1>1, <1>6, <1>7 DEF Pending

LEMMA RemoveHistory ==
  ASSUME HistoryInv, Remove
  PROVE  HistoryInv'
<1>1. /\ job' = [row |-> "gone", stage |-> None, jd |-> None] /\ history' = <<>>
      /\ UNCHANGED <<change, raced>> /\ \A r \in Changes : change[r].pc # "open"
  BY DEF Remove
<1>2. ~Live' /\ job'.row = "gone"
  BY <1>1 DEF Live
<1>3. HistoryTypes'
  BY <1>1 DEF HistoryInv, HistoryTypes, JobRow, Texts
<1>4. DOMAIN history' = {}
  BY <1>1
<1>5. EventsApart' /\ EventsOfChanges'
  BY <1>4 DEF EventsApart, EventsOfChanges
<1> QED
  BY <1>1, <1>2, <1>3, <1>5 DEF HistoryInv, NothingYet, PendingMoves, Pending, OpenHasEvent,
       StageInTimeline, Undisturbed

(* Every step of the service keeps the history. *)
LEMMA HistoryStep ==
  ASSUME HistoryInv, edit \in [Edits -> Update], ServiceStep
  PROVE  HistoryInv'
<1>1. ASSUME NEW r \in Edits, Edit(r) PROVE HistoryInv'
  <2>1. edit[r].text \in Texts
    BY DEF Update
  <2>2. job' \in {job, [job EXCEPT !.jd = edit[r].text]}
    BY <1>1 DEF Edit
  <2>3. job' \in JobRow /\ job'.row = job.row /\ job'.stage = job.stage
    BY <2>1, <2>2 DEF HistoryInv, HistoryTypes, JobRow
  <2>4. UNCHANGED <<history, change, raced>>
    BY <1>1 DEF Edit
  <2> QED
    BY <2>3, <2>4, HistoryFrame
<1>2. CASE UNCHANGED <<job, history, change, raced>>
  BY <1>2, HistoryFrame DEF HistoryInv, HistoryTypes
<1>3. CASE \/ \E r \in Edits, t \in Texts : CheckEdit(r, t)
           \/ \E c \in Deliveries : Deliver(c) \/ Retry(c) \/ Hear(c) \/ TimeOut(c)
           \/ \E c \in Deliveries, n \in Attempts : CheckPut(c, n) \/ Upsert(c, n)
           \/ UNCHANGED jobVars
  BY <1>2, <1>3 DEF CheckEdit, Deliver, Retry, Hear, TimeOut, CheckPut, Upsert, browserKeeps, jobVars
<1>4. CASE \/ \E s \in Stages : Create(s)
           \/ \E r \in Changes, s \in Stages : CheckStage(r, s)
           \/ \E r \in Changes : InsertEvent(r) \/ MoveStage(r) \/ AbortChange(r)
           \/ Remove
  BY <1>4, CreateHistory, CheckStageHistory, InsertEventHistory, MoveStageHistory,
     AbortChangeHistory, RemoveHistory
<1> QED
  BY <1>1, <1>3, <1>4 DEF ServiceStep

-----------------------------------------------------------------------------
(* The texts of the job.  What it has been is kept, and only texts it has   *)
(* been are in it.                                                          *)

EditInv ==
  /\ may \in Occasions
  /\ edit \in [Edits -> Update]
  /\ held \subseteq Texts
  /\ job.row = "none" => held = {}
  /\ job.jd # None => job.jd \in held

LEMMA EditStep ==
  ASSUME EditInv, job \in JobRow, ServiceStep
  PROVE  EditInv' /\ held \subseteq held'
<1>1. CASE UNCHANGED <<may, job, edit, held>>
  BY <1>1 DEF EditInv
<1>2. CASE \/ \E r \in Changes, s \in Stages : CheckStage(r, s)
           \/ \E r \in Changes : InsertEvent(r) \/ AbortChange(r)
           \/ \E c \in Deliveries : Deliver(c) \/ Retry(c) \/ Hear(c) \/ TimeOut(c)
           \/ \E c \in Deliveries, n \in Attempts : CheckPut(c, n) \/ Upsert(c, n)
           \/ UNCHANGED jobVars
  BY <1>1, <1>2 DEF CheckStage, InsertEvent, AbortChange, Deliver, Retry, Hear, TimeOut, CheckPut,
     Upsert, browserKeeps, jobVars
<1>3. ASSUME NEW s \in Stages, Create(s) PROVE EditInv' /\ held \subseteq held'
  BY <1>3 DEF Create, EditInv, Texts
<1>4. ASSUME NEW r \in Changes, MoveStage(r) PROVE EditInv' /\ held \subseteq held'
  BY <1>4 DEF MoveStage, EditInv, JobRow
<1>5. ASSUME NEW r \in Edits, NEW t \in Texts, CheckEdit(r, t)
      PROVE  EditInv' /\ held \subseteq held'
  <2>1. \E p \in {"checked", "missing"} : edit' = [edit EXCEPT ![r] = [pc |-> p, text |-> t]]
    BY <1>5 DEF CheckEdit
  <2>2. edit' \in [Edits -> Update]
    BY <2>1 DEF EditInv, Update
  <2> QED
    BY <1>5, <2>2 DEF CheckEdit, EditInv
<1>6. ASSUME NEW r \in Edits, Edit(r) PROVE EditInv' /\ held \subseteq held'
  <2>1. edit[r] \in Update /\ edit[r].text \in Texts
    BY DEF EditInv, Update
  <2>2. \E p \in {"ok", "error"} : edit' = [edit EXCEPT ![r].pc = p]
    BY <1>6 DEF Edit
  <2>3. edit' \in [Edits -> Update]
    BY <2>1, <2>2 DEF EditInv, Update
  <2>4. /\ may' = may
        /\ \/ Live /\ job' = [job EXCEPT !.jd = edit[r].text] /\ held' = held \cup {edit[r].text}
           \/ UNCHANGED <<job, held>>
    BY <1>6 DEF Edit
  <2> QED
    BY <2>1, <2>3, <2>4 DEF EditInv, Live, JobRow
<1>7. ASSUME Remove PROVE EditInv' /\ held \subseteq held'
  BY <1>7 DEF Remove, EditInv
<1> QED
  BY <1>2, <1>3, <1>4, <1>5, <1>6, <1>7 DEF ServiceStep

-----------------------------------------------------------------------------
(* The service as a whole. *)

ServiceInv == DeliveryInv /\ HistoryInv /\ EditInv

LEMMA ServiceInit == Init => ServiceInv
<1> SUFFICES ASSUME Init PROVE ServiceInv
  OBVIOUS
<1>1. JobsInit
  BY DEF Init
<1>2. DeliveryInv
  <2>1. DeliveryTypes
    BY <1>1, AttemptAssumption DEF JobsInit, DeliveryTypes, Call, Put, Attempts
  <2>2. \A c \in Deliveries : CallOK(c) /\ ~Ended(c)
    BY <1>1 DEF JobsInit, CallOK, Ended
  <2>3. \A c \in Deliveries, n \in Attempts : PutOK(c, n)
    BY <1>1 DEF JobsInit, PutOK
  <2> QED
    BY <1>1, <2>1, <2>2, <2>3, JobAssumption DEF DeliveryInv, ByOK, JobsInit
<1>3. HistoryInv
  <2>1. HistoryTypes
    <3>1. job \in JobRow
      BY <1>1 DEF JobsInit, JobRow, Texts
    <3>2. [pc |-> "none", to |-> None] \in Change
      BY DEF Change
    <3>3. change \in [Changes -> Change]
      BY <1>1, <3>2 DEF JobsInit
    <3>4. history \in Seq(Event) /\ raced \in BOOLEAN
      <4>1. history = <<>> /\ raced = FALSE
        BY <1>1 DEF JobsInit
      <4>2. <<>> \in Seq(Event)
        BY EmptySeq
      <4> QED
        BY <4>1, <4>2
    <3> QED
      BY <3>1, <3>3, <3>4 DEF HistoryTypes
  <2>2. ~Live /\ DOMAIN history = {} /\ history = <<>>
    BY <1>1 DEF JobsInit, Live
  <2>3. \A r \in Changes : change[r].pc = "none"
    BY <1>1 DEF JobsInit
  <2> QED
    BY <2>1, <2>2, <2>3 DEF HistoryInv, NothingYet, EventsApart, EventsOfChanges, PendingMoves,
       Pending, OpenHasEvent, StageInTimeline, Undisturbed
<1>4. EditInv
  BY <1>1 DEF JobsInit, EditInv, Update, Texts
<1> QED
  BY <1>2, <1>3, <1>4 DEF ServiceInv

LEMMA ServiceKept ==
  ASSUME ServiceInv, ServiceStep
  PROVE  ServiceInv' /\ held \subseteq held'
<1>1. job \in JobRow /\ edit \in [Edits -> Update]
  BY DEF ServiceInv, HistoryInv, HistoryTypes, EditInv
<1> QED
  BY <1>1, DeliveryStep, HistoryStep, EditStep DEF ServiceInv

LEMMA ServiceTypes == ServiceInv => JobsTypeOK
BY DEF ServiceInv, DeliveryInv, DeliveryTypes, HistoryInv, HistoryTypes, EditInv, JobsTypeOK, JobRow

-----------------------------------------------------------------------------
(* The types of the page. *)

Progress == {"none", "queued", "delivering", "succeeded", "failed"}
RunPC == {"none", "base", "create", "stream", "poll", "refetch", "ended"}

QueryTypes ==
  /\ mounted \in BOOLEAN
  /\ shown \in Snapshot
  /\ fetch \in Fetch
  /\ select \in Changes \cup {None}
  /\ deletion \in {"none", "out", "ok", "failed", "refetch"}
  /\ draft \in Texts /\ typed \in Texts /\ saving \in Texts
PanelTypes ==
  /\ task \in [Runs -> Progress] /\ ends \in [Runs -> SUBSET {"succeeded", "failed"}]
  /\ run \in [Runs -> RunPC]
  /\ running \in BOOLEAN /\ cancelled \in BOOLEAN
  /\ abortRef \in Runs \cup {None} /\ notice \in Runs \cup {None}
  /\ aborted \subseteq Runs /\ astray \subseteq Runs

PageTypes == QueryTypes /\ PanelTypes

LEMMA AllTypes == JobsTypeOK /\ PageTypes => TypeOK
BY DEF PageTypes, QueryTypes, PanelTypes, Progress, RunPC, TypeOK

LEMMA FetchFields ==
  ASSUME fetch \in Fetch
  PROVE  /\ fetch.pc \in {"none", "out", "read"}
         /\ fetch.got \in Snapshot /\ fetch.awaitedBy \subseteq Runs \cup {"delete"}
BY DEF Fetch

LEMMA InvalidateType ==
  ASSUME fetch \in Fetch, NEW who \in SUBSET (Runs \cup {"delete"}), Invalidate(who)
  PROVE  fetch' \in Fetch /\ fetch'.pc = "out" /\ fetch'.got = Nothing
<1>1. PICK on \in {fetch.awaitedBy, {}} :
        fetch' = [pc |-> "out", got |-> Nothing, awaitedBy |-> who \cup on]
  BY DEF Invalidate
<1>2. on \subseteq Runs \cup {"delete"}
  BY <1>1, FetchFields
<1>3. Nothing \in Snapshot
  BY DEF Nothing, Snapshot, Texts
<1> QED
  BY <1>1, <1>2, <1>3 DEF Fetch

LEMMA NoFetchType ==
  NoFetch \in Fetch /\ NoFetch.pc = "none" /\ NoFetch.got = Nothing /\ Nothing \in Snapshot
<1>1. Nothing \in Snapshot
  BY DEF Nothing, Snapshot, Texts
<1> QED
  BY <1>1 DEF NoFetch, Fetch

LEMMA CurrentType ==
  ASSUME JobsTypeOK
  PROVE  /\ Current \in Snapshot /\ Current.jd = job.jd
         /\ Current.brief = text /\ Current.former = written \ {text}
<1>1. job.jd \in Texts /\ text \in Briefs \cup {None} /\ written \subseteq Briefs
  BY DEF JobsTypeOK
<1> QED
  BY <1>1 DEF Current, Snapshot

LEMMA UnmountTypes ==
  ASSUME PageTypes, Unmount, UNCHANGED <<taskVars, editor>>, deletion' \in {deletion, "none"}
  PROVE  PageTypes'
BY NoFetchType DEF PageTypes, QueryTypes, PanelTypes, Unmount, editor, taskVars

(* The steps of the query: what they read and what they set is typed. *)
LEMMA QueryStepTypes ==
  ASSUME JobsTypeOK, PageTypes, UNCHANGED taskVars,
         \/ Open \/ ReadJob \/ Loaded \/ Leave \/ RefetchFails \/ StageChosen
         \/ ConfirmDelete \/ DeleteJob \/ Deleted \/ BackToBoard
         \/ \E r \in Changes, s \in Stages : ChooseStage(r, s)
         \/ \E r \in Edits : Type(r) \/ Save(r)
         \/ EditSaved
  PROVE  PageTypes'
<1> USE DEF panel, editor, taskVars
<1>1. ASSUME Open PROVE PageTypes'
  <2>1. Current \in Snapshot /\ Current.jd \in Texts
    BY CurrentType DEF JobsTypeOK
  <2> QED
    BY <1>1, <2>1 DEF Open, Seed, PageTypes, QueryTypes, PanelTypes
<1>2. ASSUME ReadJob PROVE PageTypes'
  <2>1. fetch' = [fetch EXCEPT !.pc = "read", !.got = Current]
    BY <1>2 DEF ReadJob
  <2>2. fetch \in Fetch
    BY DEF PageTypes, QueryTypes
  <2>3. fetch' \in Fetch
    BY <2>1, <2>2, CurrentType DEF Fetch
  <2> QED
    BY <1>2, <2>3 DEF ReadJob, PageTypes, QueryTypes, PanelTypes
<1>3. ASSUME Loaded PROVE PageTypes'
  <2>1. fetch.got \in Snapshot
    BY FetchFields DEF PageTypes, QueryTypes
  <2> QED
    BY <1>3, <2>1, NoFetchType DEF Loaded, Seed, PageTypes, QueryTypes, PanelTypes
<1>4. ASSUME Leave \/ RefetchFails PROVE PageTypes'
  BY <1>4, UnmountTypes DEF Leave, RefetchFails, PageTypes
<1>5. ASSUME StageChosen \/ EditSaved PROVE PageTypes'
  <2>1. fetch' \in Fetch
    BY <1>5, InvalidateType DEF StageChosen, EditSaved, PageTypes, QueryTypes
  <2> QED
    BY <1>5, <2>1 DEF StageChosen, EditSaved, PageTypes, QueryTypes, PanelTypes, Texts
<1>6. ASSUME ConfirmDelete \/ DeleteJob PROVE PageTypes'
  BY <1>6 DEF ConfirmDelete, DeleteJob, PageTypes, QueryTypes, PanelTypes
<1>7. ASSUME Deleted PROVE PageTypes'
  <2>1. fetch' \in Fetch
    BY <1>7, InvalidateType DEF Deleted, PageTypes, QueryTypes
  <2> QED
    BY <1>7, <2>1 DEF Deleted, PageTypes, QueryTypes, PanelTypes
<1>8. ASSUME BackToBoard PROVE PageTypes'
  <2>1. CASE mounted
    BY <1>8, <2>1, UnmountTypes DEF BackToBoard
  <2>2. CASE ~mounted
    BY <1>8, <2>2 DEF BackToBoard, PageTypes, QueryTypes, PanelTypes
  <2> QED
    BY <2>1, <2>2
<1>9. ASSUME NEW r \in Changes, NEW s \in Stages, ChooseStage(r, s) PROVE PageTypes'
  BY <1>9 DEF ChooseStage, PageTypes, QueryTypes, PanelTypes
<1>10. ASSUME NEW r \in Edits, Type(r) \/ Save(r) PROVE PageTypes'
  BY <1>10 DEF Type, Save, PageTypes, QueryTypes, PanelTypes, Texts
<1> QED
  BY <1>1, <1>2, <1>3, <1>4, <1>5, <1>6, <1>7, <1>8, <1>9, <1>10

LEMMA RunMoves ==
  ASSUME run \in [Runs -> RunPC], NEW g \in Runs, NEW pc \in RunPC, GoOn(g, pc)
  PROVE  /\ run' \in [Runs -> RunPC] /\ run'[g] = pc
         /\ \A o \in Runs : o # g => run'[o] = run[o]
BY DEF GoOn

(* What a step may do to a task: it goes on to p, or ends as p. *)
TaskTo(g, p) ==
  /\ task' = [task EXCEPT ![g] = p]
  /\ \/ ends' = ends /\ p \in {"queued", "delivering"}
     \/ p \in {"succeeded", "failed"} /\ ends' = [ends EXCEPT ![g] = @ \cup {p}]

LEMMA TaskMoves ==
  ASSUME task \in [Runs -> Progress], ends \in [Runs -> SUBSET {"succeeded", "failed"}],
         NEW g \in Runs, NEW p \in Progress, TaskTo(g, p)
  PROVE  /\ task' \in [Runs -> Progress] /\ ends' \in [Runs -> SUBSET {"succeeded", "failed"}]
         /\ task'[g] = p /\ \A o \in Runs : o # g => task'[o] = task[o] /\ ends'[o] = ends[o]
         /\ ends'[g] = ends[g] \/ ends'[g] = ends[g] \cup {p}
         /\ p \in {"queued", "delivering"} => ends'[g] = ends[g]
BY DEF TaskTo

LEMMA RunIsNotNone == \A g \in Runs : g # None /\ g # "delete"
BY JobAssumption, PageAssumption DEF Runs

(* The steps of a task, and what they do to it. *)
TaskStep(g) == GenerateElsewhere(g) \/ Finish(g) \/ Rerun(g) \/ Settle(g)

LEMMA TaskStepIs ==
  ASSUME NEW g \in Runs, TaskStep(g)
  PROVE  /\ \E p \in Progress : TaskTo(g, p)
         /\ UNCHANGED pageVars
<1>1. CASE GenerateElsewhere(g)
  BY <1>1 DEF GenerateElsewhere, Submitted, TaskTo, Progress
<1>2. CASE Finish(g) \/ Rerun(g)
  BY <1>2 DEF Finish, Rerun, Handing, TaskTo, Progress
<1>3. CASE Settle(g)
  BY <1>3 DEF Settle, TaskTo, Progress
<1> QED
  BY <1>1, <1>2, <1>3 DEF TaskStep

(* The steps of the tasks and of the panel. *)
LEMMA PanelStepTypes ==
  ASSUME PageTypes, NEW g \in Runs,
         \/ TaskStep(g) /\ UNCHANGED pageVars
         \/ Start(g) \/ BaseLoaded(g) \/ BaseMissing(g) \/ TaskCreated(g) \/ CreateFails(g)
         \/ StreamThrows(g) \/ PollingEnds(g) \/ Outcome(g) \/ Saved(g)
  PROVE  PageTypes'
<1>1. /\ run \in [Runs -> RunPC] /\ task \in [Runs -> Progress]
      /\ ends \in [Runs -> SUBSET {"succeeded", "failed"}] /\ PanelTypes /\ QueryTypes
  BY DEF PageTypes, PanelTypes
<1> DEFINE Kept == /\ task' \in [Runs -> Progress]
                  /\ ends' \in [Runs -> SUBSET {"succeeded", "failed"}]
<1>2. ASSUME TaskStep(g), UNCHANGED pageVars PROVE PageTypes'
  <2>1. PICK p \in Progress : TaskTo(g, p)
    BY <1>2, TaskStepIs
  <2>2. Kept
    BY <2>1, <1>1, TaskMoves
  <2> QED
    BY <1>2, <2>2 DEF pageVars, PageTypes, QueryTypes, PanelTypes
<1>0. UNCHANGED taskVars => Kept
  BY <1>1 DEF taskVars
<1>3. ASSUME Begin(g), Kept, UNCHANGED query, notice' \in {notice, None}
      PROVE  PageTypes'
  <2>1. run' \in [Runs -> RunPC]
    BY <1>1, <1>3, RunMoves DEF Begin, RunPC
  <2>2. astray' \subseteq Runs
    BY <1>1, <1>3 DEF Begin, PanelTypes
  <2> QED
    BY <1>3, <2>1, <2>2 DEF Begin, query, editor, PageTypes, QueryTypes, PanelTypes
<1>4. ASSUME NEW pc \in RunPC, End(g, pc), Kept, fetch' \in Fetch,
             UNCHANGED <<mounted, shown, select, deletion, editor>>
      PROVE  PageTypes'
  <2>1. run' \in [Runs -> RunPC]
    BY <1>1, <1>4, RunMoves DEF End
  <2> QED
    BY <1>4, <2>1 DEF End, editor, PageTypes, QueryTypes, PanelTypes
<1>5. ASSUME NEW pc \in RunPC, GoOn(g, pc), Kept,
             UNCHANGED <<query, running, cancelled, abortRef, aborted, astray>>,
             notice' \in {notice, None, g}
      PROVE  PageTypes'
  <2>1. run' \in [Runs -> RunPC]
    BY <1>1, <1>5, RunMoves
  <2> QED
    BY <1>5, <2>1 DEF query, editor, PageTypes, QueryTypes, PanelTypes
<1>6. ASSUME Submitted(g) PROVE Kept
  BY <1>6, <1>1 DEF Submitted, Progress
<1>7. {"base", "create", "stream", "poll", "refetch", "ended"} \subseteq RunPC
  BY DEF RunPC
<1> HIDE DEF Kept
<1>8. ASSUME Start(g) PROVE PageTypes'
  <2>1. CASE g \in Tailors
    BY <1>0, <1>1, <1>5, <1>7, <1>8, <2>1 DEF Start
  <2>2. CASE g \notin Tailors
    BY <1>0, <1>3, <1>8, <2>2 DEF Start
  <2> QED
    BY <2>1, <2>2
<1>9. ASSUME BaseLoaded(g) PROVE PageTypes'
  BY <1>0, <1>3, <1>9 DEF BaseLoaded
<1>10. ASSUME BaseMissing(g) PROVE PageTypes'
  BY <1>0, <1>1, <1>5, <1>7, <1>10 DEF BaseMissing
<1>11. ASSUME TaskCreated(g) PROVE PageTypes'
  BY <1>5, <1>6, <1>7, <1>11 DEF TaskCreated
<1>12. ASSUME CreateFails(g) PROVE PageTypes'
  BY <1>0, <1>1, <1>4, <1>6, <1>7, <1>12 DEF CreateFails, query, QueryTypes
<1>13. ASSUME StreamThrows(g) PROVE PageTypes'
  <2>1. CASE cancelled
    BY <1>0, <1>1, <1>4, <1>7, <1>13, <2>1 DEF StreamThrows, query, QueryTypes
  <2>2. CASE ~cancelled
    BY <1>0, <1>1, <1>5, <1>7, <1>13, <2>2 DEF StreamThrows
  <2> QED
    BY <2>1, <2>2
<1>14. ASSUME PollingEnds(g) PROVE PageTypes'
  BY <1>0, <1>1, <1>4, <1>7, <1>14 DEF PollingEnds, query, QueryTypes
<1>15. ASSUME Outcome(g) PROVE PageTypes'
  <2>1. \E pc \in {"refetch", "ended"} : End(g, pc)
    BY <1>15 DEF Outcome
  <2>2. fetch' \in Fetch
    BY <1>0, <1>1, <1>15, InvalidateType DEF Outcome, QueryTypes
  <2> QED
    BY <1>0, <1>1, <1>4, <1>7, <1>15, <2>1, <2>2 DEF Outcome
<1>16. ASSUME Saved(g) PROVE PageTypes'
  BY <1>0, <1>1, <1>5, <1>7, <1>16 DEF Saved
<1> QED
  BY <1>2, <1>8, <1>9, <1>10, <1>11, <1>12, <1>13, <1>14, <1>15, <1>16

LEMMA PageTypesKept ==
  ASSUME JobsTypeOK, PageTypes, [Next]_vars
  PROVE  PageTypes'
<1>1. CASE UNCHANGED <<taskVars, pageVars>>
  BY <1>1 DEF taskVars, pageVars, PageTypes, QueryTypes, PanelTypes
<1>2. CASE UNCHANGED vars
  BY <1>1, <1>2 DEF vars
<1>3. CASE JobsNext /\ UNCHANGED <<taskVars, pageVars>>
  BY <1>1, <1>3
<1>4. CASE \/ Open \/ ReadJob \/ Loaded \/ Leave \/ RefetchFails \/ StageChosen
           \/ ConfirmDelete \/ DeleteJob \/ Deleted \/ BackToBoard
           \/ \E r \in Changes, s \in Stages : ChooseStage(r, s)
           \/ \E r \in Edits : Type(r) \/ Save(r)
           \/ EditSaved
  <2>1. UNCHANGED taskVars
    BY <1>4 DEF Open, ReadJob, Loaded, Leave, RefetchFails, StageChosen, ConfirmDelete, DeleteJob,
       Deleted, BackToBoard, ChooseStage, Type, Save, EditSaved
  <2> QED
    BY <1>4, <2>1, QueryStepTypes
<1>5. ASSUME NEW g \in Runs, TaskStep(g) PROVE PageTypes'
  BY <1>5, PanelStepTypes DEF TaskStep, GenerateElsewhere, Finish, Rerun, Settle
<1>6. ASSUME NEW g \in Runs,
             \/ Start(g) \/ BaseLoaded(g) \/ BaseMissing(g) \/ TaskCreated(g) \/ CreateFails(g)
             \/ StreamThrows(g) \/ PollingEnds(g) \/ Outcome(g) \/ Saved(g)
      PROVE  PageTypes'
  BY <1>6, PanelStepTypes
<1> QED
  BY <1>2, <1>3, <1>4, <1>5, <1>6 DEF Next, TaskStep

LEMMA PageTypesInit == Init => PageTypes
<1> SUFFICES ASSUME Init PROVE PageTypes
  OBVIOUS
<1>1. QueryTypes
  BY NoFetchType DEF Init, QueryTypes, Texts
<1>2. PanelTypes
  BY DEF Init, PanelTypes, Progress, RunPC
<1> QED
  BY <1>1, <1>2 DEF PageTypes

(* The service and the page together: what every other proof starts from. *)
Base == ServiceInv /\ PageTypes

LEMMA BaseHolds == Spec => []Base
<1>1. Init => Base
  BY ServiceInit, PageTypesInit DEF Base
<1>2. Base /\ [Next]_vars => Base'
  <2> SUFFICES ASSUME Base, [Next]_vars PROVE Base'
    OBVIOUS
  <2>1. JobsTypeOK
    BY ServiceTypes DEF Base
  <2>2. draft \in Texts
    BY DEF Base, PageTypes, QueryTypes
  <2>3. ServiceStep
    BY <2>2, NextServes
  <2> QED
    BY <2>1, <2>3, ServiceKept, PageTypesKept DEF Base
<1> QED
  BY <1>1, <1>2, PTL DEF Spec

(* Every reachable state of the page and of jobs-service is typed. *)
THEOREM TypeCorrect == Spec => []TypeOK
<1>1. Base => TypeOK
  BY ServiceTypes, AllTypes DEF Base
<1> QED
  BY <1>1, BaseHolds, PTL

(* changeStage never loses the job's stage from its timeline, and without   *)
(* overlapping changes the newest entry is the stage and none repeats the   *)
(* one before it: whatever is aborted, deleted or asked for twice.          *)
THEOREM HistoryTold == Spec => []HistoryTellsStage
<1>1. Base => HistoryTellsStage
  BY DEF Base, ServiceInv, HistoryInv, StageInTimeline, Undisturbed, NewestIsStage, NoneRepeats,
     HistoryTellsStage
<1> QED
  BY <1>1, BaseHolds, PTL

(* Of the writes of a delivery that had ended when the delivery of the      *)
(* present text began, only those of an attempt that its caller had given   *)
(* up come late, and bring its text back; a delivery begun since, of        *)
(* whichever text, is not one of them.                                      *)
THEOREM OldTextStrays == Spec => OldTextOnlyFromStray
<1>1. ASSUME Base, [Next]_vars, NEW c \in Deliveries, text' # text,
             {text, text'} \subseteq Briefs, by' = c, c \in before[by]
      PROVE  \E n \in Attempts : put[c][n].givenUp /\ put'[c][n] # put[c][n]
  <2>1. draft \in Texts
    BY <1>1 DEF Base, PageTypes, QueryTypes
  <2>2. ServiceStep
    BY <1>1, <2>1, NextServes
  <2>3. ~Remove
    BY <1>1, JobAssumption DEF Remove
  <2>4. \E d \in Deliveries, n \in Attempts : Upsert(d, n)
    BY <1>1, <2>2, <2>3 DEF ServiceStep, Create, CheckStage, InsertEvent, MoveStage, AbortChange,
       CheckEdit, Edit, serviceKeeps, Deliver, Retry, Hear, TimeOut, CheckPut, jobVars
  <2>5. PICK d \in Deliveries, n \in Attempts : Upsert(d, n)
    BY <2>4
  <2>6. /\ d = c /\ put[c][n].pc = "checked"
        /\ put' = [put EXCEPT ![c][n].pc = "ok"]
    BY <1>1, <2>5 DEF Upsert
  <2>7. by \in Deliveries
    BY <1>1 DEF Base, ServiceInv, DeliveryInv, ByOK
  <2>8. put \in [Deliveries -> [Attempts -> Put]] /\ PutOK(c, n) /\ Ended(c)
    BY <1>1, <2>7 DEF Base, ServiceInv, DeliveryInv, DeliveryTypes
  <2>9. put'[c][n].pc = "ok"
    BY <2>6, <2>8, PutMoves
  <2>10. put[c][n].givenUp
    BY <2>6, <2>8 DEF PutOK, Ended, DeliveryInv
  <2> QED
    BY <2>6, <2>9, <2>10
<1>2. Base /\ [Next]_vars =>
        [ \A c \in Deliveries :
            {text, text'} \subseteq Briefs /\ by' = c /\ c \in before[by] =>
              \E n \in Attempts : put[c][n].givenUp /\ put'[c][n] # put[c][n] ]_text
  BY <1>1
<1> QED
  BY <1>2, BaseHolds, PTL DEF Spec, OldTextOnlyFromStray

-----------------------------------------------------------------------------
(* What every step of the page leaves behind, of what the invariants below *)
(* are about.                                                              *)

QueryStep ==
  \/ Open \/ ReadJob \/ Loaded \/ Leave \/ RefetchFails \/ StageChosen
  \/ ConfirmDelete \/ DeleteJob \/ Deleted \/ BackToBoard
  \/ \E r \in Changes, s \in Stages : ChooseStage(r, s)
  \/ \E r \in Edits : Type(r) \/ Save(r)
  \/ EditSaved
PanelStep(g) ==
  \/ Start(g) \/ BaseLoaded(g) \/ BaseMissing(g) \/ TaskCreated(g) \/ CreateFails(g)
  \/ StreamThrows(g) \/ PollingEnds(g) \/ Outcome(g) \/ Saved(g)

LEMMA NextIs ==
  ASSUME [Next]_vars
  PROVE  \/ UNCHANGED <<taskVars, pageVars>>
         \/ QueryStep
         \/ \E g \in Runs : TaskStep(g) /\ UNCHANGED pageVars
         \/ \E g \in Runs : PanelStep(g)
BY DEF Next, vars, QueryStep, TaskStep, PanelStep, GenerateElsewhere, Finish, Rerun, Settle

(* A step of the query either is the first to show the job, or takes the   *)
(* page down, or leaves the panel alone.                                   *)
LEMMA QueryStepIs ==
  ASSUME QueryStep
  PROVE  \/ Open
         \/ mounted /\ Unmount /\ UNCHANGED <<taskVars, editor>>
         \/ UNCHANGED <<taskVars, panel, mounted>> /\ ~Open
<1>1. CASE Open
  BY <1>1
<1>2. CASE ~Open /\ (Leave \/ RefetchFails \/ BackToBoard)
  BY <1>2 DEF Leave, RefetchFails, BackToBoard
<1>3. CASE ~Open /\ ~(Leave \/ RefetchFails \/ BackToBoard)
  BY <1>3 DEF QueryStep, ReadJob, Loaded, StageChosen, ConfirmDelete, DeleteJob, Deleted,
     ChooseStage, Type, Save, EditSaved
<1> QED
  BY <1>1, <1>2, <1>3

(* What a step of a run does to it: it begins, goes on or ends. *)
LEMMA PanelStepIs ==
  ASSUME NEW g \in Runs, PanelStep(g)
  PROVE  /\ UNCHANGED <<mounted, shown, select, deletion, editor>>
         /\ \/ Begin(g)
            \/ Underway(g) /\ \E pc \in {"refetch", "ended"} : End(g, pc)
            \/ /\ \E pc \in {"base", "stream", "poll", "ended"} :
                    /\ GoOn(g, pc)
                    /\ pc \in {"stream", "poll"} => Underway(g)
               /\ UNCHANGED <<running, cancelled, abortRef, aborted, astray>>
<1>1. ASSUME CreateFails(g) \/ PollingEnds(g)
      PROVE  /\ UNCHANGED <<mounted, shown, select, deletion, editor>>
             /\ Underway(g) /\ End(g, "ended")
  BY <1>1 DEF CreateFails, PollingEnds, Underway, query
<1>2. ASSUME Outcome(g)
      PROVE  /\ UNCHANGED <<mounted, shown, select, deletion, editor>>
             /\ Underway(g) /\ \E pc \in {"refetch", "ended"} : End(g, pc)
  BY <1>2 DEF Outcome, Underway
<1>3. ASSUME Start(g) \/ BaseLoaded(g)
      PROVE  /\ UNCHANGED <<mounted, shown, select, deletion, editor>>
             /\ \/ Begin(g)
                \/ /\ GoOn(g, "base")
                   /\ UNCHANGED <<running, cancelled, abortRef, aborted, astray>>
  BY <1>3 DEF Start, BaseLoaded, query
<1>4. ASSUME BaseMissing(g) \/ Saved(g)
      PROVE  /\ UNCHANGED <<mounted, shown, select, deletion, editor>>
             /\ GoOn(g, "ended")
             /\ UNCHANGED <<running, cancelled, abortRef, aborted, astray>>
  BY <1>4 DEF BaseMissing, Saved, query
<1>5. ASSUME TaskCreated(g)
      PROVE  /\ UNCHANGED <<mounted, shown, select, deletion, editor>>
             /\ GoOn(g, "stream") /\ Underway(g)
             /\ UNCHANGED <<running, cancelled, abortRef, aborted, astray>>
  BY <1>5 DEF TaskCreated, query, Underway
<1>6. ASSUME StreamThrows(g)
      PROVE  /\ UNCHANGED <<mounted, shown, select, deletion, editor>>
             /\ Underway(g)
             /\ \/ End(g, "ended")
                \/ /\ GoOn(g, "poll")
                   /\ UNCHANGED <<running, cancelled, abortRef, aborted, astray>>
  BY <1>6 DEF StreamThrows, query, Underway
<1> QED
  BY <1>1, <1>2, <1>3, <1>4, <1>5, <1>6 DEF PanelStep

-----------------------------------------------------------------------------
(* The streams.  Runs that are under way together are astray; one that is  *)
(* not is the one abortRef holds, so leaving the page aborts it.           *)

Alone == \A g, o \in Runs : Underway(g) /\ Underway(o) /\ g # o => g \in astray
Abortable ==
  \A g \in Runs \ astray : Underway(g) => IF mounted THEN abortRef = g ELSE g \in aborted
SocketInv == Alone /\ Abortable

LEMMA SocketFrame ==
  ASSUME SocketInv, UNCHANGED <<mounted, run, abortRef, aborted, astray>>
  PROVE  SocketInv'
BY DEF SocketInv, Alone, Abortable, Underway

LEMMA SocketStep ==
  ASSUME PanelTypes, SocketInv, [Next]_vars
  PROVE  SocketInv'
<1>1. CASE \/ UNCHANGED <<taskVars, pageVars>>
           \/ \E g \in Runs : TaskStep(g) /\ UNCHANGED pageVars
  BY <1>1, SocketFrame DEF pageVars
<1>2. CASE QueryStep
  <2>1. CASE UNCHANGED <<taskVars, panel, mounted>>
    BY <2>1, SocketFrame DEF panel
  <2>2. CASE Open
    BY <2>2 DEF Open, panel, SocketInv, Alone, Abortable, Underway
  <2>3. CASE mounted /\ Unmount
    BY <2>3, RunIsNotNone DEF Unmount, SocketInv, Alone, Abortable, Underway
  <2> QED
    BY <1>2, <2>1, <2>2, <2>3, QueryStepIs
<1>3. ASSUME NEW g \in Runs, PanelStep(g) PROVE SocketInv'
  <2>1. run \in [Runs -> RunPC] /\ mounted' = mounted
    BY <1>3, PanelStepIs DEF PanelTypes
  <2>2. CASE Begin(g)
    <3> DEFINE others == {o \in Runs : Underway(o)}
    <3>1. /\ GoOn(g, "create") /\ abortRef' = g /\ aborted' = aborted
          /\ astray' = IF ~mounted \/ others # {} THEN astray \cup others \cup {g} ELSE astray
      BY <2>2 DEF Begin
    <3>2. \A o \in Runs : o # g => run'[o] = run[o]
      BY <2>1, <3>1, RunMoves DEF RunPC
    <3>3. \A o \in Runs : o # g => Underway(o)' = Underway(o)
      BY <3>2 DEF Underway
    <3>4. CASE mounted /\ others = {}
      BY <2>1, <3>1, <3>3, <3>4 DEF SocketInv, Alone, Abortable
    <3>5. CASE ~(mounted /\ others = {})
      <4>1. astray' = astray \cup others \cup {g}
        BY <3>1, <3>5
      <4>2. \A o \in Runs : Underway(o)' => o \in astray'
        BY <3>3, <4>1
      <4> QED
        BY <4>2 DEF SocketInv, Alone, Abortable
    <3> QED
      BY <3>4, <3>5
  <2>3. CASE Underway(g) /\ \E pc \in {"refetch", "ended"} : End(g, pc)
    <3>1. PICK pc \in {"refetch", "ended"} : End(g, pc)
      BY <2>3
    <3>2. GoOn(g, pc) /\ UNCHANGED <<aborted, astray>>
      BY <3>1 DEF End
    <3>3. run'[g] = pc /\ \A o \in Runs : o # g => run'[o] = run[o]
      BY <2>1, <3>2, RunMoves DEF RunPC
    <3>4. ~Underway(g)' /\ \A o \in Runs : o # g => Underway(o)' = Underway(o)
      BY <3>3 DEF Underway
    <3>5. \A o \in Runs : Underway(o)' => o # g /\ o \in astray
      BY <2>3, <3>4 DEF SocketInv, Alone
    <3> QED
      BY <3>2, <3>5 DEF SocketInv, Alone, Abortable
  <2>4. CASE /\ \E pc \in {"base", "stream", "poll", "ended"} :
                  /\ GoOn(g, pc)
                  /\ pc \in {"stream", "poll"} => Underway(g)
             /\ UNCHANGED <<running, cancelled, abortRef, aborted, astray>>
    <3>1. PICK pc \in {"base", "stream", "poll", "ended"} :
            /\ GoOn(g, pc)
            /\ pc \in {"stream", "poll"} => Underway(g)
      BY <2>4
    <3>2. run'[g] = pc /\ \A o \in Runs : o # g => run'[o] = run[o]
      BY <2>1, <3>1, RunMoves DEF RunPC
    <3>3. \A o \in Runs : Underway(o)' => Underway(o)
      BY <3>1, <3>2 DEF Underway
    <3> QED
      BY <2>1, <2>4, <3>3 DEF SocketInv, Alone, Abortable
  <2> QED
    BY <1>3, <2>2, <2>3, <2>4, PanelStepIs
<1> QED
  BY <1>1, <1>2, <1>3, NextIs

(* The cleanup of useGeneration leaves no stream open behind the page, for  *)
(* every run that began on the page and beside no other.                   *)
THEOREM SocketsClosed == Spec => []NoSocketAfterLeaving
<1>1. Init => SocketInv
  BY DEF Init, SocketInv, Alone, Abortable, Underway
<1>2. Base /\ SocketInv /\ [Next]_vars => SocketInv'
  BY SocketStep DEF Base, PageTypes
<1>3. SocketInv => NoSocketAfterLeaving
  BY DEF SocketInv, Abortable, Underway, NoSocketAfterLeaving
<1> QED
  BY <1>1, <1>2, <1>3, BaseHolds, PTL DEF Spec

-----------------------------------------------------------------------------
(* The editors.  The page is shown once, so they are seeded once, before   *)
(* anything is typed into them; a text the page shows or fetches is one    *)
(* the job has held.                                                       *)

SeededOnce ==
  ~mounted /\ ~cancelled /\ (\A g \in Runs : run[g] = "none") => typed = None
TextsHeld ==
  /\ shown.jd # None => shown.jd \in held
  /\ fetch.got.jd # None => fetch.got.jd \in held
TypingInv ==
  /\ SeededOnce
  /\ typed # None => draft = typed
  /\ TextsHeld

LEMMA SeededOnceStep ==
  ASSUME PanelTypes, SeededOnce, [Next]_vars
  PROVE  SeededOnce'
<1>1. CASE \/ UNCHANGED <<taskVars, pageVars>>
           \/ \E g \in Runs : TaskStep(g) /\ UNCHANGED pageVars
  BY <1>1 DEF pageVars, SeededOnce
<1>2. CASE QueryStep
  <2>1. CASE UNCHANGED <<taskVars, panel, mounted>> /\ ~Open
    <3>1. mounted \/ typed' = typed
      BY <1>2, <2>1 DEF QueryStep, ReadJob, Loaded, Leave, RefetchFails, StageChosen, ConfirmDelete,
         DeleteJob, Deleted, BackToBoard, ChooseStage, Type, Save, EditSaved, editor
    <3> QED
      BY <2>1, <3>1 DEF panel, SeededOnce
  <2>2. CASE Open
    BY <2>2 DEF Open, SeededOnce
  <2>3. CASE mounted /\ Unmount
    BY <2>3 DEF Unmount, SeededOnce
  <2> QED
    BY <1>2, <2>1, <2>2, <2>3, QueryStepIs
<1>3. ASSUME NEW g \in Runs, PanelStep(g) PROVE SeededOnce'
  <2>1. \E pc \in RunPC \ {"none"} : GoOn(g, pc)
    BY <1>3, PanelStepIs DEF Begin, End, RunPC
  <2>2. run'[g] # "none"
    BY <2>1, RunMoves DEF PanelTypes
  <2> QED
    BY <2>2 DEF SeededOnce
<1> QED
  BY <1>1, <1>2, <1>3, NextIs

LEMMA TypingStep ==
  ASSUME Base, TypingInv, [Next]_vars
  PROVE  TypingInv'
<1>1. SeededOnce'
  BY SeededOnceStep DEF Base, PageTypes, TypingInv
<1>2. held \subseteq held'
  BY NextServes, ServiceKept DEF Base, PageTypes, QueryTypes
<1>3. Current.jd # None => Current.jd \in held
  BY CurrentType, ServiceTypes DEF Base, ServiceInv, EditInv
<1>4. Nothing.jd = None
  BY DEF Nothing
<1>5. fetch \in Fetch
  BY DEF Base, PageTypes, QueryTypes
<1>6. CASE UNCHANGED <<shown, fetch, draft, typed>>
  BY <1>1, <1>2, <1>6 DEF TypingInv, TextsHeld
<1>7. ASSUME UNCHANGED <<shown, draft, typed>>, \E who \in SUBSET (Runs \cup {"delete"}) : Invalidate(who)
      PROVE  TypingInv'
  <2>1. fetch'.got.jd = None
    BY <1>4, <1>5, <1>7, InvalidateType
  <2> QED
    BY <1>1, <1>2, <1>7, <2>1 DEF TypingInv, TextsHeld
<1>8. CASE \/ UNCHANGED <<taskVars, pageVars>>
           \/ \E g \in Runs : TaskStep(g) /\ UNCHANGED pageVars
  BY <1>6, <1>8 DEF pageVars
<1>9. CASE QueryStep
  <2>1. CASE Open
    BY <1>1, <1>2, <1>3, <2>1 DEF Open, Seed, SeededOnce, TypingInv, TextsHeld
  <2>2. CASE ReadJob
    <3>1. fetch'.got = Current
      BY <1>5, <2>2 DEF ReadJob, Fetch
    <3> QED
      BY <1>1, <1>2, <1>3, <2>2, <3>1 DEF ReadJob, editor, TypingInv, TextsHeld
  <2>3. CASE Loaded
    <3>1. fetch'.got.jd = None
      BY <1>4, <2>3, NoFetchType DEF Loaded
    <3> QED
      BY <1>1, <1>2, <2>3, <3>1 DEF Loaded, Seed, TypingInv, TextsHeld
  <2>4. CASE Unmount /\ UNCHANGED editor
    <3>1. fetch'.got.jd = None
      BY <1>4, <2>4, NoFetchType DEF Unmount
    <3> QED
      BY <1>1, <1>2, <2>4, <3>1 DEF Unmount, editor, TypingInv, TextsHeld
  <2>5. CASE StageChosen \/ EditSaved \/ Deleted
    <3>1. UNCHANGED <<shown, draft, typed>>
      BY <2>5 DEF StageChosen, EditSaved, Deleted, editor
    <3>2. UNCHANGED fetch \/ Invalidate({}) \/ Invalidate({"delete"})
      BY <2>5 DEF StageChosen, EditSaved, Deleted
    <3> QED
      BY <1>6, <1>7, <3>1, <3>2
  <2>6. CASE ConfirmDelete \/ DeleteJob \/ \E r \in Changes, s \in Stages : ChooseStage(r, s)
    BY <1>6, <2>6 DEF ConfirmDelete, DeleteJob, ChooseStage, editor
  <2>7. ASSUME NEW r \in Edits, Type(r) PROVE TypingInv'
    BY <1>1, <1>2, <2>7 DEF Type, TypingInv, TextsHeld
  <2>8. ASSUME NEW r \in Edits, Save(r) PROVE TypingInv'
    BY <1>6, <2>8 DEF Save
  <2>9. CASE BackToBoard /\ ~Unmount
    BY <1>6, <2>9 DEF BackToBoard, editor
  <2> QED
    BY <1>9, <2>1, <2>2, <2>3, <2>4, <2>5, <2>6, <2>7, <2>8, <2>9 DEF QueryStep, Leave,
       RefetchFails, BackToBoard
<1>10. ASSUME NEW g \in Runs, PanelStep(g) PROVE TypingInv'
  <2>1. UNCHANGED <<shown, draft, typed>>
    BY <1>10, PanelStepIs DEF editor
  <2>2. UNCHANGED fetch \/ Invalidate({g})
    BY <1>10 DEF PanelStep, Start, BaseLoaded, BaseMissing, TaskCreated, CreateFails, StreamThrows,
       PollingEnds, Outcome, Saved, query
  <2> QED
    BY <1>6, <1>7, <2>1, <2>2
<1> QED
  BY <1>8, <1>9, <1>10, NextIs

(* Nothing but the user's own typing changes the text he typed, and the     *)
(* page calls it saved only when the job has held it.                       *)
THEOREM TypedTextStays == Spec => []TypingIsKept
<1>1. Init => TypingInv
  BY DEF Init, Nothing, NoFetch, TypingInv, SeededOnce, TextsHeld
<1>2. Base /\ TypingInv /\ [Next]_vars => TypingInv'
  BY TypingStep
<1>3. TypingInv => TypingIsKept
  BY DEF TypingInv, TextsHeld, Dirty, TypingIsKept
<1> QED
  BY <1>1, <1>2, <1>3, BaseHolds, PTL DEF Spec

-----------------------------------------------------------------------------
(* The notice.  A brief whose task has succeeded is written, so what is     *)
(* read from then on has it, or what was put in its place; and pages are    *)
(* only ever read later.                                                    *)

Had(snapshot) == snapshot.former \cup ({snapshot.brief} \ {None})

LEMMA HadIsUpTo ==
  ASSUME NEW snapshot, NEW g \in Briefs
  PROVE  g \in Had(snapshot) <=> UpTo(snapshot, g)
BY JobAssumption DEF Had, UpTo

LEMMA CurrentHad ==
  ASSUME Base
  PROVE  Had(Current) = written
<1>1. Current.brief = text /\ Current.former = written \ {text}
  BY CurrentType, ServiceTypes DEF Base
<1>2. text \in Briefs \cup {None} /\ (text \in Briefs => text \in written) /\ written \subseteq Briefs
  BY DEF Base, ServiceInv, DeliveryInv, DeliveryTypes, ByOK
<1> QED
  BY <1>1, <1>2, JobAssumption DEF Had

Coming(g) ==
  \/ g \in Had(shown)
  \/ fetch.pc = "out"
  \/ fetch.pc = "read" /\ g \in Had(fetch.got)
Told(g) == run[g] = "refetch" \/ notice = g

NothingBehind == ~mounted => fetch.pc = "none" /\ notice = None
Succeeded(g) == task[g] = "succeeded" \/ "succeeded" \in ends[g]
SucceededIsWritten == \A g \in Briefs : Succeeded(g) => g \in written
ReadForward ==
  /\ Had(shown) \subseteq written
  /\ fetch.pc = "read" => Had(fetch.got) \subseteq written /\ Had(shown) \subseteq Had(fetch.got)
ToldIsWritten == \A g \in Briefs : Told(g) => g \in written
ToldIsComing == mounted => \A g \in Briefs : Told(g) => Coming(g)

NoticeInv == NothingBehind /\ SucceededIsWritten /\ ReadForward /\ ToldIsWritten /\ ToldIsComing

LEMMA WrittenStays ==
  ASSUME ServiceStep
  PROVE  written \subseteq written'
BY DEF ServiceStep, Create, CheckStage, InsertEvent, MoveStage, AbortChange, CheckEdit, Edit, Remove,
   serviceKeeps, Deliver, Retry, Hear, TimeOut, CheckPut, Upsert, jobVars

(* The outcome that a run has learned is a success. *)
Success(g) ==
  /\ "succeeded" \in ends[g] \/ task[g] = "succeeded"
  /\ End(g, "refetch")
  /\ IF g \in Briefs /\ mounted THEN Invalidate({g}) ELSE fetch' = fetch

LEMMA NoticeStep ==
  ASSUME Base, NoticeInv, [Next]_vars
  PROVE  NoticeInv'
<1>1. written \subseteq written'
  BY NextServes, WrittenStays DEF Base, PageTypes, QueryTypes
<1>2. /\ fetch \in Fetch /\ run \in [Runs -> RunPC] /\ task \in [Runs -> Progress]
      /\ ends \in [Runs -> SUBSET {"succeeded", "failed"}]
      /\ notice \in Runs \cup {None} /\ Briefs \subseteq Runs
  BY DEF Base, PageTypes, QueryTypes, PanelTypes, Runs
<1>3. \A g \in Briefs : g # None
  BY JobAssumption
<1>4. Had(Current) = written
  BY CurrentHad
<1>5. ASSUME UNCHANGED <<mounted, shown, fetch, notice, task, ends, run>> PROVE NoticeInv'
  BY <1>1, <1>5 DEF NoticeInv, NothingBehind, SucceededIsWritten, Succeeded, ReadForward, ToldIsWritten,
     ToldIsComing, Told, Coming
<1>6. ASSUME UNCHANGED <<mounted, shown, notice, task, ends, run>>, mounted,
             \E who \in SUBSET (Runs \cup {"delete"}) : Invalidate(who)
      PROVE  NoticeInv'
  <2>1. fetch'.pc = "out"
    BY <1>2, <1>6, InvalidateType
  <2> QED
    BY <1>1, <1>6, <2>1 DEF NoticeInv, NothingBehind, SucceededIsWritten, Succeeded, ReadForward, ToldIsWritten,
       ToldIsComing, Told, Coming
<1>7. ASSUME NEW g \in Runs, TaskStep(g), UNCHANGED pageVars PROVE NoticeInv'
  <2>1. SucceededIsWritten'
    <3>1. PICK p \in Progress : TaskTo(g, p)
      BY <1>7, TaskStepIs
    <3>2. /\ task'[g] = p /\ \A o \in Runs : o # g => task'[o] = task[o] /\ ends'[o] = ends[o]
          /\ ends'[g] = ends[g] \/ ends'[g] = ends[g] \cup {p}
          /\ p \in {"queued", "delivering"} => ends'[g] = ends[g]
      BY <1>2, <3>1, TaskMoves
    <3>3. ASSUME Settle(g), g \in Briefs, p = "succeeded" PROVE g \in written
      <4>1. PICK o \in {"succeeded", "failed"} :
              /\ \E k \in Rounds :
                   call[<<g, k>>].pc \in IF o = "succeeded" THEN {"done"} ELSE {"done", "failed"}
              /\ task' = [task EXCEPT ![g] = o]
        BY <3>3 DEF Settle
      <4>2. o = "succeeded"
        BY <1>2, <3>2, <3>3, <4>1
      <4>3. PICK k \in Rounds : call[<<g, k>>].pc = "done"
        BY <4>1, <4>2
      <4>4. <<g, k>> \in Deliveries /\ <<g, k>>[1] = g
        BY <3>3, DeliveryPairs
      <4>5. CallOK(<<g, k>>)
        BY <4>4 DEF Base, ServiceInv, DeliveryInv
      <4> QED
        BY <4>3, <4>4, <4>5 DEF CallOK
    <3>4. ASSUME ~Settle(g) PROVE p # "succeeded"
      BY <1>2, <1>7, <3>2, <3>4 DEF TaskStep, GenerateElsewhere, Submitted, Finish, Rerun, Handing
    <3>5. \A o \in Briefs : Succeeded(o)' => Succeeded(o) \/ (o = g /\ p = "succeeded")
      BY <1>2, <3>2 DEF Succeeded
    <3> QED
      BY <1>1, <3>3, <3>4, <3>5 DEF NoticeInv, SucceededIsWritten
  <2>2. UNCHANGED <<mounted, shown, fetch, notice, run>>
    BY <1>7 DEF pageVars
  <2> QED
    BY <1>1, <2>1, <2>2 DEF NoticeInv, NothingBehind, ReadForward, ToldIsWritten, ToldIsComing,
       Told, Coming
<1>8. CASE QueryStep
  <2>1. UNCHANGED <<task, ends>>
    BY <1>8 DEF taskVars, QueryStep, Open, ReadJob, Loaded, Leave, RefetchFails, StageChosen, ConfirmDelete,
       DeleteJob, Deleted, BackToBoard, ChooseStage, Type, Save, EditSaved
  <2>2. CASE Open
    BY <1>1, <1>2, <1>3, <1>4, <2>1, <2>2 DEF Open, panel, NoticeInv, NothingBehind,
       SucceededIsWritten, Succeeded, ReadForward, ToldIsWritten, ToldIsComing, Told
  <2>3. CASE ReadJob
    <3>1. fetch'.pc = "read" /\ fetch'.got = Current /\ fetch.pc = "out"
      BY <1>2, <2>3 DEF ReadJob, Fetch
    <3>2. UNCHANGED <<mounted, shown, notice, run>>
      BY <2>3 DEF ReadJob, panel
    <3> QED
      BY <1>1, <1>4, <2>1, <3>1, <3>2 DEF NoticeInv, NothingBehind, SucceededIsWritten, Succeeded, ReadForward,
         ToldIsWritten, ToldIsComing, Told, Coming
  <2>4. CASE Loaded
    <3>1. fetch'.pc = "none" /\ shown' = fetch.got /\ fetch.pc = "read"
      BY <2>4, NoFetchType DEF Loaded
    <3>2. UNCHANGED <<mounted, notice, run>>
      BY <2>4 DEF Loaded, panel
    <3> QED
      BY <1>1, <2>1, <3>1, <3>2 DEF NoticeInv, NothingBehind, SucceededIsWritten, Succeeded, ReadForward,
         ToldIsWritten, ToldIsComing, Told, Coming
  <2>5. CASE Unmount
    <3>1. ~mounted' /\ fetch'.pc = "none" /\ notice' = None /\ UNCHANGED <<shown, run>>
      BY <2>5, NoFetchType DEF Unmount
    <3> QED
      BY <1>1, <1>3, <2>1, <3>1 DEF NoticeInv, NothingBehind, SucceededIsWritten, Succeeded, ReadForward,
         ToldIsWritten, ToldIsComing, Told
  <2>6. CASE StageChosen \/ EditSaved \/ Deleted
    <3>1. UNCHANGED <<mounted, shown, notice, run>>
      BY <2>6 DEF StageChosen, EditSaved, Deleted, panel
    <3>2. UNCHANGED fetch \/ (mounted /\ (Invalidate({}) \/ Invalidate({"delete"})))
      BY <2>6 DEF StageChosen, EditSaved, Deleted
    <3> QED
      BY <1>5, <1>6, <2>1, <3>1, <3>2
  <2>7. CASE \/ ConfirmDelete \/ DeleteJob \/ (BackToBoard /\ ~Unmount)
             \/ \E r \in Changes, s \in Stages : ChooseStage(r, s)
             \/ \E r \in Edits : Type(r) \/ Save(r)
    BY <1>5, <2>1, <2>7 DEF ConfirmDelete, DeleteJob, BackToBoard, ChooseStage, Type, Save, panel
  <2> QED
    BY <1>8, <2>2, <2>3, <2>4, <2>5, <2>6, <2>7 DEF QueryStep, Leave, RefetchFails
<1>9. ASSUME NEW g \in Runs, PanelStep(g) PROVE NoticeInv'
  <2>1. UNCHANGED <<mounted, shown>>
    BY <1>9, PanelStepIs
  <2>2. SucceededIsWritten'
    <3>1. UNCHANGED taskVars \/ Submitted(g)
      BY <1>9 DEF PanelStep, Start, BaseLoaded, BaseMissing, TaskCreated, CreateFails, StreamThrows,
         PollingEnds, Outcome, Saved
    <3>2. \A o \in Runs : ends'[o] = ends[o] /\ (task'[o] = task[o] \/ task'[o] # "succeeded")
      BY <1>2, <3>1 DEF Submitted, taskVars
    <3> QED
      BY <1>1, <1>2, <3>2 DEF NoticeInv, SucceededIsWritten, Succeeded
  <2>3. CASE Success(g)
    <3>0. /\ Succeeded(g) /\ End(g, "refetch")
          /\ IF g \in Briefs /\ mounted THEN Invalidate({g}) ELSE fetch' = fetch
      BY <2>3 DEF Success, Succeeded
    <3>1. notice' = notice /\ GoOn(g, "refetch")
      BY <3>0 DEF End
    <3>2. run'[g] = "refetch" /\ \A o \in Runs : o # g => run'[o] = run[o]
      BY <1>2, <3>1, RunMoves DEF RunPC
    <3>3. CASE g \in Briefs /\ mounted
      <4>1. Invalidate({g})
        BY <3>0, <3>3
      <4>2. fetch'.pc = "out"
        BY <1>2, <4>1, InvalidateType
      <4>3. g \in written
        BY <3>0, <3>3 DEF NoticeInv, SucceededIsWritten
      <4> QED
        BY <1>1, <1>2, <2>1, <2>2, <3>1, <3>2, <3>3, <4>2, <4>3 DEF NoticeInv, NothingBehind,
           ReadForward, ToldIsWritten, ToldIsComing, Told, Coming
    <3>4. CASE ~(g \in Briefs /\ mounted)
      <4>1. fetch' = fetch
        BY <3>0, <3>4
      <4>2. g \in Briefs => g \in written
        BY <3>0 DEF NoticeInv, SucceededIsWritten
      <4>3. \A o \in Briefs : mounted /\ Told(o)' => Told(o)
        BY <1>2, <3>1, <3>2, <3>4 DEF Told
      <4>4. \A o \in Briefs : Told(o)' => Told(o) \/ o = g
        BY <1>2, <3>1, <3>2 DEF Told
      <4>5. ToldIsWritten' /\ ToldIsComing'
        BY <1>1, <2>1, <4>1, <4>2, <4>3, <4>4 DEF NoticeInv, ToldIsWritten, ToldIsComing, Coming
      <4> QED
        BY <1>1, <2>1, <2>2, <3>1, <4>1, <4>5 DEF NoticeInv, NothingBehind, ReadForward
    <3> QED
      BY <3>3, <3>4
  <2>4. CASE ~Success(g)
    <3>0. Outcome(g) => End(g, "ended") /\ fetch' = fetch
      BY <2>4 DEF Outcome, Success
    <3>1. fetch' = fetch
      BY <1>9, <3>0 DEF PanelStep, Start, BaseLoaded, BaseMissing, TaskCreated, CreateFails,
         StreamThrows, PollingEnds, Saved, query
    <3>2. \E pc \in RunPC \ {"refetch"} : GoOn(g, pc)
      BY <1>9, <3>0 DEF PanelStep, Start, BaseLoaded, BaseMissing, TaskCreated, CreateFails,
         StreamThrows, PollingEnds, Saved, Begin, End, RunPC
    <3>3. run'[g] # "refetch" /\ \A o \in Runs : o # g => run'[o] = run[o]
      BY <1>2, <3>2, RunMoves
    <3>4. notice' \in {notice, None} \/ (mounted /\ notice' = g /\ run[g] = "refetch")
      BY <1>9 DEF PanelStep, Start, BaseLoaded, BaseMissing, TaskCreated, CreateFails,
         StreamThrows, PollingEnds, Outcome, Saved, Begin, End
    <3>5. \A o \in Briefs : Told(o)' => Told(o)
      BY <1>2, <1>3, <3>3, <3>4 DEF Told
    <3>6. NothingBehind'
      BY <2>1, <3>1, <3>4 DEF NoticeInv, NothingBehind
    <3> QED
      BY <1>1, <2>1, <2>2, <3>1, <3>5, <3>6 DEF NoticeInv, ReadForward, ToldIsWritten, ToldIsComing,
         Coming
  <2> QED
    BY <2>3, <2>4
<1>10. CASE UNCHANGED <<taskVars, pageVars>>
  BY <1>5, <1>10 DEF pageVars, taskVars
<1> QED
  BY <1>7, <1>8, <1>9, <1>10, NextIs

(* "Saved." is never said beside a page read before the brief was written   *)
(* that will stay: the page has the brief, or what another task or a late   *)
(* PUT has put in its place, or will fetch one, whichever invalidations     *)
(* cross.                                                                   *)
THEOREM NoticeIsTrue == Spec => []SavedIsShown
<1>1. Init => NoticeInv
  <2> SUFFICES ASSUME Init PROVE NoticeInv
    OBVIOUS
  <2>1. \A g \in Briefs : g \in Runs /\ g # None
    BY RunIsNotNone DEF Runs
  <2>2. /\ fetch.pc = "none" /\ notice = None /\ Had(shown) = {} /\ ~mounted
        /\ \A g \in Runs : run[g] = "none" /\ task[g] = "none" /\ ends[g] = {}
    BY DEF Init, NoFetch, Nothing, Had
  <2> QED
    BY <2>1, <2>2 DEF NoticeInv, NothingBehind, SucceededIsWritten, Succeeded, ReadForward,
       ToldIsWritten, ToldIsComing, Told
<1>2. Base /\ NoticeInv /\ [Next]_vars => NoticeInv'
  BY NoticeStep
<1>3. Base /\ NoticeInv => SavedIsShown
  <2> SUFFICES ASSUME NoticeInv, notice \in Briefs
               PROVE  \/ UpTo(shown, notice)
                      \/ fetch.pc = "out"
                      \/ fetch.pc = "read" /\ UpTo(fetch.got, notice)
    BY DEF SavedIsShown
  <2>1. mounted
    BY JobAssumption DEF NoticeInv, NothingBehind
  <2> QED
    BY <2>1, HadIsUpTo DEF NoticeInv, ToldIsComing, Told, Coming
<1> QED
  BY <1>1, <1>2, <1>3, BaseHolds, PTL DEF Spec

=============================================================================

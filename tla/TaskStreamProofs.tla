--------------------------- MODULE TaskStreamProofs ---------------------------
(***************************************************************************)
(* Proofs about TaskStream for every set of tabs, every number of attempts *)
(* and polls, and every set of faults.                                     *)
(***************************************************************************)
EXTENDS TaskStream, TLAPS

-----------------------------------------------------------------------------
(* What the helpers return. *)

(* What is written to a stream keeps its type. *)
LEMMA WrittenType ==
  ASSUME NEW c \in Clients, NEW st \in Status, wire[c] \in Seq(Status)
  PROVE  Written(c, st) \in Seq(Status)
BY DEF Written

(* A tab that moves on with an outcome stays typed. *)
LEMMA LeavesType ==
  ASSUME TypeOK, NEW c \in Clients,
         NEW next \in {"listen", "wait", "answer", "done", "left"},
         NEW outcome \in Outcome, Leaves(c, next, outcome)
  PROVE  client' \in [Clients -> Client]
<1>1. client[c] \in Client
  BY DEF TypeOK
<1>2. [client[c] EXCEPT !.pc = next, !.outcome = outcome] \in Client
  BY <1>1 DEF Client
<1> QED
  BY <1>2 DEF TypeOK, Leaves

(* Hanging up leaves a typed stream and an empty wire. *)
LEMMA HangUpType ==
  ASSUME TypeOK, NEW c \in Clients, HangUp(c)
  PROVE  stream' \in [Clients -> Stream] /\ wire' \in [Clients -> Seq(Status)]
<1>1. stream[c] \in Stream /\ <<>> \in Seq(Status)
  BY DEF TypeOK
<1>2. [stream[c] EXCEPT !.conn = "cut"] \in Stream
  BY <1>1 DEF Stream
<1> QED
  BY <1>1, <1>2 DEF TypeOK, HangUp

-----------------------------------------------------------------------------
(* Type correctness. *)

LEMMA TypeInit == Init => TypeOK
<1> SUFFICES ASSUME Init PROVE TypeOK
  OBVIOUS
<1>1. <<>> \in Seq(Status) /\ "QUEUED" \in Status /\ "none" \in Outcome
  BY DEF Status, Outcome
<1> QED
  BY <1>1 DEF Init, TypeOK, Worker, Stream, Client

LEMMA TypeWork == ASSUME TypeOK, Work PROVE TypeOK'
<1>1. ASSUME NEW from, NEW to \in {"announceRunning", "work", "announceEnd", "done"},
             WorkerGoes(from, to)
      PROVE  worker' \in Worker /\ UNCHANGED <<faults, stream, wire, client>>
  BY <1>1 DEF TypeOK, WorkerGoes, Worker
<1>2. ASSUME NEW st \in Status, Write(st) \/ Publish(st)
      PROVE  status' \in Status /\ channel' \in Seq(Status)
  BY <1>2 DEF TypeOK, Write, Publish
<1>3. CASE StartRunning
  BY <1>1, <1>2, <1>3 DEF TypeOK, StartRunning, Status
<1>4. CASE AnnounceRunning
  BY <1>1, <1>2, <1>4 DEF TypeOK, AnnounceRunning, Status
<1>5. CASE RecordEnd
  <2>1. PICK st \in Terminal : WorkerGoes("work", "announceEnd") /\ Write(st)
    BY <1>5 DEF RecordEnd
  <2>2. st \in Status
    BY DEF Status
  <2> QED
    BY <1>1, <1>2, <2>1, <2>2 DEF TypeOK
<1>6. CASE AnnounceEnd
  BY <1>1, <1>2, <1>6 DEF TypeOK, AnnounceEnd
<1>7. CASE Retry
  <2>1. worker.made + 1 \in Nat
    BY DEF TypeOK, Worker
  <2>2. [pc |-> "start", made |-> worker.made + 1] \in Worker
    BY <2>1 DEF Worker
  <2> QED
    BY <1>7, <2>2 DEF TypeOK, Retry
<1>8. CASE Abandon
  BY <1>8 DEF TypeOK, Abandon, Worker
<1> QED
  BY <1>3, <1>4, <1>5, <1>6, <1>7, <1>8 DEF Work

LEMMA TypeEvent == ASSUME TypeOK, EventArrives \/ EventIsLost PROVE TypeOK'
<1>1. Head(channel) \in Status /\ Tail(channel) \in Seq(Status)
  BY DEF TypeOK, EventArrives, EventIsLost
<1>2. \A c \in Clients : Written(c, Head(channel)) \in Seq(Status)
  BY <1>1, WrittenType DEF TypeOK
<1>3. \A c \in Clients : [stream[c] EXCEPT !.pc = "ended"] \in Stream
  BY DEF TypeOK, Stream
<1>4. CASE EventArrives
  <2>1. wire' \in [Clients -> Seq(Status)]
    BY <1>2, <1>4 DEF TypeOK, EventArrives
  <2>2. stream' \in [Clients -> Stream]
    BY <1>3, <1>4 DEF TypeOK, EventArrives
  <2> QED
    BY <1>1, <1>4, <2>1, <2>2 DEF TypeOK, EventArrives
<1>5. CASE EventIsLost
  BY <1>1, <1>5 DEF TypeOK, EventIsLost
<1> QED
  BY <1>4, <1>5

LEMMA TypeStream ==
  ASSUME TypeOK, NEW c \in Clients, Serve(c) \/ Expire(c) \/ CloseEvent(c)
  PROVE  TypeOK'
<1>1. stream[c] \in Stream /\ status \in Status /\ wire[c] \in Seq(Status)
  BY DEF TypeOK
<1>2. \A pc \in {"asked", "read", "open", "ended"} :
        /\ [stream[c] EXCEPT !.pc = pc] \in Stream
        /\ [stream[c] EXCEPT !.pc = pc, !.seen = status] \in Stream
        /\ [stream[c] EXCEPT !.conn = "closed", !.pc = pc] \in Stream
  BY <1>1 DEF Stream
<1>3. CASE ReadTask(c)
  BY <1>2, <1>3 DEF TypeOK, ReadTask, task
<1>4. CASE OpenStream(c)
  <2>1. wire' \in [Clients -> Seq(Status)]
    <3>1. stream[c].seen \in Status
      BY <1>1 DEF Stream
    <3>2. Written(c, stream[c].seen) \in Seq(Status)
      BY <1>1, <3>1, WrittenType
    <3> QED
      BY <1>4, <3>2 DEF TypeOK, OpenStream
  <2>2. stream' \in [Clients -> Stream]
    BY <1>2, <1>4 DEF TypeOK, OpenStream
  <2> QED
    BY <1>4, <2>1, <2>2 DEF TypeOK, OpenStream, task
<1>5. CASE Expire(c)
  BY <1>2, <1>5 DEF TypeOK, Expire, task
<1>6. CASE CloseEvent(c)
  <2>1. stream[c].pc \in {"asked", "read", "open", "ended"}
    BY <1>1 DEF Stream
  <2> QED
    BY <1>2, <1>6, <2>1 DEF TypeOK, CloseEvent, task
<1> QED
  BY <1>3, <1>4, <1>5, <1>6 DEF Serve

LEMMA TypeFollow ==
  ASSUME TypeOK, NEW c \in Clients,
         Follow(c) \/ StreamBreaks(c) \/ PollFails(c) \/ Leave(c)
  PROVE  TypeOK'
<1>1. client[c] \in Client /\ status \in Status /\ wire[c] \in Seq(Status)
  BY DEF TypeOK
<1>2. Terminal \subseteq Outcome /\ {"none", "unreachable", "overdue"} \subseteq Outcome
  BY DEF Outcome
<1>3. CASE Hear(c)
  <2>1. CASE Head(wire[c]) \in Terminal
    BY <1>2, <1>3, <2>1, LeavesType, HangUpType DEF TypeOK, Hear, task
  <2>2. CASE Head(wire[c]) \notin Terminal
    <3>1. Tail(wire[c]) \in Seq(Status)
      BY <1>1, <1>3 DEF Hear
    <3> QED
      BY <1>3, <2>2, <3>1 DEF TypeOK, Hear, task
  <2> QED
    BY <2>1, <2>2
<1>4. CASE StreamEnds(c)
  BY <1>2, <1>4, LeavesType DEF TypeOK, StreamEnds, task
<1>5. CASE Poll(c)
  <2>1. [client[c] EXCEPT !.pc = "answer", !.seen = status] \in Client
    BY <1>1 DEF Client
  <2> QED
    BY <1>5, <2>1 DEF TypeOK, Poll, task
<1>6. CASE Answer(c)
  <2>1. [client[c] EXCEPT !.pc = "wait", !.polls = client[c].polls + 1] \in Client
    <3>1. client[c].polls \in Nat /\ client[c].polls + 1 \in Nat
      BY <1>1 DEF Client
    <3> QED
      BY <1>1, <3>1 DEF Client
  <2>2. client' \in [Clients -> Client]
    BY <1>2, <1>6, <2>1, LeavesType DEF TypeOK, Answer
  <2> QED
    BY <1>6, <2>2 DEF TypeOK, Answer, task
<1>7. CASE StreamBreaks(c)
  BY <1>2, <1>7, LeavesType, HangUpType DEF TypeOK, StreamBreaks, task
<1>8. CASE PollFails(c)
  BY <1>2, <1>8, LeavesType DEF TypeOK, PollFails, task
<1>9. CASE Leave(c)
  <2>1. client' \in [Clients -> Client]
    BY <1>2, <1>9, LeavesType DEF Leave
  <2>2. stream' \in [Clients -> Stream] /\ wire' \in [Clients -> Seq(Status)]
    BY <1>9, HangUpType DEF TypeOK, Leave
  <2> QED
    BY <1>9, <2>1, <2>2 DEF TypeOK, Leave, task
<1> QED
  BY <1>3, <1>4, <1>5, <1>6, <1>7, <1>8, <1>9 DEF Follow

LEMMA TypeStep == TypeOK /\ [Next]_vars => TypeOK'
<1>1. ASSUME TypeOK, UNCHANGED vars PROVE TypeOK'
  BY <1>1 DEF vars, TypeOK
<1> QED
  BY <1>1, TypeWork, TypeEvent, TypeStream, TypeFollow DEF Next

(* Every reachable state of the stream and its tabs is well typed. *)
THEOREM StreamTypeCorrect == Spec => []TypeOK
BY TypeInit, TypeStep, PTL DEF Spec

-----------------------------------------------------------------------------
(* What is said is what is recorded. *)

(* What is said of a task's end - st, or all of s - is what its row says.   *)
Agrees(st, said) == said \in Terminal => said = st
AllAgree(st, s) == \A i \in DOMAIN s : Agrees(st, s[i])

EndsOnce == status \in Terminal => worker.pc \in {"announceEnd", "done"}
EventsAgree == AllAgree(status, channel)
StreamsAgree ==
  \A c \in Clients : Agrees(status, stream[c].seen) /\ AllAgree(status, wire[c])
TabsAgree ==
  \A c \in Clients :
    Agrees(status, client[c].seen) /\ Agrees(status, client[c].outcome)

StreamInv ==
  /\ TypeOK
  /\ Spared({"rerun"}) => EndsOnce /\ EventsAgree /\ StreamsAgree /\ TabsAgree

LEMMA AgreeAppend ==
  ASSUME NEW st, NEW s \in Seq(Status), NEW said \in Status,
         AllAgree(st, s), Agrees(st, said)
  PROVE  AllAgree(st, Append(s, said))
BY DEF AllAgree

LEMMA AgreeTail ==
  ASSUME NEW st, NEW s \in Seq(Status), s # <<>>, AllAgree(st, s)
  PROVE  AllAgree(st, Tail(s)) /\ Agrees(st, Head(s))
BY DEF AllAgree

(* What is written to a stream agrees if what it held and the event do. *)
LEMMA AgreeWritten ==
  ASSUME TypeOK, NEW st, NEW c \in Clients, NEW said \in Status,
         AllAgree(st, wire[c]), Agrees(st, said)
  PROVE  AllAgree(st, Written(c, said))
BY AgreeAppend DEF TypeOK, Written

(* A step changes only a status that is not an end, which nobody has been   *)
(* told an end of: whatever agreed with the row goes on to agree with it.   *)
LEMMA StatusStep ==
  ASSUME TypeOK, EndsOnce, Spared({"rerun"}), [Next]_vars
  PROVE  /\ EndsOnce'
         /\ \A said : Agrees(status, said) => Agrees(status', said)
         /\ \A s : AllAgree(status, s) => AllAgree(status', s)
<1>1. \/ status' = status /\ worker' = worker
      \/ StartRunning \/ AnnounceRunning \/ RecordEnd \/ AnnounceEnd
      \/ Retry \/ Abandon
  BY DEF Next, vars, Work, EventArrives, EventIsLost, Serve, ReadTask, OpenStream,
         Expire, CloseEvent, Follow, Hear, StreamEnds, Poll, Answer, StreamBreaks,
         PollFails, Leave, task
<1>2. EndsOnce' /\ (status' = status \/ status \notin Terminal)
  <2>1. CASE status' = status /\ worker' = worker
    BY <2>1 DEF EndsOnce
  <2>2. CASE StartRunning
    BY <2>2 DEF EndsOnce, StartRunning, WorkerGoes, Write, Terminal
  <2>3. CASE AnnounceRunning
    BY <2>3 DEF EndsOnce, AnnounceRunning, WorkerGoes, Publish
  <2>4. CASE RecordEnd
    BY <2>4 DEF EndsOnce, RecordEnd, WorkerGoes, Write, TypeOK, Worker
  <2>5. CASE AnnounceEnd
    BY <2>5 DEF EndsOnce, AnnounceEnd, WorkerGoes, Publish, TypeOK, Worker
  <2>6. CASE Retry
    BY <2>6 DEF EndsOnce, Retry, Spared
  <2>7. CASE Abandon
    BY <2>7 DEF EndsOnce, Abandon
  <2> QED
    BY <1>1, <2>1, <2>2, <2>3, <2>4, <2>5, <2>6, <2>7
<1> QED
  BY <1>2 DEF Agrees, AllAgree

LEMMA EventsStep ==
  ASSUME StreamInv, Spared({"rerun"}), [Next]_vars
  PROVE  EventsAgree'
<1>1. /\ channel \in Seq(Status) /\ status \in Status
      /\ EndsOnce' /\ AllAgree(status', channel)
  BY StatusStep DEF StreamInv, EventsAgree, TypeOK
<1>2. CASE channel' = channel
  BY <1>1, <1>2 DEF EventsAgree
<1>3. CASE channel # <<>> /\ channel' = Tail(channel)
  BY <1>1, <1>3, AgreeTail DEF EventsAgree
<1>4. CASE AnnounceRunning
  <2>1. channel' = Append(channel, "RUNNING") /\ "RUNNING" \in Status
    BY <1>4 DEF AnnounceRunning, Publish, Status
  <2>2. Agrees(status', "RUNNING")
    BY DEF Agrees, Terminal
  <2> QED
    BY <1>1, <2>1, <2>2, AgreeAppend DEF EventsAgree
<1>5. CASE AnnounceEnd
  <2>1. channel' = Append(channel, status) /\ status' = status
    BY <1>5 DEF AnnounceEnd, Publish
  <2> QED
    BY <1>1, <2>1, AgreeAppend DEF EventsAgree, Agrees
<1>6. \/ channel' = channel
      \/ channel # <<>> /\ channel' = Tail(channel)
      \/ AnnounceRunning \/ AnnounceEnd
  BY DEF Next, vars, Work, StartRunning, RecordEnd, Write, Retry, Abandon,
         EventArrives, EventIsLost, Serve, ReadTask, OpenStream, Expire, CloseEvent,
         Follow, Hear, StreamEnds, Poll, Answer, StreamBreaks, PollFails, Leave, task
<1> QED
  BY <1>2, <1>3, <1>4, <1>5, <1>6

LEMMA StreamsStep ==
  ASSUME StreamInv, Spared({"rerun"}), [Next]_vars
  PROVE  StreamsAgree'
<1>1. ASSUME NEW c \in Clients
      PROVE  /\ stream[c].seen \in Status /\ wire[c] \in Seq(Status)
             /\ status \in Status /\ channel \in Seq(Status)
  BY DEF StreamInv, TypeOK, Stream
<1>2. ASSUME NEW c \in Clients
      PROVE  Agrees(status', stream[c].seen) /\ AllAgree(status', wire[c])
  BY StatusStep DEF StreamInv, StreamsAgree
<1>3. AllAgree(status', channel)
  BY StatusStep DEF StreamInv, EventsAgree
<1>4. SUFFICES ASSUME NEW d \in Clients
               PROVE  Agrees(status', stream'[d].seen) /\ AllAgree(status', wire'[d])
  BY DEF StreamsAgree
<1>5. CASE UNCHANGED <<stream, wire>>
  BY <1>2, <1>5
<1>6. CASE EventArrives
  <2>1. Head(channel) \in Status /\ Agrees(status', Head(channel))
    <3>1. channel \in Seq(Status) /\ channel # <<>>
      BY <1>1, <1>6 DEF EventArrives
    <3>2. Head(channel) \in Status
      BY <3>1
    <3> QED
      BY <1>3, <3>1, <3>2, AgreeTail
  <2>2. AllAgree(status', Written(d, Head(channel)))
    BY <1>2, <2>1, AgreeWritten DEF StreamInv
  <2>3. stream'[d].seen = stream[d].seen
    BY <1>6 DEF EventArrives, StreamInv, TypeOK, Stream
  <2>4. wire'[d] = wire[d] \/ wire'[d] = Written(d, Head(channel))
    BY <1>6 DEF EventArrives
  <2> QED
    BY <1>2, <2>2, <2>3, <2>4
<1>7. ASSUME NEW c \in Clients, ReadTask(c)
      PROVE  Agrees(status', stream'[d].seen) /\ AllAgree(status', wire'[d])
  <2>1. status' = status /\ wire' = wire
    BY <1>7 DEF ReadTask, task
  <2>2. stream'[d].seen = stream[d].seen \/ stream'[d].seen = status
    BY <1>7 DEF ReadTask, StreamInv, TypeOK, Stream
  <2> QED
    BY <1>2, <2>1, <2>2 DEF Agrees
<1>8. ASSUME NEW c \in Clients, OpenStream(c)
      PROVE  Agrees(status', stream'[d].seen) /\ AllAgree(status', wire'[d])
  <2>1. AllAgree(status', Written(d, stream[d].seen))
    BY <1>1, <1>2, AgreeWritten DEF StreamInv
  <2>2. stream'[d].seen = stream[d].seen
    BY <1>8 DEF OpenStream, StreamInv, TypeOK, Stream
  <2>3. wire'[d] = wire[d] \/ wire'[d] = Written(d, stream[d].seen)
    BY <1>8 DEF OpenStream, StreamInv, TypeOK
  <2> QED
    BY <1>2, <2>1, <2>2, <2>3
<1>9. ASSUME NEW c \in Clients, Expire(c) \/ CloseEvent(c)
      PROVE  Agrees(status', stream'[d].seen) /\ AllAgree(status', wire'[d])
  <2>1. stream'[d].seen = stream[d].seen /\ wire' = wire
    <3>1. CASE Expire(c)
      BY <3>1 DEF Expire, StreamInv, TypeOK, Stream
    <3>2. CASE CloseEvent(c)
      <4>1. stream[c] \in Stream /\ stream \in [Clients -> Stream]
        BY DEF StreamInv, TypeOK
      <4>2. CASE d = c
        BY <3>2, <4>1, <4>2 DEF CloseEvent, Stream
      <4>3. CASE d # c
        BY <3>2, <4>1, <4>3 DEF CloseEvent
      <4> QED
        BY <4>2, <4>3
    <3> QED
      BY <1>9, <3>1, <3>2
  <2> QED
    BY <1>2, <2>1
<1>10. ASSUME NEW c \in Clients, HangUp(c)
       PROVE  Agrees(status', stream'[d].seen) /\ AllAgree(status', wire'[d])
  <2>1. stream'[d].seen = stream[d].seen
    BY <1>10 DEF HangUp, StreamInv, TypeOK, Stream
  <2>2. wire'[d] = wire[d] \/ wire'[d] = <<>>
    BY <1>10 DEF HangUp, StreamInv, TypeOK
  <2>3. AllAgree(status', <<>>)
    BY DEF AllAgree
  <2> QED
    BY <1>2, <2>1, <2>2, <2>3
<1>11. ASSUME NEW c \in Clients, Hear(c), ~HangUp(c)
       PROVE  Agrees(status', stream'[d].seen) /\ AllAgree(status', wire'[d])
  <2>1. stream' = stream /\ wire[c] # <<>> /\ wire' = [wire EXCEPT ![c] = Tail(@)]
    BY <1>11 DEF Hear
  <2>2. AllAgree(status', Tail(wire[c]))
    BY <1>1, <1>2, <2>1, AgreeTail
  <2>3. wire'[d] = wire[d] \/ wire'[d] = Tail(wire[c])
    BY <2>1 DEF StreamInv, TypeOK
  <2> QED
    BY <1>2, <2>1, <2>2, <2>3
<1>12. \/ UNCHANGED <<stream, wire>> \/ EventArrives
       \/ \E c \in Clients :
            \/ ReadTask(c) \/ OpenStream(c) \/ Expire(c) \/ CloseEvent(c)
            \/ HangUp(c) \/ Hear(c)
  BY DEF Next, vars, Work, StartRunning, AnnounceRunning, RecordEnd, AnnounceEnd,
         WorkerGoes, Retry, Abandon, EventIsLost, Serve, Follow, StreamEnds, Poll,
         Answer, StreamBreaks, PollFails, Leave
<1> QED
  BY <1>5, <1>6, <1>7, <1>8, <1>9, <1>10, <1>11, <1>12

LEMMA TabsStep ==
  ASSUME StreamInv, Spared({"rerun"}), [Next]_vars
  PROVE  TabsAgree'
<1>1. ASSUME NEW c \in Clients
      PROVE  /\ Agrees(status', client[c].seen) /\ Agrees(status', client[c].outcome)
             /\ client[c] \in Client /\ wire[c] \in Seq(Status)
             /\ AllAgree(status', wire[c])
  BY StatusStep DEF StreamInv, TabsAgree, StreamsAgree, TypeOK
<1>2. SUFFICES ASSUME NEW d \in Clients
               PROVE  /\ Agrees(status', client'[d].seen)
                      /\ Agrees(status', client'[d].outcome)
  BY DEF TabsAgree
<1>3. CASE client' = client
  BY <1>1, <1>3
<1>4. ASSUME NEW c \in Clients, NEW next, NEW outcome,
             Leaves(c, next, outcome), Agrees(status', outcome)
      PROVE  Agrees(status', client'[d].seen) /\ Agrees(status', client'[d].outcome)
  <2>1. client'[d].seen = client[d].seen
    BY <1>1, <1>4 DEF Leaves, StreamInv, TypeOK, Client
  <2>2. client'[d].outcome = client[d].outcome \/ client'[d].outcome = outcome
    BY <1>1, <1>4 DEF Leaves, StreamInv, TypeOK, Client
  <2> QED
    BY <1>1, <1>4, <2>1, <2>2
<1>5. /\ Agrees(status', "none") /\ Agrees(status', "unreachable")
      /\ Agrees(status', "overdue")
  BY DEF Agrees, Terminal
<1>6. ASSUME NEW c \in Clients, Hear(c)
      PROVE  Agrees(status', client'[d].seen) /\ Agrees(status', client'[d].outcome)
  <2>1. CASE client' = client
    BY <1>3, <2>1
  <2>2. CASE Leaves(c, "done", Head(wire[c]))
    <3>1. Agrees(status', Head(wire[c]))
      BY <1>1, <1>6, AgreeTail DEF Hear
    <3> QED
      BY <1>4, <2>2, <3>1
  <2> QED
    BY <1>6, <2>1, <2>2 DEF Hear
<1>7. ASSUME NEW c \in Clients, Poll(c)
      PROVE  Agrees(status', client'[d].seen) /\ Agrees(status', client'[d].outcome)
  <2>1. status' = status
    BY <1>7 DEF Poll, task
  <2>2. /\ client'[d].seen = client[d].seen \/ client'[d].seen = status
        /\ client'[d].outcome = client[d].outcome
    BY <1>1, <1>7 DEF Poll, StreamInv, TypeOK, Client
  <2> QED
    BY <1>1, <2>1, <2>2 DEF Agrees
<1>8. ASSUME NEW c \in Clients, Answer(c)
      PROVE  Agrees(status', client'[d].seen) /\ Agrees(status', client'[d].outcome)
  <2>1. CASE Leaves(c, "done", client[c].seen) \/ Leaves(c, "done", "overdue")
    BY <1>1, <1>4, <1>5, <2>1
  <2>2. CASE client' = [client EXCEPT ![c] =
                [@ EXCEPT !.pc = "wait", !.polls = client[c].polls + 1]]
    <3>1. client'[d].seen = client[d].seen /\ client'[d].outcome = client[d].outcome
      BY <1>1, <2>2 DEF StreamInv, TypeOK, Client
    <3> QED
      BY <1>1, <3>1
  <2> QED
    BY <1>8, <2>1, <2>2 DEF Answer
<1>9. \/ client' = client
      \/ \E c \in Clients :
           \/ Hear(c) \/ Poll(c) \/ Answer(c)
           \/ Leaves(c, "wait", "none") \/ Leaves(c, "left", "none")
           \/ Leaves(c, "done", "unreachable")
  BY DEF Next, vars, Work, StartRunning, AnnounceRunning, RecordEnd, AnnounceEnd,
         WorkerGoes, Retry, Abandon, EventArrives, EventIsLost, Serve, ReadTask,
         OpenStream, Expire, CloseEvent, Follow, StreamEnds, StreamBreaks,
         PollFails, Leave
<1> QED
  BY <1>3, <1>4, <1>5, <1>6, <1>7, <1>8, <1>9

LEMMA FaultsStay ==
  ASSUME [Next]_vars
  PROVE  faults' = faults
BY DEF Next, vars, Work, StartRunning, AnnounceRunning, RecordEnd, AnnounceEnd,
       WorkerGoes, Retry, Abandon, EventArrives, EventIsLost, Serve, ReadTask,
       OpenStream, Expire, CloseEvent, Follow, Hear, StreamEnds, Poll, Answer,
       StreamBreaks, PollFails, Leave

LEMMA StreamInvInit == Init => StreamInv
<1> SUFFICES ASSUME Init PROVE StreamInv
  OBVIOUS
<1>1. EndsOnce
  BY DEF Init, EndsOnce, Terminal
<1>2. EventsAgree /\ StreamsAgree /\ TabsAgree
  BY DEF Init, EventsAgree, StreamsAgree, TabsAgree, AllAgree, Agrees, Terminal
<1> QED
  BY <1>1, <1>2, TypeInit DEF StreamInv

LEMMA StreamInvStep == StreamInv /\ [Next]_vars => StreamInv'
<1> SUFFICES ASSUME StreamInv, [Next]_vars PROVE StreamInv'
  OBVIOUS
<1>1. TypeOK'
  BY TypeStep DEF StreamInv
<1>2. Spared({"rerun"})' = Spared({"rerun"})
  BY FaultsStay DEF Spared
<1>3. Spared({"rerun"}) => (EndsOnce /\ EventsAgree /\ StreamsAgree /\ TabsAgree)'
  BY StatusStep, EventsStep, StreamsStep, TabsStep DEF StreamInv
<1> QED
  BY <1>1, <1>2, <1>3 DEF StreamInv

(* Whatever is lost, broken off, retried or left, a tab that reports an end *)
(* reports the one in the row, unless the task was run again after it.      *)
THEOREM OutcomeMatchesRow == Spec => []OutcomeIsRecorded
<1>1. StreamInv => OutcomeIsRecorded
  BY DEF StreamInv, TabsAgree, Agrees, OutcomeIsRecorded
<1> QED
  BY <1>1, StreamInvInit, StreamInvStep, PTL DEF Spec
=============================================================================

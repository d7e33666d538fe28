----------------------------- MODULE ResumeFiles -----------------------------
(***************************************************************************)
(* resume-service's uploaded files behind the gateway: FilesService over a *)
(* table and an object store that share no transaction.  One action per    *)
(* await of upload, remove and signedUrl.  A handler runs to its end even  *)
(* when the gateway has given up on it or the browser has left.            *)
(*                                                                         *)
(* The key that buildObjectKey mints for an upload, and the id of its row, *)
(* are named by the upload itself: both are fresh UUIDs.                   *)
(***************************************************************************)
EXTENDS Gateway

CONSTANTS
  Uploads,  \* the requests that upload a file; other private ones are about one
  NoFile

FileFaults ==
  { "storage",    \* an object store call throws
    "db",         \* a Prisma call throws
    "lostReply",  \* a call that throws may have taken effect all the same
    "crash" }     \* the resume-service process dies

ASSUME FileRequestAssumption ==
  Uploads \subseteq Requests \ Public /\ NoFile \notin Requests
ASSUME FileFaultAssumption == FaultModels \subseteq SUBSET (GatewayFaults \cup FileFaults)

VARIABLES
  row,      \* [Uploads -> the owner its resume_files row names, or Nobody]
  objects,  \* the uploads whose object is in the bucket
  handler   \* [Requests -> where FilesService stands with a request]

fileVars == <<row, objects, handler>>
vars == <<gatewayVars, fileVars>>

Handler ==
  [ pc : {"none", "put", "create", "cleanUp", "find", "deleteRow",
          "deleteObject", "answered", "dead"},
    user : Users \cup {Nobody},
    file : Uploads \cup {NoFile},
    status : {0, 200, 201, 204, 400, 404, 500} ]

Init ==
  /\ GatewayInit
  /\ row = [f \in Uploads |-> Nobody]
  /\ objects = {}
  /\ handler = [r \in Requests |->
       [pc |-> "none", user |-> Nobody, file |-> NoFile, status |-> 0]]

-----------------------------------------------------------------------------
Doing(r, pc) == handler[r].pc = pc

GoOn(r, pc) == handler' = [handler EXCEPT ![r].pc = pc]
Reply(r, st) == handler' = [handler EXCEPT ![r].pc = "answered", ![r].status = st]

(* What ErrorEnvelopeFilter answers: an AppError by its code, and a failed *)
(* call to Prisma or the object store as INTERNAL.                          *)
ERROR_STATUS == [BAD_REQUEST |-> 400, NOT_FOUND |-> 404, INTERNAL |-> 500]
Throw(r, code) == Reply(r, ERROR_STATUS[code])

(* The request arrives with the identity the gateway put on it. *)
Receive(r, pc, f) ==
  /\ At(r, "upstream")
  /\ Doing(r, "none")
  /\ handler' = [handler EXCEPT ![r].pc = pc, ![r].user = exchange[r].userId,
                                ![r].file = f]
  /\ UNCHANGED <<gatewayVars, row, objects>>

(* A call that throws: with lostReply the new value may be there anyway. *)
Fails(kind) == kind \in faults
OrLost(same, done) == {same} \cup (IF "lostReply" \in faults THEN {done} ELSE {})

StartUpload(r) == r \in Uploads /\ Receive(r, "put", r)

(* An unsupported type, or more than RESUME_UPLOAD_MAX_BYTES. *)
RejectUpload(r) ==
  /\ r \in Uploads
  /\ At(r, "upstream")
  /\ Doing(r, "none")
  /\ Throw(r, "BAD_REQUEST")
  /\ UNCHANGED <<gatewayVars, row, objects>>

PutObject(r) ==
  LET put == objects \cup {r}
  IN /\ Doing(r, "put")
     /\ \/ GoOn(r, "create") /\ objects' = put
        \/ /\ Fails("storage")
           /\ Throw(r, "INTERNAL")
           /\ objects' \in OrLost(objects, put)
     /\ UNCHANGED <<gatewayVars, row>>

(* Mutant: a failed create rethrows at once. *)
CreateRowNoCleanUp(r) ==
  LET created == [row EXCEPT ![r] = handler[r].user]
  IN /\ Doing(r, "create")
     /\ \/ Reply(r, 201) /\ row' = created
        \/ /\ Fails("db")
           /\ Throw(r, "INTERNAL")
           /\ row' \in OrLost(row, created)
     /\ UNCHANGED <<gatewayVars, objects>>

CreateRow(r) ==
  LET created == [row EXCEPT ![r] = handler[r].user]
  IN /\ Doing(r, "create")
     /\ \/ Reply(r, 201) /\ row' = created
        \/ /\ Fails("db")
           /\ GoOn(r, "cleanUp")
           /\ row' \in OrLost(row, created)
     /\ UNCHANGED <<gatewayVars, objects>>

(* storage.remove(...).catch(() => undefined), and what is answered then. *)
RemoveObject(r, pc, st) ==
  /\ Doing(r, pc)
  /\ Reply(r, st)
  /\ \/ objects' = objects \ {handler[r].file}
     \/ Fails("storage") /\ objects' = objects
  /\ UNCHANGED <<gatewayVars, row>>

CleanUp(r) == RemoveObject(r, "cleanUp", ERROR_STATUS.INTERNAL)

(* owned(): the row by its id and its owner. *)
Find(r, next) ==
  /\ ~IsPublic(r) /\ r \notin Uploads
  /\ At(r, "upstream")
  /\ Doing(r, "none")
  /\ \/ \E f \in Uploads :
            handler' = [handler EXCEPT ![r] =
              IF row[f] = exchange[r].userId
              THEN [pc |-> next, user |-> exchange[r].userId, file |-> f,
                    status |-> IF next = "answered" THEN 200 ELSE 0]
              ELSE [@ EXCEPT !.pc = "answered", !.status = ERROR_STATUS.NOT_FOUND]]
     \/ Fails("db") /\ Throw(r, "INTERNAL")
  /\ UNCHANGED <<gatewayVars, row, objects>>

(* signedUrl: signing is local, so the answer follows the read. *)
Download(r) == Find(r, "answered")

FindToRemove(r) == Find(r, "deleteRow")

(* Mutant: the object goes first, the row after it. *)
DeleteRowAfterObject(r) ==
  /\ Doing(r, "deleteRow")
  /\ objects' = objects \ {handler[r].file}
  /\ \/ Reply(r, 204) /\ row' = [row EXCEPT ![handler[r].file] = Nobody]
     \/ Fails("db") /\ Throw(r, "INTERNAL") /\ row' = row
  /\ UNCHANGED gatewayVars

(* prisma.delete throws when another removal was faster. *)
DeleteRow(r) ==
  LET f == handler[r].file
      deleted == [row EXCEPT ![f] = Nobody]
  IN /\ Doing(r, "deleteRow")
     /\ \/ row[f] # Nobody /\ GoOn(r, "deleteObject") /\ row' = deleted
        \/ row[f] = Nobody /\ Throw(r, "INTERNAL") /\ row' = row
        \/ Fails("db") /\ Throw(r, "INTERNAL") /\ row' \in OrLost(row, deleted)
     /\ UNCHANGED <<gatewayVars, objects>>

DeleteObject(r) == RemoveObject(r, "deleteObject", 204)

Busy == {r \in Requests : handler[r].pc \notin {"none", "answered", "dead"}}

Crash ==
  /\ Fails("crash")
  /\ Busy # {}
  /\ handler' = [r \in Requests |->
       IF r \in Busy THEN [handler[r] EXCEPT !.pc = "dead"] ELSE handler[r]]
  /\ UNCHANGED <<gatewayVars, row, objects>>

(* The gateway passes the answer on; a dead handler's connection is reset,  *)
(* and auth-service answers the public routes.                              *)
Answer(r) ==
  /\ CASE Doing(r, "answered") -> UpstreamAnswers(r, handler[r].status)
       [] Doing(r, "dead") -> UpstreamAnswers(r, 502)
       [] IsPublic(r) -> UpstreamAnswers(r, 200)
       [] OTHER -> FALSE
  /\ UNCHANGED fileVars

Handle(r) ==
  \/ StartUpload(r) \/ RejectUpload(r) \/ PutObject(r) \/ CreateRow(r) \/ CleanUp(r)
  \/ FindToRemove(r) \/ DeleteRow(r) \/ DeleteObject(r) \/ Download(r)

Next ==
  \/ \E r \in Requests :
       \/ Pass(r) /\ UNCHANGED fileVars
       \/ Handle(r)
       \/ Answer(r)
  \/ NextWindow /\ UNCHANGED fileVars
  \/ Crash

Spec == Init /\ [][Next]_vars

-----------------------------------------------------------------------------
TypeOK ==
  /\ GatewayTypeOK
  /\ row \in [Uploads -> Users \cup {Nobody}]
  /\ objects \subseteq Uploads
  /\ handler \in [Requests -> Handler]

(* "a row pointing at a deleted object is a broken download": every row has *)
(* its object, through failures and crashes between the two stores.  The    *)
(* exception is a create that threw although it committed.                  *)
RowsHaveObjects ==
  \A f \in Uploads :
    row[f] # Nobody => f \in objects \/ {"db", "lostReply"} \subseteq faults

(* "Don't leave an orphaned object behind": an object without a row is in   *)
(* the hands of a handler, or some call of its upload or removal failed in  *)
(* a way nobody could clean up after.                                       *)
OrphansHaveACause ==
  \A f \in objects :
    \/ row[f] # Nobody
    \/ \E r \in Busy : handler[r].file = f
    \/ "storage" \in faults \/ "crash" \in faults
    \/ {"db", "lostReply"} \subseteq faults
=============================================================================

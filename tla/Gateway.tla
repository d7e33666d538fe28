------------------------------- MODULE Gateway -------------------------------
(***************************************************************************)
(* The API gateway: a request's way through requestId, accessLog,          *)
(* stripInboundUserId, authenticate, rateLimit and the proxy of its route. *)
(* One action per stretch of middleware that runs without awaiting, one    *)
(* for each event of the response.  The client may hang up at any time;    *)
(* the middleware goes on regardless.                                      *)
(*                                                                         *)
(* The service behind the proxy is another module's: a request with pc     *)
(* "upstream" is its to handle, and ends by UpstreamAnswers.               *)
(***************************************************************************)
EXTENDS Integers, FiniteSets

CONSTANTS
  Requests,   \* the requests that browsers send
  Public,     \* those to the three routes that need no token
  Users,      \* the users a verified access token may name
  ApiLimit,   \* RATE_LIMIT_MAX
  AuthLimit,  \* RATE_LIMIT_AUTH_MAX
  LastWindow, \* the last window of the rate limiter considered
  FaultModels,
  Nobody, BadToken, TheIp  \* no user or no token; one that fails; the client's address

GatewayFaults ==
  { "token",   \* an access token is missing, or fails verification
    "redis",   \* the limiter's MULTI throws
    "window",  \* the limiter's window ends while requests are on their way
    "proxy",   \* upstream is unreachable, or takes longer than proxyTimeout
    "hangUp" } \* a client closes its connection

ASSUME RequestAssumption == IsFiniteSet(Requests) /\ Public \subseteq Requests
ASSUME LimitAssumption == {ApiLimit, AuthLimit} \subseteq Nat /\ LastWindow \in Nat
ASSUME NameAssumption ==
  /\ {Nobody, BadToken, TheIp} \cap Users = {}
  /\ Nobody # BadToken

VARIABLES
  faults,    \* what may go wrong in this behaviour; never changes
  window,    \* Math.floor(now / RATE_LIMIT_WINDOW_SECONDS)
  used,      \* [Identities -> [Windows -> the limiter's counter in Redis]]
  inFlight,  \* the gauge of Metrics
  exchange   \* [Requests -> where the gateway stands with a request]

gatewayVars == <<faults, window, used, inFlight, exchange>>

Windows == 0 .. LastWindow
Identities == Users \cup {TheIp}
Tokens == Users \cup {Nobody, BadToken}

(* userId: the X-User-Id header as the next middleware sees it.  gate: what *)
(* the limiter made of the request.  open: the client still listens.        *)
Exchange ==
  [ pc : {"new", "verify", "limit", "upstream", "ended", "finished", "dropped"},
    token : Tokens,
    userId : Users \cup {Nobody},
    bucket : Windows,
    gate : {"none", "counted", "refused", "unmetered"},
    status : {0, 200, 201, 204, 400, 401, 404, 429, 500, 502},
    open : BOOLEAN ]

GatewayInit ==
  /\ faults \in FaultModels
  /\ window = 0
  /\ used = [i \in Identities |-> [w \in Windows |-> 0]]
  /\ inFlight = 0
  /\ exchange = [r \in Requests |->
       [pc |-> "new", token |-> Nobody, userId |-> Nobody, bucket |-> 0,
        gate |-> "none", status |-> 0, open |-> TRUE]]

-----------------------------------------------------------------------------
(* isPublicRoute: register, login and refresh. *)
IsPublic(r) == r \in Public

At(r, pc) == exchange[r].pc = pc

TokensSent == IF "token" \in faults THEN Tokens ELSE Users

To(r, x) == exchange' = [exchange EXCEPT ![r] = x]

(* res.status(st).json(...), or the end of a proxied answer; on a response *)
(* that has closed it does nothing more.                                    *)
Ended(x, st) ==
  [x EXCEPT !.pc = IF x.open THEN "ended" ELSE "dropped", !.status = st]

(* next() into the limiter, which names its window before it awaits Redis. *)
Metered(x) == [x EXCEPT !.pc = "limit", !.bucket = window]

(* Mutant: the inbound X-User-Id, which names `claimed', is not stripped. *)
ArriveUnstripped(r) ==
  \E token \in IF IsPublic(r) THEN {Nobody} ELSE TokensSent,
     claimed \in Users \cup {Nobody} :
    LET x == [exchange[r] EXCEPT !.token = token, !.userId = claimed]
    IN /\ At(r, "new")
       /\ inFlight' = inFlight + 1
       /\ To(r, IF IsPublic(r) THEN Metered(x)
                ELSE IF token = Nobody THEN Ended(x, 401)
                ELSE [x EXCEPT !.pc = "verify"])
       /\ UNCHANGED <<faults, window, used>>

(* requestId, accessLog, the strip, and authenticate up to its await: a     *)
(* public route goes on to the limiter, a missing token is answered 401.    *)
Arrive(r) ==
  \E token \in IF IsPublic(r) THEN {Nobody} ELSE TokensSent :
    LET x == [exchange[r] EXCEPT !.token = token, !.userId = Nobody]
    IN /\ At(r, "new")
       /\ inFlight' = inFlight + 1
       /\ To(r, IF IsPublic(r) THEN Metered(x)
                ELSE IF token = Nobody THEN Ended(x, 401)
                ELSE [x EXCEPT !.pc = "verify"])
       /\ UNCHANGED <<faults, window, used>>

(* Mutant: the token is decoded, and its signature not verified. *)
VerifyDecodesOnly(r) ==
  LET x == exchange[r]
  IN /\ At(r, "verify")
     /\ To(r, Metered([x EXCEPT !.userId = x.token]))
     /\ UNCHANGED <<faults, window, used, inFlight>>

(* jwtVerify settles: the caller's id is attached, or the answer is 401. *)
Verify(r) ==
  LET x == exchange[r]
  IN /\ At(r, "verify")
     /\ To(r, IF x.token \in Users
              THEN Metered([x EXCEPT !.userId = x.token])
              ELSE Ended(x, 401))
     /\ UNCHANGED <<faults, window, used, inFlight>>

(* Whom a request is charged to, and how many a window allows. *)
Identity(r) ==
  IF IsPublic(r) \/ exchange[r].userId = Nobody THEN TheIp ELSE exchange[r].userId
LimitOf(r) == IF IsPublic(r) THEN AuthLimit ELSE ApiLimit

Forwarded(x, gate) == [x EXCEPT !.pc = "upstream", !.gate = gate]

(* Mutant: compares the count from before this request. *)
RateLimitLate(r) ==
  LET x == exchange[r]
      count == used[Identity(r)][x.bucket]
  IN /\ At(r, "limit")
     /\ used' = [used EXCEPT ![Identity(r)][x.bucket] = count + 1]
     /\ To(r, IF count > LimitOf(r)
              THEN Ended([x EXCEPT !.gate = "refused"], 429)
              ELSE Forwarded(x, "counted"))
     /\ UNCHANGED <<faults, window, inFlight>>

(* MULTI INCR EXPIRE settles: over the limit is 429, anything else goes on. *)
RateLimit(r) ==
  LET x == exchange[r]
      count == used[Identity(r)][x.bucket] + 1
  IN /\ At(r, "limit")
     /\ used' = [used EXCEPT ![Identity(r)][x.bucket] = count]
     /\ To(r, IF count > LimitOf(r)
              THEN Ended([x EXCEPT !.gate = "refused"], 429)
              ELSE Forwarded(x, "counted"))
     /\ UNCHANGED <<faults, window, inFlight>>

(* The MULTI throws, before or after it counted: the request goes on. *)
FailOpen(r) ==
  /\ "redis" \in faults
  /\ At(r, "limit")
  /\ \E n \in {0, 1} :
       used' = [used EXCEPT ![Identity(r)][exchange[r].bucket] = @ + n]
  /\ To(r, Forwarded(exchange[r], "unmetered"))
  /\ UNCHANGED <<faults, window, inFlight>>

(* The proxied answer has come in full. *)
UpstreamAnswers(r, st) ==
  /\ At(r, "upstream")
  /\ To(r, Ended(exchange[r], st))
  /\ UNCHANGED <<faults, window, used, inFlight>>

(* The proxy's error handler answers 502; upstream may still be at work. *)
ProxyFails(r) ==
  /\ "proxy" \in faults
  /\ UpstreamAnswers(r, 502)

-----------------------------------------------------------------------------
(* What the response reports to accessLog. *)

(* "finish": everything was handed to the connection. *)
Finish(r) ==
  /\ At(r, "ended")
  /\ exchange[r].open
  /\ To(r, [exchange[r] EXCEPT !.pc = "finished"])
  /\ inFlight' = inFlight - 1
  /\ UNCHANGED <<faults, window, used>>

(* Mutant: counts out every response that closes. *)
CloseAlwaysLeaves(r) ==
  /\ "hangUp" \in faults
  /\ ~At(r, "new")
  /\ exchange[r].open
  /\ To(r, [exchange[r] EXCEPT !.open = FALSE])
  /\ inFlight' = inFlight - 1
  /\ UNCHANGED <<faults, window, used>>

(* "close", which follows "finish" or comes because the client hung up.  It *)
(* is left out where nobody hangs up: after "finish" it changes nothing.    *)
Close(r) ==
  /\ "hangUp" \in faults
  /\ ~At(r, "new")
  /\ exchange[r].open
  /\ To(r, [exchange[r] EXCEPT !.open = FALSE])
  /\ inFlight' = IF exchange[r].pc \in {"ended", "finished"}
                 THEN inFlight ELSE inFlight - 1
  /\ UNCHANGED <<faults, window, used>>

(* A response cut while its end is still in the connection's buffer closes  *)
(* as above; when the connection did not err, "finish" comes after all.     *)
LateFinish(r) ==
  /\ "hangUp" \in faults
  /\ At(r, "ended")
  /\ exchange[r].open
  /\ To(r, [exchange[r] EXCEPT !.pc = "finished", !.open = FALSE])
  /\ inFlight' = inFlight - 1
  /\ UNCHANGED <<faults, window, used>>

NextWindow ==
  /\ "window" \in faults
  /\ window < LastWindow
  /\ window' = window + 1
  /\ UNCHANGED <<faults, used, inFlight, exchange>>

Pass(r) ==
  \/ Arrive(r) \/ Verify(r) \/ RateLimit(r) \/ FailOpen(r) \/ ProxyFails(r)
  \/ Finish(r) \/ Close(r) \/ LateFinish(r)

-----------------------------------------------------------------------------
GatewayTypeOK ==
  /\ faults \in FaultModels
  /\ window \in Windows
  /\ used \in [Identities -> [Windows -> Nat]]
  /\ inFlight \in Int
  /\ exchange \in [Requests -> Exchange]

Unfinished ==
  {r \in Requests : exchange[r].open /\ exchange[r].pc \notin {"new", "finished"}}
CutAfterEnd == {r \in Requests : At(r, "ended") /\ ~exchange[r].open}

(* The gauge counts the responses that are open and not finished, and none  *)
(* twice, whatever the order of end, finish and close; the one leak is a    *)
(* response cut after its end and before it was flushed.                    *)
GaugeCountsOpen ==
  inFlight = Cardinality(Unfinished) + Cardinality(CutAfterEnd)

Metering(i, w, gate) ==
  {r \in Requests :
     /\ exchange[r].gate = gate
     /\ exchange[r].bucket = w
     /\ Identity(r) = i}

(* However requests race, a window admits an identity's requests up to the  *)
(* limit, and while Redis answers it refuses none before that.              *)
WindowAdmitsItsLimit ==
  \A r \in Requests :
    LET i == Identity(r)
        w == exchange[r].bucket
    IN /\ exchange[r].gate = "counted" =>
            Cardinality(Metering(i, w, "counted")) <= LimitOf(r)
       /\ exchange[r].gate = "refused" /\ "redis" \notin faults =>
            Cardinality(Metering(i, w, "counted")) = LimitOf(r)

(* What reaches a service names the user of the verified token and nobody   *)
(* else: a public route names nobody, whatever the browser sent.            *)
ForwardedAsVerified ==
  \A r \in Requests :
    exchange[r].gate \in {"counted", "unmetered"} =>
      IF IsPublic(r) THEN exchange[r].userId = Nobody
      ELSE exchange[r].token \in Users /\ exchange[r].userId = exchange[r].token
=============================================================================

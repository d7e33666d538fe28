------------------------------ MODULE WebSession ------------------------------
(***************************************************************************)
(* The session of one browser tab: AuthProvider, tokens.ts and apiFetch    *)
(* with its shared refresh, against auth-service behind the gateway.       *)
(* The other tabs of the browser run the same code and meet this one only  *)
(* through localStorage, so they are what they may write there.            *)
(*                                                                         *)
(* A token is named by the account it was issued to.  A reload throws away *)
(* everything but localStorage: it is a new behaviour, from Init.          *)
(***************************************************************************)
EXTENDS FiniteSets

CONSTANTS
  Accounts,  \* the accounts people sign in to
  Pages,     \* the requests of queries and mutations that may be out at a time
  FaultModels,
  NoOne

Faults ==
  { "refused",   \* an answer is a 429 or a 5xx, or the refresh token has expired
    "network",   \* a fetch rejects, after the server acted on it or before
    "otherTab" } \* another tab of the browser signs in or out

ASSUME SessionAssumption ==
  /\ NoOne \notin Accounts
  /\ {"boot", "form"} \cap Pages = {}
  /\ FaultModels \subseteq SUBSET Faults

Calls == {"boot", "form"} \cup Pages

VARIABLES
  faults,    \* what may go wrong in this behaviour; never changes
  accounts,  \* the rows of users
  stored,    \* whose refresh token localStorage holds
  access,    \* whose access token this tab holds
  user,      \* whom AuthProvider shows as signed in
  loading,   \* the session check of boot has not settled
  refresh,   \* refreshInFlight: whose refresh token it sent, and its result
  call,      \* [Calls -> an apiFetch]
  crossed    \* history: a sign-in met an unfinished check or another tab

tab == <<access, user, loading, refresh, call>>
vars == <<faults, accounts, stored, tab, crossed>>

(* Whom a token names: sign puts the account in, verify reads it back. *)
Someone == Accounts \cup {NoOne}

(* as: whom the caller asks for, the account typed into a form or the user  *)
(* shown.  token: whose access token it carries, of those the gateway looks *)
(* at.  A call is "waiting" for the refresh, and "failing" while the body   *)
(* of its error is read.                                                    *)
Call ==
  [ pc : {"idle", "sent", "waiting", "resent", "failing"},
    kind : {"me", "login", "register", "api"},
    as : Someone,
    token : Someone ]

Refresh ==
  [pc : {"none"}, of : {NoOne}, ok : {FALSE}]
    \cup [pc : {"out"}, of : Accounts, ok : {FALSE}]
    \cup [pc : {"landed"}, of : {NoOne}, ok : BOOLEAN]

NoRefresh == [pc |-> "none", of |-> NoOne, ok |-> FALSE]
Idle == [pc |-> "idle", kind |-> "api", as |-> NoOne, token |-> NoOne]
Asked(kind, a, token) == [pc |-> "sent", kind |-> kind, as |-> a, token |-> token]

(* A tab opens: with a refresh token in store the boot effect asks for me. *)
Init ==
  /\ faults \in FaultModels
  /\ accounts \in SUBSET Accounts
  /\ stored \in accounts \cup {NoOne}
  /\ access = NoOne
  /\ user = NoOne
  /\ loading = (stored # NoOne)
  /\ refresh = NoRefresh
  /\ call = [c \in Calls |->
       IF c = "boot" /\ stored # NoOne
       THEN [Idle EXCEPT !.pc = "sent", !.kind = "me"] ELSE Idle]
  /\ crossed = FALSE

-----------------------------------------------------------------------------
Is(c, pc) == call[c].pc = pc
OnTheWire(c) == call[c].pc \in {"sent", "resent"}

Carried(c, token) == IF c = "form" THEN NoOne ELSE token

(* ProtectedRoute renders the pages. *)
SignedIn == user # NoOne /\ ~loading

(* A question that goes to the gateway.  One that the QueryClient answers   *)
(* from its cache, whosever it was filled for, makes no call.               *)
Ask(p) ==
  /\ p \in Pages
  /\ SignedIn
  /\ Is(p, "idle")
  /\ call' = [call EXCEPT ![p] = Asked("api", user, access)]
  /\ UNCHANGED <<faults, accounts, stored, access, user, loading, refresh, crossed>>

(* The forms are routes of their own, open to a tab in any state. *)
Submit ==
  /\ Is("form", "idle")
  /\ \E kind \in {"login", "register"}, a \in Accounts :
       call' = [call EXCEPT !["form"] = Asked(kind, a, NoOne)]
  /\ UNCHANGED <<faults, accounts, stored, access, user, loading, refresh, crossed>>

(* clearTokens and setUser(null); nothing that is out is called off. *)
Logout ==
  /\ SignedIn
  /\ access' = NoOne
  /\ stored' = NoOne
  /\ user' = NoOne
  /\ crossed' = (crossed /\ (refresh.pc = "out" \/ \E c \in Calls : ~Is(c, "idle")))
  /\ UNCHANGED <<faults, accounts, loading, refresh, call>>

-----------------------------------------------------------------------------
(* What the server makes of a call: the gateway verifies the access token  *)
(* of those that need one, which may have expired since it was issued, but *)
(* not one that a refresh has just brought; auth-service does the rest.  A *)
(* wrong password is answered as an unknown account is, on purpose.        *)
Welcome(c) ==
  LET x == call[c]
  IN CASE x.kind = "login" -> x.as \in accounts
       [] x.kind = "register" -> x.as \notin accounts
       [] OTHER -> x.token # NoOne
Unauthorized(c) ==
  LET x == call[c]
  IN CASE x.kind = "login" -> x.as \notin accounts
       [] x.kind = "register" -> FALSE
       [] OTHER -> x.token = NoOne \/ Is(c, "sent")

(* Registered by the call, if it is a register. *)
Registered(c) ==
  IF call[c].kind = "register" THEN accounts \cup {call[c].as} ELSE accounts

End(c) == call' = [call EXCEPT ![c] = Idle]

(* History: something begun for another account than a is still to end. *)
Unsettled(a) ==
  \/ refresh.pc = "out" /\ refresh.of # a
  \/ ~Is("boot", "idle")
  \/ \E p \in Pages : ~Is(p, "idle") /\ call[p].as # a

(* Mutant: adopt does not store the refresh token. *)
AdoptInMemory(a) ==
  /\ access' = a
  /\ stored' = IF stored = NoOne THEN a ELSE stored
  /\ user' = a
  /\ crossed' = (crossed \/ Unsettled(a))

(* adopt: a sign-in replaces both tokens and the user shown. *)
Adopt(a) ==
  /\ access' = a
  /\ stored' = a
  /\ user' = a
  /\ crossed' = (crossed \/ Unsettled(a))

(* A 2xx: login, register and boot act on it, a page has what it asked for. *)
Succeed(c) ==
  /\ OnTheWire(c)
  /\ Welcome(c)
  /\ End(c)
  /\ accounts' = Registered(c)
  /\ CASE c = "form" -> Adopt(call[c].as) /\ UNCHANGED loading
       [] c = "boot" -> /\ user' = call[c].token
                        /\ loading' = FALSE
                        /\ UNCHANGED <<stored, access, crossed>>
       [] OTHER -> UNCHANGED <<stored, access, user, loading, crossed>>
  /\ UNCHANGED <<faults, refresh>>

(* Mutant: an error of any call ends the session, not just one at boot. *)
ThrowEndsSession(c) ==
  /\ End(c)
  /\ access' = NoOne /\ stored' = NoOne
  /\ loading' = (loading /\ c # "boot")
  /\ UNCHANGED <<faults, user, refresh, crossed>>

(* apiFetch throws: a failed boot clears the tokens, a form shows the error. *)
Throw(c) ==
  /\ End(c)
  /\ IF c = "boot"
     THEN access' = NoOne /\ stored' = NoOne /\ loading' = FALSE
     ELSE UNCHANGED <<access, stored, loading>>
  /\ UNCHANGED <<faults, user, refresh, crossed>>

(* Any error but a first 401: a 409, a 429, a 5xx, a 401 after the replay, *)
(* or a fetch that rejects.                                                 *)
Fail(c) ==
  /\ OnTheWire(c)
  /\ \/ /\ call[c].kind = "register" /\ ~Welcome(c)
        /\ UNCHANGED accounts
     \/ Is(c, "resent") /\ Unauthorized(c) /\ UNCHANGED accounts
     \/ "refused" \in faults /\ UNCHANGED accounts
     \/ "network" \in faults /\ accounts' \in {accounts, Registered(c)}
  /\ Throw(c)

(* What a call does that awaits refreshInFlight, which keeps its result     *)
(* until the next tick.                                                     *)
Joined ==
  IF refresh.pc # "landed" THEN "waiting" ELSE IF refresh.ok THEN "resent" ELSE "failing"

GoOn(c, pc) ==
  call' = [call EXCEPT ![c] =
    [@ EXCEPT !.pc = pc, !.token = IF pc = "resent" THEN Carried(c, access) ELSE NoOne]]

(* Mutant: the refresh is sent without looking for a token first. *)
RefreshUnchecked(c) ==
  /\ Is(c, "sent") /\ Unauthorized(c)
  /\ refresh' = IF refresh.pc = "none" THEN [pc |-> "out", of |-> stored, ok |-> FALSE]
                ELSE refresh
  /\ GoOn(c, Joined)
  /\ UNCHANGED <<faults, accounts, stored, access, user, loading, crossed>>

(* A first 401: with a refresh token in store, start a refresh or join the *)
(* one there is.                                                            *)
RefreshAccessToken(c) ==
  /\ Is(c, "sent") /\ Unauthorized(c)
  /\ refresh' = IF stored # NoOne /\ refresh.pc = "none"
                THEN [pc |-> "out", of |-> stored, ok |-> FALSE] ELSE refresh
  /\ GoOn(c, IF stored = NoOne THEN "failing" ELSE Joined)
  /\ UNCHANGED <<faults, accounts, stored, access, user, loading, crossed>>

(* The body of the 401 has been read. *)
FailAfterRefresh(c) ==
  /\ Is(c, "failing")
  /\ Throw(c)
  /\ UNCHANGED accounts

(* TokensService.verify on a refresh token, which may have expired. *)
Verifies == IF "refused" \in faults THEN BOOLEAN ELSE {TRUE}

(* The answers to a refresh token of a: it verifies, and its account exists. *)
Refreshes(a) == {verified /\ a \in accounts : verified \in Verifies}

Landed(ok) == refresh' = [pc |-> "landed", of |-> NoOne, ok |-> ok]

(* Mutant: only one of the waiting calls is resumed. *)
ResumeOne(pc, token) ==
  \/ \E c \in Calls : /\ Is(c, "waiting")
                      /\ call' = [call EXCEPT ![c].pc = pc, ![c].token = Carried(c, token)]
  \/ (\A c \in Calls : ~Is(c, "waiting")) /\ call' = call

(* All that wait go on as one. *)
Resume(pc, token) ==
  call' = [c \in Calls |->
    IF Is(c, "waiting") THEN [call[c] EXCEPT !.pc = pc, !.token = Carried(c, token)]
    ELSE call[c]]

(* The answer to the refresh: whoever is signed in by now gets its token,  *)
(* and anything but a 2xx clears the tokens of whoever is signed in.        *)
Settle ==
  /\ refresh.pc = "out"
  /\ \/ /\ TRUE \in Refreshes(refresh.of)
        /\ Landed(TRUE)
        /\ Resume("resent", refresh.of)
        /\ access' = refresh.of
        /\ UNCHANGED stored
     \/ /\ FALSE \in Refreshes(refresh.of) \/ "refused" \in faults
        /\ Landed(FALSE)
        /\ Resume("failing", NoOne)
        /\ access' = NoOne /\ stored' = NoOne
     \/ /\ "network" \in faults
        /\ Landed(FALSE)
        /\ Resume("failing", NoOne)
        /\ UNCHANGED <<access, stored>>
  /\ UNCHANGED <<faults, accounts, user, loading, crossed>>

(* The setTimeout of 0 that forgets a settled refresh. *)
ForgetRefresh ==
  /\ refresh.pc = "landed"
  /\ refresh' = NoRefresh
  /\ UNCHANGED <<faults, accounts, stored, access, user, loading, call, crossed>>

(* Another tab signs in as a, or signs out or is signed out. *)
OtherTab ==
  /\ "otherTab" \in faults
  /\ UNCHANGED <<faults, accounts, tab>>
  /\ \E a \in accounts \cup {NoOne} :
       /\ stored' = a
       /\ crossed' = (crossed \/ (a # NoOne /\ (user \notin {NoOne, a} \/ Unsettled(a))))

Next ==
  \/ \E c \in Calls : \/ Ask(c) \/ Succeed(c) \/ Fail(c)
                      \/ RefreshAccessToken(c) \/ FailAfterRefresh(c)
  \/ Submit \/ Logout \/ Settle \/ ForgetRefresh \/ OtherTab

(* A fetch ends: the gateway answers within its proxy timeout, or the       *)
(* browser gives the connection up.  People owe nothing.                    *)
Fairness ==
  /\ WF_vars(Settle)
  /\ \A c \in Calls :
       /\ WF_vars(Succeed(c) \/ Fail(c) \/ RefreshAccessToken(c))
       /\ WF_vars(FailAfterRefresh(c))

Spec == Init /\ [][Next]_vars /\ Fairness

-----------------------------------------------------------------------------
TypeOK ==
  /\ faults \in FaultModels
  /\ accounts \subseteq Accounts
  /\ {stored, access, user} \subseteq Someone
  /\ {loading, crossed} \subseteq BOOLEAN
  /\ refresh \in Refresh
  /\ call \in [Calls -> Call]

(* A request that a page sends for the user it shows carries nobody else's  *)
(* token, first or replayed, through expiry, refreshes, sign-outs and       *)
(* sign-ins: unless a sign-in came while the session check, or a refresh or *)
(* a call of another account, was out, or another account signed in in      *)
(* another tab.  What the cache shows without a request is not its subject. *)
AskedAsShown ==
  \A p \in Pages : OnTheWire(p) /\ ~crossed => call[p].token \in {call[p].as, NoOne}

(* A session in store ends when its user signs out, when a refresh is       *)
(* refused, or when the check at boot fails; a mistyped password, an        *)
(* expired access token or an unreachable server do not end it.             *)
SessionIsKept ==
  [][ stored # NoOne /\ stored' = NoOne =>
        \/ user # NoOne /\ user' = NoOne
        \/ refresh.pc = "out" /\ refresh'.pc = "landed" /\ "refused" \in faults
        \/ ~Is("boot", "idle") /\ call'["boot"].pc = "idle" /\ faults # {}
        \/ "otherTab" \in faults /\ UNCHANGED tab ]_vars

(* Every call ends, those that wait for a refresh somebody else started as  *)
(* well, so the spinner of "Restoring your session" does too.               *)
CallsSettle ==
  /\ \A c \in Calls : ~Is(c, "idle") ~> Is(c, "idle")
  /\ loading ~> ~loading
=============================================================================

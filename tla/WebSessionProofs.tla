--------------------------- MODULE WebSessionProofs ---------------------------
(***************************************************************************)
(* Proofs about WebSession for every set of accounts and pages, and every  *)
(* combination of faults.                                                  *)
(***************************************************************************)
EXTENDS WebSession, TLAPS

Busy(c) == ~Is(c, "idle")

Kinds == {"me", "login", "register", "api"}
CallPC == {"idle", "sent", "waiting", "resent", "failing"}

-----------------------------------------------------------------------------
(* Lemmas on the calls and the refresh. *)

LEMMA CallNames ==
  /\ "boot" \in Calls /\ "form" \in Calls /\ Pages \subseteq Calls
  /\ "boot" \notin Pages /\ "form" \notin Pages /\ "boot" # "form"
  /\ \A c \in Calls : c = "boot" \/ c = "form" \/ c \in Pages
BY SessionAssumption DEF Calls

LEMMA CallFields ==
  ASSUME NEW x \in Call
  PROVE  x.pc \in CallPC /\ x.kind \in Kinds /\ x.as \in Someone /\ x.token \in Someone
BY DEF Call, CallPC, Kinds

LEMMA IdleCall ==
  Idle \in Call /\ Idle.pc = "idle" /\ Idle.kind = "api" /\ Idle.as = NoOne /\ Idle.token = NoOne
BY DEF Idle, Call, Someone

LEMMA AskedCall ==
  ASSUME NEW kind \in Kinds, NEW a \in Someone, NEW t \in Someone
  PROVE  LET x == Asked(kind, a, t)
         IN x \in Call /\ x.pc = "sent" /\ x.kind = kind /\ x.as = a /\ x.token = t
BY DEF Asked, Call, Kinds

(* A call that moves on for its caller. *)
Moved(x, p, t) == [x EXCEPT !.pc = p, !.token = t]

LEMMA MovedCall ==
  ASSUME NEW x \in Call, NEW p \in CallPC, NEW t \in Someone
  PROVE  /\ Moved(x, p, t) \in Call
         /\ Moved(x, p, t).pc = p /\ Moved(x, p, t).kind = x.kind
         /\ Moved(x, p, t).as = x.as /\ Moved(x, p, t).token = t
BY DEF Call, CallPC, Moved

LEMMA OneCallChanges ==
  ASSUME call \in [Calls -> Call], NEW c \in Calls, NEW x \in Call,
         call' = [call EXCEPT ![c] = x]
  PROVE  /\ call' \in [Calls -> Call] /\ call'[c] = x
         /\ \A d \in Calls : d # c => call'[d] = call[d]
OBVIOUS

LEMMA RefreshFields ==
  ASSUME refresh \in Refresh
  PROVE  /\ refresh.pc \in {"none", "out", "landed"}
         /\ refresh.of \in Someone /\ refresh.ok \in BOOLEAN
         /\ refresh.pc = "out" => refresh.of \in Accounts
BY DEF Refresh, Someone

LEMMA RefreshSent ==
  ASSUME NEW a \in Accounts
  PROVE  LET x == [pc |-> "out", of |-> a, ok |-> FALSE]
         IN x \in Refresh /\ x.pc = "out" /\ x.of = a
BY DEF Refresh

LEMMA RefreshLanded ==
  ASSUME NEW ok \in BOOLEAN, Landed(ok)
  PROVE  refresh' \in Refresh /\ refresh'.pc = "landed" /\ refresh'.ok = ok
BY DEF Landed, Refresh

LEMMA NoRefreshType == NoRefresh \in Refresh /\ NoRefresh.pc = "none"
BY DEF NoRefresh, Refresh

LEMMA CarriedIs ==
  ASSUME NEW c \in Calls, NEW t \in Someone
  PROVE  /\ Carried(c, t) \in {t, NoOne} /\ Carried(c, t) \in Someone
         /\ c # "form" => Carried(c, t) = t
BY DEF Carried, Someone

-----------------------------------------------------------------------------
(* The effect of every step, field by field. *)

LEMMA AskEffect ==
  ASSUME TypeOK, NEW p \in Calls, Ask(p)
  PROVE  /\ p \in Pages /\ SignedIn
         /\ call' \in [Calls -> Call]
         /\ call'[p].pc = "sent" /\ call'[p].kind = "api"
         /\ call'[p].as = user /\ call'[p].token = access
         /\ \A d \in Calls : d # p => call'[d] = call[d]
         /\ UNCHANGED <<faults, accounts, stored, access, user, loading, refresh, crossed>>
<1>1. user \in Someone /\ access \in Someone /\ call \in [Calls -> Call]
  BY DEF TypeOK
<1>2. LET x == Asked("api", user, access)
      IN x \in Call /\ x.pc = "sent" /\ x.kind = "api" /\ x.as = user /\ x.token = access
  BY <1>1, AskedCall DEF Kinds
<1>3. call' = [call EXCEPT ![p] = Asked("api", user, access)]
  BY DEF Ask
<1>4. call' \in [Calls -> Call] /\ call'[p] = Asked("api", user, access)
      /\ \A d \in Calls : d # p => call'[d] = call[d]
  BY <1>1, <1>2, <1>3, OneCallChanges
<1> QED
  BY <1>2, <1>4 DEF Ask

LEMMA SubmitEffect ==
  ASSUME TypeOK, Submit
  PROVE  /\ call' \in [Calls -> Call]
         /\ call'["form"].kind \in {"login", "register"} /\ call'["form"].as \in Accounts
         /\ call'["form"].pc = "sent"
         /\ \A d \in Calls : d # "form" => call'[d] = call[d]
         /\ UNCHANGED <<faults, accounts, stored, access, user, loading, refresh, crossed>>
<1>1. PICK kind \in {"login", "register"}, a \in Accounts :
        call' = [call EXCEPT !["form"] = Asked(kind, a, NoOne)]
  BY DEF Submit
<1>2. LET x == Asked(kind, a, NoOne)
      IN x \in Call /\ x.pc = "sent" /\ x.kind = kind /\ x.as = a
  BY AskedCall DEF Kinds, Someone
<1>3. call' \in [Calls -> Call] /\ call'["form"] = Asked(kind, a, NoOne)
      /\ \A d \in Calls : d # "form" => call'[d] = call[d]
  BY <1>1, <1>2, OneCallChanges, CallNames DEF TypeOK
<1> QED
  BY <1>2, <1>3 DEF Submit

LEMMA EndEffect ==
  ASSUME TypeOK, NEW c \in Calls, End(c)
  PROVE  /\ call' \in [Calls -> Call]
         /\ call'[c] = Idle
         /\ \A d \in Calls : d # c => call'[d] = call[d]
BY IdleCall, OneCallChanges DEF End, TypeOK

(* What refreshAccessToken leaves of a call that met a 401. *)
LEMMA RefreshAccessTokenEffect ==
  ASSUME TypeOK, NEW c \in Calls, RefreshAccessToken(c)
  PROVE  /\ Is(c, "sent") /\ Unauthorized(c)
         /\ UNCHANGED <<faults, accounts, stored, access, user, loading, crossed>>
         /\ refresh' \in Refresh
         /\ \/ refresh' = refresh
            \/ stored # NoOne /\ refresh'.pc = "out" /\ refresh'.of = stored
         /\ call' \in [Calls -> Call]
         /\ \A d \in Calls : d # c => call'[d] = call[d]
         /\ call'[c].kind = call[c].kind /\ call'[c].as = call[c].as
         /\ \/ /\ call'[c].pc = "failing" /\ call'[c].token = NoOne
               /\ stored = NoOne \/ (refresh.pc = "landed" /\ ~refresh.ok)
            \/ call'[c].pc = "waiting" /\ call'[c].token = NoOne
            \/ /\ call'[c].pc = "resent" /\ call'[c].token = Carried(c, access)
               /\ refresh.pc = "landed" /\ refresh.ok
<1>1. /\ call \in [Calls -> Call] /\ call[c] \in Call /\ refresh \in Refresh
      /\ stored \in Someone /\ access \in Someone
  BY DEF TypeOK
<1>2. /\ refresh' \in Refresh
      /\ \/ refresh' = refresh
         \/ stored # NoOne /\ refresh'.pc = "out" /\ refresh'.of = stored
  <2>1. CASE stored # NoOne /\ refresh.pc = "none"
    <3>1. stored \in Accounts
      BY <1>1, <2>1 DEF Someone
    <3> QED
      BY <2>1, <3>1, RefreshSent DEF RefreshAccessToken
  <2>2. CASE ~(stored # NoOne /\ refresh.pc = "none")
    BY <1>1, <2>2 DEF RefreshAccessToken
  <2> QED
    BY <2>1, <2>2
<1>3. PICK p \in CallPC, t \in Someone :
        /\ call' = [call EXCEPT ![c] = Moved(call[c], p, t)]
        /\ \/ /\ p = "failing" /\ t = NoOne
              /\ stored = NoOne \/ (refresh.pc = "landed" /\ ~refresh.ok)
           \/ p = "waiting" /\ t = NoOne
           \/ /\ p = "resent" /\ t = Carried(c, access)
              /\ refresh.pc = "landed" /\ refresh.ok
  <2> DEFINE pc == IF stored = NoOne THEN "failing" ELSE Joined
             token == IF pc = "resent" THEN Carried(c, access) ELSE NoOne
  <2>1. call' = [call EXCEPT ![c] = Moved(call[c], pc, token)]
    BY DEF RefreshAccessToken, GoOn, Moved
  <2>2. /\ pc \in {"failing", "waiting", "resent"}
        /\ pc = "failing" => stored = NoOne \/ (refresh.pc = "landed" /\ ~refresh.ok)
        /\ pc = "resent" => refresh.pc = "landed" /\ refresh.ok
    BY DEF Joined
  <2> HIDE DEF pc
  <2>3. NoOne \in Someone /\ Carried(c, access) \in Someone
    BY <1>1, CarriedIs DEF Someone
  <2>4. pc \in CallPC /\ token \in Someone
    BY <2>2, <2>3 DEF CallPC
  <2> QED
    BY <2>1, <2>2, <2>4
<1>4. Moved(call[c], p, t) \in Call
  BY <1>1, MovedCall
<1>5. /\ call' \in [Calls -> Call] /\ call'[c] = Moved(call[c], p, t)
      /\ \A d \in Calls : d # c => call'[d] = call[d]
  BY <1>1, <1>3, <1>4, OneCallChanges
<1>6. /\ call'[c].pc = p /\ call'[c].kind = call[c].kind
      /\ call'[c].as = call[c].as /\ call'[c].token = t
  BY <1>1, <1>5, MovedCall
<1> QED
  BY <1>2, <1>3, <1>5, <1>6 DEF RefreshAccessToken

(* The calls that wait go on together, and no other moves. *)
LEMMA ResumeEffect ==
  ASSUME TypeOK, NEW p \in CallPC, NEW t \in Someone, Resume(p, t)
  PROVE  /\ call' \in [Calls -> Call]
         /\ \A c \in Calls : call'[c].kind = call[c].kind /\ call'[c].as = call[c].as
         /\ \A c \in Calls : ~Is(c, "waiting") => call'[c] = call[c]
         /\ \A c \in Calls : Is(c, "waiting") =>
              call'[c].pc = p /\ call'[c].token = Carried(c, t)
<1>1. ASSUME NEW c \in Calls, Is(c, "waiting")
      PROVE  /\ call'[c] \in Call
             /\ call'[c].kind = call[c].kind /\ call'[c].as = call[c].as
             /\ call'[c].pc = p /\ call'[c].token = Carried(c, t)
  <2>1. call'[c] = Moved(call[c], p, Carried(c, t))
    BY <1>1 DEF Resume, Moved
  <2>2. call[c] \in Call /\ Carried(c, t) \in Someone
    BY CarriedIs DEF TypeOK
  <2> QED
    BY <2>1, <2>2, MovedCall
<1>2. ASSUME NEW c \in Calls, ~Is(c, "waiting") PROVE call'[c] = call[c] /\ call[c] \in Call
  BY <1>2 DEF Resume, TypeOK
<1>3. call' = [c \in Calls |-> call'[c]]
  BY DEF Resume
<1>4. call' \in [Calls -> Call]
  BY <1>1, <1>2, <1>3
<1> QED
  BY <1>1, <1>2, <1>4

-----------------------------------------------------------------------------
(* What holds whatever goes wrong.  The session check at boot comes first,  *)
(* with a token or with a refresh; a refresh is of an account there is.     *)

KindsOK ==
  /\ Busy("form") => call["form"].kind \in {"login", "register"} /\ call["form"].as \in Accounts
  /\ Busy("boot") => call["boot"].kind = "me"
  /\ \A p \in Pages : call[p].kind = "api"
AccountsKnown ==
  /\ stored \in accounts \cup {NoOne}
  /\ refresh.pc = "out" => refresh.of \in accounts
BootFirst == Busy("boot") => loading /\ \A p \in Pages : ~Busy(p)
BootTokens ==
  Busy("boot") =>
    /\ Is("boot", "resent") => call["boot"].token # NoOne
    /\ refresh.pc = "landed" /\ refresh.ok => access # NoOne
FlawlessBoot ==
  faults = {} =>
    /\ refresh.pc = "landed" => refresh.ok
    /\ Busy("boot") => stored # NoOne /\ ~Is("boot", "failing")

SessionInv == TypeOK /\ KindsOK /\ AccountsKnown /\ BootFirst /\ BootTokens /\ FlawlessBoot

LEMMA TypeFacts ==
  ASSUME TypeOK
  PROVE  /\ faults \subseteq Faults
         /\ stored \in Someone /\ access \in Someone /\ user \in Someone
         /\ loading \in BOOLEAN /\ crossed \in BOOLEAN
         /\ refresh \in Refresh /\ call \in [Calls -> Call]
BY SessionAssumption DEF TypeOK

LEMMA TypesTogether ==
  ASSUME faults \in FaultModels, accounts \subseteq Accounts,
         stored \in Someone, access \in Someone, user \in Someone,
         loading \in BOOLEAN, crossed \in BOOLEAN,
         refresh \in Refresh, call \in [Calls -> Call]
  PROVE  TypeOK
BY DEF TypeOK

(* What the server does to the accounts. *)
LEMMA RegisteredIs ==
  ASSUME TypeOK, KindsOK, NEW c \in Calls, OnTheWire(c)
  PROVE  /\ accounts \subseteq Registered(c) /\ Registered(c) \subseteq Accounts
         /\ c # "form" => Registered(c) = accounts
<1>1. Busy(c)
  BY DEF OnTheWire, Busy, Is
<1>2. call[c].kind = "register" => c = "form" /\ call[c].as \in Accounts
  BY <1>1, CallNames DEF KindsOK
<1> QED
  BY <1>2 DEF Registered, TypeOK

(* A call that is answered is one that was sent. *)
LEMMA SucceedEffect ==
  ASSUME TypeOK, KindsOK, NEW c \in Calls, Succeed(c)
  PROVE  /\ Busy(c) /\ OnTheWire(c)
         /\ call' \in [Calls -> Call] /\ call'[c] = Idle
         /\ \A d \in Calls : d # c => call'[d] = call[d]
         /\ UNCHANGED <<faults, refresh>>
         /\ accounts \subseteq accounts' /\ accounts' \subseteq Accounts
         /\ \/ /\ c = "form" /\ call[c].as \in accounts' /\ Adopt(call[c].as)
               /\ UNCHANGED loading
            \/ /\ c = "boot" /\ call[c].token # NoOne
               /\ user' = call[c].token /\ ~loading' /\ loading' \in BOOLEAN
               /\ UNCHANGED <<stored, access, crossed>>
            \/ c \in Pages /\ UNCHANGED <<stored, access, user, loading, crossed>>
<1>1. OnTheWire(c) /\ Welcome(c) /\ End(c) /\ accounts' = Registered(c) /\ UNCHANGED <<faults, refresh>>
  BY DEF Succeed
<1>2. Busy(c)
  BY <1>1 DEF OnTheWire, Busy, Is
<1>3. accounts \subseteq accounts' /\ accounts' \subseteq Accounts
  BY <1>1, RegisteredIs
<1>4. CASE c = "form"
  <2>1. Adopt(call[c].as) /\ UNCHANGED loading
    BY <1>4, CallNames DEF Succeed
  <2>2. call[c].as \in accounts'
    <3>1. CASE call[c].kind = "login"
      BY <1>1, <1>3, <3>1 DEF Welcome
    <3>2. CASE call[c].kind = "register"
      BY <1>1, <3>2 DEF Registered
    <3> QED
      BY <1>2, <1>4, <3>1, <3>2 DEF KindsOK
  <2> QED
    BY <1>1, <1>2, <1>3, <1>4, <2>1, <2>2, EndEffect
<1>5. CASE c = "boot"
  <2>1. call[c].kind = "me"
    BY <1>2, <1>5 DEF KindsOK
  <2>2. call[c].token # NoOne
    BY <1>1, <2>1 DEF Welcome
  <2>3. user' = call[c].token /\ loading' = FALSE /\ UNCHANGED <<stored, access, crossed>>
    BY <1>5, CallNames DEF Succeed
  <2> QED
    BY <1>1, <1>2, <1>3, <1>5, <2>2, <2>3, EndEffect
<1>6. CASE c \in Pages
  <2>1. UNCHANGED <<stored, access, user, loading, crossed>>
    BY <1>6, CallNames DEF Succeed
  <2> QED
    BY <1>1, <1>2, <1>3, <1>6, <2>1, EndEffect
<1> QED
  BY <1>4, <1>5, <1>6, CallNames

(* A call that throws: only the one at boot takes the session with it, and *)
(* only where something may go wrong.                                      *)
LEMMA ThrowEffect ==
  ASSUME SessionInv, NEW c \in Calls, Fail(c) \/ FailAfterRefresh(c)
  PROVE  /\ Busy(c)
         /\ call' \in [Calls -> Call] /\ call'[c] = Idle
         /\ \A d \in Calls : d # c => call'[d] = call[d]
         /\ UNCHANGED <<faults, user, refresh, crossed>>
         /\ accounts \subseteq accounts' /\ accounts' \subseteq Accounts
         /\ \/ c # "boot" /\ UNCHANGED <<access, stored, loading>>
            \/ /\ c = "boot" /\ faults # {}
               /\ access' = NoOne /\ stored' = NoOne /\ ~loading' /\ loading' \in BOOLEAN
<1>1. Throw(c)
  BY DEF Fail, FailAfterRefresh
<1>2. Busy(c)
  BY DEF Fail, FailAfterRefresh, OnTheWire, Busy, Is
<1>3. End(c) /\ UNCHANGED <<faults, user, refresh, crossed>>
  BY <1>1 DEF Throw
<1>4. accounts \subseteq accounts' /\ accounts' \subseteq Accounts
  <2>1. CASE FailAfterRefresh(c)
    BY <2>1 DEF FailAfterRefresh, SessionInv, TypeOK
  <2>2. CASE Fail(c)
    <3>1. OnTheWire(c) /\ accounts' \in {accounts, Registered(c)}
      BY <2>2 DEF Fail
    <3>2. accounts \subseteq Registered(c) /\ Registered(c) \subseteq Accounts
      BY <3>1, RegisteredIs DEF SessionInv
    <3> QED
      BY <3>1, <3>2 DEF SessionInv, TypeOK
  <2> QED
    BY <2>1, <2>2
<1>5. ASSUME c = "boot" PROVE faults # {}
  <2>1. CASE FailAfterRefresh(c)
    BY <1>2, <1>5, <2>1 DEF FailAfterRefresh, SessionInv, FlawlessBoot
  <2>2. CASE Fail(c)
    <3>1. call[c].kind = "me"
      BY <1>2, <1>5 DEF SessionInv, KindsOK
    <3>2. ~(Is(c, "resent") /\ Unauthorized(c))
      BY <1>2, <1>5, <3>1 DEF SessionInv, BootTokens, Unauthorized, Is
    <3> QED
      BY <2>2, <3>1, <3>2 DEF Fail
  <2> QED
    BY <2>1, <2>2
<1>6. call' \in [Calls -> Call] /\ call'[c] = Idle /\ \A d \in Calls : d # c => call'[d] = call[d]
  BY <1>3, EndEffect DEF SessionInv
<1>7. CASE c = "boot"
  BY <1>1, <1>2, <1>3, <1>4, <1>5, <1>6, <1>7 DEF Throw
<1>8. CASE c # "boot"
  BY <1>1, <1>2, <1>3, <1>4, <1>6, <1>8 DEF Throw
<1> QED
  BY <1>7, <1>8

(* The three answers a refresh may get. *)
LEMMA SettleEffect ==
  ASSUME SessionInv, Settle
  PROVE  /\ refresh.pc = "out" /\ refresh.of \in accounts
         /\ refresh' \in Refresh /\ refresh'.pc = "landed"
         /\ UNCHANGED <<faults, accounts, user, loading, crossed>>
         /\ \/ /\ refresh'.ok /\ access' = refresh.of /\ stored' = stored
               /\ Resume("resent", refresh.of)
            \/ /\ ~refresh'.ok /\ access' = NoOne /\ stored' = NoOne /\ "refused" \in faults
               /\ Resume("failing", NoOne)
            \/ /\ ~refresh'.ok /\ UNCHANGED <<access, stored>> /\ "network" \in faults
               /\ Resume("failing", NoOne)
<1>1. refresh.pc = "out" /\ refresh.of \in accounts
  BY DEF Settle, SessionInv, AccountsKnown
<1>2. FALSE \in Refreshes(refresh.of) => "refused" \in faults
  BY <1>1 DEF Refreshes, Verifies
<1>3. UNCHANGED <<faults, accounts, user, loading, crossed>>
  BY DEF Settle
<1>4. CASE /\ Landed(TRUE) /\ Resume("resent", refresh.of)
           /\ access' = refresh.of /\ UNCHANGED stored
  BY <1>1, <1>3, <1>4, RefreshLanded
<1>5. CASE /\ FALSE \in Refreshes(refresh.of) \/ "refused" \in faults
           /\ Landed(FALSE) /\ Resume("failing", NoOne)
           /\ access' = NoOne /\ stored' = NoOne
  BY <1>1, <1>2, <1>3, <1>5, RefreshLanded
<1>6. CASE /\ "network" \in faults /\ Landed(FALSE) /\ Resume("failing", NoOne)
           /\ UNCHANGED <<access, stored>>
  BY <1>1, <1>3, <1>6, RefreshLanded
<1> QED
  BY <1>4, <1>5, <1>6 DEF Settle

-----------------------------------------------------------------------------
(* The parts of SessionInv for the next state, from the fields of the calls *)
(* rather than from the expressions that built them.                       *)

LEMMA SessionInit == Init => SessionInv
<1> SUFFICES ASSUME Init PROVE SessionInv
  OBVIOUS
<1>1. \A c \in Calls : call[c] = IF c = "boot" /\ stored # NoOne
                                 THEN [Idle EXCEPT !.pc = "sent", !.kind = "me"] ELSE Idle
  BY DEF Init
<1>2. LET x == [Idle EXCEPT !.pc = "sent", !.kind = "me"]
      IN x \in Call /\ x.pc = "sent" /\ x.kind = "me" /\ x.token = NoOne
  BY DEF Idle, Call, Someone
<1>3. call \in [Calls -> Call]
  <2>1. \A c \in Calls : call[c] \in Call
    BY <1>1, <1>2, IdleCall
  <2> QED
    BY <2>1 DEF Init
<1>4. /\ Busy("boot") => stored # NoOne /\ Is("boot", "sent") /\ call["boot"].kind = "me"
      /\ \A c \in Calls : c # "boot" => ~Busy(c) /\ call[c].kind = "api"
  BY <1>1, <1>2, IdleCall, CallNames DEF Busy, Is
<1>5. refresh.pc = "none"
  BY NoRefreshType DEF Init
<1>6. /\ faults \in FaultModels /\ accounts \subseteq Accounts /\ stored \in accounts \cup {NoOne}
      /\ access = NoOne /\ user = NoOne /\ loading = (stored # NoOne) /\ crossed = FALSE
      /\ refresh \in Refresh
  BY NoRefreshType DEF Init
<1>7. TypeOK
  <2>1. stored \in Someone /\ access \in Someone /\ user \in Someone
    BY <1>6 DEF Someone
  <2> QED
    BY <1>3, <1>6, <2>1, TypesTogether
<1>8. KindsOK /\ AccountsKnown
  BY <1>4, <1>5, <1>6, CallNames DEF KindsOK, AccountsKnown
<1>9. BootFirst /\ BootTokens /\ FlawlessBoot
  BY <1>4, <1>5, <1>6, CallNames DEF BootFirst, BootTokens, FlawlessBoot, Is
<1> QED
  BY <1>7, <1>8, <1>9 DEF SessionInv

(* The calls of the next state are of the kinds they were, or just begun. *)
LEMMA KindsKept ==
  ASSUME SessionInv,
         \A c \in Calls :
           \/ call'[c].kind = call[c].kind /\ call'[c].as = call[c].as
              /\ (call'[c].pc # "idle" => Busy(c))
           \/ call'[c] = Idle
           \/ c \in Pages /\ call'[c].kind = "api"
           \/ c = "form" /\ call'[c].kind \in {"login", "register"} /\ call'[c].as \in Accounts
  PROVE  KindsOK'
BY CallNames, IdleCall DEF SessionInv, KindsOK, Busy, Is

LEMMA SessionStep == SessionInv /\ [Next]_vars => SessionInv'
<1> SUFFICES ASSUME SessionInv, [Next]_vars PROVE SessionInv'
  OBVIOUS
<1>t. /\ TypeOK /\ faults \subseteq Faults /\ accounts \subseteq Accounts
      /\ stored \in Someone /\ access \in Someone /\ user \in Someone
      /\ loading \in BOOLEAN /\ crossed \in BOOLEAN
      /\ refresh \in Refresh /\ call \in [Calls -> Call] /\ faults \in FaultModels
      /\ NoOne \notin Accounts
  BY TypeFacts, SessionAssumption DEF SessionInv, TypeOK
<1>k. KindsOK /\ AccountsKnown /\ BootFirst /\ BootTokens /\ FlawlessBoot
  BY DEF SessionInv
<1>1. ASSUME NEW p \in Calls, Ask(p) PROVE SessionInv'
  <2>1. /\ p \in Pages /\ user # NoOne /\ ~loading
        /\ call' \in [Calls -> Call]
        /\ call'[p].pc = "sent" /\ call'[p].kind = "api"
        /\ \A d \in Calls : d # p => call'[d] = call[d]
        /\ UNCHANGED <<faults, accounts, stored, access, user, loading, refresh, crossed>>
    BY <1>1, <1>t, AskEffect DEF SignedIn
  <2>2. ~Busy("boot") /\ call'["boot"] = call["boot"]
    BY <1>k, <2>1, CallNames DEF BootFirst
  <2>3. TypeOK'
    BY <1>t, <2>1 DEF TypeOK
  <2>4. KindsOK'
    BY <2>1, KindsKept DEF Busy, Is
  <2>5. AccountsKnown'
    BY <1>k, <2>1 DEF AccountsKnown
  <2>6. BootFirst' /\ BootTokens' /\ FlawlessBoot'
    BY <1>k, <2>1, <2>2 DEF BootFirst, BootTokens, FlawlessBoot, Busy, Is
  <2> QED
    BY <2>3, <2>4, <2>5, <2>6 DEF SessionInv
<1>2. ASSUME Submit PROVE SessionInv'
  <2>1. /\ call' \in [Calls -> Call]
        /\ call'["form"].kind \in {"login", "register"} /\ call'["form"].as \in Accounts
        /\ \A d \in Calls : d # "form" => call'[d] = call[d]
        /\ UNCHANGED <<faults, accounts, stored, access, user, loading, refresh, crossed>>
    BY <1>2, <1>t, SubmitEffect
  <2>2. call'["boot"] = call["boot"] /\ \A p \in Pages : call'[p] = call[p]
    BY <2>1, CallNames
  <2>3. TypeOK'
    BY <1>t, <2>1 DEF TypeOK
  <2>4. KindsOK'
    BY <2>1, KindsKept DEF Busy, Is
  <2>5. AccountsKnown'
    BY <1>k, <2>1 DEF AccountsKnown
  <2>6. BootFirst' /\ BootTokens' /\ FlawlessBoot'
    BY <1>k, <2>1, <2>2 DEF BootFirst, BootTokens, FlawlessBoot, Busy, Is
  <2> QED
    BY <2>3, <2>4, <2>5, <2>6 DEF SessionInv
<1>3. ASSUME NEW c \in Calls, Succeed(c) PROVE SessionInv'
  <2>1. /\ Busy(c)
        /\ call' \in [Calls -> Call] /\ call'[c] = Idle
        /\ \A d \in Calls : d # c => call'[d] = call[d]
        /\ UNCHANGED <<faults, refresh>>
        /\ accounts \subseteq accounts' /\ accounts' \subseteq Accounts
    BY <1>3, <1>t, <1>k, SucceedEffect
  <2>2. \/ /\ c = "form" /\ call[c].as \in accounts' /\ UNCHANGED loading
           /\ access' = call[c].as /\ stored' = call[c].as /\ user' = call[c].as
           /\ crossed' \in BOOLEAN
        \/ /\ c = "boot" /\ user' = call[c].token /\ ~loading' /\ loading' \in BOOLEAN
           /\ UNCHANGED <<stored, access, crossed>>
        \/ c \in Pages /\ UNCHANGED <<stored, access, user, loading, crossed>>
    <3>1. Adopt(call[c].as) => /\ access' = call[c].as /\ stored' = call[c].as /\ user' = call[c].as
                               /\ crossed' \in BOOLEAN
      BY DEF Adopt
    <3> HIDE DEF Adopt
    <3> QED
      BY <1>3, <1>t, <1>k, <3>1, SucceedEffect
  <2>3. Idle.pc = "idle"
    BY IdleCall
  <2>4. call[c].token \in Someone
    BY <1>t, CallFields
  <2>5. TypeOK'
    <3>1. stored' \in Someone /\ access' \in Someone /\ user' \in Someone
      BY <1>t, <2>1, <2>2, <2>4 DEF Someone
    <3>2. loading' \in BOOLEAN /\ crossed' \in BOOLEAN
      BY <1>t, <2>2
    <3> QED
      BY <1>t, <2>1, <3>1, <3>2 DEF TypeOK
  <2>6. KindsOK'
    BY <2>1, KindsKept DEF Busy, Is
  <2>7. AccountsKnown'
    BY <1>k, <2>1, <2>2 DEF AccountsKnown
  <2>8. BootFirst' /\ BootTokens' /\ FlawlessBoot'
    <3>1. CASE c = "boot"
      BY <1>k, <2>1, <2>3, <3>1 DEF BootFirst, BootTokens, FlawlessBoot, Busy, Is
    <3>2. CASE c = "form"
      <4>1. loading' = loading /\ access' # NoOne /\ stored' # NoOne
        BY <1>t, <2>1, <2>2, <3>2, CallNames
      <4>2. call'["boot"] = call["boot"] /\ \A p \in Pages : call'[p] = call[p]
        BY <2>1, <3>2, CallNames
      <4> QED
        BY <1>k, <2>1, <4>1, <4>2 DEF BootFirst, BootTokens, FlawlessBoot, Busy, Is
    <3>3. CASE c \in Pages
      BY <1>k, <2>1, <2>2, <2>3, <3>3, CallNames DEF BootFirst, BootTokens, FlawlessBoot, Busy, Is
    <3> QED
      BY <3>1, <3>2, <3>3, CallNames
  <2> QED
    BY <2>5, <2>6, <2>7, <2>8 DEF SessionInv
<1>4. ASSUME NEW c \in Calls, Fail(c) \/ FailAfterRefresh(c) PROVE SessionInv'
  <2>1. /\ Busy(c)
        /\ call' \in [Calls -> Call] /\ call'[c] = Idle
        /\ \A d \in Calls : d # c => call'[d] = call[d]
        /\ UNCHANGED <<faults, user, refresh, crossed>>
        /\ accounts \subseteq accounts' /\ accounts' \subseteq Accounts
        /\ \/ c # "boot" /\ UNCHANGED <<access, stored, loading>>
           \/ /\ c = "boot"
              /\ access' = NoOne /\ stored' = NoOne /\ ~loading' /\ loading' \in BOOLEAN
    BY <1>4, ThrowEffect
  <2>2. Idle.pc = "idle"
    BY IdleCall
  <2>3. TypeOK'
    <3>1. stored' \in Someone /\ access' \in Someone /\ loading' \in BOOLEAN
      BY <1>t, <2>1 DEF Someone
    <3> QED
      BY <1>t, <2>1, <3>1 DEF TypeOK
  <2>4. KindsOK'
    BY <2>1, KindsKept DEF Busy, Is
  <2>5. AccountsKnown'
    BY <1>k, <2>1 DEF AccountsKnown
  <2>6. BootFirst' /\ BootTokens' /\ FlawlessBoot'
    <3>1. CASE c = "boot"
      BY <1>k, <2>1, <2>2, <3>1 DEF BootFirst, BootTokens, FlawlessBoot, Busy, Is
    <3>2. CASE c # "boot"
      <4>1. /\ call'["boot"] = call["boot"]
            /\ \A p \in Pages : call'[p] = call[p] \/ call'[p].pc = "idle"
        BY <2>1, <2>2, <3>2, CallNames
      <4> QED
        BY <1>k, <2>1, <3>2, <4>1 DEF BootFirst, BootTokens, FlawlessBoot, Busy, Is
    <3> QED
      BY <3>1, <3>2
  <2> QED
    BY <2>3, <2>4, <2>5, <2>6 DEF SessionInv
<1>5. ASSUME NEW c \in Calls, RefreshAccessToken(c) PROVE SessionInv'
  <2>1. /\ Is(c, "sent")
        /\ UNCHANGED <<faults, accounts, stored, access, user, loading, crossed>>
        /\ refresh' \in Refresh
        /\ \/ refresh' = refresh
           \/ stored # NoOne /\ refresh'.pc = "out" /\ refresh'.of = stored
        /\ call' \in [Calls -> Call]
        /\ \A d \in Calls : d # c => call'[d] = call[d]
        /\ call'[c].kind = call[c].kind /\ call'[c].as = call[c].as
    BY <1>5, <1>t, RefreshAccessTokenEffect
  <2>2. \/ /\ call'[c].pc = "failing"
           /\ stored = NoOne \/ (refresh.pc = "landed" /\ ~refresh.ok)
        \/ call'[c].pc = "waiting"
        \/ /\ call'[c].pc = "resent" /\ call'[c].token = Carried(c, access)
           /\ refresh.pc = "landed" /\ refresh.ok
    BY <1>5, <1>t, RefreshAccessTokenEffect
  <2>3. Busy(c)
    BY <2>1 DEF Busy, Is
  <2>4. TypeOK'
    BY <1>t, <2>1 DEF TypeOK
  <2>5. KindsOK'
    BY <2>1, <2>3, KindsKept DEF Busy, Is
  <2>6. AccountsKnown'
    BY <1>k, <2>1 DEF AccountsKnown
  <2>7. BootFirst'
    BY <1>k, <2>1, <2>3, CallNames DEF BootFirst, Busy, Is
  <2>8. BootTokens'
    <3>1. Busy("boot")' => Busy("boot")
      BY <2>1, <2>3, CallNames DEF Busy, Is
    <3>2. Is("boot", "resent")' /\ Busy("boot") => call["boot"].token' # NoOne
      <4>1. CASE c = "boot"
        BY <1>t, <1>k, <2>2, <4>1, CarriedIs, CallNames DEF BootTokens, Is
      <4>2. CASE c # "boot"
        BY <1>k, <2>1, <4>2, CallNames DEF BootTokens, Is
      <4> QED
        BY <4>1, <4>2
    <3> QED
      BY <1>k, <2>1, <3>1, <3>2 DEF BootTokens
  <2>9. FlawlessBoot'
    BY <1>k, <2>1, <2>2, <2>3, CallNames DEF FlawlessBoot, Busy, Is
  <2> QED
    BY <2>4, <2>5, <2>6, <2>7, <2>8, <2>9 DEF SessionInv
<1>6. ASSUME Settle PROVE SessionInv'
  <2>1. /\ refresh.pc = "out" /\ refresh.of \in accounts
        /\ refresh' \in Refresh /\ refresh'.pc = "landed"
        /\ UNCHANGED <<faults, accounts, user, loading, crossed>>
    BY <1>6, SettleEffect
  <2>2. PICK p \in CallPC, t \in Someone :
          /\ Resume(p, t)
          /\ \/ /\ refresh'.ok /\ access' = refresh.of /\ stored' = stored
                /\ p = "resent" /\ t = refresh.of
             \/ /\ ~refresh'.ok /\ access' = NoOne /\ stored' = NoOne
                /\ p = "failing" /\ faults # {}
             \/ /\ ~refresh'.ok /\ UNCHANGED <<access, stored>>
                /\ p = "failing" /\ faults # {}
    <3>1. "resent" \in CallPC /\ "failing" \in CallPC /\ NoOne \in Someone /\ refresh.of \in Someone
      BY <1>t, <2>1 DEF CallPC, Someone
    <3> HIDE DEF Resume
    <3> QED
      BY <1>6, <3>1, SettleEffect
  <2>3. /\ call' \in [Calls -> Call]
        /\ \A c \in Calls : call'[c].kind = call[c].kind /\ call'[c].as = call[c].as
        /\ \A c \in Calls : ~Is(c, "waiting") => call'[c] = call[c]
        /\ \A c \in Calls : Is(c, "waiting") =>
             call'[c].pc = p /\ call'[c].token = Carried(c, t)
    BY <1>t, <2>2, ResumeEffect
  <2>4. \A c \in Calls : Busy(c)' => Busy(c)
    BY <2>3 DEF Busy, Is
  <2>5. TypeOK'
    <3>1. stored' \in Someone /\ access' \in Someone
      BY <1>t, <2>1, <2>2 DEF Someone
    <3> QED
      BY <1>t, <2>1, <2>3, <3>1 DEF TypeOK
  <2>6. KindsOK'
    BY <2>3, <2>4, KindsKept DEF Busy, Is
  <2>7. AccountsKnown'
    BY <1>k, <2>1, <2>2 DEF AccountsKnown
  <2>8. BootFirst'
    BY <1>k, <2>1, <2>4, CallNames DEF BootFirst
  <2>9. BootTokens'
    <3>1. refresh.of # NoOne
      BY <1>t, <2>1
    <3>2. Is("boot", "resent")' => call["boot"].token' # NoOne
      <4>1. CASE Is("boot", "waiting")
        BY <2>2, <2>3, <3>1, <4>1, CarriedIs, CallNames DEF Is
      <4>2. CASE ~Is("boot", "waiting")
        BY <1>k, <2>3, <4>2, CallNames DEF BootTokens, Is, Busy
      <4> QED
        BY <4>1, <4>2
    <3> QED
      BY <2>2, <3>1, <3>2 DEF BootTokens
  <2>10. FlawlessBoot'
    <3>1. SUFFICES ASSUME faults = {} PROVE FlawlessBoot'
      BY <2>1 DEF FlawlessBoot
    <3>2. refresh'.ok /\ stored' = stored /\ p = "resent"
      BY <2>2, <3>1
    <3> QED
      BY <1>k, <2>1, <2>3, <2>4, <3>1, <3>2, CallNames DEF FlawlessBoot, Is
  <2> QED
    BY <2>5, <2>6, <2>7, <2>8, <2>9, <2>10 DEF SessionInv
<1>7. ASSUME Logout PROVE SessionInv'
  <2>1. /\ ~loading /\ access' = NoOne /\ stored' = NoOne /\ user' = NoOne
        /\ crossed' \in BOOLEAN /\ UNCHANGED <<faults, accounts, loading, refresh, call>>
    BY <1>t, <1>7 DEF Logout, SignedIn
  <2>2. TypeOK'
    BY <1>t, <2>1 DEF TypeOK, Someone
  <2>3. KindsOK' /\ AccountsKnown'
    BY <1>k, <2>1 DEF KindsOK, AccountsKnown, Busy, Is
  <2>4. ~Busy("boot")
    BY <1>k, <2>1 DEF BootFirst
  <2>5. BootFirst' /\ BootTokens' /\ FlawlessBoot'
    BY <1>k, <2>1, <2>4 DEF BootFirst, BootTokens, FlawlessBoot, Busy, Is
  <2> QED
    BY <2>2, <2>3, <2>5 DEF SessionInv
<1>8. ASSUME ForgetRefresh PROVE SessionInv'
  <2>1. /\ refresh' \in Refresh /\ refresh'.pc = "none"
        /\ UNCHANGED <<faults, accounts, stored, access, user, loading, call, crossed>>
    BY <1>8, NoRefreshType DEF ForgetRefresh
  <2>2. TypeOK'
    BY <1>t, <2>1 DEF TypeOK
  <2>3. KindsOK' /\ AccountsKnown' /\ BootFirst'
    BY <1>k, <2>1 DEF KindsOK, AccountsKnown, BootFirst, Busy, Is
  <2>4. BootTokens' /\ FlawlessBoot'
    BY <1>k, <2>1 DEF BootTokens, FlawlessBoot, Busy, Is
  <2> QED
    BY <2>2, <2>3, <2>4 DEF SessionInv
<1>9. ASSUME OtherTab PROVE SessionInv'
  <2>1. /\ faults # {} /\ stored' \in accounts \cup {NoOne}
        /\ UNCHANGED <<faults, accounts, access, user, loading, refresh, call>>
    BY <1>9 DEF OtherTab, tab
  <2>2. crossed' \in BOOLEAN
    BY <1>t, <1>9 DEF OtherTab
  <2>3. TypeOK'
    BY <1>t, <2>1, <2>2 DEF TypeOK, Someone
  <2>4. KindsOK' /\ AccountsKnown' /\ BootFirst'
    BY <1>k, <2>1 DEF KindsOK, AccountsKnown, BootFirst, Busy, Is
  <2>5. BootTokens' /\ FlawlessBoot'
    BY <1>k, <2>1 DEF BootTokens, FlawlessBoot, Busy, Is
  <2> QED
    BY <2>3, <2>4, <2>5 DEF SessionInv
<1>10. CASE UNCHANGED vars
  <2>1. UNCHANGED <<faults, accounts, stored, access, user, loading, refresh, call, crossed>>
    BY <1>10 DEF vars, tab
  <2>2. TypeOK' /\ KindsOK' /\ AccountsKnown'
    BY <1>t, <1>k, <2>1 DEF TypeOK, KindsOK, AccountsKnown, Busy, Is
  <2>3. BootFirst' /\ BootTokens' /\ FlawlessBoot'
    BY <1>k, <2>1 DEF BootFirst, BootTokens, FlawlessBoot, Busy, Is
  <2> QED
    BY <2>2, <2>3 DEF SessionInv
<1> QED
  BY <1>1, <1>2, <1>3, <1>4, <1>5, <1>6, <1>7, <1>8, <1>9, <1>10 DEF Next

(* The variables of a tab and of auth-service keep their types, whatever    *)
(* goes wrong.                                                             *)
THEOREM TypeCorrect == Spec => []TypeOK
<1>1. SessionInv => TypeOK
  BY DEF SessionInv
<1> QED
  BY <1>1, SessionInit, SessionStep, PTL DEF Spec

-----------------------------------------------------------------------------
(* A session in store ends when its user signs out, when a refresh is       *)
(* refused, or when the check at boot fails; nothing else ends it.  A boot  *)
(* that fails where nothing may go wrong is what SessionInv rules out.      *)
THEOREM SessionKept == Spec => SessionIsKept
<1> DEFINE Ends == stored # NoOne /\ stored' = NoOne
           Excused ==
             \/ user # NoOne /\ user' = NoOne
             \/ refresh.pc = "out" /\ refresh'.pc = "landed" /\ "refused" \in faults
             \/ ~Is("boot", "idle") /\ call'["boot"].pc = "idle" /\ faults # {}
             \/ "otherTab" \in faults /\ UNCHANGED tab
<1>1. SessionInv /\ [Next]_vars => [Ends => Excused]_vars
  <2> SUFFICES ASSUME SessionInv, Next, Ends PROVE Excused
    OBVIOUS
  <2>t. TypeOK /\ KindsOK /\ NoOne \notin Accounts
    BY SessionAssumption DEF SessionInv
  <2>1. ASSUME NEW p \in Calls, Ask(p) PROVE FALSE
    BY <2>t, <2>1, AskEffect
  <2>2. CASE Submit
    BY <2>t, <2>2, SubmitEffect
  <2>3. ASSUME NEW c \in Calls, Succeed(c) PROVE FALSE
    <3>1. stored' = stored \/ (stored' = call[c].as /\ c = "form" /\ Busy(c))
      BY <2>t, <2>3, SucceedEffect DEF Adopt
    <3> QED
      BY <2>t, <3>1 DEF KindsOK
  <2>4. ASSUME NEW c \in Calls, Fail(c) \/ FailAfterRefresh(c) PROVE Excused
    <3>1. /\ c = "boot" /\ faults # {} /\ Busy("boot") /\ call'["boot"] = Idle
      BY <2>4, ThrowEffect
    <3> QED
      BY <3>1, IdleCall DEF Busy
  <2>5. ASSUME NEW c \in Calls, RefreshAccessToken(c) PROVE FALSE
    BY <2>t, <2>5, RefreshAccessTokenEffect
  <2>6. CASE Settle
    <3>1. refresh.pc = "out" /\ refresh'.pc = "landed"
      BY <2>6, SettleEffect
    <3>2. "refused" \in faults
      BY <2>6, SettleEffect
    <3> QED
      BY <3>1, <3>2
  <2>7. CASE Logout
    BY <2>7 DEF Logout, SignedIn
  <2>8. CASE ForgetRefresh
    BY <2>8 DEF ForgetRefresh
  <2>9. CASE OtherTab
    BY <2>9 DEF OtherTab
  <2> QED
    BY <2>1, <2>2, <2>3, <2>4, <2>5, <2>6, <2>7, <2>8, <2>9 DEF Next
<1> QED
  BY <1>1, SessionInit, SessionStep, PTL DEF Spec, SessionIsKept

-----------------------------------------------------------------------------
(* Whose session it is.  As long as no sign-in has crossed what was out,    *)
(* the tokens of the tab, the refresh in flight and every call that is out  *)
(* are of one account: the user shown, whom each page asks for, or the one  *)
(* the session check at boot is about to find.                              *)

SameAs(a) ==
  /\ access \in {a, NoOne} /\ stored \in {a, NoOne}
  /\ refresh.pc = "out" => refresh.of = a
Serves(c, a) == OnTheWire(c) => call[c].token \in {a, NoOne}

PagesAreOne ==
  \A p \in Pages : Busy(p) =>
    SameAs(call[p].as) /\ user \in {call[p].as, NoOne} /\ Serves(p, call[p].as)
UserIsOne == user # NoOne => SameAs(user)
BootIsOne ==
  Busy("boot") => user = NoOne /\ \E a \in Accounts : SameAs(a) /\ Serves("boot", a)

Uncrossed == ~crossed => PagesAreOne /\ UserIsOne /\ BootIsOne

LEMMA UncrossedInit == Init => Uncrossed
<1> SUFFICES ASSUME Init PROVE Uncrossed
  OBVIOUS
<1>1. SessionInv
  BY SessionInit
<1>2. user = NoOne /\ access = NoOne /\ refresh.pc = "none" /\ stored \in Someone
  BY <1>1, NoRefreshType DEF Init, SessionInv, TypeOK
<1>3. \A c \in Calls : call[c].token = NoOne
  <2>1. LET x == [Idle EXCEPT !.pc = "sent", !.kind = "me"] IN x.token = NoOne
    BY DEF Idle
  <2> QED
    BY <2>1, IdleCall DEF Init
<1>4. \A c \in Calls : Busy(c) => c = "boot" /\ stored # NoOne
  BY IdleCall DEF Init, Busy, Is
<1>5. ASSUME Busy("boot") PROVE SameAs(stored) /\ Serves("boot", stored) /\ stored \in Accounts
  BY <1>2, <1>3, <1>4, <1>5, CallNames DEF SameAs, Serves, Someone
<1> QED
  BY <1>2, <1>4, <1>5, CallNames DEF Uncrossed, PagesAreOne, UserIsOne, BootIsOne

(* What has come of a step in which no sign-in is: whatever the tab held of *)
(* one account it still holds of that one, and the calls go on for theirs. *)
LEMMA StillOne ==
  ASSUME PagesAreOne, UserIsOne, BootIsOne, user' \in {user, NoOne},
         \A a : SameAs(a) => SameAs(a)',
         \A c \in {"boot"} \cup Pages : Busy(c)' =>
           /\ Busy(c) /\ call'[c].as = call[c].as
           /\ OnTheWire(c)' => \/ OnTheWire(c) /\ call'[c].token = call[c].token
                               \/ \A a : SameAs(a) => call'[c].token \in {a, NoOne}
  PROVE  PagesAreOne' /\ UserIsOne' /\ BootIsOne'
<1>1. ASSUME NEW p \in Pages, Busy(p)'
      PROVE  SameAs(call[p].as)' /\ user' \in {call'[p].as, NoOne} /\ Serves(p, call[p].as)'
  <2>1. PICK a : a = call[p].as
    OBVIOUS
  <2>2. Busy(p) /\ call'[p].as = a
    BY <1>1, <2>1
  <2>3. SameAs(a) /\ user \in {a, NoOne} /\ Serves(p, a)
    BY <2>1, <2>2 DEF PagesAreOne
  <2>4. SameAs(a)' /\ user' \in {a, NoOne}
    BY <2>3
  <2>5. OnTheWire(p)' => call'[p].token \in {a, NoOne}
    BY <1>1, <2>3 DEF Serves
  <2> QED
    BY <2>2, <2>4, <2>5 DEF SameAs, Serves
<1>2. UserIsOne'
  BY DEF UserIsOne, SameAs
<1>3. BootIsOne'
  <2>1. SUFFICES ASSUME Busy("boot")' PROVE BootIsOne'
    BY DEF BootIsOne
  <2>2. PICK a \in Accounts : SameAs(a) /\ Serves("boot", a)
    BY <2>1 DEF BootIsOne
  <2>3. SameAs(a)'
    BY <2>2
  <2>4. Serves("boot", a)'
    BY <2>1, <2>2 DEF Serves
  <2>5. user' = NoOne
    BY <2>1 DEF BootIsOne
  <2> QED
    BY <2>3, <2>4, <2>5 DEF BootIsOne
<1> QED
  BY <1>1, <1>2, <1>3 DEF PagesAreOne

(* What has come of a step after which everything is of the account a.      *)
LEMMA AllAreOf ==
  ASSUME NEW a, SameAs(a)', user' \in {a, NoOne}, ~Busy("boot")',
         \A p \in Pages : Busy(p)' => call'[p].as = a /\ Serves(p, a)'
  PROVE  PagesAreOne' /\ UserIsOne' /\ BootIsOne'
BY DEF PagesAreOne, UserIsOne, BootIsOne, SameAs, Serves

LEMMA UncrossedStep == SessionInv /\ Uncrossed /\ [Next]_vars => Uncrossed'
<1> DEFINE Goal == PagesAreOne' /\ UserIsOne' /\ BootIsOne'
<1> SUFFICES ASSUME SessionInv, Uncrossed, [Next]_vars, ~crossed'
             PROVE  Goal
  BY DEF Uncrossed
<1>t. /\ TypeOK /\ KindsOK /\ BootFirst /\ NoOne \notin Accounts
      /\ call \in [Calls -> Call] /\ refresh \in Refresh /\ access \in Someone
      /\ stored \in Someone /\ user \in Someone
  BY TypeFacts, SessionAssumption DEF SessionInv
<1>n. "boot" \in Calls /\ Pages \subseteq Calls /\ "boot" \notin Pages /\ "form" \notin Pages
  BY CallNames
<1>u. ~crossed => PagesAreOne /\ UserIsOne /\ BootIsOne
  BY DEF Uncrossed
<1>1. ASSUME NEW p \in Calls, Ask(p) PROVE Goal
  <2>1. /\ p \in Pages /\ user # NoOne /\ ~loading
        /\ call'[p].as = user /\ call'[p].token = access
        /\ \A d \in Calls : d # p => call'[d] = call[d]
        /\ UNCHANGED <<stored, access, user, refresh, crossed>>
    BY <1>1, <1>t, AskEffect DEF SignedIn
  <2>2. PICK a : a = user
    OBVIOUS
  <2>3. PagesAreOne /\ SameAs(a) /\ ~Busy("boot") /\ access \in {a, NoOne}
    BY <1>t, <1>u, <2>1, <2>2 DEF BootFirst, UserIsOne, SameAs
  <2>4. ASSUME NEW q \in Pages, Busy(q)'
        PROVE  call'[q].as = a /\ Serves(q, a)'
    <3>1. CASE q = p
      BY <2>1, <2>2, <2>3, <3>1 DEF Serves
    <3>2. CASE q # p
      <4>1. call'[q] = call[q]
        BY <1>n, <2>1, <3>2
      <4>2. Busy(q)
        BY <2>4, <4>1 DEF Busy, Is
      <4>3. a \in {call[q].as, NoOne} /\ a # NoOne /\ Serves(q, call[q].as)
        BY <2>1, <2>2, <2>3, <4>2 DEF PagesAreOne
      <4> QED
        BY <4>1, <4>3 DEF Serves, OnTheWire
    <3> QED
      BY <3>1, <3>2
  <2>5. ~Busy("boot")'
    BY <1>n, <2>1, <2>3 DEF Busy, Is
  <2>6. SameAs(a)' /\ user' \in {a, NoOne}
    BY <2>1, <2>2, <2>3 DEF SameAs
  <2> QED
    BY <2>4, <2>5, <2>6, AllAreOf
<1>2. CASE Submit
  <2>1. /\ \A d \in Calls : d # "form" => call'[d] = call[d]
        /\ UNCHANGED <<stored, access, user, refresh, crossed>>
    BY <1>2, <1>t, SubmitEffect
  <2>2. \A a : SameAs(a) => SameAs(a)'
    BY <2>1 DEF SameAs
  <2>3. \A c \in {"boot"} \cup Pages : call'[c] = call[c]
    BY <1>n, <2>1
  <2>4. \A c \in {"boot"} \cup Pages :
          /\ Busy(c)' => Busy(c) /\ call'[c].as = call[c].as
          /\ OnTheWire(c)' => OnTheWire(c) /\ call'[c].token = call[c].token
    BY <2>3 DEF Busy, Is, OnTheWire
  <2> QED
    BY <1>u, <2>1, <2>2, <2>4, StillOne
<1>3. ASSUME NEW c \in Calls, Succeed(c) PROVE Goal
  <2>1. /\ Busy(c) /\ OnTheWire(c) /\ call'[c].pc = "idle"
        /\ \A d \in Calls : d # c => call'[d] = call[d]
        /\ UNCHANGED refresh
    BY <1>3, <1>t, SucceedEffect, IdleCall
  <2>2. CASE c = "form"
    <3>1. Adopt(call[c].as) /\ UNCHANGED loading
      BY <1>3, <1>t, <1>n, <2>2, CallNames, SucceedEffect
    <3>2. PICK a : a = call[c].as
      OBVIOUS
    <3>3. /\ access' = a /\ stored' = a /\ user' = a /\ ~crossed /\ ~Unsettled(a)
      BY <3>1, <3>2 DEF Adopt
    <3>4. SameAs(a)'
      BY <2>1, <3>3 DEF SameAs, Unsettled
    <3>5. ~Busy("boot")'
      BY <1>n, <2>1, <2>2, <3>3, CallNames DEF Unsettled, Busy, Is
    <3>6. ASSUME NEW q \in Pages, Busy(q)' PROVE call'[q].as = a /\ Serves(q, a)'
      <4>1. call'[q] = call[q]
        BY <1>n, <2>1, <2>2
      <4>2. Busy(q)
        BY <3>6, <4>1 DEF Busy, Is
      <4>3. call[q].as = a
        BY <3>3, <4>2 DEF Unsettled, Busy
      <4>4. Serves(q, a)
        BY <1>u, <3>3, <4>2, <4>3 DEF PagesAreOne
      <4> QED
        BY <4>1, <4>3, <4>4 DEF Serves, OnTheWire
    <3> QED
      BY <3>3, <3>4, <3>5, <3>6, AllAreOf
  <2>3. CASE c = "boot"
    <3>1. /\ call[c].token # NoOne /\ user' = call[c].token
          /\ UNCHANGED <<stored, access, crossed>>
      BY <1>3, <1>t, <1>n, <2>3, CallNames, SucceedEffect
    <3>2. PICK a \in Accounts : SameAs(a) /\ Serves("boot", a)
      BY <1>u, <2>1, <2>3, <3>1 DEF BootIsOne
    <3>3. user' = a
      BY <2>1, <2>3, <3>1, <3>2 DEF Serves
    <3>4. SameAs(a)'
      BY <2>1, <3>1, <3>2 DEF SameAs
    <3>5. \A p \in Pages : ~Busy(p)'
      BY <1>t, <1>n, <2>1, <2>3 DEF BootFirst, Busy, Is
    <3>6. ~Busy("boot")'
      BY <2>1, <2>3 DEF Busy, Is
    <3> QED
      BY <3>3, <3>4, <3>5, <3>6, AllAreOf
  <2>4. CASE c \in Pages
    <3>1. UNCHANGED <<stored, access, user, crossed>>
      BY <1>3, <1>t, <1>n, <2>4, SucceedEffect
    <3>2. \A a : SameAs(a) => SameAs(a)'
      BY <2>1, <3>1 DEF SameAs
    <3>3. \A d \in {"boot"} \cup Pages : Busy(d)' =>
            /\ Busy(d) /\ call'[d].as = call[d].as
            /\ OnTheWire(d)' => OnTheWire(d) /\ call'[d].token = call[d].token
      BY <1>n, <2>1 DEF Busy, Is, OnTheWire
    <3> QED
      BY <1>u, <3>1, <3>2, <3>3, StillOne
  <2> QED
    BY <2>2, <2>3, <2>4, CallNames
<1>4. ASSUME NEW c \in Calls, Fail(c) \/ FailAfterRefresh(c) PROVE Goal
  <2>1. /\ call'[c].pc = "idle"
        /\ \A d \in Calls : d # c => call'[d] = call[d]
        /\ UNCHANGED <<user, refresh, crossed>>
        /\ access' \in {access, NoOne} /\ stored' \in {stored, NoOne}
    BY <1>4, ThrowEffect, IdleCall
  <2>2. \A a : SameAs(a) => SameAs(a)'
    BY <2>1 DEF SameAs
  <2>3. \A d \in {"boot"} \cup Pages : Busy(d)' =>
          /\ Busy(d) /\ call'[d].as = call[d].as
          /\ OnTheWire(d)' => OnTheWire(d) /\ call'[d].token = call[d].token
    BY <1>n, <2>1 DEF Busy, Is, OnTheWire
  <2> QED
    BY <1>u, <2>1, <2>2, <2>3, StillOne
<1>5. ASSUME NEW c \in Calls, RefreshAccessToken(c) PROVE Goal
  <2>1. /\ Is(c, "sent")
        /\ UNCHANGED <<stored, access, user, crossed>>
        /\ \/ refresh' = refresh
           \/ stored # NoOne /\ refresh'.pc = "out" /\ refresh'.of = stored
        /\ \A d \in Calls : d # c => call'[d] = call[d]
        /\ call'[c].as = call[c].as
        /\ call'[c].token = NoOne \/ call'[c].token = Carried(c, access)
    BY <1>5, <1>t, RefreshAccessTokenEffect
  <2>2. \A a : SameAs(a) => SameAs(a)'
    BY <2>1 DEF SameAs
  <2>3. \A a : SameAs(a) => call'[c].token \in {a, NoOne}
    BY <1>t, <2>1, CarriedIs DEF SameAs
  <2>4. \A d \in {"boot"} \cup Pages : Busy(d)' =>
          /\ Busy(d) /\ call'[d].as = call[d].as
          /\ OnTheWire(d)' => \/ OnTheWire(d) /\ call'[d].token = call[d].token
                              \/ \A a : SameAs(a) => call'[d].token \in {a, NoOne}
    BY <1>n, <2>1, <2>3 DEF Busy, Is, OnTheWire
  <2> QED
    BY <1>u, <2>1, <2>2, <2>4, StillOne
<1>6. CASE Settle
  <2>1. /\ refresh.pc = "out" /\ refresh'.pc = "landed"
        /\ UNCHANGED <<user, crossed>>
        /\ access' \in {refresh.of, access, NoOne} /\ stored' \in {stored, NoOne}
    BY <1>6, SettleEffect
  <2>2. PICK p \in CallPC, t \in Someone : Resume(p, t) /\ t \in {refresh.of, NoOne}
    <3>1. "resent" \in CallPC /\ "failing" \in CallPC /\ NoOne \in Someone /\ refresh.of \in Someone
      BY <1>t, RefreshFields DEF CallPC, Someone
    <3> HIDE DEF Resume
    <3> QED
      BY <1>6, <3>1, SettleEffect
  <2>3. /\ \A c \in Calls : call'[c].as = call[c].as
        /\ \A c \in Calls : ~Is(c, "waiting") => call'[c] = call[c]
        /\ \A c \in Calls : Is(c, "waiting") => call'[c].token = Carried(c, t)
    BY <1>t, <2>2, ResumeEffect
  <2>4. \A a : SameAs(a) => SameAs(a)' /\ t \in {a, NoOne}
    BY <2>1, <2>2 DEF SameAs
  <2>5. ASSUME NEW d \in Calls, Busy(d)'
        PROVE  /\ Busy(d) /\ call'[d].as = call[d].as
               /\ OnTheWire(d)' => \/ OnTheWire(d) /\ call'[d].token = call[d].token
                                   \/ \A a : SameAs(a) => call'[d].token \in {a, NoOne}
    <3>1. CASE Is(d, "waiting")
      <4>1. Carried(d, t) \in {t, NoOne}
        BY CarriedIs
      <4> QED
        BY <2>3, <2>4, <3>1, <4>1 DEF Busy, Is
    <3>2. CASE ~Is(d, "waiting")
      BY <2>3, <2>5, <3>2 DEF Busy, Is, OnTheWire
    <3> QED
      BY <3>1, <3>2
  <2>6. \A d \in {"boot"} \cup Pages : Busy(d)' =>
          /\ Busy(d) /\ call'[d].as = call[d].as
          /\ OnTheWire(d)' => \/ OnTheWire(d) /\ call'[d].token = call[d].token
                              \/ \A a : SameAs(a) => call'[d].token \in {a, NoOne}
    BY <1>n, <2>5
  <2> QED
    BY <1>u, <2>1, <2>4, <2>6, StillOne
<1>7. CASE Logout
  <2>1. /\ access' = NoOne /\ stored' = NoOne /\ user' = NoOne /\ UNCHANGED <<refresh, call>>
        /\ ~crossed \/ (refresh.pc # "out" /\ \A c \in Calls : Is(c, "idle"))
    BY <1>7 DEF Logout
  <2>2. CASE ~crossed
    <3>1. \A a : SameAs(a) => SameAs(a)'
      BY <2>1 DEF SameAs
    <3>2. \A d \in {"boot"} \cup Pages : Busy(d)' =>
            /\ Busy(d) /\ call'[d].as = call[d].as
            /\ OnTheWire(d)' => OnTheWire(d) /\ call'[d].token = call[d].token
      BY <2>1 DEF Busy, Is, OnTheWire
    <3> QED
      BY <1>u, <2>1, <2>2, <3>1, <3>2, StillOne
  <2>3. CASE refresh.pc # "out" /\ \A c \in Calls : Is(c, "idle")
    <3>1. SameAs(NoOne)'
      BY <2>1, <2>3 DEF SameAs
    <3>2. \A c \in Calls : ~Busy(c)'
      BY <2>1, <2>3 DEF Busy, Is
    <3> QED
      BY <1>n, <2>1, <3>1, <3>2, AllAreOf
  <2> QED
    BY <2>1, <2>2, <2>3
<1>8. CASE ForgetRefresh
  <2>1. /\ refresh'.pc = "none" /\ UNCHANGED <<stored, access, user, call, crossed>>
    BY <1>8, NoRefreshType DEF ForgetRefresh
  <2>2. \A a : SameAs(a) => SameAs(a)'
    BY <2>1 DEF SameAs
  <2>3. \A d \in {"boot"} \cup Pages : Busy(d)' =>
          /\ Busy(d) /\ call'[d].as = call[d].as
          /\ OnTheWire(d)' => OnTheWire(d) /\ call'[d].token = call[d].token
    BY <2>1 DEF Busy, Is, OnTheWire
  <2> QED
    BY <1>u, <2>1, <2>2, <2>3, StillOne
<1>9. CASE OtherTab
  <2>1. UNCHANGED <<access, user, refresh, call>>
    BY <1>9 DEF OtherTab, tab
  <2>2. PICK a \in accounts \cup {NoOne} :
          /\ stored' = a /\ ~crossed
          /\ a = NoOne \/ (user \in {NoOne, a} /\ ~Unsettled(a))
    BY <1>9 DEF OtherTab
  <2>3. CASE a = NoOne
    <3>1. \A b : SameAs(b) => SameAs(b)'
      BY <2>1, <2>2, <2>3 DEF SameAs
    <3>2. \A d \in {"boot"} \cup Pages : Busy(d)' =>
            /\ Busy(d) /\ call'[d].as = call[d].as
            /\ OnTheWire(d)' => OnTheWire(d) /\ call'[d].token = call[d].token
      BY <2>1 DEF Busy, Is, OnTheWire
    <3> QED
      BY <1>u, <2>1, <2>2, <2>3, <3>1, <3>2, StillOne
  <2>4. CASE a # NoOne
    <3>1. user \in {NoOne, a} /\ ~Unsettled(a) /\ PagesAreOne /\ UserIsOne
      BY <1>u, <2>2, <2>4
    <3>2. ~Busy("boot")' /\ \A q \in Pages : Busy(q)' => call'[q].as = a /\ Busy(q)
      BY <2>1, <3>1 DEF Unsettled, Busy, Is
    <3>3. \A q \in Pages : Busy(q)' => call'[q].as = a /\ Serves(q, a)'
      BY <2>1, <3>1, <3>2 DEF PagesAreOne, Serves, OnTheWire
    <3>4. CASE user = NoOne /\ \A q \in Pages : ~Busy(q)'
      BY <2>1, <3>2, <3>4 DEF PagesAreOne, UserIsOne, BootIsOne
    <3>5. CASE user # NoOne \/ \E q \in Pages : Busy(q)'
      <4>1. access \in {a, NoOne}
        <5>1. CASE user # NoOne
          BY <3>1, <5>1 DEF UserIsOne, SameAs
        <5>2. CASE \E q \in Pages : Busy(q)'
          BY <2>1, <3>1, <3>2, <5>2 DEF PagesAreOne, SameAs
        <5> QED
          BY <3>5, <5>1, <5>2
      <4>2. SameAs(a)'
        BY <2>1, <2>2, <3>1, <4>1 DEF SameAs, Unsettled
      <4> QED
        BY <2>1, <3>1, <3>2, <3>3, <4>2, AllAreOf
    <3> QED
      BY <3>4, <3>5
  <2> QED
    BY <2>3, <2>4
<1>10. CASE UNCHANGED vars
  <2>1. UNCHANGED <<stored, access, user, refresh, call, crossed>>
    BY <1>10 DEF vars, tab
  <2>2. \A a : SameAs(a) => SameAs(a)'
    BY <2>1 DEF SameAs
  <2>3. \A d \in {"boot"} \cup Pages : Busy(d)' =>
          /\ Busy(d) /\ call'[d].as = call[d].as
          /\ OnTheWire(d)' => OnTheWire(d) /\ call'[d].token = call[d].token
    BY <2>1 DEF Busy, Is, OnTheWire
  <2> QED
    BY <1>u, <2>1, <2>2, <2>3, StillOne
<1> QED
  BY <1>1, <1>2, <1>3, <1>4, <1>5, <1>6, <1>7, <1>8, <1>9, <1>10 DEF Next

(* No request of a page carries a token of anybody but the user it is for,  *)
(* through expiry, refreshes, sign-outs and sign-ins, unless one of them    *)
(* crossed what was out for somebody else.                                 *)
THEOREM AskedAsThemselves == Spec => []AskedAsShown
<1>1. Uncrossed => AskedAsShown
  BY DEF Uncrossed, PagesAreOne, Serves, AskedAsShown, OnTheWire, Busy, Is
<1> QED
  BY <1>1, SessionInit, SessionStep, UncrossedInit, UncrossedStep, PTL DEF Spec

=============================================================================

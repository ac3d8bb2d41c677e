---------------------------- MODULE RegistryProofs ----------------------------
(***************************************************************************)
(* Proofs about Registry for every set of callers, organisations, services *)
(* and names, any number of requests in flight, and every mix of           *)
(* operations.                                                             *)
(***************************************************************************)
EXTENDS Registry, TLAPS

USE SessionAssumption, RegistryAssumption

-----------------------------------------------------------------------------
(* Sessions and scopes.                                                    *)

\* What a scope says of the one who asks.
LEMMA ScopesOfRequests ==
    ASSUME TypeOK, SessionNamesAnOrg, NEW c \in Callers, NEW presents \in BOOLEAN,
           ScopeOf(c, presents) # Rejected
    PROVE  /\ ScopeOf(c, presents) \in Scopes
           /\ config.jwt => ScopeOf(c, presents) # Blank
           /\ (~ config.jwt /\ session[c] = None) => ScopeOf(c, presents) = Blank
<1>1. config \in Configs /\ session[c] \in {None} \cup Claims  BY DEF TypeOK, SessionTypeOK
<1>2. session[c] # None => session[c].org \in Orgs  BY <1>1 DEF Claims, SessionNamesAnOrg
<1>3. config.jwt \in BOOLEAN /\ config.token \in BOOLEAN /\ config.require \in BOOLEAN
  BY <1>1 DEF Configs
<1>. QED
  BY <1>1, <1>2, <1>3 DEF ScopeOf, Authenticated, Resolve, SingleTenantMode, Scopes

\* (Session.WildcardOnlyWithoutTenants is a fact about ScopeOf alone.)
LEMMA WildcardLemma ==
    ASSUME TypeOK
    PROVE  WildcardOnlyWithoutTenants
<1>. SUFFICES ASSUME NEW c \in Callers, NEW presents \in BOOLEAN, ScopeOf(c, presents) = Blank
              PROVE  ~ config.jwt /\ (config.token \/ ~ config.require)
  BY DEF WildcardOnlyWithoutTenants
<1>1. config \in Configs /\ session[c] \in {None} \cup Claims  BY DEF TypeOK, SessionTypeOK
<1>2. config.jwt \in BOOLEAN /\ config.token \in BOOLEAN /\ config.require \in BOOLEAN
  BY <1>1 DEF Configs
<1>. QED
  BY <1>1, <1>2 DEF ScopeOf, Authenticated, Resolve, SingleTenantMode

\* The steps of a login keep the types, and open sessions for organisations only.
LEMMA SessionStep ==
    ASSUME SessionTypeOK, SessionNamesAnOrg, SessionNext
    PROVE  /\ SessionTypeOK' /\ SessionNamesAnOrg' /\ UNCHANGED config
           /\ (~ config.jwt /\ logins = {} /\ callbacks = {}) =>
                 /\ logins' = {} /\ callbacks' = {}
                 /\ \A c \in Callers : session[c] = None => session'[c] = None
<1>. USE DEF SessionTypeOK, SessionNamesAnOrg
<1>. DEFINE Logins == [caller : Callers, nonce : 1 .. MaxLogins,
                       valid : BOOLEAN, spent : BOOLEAN]
<1>1. CASE \E c \in Callers : OidcLogin(c)
  <2>1. PICK c \in Callers : OidcLogin(c)  BY <1>1
  <2>2. nonce' \in 1 .. MaxLogins /\ UNCHANGED <<config, session, callbacks>> /\ config.jwt
    BY <2>1 DEF OidcLogin
  <2>3. jar' = [jar EXCEPT ![c] = nonce']  BY <2>1 DEF OidcLogin
  <2>4. logins' = logins \cup {[caller |-> c, nonce |-> nonce', valid |-> TRUE, spent |-> FALSE]}
    BY <2>1 DEF OidcLogin
  <2>5. [caller |-> c, nonce |-> nonce', valid |-> TRUE, spent |-> FALSE] \in Logins
    BY <2>2
  <2>6. logins' \subseteq Logins  BY <2>4, <2>5
  <2>7. jar' \in [Callers -> {None} \cup 1 .. MaxLogins]  BY <2>2, <2>3
  <2>8. nonce' \in 0 .. MaxLogins  BY <2>2
  <2>. QED  BY <2>2, <2>6, <2>7, <2>8
<1>2. CASE \E c \in Callers : SessionEnds(c)
  BY <1>2 DEF SessionEnds
<1>3. CASE LoginLapses
  <2>1. PICK l \in logins : logins' = (logins \ {l}) \cup {[l EXCEPT !.valid = FALSE]}
    BY <1>3 DEF LoginLapses
  <2>2. [l EXCEPT !.valid = FALSE] \in Logins  BY <2>1
  <2>3. logins' \subseteq Logins  BY <2>1, <2>2
  <2>. QED  BY <1>3, <2>1, <2>3 DEF LoginLapses
<1>4. CASE \E c \in Callers, l \in logins : CheckState(c, l)
  <2>1. PICK c \in Callers, l \in logins : CheckState(c, l)  BY <1>4
  <2>. QED  BY <2>1 DEF CheckState
<1>5. CASE \E b \in callbacks, l \in logins, a \in ProviderAnswers : OidcCallback(b, l, a)
  <2>1. PICK b \in callbacks, l \in logins, a \in ProviderAnswers : OidcCallback(b, l, a)
    BY <1>5
  <2>2. b.browser \in Callers /\ b.nonce \in 0 .. MaxLogins  OBVIOUS
  <2>3. [l EXCEPT !.spent = TRUE] \in Logins  BY <2>1
  <2>4. logins' \subseteq Logins /\ callbacks' \subseteq callbacks /\ UNCHANGED <<config, nonce>>
    BY <2>1, <2>3 DEF OidcCallback
  <2>5. CASE UNCHANGED <<session, jar>>  BY <2>1, <2>4, <2>5
  <2>6. CASE a # Rejected /\ DeriveOrgId(a.hd, a.sub) # Blank /\ OpensSession(b, a)
    <3>1. DeriveOrgId(a.hd, a.sub) \in Orgs  BY <2>6 DEF DeriveOrgId, ProviderAnswers
    <3>2. [org |-> DeriveOrgId(a.hd, a.sub), of |-> b.nonce] \in Claims  BY <3>1, <2>2 DEF Claims
    <3>. QED  BY <2>1, <2>2, <2>4, <2>6, <3>1, <3>2 DEF OpensSession
  <2>. QED  BY <2>1, <2>5, <2>6 DEF OidcCallback
<1>. QED  BY <1>1, <1>2, <1>3, <1>4, <1>5 DEF SessionNext

\* A login that is marked as lapsed or spent is the login it was.
LEMMA MarkedLogins ==
    ASSUME LoginInv, NEW l \in logins, NEW k, k.caller = l.caller, k.nonce = l.nonce,
           logins' = (logins \ {l}) \cup {k}
    PROVE  /\ \A m, o \in logins' : m.nonce = o.nonce => m = o
           /\ \A m \in logins' : m.nonce <= nonce
           /\ \A c, n, at : IsLatestOf(c, n, at) =>
                 /\ \E m \in logins' : m.caller = c /\ m.nonce = n
                 /\ \A m \in logins' : m.caller = c => m.nonce <= n \/ m.nonce > at
<1>1. \A m \in logins : m # l => m.nonce # l.nonce  BY DEF LoginInv
<1>2. \A m \in logins' : (m \in logins /\ m # l) \/ m = k  OBVIOUS
<1>3. \A m, o \in logins' : m.nonce = o.nonce => m = o  BY <1>1, <1>2 DEF LoginInv
<1>4. \A m \in logins' : m.nonce <= nonce  BY <1>2 DEF LoginInv
<1>5. ASSUME NEW c, NEW n, NEW at, IsLatestOf(c, n, at)
      PROVE  /\ \E m \in logins' : m.caller = c /\ m.nonce = n
             /\ \A m \in logins' : m.caller = c => m.nonce <= n \/ m.nonce > at
  <2>1. PICK o \in logins : o.caller = c /\ o.nonce = n  BY <1>5 DEF IsLatestOf
  <2>2. o \in logins' \/ (o = l /\ k \in logins')  OBVIOUS
  <2>3. \E m \in logins' : m.caller = c /\ m.nonce = n  BY <2>1, <2>2
  <2>4. \A m \in logins' : m.caller = c => m.nonce <= n \/ m.nonce > at
    BY <1>2, <1>5 DEF IsLatestOf
  <2>. QED  BY <2>3, <2>4
<1>. QED  BY <1>3, <1>4, <1>5

\* Each cookie, and each callback that was checked, has the latest login of its browser.
LEMMA LoginInvStep ==
    ASSUME LoginInv, SessionTypeOK', SessionNext
    PROVE  LoginInv'
<1>. USE DEF LoginInv
<1>n. /\ nonce \in Nat /\ nonce' \in Nat
      /\ \A l \in logins : l.nonce \in Nat
      /\ \A b \in callbacks : b.at \in Nat /\ b.nonce \in Nat /\ b.browser \in Callers
      /\ jar \in [Callers -> {None} \cup 1 .. MaxLogins]
  BY DEF SessionTypeOK
<1>1. CASE \E c \in Callers : OidcLogin(c)
  <2>1. PICK c \in Callers : OidcLogin(c)  BY <1>1
  <2>. DEFINE k == [caller |-> c, nonce |-> nonce', valid |-> TRUE, spent |-> FALSE]
  <2>2. /\ logins' = logins \cup {k} /\ nonce' = nonce + 1 /\ UNCHANGED callbacks
        /\ jar' = [jar EXCEPT ![c] = nonce']
    BY <2>1 DEF OidcLogin
  <2>3. k.caller = c /\ k.nonce = nonce'  OBVIOUS
  <2>. HIDE DEF k
  <2>4. \A l, m \in logins' : l.nonce = m.nonce => l = m
    BY <1>n, <2>2, <2>3
  <2>5. \A l \in logins' : l.nonce <= nonce'
    BY <1>n, <2>2, <2>3
  <2>6. ASSUME NEW d \in Callers, jar'[d] # None  PROVE IsLatestOf(d, jar[d], nonce)'
    <3>1. CASE d = c
      <4>1. jar'[d] = nonce'  BY <1>n, <2>2, <3>1
      <4>. QED  BY <2>2, <2>3, <2>5, <3>1, <4>1 DEF IsLatestOf
    <3>2. CASE d # c
      <4>1. jar'[d] = jar[d] /\ IsLatestOf(d, jar[d], nonce)  BY <1>n, <2>2, <2>6, <3>2
      <4>. QED  BY <1>n, <2>2, <2>3, <3>2, <4>1 DEF IsLatestOf
    <3>. QED  BY <3>1, <3>2
  <2>7. ASSUME NEW b \in callbacks'
        PROVE  b.at <= nonce' /\ IsLatestOf(b.browser, b.nonce, b.at)'
    <3>1. b \in callbacks /\ b.at <= nonce /\ IsLatestOf(b.browser, b.nonce, b.at)  BY <2>2
    <3>. QED  BY <1>n, <2>2, <2>3, <3>1 DEF IsLatestOf
  <2>. QED  BY <2>4, <2>5, <2>6, <2>7
<1>2. CASE \E c \in Callers : SessionEnds(c)
  BY <1>2 DEF SessionEnds, IsLatestOf
<1>3. CASE LoginLapses
  <2>1. PICK l \in logins : logins' = (logins \ {l}) \cup {[l EXCEPT !.valid = FALSE]}
    BY <1>3 DEF LoginLapses
  <2>2. UNCHANGED <<jar, callbacks, nonce>>  BY <1>3 DEF LoginLapses
  <2>3. [l EXCEPT !.valid = FALSE].caller = l.caller /\ [l EXCEPT !.valid = FALSE].nonce = l.nonce
    BY <2>1 DEF SessionTypeOK
  <2>4. \A c, n, at : IsLatestOf(c, n, at) => IsLatestOf(c, n, at)'
    BY <2>1, <2>3, MarkedLogins DEF IsLatestOf
  <2>5. /\ \A m, o \in logins' : m.nonce = o.nonce => m = o
        /\ \A m \in logins' : m.nonce <= nonce'
    BY <2>1, <2>2, <2>3, MarkedLogins
  <2>6. \A c \in Callers : jar'[c] # None => IsLatestOf(c, jar[c], nonce)'
    BY <2>2, <2>4
  <2>7. \A b \in callbacks' : b.at <= nonce' /\ IsLatestOf(b.browser, b.nonce, b.at)'
    BY <2>2, <2>4
  <2>. QED  BY <2>5, <2>6, <2>7
<1>4. CASE \E c \in Callers, l \in logins : CheckState(c, l)
  <2>1. PICK c \in Callers, l \in logins : CheckState(c, l)  BY <1>4
  <2>2. jar[c] = l.nonce /\ jar[c] # None
    <3>1. l.nonce \in 1 .. MaxLogins  BY DEF SessionTypeOK
    <3>. QED  BY <2>1, <3>1 DEF CheckState, StateAccepted
  <2>. QED  BY <1>n, <2>1, <2>2 DEF CheckState, IsLatestOf
<1>5. CASE \E b \in callbacks, l \in logins, a \in ProviderAnswers : OidcCallback(b, l, a)
  <2>1. PICK b \in callbacks, l \in logins, a \in ProviderAnswers : OidcCallback(b, l, a)
    BY <1>5
  <2>2. /\ UNCHANGED nonce /\ callbacks' \subseteq callbacks
        /\ UNCHANGED jar \/ jar' = [jar EXCEPT ![b.browser] = None]
        /\ UNCHANGED logins \/ logins' = (logins \ {l}) \cup {[l EXCEPT !.spent = TRUE]}
    BY <2>1 DEF OidcCallback, OpensSession
  <2>3. [l EXCEPT !.spent = TRUE].caller = l.caller /\ [l EXCEPT !.spent = TRUE].nonce = l.nonce
    BY <2>1 DEF SessionTypeOK
  <2>4. \A c \in Callers : jar'[c] # None => jar'[c] = jar[c]  BY <1>n, <2>2
  <2>5. /\ \A m, o \in logins' : m.nonce = o.nonce => m = o
        /\ \A m \in logins' : m.nonce <= nonce
        /\ \A c, n, at : IsLatestOf(c, n, at) =>
              /\ \E m \in logins' : m.caller = c /\ m.nonce = n
              /\ \A m \in logins' : m.caller = c => m.nonce <= n \/ m.nonce > at
    <3>1. CASE UNCHANGED logins  BY <3>1 DEF IsLatestOf
    <3>2. CASE logins' = (logins \ {l}) \cup {[l EXCEPT !.spent = TRUE]}
      BY <2>3, <3>2, MarkedLogins
    <3>. QED  BY <2>2, <3>1, <3>2
  <2>6. \A c, n, at : IsLatestOf(c, n, at) => IsLatestOf(c, n, at)'
    BY <2>5 DEF IsLatestOf
  <2>7. \A c \in Callers : jar'[c] # None => IsLatestOf(c, jar[c], nonce)'
    BY <2>2, <2>4, <2>6
  <2>8. \A d \in callbacks' : d.at <= nonce' /\ IsLatestOf(d.browser, d.nonce, d.at)'
    BY <2>2, <2>6
  <2>. QED  BY <2>2, <2>5, <2>7, <2>8
<1>. QED  BY <1>1, <1>2, <1>3, <1>4, <1>5 DEF SessionNext

(* Session.SessionIsOfOwnLogin: whatever callbacks arrive, and whatever the *)
(* cookies of the browser have become meanwhile, a new session is of a      *)
(* login of that browser, unused and the latest when it was checked.        *)
LEMMA SessionIsOfOwnLoginStep ==
    ASSUME LoginInv, SessionNext,
           NEW c \in Callers, session'[c] # session[c], session'[c] # None
    PROVE  \E l \in logins, b \in callbacks :
              /\ l.caller = c /\ l.nonce = session'[c].of /\ ~ l.spent
              /\ b.browser = c /\ b.nonce = l.nonce
              /\ \A m \in logins : m.caller = c => m.nonce <= l.nonce \/ m.nonce > b.at
              /\ \A m \in logins' : m.nonce = l.nonce => m.spent
<1>. USE DEF LoginInv, SessionTypeOK
<1>1. PICK b \in callbacks, l \in logins, a \in ProviderAnswers : OidcCallback(b, l, a)
  BY DEF SessionNext, OidcLogin, SessionEnds, LoginLapses, CheckState
<1>2. OpensSession(b, a) /\ a # Rejected /\ ~ l.spent /\ l.nonce = b.nonce
  BY <1>1 DEF OidcCallback
<1>3. c = b.browser /\ session'[c].of = b.nonce  BY <1>2 DEF OpensSession
<1>4. IsLatestOf(c, b.nonce, b.at)  BY <1>3
<1>5. l.caller = c  BY <1>2, <1>4 DEF IsLatestOf
<1>6. logins' = (logins \ {l}) \cup {[l EXCEPT !.spent = TRUE]}  BY <1>1, <1>2 DEF OidcCallback
<1>7. [l EXCEPT !.spent = TRUE].spent = TRUE  OBVIOUS
<1>8. \A m \in logins' : m.nonce = l.nonce => m.spent  BY <1>6, <1>7
<1>. QED  BY <1>2, <1>3, <1>4, <1>5, <1>8 DEF IsLatestOf

-----------------------------------------------------------------------------
(* Requests.                                                               *)

\* A request is not Idle, and the slots have what they had.
LEMMA Slot ==
    ASSUME IInv, NEW q \in Slots, req[q].op \in Operations
    PROVE  q \in Busy /\ Shape(req[q]) /\ Knows(req[q])
<1>1. Idle.op = "idle" /\ "idle" \notin Operations  BY DEF Idle, Operations
<1>. QED  BY <1>1 DEF IInv, Busy

\* A step of q that changes at most the consumers and the sources, which no
\* request has to remember: the other requests know what they knew.
LEMMA SideStep ==
    ASSUME IInv, NEW q \in Slots, q \in Busy, UNCHANGED <<service, row, env>>, Frame,
           consumer' \subseteq [org : Scopes, name : Names,
                                source : {"manual", "collection_file", "catalog"}],
           source' \in [Scopes -> {None, "never", "ok", "error"}],
           req' = [req EXCEPT ![q] = req'[q]],
           req'[q] = Idle \/ (/\ Shape(req'[q]) /\ Knows(req'[q])
                              /\ req'[q].scope = req[q].scope)
    PROVE  IInv'
<1>. USE DEF IInv
<1>1. \A p \in Slots : p # q => req'[p] = req[p]  OBVIOUS
<1>2. \A p \in Busy' : p \in Busy /\ req'[p].scope = req[p].scope
  BY <1>1 DEF Busy
<1>3. \A p \in Busy' : Shape(req'[p]) /\ Knows(req'[p])
  BY <1>1, <1>2 DEF Busy
<1>4. \A p \in Busy' : Knows(req[p])'
  BY <1>3 DEF Knows, OwnedOrAbsent, Rows
<1>5. TypeOK'
  BY <1>3 DEF TypeOK, SessionTypeOK, Frame, sessionVars, Shape
<1>6. SessionNamesAnOrg'  BY DEF SessionNamesAnOrg, Frame, sessionVars
<1>7. Tenancy'  BY <1>2 DEF Tenancy, Frame, sessionVars
<1>8. RowsAreSound' /\ LinksStayInOrg'  BY DEF RowsAreSound, LinksStayInOrg
<1>9. req' = [p \in Slots |-> req'[p]]  OBVIOUS
<1>. QED  BY <1>3, <1>4, <1>5, <1>6, <1>7, <1>8, <1>9

LEMMA QuietStep ==
    ASSUME IInv, NEW q \in Slots, q \in Busy, UNCHANGED tables, Frame,
           req' = [req EXCEPT ![q] = req'[q]],
           req'[q] = Idle \/ (/\ Shape(req'[q]) /\ Knows(req'[q])
                              /\ req'[q].scope = req[q].scope)
    PROVE  IInv'
<1>1. /\ consumer \subseteq [org : Scopes, name : Names,
                             source : {"manual", "collection_file", "catalog"}]
      /\ source \in [Scopes -> {None, "never", "ok", "error"}]
  BY DEF IInv, TypeOK
<1>. QED  BY <1>1, SideStep DEF tables

\* The shape of a request does not depend on how far it is.
LEMMA GotoKeepsShape ==
    ASSUME IInv, NEW q \in Slots, q \in Busy, NEW pc, Goto(q, pc)
    PROVE  /\ req' = [req EXCEPT ![q] = req'[q]]
           /\ req'[q] = [req[q] EXCEPT !.pc = pc] /\ Shape(req'[q])
           /\ req'[q].pc = pc
           /\ req'[q].op = req[q].op /\ req'[q].scope = req[q].scope
           /\ req'[q].arg = req[q].arg /\ req'[q].since = req[q].since
           /\ req'[q].seen = req[q].seen
<1>1. Shape(req[q]) /\ req = [p \in Slots |-> req[p]]  BY DEF IInv
<1>2. req'[q] = [req[q] EXCEPT !.pc = pc]  BY <1>1 DEF Goto
<1>3. req' = [req EXCEPT ![q] = req'[q]]  BY <1>1 DEF Goto
<1>4. req[q] = [op |-> req[q].op, scope |-> req[q].scope, arg |-> req[q].arg,
                pc |-> req[q].pc, seen |-> req[q].seen, since |-> req[q].since]
  BY <1>1 DEF Shape
<1>5. req'[q] = [op |-> req[q].op, scope |-> req[q].scope, arg |-> req[q].arg,
                 pc |-> pc, seen |-> req[q].seen, since |-> req[q].since]
  BY <1>2, <1>4
<1>. QED  BY <1>1, <1>2, <1>3, <1>5 DEF Shape

LEMMA ReplyStep ==
    ASSUME IInv, NEW q \in Slots, q \in Busy, UNCHANGED tables, Frame, Reply(q)
    PROVE  IInv'
<1>1. req' = [req EXCEPT ![q] = req'[q]] /\ req'[q] = Idle  BY DEF IInv, Reply
<1>. QED  BY <1>1, QuietStep

\* The checks of the handlers: what they find is what the request knows next.
LEMMA ChecksStep ==
    ASSUME IInv, NEW q \in Slots,
           \/ CheckService(q) \/ GuardService(q) \/ CheckConsumer(q) \/ ServiceExists(q)
           \/ SelectSubscription(q) \/ SelectWebhook(q) \/ SelectScan(q)
           \/ FetchConsumer(q) \/ Drop(q)
    PROVE  IInv'
<1>. DEFINE r == req[q]
<1>1. q \in Busy /\ Frame /\ UNCHANGED tables
  <2>1. CASE Drop(q)  BY <2>1 DEF Drop, Busy
  <2>2. CASE ~ Drop(q)
    <3>1. req[q].op \in Operations
      BY <2>2 DEF CheckService, GuardService, CheckConsumer, ServiceExists, SelectSubscription,
                  SelectWebhook, SelectScan, Select, FetchConsumer, At, Operations
    <3>. QED
      BY <2>2, <3>1, Slot
         DEF CheckService, GuardService, CheckConsumer, ServiceExists, SelectSubscription,
             SelectWebhook, SelectScan, Select, FetchConsumer
  <2>. QED  BY <2>1, <2>2
<1>2. Shape(r) /\ Knows(r)  BY <1>1 DEF IInv
<1>3. CASE Reply(q)  BY <1>1, <1>3, ReplyStep
<1>4. CASE \E pc : Goto(q, pc) /\ Knows([r EXCEPT !.pc = pc])
  <2>1. PICK pc : Goto(q, pc) /\ Knows([r EXCEPT !.pc = pc])  BY <1>4
  <2>2. /\ req' = [req EXCEPT ![q] = req'[q]] /\ Shape(req'[q])
        /\ req'[q] = [r EXCEPT !.pc = pc] /\ req'[q].scope = req[q].scope
    BY <1>1, <2>1, GotoKeepsShape
  <2>. QED  BY <1>1, <2>1, <2>2, QuietStep
<1>5. \A pc : LET n == [r EXCEPT !.pc = pc] IN
          /\ n.op = r.op /\ n.scope = r.scope /\ n.arg = r.arg /\ n.pc = pc
          /\ n.seen = r.seen /\ n.since = r.since
  <2>1. r = [op |-> r.op, scope |-> r.scope, arg |-> r.arg, pc |-> r.pc,
             seen |-> r.seen, since |-> r.since]
    BY <1>2 DEF Shape
  <2>. QED  BY <2>1
<1>. HIDE DEF r
<1>6. CASE CheckService(q)
  <2>1. r.op = "service"  BY <1>6 DEF CheckService, At, r
  <2>2. OwnedOrAbsent(r.arg, r.scope) => Knows([r EXCEPT !.pc = "upsert"])
    BY <1>5, <2>1 DEF Knows
  <2>. QED  BY <1>3, <1>4, <1>6, <2>2 DEF CheckService, r
<1>7. CASE GuardService(q)
  <2>1. r.op \in {"subscribe", "scan"}  BY <1>7 DEF GuardService, At, r
  <2>2. OwnedOrAbsent(ServiceOf(r), r.scope) =>
          Knows([r EXCEPT !.pc = IF r.op = "scan" THEN "select" ELSE "consumer"])
    BY <1>5, <2>1 DEF Knows, ServiceOf
  <2>. QED  BY <1>3, <1>4, <1>7, <2>2 DEF GuardService, r
<1>8. CASE CheckConsumer(q)
  <2>1. r.op = "subscribe" /\ r.pc = "consumer"  BY <1>8 DEF CheckConsumer, At, r
  <2>2. ConsumerUsable(r) => Knows([r EXCEPT !.pc = "exists"])
    BY <1>2, <1>5, <2>1 DEF Knows, ServiceOf, ConsumerUsable
  <2>. QED  BY <1>3, <1>4, <1>8, <2>2 DEF CheckConsumer, r
<1>9. CASE ServiceExists(q)
  <2>1. r.op = "subscribe" /\ r.pc = "exists"  BY <1>9 DEF ServiceExists, At, r
  <2>2. Knows([r EXCEPT !.pc = "select"])
    BY <1>2, <1>5, <2>1 DEF Knows, ServiceOf
  <2>. QED  BY <1>3, <1>4, <1>9, <2>2 DEF ServiceExists, r
<1>10. ASSUME NEW op \in {"subscribe", "webhook", "scan"}, Select(q, op)
       PROVE  IInv'
  <2>1. r.op = op /\ r.pc = "select"  BY <1>10 DEF Select, At, r
  <2>2. Rows([r EXCEPT !.pc = "insert"]) = Rows(r)  BY <1>5 DEF Rows
  <2>3. Rows(r) = {} => Knows([r EXCEPT !.pc = "insert"])
    BY <1>2, <1>5, <2>1, <2>2 DEF Knows, ServiceOf
  <2>. QED  BY <1>3, <1>4, <1>10, <2>3 DEF Select, r
<1>11. CASE FetchConsumer(q) \/ Drop(q)
  BY <1>3, <1>11 DEF FetchConsumer, Drop
<1>. QED
  BY <1>6, <1>7, <1>8, <1>9, <1>10, <1>11 DEF SelectSubscription, SelectWebhook, SelectScan

\* What the sync has fetched, and the token an update keeps.
LEMMA ReadsStep ==
    ASSUME IInv, NEW q \in Slots, FetchOwners(q) \/ SyncDone(q) \/ ReadToken(q)
    PROVE  IInv'
<1>. DEFINE r == req[q]
<1>1. /\ q \in Busy /\ Frame /\ UNCHANGED tables
      /\ r.op \in {"sync", "update env"} /\ (ReadToken(q) <=> r.op = "update env")
  <2>1. r.op \in Operations /\ r.op \in {"sync", "update env"} /\ (ReadToken(q) => r.op = "update env")
           /\ (~ ReadToken(q) => r.op = "sync")
    BY DEF FetchOwners, SyncDone, ReadToken, At, Operations
  <2>2. (r.op = "update env" => ReadToken(q))  BY DEF FetchOwners, SyncDone, At
  <2>. QED  BY <2>1, <2>2, Slot DEF FetchOwners, SyncDone, ReadToken
<1>2. Shape(r) /\ Knows(r) /\ req = [p \in Slots |-> req[p]]  BY <1>1 DEF IInv
<1>3. r = [op |-> r.op, scope |-> r.scope, arg |-> r.arg, pc |-> r.pc,
           seen |-> r.seen, since |-> r.since]
  BY <1>2 DEF Shape
<1>4. CASE Reply(q)  BY <1>1, <1>4, ReplyStep
<1>. DEFINE Puts(pc, seen) == req' = [req EXCEPT ![q].pc = pc, ![q].seen = seen]
<1>5. ASSUME NEW pc, NEW seen, Puts(pc, seen),
             (r.op = "sync" /\ pc = "status") => seen \in {"ok", "error"},
             r.op = "update env" =>
                 /\ seen \in Tokens \cup {None} /\ env[r.arg[1]] # None
                 /\ r.arg[2] = None => env[r.arg[1]].token = seen
      PROVE  IInv'
  <2>1. req' = [req EXCEPT ![q] = req'[q]]  BY <1>2, <1>5
  <2>2. req'[q] = [op |-> r.op, scope |-> r.scope, arg |-> r.arg, pc |-> pc,
                   seen |-> seen, since |-> r.since]
    BY <1>2, <1>3, <1>5
  <2>. DEFINE n == req'[q]
  <2>3. /\ n = [op |-> n.op, scope |-> n.scope, arg |-> n.arg, pc |-> n.pc,
                seen |-> n.seen, since |-> n.since]
        /\ n.op = r.op /\ n.scope = r.scope /\ n.arg = r.arg
        /\ n.pc = pc /\ n.seen = seen
    BY <2>2
  <2>. HIDE DEF n, r
  <2>4. Shape(n)  BY <1>2, <2>3 DEF Shape
  <2>5. Knows(n)  BY <1>1, <1>5, <2>3 DEF Knows
  <2>. QED  BY <1>1, <2>1, <2>3, <2>4, <2>5, QuietStep DEF n, r
<1>6. CASE FetchOwners(q)
  <2>1. r.op # "update env"  BY <1>6 DEF FetchOwners, At
  <2>2. CASE ~ Reply(q)
    <3>1. PICK answered \in BOOLEAN :
            req' = [req EXCEPT ![q].pc = IF answered THEN "owner" ELSE "status",
                               ![q].seen = IF answered THEN req[q].arg ELSE "error"]
      BY <1>6, <2>2 DEF FetchOwners
    <3>2. CASE answered
      <4>1. Puts("owner", r.arg)  BY <3>1, <3>2
      <4>. HIDE DEF Puts
      <4>. QED  BY <1>5, <2>1, <4>1
    <3>3. CASE ~ answered
      <4>1. Puts("status", "error")  BY <3>1, <3>3
      <4>. HIDE DEF Puts
      <4>. QED  BY <1>5, <2>1, <4>1
    <3>. QED  BY <3>2, <3>3
  <2>. QED  BY <1>4, <2>2
<1>7. CASE SyncDone(q)
  <2>1. r.op # "update env"  BY <1>7 DEF SyncDone, At
  <2>. QED  BY <1>5, <1>7, <2>1 DEF SyncDone
<1>8. CASE ReadToken(q)
  <2>1. r.op = "update env" /\ r.arg \in Envs \X (Tokens \cup {None})
    BY <1>2, <1>8 DEF ReadToken, At, Shape
  <2>2. CASE EnvVisible(r)
    <3>1. r.arg[1] \in Envs /\ env[r.arg[1]] \notin {None, Gone}
      BY <2>1, <2>2 DEF EnvVisible, ListEnvs
    <3>2. env[r.arg[1]].token \in Tokens \cup {None}
      BY <3>1 DEF IInv, TypeOK, Scopes
    <3>. QED  BY <1>5, <1>8, <2>1, <2>2, <3>1, <3>2 DEF ReadToken
  <2>. QED  BY <1>4, <1>8, <2>2 DEF ReadToken
<1>. QED  BY <1>6, <1>7, <1>8

-----------------------------------------------------------------------------
(* Steps that change a table.                                              *)

\* A request other than the one that takes the step: it goes nowhere, and may
\* only hear of what was written.
Waits(p) ==
    /\ p \in Busy /\ Shape(req[p])'
    /\ req'[p].op = req[p].op /\ req'[p].scope = req[p].scope
    /\ req'[p].arg = req[p].arg /\ req'[p].pc = req[p].pc
    /\ req'[p].seen = req[p].seen /\ req[p].since \subseteq req'[p].since

LEMMA OthersAfterReply ==
    ASSUME IInv, NEW q \in Slots, q \in Busy, Reply(q)
    PROVE  /\ req' = [p \in Slots |-> req'[p]] /\ req'[q] = Idle
           /\ \A p \in Busy' : p \in Slots /\ p # q /\ Waits(p)
<1>1. req' = [req EXCEPT ![q] = Idle] /\ req = [p \in Slots |-> req[p]]
  BY DEF IInv, Reply
<1>2. \A p \in Busy' : p \in Slots /\ p # q /\ req'[p] = req[p] /\ p \in Busy
  BY <1>1 DEF Busy
<1>3. \A p \in Busy : Shape(req[p])  BY DEF IInv
<1>4. ASSUME NEW p \in Busy' PROVE Shape(req[p])'
  <2>1. req'[p] = req[p] /\ Shape(req[p])  BY <1>2, <1>3
  <2>. QED  BY <2>1, Zenon DEF Shape
<1>. QED  BY <1>1, <1>2, <1>4 DEF Waits

LEMMA OthersAfterCommit ==
    ASSUME IInv, NEW q \in Slots, q \in Busy, NEW thing, CommitAnd(q, thing, Idle)
    PROVE  /\ req' = [p \in Slots |-> req'[p]] /\ req'[q] = Idle
           /\ \A p \in Busy' : p \in Slots /\ p # q /\ Waits(p) /\ thing \in req'[p].since
<1>1. req' = [p \in Slots |-> IF p = q THEN Idle ELSE IF req[p] = Idle THEN Idle
                              ELSE [req[p] EXCEPT !.since = @ \cup {thing}]]
  BY DEF CommitAnd
<1>2. ASSUME NEW p \in Busy'
      PROVE  p \in Slots /\ p # q /\ Waits(p) /\ thing \in req'[p].since
  <2>1. p \in Slots /\ p # q /\ p \in Busy  BY <1>1, <1>2 DEF Busy
  <2>2. req'[p] = [req[p] EXCEPT !.since = @ \cup {thing}]  BY <1>1, <2>1 DEF Busy
  <2>3. Shape(req[p])  BY <2>1 DEF IInv
  <2>. DEFINE r == req[p]  n == req'[p]
  <2>4. r = [op |-> r.op, scope |-> r.scope, arg |-> r.arg, pc |-> r.pc,
             seen |-> r.seen, since |-> r.since]
    BY <2>3 DEF Shape
  <2>5. n = [op |-> r.op, scope |-> r.scope, arg |-> r.arg, pc |-> r.pc,
             seen |-> r.seen, since |-> r.since \cup {thing}]
    BY <2>2, <2>4
  <2>6. /\ n = [op |-> n.op, scope |-> n.scope, arg |-> n.arg, pc |-> n.pc,
                seen |-> n.seen, since |-> n.since]
        /\ n.op = r.op /\ n.scope = r.scope /\ n.arg = r.arg /\ n.pc = r.pc
        /\ n.seen = r.seen /\ n.since = r.since \cup {thing}
    BY <2>5
  <2>7. Shape(req[p])'
    <3>. HIDE DEF r
    <3>1. Shape(r)  BY <2>3 DEF r
    <3>2. /\ n.op \in Operations /\ n.scope \in Scopes
          /\ n.op = "service" => n.arg \in Services
          /\ n.op = "subscribe" => n.arg \in Services \X ConsumerIds
          /\ n.op \in {"webhook", "delete webhook"} => n.arg \in {n.scope} \X Urls
          /\ n.op \in {"scan", "delete scan"} => n.arg \in {n.scope} \X Services \X Urls
          /\ n.op \in {"rule", "toggle rule", "delete rule"} => n.arg \in {n.scope} \X Names
          /\ n.op \in {"consumer", "upsert consumer"} => n.arg \in Names
          /\ n.op \in {"env", "update env", "delete env"}
                => n.arg \in Envs \X (Tokens \cup {None})
      <4>. HIDE DEF n
      <4>. QED  BY <2>6, <3>1 DEF Shape
    <3>. QED  BY <2>6, <3>2 DEF Shape
  <2>. QED  BY <2>1, <2>6, <2>7 DEF Waits
<1>3. req'[q] = Idle  BY <1>1
<1>4. req' = [p \in Slots |-> req'[p]]  BY <1>1
<1>. QED  BY <1>2, <1>3, <1>4

\* What a waiting request knows stays true under three conditions on the tables.
LEMMA KnowsStays ==
    ASSUME NEW p \in Slots, Waits(p), Knows(req[p]), Shape(req[p]),
           \A s \in Services : (<<"service", s>> \notin req'[p].since
                                  /\ OwnedOrAbsent(s, req[p].scope)) => OwnedOrAbsent(s, req[p].scope)',
           (/\ req[p].op \in {"subscribe", "webhook", "scan"} /\ Rows(req[p]) = {}
            /\ <<TableOf(req[p].op), req[p].arg>> \notin req'[p].since)
              => Rows(req[p])' = {},
           \A e \in Envs : env[e] # None =>
              \/ <<"env", e>> \in req'[p].since /\ env'[e] # None
              \/ env'[e] \in {env[e], Gone}
    PROVE  Knows(req[p])'
<1>. DEFINE r == req[p]  n == req'[p]
<1>1. /\ n.op = r.op /\ n.scope = r.scope /\ n.arg = r.arg /\ n.pc = r.pc /\ n.seen = r.seen
      /\ r.since \subseteq n.since
  BY DEF Waits
<1>2. (r.op \in {"subscribe", "scan"} => ServiceOf(r) \in Services) /\ ServiceOf(n) = ServiceOf(r)
  BY <1>1 DEF ServiceOf, Shape
<1>3. (/\ n.op \in {"subscribe", "scan"} /\ n.pc # "guard"
       /\ <<"service", ServiceOf(n)>> \notin n.since)
         => OwnedOrAbsent(ServiceOf(r), r.scope)'
  <2>. SUFFICES ASSUME n.op \in {"subscribe", "scan"}, n.pc # "guard",
                       <<"service", ServiceOf(n)>> \notin n.since
                PROVE  OwnedOrAbsent(ServiceOf(r), r.scope)'
    OBVIOUS
  <2>1. OwnedOrAbsent(ServiceOf(r), r.scope)  BY <1>1, <1>2 DEF Knows
  <2>2. OwnedOrAbsent(ServiceOf(r), req[p].scope)'  BY <1>1, <1>2, <2>1 DEF OwnedOrAbsent
  <2>. QED  BY <1>1, <1>2, <2>2 DEF OwnedOrAbsent
<1>4. (n.op = "service" /\ n.pc = "upsert" /\ <<"service", n.arg>> \notin n.since)
         => OwnedOrAbsent(r.arg, r.scope)'
  BY <1>1 DEF Knows, Shape, OwnedOrAbsent
<1>5. (n.op = "subscribe" /\ n.pc \notin {"guard", "consumer"}) => MayAccess(n.arg[2].org, n.scope)
  BY <1>1 DEF Knows
<1>6. (/\ n.op \in {"subscribe", "webhook", "scan"} /\ n.pc = "insert"
       /\ <<TableOf(n.op), n.arg>> \notin n.since)
          => Rows(req[p])' = {}
  BY <1>1 DEF Knows
<1>7. (n.op = "update env" /\ n.pc = "update")
         => /\ n.seen \in Tokens \cup {None}
            /\ env'[n.arg[1]] # None
            /\ (n.arg[2] = None /\ <<"env", n.arg[1]>> \notin n.since)
                 => env'[n.arg[1]] = Gone \/ env'[n.arg[1]].token = n.seen
  <2>. SUFFICES ASSUME n.op = "update env", n.pc = "update"
                PROVE  /\ n.seen \in Tokens \cup {None}
                       /\ env'[n.arg[1]] # None
                       /\ (n.arg[2] = None /\ <<"env", n.arg[1]>> \notin n.since)
                            => env'[n.arg[1]] = Gone \/ env'[n.arg[1]].token = n.seen
    OBVIOUS
  <2>1. n.arg[1] \in Envs  BY <1>1 DEF Shape
  <2>2. /\ r.seen \in Tokens \cup {None} /\ env[r.arg[1]] # None
        /\ (r.arg[2] = None /\ <<"env", r.arg[1]>> \notin r.since)
             => env[r.arg[1]] = Gone \/ env[r.arg[1]].token = r.seen
    BY <1>1 DEF Knows
  <2>. QED  BY <1>1, <2>1, <2>2
<1>8. (n.op = "sync" /\ n.pc = "status") => n.seen \in {"ok", "error"}
  BY <1>1 DEF Knows
<1>. QED
  BY <1>3, <1>4, <1>5, <1>6, <1>7, <1>8 DEF Knows, ServiceOf

\* What is left to show of a step that changes services, rows or environments.
LEMMA TableStep ==
    ASSUME IInv, Frame, TypeOK', RowsAreSound', LinksStayInOrg',
           req' = [p \in Slots |-> req'[p]],
           \A p \in Busy' : Waits(p) /\ Knows(req[p])',
           ~ config.jwt => \A s \in Services : service'[s] \in {None, Blank}
    PROVE  IInv'
<1>1. SessionNamesAnOrg'  BY DEF IInv, SessionNamesAnOrg, Frame, sessionVars
<1>2. Tenancy'  BY DEF IInv, Tenancy, Waits, Frame, sessionVars
<1>3. \A p \in Busy' : Shape(req[p])'  BY DEF Waits
<1>. QED  BY <1>1, <1>2, <1>3 DEF IInv

\* The types of what a step of a request leaves alone.
LEMMA FrameTypes ==
    ASSUME IInv, Frame, \A p \in Busy' : Waits(p),
           service' \in [Services -> {None} \cup Scopes],
           env' \in [Envs -> {None, Gone} \cup [org : Scopes, token : Tokens \cup {None}]],
           \A x \in row' : x.table \in {"subscription", "webhook", "scan", "rule"},
           UNCHANGED <<consumer, source>>
    PROVE  TypeOK'
BY DEF IInv, TypeOK, SessionTypeOK, Frame, sessionVars, Waits

\* The upsert: whoever did not hear of it has another service in mind.
LEMMA UpsertStep ==
    ASSUME IInv, NEW q \in Slots, UpsertService(q)
    PROVE  IInv'
<1>. DEFINE s0 == req[q].arg
<1>1. q \in Busy /\ Shape(req[q]) /\ s0 \in Services /\ req[q].scope \in Scopes
  <2>1. req[q].op \in Operations  BY DEF UpsertService, At, Operations
  <2>2. q \in Busy /\ Shape(req[q])  BY <2>1, Slot
  <2>. QED  BY <2>2 DEF UpsertService, At, Shape
<1>2. /\ CommitAnd(q, <<"service", s0>>, Idle) /\ Frame /\ UNCHANGED <<consumer, row, env, source>>
      /\ service' = [service EXCEPT ![s0] = Upserted(service[s0], req[q].scope)]
  BY DEF UpsertService
<1>3. /\ req' = [p \in Slots |-> req'[p]]
      /\ \A p \in Busy' : p \in Slots /\ Waits(p) /\ <<"service", s0>> \in req'[p].since
  BY <1>1, <1>2, OthersAfterCommit
<1>4. service \in [Services -> {None} \cup Scopes]  BY DEF IInv, TypeOK
<1>5. \A s \in Services : (s # s0 \/ service[s] # None) => service'[s] = service[s]
  BY <1>1, <1>2, <1>4 DEF Upserted
<1>6. service' \in [Services -> {None} \cup Scopes]  BY <1>1, <1>2, <1>4 DEF Upserted
<1>7. TypeOK'
  <2>1. /\ env \in [Envs -> {None, Gone} \cup [org : Scopes, token : Tokens \cup {None}]]
        /\ \A x \in row : x.table \in {"subscription", "webhook", "scan", "rule"}
    BY DEF IInv, TypeOK
  <2>. QED  BY <1>2, <1>3, <1>6, <2>1, FrameTypes
<1>8. RowsAreSound'
  BY <1>2, <1>5 DEF IInv, RowsAreSound
<1>9. LinksStayInOrg'
  BY <1>2, <1>5 DEF IInv, RowsAreSound, LinksStayInOrg
<1>10. ASSUME NEW p \in Busy'
       PROVE  Knows(req[p])'
  <2>1. p \in Slots /\ Waits(p) /\ <<"service", s0>> \in req'[p].since  BY <1>3
  <2>2. Shape(req[p]) /\ Knows(req[p])  BY <2>1 DEF Waits, IInv
  <2>3. \A s \in Services : (<<"service", s>> \notin req'[p].since
              /\ OwnedOrAbsent(s, req[p].scope)) => OwnedOrAbsent(s, req[p].scope)'
    BY <1>5, <2>1 DEF OwnedOrAbsent, Waits
  <2>4. Rows(req[p])' = Rows(req[p])  BY <1>2, <2>1 DEF Rows, Waits
  <2>. QED  BY <1>2, <2>1, <2>2, <2>3, <2>4, KnowsStays
<1>11. ~ config.jwt => \A s \in Services : service'[s] \in {None, Blank}
  BY <1>1, <1>2, <1>5 DEF IInv, Tenancy, Upserted
<1>. QED  BY <1>2, <1>3, <1>7, <1>8, <1>9, <1>10, <1>11, TableStep

LEMMA NewRowIs ==
    ASSUME NEW r
    PROVE  /\ NewRow(r).table = TableOf(r.op) /\ NewRow(r).key = r.arg
           /\ (r.op \in {"subscribe", "scan"} /\ ~ NewRow(r).blind) =>
                 service[ServiceOf(r)] # None /\ <<"service", ServiceOf(r)>> \notin r.since
<1>. DEFINE b == /\ r.op \in {"subscribe", "scan"}
                 /\ \/ service[ServiceOf(r)] = None
                    \/ <<"service", ServiceOf(r)>> \in r.since
<1>1. NewRow(r) = [table |-> TableOf(r.op), key |-> r.arg, enabled |-> TRUE,
                   copy |-> NewId(r), blind |-> b]
  BY DEF NewRow
<1>. HIDE DEF b
<1>2. NewRow(r).table = TableOf(r.op) /\ NewRow(r).key = r.arg /\ NewRow(r).blind = b
  BY <1>1
<1>. QED  BY <1>2 DEF b

\* A new subscription or scan that saw its service stays in the organisation.
LEMMA InsertStep ==
    ASSUME IInv, NEW q \in Slots, NEW op \in {"subscribe", "webhook", "scan", "rule"},
           Insert(q, op)
    PROVE  IInv'
<1>. DEFINE r == req[q]  x0 == NewRow(req[q])
<1>1. q \in Busy /\ Shape(r) /\ Knows(r) /\ r.op = op /\ r.pc = "insert"
  <2>1. r.op = op /\ r.pc = "insert"  BY DEF Insert, At
  <2>2. r.op \in Operations  BY <2>1 DEF Operations
  <2>. QED  BY <2>1, <2>2, Slot
<1>2. /\ CommitAnd(q, <<TableOf(op), r.arg>>, Idle) /\ row' = row \cup {x0}
      /\ Frame /\ UNCHANGED <<service, consumer, env, source>>
  BY DEF Insert
<1>3. /\ req' = [p \in Slots |-> req'[p]]
      /\ \A p \in Busy' : p \in Slots /\ Waits(p) /\ <<TableOf(op), r.arg>> \in req'[p].since
  BY <1>1, <1>2, OthersAfterCommit
<1>4. /\ x0.table = TableOf(op) /\ x0.key = r.arg
      /\ (op \in {"subscribe", "scan"} /\ ~ x0.blind) =>
            service[ServiceOf(r)] # None /\ <<"service", ServiceOf(r)>> \notin r.since
  BY <1>1, NewRowIs
<1>5. /\ TableOf("subscribe") = "subscription" /\ TableOf("webhook") = "webhook"
      /\ TableOf("scan") = "scan" /\ TableOf("rule") = "rule"
  BY DEF TableOf
<1>. HIDE DEF x0, r
<1>6. TypeOK'
  BY <1>2, <1>3, <1>4, <1>5, FrameTypes DEF IInv, TypeOK
<1>7. /\ x0.table = "subscription" =>
            op = "subscribe" /\ x0.key \in Services \X ConsumerIds /\ ServiceOf(r) = x0.key[1]
      /\ x0.table = "scan" =>
            op = "scan" /\ x0.key \in Scopes \X Services \X Urls /\ ServiceOf(r) = x0.key[2]
            /\ x0.key[1] = r.scope
  BY <1>1, <1>4, <1>5 DEF Shape, ServiceOf
<1>8. RowsAreSound'
  BY <1>2, <1>4, <1>7 DEF IInv, RowsAreSound
<1>9. LinksStayInOrg'
  <2>1. ASSUME x0.table = "subscription", ~ x0.blind
        PROVE  MayAccess(service[x0.key[1]], x0.key[2].org)
    <3>1. service[x0.key[1]] # None /\ OwnedOrAbsent(x0.key[1], r.scope)
      BY <1>1, <1>4, <1>7, <2>1 DEF Knows
    <3>2. MayAccess(x0.key[2].org, r.scope)  BY <1>1, <1>4, <1>7, <2>1 DEF Knows
    <3>3. x0.key[1] \in Services  BY <1>7, <2>1
    <3>4. CASE config.jwt
      <4>1. r.scope # Blank  BY <1>1, <3>4 DEF IInv, Tenancy, r
      <4>. QED  BY <3>1, <3>2, <4>1 DEF OwnedOrAbsent, MayAccess
    <3>5. CASE ~ config.jwt
      <4>1. service[x0.key[1]] = Blank  BY <3>1, <3>3, <3>5 DEF IInv, Tenancy
      <4>. QED  BY <4>1 DEF MayAccess
    <3>. QED  BY <3>4, <3>5
  <2>2. ASSUME x0.table = "scan", ~ x0.blind
        PROVE  MayAccess(service[x0.key[2]], x0.key[1])
    <3>1. service[x0.key[2]] # None /\ OwnedOrAbsent(x0.key[2], r.scope)
      BY <1>1, <1>4, <1>7, <2>2 DEF Knows
    <3>. QED  BY <1>7, <2>2, <3>1 DEF OwnedOrAbsent
  <2>. QED  BY <1>2, <2>1, <2>2 DEF IInv, LinksStayInOrg
<1>10. ASSUME NEW p \in Busy'
       PROVE  Knows(req[p])'
  <2>1. p \in Slots /\ Waits(p) /\ <<TableOf(op), r.arg>> \in req'[p].since  BY <1>3
  <2>2. Shape(req[p]) /\ Knows(req[p])  BY <2>1 DEF Waits, IInv
  <2>3. \A s \in Services : OwnedOrAbsent(s, req[p].scope) => OwnedOrAbsent(s, req[p].scope)'
    BY <1>2, <2>1 DEF OwnedOrAbsent, Waits
  <2>4. ASSUME Rows(req[p]) = {}, <<TableOf(req[p].op), req[p].arg>> \notin req'[p].since
        PROVE  Rows(req[p])' = {}
    <3>1. x0.table # TableOf(req[p].op) \/ x0.key # req[p].arg  BY <1>4, <2>1, <2>4
    <3>. QED  BY <1>2, <2>1, <2>4, <3>1 DEF Rows, Waits
  <2>. QED  BY <1>2, <2>1, <2>2, <2>3, <2>4, KnowsStays
<1>11. ~ config.jwt => \A s \in Services : service'[s] \in {None, Blank}
  BY <1>2 DEF IInv, Tenancy
<1>. QED  BY <1>2, <1>3, <1>6, <1>8, <1>9, <1>10, <1>11, TableStep

\* Rows that go or are switched are in nobody's way: what is looked for by
\* SELECT and INSERT only disappears, and rules are not looked for.
LEMMA RowStep ==
    ASSUME IInv, NEW q \in Slots, DeleteRow(q) \/ ToggleRule(q)
    PROVE  IInv'
<1>1. /\ req[q].op \in {"delete webhook", "delete scan", "delete rule", "toggle rule"}
      /\ ToggleRule(q) => TableOf(req[q].op) = "rule"
      /\ Reply(q) /\ Frame /\ UNCHANGED <<service, consumer, env, source>>
  BY DEF DeleteRow, ToggleRule, At, TableOf
<1>2. q \in Busy
  <2>1. req[q].op \in Operations  BY <1>1 DEF Operations
  <2>. QED  BY <2>1, Slot
<1>3. /\ req' = [p \in Slots |-> req'[p]]
      /\ \A p \in Busy' : p \in Slots /\ Waits(p)
  BY <1>1, <1>2, OthersAfterReply
<1>4. \A y \in row' : y \in row \/ y.table = "rule"
  <2>1. CASE DeleteRow(q)  BY <2>1 DEF DeleteRow
  <2>2. CASE ToggleRule(q)
    <3>1. PICK x \in Named(req[q]), on \in BOOLEAN :
                 row' = (row \ {x}) \cup {[x EXCEPT !.enabled = on]}
      BY <2>2 DEF ToggleRule
    <3>2. x.table = "rule" /\ x \in row  BY <1>1, <2>2, <3>1 DEF Named, ListRows
    <3>3. [x EXCEPT !.enabled = on].table = "rule"  BY <3>2
    <3>. QED  BY <3>1, <3>3
  <2>. QED  BY <2>1, <2>2
<1>5. TypeOK'  BY <1>1, <1>3, <1>4, FrameTypes DEF IInv, TypeOK
<1>6. RowsAreSound' /\ LinksStayInOrg'
  BY <1>1, <1>4 DEF IInv, RowsAreSound, LinksStayInOrg
<1>7. ASSUME NEW p \in Busy'
      PROVE  Knows(req[p])'
  <2>1. p \in Slots /\ Waits(p)  BY <1>3
  <2>2. Shape(req[p]) /\ Knows(req[p])  BY <2>1 DEF Waits, IInv
  <2>3. \A s \in Services : OwnedOrAbsent(s, req[p].scope) => OwnedOrAbsent(s, req[p].scope)'
    BY <1>1, <2>1 DEF OwnedOrAbsent, Waits
  <2>4. (req[p].op \in {"subscribe", "webhook", "scan"} /\ Rows(req[p]) = {})
          => Rows(req[p])' = {}
    BY <1>4, <2>1 DEF Rows, Waits, TableOf
  <2>. QED  BY <1>1, <2>1, <2>2, <2>3, <2>4, KnowsStays
<1>8. ~ config.jwt => \A s \in Services : service'[s] \in {None, Blank}
  BY <1>1 DEF IInv, Tenancy
<1>. QED  BY <1>1, <1>3, <1>5, <1>6, <1>7, <1>8, TableStep

\* Consumers and catalog sources.
LEMMA CatalogStep ==
    ASSUME IInv, NEW q \in Slots,
           InsertConsumer(q) \/ CreateSource(q) \/ SyncOwner(q) \/ SyncStatus(q)
    PROVE  IInv'
<1>. DEFINE r == req[q]
<1>1. r.op \in {"consumer", "upsert consumer", "catalog", "sync"}
  BY DEF InsertConsumer, CreateSource, SyncOwner, SyncStatus, At
<1>2. q \in Busy /\ Shape(r) /\ Knows(r) /\ r.scope \in Scopes
  <2>1. r.op \in Operations  BY <1>1 DEF Operations
  <2>2. q \in Busy /\ Shape(r) /\ Knows(r)  BY <2>1, Slot
  <2>. QED  BY <2>2 DEF Shape
<1>3. Frame /\ UNCHANGED <<service, row, env>>
  BY DEF InsertConsumer, CreateSource, SyncOwner, SyncStatus
<1>4. /\ consumer \subseteq [org : Scopes, name : Names,
                             source : {"manual", "collection_file", "catalog"}]
      /\ source \in [Scopes -> {None, "never", "ok", "error"}]
  BY DEF IInv, TypeOK
<1>5. req = [p \in Slots |-> req[p]]  BY DEF IInv
<1>6. ASSUME Reply(q) \/ \E pc : Goto(q, pc) /\ pc # "status",
             consumer' \subseteq [org : Scopes, name : Names,
                                  source : {"manual", "collection_file", "catalog"}],
             source' \in [Scopes -> {None, "never", "ok", "error"}]
      PROVE  IInv'
  <2>1. CASE Reply(q)
    <3>1. req' = [req EXCEPT ![q] = req'[q]] /\ req'[q] = Idle  BY <1>5, <2>1 DEF Reply
    <3>. QED  BY <1>2, <1>3, <1>6, <3>1, SideStep
  <2>2. CASE \E pc : Goto(q, pc) /\ pc # "status"
    <3>1. PICK pc : Goto(q, pc) /\ pc # "status"  BY <2>2
    <3>. DEFINE n == req'[q]
    <3>2. /\ req' = [req EXCEPT ![q] = req'[q]] /\ Shape(req'[q]) /\ req'[q].pc = pc
          /\ req'[q].op = req[q].op /\ req'[q].scope = req[q].scope
      <4>1. Goto(q, pc)  BY <3>1
      <4>. QED  BY <1>2, <4>1, GotoKeepsShape
    <3>3. Knows(n)
      <4>1. n.op = r.op /\ n.pc # "status"  BY <3>1, <3>2
      <4>. HIDE DEF n, r
      <4>. QED  BY <1>1, <4>1 DEF Knows
    <3>. QED  BY <1>2, <1>3, <1>6, <3>2, <3>3, SideStep
  <2>. QED  BY <1>6, <2>1, <2>2
<1>7. CASE InsertConsumer(q)
  <2>1. r.op \in {"consumer", "upsert consumer"}  BY <1>7 DEF InsertConsumer, At
  <2>2. r.arg \in Names  BY <1>2, <2>1 DEF Shape
  <2>. DEFINE c == [org |-> r.scope, name |-> r.arg,
                    source |-> IF r.op = "consumer" THEN "manual" ELSE "collection_file"]
  <2>3. c \in [org : Scopes, name : Names, source : {"manual", "collection_file", "catalog"}]
    BY <1>2, <2>2
  <2>4. consumer' \subseteq consumer \cup {c} /\ source' = source
    BY <1>7 DEF InsertConsumer
  <2>5. Reply(q) \/ Goto(q, "fetch")  BY <1>7 DEF InsertConsumer
  <2>. HIDE DEF c
  <2>. QED  BY <1>4, <1>6, <2>3, <2>4, <2>5
<1>8. CASE CreateSource(q)
  <2>1. Reply(q) /\ source' = [source EXCEPT ![r.scope] = "never"] /\ consumer' = consumer
    BY <1>8 DEF CreateSource
  <2>2. source' \in [Scopes -> {None, "never", "ok", "error"}]  BY <1>2, <1>4, <2>1
  <2>. QED  BY <1>4, <1>6, <2>1, <2>2
<1>9. CASE SyncStatus(q)
  <2>1. r.op = "sync" /\ r.pc = "status" /\ Reply(q)
        /\ source' = [source EXCEPT ![r.scope] = r.seen] /\ consumer' = consumer
    BY <1>9 DEF SyncStatus, At
  <2>2. r.seen \in {"ok", "error"}  BY <1>2, <2>1 DEF Knows
  <2>3. source' \in [Scopes -> {None, "never", "ok", "error"}]
    BY <1>2, <1>4, <2>1, <2>2
  <2>. QED  BY <1>4, <1>6, <2>1, <2>3
<1>10. CASE SyncOwner(q)
  <2>1. PICK name \in r.seen : /\ consumer' \in {consumer, Synced(r.scope, name)}
                               /\ req' = [req EXCEPT ![q].seen = @ \ {name}]
    BY <1>10 DEF SyncOwner
  <2>2. r.op = "sync" /\ r.pc = "owner" /\ source' = source  BY <1>10 DEF SyncOwner, At
  <2>3. \A x \in consumer : [x EXCEPT !.source = "catalog"] \in
             [org : Scopes, name : Names, source : {"manual", "collection_file", "catalog"}]
    BY <1>4
  <2>4. Synced(r.scope, name) \subseteq
             [org : Scopes, name : Names, source : {"manual", "collection_file", "catalog"}]
    BY <1>4, <2>3 DEF Synced
  <2>. DEFINE n == req'[q]
  <2>5. r = [op |-> r.op, scope |-> r.scope, arg |-> r.arg, pc |-> r.pc,
             seen |-> r.seen, since |-> r.since]
    BY <1>2 DEF Shape
  <2>6. req' = [req EXCEPT ![q] = n]  BY <1>2, <1>5, <2>1
  <2>7. n = [op |-> r.op, scope |-> r.scope, arg |-> r.arg, pc |-> r.pc,
             seen |-> r.seen \ {name}, since |-> r.since]
    BY <1>2, <1>5, <2>1, <2>5
  <2>8. /\ n = [op |-> n.op, scope |-> n.scope, arg |-> n.arg, pc |-> n.pc,
                seen |-> n.seen, since |-> n.since]
        /\ n.op = "sync" /\ n.scope = r.scope /\ n.pc = "owner"
    BY <2>2, <2>7
  <2>9. Shape(n) /\ Knows(n)
    <3>. HIDE DEF n, r
    <3>. QED  BY <1>2, <2>8 DEF Shape, Knows, Operations
  <2>. QED  BY <1>2, <1>3, <1>4, <2>1, <2>2, <2>4, <2>6, <2>8, <2>9, SideStep
<1>. QED  BY <1>7, <1>8, <1>9, <1>10

\* Environments: an id is used once, and a write is heard of by the updates
\* that have read the row.
LEMMA EnvStep ==
    ASSUME IInv, NEW q \in Slots, CreateEnv(q) \/ UpdateEnv(q) \/ DeleteEnv(q)
    PROVE  IInv'
<1>. DEFINE r == req[q]  e0 == req[q].arg[1]
<1>1. r.op \in {"env", "update env", "delete env"}
      /\ (UpdateEnv(q) => r.op = "update env" /\ r.pc = "update")
  BY DEF CreateEnv, UpdateEnv, DeleteEnv, At
<1>2. /\ q \in Busy /\ Shape(r) /\ Knows(r) /\ r.scope \in Scopes
      /\ e0 \in Envs /\ r.arg[2] \in Tokens \cup {None}
  <2>1. r.op \in Operations  BY <1>1 DEF Operations
  <2>2. q \in Busy /\ Shape(r) /\ Knows(r)  BY <2>1, Slot
  <2>. QED  BY <1>1, <2>2 DEF Shape
<1>3. Frame /\ UNCHANGED <<service, consumer, row, source>>
  BY DEF CreateEnv, UpdateEnv, DeleteEnv
<1>4. env \in [Envs -> {None, Gone} \cup [org : Scopes, token : Tokens \cup {None}]]
  BY DEF IInv, TypeOK
<1>5. /\ req' = [p \in Slots |-> req'[p]]
      /\ \A p \in Busy' : p \in Slots /\ Waits(p)
      /\ UpdateEnv(q) => \A p \in Busy' : <<"env", e0>> \in req'[p].since
  <2>1. CASE UpdateEnv(q)
    <3>1. CommitAnd(q, <<"env", e0>>, Idle)  BY <2>1 DEF UpdateEnv
    <3>. QED  BY <1>2, <3>1, OthersAfterCommit
  <2>2. CASE Reply(q) /\ ~ UpdateEnv(q)  BY <1>2, <2>2, OthersAfterReply
  <2>. QED  BY <2>1, <2>2 DEF CreateEnv, DeleteEnv
<1>6. /\ env' \in [Envs -> {None, Gone} \cup [org : Scopes, token : Tokens \cup {None}]]
      /\ \A e \in Envs : env[e] # None =>
            (UpdateEnv(q) /\ e = e0 /\ env'[e] # None) \/ env'[e] \in {env[e], Gone}
  <2>1. CASE CreateEnv(q)
    <3>1. env[e0] = None /\ env' = [env EXCEPT ![e0] = [org |-> r.scope, token |-> r.arg[2]]]
      BY <2>1 DEF CreateEnv
    <3>. QED  BY <1>2, <1>4, <3>1
  <2>2. CASE UpdateEnv(q)
    <3>1. r.seen \in Tokens \cup {None}  BY <1>1, <1>2, <2>2 DEF Knows
    <3>2. CASE ~ EnvVisible(r)  BY <1>4, <2>2, <3>2 DEF UpdateEnv
    <3>3. CASE EnvVisible(r)
      <4>1. env[e0] \in [org : Scopes, token : Tokens \cup {None}]
        BY <1>2, <1>4, <3>3 DEF EnvVisible, ListEnvs
      <4>2. env' = [env EXCEPT ![e0] = [env[e0] EXCEPT !.token = r.seen]]
        BY <2>2, <3>3 DEF UpdateEnv
      <4>3. [env[e0] EXCEPT !.token = r.seen] \in [org : Scopes, token : Tokens \cup {None}]
        BY <3>1, <4>1
      <4>4. [env[e0] EXCEPT !.token = r.seen] # None  BY <4>3 DEF Scopes
      <4>. QED  BY <1>2, <1>4, <2>2, <4>2, <4>3, <4>4
    <3>. QED  BY <3>2, <3>3
  <2>3. CASE DeleteEnv(q)
    <3>1. env' = env \/ env' = [env EXCEPT ![e0] = Gone]  BY <2>3 DEF DeleteEnv
    <3>. QED  BY <1>2, <1>4, <3>1
  <2>. QED  BY <2>1, <2>2, <2>3
<1>7. TypeOK'
  BY <1>3, <1>5, <1>6, FrameTypes DEF IInv, TypeOK
<1>8. RowsAreSound' /\ LinksStayInOrg'
  BY <1>3 DEF IInv, RowsAreSound, LinksStayInOrg
<1>9. ASSUME NEW p \in Busy'
      PROVE  Knows(req[p])'
  <2>1. p \in Slots /\ Waits(p)  BY <1>5
  <2>2. Shape(req[p]) /\ Knows(req[p])  BY <2>1 DEF Waits, IInv
  <2>3. \A s \in Services : OwnedOrAbsent(s, req[p].scope) => OwnedOrAbsent(s, req[p].scope)'
    BY <1>3, <2>1 DEF OwnedOrAbsent, Waits
  <2>4. Rows(req[p])' = Rows(req[p])  BY <1>3, <2>1 DEF Rows, Waits
  <2>5. \A e \in Envs : env[e] # None =>
              (<<"env", e>> \in req'[p].since /\ env'[e] # None) \/ env'[e] \in {env[e], Gone}
    BY <1>5, <1>6, <1>9
  <2>. QED  BY <2>1, <2>2, <2>3, <2>4, <2>5, KnowsStays
<1>10. ~ config.jwt => \A s \in Services : service'[s] \in {None, Blank}
  BY <1>3 DEF IInv, Tenancy
<1>. QED  BY <1>3, <1>5, <1>7, <1>8, <1>9, <1>10, TableStep

-----------------------------------------------------------------------------
(* The invariant.                                                          *)

LEMMA InitInv ==
    ASSUME Init
    PROVE  IInv
<1>1. SessionTypeOK /\ SessionNamesAnOrg
  <2>1. session \in [Callers -> {None} \cup {[org |-> o, of |-> 0] : o \in Orgs}]
    BY DEF Init, SessionInit
  <2>2. \A c \in Callers : session[c] # None =>
            session[c] \in Claims /\ session[c].org \in Orgs
    <3>. SUFFICES ASSUME NEW c \in Callers, session[c] # None
                  PROVE  session[c] \in Claims /\ session[c].org \in Orgs
      OBVIOUS
    <3>1. PICK o \in Orgs : session[c] = [org |-> o, of |-> 0]  BY <2>1
    <3>2. 0 \in 0 .. MaxLogins  OBVIOUS
    <3>. QED  BY <3>1, <3>2 DEF Claims
  <2>3. session \in [Callers -> {None} \cup Claims]  BY <2>1, <2>2
  <2>. QED  BY <2>2, <2>3 DEF Init, SessionInit, SessionTypeOK, SessionNamesAnOrg
<1>2. Busy = {}  BY DEF Init, Busy
<1>3. consumer \subseteq [org : Scopes, name : Names,
                          source : {"manual", "collection_file", "catalog"}]
  BY DEF Init
<1>4. TypeOK  BY <1>1, <1>2, <1>3 DEF Init, TypeOK, Scopes
<1>5. Tenancy  BY <1>2 DEF Init, SessionInit, Tenancy
<1>6. RowsAreSound /\ LinksStayInOrg /\ req = [q \in Slots |-> req[q]]
  BY DEF Init, RowsAreSound, LinksStayInOrg
<1>. QED  BY <1>1, <1>2, <1>4, <1>5, <1>6 DEF IInv

\* A request arrives with rows under its own scope, and knows nothing yet.
LEMMA NewRequest ==
    ASSUME NEW scope \in Scopes, NEW r \in Requests(scope)
    PROVE  Shape(r) /\ Knows(r) /\ r.scope = scope
<1>1. ASSUME NEW op, NEW arg, NEW pc, r = Request(op, scope, arg, pc)
      PROVE  /\ r = [op |-> r.op, scope |-> r.scope, arg |-> r.arg, pc |-> r.pc,
                     seen |-> r.seen, since |-> r.since]
             /\ r.op = op /\ r.scope = scope /\ r.arg = arg /\ r.pc = pc
  BY <1>1 DEF Request
<1>2. ASSUME NEW s \in Services,
             r = Request("service", scope, s, IF scope = Blank THEN "upsert" ELSE "check")
      PROVE  Shape(r) /\ Knows(r) /\ r.scope = scope
  <2>1. /\ r = [op |-> r.op, scope |-> r.scope, arg |-> r.arg, pc |-> r.pc,
                seen |-> r.seen, since |-> r.since]
        /\ r.op = "service" /\ r.scope = scope /\ r.arg = s
        /\ r.pc = IF scope = Blank THEN "upsert" ELSE "check"
    BY <1>1, <1>2
  <2>. QED  BY <2>1 DEF Shape, Knows, Operations, OwnedOrAbsent, MayAccess
<1>3. ASSUME NEW op \in Operations \ {"service"}, NEW arg,
             NEW pc \in {"guard", "select", "insert", "fetch", "delete"},
             op \in {"subscribe", "scan"} => pc = "guard",
             op = "webhook" => pc = "select",
             r = Request(op, scope, arg, pc),
             op = "subscribe" => arg \in Services \X ConsumerIds,
             op \in {"webhook", "delete webhook"} => arg \in {scope} \X Urls,
             op \in {"scan", "delete scan"} => arg \in {scope} \X Services \X Urls,
             op \in {"rule", "toggle rule", "delete rule"} => arg \in {scope} \X Names,
             op \in {"consumer", "upsert consumer"} => arg \in Names,
             op \in {"env", "update env", "delete env"} => arg \in Envs \X (Tokens \cup {None})
      PROVE  Shape(r) /\ Knows(r) /\ r.scope = scope
  <2>1. /\ r = [op |-> r.op, scope |-> r.scope, arg |-> r.arg, pc |-> r.pc,
                seen |-> r.seen, since |-> r.since]
        /\ r.op = op /\ r.scope = scope /\ r.arg = arg /\ r.pc = pc
    BY <1>1, <1>3
  <2>2. Shape(r)  BY <1>3, <2>1 DEF Shape
  <2>3. Knows(r)  BY <1>3, <2>1 DEF Knows
  <2>. QED  BY <2>1, <2>2, <2>3
<1>4. CASE \E s \in Services :
             r = Request("service", scope, s, IF scope = Blank THEN "upsert" ELSE "check")
  BY <1>2, <1>4
<1>5. CASE \E a \in Services \X ConsumerIds : r = Request("subscribe", scope, a, "guard")
  BY <1>3, <1>5 DEF Operations
<1>6. CASE \E a \in {scope} \X Urls : r = Request("webhook", scope, a, "select")
  BY <1>3, <1>6 DEF Operations
<1>7. CASE \E a \in {scope} \X Urls : r = Request("delete webhook", scope, a, "select")
  BY <1>3, <1>7 DEF Operations
<1>8. CASE \E a \in {scope} \X Services \X Urls : r = Request("scan", scope, a, "guard")
  BY <1>3, <1>8 DEF Operations
<1>9. CASE \E a \in {scope} \X Services \X Urls : r = Request("delete scan", scope, a, "select")
  BY <1>3, <1>9 DEF Operations
<1>10. CASE \E a \in Names : r = Request("consumer", scope, a, "insert")
  BY <1>3, <1>10 DEF Operations
<1>11. CASE \E a \in Names : r = Request("upsert consumer", scope, a, "insert")
  BY <1>3, <1>11 DEF Operations
<1>12. CASE r = Request("catalog", scope, None, "insert")
  BY <1>3, <1>12 DEF Operations
<1>13. CASE \E a \in SUBSET Names : r = Request("sync", scope, a, "fetch")
  BY <1>3, <1>13 DEF Operations
<1>14. CASE \E a \in {scope} \X Names : r = Request("rule", scope, a, "insert")
  BY <1>3, <1>14 DEF Operations
<1>15. CASE \E a \in {scope} \X Names : r = Request("toggle rule", scope, a, "select")
  BY <1>3, <1>15 DEF Operations
<1>16. CASE \E a \in {scope} \X Names : r = Request("delete rule", scope, a, "select")
  BY <1>3, <1>16 DEF Operations
<1>17. CASE \E a \in Envs \X Tokens : r = Request("env", scope, a, "insert")
  BY <1>3, <1>17 DEF Operations
<1>18. CASE \E a \in Envs \X (Tokens \cup {None}) : r = Request("update env", scope, a, "select")
  BY <1>3, <1>18 DEF Operations
<1>19. CASE \E a \in Envs \X {None} : r = Request("delete env", scope, a, "delete")
  BY <1>3, <1>19 DEF Operations
<1>20. \/ \E s \in Services :
             r = Request("service", scope, s, IF scope = Blank THEN "upsert" ELSE "check")
       \/ \E a \in Services \X ConsumerIds : r = Request("subscribe", scope, a, "guard")
       \/ \E a \in {scope} \X Urls : r = Request("webhook", scope, a, "select")
       \/ \E a \in {scope} \X Urls : r = Request("delete webhook", scope, a, "select")
       \/ \E a \in {scope} \X Services \X Urls : r = Request("scan", scope, a, "guard")
       \/ \E a \in {scope} \X Services \X Urls : r = Request("delete scan", scope, a, "select")
       \/ \E a \in Names : r = Request("consumer", scope, a, "insert")
       \/ \E a \in Names : r = Request("upsert consumer", scope, a, "insert")
       \/ r = Request("catalog", scope, None, "insert")
       \/ \E a \in SUBSET Names : r = Request("sync", scope, a, "fetch")
       \/ \E a \in {scope} \X Names : r = Request("rule", scope, a, "insert")
       \/ \E a \in {scope} \X Names : r = Request("toggle rule", scope, a, "select")
       \/ \E a \in {scope} \X Names : r = Request("delete rule", scope, a, "select")
       \/ \E a \in Envs \X Tokens : r = Request("env", scope, a, "insert")
       \/ \E a \in Envs \X (Tokens \cup {None}) : r = Request("update env", scope, a, "select")
       \/ \E a \in Envs \X {None} : r = Request("delete env", scope, a, "delete")
  BY ZenonT(200) DEF Requests
<1>. QED
  BY <1>4, <1>5, <1>6, <1>7, <1>8, <1>9, <1>10, <1>11, <1>12,
     <1>13, <1>14, <1>15, <1>16, <1>17, <1>18, <1>19, <1>20

LEMMA ArriveStep ==
    ASSUME IInv, NEW q \in Slots, Arrive(q)
    PROVE  IInv'
<1>1. PICK c \in Callers, presents \in BOOLEAN :
          /\ ScopeOf(c, presents) # Rejected
          /\ \E r \in Requests(ScopeOf(c, presents)) : req' = [req EXCEPT ![q] = r]
  BY DEF Arrive
<1>. DEFINE scope == ScopeOf(c, presents)
<1>2. PICK r \in Requests(scope) : req' = [req EXCEPT ![q] = r]  BY <1>1
<1>3. /\ scope \in Scopes
      /\ config.jwt => scope # Blank
      /\ (~ config.jwt /\ session[c] = None) => scope = Blank
  BY <1>1, ScopesOfRequests DEF IInv
<1>4. Shape(r) /\ Knows(r) /\ r.scope = scope  BY <1>2, <1>3, NewRequest
<1>5. /\ UNCHANGED <<sessionVars, workload, tables>> /\ arrived < MaxRequests
      /\ arrived' = arrived + 1
  BY DEF Arrive
<1>6. req = [p \in Slots |-> req[p]]  BY DEF IInv
<1>7. req'[q] = r /\ \A p \in Slots : p # q => req'[p] = req[p]  BY <1>2, <1>6
<1>8. \A p \in Busy' : p \in Slots /\ (p = q \/ (p \in Busy /\ req'[p] = req[p]))
  BY <1>7 DEF Busy
<1>. HIDE DEF scope
<1>9. \A p \in Busy' : Shape(req'[p]) /\ Knows(req'[p])
  BY <1>4, <1>7, <1>8 DEF IInv
<1>10. \A p \in Busy' : Knows(req[p])'
  BY <1>5, <1>9 DEF Knows, OwnedOrAbsent, Rows, tables
<1>11. arrived' \in 0 .. MaxRequests  BY <1>5 DEF IInv, TypeOK
<1>12. TypeOK'
  BY <1>5, <1>9, <1>11 DEF IInv, TypeOK, SessionTypeOK, sessionVars, tables, Shape
<1>13. SessionNamesAnOrg'  BY <1>5 DEF IInv, SessionNamesAnOrg, sessionVars
<1>14. Tenancy'
  <2>1. CASE config.jwt
    BY <1>3, <1>4, <1>5, <1>7, <1>8, <2>1 DEF IInv, Tenancy, sessionVars
  <2>2. CASE ~ config.jwt
    <3>1. scope = Blank  BY <1>3, <2>2 DEF IInv, Tenancy
    <3>. QED  BY <1>4, <1>5, <1>7, <1>8, <2>2, <3>1 DEF IInv, Tenancy, sessionVars, tables
  <2>. QED  BY <2>1, <2>2
<1>15. RowsAreSound' /\ LinksStayInOrg'  BY <1>5 DEF IInv, RowsAreSound, LinksStayInOrg, tables
<1>16. req' = [p \in Slots |-> req'[p]]  BY <1>2, <1>6
<1>. QED  BY <1>9, <1>10, <1>12, <1>13, <1>14, <1>15, <1>16 DEF IInv

LEMMA LoginStep ==
    ASSUME IInv, SessionNext, UNCHANGED <<workload, tables, req, arrived>>
    PROVE  IInv'
<1>1. SessionTypeOK /\ SessionNamesAnOrg  BY DEF IInv, TypeOK
<1>2. /\ SessionTypeOK' /\ SessionNamesAnOrg' /\ UNCHANGED config
      /\ (~ config.jwt /\ logins = {} /\ callbacks = {}) =>
            /\ logins' = {} /\ callbacks' = {}
            /\ \A c \in Callers : session[c] = None => session'[c] = None
  BY <1>1, SessionStep
<1>3. Busy' = Busy  BY DEF Busy
<1>4. TypeOK'  BY <1>2, <1>3 DEF IInv, TypeOK, tables
<1>5. Tenancy'  BY <1>2, <1>3 DEF IInv, Tenancy, tables
<1>6. RowsAreSound' /\ LinksStayInOrg'  BY DEF IInv, RowsAreSound, LinksStayInOrg, tables
<1>7. \A q \in Busy' : Knows(req[q])'
  BY <1>3, ZenonT(40) DEF IInv, Knows, OwnedOrAbsent, Rows, tables
<1>. QED  BY <1>2, <1>3, <1>4, <1>5, <1>6, <1>7 DEF IInv

LEMMA NextInv ==
    ASSUME IInv, [Next]_vars
    PROVE  IInv'
<1>1. CASE SessionNext /\ UNCHANGED <<workload, tables, req, arrived>>  BY <1>1, LoginStep
<1>2. ASSUME NEW q \in Slots, Arrive(q) \/ Drop(q)  PROVE IInv'
  BY <1>2, ArriveStep, ChecksStep
<1>3. ASSUME NEW q \in Slots, Handle(q)  PROVE IInv'
  <2>1. CASE \/ CheckService(q) \/ GuardService(q) \/ CheckConsumer(q) \/ ServiceExists(q)
             \/ SelectSubscription(q) \/ SelectWebhook(q) \/ SelectScan(q) \/ FetchConsumer(q)
    BY <2>1, ChecksStep
  <2>2. CASE FetchOwners(q) \/ SyncDone(q) \/ ReadToken(q)  BY <2>2, ReadsStep
  <2>3. CASE UpsertService(q)  BY <2>3, UpsertStep
  <2>4. CASE InsertSubscription(q) \/ InsertWebhook(q) \/ InsertScan(q) \/ InsertRule(q)
    BY <2>4, InsertStep DEF InsertSubscription, InsertWebhook, InsertScan, InsertRule
  <2>5. CASE DeleteRow(q) \/ ToggleRule(q)  BY <2>5, RowStep
  <2>6. CASE InsertConsumer(q) \/ CreateSource(q) \/ SyncOwner(q) \/ SyncStatus(q)
    BY <2>6, CatalogStep
  <2>7. CASE CreateEnv(q) \/ UpdateEnv(q) \/ DeleteEnv(q)  BY <2>7, EnvStep
  <2>. QED  BY <1>3, <2>1, <2>2, <2>3, <2>4, <2>5, <2>6, <2>7 DEF Handle
<1>4. CASE UNCHANGED vars
  <2>1. Busy' = Busy  BY <1>4 DEF Busy, vars
  <2>2. TypeOK' /\ SessionNamesAnOrg' /\ Tenancy'
    BY <1>4, <2>1 DEF IInv, TypeOK, SessionTypeOK, SessionNamesAnOrg, Tenancy, vars, sessionVars, tables
  <2>3. RowsAreSound' /\ LinksStayInOrg'
    BY <1>4 DEF IInv, RowsAreSound, LinksStayInOrg, vars, tables
  <2>4. \A q \in Busy' : Knows(req[q])'
    BY <1>4, <2>1, ZenonT(40) DEF IInv, Knows, OwnedOrAbsent, Rows, vars, tables
  <2>. QED  BY <1>4, <2>1, <2>2, <2>3, <2>4 DEF IInv, vars
<1>. QED  BY <1>1, <1>2, <1>3, <1>4 DEF Next

THEOREM InvariantHolds == Spec => []IInv
<1>1. Init => IInv  BY InitInv
<1>2. IInv /\ [Next]_vars => IInv'  BY NextInv
<1>. QED  BY <1>1, <1>2, PTL DEF Spec

-----------------------------------------------------------------------------
(* What it is for.                                                         *)

\* A tenant's own service lists its own consumers: the rows say so.
LEMMA OwnConsumers ==
    ASSUME LinksStayInOrg
    PROVE  OwnServiceListsOwnConsumers
<1>. SUFFICES ASSUME \A x \in row : x.table = "subscription" => ~ x.blind,
                     NEW o \in Orgs, NEW s \in ListServices(o), NEW c \in ListConsumers(o, s)
              PROVE  c \in ListAllConsumers(o) \/ c.org = Blank
  BY DEF OwnServiceListsOwnConsumers
<1>1. service[s] = o  BY DEF ListServices
<1>2. PICK x \in row : x.table = "subscription" /\ x.key = <<s, IdOf(c)>>
  BY DEF ListConsumers
<1>3. c \in consumer  BY DEF ListConsumers
<1>4. MayAccess(service[s], IdOf(c).org)  BY <1>2 DEF LinksStayInOrg
<1>. QED  BY <1>1, <1>3, <1>4 DEF MayAccess, IdOf, ListAllConsumers

(* Registry.TenantsAreApart, for any number of tenants and requests.       *)
THEOREM TenantsAreApartHolds == Spec => []TenantsAreApart
<1>1. IInv => TenantsAreApart
  BY WildcardLemma, OwnConsumers DEF IInv, TenantsAreApart
<1>. QED  BY <1>1, InvariantHolds, PTL

\* Rows: an INSERT writes under the scope of its request, a DELETE or a toggle
\* finds rows under it.
LEMMA RowsInScope ==
    ASSUME IInv, NEW q \in Slots, Handle(q), NEW x \in (row \ row') \cup (row' \ row)
    PROVE  IF x.table = "subscription" THEN MayAccess(x.key[2].org, req[q].scope)
           ELSE x.key[1] = req[q].scope
<1>1. CASE \E op \in {"subscribe", "webhook", "scan", "rule"} : Insert(q, op)
  <2>1. PICK op \in {"subscribe", "webhook", "scan", "rule"} : Insert(q, op)  BY <1>1
  <2>2. x = NewRow(req[q]) /\ req[q].op = op /\ req[q].pc = "insert"
    BY <2>1 DEF Insert, At
  <2>3. x.table = TableOf(op) /\ x.key = req[q].arg  BY <2>2, NewRowIs
  <2>4. Shape(req[q]) /\ Knows(req[q])
    <3>1. req[q].op \in Operations  BY <2>2 DEF Operations
    <3>. QED  BY <3>1, Slot
  <2>5. CASE op = "subscribe"
    <3>1. x.table = "subscription"  BY <2>3, <2>5 DEF TableOf
    <3>2. MayAccess(req[q].arg[2].org, req[q].scope)  BY <2>2, <2>4, <2>5 DEF Knows
    <3>. QED  BY <2>3, <3>1, <3>2
  <2>6. CASE op # "subscribe"
    <3>1. x.table # "subscription"  BY <2>3, <2>6 DEF TableOf
    <3>2. req[q].arg[1] = req[q].scope  BY <2>2, <2>4, <2>6 DEF Shape
    <3>. QED  BY <2>3, <3>1, <3>2
  <2>. QED  BY <2>5, <2>6
<1>2. CASE DeleteRow(q) \/ ToggleRule(q)
  <2>1. /\ req[q].op \in {"delete webhook", "delete scan", "delete rule", "toggle rule"}
        /\ TableOf(req[q].op) # "subscription"
    BY <1>2 DEF DeleteRow, ToggleRule, At, TableOf
  <2>2. \E y \in Named(req[q]) : x.table = y.table /\ x.key = y.key
    <3>1. CASE DeleteRow(q)  BY <3>1 DEF DeleteRow, Named, ListRows
    <3>2. CASE ToggleRule(q)
      <4>1. PICK y \in Named(req[q]), on \in BOOLEAN :
                   row' = (row \ {y}) \cup {[y EXCEPT !.enabled = on]}
        BY <3>2 DEF ToggleRule
      <4>2. x = y \/ x = [y EXCEPT !.enabled = on]  BY <4>1 DEF Named, ListRows
      <4>3. [y EXCEPT !.enabled = on].table = y.table /\ [y EXCEPT !.enabled = on].key = y.key
        OBVIOUS
      <4>. QED  BY <4>1, <4>2, <4>3
    <3>. QED  BY <1>2, <3>1, <3>2
  <2>. QED  BY <2>1, <2>2 DEF Named, ListRows
<1>3. CASE UNCHANGED row  BY <1>3
<1>. QED
  BY <1>1, <1>2, <1>3
     DEF Handle, tables, InsertSubscription, InsertWebhook, InsertScan, InsertRule, CheckService,
         UpsertService, GuardService, CheckConsumer, ServiceExists, SelectSubscription,
         SelectWebhook, SelectScan, Select, InsertConsumer, FetchConsumer, CreateSource,
         FetchOwners, SyncOwner, SyncDone, SyncStatus, CreateEnv, ReadToken, UpdateEnv, DeleteEnv

\* Consumers, environments and sources are written by few steps, each with a
\* condition on the scope.
LEMMA OthersInScope ==
    ASSUME IInv, NEW q \in Slots, Handle(q)
    PROVE  /\ \A c \in (consumer \ consumer') \cup (consumer' \ consumer) : c.org = req[q].scope
           /\ \A e \in Envs : env[e] # env'[e] => env'[e] = Gone \/ env'[e].org = req[q].scope
           /\ \A e \in Envs : env[e] # env'[e] => env[e] = None \/ env[e].org = req[q].scope
           /\ \A o \in Scopes : source[o] # source'[o] => o = req[q].scope
<1>. DEFINE r == req[q]
<1>0. /\ env \in [Envs -> {None, Gone} \cup [org : Scopes, token : Tokens \cup {None}]]
      /\ source \in [Scopes -> {None, "never", "ok", "error"}]
      /\ consumer \subseteq [org : Scopes, name : Names,
                             source : {"manual", "collection_file", "catalog"}]
  BY DEF IInv, TypeOK
<1>1. CASE InsertConsumer(q)
  <2>1. UNCHANGED <<env, source>>  BY <1>1 DEF InsertConsumer
  <2>2. consumer' \subseteq consumer \cup
           {[org |-> r.scope, name |-> r.arg,
             source |-> IF r.op = "consumer" THEN "manual" ELSE "collection_file"]}
        /\ consumer \subseteq consumer'
    BY <1>1 DEF InsertConsumer
  <2>. QED  BY <2>1, <2>2
<1>2. CASE SyncOwner(q)
  <2>1. UNCHANGED <<env, source>>  BY <1>2 DEF SyncOwner
  <2>2. PICK name \in r.seen : consumer' \in {consumer, Synced(r.scope, name)}
    BY <1>2 DEF SyncOwner
  <2>3. ASSUME NEW c \in consumer \ Synced(r.scope, name)  PROVE c.org = r.scope
    BY <2>3 DEF Synced, IdOf
  <2>4. ASSUME NEW c \in Synced(r.scope, name) \ consumer  PROVE c.org = r.scope
    <3>1. PICK d \in consumer :
             c = IF IdOf(d) = [org |-> r.scope, name |-> name] THEN [d EXCEPT !.source = "catalog"] ELSE d
      BY <2>4 DEF Synced
    <3>2. IdOf(d) = [org |-> r.scope, name |-> name]  BY <2>4, <3>1
    <3>3. d.org = r.scope  BY <3>2 DEF IdOf
    <3>. QED  BY <1>0, <3>1, <3>2, <3>3
  <2>. QED  BY <2>1, <2>2, <2>3, <2>4
<1>3. CASE CreateSource(q) \/ SyncStatus(q)
  <2>1. UNCHANGED <<env, consumer>>  BY <1>3 DEF CreateSource, SyncStatus
  <2>2. \E v : source' = [source EXCEPT ![r.scope] = v]  BY <1>3 DEF CreateSource, SyncStatus
  <2>. QED  BY <1>0, <2>1, <2>2
<1>4. CASE CreateEnv(q) \/ UpdateEnv(q) \/ DeleteEnv(q)
  <2>1. UNCHANGED <<consumer, source>>  BY <1>4 DEF CreateEnv, UpdateEnv, DeleteEnv
  <2>2. r.arg[1] \in Envs
    <3>1. r.op \in {"env", "update env", "delete env"}
      BY <1>4 DEF CreateEnv, UpdateEnv, DeleteEnv, At
    <3>2. r.op \in Operations  BY <3>1 DEF Operations
    <3>3. Shape(r)  BY <3>2, Slot
    <3>. QED  BY <3>1, <3>3 DEF Shape
  <2>3. CASE CreateEnv(q)
    <3>1. env[r.arg[1]] = None
          /\ env' = [env EXCEPT ![r.arg[1]] = [org |-> r.scope, token |-> r.arg[2]]]
      BY <2>3 DEF CreateEnv
    <3>. QED  BY <1>0, <2>1, <2>2, <3>1
  <2>4. CASE UpdateEnv(q) \/ DeleteEnv(q)
    <3>1. CASE UNCHANGED env  BY <2>1, <3>1
    <3>2. CASE ~ UNCHANGED env
      <4>1. env[r.arg[1]] \notin {None, Gone} /\ env[r.arg[1]].org = r.scope
        BY <2>4, <3>2 DEF UpdateEnv, DeleteEnv, EnvVisible, ListEnvs
      <4>2. \/ env' = [env EXCEPT ![r.arg[1]] = Gone]
            \/ env' = [env EXCEPT ![r.arg[1]] = [env[r.arg[1]] EXCEPT !.token = r.seen]]
        BY <2>4, <3>2 DEF UpdateEnv, DeleteEnv
      <4>3. [env[r.arg[1]] EXCEPT !.token = r.seen].org = r.scope  BY <1>0, <2>2, <4>1
      <4>. QED  BY <1>0, <2>1, <2>2, <4>1, <4>2, <4>3
    <3>. QED  BY <3>1, <3>2
  <2>. QED  BY <1>4, <2>3, <2>4
<1>5. CASE UNCHANGED <<consumer, env, source>>  BY <1>5
<1>. QED
  BY <1>1, <1>2, <1>3, <1>4, <1>5
     DEF Handle, tables, InsertSubscription, InsertWebhook, InsertScan, InsertRule, Insert,
         CheckService, UpsertService, GuardService, CheckConsumer, ServiceExists,
         SelectSubscription, SelectWebhook, SelectScan, Select, DeleteRow, ToggleRule,
         FetchConsumer, FetchOwners, SyncDone, ReadToken

LEMMA UpsertInScope ==
    ASSUME IInv, NEW q \in Slots, UpsertService(q)
    PROVE  OwnedOrAbsent(req[q].arg, req[q].scope) \/ <<"service", req[q].arg>> \in req[q].since
<1>1. req[q].op = "service" /\ req[q].pc = "upsert"  BY DEF UpsertService, At
<1>2. req[q].op \in Operations  BY <1>1 DEF Operations
<1>3. Knows(req[q])  BY <1>2, Slot
<1>. QED  BY <1>1, <1>3 DEF Knows

\* Only a login changes what SessionIsOfOwnLogin is about.
LEMMA OnlyLoginsOpenSessions ==
    ASSUME [Next]_vars
    PROVE  SessionNext \/ UNCHANGED sessionVars
<1>1. ASSUME NEW q \in Slots, Arrive(q) \/ Drop(q)  PROVE UNCHANGED sessionVars
  BY <1>1 DEF Arrive, Drop, Frame
<1>2. ASSUME NEW q \in Slots, Handle(q)  PROVE UNCHANGED sessionVars
  BY <1>2
     DEF Handle, Frame, InsertSubscription, InsertWebhook, InsertScan, InsertRule, Insert,
         CheckService, UpsertService, GuardService, CheckConsumer, ServiceExists,
         SelectSubscription, SelectWebhook, SelectScan, Select, DeleteRow, ToggleRule,
         FetchConsumer, FetchOwners, SyncDone, ReadToken, InsertConsumer, CreateSource, SyncOwner,
         SyncStatus, CreateEnv, UpdateEnv, DeleteEnv
<1>. QED  BY <1>1, <1>2 DEF Next, vars

\* The cookies and the callbacks stay what LoginInv says of them.
LEMMA LoginInvHolds == Spec => []LoginInv
<1>1. Init => LoginInv
  BY InitInv DEF Init, SessionInit, LoginInv, IInv, TypeOK
<1>2. ASSUME IInv, LoginInv, [Next]_vars, IInv'  PROVE LoginInv'
  <2>1. CASE SessionNext
    BY <1>2, <2>1, LoginInvStep DEF IInv, TypeOK
  <2>2. CASE UNCHANGED sessionVars
    BY <1>2, <2>2 DEF LoginInv, SessionTypeOK, IsLatestOf, sessionVars
  <2>. QED  BY <1>2, <2>1, <2>2, OnlyLoginsOpenSessions
<1>. QED  BY <1>1, <1>2, InvariantHolds, PTL DEF Spec

(* Registry.NobodyActsForAnother: a session is of the login its browser    *)
(* asked for, and a request writes under its own scope.                    *)
THEOREM NobodyActsForAnotherHolds == Spec => NobodyActsForAnother
<1>1. ASSUME LoginInv, [Next]_vars
      PROVE  [\A c \in Callers :
         (session'[c] # session[c] /\ session'[c] # None) =>
            \E l \in logins, b \in callbacks :
               /\ l.caller = c /\ l.nonce = session'[c].of /\ ~ l.spent
               /\ b.browser = c /\ b.nonce = l.nonce
               /\ \A m \in logins : m.caller = c => m.nonce <= l.nonce \/ m.nonce > b.at
               /\ \A m \in logins' : m.nonce = l.nonce => m.spent]_sessionVars
  <2>1. CASE UNCHANGED sessionVars  BY <2>1
  <2>2. CASE SessionNext  BY <1>1, <2>2, SessionIsOfOwnLoginStep
  <2>. QED  BY <1>1, <2>1, <2>2, OnlyLoginsOpenSessions
<1>2. ASSUME IInv, [Next]_vars
      PROVE  [\A q \in Slots : Handle(q) =>
         LET r == req[q]
             mine(x) == IF x.table = "subscription" THEN MayAccess(x.key[2].org, r.scope)
                        ELSE x.key[1] = r.scope
         IN  /\ \A x \in (row \ row') \cup (row' \ row) : mine(x)
             /\ \A c \in (consumer \ consumer') \cup (consumer' \ consumer) : c.org = r.scope
             /\ \A e \in Envs : env[e] # env'[e] => env'[e] = Gone \/ env'[e].org = r.scope
             /\ \A e \in Envs : env[e] # env'[e] => env[e] = None \/ env[e].org = r.scope
             /\ \A o \in Scopes : source[o] # source'[o] => o = r.scope
             /\ UpsertService(q) => OwnedOrAbsent(r.arg, r.scope)
                                     \/ <<"service", r.arg>> \in r.since]_vars
  BY <1>2, RowsInScope, OthersInScope, UpsertInScope
<1>. QED
  BY <1>1, <1>2, InvariantHolds, LoginInvHolds, PTL
     DEF Spec, NobodyActsForAnother, SessionIsOfOwnLogin, StepsStayInScope

(* Registry.HarmNeedsOverlap: what a request finds missing is still missing *)
(* when it writes, unless somebody else wrote in between.                  *)
THEOREM HarmNeedsOverlapHolds == Spec => HarmNeedsOverlap
<1>1. ASSUME IInv, [Next]_vars
      PROVE  [\A q \in Slots :
         (/\ InsertSubscription(q) \/ InsertWebhook(q) \/ InsertScan(q)
          /\ Rows(req[q]) # {})
            => <<TableOf(req[q].op), req[q].arg>> \in req[q].since]_vars
  <2>. SUFFICES ASSUME NEW q \in Slots, Rows(req[q]) # {},
                       InsertSubscription(q) \/ InsertWebhook(q) \/ InsertScan(q)
                PROVE  <<TableOf(req[q].op), req[q].arg>> \in req[q].since
    OBVIOUS
  <2>1. req[q].op \in {"subscribe", "webhook", "scan"} /\ req[q].pc = "insert"
    BY DEF InsertSubscription, InsertWebhook, InsertScan, Insert, At
  <2>2. req[q].op \in Operations  BY <2>1 DEF Operations
  <2>3. Knows(req[q])  BY <1>1, <2>2, Slot
  <2>. QED  BY <2>1, <2>3 DEF Knows
<1>2. ASSUME IInv, [Next]_vars
      PROVE  [\A q \in Slots :
         (UpdateEnv(q) /\ req[q].arg[2] = None /\ env' # env)
            => <<"env", req[q].arg[1]>> \in req[q].since]_vars
  <2>. SUFFICES ASSUME NEW q \in Slots, UpdateEnv(q), req[q].arg[2] = None, env' # env
                PROVE  <<"env", req[q].arg[1]>> \in req[q].since
    OBVIOUS
  <2>. DEFINE r == req[q]  e0 == req[q].arg[1]
  <2>1. r.op = "update env" /\ r.pc = "update"  BY DEF UpdateEnv, At
  <2>2. r.op \in Operations  BY <2>1 DEF Operations
  <2>3. Shape(r) /\ Knows(r)  BY <1>2, <2>2, Slot
  <2>4. e0 \in Envs  BY <2>1, <2>3 DEF Shape
  <2>5. env \in [Envs -> {None, Gone} \cup [org : Scopes, token : Tokens \cup {None}]]
    BY <1>2 DEF IInv, TypeOK
  <2>6. EnvVisible(r) /\ env' = [env EXCEPT ![e0] = [env[e0] EXCEPT !.token = r.seen]]
    BY DEF UpdateEnv
  <2>7. env[e0] \notin {None, Gone}  BY <2>6 DEF EnvVisible, ListEnvs
  <2>8. ASSUME env[e0].token = r.seen  PROVE FALSE
    <3>1. [env[e0] EXCEPT !.token = r.seen] = env[e0]  BY <2>4, <2>5, <2>7, <2>8
    <3>. QED  BY <2>4, <2>5, <2>6, <3>1
  <2>. QED  BY <2>1, <2>3, <2>7, <2>8 DEF Knows
<1>. QED
  BY <1>1, <1>2, InvariantHolds, PTL
     DEF Spec, HarmNeedsOverlap, DuplicatesNeedOverlap, TokenRevertNeedsOverlap
=============================================================================

------------------------------- MODULE Session -------------------------------
(***************************************************************************)
(* Who is asking.  The OIDC login of radar-api/src/auth.rs, its two        *)
(* cookies, auth_middleware, and the scope CallerOrg gives a request.      *)
(*                                                                         *)
(* A scope is an organisation, or Blank: the empty string the SQL of the   *)
(* handlers reads as "every organisation".  Rejected stands for a 401.     *)
(***************************************************************************)
EXTENDS Naturals, FiniteSets

CONSTANTS
    Callers,   \* browsers and API clients, one cookie jar each
    Orgs,      \* the organisations that claims may name
    Blank,     \* an empty or absent claim, and the wildcard scope ""
    Rejected,  \* no scope: the request gets a 401; a provider that does not answer
    None,      \* no cookie
    MaxLogins  \* bound on the logins started in one behaviour

ASSUME SessionAssumption ==
    /\ Blank \notin Orgs
    /\ Rejected \notin Orgs \cup {Blank}
    /\ None \notin 1 .. MaxLogins
    /\ MaxLogins \in Nat

VARIABLES
    config,   \* what the router was built with
    jar,      \* per caller, the nonce in its oidc_state cookie
    session,  \* per caller, the claims in its radar_session cookie
    logins,   \* logins started: caller, nonce, state token still valid, its
              \* authorization code spent
    callbacks, \* callbacks under way: the browser, the nonce of the state that was
              \* checked, and, for the properties, the last nonce at that time
    nonce     \* the last nonce given out

sessionVars == <<config, jar, session, logins, callbacks, nonce>>

Configs == [jwt : BOOLEAN, token : BOOLEAN, require : BOOLEAN]

\* The claims of a session token: its org_id, and the login it was minted for.
Claims == [org : Orgs \cup {Blank}, of : 0 .. MaxLogins]

SessionInit ==
    /\ config \in Configs
    /\ jar = [c \in Callers |-> None]
    /\ session \in [Callers -> {None} \cup {[org |-> o, of |-> 0] : o \in Orgs}]
    /\ (~ config.jwt => session = [c \in Callers |-> None])
    /\ logins = {}
    /\ callbacks = {}
    /\ nonce = 0

-----------------------------------------------------------------------------
(* The login.                                                              *)

\* GET /auth/login: the state token, with a new nonce, goes into the redirect
\* and into the cookie of this browser.
OidcLogin(c) ==
    /\ config.jwt
    /\ nonce < MaxLogins
    /\ nonce' = nonce + 1
    /\ jar' = [jar EXCEPT ![c] = nonce']
    /\ logins' = logins \cup
                   {[caller |-> c, nonce |-> nonce', valid |-> TRUE, spent |-> FALSE]}
    /\ UNCHANGED <<config, session, callbacks>>

\* The state token of a login is valid for ten minutes.
LoginLapses ==
    \E l \in logins :
        /\ l.valid
        /\ logins' = (logins \ {l}) \cup {[l EXCEPT !.valid = FALSE]}
        /\ UNCHANGED <<config, jar, session, callbacks, nonce>>

\* derive_org_id: the hosted domain, or else the subject, of the provider's
\* answer.  hd is None when it is absent or another claim is configured; a
\* blank hosted domain is not replaced by the subject.
DeriveOrgId(hd, sub) == IF hd = None THEN sub ELSE hd

\* Mutant: a state that is valid is not compared with the cookie.
StateAccepted_Unbound(c, l) == l.valid

\* The cookie of browser c holds the state that came with the callback, and the
\* state is still valid.  Anything else is a 400 that changes nothing.
StateAccepted(c, l) == jar[c] = l.nonce /\ l.valid

\* GET /auth/callback with the state of login l, up to its first await.  The cookie is
\* the one the browser sent with the request; it is not looked at again.
CheckState(c, l) ==
    /\ StateAccepted(c, l)
    /\ callbacks' = callbacks \cup {[browser |-> c, nonce |-> l.nonce, at |-> nonce]}
    /\ UNCHANGED <<config, jar, session, logins, nonce>>

\* What the provider answers to a callback: the nonce of its id_token, or None
\* when it has a userinfo endpoint instead; the two claims.  Discovery, token,
\* userinfo and JWKS requests may fail: Rejected.
ProviderAnswers ==
    {Rejected} \cup [idToken : {None} \cup 1 .. MaxLogins,
                     hd : Orgs \cup {Blank, None}, sub : Orgs \cup {Blank}]

\* An id_token is bound to the login it answers.
IdTokenAccepted(l, a) == a.idToken \in {None, l.nonce}

\* The cookies of a successful callback.  They are set whatever the browser's cookies
\* are by now: the state of a login in another tab goes, too.
OpensSession(b, a) ==
    /\ session' = [session EXCEPT ![b.browser] =
                       [org |-> DeriveOrgId(a.hd, a.sub), of |-> b.nonce]]
    /\ jar' = [jar EXCEPT ![b.browser] = None]

\* The rest of the callback b of login l: the requests to the provider, of which the
\* first spends the authorization code, and the reply.  One of them may fail, or the
\* callback be dropped, before or after the code is spent.  An element of callbacks
\* stands for all callbacks of one state that were checked at one time: one of them
\* ends, and others may be left.
OidcCallback(b, l, a) ==
    /\ l.nonce = b.nonce
    /\ callbacks' \in {callbacks, callbacks \ {b}}
    /\ logins' \in {(logins \ {l}) \cup {[l EXCEPT !.spent = TRUE]}}
                  \cup (IF a = Rejected THEN {logins} ELSE {})
    /\ IF /\ a # Rejected /\ ~ l.spent
          /\ IdTokenAccepted(l, a) /\ DeriveOrgId(a.hd, a.sub) # Blank
       THEN OpensSession(b, a) ELSE UNCHANGED <<session, jar>>
    /\ UNCHANGED <<config, nonce>>

\* GET /auth/logout, or the 24 hours of the cookie are over.
SessionEnds(c) ==
    /\ session[c] # None
    /\ session' = [session EXCEPT ![c] = None]
    /\ UNCHANGED <<config, jar, logins, callbacks, nonce>>

SessionNext ==
    \/ \E c \in Callers : OidcLogin(c) \/ SessionEnds(c)
    \/ LoginLapses
    \/ \E c \in Callers, l \in logins : CheckState(c, l)
    \/ \E b \in callbacks, l \in logins, a \in ProviderAnswers : OidcCallback(b, l, a)

-----------------------------------------------------------------------------
(* The scope of a request.                                                 *)

\* Decided once, when the router is built.
SingleTenantMode == ~ config.require /\ ~ config.jwt /\ ~ config.token

\* auth_middleware: how far a request gets.  presents: it carries the token.
Authenticated(c, presents) ==
    CASE config.jwt                     -> session[c] # None
      [] ~ config.jwt /\ config.token   -> presents
      [] ~ config.jwt /\ ~ config.token -> ~ config.require

\* CallerOrg::resolve on the claims of the request, or on their absence.
Resolve(claims) ==
    IF claims = None
    THEN IF SingleTenantMode THEN Blank ELSE Rejected
    ELSE IF claims.org = Blank THEN Rejected ELSE claims.org

\* CallerOrg::from_request_parts: a request let in by the service token has
\* no claims and the whole installation as its scope.
ScopeOf(c, presents) ==
    IF ~ Authenticated(c, presents) THEN Rejected
    ELSE IF ~ config.jwt /\ config.token THEN Blank
    ELSE Resolve(session[c])

\* assert_org_access, and require_org_owned for a row that exists.
MayAccess(owner, scope) == scope = Blank \/ owner = Blank \/ owner = scope

-----------------------------------------------------------------------------
SessionTypeOK ==
    /\ config \in Configs
    /\ jar \in [Callers -> {None} \cup 1 .. MaxLogins]
    /\ session \in [Callers -> {None} \cup Claims]
    /\ logins \subseteq [caller : Callers, nonce : 1 .. MaxLogins,
                          valid : BOOLEAN, spent : BOOLEAN]
    /\ callbacks \subseteq [browser : Callers, nonce : 1 .. MaxLogins, at : 0 .. MaxLogins]
    /\ nonce \in 0 .. MaxLogins

(* A session always names an organisation: whatever the identity provider  *)
(* answers, no login mints the claims that the queries would read as every *)
(* organisation (derive_org_id and the rejection at its only call).        *)
SessionNamesAnOrg == \A c \in Callers : session[c] # None => session[c].org # Blank

(* A login opens one session, in the browser that asked for it: the login  *)
(* of a new session was started there and has not opened one before.  And  *)
(* tabs do not undo each other: no later login of that browser is passed   *)
(* over, but one that was started while the callback was under way.  The   *)
(* cookie is compared once, at the start, and not when the cookies are set.*)
SessionIsOfOwnLogin ==
    [][\A c \in Callers :
         (session'[c] # session[c] /\ session'[c] # None) =>
            \E l \in logins, b \in callbacks :
               /\ l.caller = c /\ l.nonce = session'[c].of /\ ~ l.spent
               /\ b.browser = c /\ b.nonce = l.nonce
               /\ \A m \in logins : m.caller = c => m.nonce <= l.nonce \/ m.nonce > b.at
               /\ \A m \in logins' : m.nonce = l.nonce => m.spent
      ]_sessionVars

(* The wildcard scope is given only by a server that has no tenants: no    *)
(* authentication at all, or the static token in place of sessions.        *)
WildcardOnlyWithoutTenants ==
    \A c \in Callers, presents \in BOOLEAN :
        ScopeOf(c, presents) = Blank => ~ config.jwt /\ (config.token \/ ~ config.require)

(* Why: the state cookie of a browser, and a callback that was checked     *)
(* against it, are of a login of that browser, the latest it had started.  *)
IsLatestOf(c, n, at) ==
    /\ \E l \in logins : l.caller = c /\ l.nonce = n
    /\ \A m \in logins : m.caller = c => m.nonce <= n \/ m.nonce > at

LoginInv ==
    /\ SessionTypeOK
    /\ \A l, m \in logins : l.nonce = m.nonce => l = m
    /\ \A l \in logins : l.nonce <= nonce
    /\ \A c \in Callers : jar[c] # None => IsLatestOf(c, jar[c], nonce)
    /\ \A b \in callbacks : b.at <= nonce /\ IsLatestOf(b.browser, b.nonce, b.at)
=============================================================================

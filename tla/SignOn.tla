------------------------------- MODULE SignOn -------------------------------
(* oidc.py: signing in to `keycensus serve` through an identity provider.   *)
(* The browser flow with its two sealed cookies, the tokens machines send,  *)
(* and the provider's key set as every process remembers it.  The key that  *)
(* seals the cookies is a secret, resolved once, when a process starts.     *)
EXTENDS Secrets

CONSTANTS
    Users,          \* the accounts at the provider
    Allowed,        \* those that allowed_emails, _domains, _groups or _subjects let in
    JwksSeconds,    \* 60: how often the key set is fetched again at most
    Leeway,         \* LEEWAY
    TokenSeconds,   \* external: the lifetime of the provider's tokens
    StateSeconds,   \* 600: the lifetime of a login
    SessionSeconds, \* session_hours
    MaxKid,         \* bound: how many keys the provider signs with in turn
    MaxStarts       \* bound: how often a process is started

ASSUME SignOnAssumption ==
    /\ Allowed \subseteq Users
    /\ JwksSeconds \in Nat /\ Leeway \in Nat /\ TokenSeconds \in Nat
    /\ StateSeconds \in Nat /\ SessionSeconds \in Nat

VARIABLES
    process,  \* [process -> [up, sessionKey, meta, jwks, jwksAt, starts]]
    provider, \* external: [oldest, since]: keys oldest .. Len(since) are published
    jar,      \* [browser -> [state, session]]: the cookies it holds
    logins,   \* how many logins were begun: state, nonce and verifier are the number
    tabs,     \* external: logins that wait at the provider
    codes,    \* external: authorization codes on their way back
    signIns   \* history: who authenticated at the provider, in which browser, when

signOnVars == <<process, provider, jar, logins, tabs, codes, signIns>>

NoKid == 0

NoNonce == 0

Signing == Len(provider.since)

Published == provider.oldest .. Signing

Down(starts) == [up |-> FALSE, sessionKey |-> <<>>, meta |-> FALSE, jwks |-> {},
                 jwksAt |-> 0, starts |-> starts]

SignOnInit(browsers) ==
    /\ process = [p \in Processes |-> Down(0)]
    /\ provider = [oldest |-> 1, since |-> <<0>>]
    /\ jar = [b \in browsers |-> [state |-> Nothing, session |-> Nothing]]
    /\ logins = 0
    /\ tabs = {} /\ codes = {} /\ signIns = {}
-----------------------------------------------------------------------------
(* The provider's keys.                                                     *)

\* A token that names no key is checked with the only one there is.
KeyIn(jwks, kid) ==
    IF kid \in jwks THEN kid
    ELSE IF kid = NoKid /\ Cardinality(jwks) = 1 THEN CHOOSE k \in jwks : TRUE
    ELSE NoKid

\* A defect: a key set that is there is never fetched again.
MustFetchOnce(p, kid) == process[p].jwks = {}

\* Whether _key() goes to the provider: when there is no key set, or none
\* with this key and the last one was fetched long enough ago.
MustFetch(p, kid) ==
    LET jwks == process[p].jwks
    IN  \/ jwks = {}
        \/ KeyIn(jwks, kid) = NoKid /\ now - process[p].jwksAt > JwksSeconds

\* The process after _key(kid), when the provider answers.
WithKeys(p, kid) ==
    IF MustFetch(p, kid)
    THEN [process[p] EXCEPT !.jwks = Published, !.jwksAt = now, !.meta = TRUE]
    ELSE process[p]

\* verify_jwt(), check by check: "ok", or why it raises.  `nonce` is NoNonce
\* for a machine's token.
VerifyJwt(p, token, audience, nonce, answers) ==
    LET key == KeyIn(WithKeys(p, token.kid).jwks, token.kid)
    IN  IF MustFetch(p, token.kid) /\ ~answers THEN "provider does not answer"
        ELSE IF key = NoKid THEN "no such key"
        ELSE IF key # token.key THEN "signature is invalid"
        ELSE IF token.aud # audience THEN "audience does not match"
        ELSE IF now > token.exp + Leeway THEN "expired"
        ELSE IF token.iat > now + Leeway THEN "not valid yet"
        ELSE IF nonce # NoNonce /\ token.nonce # nonce THEN "nonce does not match"
        ELSE "ok"

\* What the attempt leaves behind in the process, whatever came of it.
AfterJwt(p, kid, answers) ==
    IF MustFetch(p, kid) /\ ~answers THEN process[p] ELSE WithKeys(p, kid)

\* bearer(): a name for the machine, or why not.
Bearer(p, token, answers) ==
    LET why == VerifyJwt(p, token, "machines", NoNonce, answers)
    IN  IF why # "ok" THEN why
        ELSE IF token.user \in Allowed THEN "ok" ELSE "not allowed"
-----------------------------------------------------------------------------
(* Cookies.                                                                 *)

Seal(p, payload, seconds) ==
    [key |-> process[p].sessionKey, exp |-> now + seconds, payload |-> payload]

\* A defect: the expiry is not looked at.
OpenForever(p, cookie) ==
    IF cookie # Nothing /\ cookie.key = process[p].sessionKey
    THEN cookie.payload ELSE Nothing

\* _open(): sealed with this process's key, and not expired.  Nothing relies
\* on the browser to drop a cookie when its Max-Age is over.
Open(p, cookie) ==
    IF cookie # Nothing /\ cookie.key = process[p].sessionKey /\ cookie.exp > now
    THEN cookie.payload ELSE Nothing

\* session(): the user the session cookie names.
Session(p, b) ==
    LET s == Open(p, jar[b].session)
    IN  IF s = Nothing THEN Nothing ELSE s.user
-----------------------------------------------------------------------------
(* The browser flow.                                                        *)

\* /login: the state cookie of an earlier login in this browser is replaced.
\* Without the provider's metadata, that a process reads once, nothing happens.
Login(p, b) ==
    /\ process[p].up
    /\ logins' = logins + 1
    /\ process' = [process EXCEPT ![p].meta = TRUE]
    /\ jar' = [jar EXCEPT ![b].state = Seal(p, [login |-> logins + 1], StateSeconds)]
    /\ tabs' = tabs \cup {[login |-> logins + 1, browser |-> b]}
    /\ UNCHANGED <<now, secretsVars, provider, codes, signIns>>

\* Somebody authenticates at the provider, which sends the browser back with
\* a code for this login.
Authenticate(tab, user) ==
    /\ tab \in tabs
    /\ tabs' = tabs \ {tab}
    /\ codes' = codes \cup {[login |-> tab.login, user |-> user]}
    /\ signIns' = signIns \cup {[browser |-> tab.browser, user |-> user, at |-> now]}
    /\ UNCHANGED <<now, secretsVars, process, provider, jar, logins>>

\* Whether the callback is for the login this browser began last.
Pending(p, b, code) ==
    LET pending == Open(p, jar[b].state)
    IN  pending # Nothing /\ pending.login = code.login

IdToken(code) ==
    [kid |-> Signing, key |-> Signing, aud |-> "browsers", iat |-> now,
     exp |-> now + TokenSeconds, user |-> code.user, nonce |-> code.login]

\* The callback with a code, in whatever browser the address is opened.  The
\* code is spent at the token endpoint before the ID token is checked.
Callback(p, b, code) ==
    LET login == Open(p, jar[b].state).login
    IN  /\ process[p].up
        /\ code \in codes
        /\ Pending(p, b, code)
        /\ \E answers \in BOOLEAN :
              /\ process' = [process EXCEPT ![p] = AfterJwt(p, Signing, answers)]
              /\ IF /\ VerifyJwt(p, IdToken(code), "browsers", login, answers) = "ok"
                    /\ code.user \in Allowed
                 THEN /\ jar' = [jar EXCEPT ![b] =
                                   [state |-> Nothing,
                                    session |-> Seal(p, [user |-> code.user], SessionSeconds)]]
                 ELSE UNCHANGED jar
        /\ codes' = codes \ {code}
        /\ UNCHANGED <<now, secretsVars, provider, logins, tabs, signIns>>

\* The provider does not take the code, or is not there: spent or not, no
\* cookie is set.  (A callback without its state cookie changes nothing: none,
\* expired, replaced by a later login, or sealed by another key.)
CallbackFails(p, b, code) ==
    /\ process[p].up
    /\ code \in codes
    /\ Pending(p, b, code)
    /\ codes' = codes \ {code}
    /\ UNCHANGED <<now, secretsVars, process, provider, jar, logins, tabs, signIns>>

Logout(p, b) ==
    /\ process[p].up
    /\ jar[b].session # Nothing
    /\ jar' = [jar EXCEPT ![b].session = Nothing]
    /\ UNCHANGED <<now, secretsVars, process, provider, logins, tabs, codes, signIns>>
-----------------------------------------------------------------------------
(* Outside the process: the provider signs with a new key, and withdraws    *)
(* the old ones some time later.                                            *)

NewKey ==
    /\ Signing < MaxKid
    /\ provider' = [provider EXCEPT !.since = Append(@, now)]
    /\ UNCHANGED <<now, secretsVars, process, jar, logins, tabs, codes, signIns>>

WithdrawKeys ==
    /\ provider.oldest < Signing
    /\ provider' = [provider EXCEPT !.oldest = Signing]
    /\ UNCHANGED <<now, secretsVars, process, jar, logins, tabs, codes, signIns>>
=============================================================================

------------------------------- MODULE Access -------------------------------
(* Who is let in by `keycensus serve`: serve.py's settings and request      *)
(* handler over the secrets and the sign-on.  Every start of a process      *)
(* resolves the key of its sessions anew and begins with nothing cached.    *)
EXTENDS SignOn

CONSTANTS
    Sites,    \* the deployments: what is configured, and who is about
    Tokens,   \* names of the static tokens in requests
    SessionRef \* where site.sharedKey sites keep the session key

\* A collector's secret in a managed place is one of Refs; no static token is a
\* JWT; and the report is for those who are let in.
ASSUME AccessAssumption ==
    /\ SessionRef \in Refs
    /\ \A t \in Tokens : "kid" \notin DOMAIN t
    /\ \A s \in Sites :
          /\ s.tokens \subseteq Tokens
          /\ "/report.html" \notin s.public
          /\ s.processes \subseteq Processes /\ s.refs \subseteq Refs
          /\ \A t \in s.threads : t[1] \in Processes
          /\ \A options \in s.blocks, b \in Managed :
                b \in DOMAIN options => options[b] \in Refs

VARIABLE site \* [listen, tokens, oidc, open, public, sharedKey, processes, threads,
              \*  blocks, refs, browsers, machines, maxLogins (a bound)]

vars == <<now, secretsVars, signOnVars, site>>

\* ServeSettings.from_config refuses to serve the network without any
\* authentication, unless told that something in front of it does that.
Servable(s) == s.tokens # {} \/ s.oidc \/ s.open \/ s.listen = "loopback"

Init ==
    /\ site \in Sites
    /\ SecretsInit(site.threads)
    /\ SignOnInit(site.browsers)

\* What resolve() says of session_key, a managed secret here.
SessionBlock == [vault |-> SessionRef]

\* A process starts: a new cache, no Vault token, no keys of the provider.
\* With no session_key it makes a key of its own up.  Settings it refuses and
\* a session key it cannot fetch are a ConfigError, and no process.
Start(p) ==
    /\ ~process[p].up
    /\ process[p].starts < MaxStarts
    /\ Servable(site)
    /\ LET asked == site.sharedKey /\ Local(SessionBlock, FALSE, FALSE) = "ask"
           key == IF asked THEN <<"shared", backend[SessionRef]>>
                  ELSE <<"random", p, process[p].starts>>
       IN  /\ process' = [process EXCEPT ![p] =
                            [Down(@.starts + 1) EXCEPT !.up = TRUE, !.sessionKey = key]]
           /\ cache' = [cache EXCEPT ![p] =
                          IF asked THEN [EmptyCache EXCEPT ![SessionRef] =
                                           [at |-> now, value |-> backend[SessionRef]]]
                          ELSE EmptyCache]
           /\ vaultToken' = [vaultToken EXCEPT ![p] = IF asked THEN "live" ELSE "none"]
    /\ UNCHANGED <<now, backend, replaced, lookup, provider, jar, logins, tabs, codes,
                   signIns, site>>

\* Killed or redeployed: lookups on their way are lost with it.
Stop(p) ==
    /\ process[p].up
    /\ process' = [process EXCEPT ![p] = Down(@.starts)]
    /\ cache' = [cache EXCEPT ![p] = EmptyCache]
    /\ vaultToken' = [vaultToken EXCEPT ![p] = "none"]
    /\ lookup' = [t \in DOMAIN lookup |-> IF t[1] = p THEN Idle ELSE lookup[t]]
    /\ UNCHANGED <<now, backend, replaced, provider, jar, logins, tabs, codes, signIns, site>>
-----------------------------------------------------------------------------
(* Requests.                                                                *)

OpenAccess == site.open /\ site.tokens = {} /\ ~site.oidc

\* who(): the static token in the header.  As a Basic password or a Bearer
\* token alike.
Who(header) ==
    IF header.scheme \in {"basic", "bearer"} /\ header.value \in site.tokens
    THEN header.value ELSE Nothing

\* A header carries a JWT only as a Bearer token.
IsJwt(header) == header.scheme = "bearer" /\ header.value \notin Tokens

\* _authenticate(), in its order.  Who it is, or why nobody: a JWT that is
\* refused ends it, unless there are static tokens too, and so does a provider
\* that cannot be connected to, whose exception nothing here catches.
Reader(p, path, header, b, answers) ==
    LET jwt == site.oidc /\ IsJwt(header)
        why == IF jwt THEN Bearer(p, header.value, answers) ELSE "no credentials"
        user == IF site.oidc /\ b # Nothing THEN Session(p, b) ELSE Nothing
    IN  IF path \in site.public THEN [ok |-> TRUE, who |-> "public", how |-> "public"]
        ELSE IF Who(header) # Nothing
        THEN [ok |-> TRUE, who |-> Who(header), how |-> "token"]
        ELSE IF jwt /\ why = "ok"
        THEN [ok |-> TRUE, who |-> header.value.user, how |-> "bearer"]
        ELSE IF jwt /\ (why = "provider does not answer" \/ site.tokens = {})
        THEN [ok |-> FALSE, who |-> Nothing, how |-> "bearer"]
        ELSE IF user # Nothing THEN [ok |-> TRUE, who |-> user, how |-> "session"]
        ELSE IF OpenAccess THEN [ok |-> TRUE, who |-> "anonymous", how |-> "open"]
        ELSE [ok |-> FALSE, who |-> Nothing, how |-> "nobody"]

\* A GET: all it changes in the process is the key set that a machine's token
\* made it fetch.  The token is looked at before the cookie.
Read(p, path, header, answers) ==
    /\ process[p].up
    /\ path \notin site.public /\ Who(header) = Nothing
    /\ site.oidc /\ IsJwt(header)
    /\ process' = [process EXCEPT ![p] = AfterJwt(p, header.value.kid, answers)]
    /\ UNCHANGED <<now, secretsVars, provider, jar, logins, tabs, codes, signIns, site>>

\* A token the provider issued some time ago to a machine: while its key was
\* the signing one, with a kid in the header or without.
MachineTokens ==
    {token \in [kid : 0 .. Signing, key : 1 .. Signing, aud : {"machines", "others"},
                iat : 0 .. now, exp : TokenSeconds .. now + TokenSeconds, user : Users] :
        /\ token.kid \in {NoKid, token.key} /\ token.exp = token.iat + TokenSeconds
        /\ token.iat >= provider.since[token.key]
        /\ token.key < Signing => token.iat <= provider.since[token.key + 1]}

BearerHeader(token) == [scheme |-> "bearer", value |-> token]

ReadAsMachine(p) ==
    /\ site.machines
    /\ \E token \in MachineTokens, answers \in BOOLEAN :
          Read(p, "/report.html", BearerHeader(token), answers)

NoHeader == [scheme |-> "none", value |-> Nothing]
-----------------------------------------------------------------------------
SignOnStep(p, b) ==
    /\ \/ site.oidc /\ logins < site.maxLogins /\ Login(p, b)
       \/ Logout(p, b)
       \/ \E code \in codes : Callback(p, b, code) \/ CallbackFails(p, b, code)
    /\ UNCHANGED site

ProviderStep ==
    /\ \/ \E tab \in tabs, user \in Users : Authenticate(tab, user)
       \/ site.machines /\ (NewKey \/ WithdrawKeys)
    /\ UNCHANGED site

SecretsStep ==
    /\ \/ \E t \in DOMAIN lookup :
             \/ process[t[1]].up /\ \E options \in site.blocks : Lookup(t, options)
             \/ Fetch(t) \/ FetchFails(t) \/ Store(t)
       \/ \E ref \in site.refs : ReplaceSecret(ref)
       \/ site.threads # {} /\ \E p \in site.processes : ExpireToken(p)
       \/ Tick
    /\ UNCHANGED <<signOnVars, site>>

Next ==
    \/ \E p \in site.processes :
          \/ Start(p) \/ Stop(p) \/ ReadAsMachine(p)
          \/ \E b \in DOMAIN jar : SignOnStep(p, b)
    \/ ProviderStep
    \/ SecretsStep

Spec == Init /\ [][Next]_vars
-----------------------------------------------------------------------------
(* Let in, and not kept out.                                                *)

\* A machine's token, good in every respect and signed with a key that the
\* provider has published for longer than the key set may go unrefreshed, is
\* let in by every process, whenever it last fetched the key set, whichever
\* unknown keys it was asked for since, and however often the provider
\* changed its keys (oidc.py:156).  Of tokens that name their key.
NewKeysAreHonoured ==
    \A p \in Processes, token \in MachineTokens :
        /\ process[p].up /\ site.oidc
        /\ token.kid \in Published /\ now - provider.since[token.kid] > JwksSeconds
        /\ token.aud = "machines" /\ now <= token.exp /\ token.user \in Allowed
        => Reader(p, "/report.html", BearerHeader(token), Nothing, TRUE) =
              [ok |-> TRUE, who |-> token.user, how |-> "bearer"]

\* Whoever reads over a session authenticated at the provider, in that same
\* browser, and no longer ago than a login and a session may last together:
\* across restarts, replicas, changes of the session key, logins in several
\* tabs and addresses opened in another browser (oidc.py:255).
SessionsAreEarned ==
    \A p \in Processes, b \in DOMAIN jar :
        LET reader == Reader(p, "/report.html", NoHeader, b, TRUE)
        IN  process[p].up /\ reader.how = "session" =>
                \E s \in signIns : /\ s.browser = b /\ s.user = reader.who /\ s.user \in Allowed
                                   /\ now - s.at < StateSeconds + SessionSeconds
=============================================================================

------------------------------ MODULE Secrets ------------------------------
(* secrets.py: where a credential comes from, and how long a fetched one is *)
(* reused.  Every process keeps a cache and one Vault token; its collector  *)
(* threads look secrets up at the same time.  A secret's value is the       *)
(* number of its version; a thread is a pair <<process, n>>.                *)
EXTENDS Naturals, FiniteSets, Sequences

CONSTANTS
    Processes,     \* the `keycensus serve` replicas
    Refs,          \* references to managed secrets, each in one backend
    Present,       \* the files that exist and the variables that are set
    CacheSeconds,  \* secrets.cache_seconds
    MaxVersion,    \* bound: how often a secret is replaced
    MaxTime        \* bound: the end of the clock

ASSUME SecretsAssumption == CacheSeconds \in Nat /\ MaxVersion \in Nat /\ MaxTime \in Nat

VARIABLES
    now,        \* the clock, in units of CacheSeconds and the like
    backend,    \* external: [ref -> current version]
    replaced,   \* external: [ref -> [version -> when it was replaced]]
    cache,      \* _cache: [process -> [ref -> [at, value] or Nothing]]
    vaultToken, \* _vault_token: [process -> "none", "live" or "expired"]
    lookup      \* [thread -> where it is in resolve()]

secretsVars == <<backend, replaced, cache, vaultToken, lookup>>

Nothing == [none |-> TRUE]

Idle == [at |-> "idle"]

\* The places a secret can be named in, in the order they are tried.
BACKENDS == <<"file", "env", "vault", "aws_secret", "azure_secret", "gcp_secret">>

Managed == {"vault", "aws_secret", "azure_secret", "gcp_secret"}

\* Which of them an option block names: `options` maps a place to a
\* reference, and "inline" to a value.
References(options) == DOMAIN options \cap {BACKENDS[i] : i \in DOMAIN BACKENDS}

\* The one that answers: the others are not looked at, whatever it says.
Chosen(options) ==
    LET named == {i \in DOMAIN BACKENDS : BACKENDS[i] \in References(options)}
    IN  BACKENDS[CHOOSE i \in named : \A j \in named : i <= j]

\* What resolve() answers without asking anybody: that a backend has to be
\* asked, that there is a value, an error, or None.  A variable that is not
\* set is an error only where the secret is required, a file that is not
\* there always is.
Local(options, required, allowInline) ==
    IF References(options) # {}
    THEN LET b == Chosen(options)
         IN  IF b \in Managed THEN "ask"
             ELSE IF options[b] \in Present THEN "value"
             ELSE IF b = "file" \/ required THEN "error" ELSE "none"
    ELSE IF "inline" \in DOMAIN options /\ allowInline THEN "value"
    ELSE IF required THEN "error" ELSE "none"

\* A cached value is good for CacheSeconds from when its fetch began.
Fresh(p, ref, t) == cache[p][ref] # Nothing /\ t - cache[p][ref].at < CacheSeconds

EmptyCache == [r \in Refs |-> Nothing]

SecretsInit(threads) ==
    /\ now = 0
    /\ backend = [r \in Refs |-> 0]
    /\ replaced = [r \in Refs |-> <<>>]
    /\ cache = [p \in Processes |-> EmptyCache]
    /\ vaultToken = [p \in Processes |-> "none"]
    /\ lookup = [t \in threads |-> Idle]
-----------------------------------------------------------------------------
(* A thread's lookup: the cache, then the backend, then the cache again.    *)

\* A collector's secret.  What is inline, in a file or in a variable is read
\* each time and changes nothing here, nor does an error; for the rest _cached()
\* looks under the lock, with `now` taken before it, and answers or fetches.
Lookup(t, options) ==
    LET via == Chosen(options)
        ref == options[via]
    IN  /\ lookup[t] = Idle
        /\ Local(options, FALSE, TRUE) = "ask"
        /\ ~Fresh(t[1], ref, now)
        /\ lookup' = [lookup EXCEPT ![t] = [at |-> "fetch", ref |-> ref, began |-> now, via |-> via]]
        /\ UNCHANGED <<now, backend, replaced, cache, vaultToken>>

\* _vault_session(): the first fetch logs in, the token is kept for good.
\* With a token Vault no longer takes, the GET fails, and so does the lookup.
Fetch(t) ==
    /\ lookup[t].at = "fetch"
    /\ IF lookup[t].via = "vault"
       THEN /\ vaultToken[t[1]] # "expired"
            /\ vaultToken' = [vaultToken EXCEPT ![t[1]] = "live"]
       ELSE UNCHANGED vaultToken
    /\ lookup' = [lookup EXCEPT ![t] = [at |-> "store", ref |-> @.ref, began |-> @.began,
                                        value |-> backend[@.ref]]]
    /\ UNCHANGED <<now, backend, replaced, cache>>

\* No address, no token, the login or the GET refused, no such field: a
\* SecretError, and nothing is stored.  The login may have gone well before.
FetchFails(t) ==
    /\ lookup[t].at = "fetch"
    /\ lookup' = [lookup EXCEPT ![t] = Idle]
    /\ \/ UNCHANGED vaultToken
       \/ /\ lookup[t].via = "vault" /\ vaultToken[t[1]] = "none"
          /\ vaultToken' = [vaultToken EXCEPT ![t[1]] = "live"]
    /\ UNCHANGED <<now, backend, replaced, cache>>

\* A defect: the value's age is counted from the end of its fetch.
StampWhenStored(t) == now

\* The second half of _cached: the entry carries the time before the fetch.
Stamp(t) == lookup[t].began

Stored(t) == [at |-> Stamp(t), value |-> lookup[t].value]

Store(t) ==
    /\ lookup[t].at = "store"
    /\ cache' = [cache EXCEPT ![t[1]][lookup[t].ref] = Stored(t)]
    /\ lookup' = [lookup EXCEPT ![t] = Idle]
    /\ UNCHANGED <<now, backend, replaced, vaultToken>>
-----------------------------------------------------------------------------
(* Outside the process.                                                     *)

\* Somebody replaces a secret in its backend.
ReplaceSecret(ref) ==
    /\ backend[ref] < MaxVersion
    /\ backend' = [backend EXCEPT ![ref] = @ + 1]
    /\ replaced' = [replaced EXCEPT ![ref] = Append(@, now)]
    /\ UNCHANGED <<now, cache, vaultToken, lookup>>

ExpireToken(p) ==
    /\ vaultToken[p] = "live"
    /\ vaultToken' = [vaultToken EXCEPT ![p] = "expired"]
    /\ UNCHANGED <<now, backend, replaced, cache, lookup>>

\* A thread waits for a backend for its time-out of ten seconds at most, less
\* than any cache period: the clock does not run that far during a fetch.
Tick ==
    /\ now < MaxTime
    /\ \A t \in DOMAIN lookup : lookup[t] # Idle => now + 1 < lookup[t].began + CacheSeconds
    /\ now' = now + 1
    /\ UNCHANGED secretsVars
-----------------------------------------------------------------------------
(* A value may be one that has been replaced since it was read, but never   *)
(* one that was replaced longer ago than the cache keeps a value: whatever  *)
(* threads fetched at the same time, however long their fetches took and in *)
(* whatever order they stored what they got (secrets.py:116).               *)

\* Version v is replaced by v + 1 at replaced[v + 1].
Recent(ref, value) ==
    value < backend[ref] => now - replaced[ref][value + 1] < CacheSeconds

\* Of what a lookup would find in a cache, and of what one is about to return.
SecretsAreFresh ==
    /\ \A p \in Processes, ref \in Refs : Fresh(p, ref, now) => Recent(ref, cache[p][ref].value)
    /\ \A t \in DOMAIN lookup : lookup[t].at = "store" => Recent(lookup[t].ref, lookup[t].value)
=============================================================================

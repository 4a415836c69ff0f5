------------------------------ MODULE AccessProofs ------------------------------
(***************************************************************************)
(* Proofs about Access, Secrets and SignOn, for any deployments, numbers of *)
(* processes, threads, browsers and secrets, and any periods.               *)
(***************************************************************************)
EXTENDS Access, TLAPS

USE SecretsAssumption, SignOnAssumption, AccessAssumption

-----------------------------------------------------------------------------
(* Secrets                                                                  *)

Entries == [at : Nat, value : Nat]

Fetching == [at : {"fetch"}, ref : Refs, began : Nat, via : Managed]

Storing == [at : {"store"}, ref : Refs, began : Nat, value : Nat]

SecretsShape ==
    /\ site \in Sites /\ now \in Nat
    /\ backend \in [Refs -> Nat]
    /\ replaced \in [Refs -> Seq(Nat)]
    /\ cache \in [Processes -> [Refs -> Entries \union {Nothing}]]
    /\ lookup \in [site.threads -> Fetching \union Storing \union {Idle}]

\* Every replacement of a secret is on record.
Replacements ==
    \A r \in Refs :
        /\ Len(replaced[r]) = backend[r]
        /\ \A v \in 1..backend[r] : replaced[r][v] <= now

\* A value that was read at this time or later.
ReadSince(value, ref, t) ==
    /\ value <= backend[ref]
    /\ value < backend[ref] => t <= replaced[ref][value + 1]

\* Of an entry of the cache, and of a lookup that is about to make one.
EntriesInOrder ==
    \A p \in Processes, r \in Refs :
        cache[p][r] # Nothing =>
            cache[p][r].at <= now /\ ReadSince(cache[p][r].value, r, cache[p][r].at)

LookupsInOrder ==
    \A t \in site.threads :
        lookup[t] # Idle =>
            /\ lookup[t].began <= now
            /\ CacheSeconds > 0 => now < lookup[t].began + CacheSeconds
            /\ lookup[t].at = "store" =>
                  ReadSince(lookup[t].value, lookup[t].ref, lookup[t].began)

-----------------------------------------------------------------------------
(* The provider's keys                                                      *)

KeysShape ==
    /\ DOMAIN process = Processes
    /\ \A p \in Processes :
          /\ DOMAIN process[p] = {"up", "sessionKey", "meta", "jwks", "jwksAt", "starts"}
          /\ process[p].jwks \subseteq Nat
          /\ process[p].jwksAt \in Nat
    /\ provider \in [oldest : Nat \ {0}, since : Seq(Nat)]

\* A key set that was fetched lacks no key that was there before.
KeysKnown ==
    \A p \in Processes :
        /\ process[p].jwksAt <= now
        /\ process[p].jwks # {} =>
              \A k \in Published : provider.since[k] < process[p].jwksAt => k \in process[p].jwks

-----------------------------------------------------------------------------
(* Signing in                                                               *)

SignInsShape ==
    /\ DOMAIN jar = site.browsers
    /\ \A b \in site.browsers : DOMAIN jar[b] = {"state", "session"}
    /\ logins \in Nat
    /\ tabs \subseteq [login : Nat, browser : site.browsers]
    /\ codes \subseteq [login : Nat, user : Users]
    /\ signIns \subseteq [browser : site.browsers, user : Users, at : Nat]

\* The state cookie of a login, not yet expired for longer than it lives.
StatesInOrder ==
    \A b \in site.browsers :
        jar[b].state # Nothing =>
            /\ jar[b].state.payload.login \in 1..logins
            /\ jar[b].state.exp \in Nat
            /\ jar[b].state.exp <= now + StateSeconds

\* A login that waits at the provider is that of the browser that holds its cookie.
TabsInOrder ==
    \A tab \in tabs :
        /\ tab.login <= logins
        /\ \A b \in site.browsers :
              jar[b].state # Nothing /\ jar[b].state.payload.login = tab.login => b = tab.browser

\* So is one on its way back; somebody authenticated for it after it was begun.
CodesInOrder ==
    \A code \in codes :
        /\ code.login <= logins
        /\ \E s \in signIns :
              /\ s.user = code.user
              /\ \A b \in site.browsers :
                    jar[b].state # Nothing /\ jar[b].state.payload.login = code.login =>
                        b = s.browser /\ jar[b].state.exp <= s.at + StateSeconds

\* A session cookie, sealed with whatever key, is one that was earned.
SessionsInOrder ==
    \A b \in site.browsers :
        jar[b].session # Nothing =>
            /\ jar[b].session.exp \in Nat
            /\ \E s \in signIns :
                  /\ s.browser = b /\ s.user = jar[b].session.payload.user /\ s.user \in Allowed
                  /\ jar[b].session.exp <= s.at + StateSeconds + SessionSeconds

\* The inductive invariant: together these hold in every reachable state.
IInv ==
    /\ SecretsShape /\ Replacements /\ EntriesInOrder /\ LookupsInOrder
    /\ KeysShape /\ KeysKnown
    /\ SignInsShape /\ StatesInOrder /\ TabsInOrder /\ CodesInOrder /\ SessionsInOrder

-----------------------------------------------------------------------------
(* Lemmas                                                                   *)

\* A step that touches no secret, no cache and no lookup keeps what is said of them.
LEMMA SecretsKept ==
    ASSUME IInv, UNCHANGED <<now, backend, replaced, cache, lookup, site>>
    PROVE  SecretsShape' /\ Replacements' /\ EntriesInOrder' /\ LookupsInOrder'
  BY DEF IInv, SecretsShape, Replacements, EntriesInOrder, LookupsInOrder, ReadSince

\* A step that touches neither the provider nor what a process knows of it keeps
\* what is said of its keys.
LEMMA KeysKept ==
    ASSUME IInv, UNCHANGED <<now, process, provider>>
    PROVE  KeysShape' /\ KeysKnown'
  BY DEF IInv, KeysShape, KeysKnown, Published, Signing

\* A step that touches no login, no tab and no cookie keeps what is said of them.
LEMMA SignInsKept ==
    ASSUME IInv, UNCHANGED <<now, jar, logins, tabs, codes, signIns, site>>
    PROVE  SignInsShape' /\ StatesInOrder' /\ TabsInOrder' /\ CodesInOrder' /\ SessionsInOrder'
  BY DEF IInv, SignInsShape, StatesInOrder, TabsInOrder, CodesInOrder, SessionsInOrder

\* A secret that a backend has to be asked for has a reference.
LEMMA AskedIsManaged ==
    ASSUME IInv, NEW options \in site.blocks, Local(options, FALSE, TRUE) = "ask"
    PROVE  Chosen(options) \in Managed /\ options[Chosen(options)] \in Refs
<1> DEFINE named == {i \in DOMAIN BACKENDS : BACKENDS[i] \in References(options)}
           first == CHOOSE i \in named : \A j \in named : i <= j
<1>1. References(options) # {} /\ Chosen(options) \in Managed
  BY DEF Local
<1>2. named # {} /\ named \subseteq Nat
  BY <1>1 DEF References, BACKENDS
<1>3. \E i \in named : \A j \in named : i <= j
  <2>1. named \in SUBSET (1..6)
    BY DEF BACKENDS
  <2>2. 1 \in named \/ 2 \in named \/ 3 \in named \/ 4 \in named \/ 5 \in named \/ 6 \in named
    BY <1>2, <2>1
  <2> HIDE DEF named
  <2> QED BY <2>1, <2>2
<1>4. first \in named
  <2> HIDE DEF named
  <2> QED BY <1>3
<1>5. Chosen(options) = BACKENDS[first]
  BY DEF Chosen
<1>6. Chosen(options) \in DOMAIN options
  BY <1>4, <1>5 DEF References
<1> QED
  BY <1>1, <1>6 DEF IInv, SecretsShape

\* A key set that is fetched lacks no key that is published.
LEMMA FetchedKnows ==
    ASSUME IInv, NEW p \in Processes, NEW kid, NEW answers \in BOOLEAN,
           process' = [process EXCEPT ![p] = AfterJwt(p, kid, answers)],
           UNCHANGED <<now, provider>>
    PROVE  KeysShape' /\ KeysKnown'
<1>1. KeysShape /\ KeysKnown /\ now \in Nat
  BY DEF IInv, SecretsShape
<1>2. Published \subseteq Nat /\ Published' = Published
  BY <1>1 DEF KeysShape, Published, Signing
<1>3. /\ DOMAIN AfterJwt(p, kid, answers) = DOMAIN process[p]
      /\ \/ AfterJwt(p, kid, answers) = process[p]
         \/ AfterJwt(p, kid, answers).jwks = Published /\ AfterJwt(p, kid, answers).jwksAt = now
  BY <1>1 DEF AfterJwt, WithKeys, KeysShape
<1>4. \A q \in Processes : process'[q] = IF q = p THEN AfterJwt(p, kid, answers) ELSE process[q]
  BY <1>1 DEF KeysShape
<1>5. KeysShape'
  BY <1>1, <1>2, <1>3, <1>4 DEF KeysShape
<1>6. KeysKnown'
  <2> SUFFICES ASSUME NEW q \in Processes
               PROVE  /\ process'[q].jwksAt <= now
                      /\ process'[q].jwks # {} =>
                            \A k \in Published :
                               provider.since[k] < process'[q].jwksAt => k \in process'[q].jwks
    BY <1>2 DEF KeysKnown
  <2>1. CASE process'[q] = process[q]
    BY <1>1, <2>1 DEF KeysKnown
  <2>2. CASE process'[q] # process[q]
    BY <1>1, <1>3, <1>4, <2>2
  <2> QED BY <2>1, <2>2
<1> QED
  BY <1>5, <1>6

-----------------------------------------------------------------------------
(* The invariant is inductive                                               *)

\* Every first state satisfies the inductive invariant.
LEMMA Initial == Init => IInv
<1> SUFFICES ASSUME Init PROVE IInv
  OBVIOUS
<1>1. SecretsShape /\ Replacements /\ EntriesInOrder /\ LookupsInOrder
  BY DEF Init, SecretsInit, SecretsShape, Replacements, EntriesInOrder, LookupsInOrder,
     EmptyCache
<1>2. KeysShape /\ KeysKnown
  BY DEF Init, SignOnInit, SecretsInit, Down, KeysShape, KeysKnown
<1>3. SignInsShape /\ StatesInOrder /\ TabsInOrder /\ CodesInOrder /\ SessionsInOrder
  BY DEF Init, SignOnInit, SignInsShape, StatesInOrder, TabsInOrder, CodesInOrder,
     SessionsInOrder
<1> QED
  BY <1>1, <1>2, <1>3 DEF IInv

\* Every step keeps the inductive invariant.
LEMMA Step == IInv /\ [Next]_vars => IInv'
<1> SUFFICES ASSUME IInv, [Next]_vars PROVE IInv'
  OBVIOUS
<1>0. /\ SecretsShape /\ Replacements /\ EntriesInOrder /\ LookupsInOrder
      /\ KeysShape /\ KeysKnown
      /\ SignInsShape /\ StatesInOrder /\ TabsInOrder /\ CodesInOrder /\ SessionsInOrder
      /\ site \in Sites /\ site.processes \subseteq Processes /\ DOMAIN jar = site.browsers
      /\ DOMAIN lookup = site.threads /\ \A t \in site.threads : t[1] \in Processes
      /\ now \in Nat
  BY DEF IInv, SecretsShape, SignInsShape
<1>1. ASSUME NEW p \in Processes, Start(p) PROVE IInv'
  <2>1. UNCHANGED <<now, backend, replaced, lookup, provider, jar, logins, tabs, codes,
                    signIns, site>>
    BY <1>1 DEF Start
  <2>2. \E key : process' = [process EXCEPT ![p] =
                   [Down(@.starts + 1) EXCEPT !.up = TRUE, !.sessionKey = key]]
    BY <1>1 DEF Start
  <2>3. \E entry \in {EmptyCache, [EmptyCache EXCEPT ![SessionRef] =
                                     [at |-> now, value |-> backend[SessionRef]]]} :
           cache' = [cache EXCEPT ![p] = entry]
    BY <1>1 DEF Start
  <2>4. KeysShape' /\ KeysKnown'
    <3>1. PICK key : process' = [process EXCEPT ![p] =
             [Down(process[p].starts + 1) EXCEPT !.up = TRUE, !.sessionKey = key]]
      BY <1>0, <2>2 DEF KeysShape
    <3> DEFINE new == [Down(process[p].starts + 1) EXCEPT !.up = TRUE, !.sessionKey = key]
    <3>2. /\ DOMAIN new = {"up", "sessionKey", "meta", "jwks", "jwksAt", "starts"}
          /\ new.jwks = {} /\ new.jwksAt = 0
      BY DEF Down
    <3>3. \A q \in Processes : process'[q] = IF q = p THEN new ELSE process[q]
      BY <1>0, <3>1 DEF KeysShape
    <3>4. DOMAIN process' = Processes
      BY <1>0, <3>1 DEF KeysShape
    <3> HIDE DEF new
    <3>5. KeysShape'
      BY <1>0, <2>1, <3>2, <3>3, <3>4 DEF KeysShape
    <3>6. KeysKnown'
      BY <1>0, <2>1, <3>2, <3>3 DEF KeysKnown, Published, Signing
    <3> QED BY <3>5, <3>6
  <2>5. SecretsShape'
    BY <1>0, <2>1, <2>3 DEF SecretsShape, EmptyCache, Entries
  <2>6. EntriesInOrder'
    BY <1>0, <2>1, <2>3 DEF SecretsShape, EntriesInOrder, EmptyCache, Entries, ReadSince
  <2>7. Replacements' /\ LookupsInOrder'
    BY <1>0, <2>1 DEF Replacements, LookupsInOrder, ReadSince
  <2> QED
    BY <2>1, <2>4, <2>5, <2>6, <2>7, SignInsKept DEF IInv
<1>2. ASSUME NEW p \in Processes, Stop(p) PROVE IInv'
  <2>1. /\ UNCHANGED <<now, backend, replaced, provider, jar, logins, tabs, codes, signIns, site>>
        /\ process' = [process EXCEPT ![p] = Down(@.starts)]
        /\ cache' = [cache EXCEPT ![p] = EmptyCache]
        /\ lookup' = [t \in DOMAIN lookup |-> IF t[1] = p THEN Idle ELSE lookup[t]]
    BY <1>2 DEF Stop
  <2>2. KeysShape' /\ KeysKnown'
    <3>1. process' = [process EXCEPT ![p] = Down(process[p].starts)]
      BY <1>0, <2>1 DEF KeysShape
    <3> DEFINE new == Down(process[p].starts)
    <3>2. /\ DOMAIN new = {"up", "sessionKey", "meta", "jwks", "jwksAt", "starts"}
          /\ new.jwks = {} /\ new.jwksAt = 0
      BY DEF Down
    <3>3. \A q \in Processes : process'[q] = IF q = p THEN new ELSE process[q]
      BY <1>0, <3>1 DEF KeysShape
    <3>4. DOMAIN process' = Processes
      BY <1>0, <3>1 DEF KeysShape
    <3> HIDE DEF new
    <3>5. KeysShape'
      BY <1>0, <2>1, <3>2, <3>3, <3>4 DEF KeysShape
    <3>6. KeysKnown'
      BY <1>0, <2>1, <3>2, <3>3 DEF KeysKnown, Published, Signing
    <3> QED BY <3>5, <3>6
  <2>3. SecretsShape'
    BY <1>0, <2>1 DEF SecretsShape, EmptyCache
  <2>4. EntriesInOrder' /\ Replacements'
    BY <1>0, <2>1 DEF SecretsShape, EntriesInOrder, Replacements, EmptyCache, ReadSince
  <2>5. LookupsInOrder'
    BY <1>0, <2>1 DEF LookupsInOrder, ReadSince
  <2> QED
    BY <2>1, <2>2, <2>3, <2>4, <2>5, SignInsKept DEF IInv
<1>3. ASSUME NEW p \in Processes, ReadAsMachine(p) PROVE IInv'
  <2>1. PICK token \in MachineTokens, answers \in BOOLEAN :
           Read(p, "/report.html", BearerHeader(token), answers)
    BY <1>3 DEF ReadAsMachine
  <2>2. process' = [process EXCEPT ![p] = AfterJwt(p, BearerHeader(token).value.kid, answers)]
    BY <2>1 DEF Read
  <2>3. UNCHANGED <<now, secretsVars, provider, jar, logins, tabs, codes, signIns, site>>
    BY <2>1 DEF Read
  <2>4. KeysShape' /\ KeysKnown'
    BY <2>2, <2>3, FetchedKnows
  <2> QED
    BY <2>3, <2>4, SecretsKept, SignInsKept DEF IInv, secretsVars
<1>4. ASSUME NEW p \in Processes, NEW b \in site.browsers, Login(p, b), UNCHANGED site
      PROVE  IInv'
  <2>1. /\ logins' = logins + 1
        /\ process' = [process EXCEPT ![p].meta = TRUE]
        /\ jar' = [jar EXCEPT ![b].state = Seal(p, [login |-> logins + 1], StateSeconds)]
        /\ tabs' = tabs \cup {[login |-> logins + 1, browser |-> b]}
        /\ UNCHANGED <<now, secretsVars, provider, codes, signIns>>
    BY <1>4 DEF Login
  <2>2. KeysShape' /\ KeysKnown'
    BY <1>0, <2>1 DEF KeysShape, KeysKnown, Published, Signing
  <2>3. /\ DOMAIN jar' = site.browsers
        /\ \A a \in site.browsers :
              /\ DOMAIN jar'[a] = {"state", "session"} /\ jar'[a].session = jar[a].session
              /\ a # b => jar'[a].state = jar[a].state
        /\ jar'[b].state.payload.login = logins + 1
        /\ jar'[b].state.exp = now + StateSeconds
    BY <1>0, <2>1 DEF SignInsShape, Seal
  <2>4. /\ logins \in Nat /\ codes \subseteq [login : Nat, user : Users]
        /\ tabs \subseteq [login : Nat, browser : site.browsers]
    BY <1>0 DEF SignInsShape
  <2>5. SignInsShape'
    BY <1>0, <1>4, <2>1, <2>3 DEF SignInsShape
  <2>6. StatesInOrder'
    BY <1>0, <1>4, <2>1, <2>3, <2>4 DEF StatesInOrder
  <2>7. TabsInOrder'
    <3> SUFFICES ASSUME NEW tab \in tabs'
                 PROVE  /\ tab.login <= logins'
                        /\ \A a \in site.browsers :
                              jar'[a].state # Nothing /\ jar'[a].state.payload.login = tab.login =>
                                 a = tab.browser
      BY <1>4 DEF TabsInOrder
    <3>1. CASE tab \in tabs
      <4>1. tab.login \in Nat /\ tab.login <= logins
        BY <1>0, <2>4, <3>1 DEF TabsInOrder
      <4> QED BY <1>0, <2>1, <2>3, <2>4, <3>1, <4>1 DEF TabsInOrder
    <3>2. CASE tab = [login |-> logins + 1, browser |-> b]
      BY <1>0, <2>1, <2>3, <2>4, <3>2 DEF StatesInOrder
    <3> QED BY <2>1, <3>1, <3>2
  <2>8. CodesInOrder'
    <3> SUFFICES ASSUME NEW code \in codes
                 PROVE  /\ code.login <= logins'
                        /\ \E s \in signIns :
                              /\ s.user = code.user
                              /\ \A a \in site.browsers :
                                    jar'[a].state # Nothing /\ jar'[a].state.payload.login = code.login =>
                                       a = s.browser /\ jar'[a].state.exp <= s.at + StateSeconds
      BY <1>4, <2>1 DEF CodesInOrder
    <3>1. code.login \in Nat /\ code.login <= logins
      BY <1>0, <2>4 DEF CodesInOrder
    <3> QED BY <1>0, <2>1, <2>3, <2>4, <3>1 DEF CodesInOrder
  <2>9. SessionsInOrder'
    BY <1>0, <1>4, <2>1, <2>3 DEF SessionsInOrder
  <2> QED
    BY <1>4, <2>1, <2>2, <2>5, <2>6, <2>7, <2>8, <2>9, SecretsKept DEF IInv, secretsVars
<1>5. ASSUME NEW p \in Processes, NEW b \in site.browsers, Logout(p, b), UNCHANGED site
      PROVE  IInv'
  <2>1. /\ jar' = [jar EXCEPT ![b].session = Nothing]
        /\ UNCHANGED <<now, secretsVars, process, provider, logins, tabs, codes, signIns>>
    BY <1>5 DEF Logout
  <2>2. /\ DOMAIN jar' = site.browsers
        /\ \A a \in site.browsers :
              /\ DOMAIN jar'[a] = {"state", "session"} /\ jar'[a].state = jar[a].state
              /\ jar'[a].session \in {Nothing, jar[a].session}
    BY <1>0, <2>1 DEF SignInsShape
  <2>3. SignInsShape' /\ StatesInOrder'
    BY <1>0, <1>5, <2>1, <2>2 DEF SignInsShape, StatesInOrder
  <2>4. TabsInOrder' /\ CodesInOrder'
    BY <1>0, <1>5, <2>1, <2>2 DEF TabsInOrder, CodesInOrder
  <2>5. SessionsInOrder'
    BY <1>0, <1>5, <2>1, <2>2 DEF SessionsInOrder
  <2> QED
    BY <1>5, <2>1, <2>3, <2>4, <2>5, SecretsKept, KeysKept DEF IInv, secretsVars
<1>6. ASSUME NEW p \in Processes, NEW b \in site.browsers, NEW code \in codes,
             Callback(p, b, code), UNCHANGED site
      PROVE  IInv'
  <2>1. /\ Pending(p, b, code) /\ codes' = codes \ {code}
        /\ UNCHANGED <<now, secretsVars, provider, logins, tabs, signIns>>
    BY <1>6 DEF Callback
  <2>2. PICK answers \in BOOLEAN :
          /\ process' = [process EXCEPT ![p] = AfterJwt(p, Signing, answers)]
          /\ \/ /\ code.user \in Allowed
                /\ jar' = [jar EXCEPT ![b] = [state |-> Nothing,
                             session |-> Seal(p, [user |-> code.user], SessionSeconds)]]
             \/ UNCHANGED jar
    BY <1>6 DEF Callback
  <2>3. KeysShape' /\ KeysKnown'
    BY <2>1, <2>2, FetchedKnows
  <2>4. /\ jar[b].state # Nothing /\ jar[b].state.exp > now
        /\ jar[b].state.payload.login = code.login
    BY <2>1 DEF Pending, Open
  <2>5. PICK s \in signIns : /\ s.user = code.user /\ s.browser = b
                             /\ jar[b].state.exp <= s.at + StateSeconds
    BY <1>0, <2>4 DEF CodesInOrder
  <2>6. s.at \in Nat /\ jar[b].state.exp \in Nat
    BY <1>0, <2>4, <2>5 DEF SignInsShape, StatesInOrder
  <2>7. CASE UNCHANGED jar
    <3>1. SignInsShape' /\ StatesInOrder' /\ SessionsInOrder'
      BY <1>0, <1>6, <2>1, <2>7 DEF SignInsShape, StatesInOrder, SessionsInOrder
    <3>2. TabsInOrder' /\ CodesInOrder'
      BY <1>0, <1>6, <2>1, <2>7 DEF TabsInOrder, CodesInOrder
    <3> QED
      BY <1>6, <2>1, <2>3, <3>1, <3>2, SecretsKept DEF IInv, secretsVars
  <2>8. CASE /\ code.user \in Allowed
             /\ jar' = [jar EXCEPT ![b] = [state |-> Nothing,
                          session |-> Seal(p, [user |-> code.user], SessionSeconds)]]
    <3>1. /\ DOMAIN jar' = site.browsers
          /\ \A a \in site.browsers :
                /\ DOMAIN jar'[a] = {"state", "session"}
                /\ jar'[a].state \in {Nothing, jar[a].state}
                /\ a # b => jar'[a].session = jar[a].session
          /\ jar'[b].session.exp = now + SessionSeconds
          /\ jar'[b].session.payload.user = code.user
      BY <1>0, <2>8 DEF SignInsShape, Seal
    <3>2. SignInsShape' /\ StatesInOrder'
      BY <1>0, <1>6, <2>1, <3>1 DEF SignInsShape, StatesInOrder
    <3>3. TabsInOrder' /\ CodesInOrder'
      BY <1>0, <1>6, <2>1, <3>1 DEF TabsInOrder, CodesInOrder
    <3>4. SessionsInOrder'
      <4>1. now + SessionSeconds \in Nat /\ now + SessionSeconds <= s.at + StateSeconds + SessionSeconds
        BY <1>0, <2>4, <2>5, <2>6
      <4> QED BY <1>0, <1>6, <2>1, <2>5, <2>8, <3>1, <4>1 DEF SessionsInOrder
    <3> QED
      BY <1>6, <2>1, <2>3, <3>2, <3>3, <3>4, SecretsKept DEF IInv, secretsVars
  <2> QED BY <2>2, <2>7, <2>8
<1>7. ASSUME NEW p \in Processes, NEW b \in site.browsers, NEW code \in codes,
             CallbackFails(p, b, code), UNCHANGED site
      PROVE  IInv'
  <2>1. /\ codes' = codes \ {code}
        /\ UNCHANGED <<now, secretsVars, process, provider, jar, logins, tabs, signIns>>
    BY <1>7 DEF CallbackFails
  <2>2. SignInsShape' /\ StatesInOrder' /\ SessionsInOrder'
    BY <1>0, <1>7, <2>1 DEF SignInsShape, StatesInOrder, SessionsInOrder
  <2>3. TabsInOrder' /\ CodesInOrder'
    BY <1>0, <1>7, <2>1 DEF TabsInOrder, CodesInOrder
  <2> QED
    BY <1>7, <2>1, <2>2, <2>3, SecretsKept, KeysKept DEF IInv, secretsVars
<1>8. ASSUME NEW tab \in tabs, NEW user \in Users, Authenticate(tab, user), UNCHANGED site
      PROVE  IInv'
  <2>1. /\ tabs' = tabs \ {tab}
        /\ codes' = codes \cup {[login |-> tab.login, user |-> user]}
        /\ signIns' = signIns \cup {[browser |-> tab.browser, user |-> user, at |-> now]}
        /\ UNCHANGED <<now, secretsVars, process, provider, jar, logins>>
    BY <1>8 DEF Authenticate
  <2>2. SignInsShape' /\ StatesInOrder'
    BY <1>0, <1>8, <2>1 DEF SignInsShape, StatesInOrder
  <2>3. TabsInOrder'
    BY <1>0, <1>8, <2>1 DEF TabsInOrder
  <2>4. SessionsInOrder'
    BY <1>0, <1>8, <2>1 DEF SessionsInOrder
  <2>5. CodesInOrder'
    <3> DEFINE s == [browser |-> tab.browser, user |-> user, at |-> now]
    <3>1. \A a \in site.browsers :
             jar[a].state # Nothing /\ jar[a].state.payload.login = tab.login =>
                a = s.browser /\ jar[a].state.exp <= s.at + StateSeconds
      BY <1>0 DEF TabsInOrder, StatesInOrder
    <3>2. tab.login <= logins /\ s.user = user /\ s \in signIns'
      BY <1>0, <2>1 DEF TabsInOrder
    <3> HIDE DEF s
    <3> SUFFICES ASSUME NEW code \in codes'
                 PROVE  /\ code.login <= logins
                        /\ \E e \in signIns' :
                              /\ e.user = code.user
                              /\ \A a \in site.browsers :
                                    jar[a].state # Nothing /\ jar[a].state.payload.login = code.login =>
                                       a = e.browser /\ jar[a].state.exp <= e.at + StateSeconds
      BY <1>8, <2>1 DEF CodesInOrder
    <3>3. CASE code \in codes
      BY <1>0, <2>1, <3>3 DEF CodesInOrder
    <3>4. CASE code = [login |-> tab.login, user |-> user]
      BY <3>1, <3>2, <3>4
    <3> QED BY <2>1, <3>3, <3>4
  <2> QED
    BY <1>8, <2>1, <2>2, <2>3, <2>4, <2>5, SecretsKept, KeysKept DEF IInv, secretsVars
<1>9. ASSUME NewKey \/ WithdrawKeys, UNCHANGED site PROVE IInv'
  <2>1. UNCHANGED <<now, secretsVars, process, jar, logins, tabs, codes, signIns>>
    BY <1>9 DEF NewKey, WithdrawKeys
  <2>2. CASE NewKey
    <3>1. provider.since \in Seq(Nat) /\ provider.oldest \in Nat \ {0}
      BY <1>0 DEF KeysShape
    <3>2. provider' = [provider EXCEPT !.since = Append(@, now)]
      BY <2>2 DEF NewKey
    <3>3. /\ provider'.oldest = provider.oldest
          /\ provider'.since = Append(provider.since, now)
      BY <1>0, <3>2 DEF KeysShape
    <3>0. /\ Append(provider.since, now) \in Seq(Nat)
          /\ Len(Append(provider.since, now)) = Len(provider.since) + 1
          /\ \A k \in 1 .. Len(provider.since) : Append(provider.since, now)[k] = provider.since[k]
          /\ Append(provider.since, now)[Len(provider.since) + 1] = now
          /\ Len(provider.since) \in Nat
      BY <1>0, <3>1
    <3>4. /\ provider' \in [oldest : Nat \ {0}, since : Seq(Nat)]
          /\ Signing' = Signing + 1 /\ Signing \in Nat
          /\ \A k \in 1 .. Signing : provider'.since[k] = provider.since[k]
          /\ provider'.since[Signing + 1] = now
      <4>1. provider' \in [oldest : Nat \ {0}, since : Seq(Nat)]
        BY <1>0, <3>0, <3>2 DEF KeysShape
      <4> QED BY <3>0, <3>3, <4>1 DEF Signing
    <3>5. KeysShape'
      BY <1>0, <2>1, <3>4 DEF KeysShape
    <3>6. KeysKnown'
      <4>1. \A q \in Processes : process[q].jwksAt \in Nat /\ process[q].jwksAt <= now
        BY <1>0 DEF KeysShape, KeysKnown
      <4>2. ASSUME NEW k \in Published', k \notin Published PROVE provider'.since[k] = now
        <5>1. Published' = provider.oldest .. Signing + 1 /\ Published = provider.oldest .. Signing
          BY <3>3, <3>4 DEF Published
        <5>2. k = Signing + 1
          BY <3>1, <3>4, <4>2, <5>1
        <5> QED BY <3>4, <5>2
      <4>3. ASSUME NEW k \in Published PROVE provider'.since[k] = provider.since[k]
        BY <3>1, <3>4, <4>3 DEF Published
      <4> QED BY <1>0, <2>1, <4>1, <4>2, <4>3 DEF KeysKnown
    <3> QED
      BY <1>9, <2>1, <3>5, <3>6, SecretsKept, SignInsKept DEF IInv, secretsVars
  <2>3. CASE WithdrawKeys
    <3>1. provider' = [provider EXCEPT !.oldest = Signing] /\ provider.oldest < Signing
      BY <2>3 DEF WithdrawKeys
    <3>2. provider.since \in Seq(Nat) /\ Signing \in Nat /\ provider.oldest \in Nat \ {0}
      BY <1>0 DEF KeysShape, Signing
    <3>3. /\ provider' \in [oldest : Nat \ {0}, since : Seq(Nat)]
          /\ Published' \subseteq Published /\ provider'.since = provider.since
      <4>1. /\ provider' \in [oldest : Nat \ {0}, since : Seq(Nat)]
            /\ provider'.oldest = Signing /\ provider'.since = provider.since
        <5>1. provider \in [oldest : Nat \ {0}, since : Seq(Nat)] /\ Signing \in Nat \ {0}
          BY <1>0, <3>1, <3>2 DEF KeysShape
        <5> QED BY <3>1, <5>1
      <4>2. Signing' = Signing
        BY <4>1 DEF Signing
      <4>3. Published' = Signing .. Signing /\ Published = provider.oldest .. Signing
        BY <4>1, <4>2 DEF Published
      <4> QED BY <3>1, <3>2, <4>1, <4>3
    <3>4. KeysShape' /\ KeysKnown'
      BY <1>0, <2>1, <3>3 DEF KeysShape, KeysKnown
    <3> QED
      BY <1>9, <2>1, <3>4, SecretsKept, SignInsKept DEF IInv, secretsVars
  <2> QED BY <1>9, <2>2, <2>3
<1>10. ASSUME NEW t \in site.threads, NEW options \in site.blocks, Lookup(t, options),
              UNCHANGED <<signOnVars, site>>
       PROVE  IInv'
  <2> DEFINE asked == [at |-> "fetch", ref |-> options[Chosen(options)], began |-> now,
                       via |-> Chosen(options)]
  <2>1. /\ lookup' = [lookup EXCEPT ![t] = asked]
        /\ Local(options, FALSE, TRUE) = "ask"
        /\ UNCHANGED <<now, backend, replaced, cache>>
    BY <1>10 DEF Lookup
  <2>2. asked \in Fetching /\ asked.began = now /\ asked.at = "fetch"
    BY <1>0, <2>1, AskedIsManaged DEF Fetching
  <2> HIDE DEF asked
  <2>3. SecretsShape'
    BY <1>0, <1>10, <2>1, <2>2 DEF SecretsShape
  <2>4. Replacements' /\ EntriesInOrder'
    BY <1>0, <2>1 DEF Replacements, EntriesInOrder, ReadSince
  <2>5. LookupsInOrder'
    BY <1>0, <1>10, <2>1, <2>2 DEF LookupsInOrder, ReadSince
  <2> QED
    BY <1>10, <2>1, <2>3, <2>4, <2>5, KeysKept, SignInsKept DEF IInv, signOnVars
<1>11. ASSUME NEW t \in site.threads, Fetch(t), UNCHANGED <<signOnVars, site>>
       PROVE  IInv'
  <2> DEFINE got == [at |-> "store", ref |-> lookup[t].ref, began |-> lookup[t].began,
                     value |-> backend[lookup[t].ref]]
  <2>1. /\ lookup' = [lookup EXCEPT ![t] = got]
        /\ lookup[t].at = "fetch"
        /\ UNCHANGED <<now, backend, replaced, cache>>
    BY <1>0, <1>11 DEF Fetch, SecretsShape
  <2>2. lookup[t] \in Fetching /\ lookup[t] # Idle
    <3>1. lookup[t] \in Fetching \union Storing \union {Idle}
      BY <1>0 DEF SecretsShape
    <3>2. (\A x \in Storing : x.at = "store") /\ Idle.at = "idle"
      BY DEF Storing, Idle
    <3> QED BY <2>1, <3>1, <3>2
  <2>3. /\ got \in Storing /\ got.began = lookup[t].began /\ got.ref = lookup[t].ref
        /\ got.at = "store" /\ got.value = backend[got.ref] /\ backend[got.ref] \in Nat
    BY <1>0, <2>2 DEF Fetching, Storing, SecretsShape
  <2> HIDE DEF got
  <2>4. SecretsShape'
    BY <1>0, <1>11, <2>1, <2>3 DEF SecretsShape
  <2>5. Replacements' /\ EntriesInOrder'
    BY <1>0, <2>1 DEF Replacements, EntriesInOrder, ReadSince
  <2>6. LookupsInOrder'
    BY <1>0, <1>11, <2>1, <2>2, <2>3 DEF LookupsInOrder, ReadSince
  <2> QED
    BY <1>11, <2>1, <2>4, <2>5, <2>6, KeysKept, SignInsKept DEF IInv, signOnVars
<1>12. ASSUME NEW t \in site.threads, FetchFails(t), UNCHANGED <<signOnVars, site>>
       PROVE  IInv'
  <2>1. /\ lookup' = [lookup EXCEPT ![t] = Idle]
        /\ UNCHANGED <<now, backend, replaced, cache>>
    BY <1>12 DEF FetchFails
  <2>2. SecretsShape'
    BY <1>0, <1>12, <2>1 DEF SecretsShape
  <2>3. Replacements' /\ EntriesInOrder'
    BY <1>0, <2>1 DEF Replacements, EntriesInOrder, ReadSince
  <2>4. LookupsInOrder'
    BY <1>0, <1>12, <2>1 DEF LookupsInOrder, ReadSince
  <2> QED
    BY <1>12, <2>1, <2>2, <2>3, <2>4, KeysKept, SignInsKept DEF IInv, signOnVars
<1>13. ASSUME NEW t \in site.threads, Store(t), UNCHANGED <<signOnVars, site>>
       PROVE  IInv'
  <2>1. /\ lookup[t].at = "store"
        /\ cache' = [cache EXCEPT ![t[1]][lookup[t].ref] = Stored(t)]
        /\ lookup' = [lookup EXCEPT ![t] = Idle]
        /\ UNCHANGED <<now, backend, replaced>>
    BY <1>13 DEF Store
  <2>2. lookup[t] \in Storing /\ lookup[t] # Idle /\ t[1] \in Processes
    BY <1>0, <2>1 DEF SecretsShape, Idle, Fetching
  <2>3. /\ Stored(t) \in Entries /\ Stored(t).at = lookup[t].began
        /\ Stored(t).value = lookup[t].value /\ lookup[t].ref \in Refs
    BY <2>2 DEF Stored, Stamp, Storing, Entries
  <2>4. SecretsShape'
    BY <1>0, <1>13, <2>1, <2>2, <2>3 DEF SecretsShape
  <2>5. Replacements' /\ LookupsInOrder'
    BY <1>0, <1>13, <2>1 DEF Replacements, LookupsInOrder, ReadSince
  <2>6. EntriesInOrder'
    <3>1. Stored(t).at <= now /\ ReadSince(Stored(t).value, lookup[t].ref, Stored(t).at)
      BY <1>0, <2>1, <2>2, <2>3 DEF LookupsInOrder
    <3>2. \A p \in Processes, r \in Refs :
             cache'[p][r] = IF p = t[1] /\ r = lookup[t].ref THEN Stored(t) ELSE cache[p][r]
      BY <1>0, <2>1, <2>2, <2>3 DEF SecretsShape
    <3> QED BY <1>0, <2>1, <3>1, <3>2 DEF EntriesInOrder, ReadSince
  <2> QED
    BY <1>13, <2>1, <2>4, <2>5, <2>6, KeysKept, SignInsKept DEF IInv, signOnVars
<1>14. ASSUME NEW ref \in Refs, ReplaceSecret(ref), UNCHANGED <<signOnVars, site>>
       PROVE  IInv'
  <2>1. /\ backend' = [backend EXCEPT ![ref] = @ + 1]
        /\ replaced' = [replaced EXCEPT ![ref] = Append(@, now)]
        /\ UNCHANGED <<now, cache, lookup>>
    BY <1>14 DEF ReplaceSecret
  <2>2. SecretsShape'
    BY <1>0, <1>14, <2>1 DEF SecretsShape
  <2>3. \A r \in Refs :
           /\ replaced[r] \in Seq(Nat) /\ Len(replaced[r]) = backend[r] /\ backend[r] \in Nat
           /\ r # ref => replaced'[r] = replaced[r] /\ backend'[r] = backend[r]
    BY <1>0, <2>1 DEF SecretsShape, Replacements
  <2>4. /\ Len(replaced'[ref]) = backend[ref] + 1 /\ backend'[ref] = backend[ref] + 1
        /\ \A v \in 1..backend[ref] : replaced'[ref][v] = replaced[ref][v]
        /\ replaced'[ref][backend[ref] + 1] = now
    BY <1>0, <2>1, <2>3 DEF SecretsShape
  <2>5. Replacements'
    BY <1>0, <2>1, <2>3, <2>4 DEF Replacements
  <2>6. ASSUME NEW value \in Nat, NEW r \in Refs, NEW s \in Nat, s <= now, ReadSince(value, r, s)
        PROVE  ReadSince(value, r, s)'
    <3>1. CASE r # ref
      BY <2>3, <2>6, <3>1 DEF ReadSince
    <3>2. CASE r = ref /\ value = backend[ref]
      BY <2>3, <2>4, <2>6, <3>2 DEF ReadSince
    <3>3. CASE r = ref /\ value < backend[ref]
      <4>1. value + 1 \in 1..backend[ref] /\ s <= replaced[ref][value + 1]
        BY <2>3, <2>6, <3>3 DEF ReadSince
      <4>2. replaced'[ref][value + 1] = replaced[ref][value + 1]
        BY <2>4, <4>1
      <4> QED BY <2>3, <2>4, <2>6, <3>3, <4>1, <4>2 DEF ReadSince
    <3> QED BY <2>3, <2>6, <3>1, <3>2, <3>3 DEF ReadSince
  <2>7. EntriesInOrder'
    <3>1. \A p \in Processes, r \in Refs :
             cache[p][r] # Nothing => cache[p][r].at \in Nat /\ cache[p][r].value \in Nat
      BY <1>0 DEF SecretsShape, Entries
    <3> QED BY <1>0, <2>1, <2>6, <3>1 DEF EntriesInOrder
  <2>8. LookupsInOrder'
    <3>1. \A t \in site.threads :
             lookup[t] # Idle => /\ lookup[t].began \in Nat
                                 /\ lookup[t].at = "store" => /\ lookup[t].value \in Nat
                                                              /\ lookup[t].ref \in Refs
      BY <1>0 DEF SecretsShape, Fetching, Storing
    <3> QED BY <1>0, <1>14, <2>1, <2>6, <3>1 DEF LookupsInOrder
  <2> QED
    BY <1>14, <2>1, <2>2, <2>5, <2>7, <2>8, KeysKept, SignInsKept DEF IInv, signOnVars
<1>15. ASSUME NEW p \in Processes, ExpireToken(p), UNCHANGED <<signOnVars, site>> PROVE IInv'
  BY <1>15, SecretsKept, KeysKept, SignInsKept DEF ExpireToken, IInv, signOnVars
<1>16. ASSUME Tick, UNCHANGED <<signOnVars, site>> PROVE IInv'
  <2>1. /\ now' = now + 1 /\ UNCHANGED <<backend, replaced, cache, lookup>>
        /\ \A t \in site.threads : lookup[t] # Idle => now + 1 < lookup[t].began + CacheSeconds
    BY <1>0, <1>16 DEF Tick, secretsVars
  <2>2. SecretsShape'
    BY <1>0, <1>16, <2>1 DEF SecretsShape
  <2>3. Replacements'
    BY <1>0, <2>1 DEF Replacements, SecretsShape
  <2>4. EntriesInOrder'
    BY <1>0, <2>1 DEF EntriesInOrder, ReadSince, SecretsShape, Entries
  <2>5. LookupsInOrder'
    BY <1>0, <1>16, <2>1 DEF LookupsInOrder, ReadSince, SecretsShape, Fetching, Storing
  <2>6. UNCHANGED <<process, provider, jar, logins, tabs, codes, signIns, site>>
    BY <1>16 DEF signOnVars
  <2>7. KeysShape' /\ KeysKnown'
    <3>1. KeysShape'
      BY <1>0, <2>6 DEF KeysShape
    <3>2. \A q \in Processes : process[q].jwksAt \in Nat /\ process[q].jwksAt <= now
      BY <1>0 DEF KeysShape, KeysKnown
    <3>3. \A q \in Processes : process[q].jwksAt <= now'
      BY <1>0, <2>1, <3>2
    <3>4. Published' = Published
      BY <2>6 DEF Published, Signing
    <3>5. KeysKnown'
      BY <1>0, <2>6, <3>3, <3>4 DEF KeysKnown
    <3> QED BY <3>1, <3>5
  <2>8. SignInsShape' /\ StatesInOrder' /\ SessionsInOrder'
    BY <1>0, <2>1, <2>6 DEF SignInsShape, StatesInOrder, SessionsInOrder
  <2>9. TabsInOrder' /\ CodesInOrder'
    BY <1>0, <2>6 DEF TabsInOrder, CodesInOrder
  <2> QED
    BY <2>2, <2>3, <2>4, <2>5, <2>6, <2>8, <2>9, <2>7 DEF IInv
<1>17. CASE UNCHANGED vars
  BY <1>17, SecretsKept, KeysKept, SignInsKept DEF vars, secretsVars, signOnVars, IInv
<1>18. ASSUME NEW p \in Processes, NEW b \in site.browsers, SignOnStep(p, b) PROVE IInv'
  BY <1>4, <1>5, <1>6, <1>7, <1>18 DEF SignOnStep
<1>19. CASE ProviderStep
  BY <1>8, <1>9, <1>19 DEF ProviderStep
<1>20. CASE SecretsStep
  <2>1. UNCHANGED <<signOnVars, site>>
    BY <1>20 DEF SecretsStep
  <2>2. site.refs \subseteq Refs
    BY <1>0
  <2> QED
    BY <1>0, <1>10, <1>11, <1>12, <1>13, <1>14, <1>15, <1>16, <1>20, <2>1, <2>2 DEF SecretsStep
<1> QED
  BY <1>0, <1>1, <1>2, <1>3, <1>17, <1>18, <1>19, <1>20 DEF Next

-----------------------------------------------------------------------------
(* Theorems                                                                 *)

\* The inductive invariant holds in every reachable state: of every cached secret,
\* every fetched key set and every login under way.
THEOREM Invariance == Spec => []IInv
<1>1. Init => IInv
  BY Initial
<1>2. IInv /\ [Next]_vars => IInv'
  BY Step
<1> QED
  BY <1>1, <1>2, PTL DEF Spec

\* However many threads look a secret up at the same time and in whatever order
\* they store what they got, nobody is given a value that was replaced longer ago
\* than the cache keeps one, where it keeps any.  The inductive part: a value that
\* is kept since a time (an entry's at, a lookup's began) was read at that time or
\* later.
THEOREM SecretsFresh == ASSUME CacheSeconds > 0 PROVE Spec => []SecretsAreFresh
<1>1. IInv => SecretsAreFresh
  <2> SUFFICES ASSUME IInv PROVE SecretsAreFresh
    OBVIOUS
  <2>1. ASSUME NEW ref \in Refs, NEW value \in Nat, NEW t \in Nat, ReadSince(value, ref, t),
               now < t + CacheSeconds
        PROVE  Recent(ref, value)
    <3> SUFFICES ASSUME value < backend[ref]
                 PROVE  now - replaced[ref][value + 1] < CacheSeconds
      BY DEF Recent
    <3>1. t <= replaced[ref][value + 1] /\ now \in Nat
      BY <2>1 DEF ReadSince, IInv, SecretsShape
    <3>2. value + 1 \in 1..Len(replaced[ref]) /\ replaced[ref] \in Seq(Nat)
      BY DEF IInv, SecretsShape, Replacements
    <3>3. replaced[ref][value + 1] \in Nat
      BY <3>2
    <3> QED BY <2>1, <3>1, <3>3
  <2>2. ASSUME NEW p \in Processes, NEW ref \in Refs, Fresh(p, ref, now)
        PROVE  Recent(ref, cache[p][ref].value)
    <3>1. cache[p][ref] # Nothing /\ now - cache[p][ref].at < CacheSeconds /\ now \in Nat
      BY <2>2 DEF Fresh, IInv, SecretsShape
    <3>2. cache[p][ref].value \in Nat /\ cache[p][ref].at \in Nat
      BY <3>1 DEF IInv, SecretsShape, Entries
    <3>3. ReadSince(cache[p][ref].value, ref, cache[p][ref].at)
      BY <3>1 DEF IInv, EntriesInOrder
    <3> QED BY <2>1, <3>1, <3>2, <3>3
  <2>3. ASSUME NEW t \in DOMAIN lookup, lookup[t].at = "store"
        PROVE  Recent(lookup[t].ref, lookup[t].value)
    <3>1. lookup[t] \in Fetching \union Storing \union {Idle} /\ t \in site.threads
      BY DEF IInv, SecretsShape
    <3>2. (\A x \in Fetching : x.at = "fetch") /\ Idle.at = "idle"
      BY DEF Fetching, Idle
    <3>3. lookup[t] \in Storing /\ lookup[t] # Idle
      BY <2>3, <3>1, <3>2
    <3>4. lookup[t].ref \in Refs /\ lookup[t].value \in Nat /\ lookup[t].began \in Nat
      BY <3>3 DEF Storing
    <3>5. /\ ReadSince(lookup[t].value, lookup[t].ref, lookup[t].began)
          /\ now < lookup[t].began + CacheSeconds
      BY <2>3, <3>1, <3>3 DEF IInv, LookupsInOrder
    <3> QED BY <2>1, <3>4, <3>5
  <2> QED BY <2>2, <2>3 DEF SecretsAreFresh
<1> QED
  BY <1>1, Invariance, PTL

\* Whatever keys the provider signed with and withdrew, and whatever unknown keys a
\* process was asked for before, it lets in a token that is good in every respect
\* and whose key is published for longer than JwksSeconds.  The inductive part: a
\* key set lacks no key that is still published and was there when it was fetched.
THEOREM NewKeysHonoured == Spec => []NewKeysAreHonoured
<1>1. IInv => NewKeysAreHonoured
  <2> SUFFICES ASSUME IInv, NEW p \in Processes, NEW token \in MachineTokens,
                      process[p].up, site.oidc, token.kid \in Published,
                      now - provider.since[token.kid] > JwksSeconds,
                      token.aud = "machines", now <= token.exp, token.user \in Allowed
               PROVE  Reader(p, "/report.html", BearerHeader(token), Nothing, TRUE) =
                        [ok |-> TRUE, who |-> token.user, how |-> "bearer"]
    BY DEF NewKeysAreHonoured
  <2>1. /\ site \in Sites /\ now \in Nat /\ KeysShape /\ KeysKnown
        /\ provider.oldest \in Nat \ {0} /\ provider.since \in Seq(Nat)
    BY DEF IInv, SecretsShape, KeysShape
  <2>2. /\ token.kid \in Nat \ {0} /\ token.kid \in 1..Len(provider.since)
        /\ provider.since[token.kid] \in Nat
    BY <2>1 DEF Published, Signing
  <2>3. /\ "kid" \in DOMAIN token
        /\ token.key = token.kid
        /\ token.iat \in 0 .. now /\ token.exp \in TokenSeconds .. now + TokenSeconds
    BY <2>2 DEF MachineTokens, NoKid
  <2>4. token.kid \in WithKeys(p, token.kid).jwks
    <3>1. process[p].jwksAt \in Nat
      BY <2>1 DEF KeysShape
    <3>2. CASE MustFetch(p, token.kid)
      <4>1. WithKeys(p, token.kid).jwks = Published
        BY <2>1, <3>2 DEF WithKeys, KeysShape
      <4> QED BY <4>1
    <3>3. CASE ~MustFetch(p, token.kid) /\ token.kid \notin process[p].jwks
      <4>1. KeyIn(process[p].jwks, token.kid) = NoKid
        BY <2>2, <3>3 DEF KeyIn, NoKid
      <4>2. process[p].jwks # {} /\ ~(now - process[p].jwksAt > JwksSeconds)
        BY <3>3, <4>1 DEF MustFetch
      <4>3. provider.since[token.kid] < process[p].jwksAt
        <5> DEFINE since == provider.since[token.kid]
                   fetched == process[p].jwksAt
        <5>1. /\ since \in Nat /\ fetched \in Nat /\ now \in Nat /\ JwksSeconds \in Nat
              /\ now - since > JwksSeconds /\ ~(now - fetched > JwksSeconds)
          BY <2>1, <2>2, <3>1, <4>2
        <5> HIDE DEF since, fetched
        <5>2. since < fetched
          BY <5>1
        <5> QED BY <5>2 DEF since, fetched
      <4> QED BY <2>1, <3>3, <4>2, <4>3 DEF KeysKnown
    <3>4. CASE ~MustFetch(p, token.kid) /\ token.kid \in process[p].jwks
      BY <3>4 DEF WithKeys
    <3> QED BY <3>2, <3>3, <3>4
  <2>5. Bearer(p, token, TRUE) = "ok"
    <3>1. KeyIn(WithKeys(p, token.kid).jwks, token.kid) = token.kid
      BY <2>4 DEF KeyIn
    <3>2. ~(now > token.exp + Leeway) /\ ~(token.iat > now + Leeway)
      <4> DEFINE exp == token.exp
                 iat == token.iat
      <4>1. /\ exp \in Nat /\ iat \in Nat /\ now \in Nat /\ Leeway \in Nat
            /\ now <= exp /\ iat <= now
        BY <2>1, <2>3
      <4> HIDE DEF exp, iat
      <4>2. ~(now > exp + Leeway) /\ ~(iat > now + Leeway)
        BY <4>1
      <4> QED BY <4>2 DEF exp, iat
    <3>3. VerifyJwt(p, token, "machines", NoNonce, TRUE) = "ok"
      BY <2>2, <2>3, <3>1, <3>2 DEF VerifyJwt, NoKid, NoNonce
    <3> QED BY <3>3 DEF Bearer
  <2>6. /\ BearerHeader(token).scheme = "bearer" /\ BearerHeader(token).value = token
        /\ token \notin Tokens /\ token \notin site.tokens
    BY <2>1, <2>3 DEF BearerHeader
  <2>7. Who(BearerHeader(token)) = Nothing /\ IsJwt(BearerHeader(token))
    BY <2>6 DEF Who, IsJwt
  <2>8. "/report.html" \notin site.public
    BY <2>1
  <2>9. Reader(p, "/report.html", BearerHeader(token), Nothing, TRUE) =
           [ok |-> TRUE, who |-> BearerHeader(token).value.user, how |-> "bearer"]
    <3> DEFINE header == BearerHeader(token)
               path == "/report.html"
    <3>1. header.value = token /\ Bearer(p, header.value, TRUE) = "ok"
      BY <2>5, <2>6
    <3>2. (site.oidc /\ IsJwt(header)) /\ Who(header) = Nothing /\ path \notin site.public
      BY <2>7, <2>8
    <3> HIDE DEF header, path
    <3>3. Reader(p, path, header, Nothing, TRUE) =
             [ok |-> TRUE, who |-> header.value.user, how |-> "bearer"]
      BY <3>1, <3>2 DEF Reader
    <3> QED BY <3>3 DEF header, path
  <2> QED
    BY <2>6, <2>9
<1> QED
  BY <1>1, Invariance, PTL

\* Whoever reads over a session authenticated at the provider, in that same
\* browser, no longer ago than a login and a session may last together - for any
\* number of processes, of session keys and of browsers.  The inductive part
\* follows one login from the state cookie through the provider to the session.
THEOREM SessionsEarned == Spec => []SessionsAreEarned
<1>1. IInv => SessionsAreEarned
  <2> SUFFICES ASSUME IInv, NEW p \in Processes, NEW b \in DOMAIN jar,
                      Reader(p, "/report.html", NoHeader, b, TRUE).how = "session"
               PROVE  \E s \in signIns :
                         /\ s.browser = b /\ s.user \in Allowed
                         /\ s.user = Reader(p, "/report.html", NoHeader, b, TRUE).who
                         /\ now - s.at < StateSeconds + SessionSeconds
    BY DEF SessionsAreEarned
  <2>1. b \in site.browsers /\ now \in Nat
    BY DEF IInv, SecretsShape, SignInsShape
  <2> DEFINE user == IF site.oidc /\ b # Nothing THEN Session(p, b) ELSE Nothing
  <2>2. ~IsJwt(NoHeader)
    BY DEF IsJwt, NoHeader
  <2>3. user # Nothing /\ Reader(p, "/report.html", NoHeader, b, TRUE).who = user
    BY <2>2 DEF Reader
  <2>4. user = Session(p, b) /\ Session(p, b) # Nothing
    BY <2>3
  <2>5. Open(p, jar[b].session) # Nothing /\ user = Open(p, jar[b].session).user
    BY <2>4 DEF Session
  <2>6. /\ jar[b].session # Nothing /\ jar[b].session.exp > now
        /\ user = jar[b].session.payload.user
    BY <2>5 DEF Open
  <2>7. PICK s \in signIns :
           /\ s.browser = b /\ s.user = jar[b].session.payload.user /\ s.user \in Allowed
           /\ jar[b].session.exp <= s.at + StateSeconds + SessionSeconds
    BY <2>1, <2>6 DEF IInv, SessionsInOrder
  <2>8. s.at \in Nat /\ jar[b].session.exp \in Nat
    BY <2>1, <2>6, <2>7 DEF IInv, SignInsShape, SessionsInOrder
  <2>9. now - s.at < StateSeconds + SessionSeconds
    BY <2>1, <2>6, <2>7, <2>8
  <2> QED
    BY <2>3, <2>6, <2>7, <2>9
<1> QED
  BY <1>1, Invariance, PTL

=============================================================================

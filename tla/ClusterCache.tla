----------------------------- MODULE ClusterCache ----------------------------
(***************************************************************************)
(* cluster.Manager, the cache of the management API's cluster scheme, and  *)
(* repository.ClientManager, the Elasticsearch clients made from it.       *)
(* Request goroutines call GetClientForCluster, which calls Manager.Get: a *)
(* fresh entry is returned, a stale one is returned while a goroutine      *)
(* refreshes the cache, and a miss fetches (one such fetch at a time, the  *)
(* others wait on a condition variable).  A background goroutine refreshes *)
(* the cache all the time.                                                 *)
(*                                                                         *)
(* The scheme of version v of the management API maps every cluster name   *)
(* to its entry, or to None.  The age of the cache is counted in ticks.    *)
(***************************************************************************)
EXTENDS Integers, FiniteSets

CONSTANTS
  Callers,    \* request goroutines
  Twice,      \* bound: those of them whose request makes two calls
  Fetchers,   \* bound: refreshes in flight at a time
  Names, Aliases, Urls,
  Keys,       \* the names and aliases requests ask for
  Scheme,     \* the versions of the scheme, each [Names -> entry or None]
  TTL,        \* TAP_MANAGEMENT_CACHE_TTL
  MinGap,     \* minFetchGap
  AgeCap,     \* bound: the age is not counted further
  Dropped, None

\* What a cluster may be asked for by.
Refs == Names \cup Aliases

Entries == [name : Names, alias : Aliases \cup {None}, url : Urls,
            enabled : BOOLEAN]

ASSUME SchemeAssumption ==
  /\ DOMAIN Scheme = 1..Cardinality(DOMAIN Scheme) /\ 1 \in DOMAIN Scheme
  /\ \A v \in DOMAIN Scheme : \A n \in Names :
       Scheme[v][n] # None => Scheme[v][n] \in Entries /\ Scheme[v][n].name = n
ASSUME TwiceAssumption == Twice \subseteq Callers
ASSUME KeysAssumption == Keys \subseteq Refs /\ Keys # {}
ASSUME NoneAssumption == None \notin Callers
ASSUME TimesAssumption ==
  TTL \in Nat /\ MinGap \in Nat /\ AgeCap \in Nat /\ TTL < AgeCap
                                /\ MinGap < AgeCap

VARIABLES
  published, \* the version the management API serves
  \* Manager
  cached,    \* the version in m.clusters
  age,       \* time since m.lastFetch
  fetching,  \* m.fetching
  \* the refreshing goroutines, and what the API has answered them
  refresh,   \* "idle", "asked" or "answered"
  answer,    \* the version, of callers and refreshers (1 while unused)
  \* ClientManager
  clients,   \* url of the client of a key, or None
  lock,      \* who holds m.mu for writing, or None
  \* the callers
  pc, key, info,
  first,     \* what the first of a request's two calls gave, or None before
  seen       \* history: versions in the cache during the call

managerVars == <<cached, age, fetching>>
callVars == <<key, info, first>>
vars == <<published, managerVars, refresh, answer, clients, lock, pc,
          callVars, seen>>

TypeOK ==
  /\ published \in DOMAIN Scheme /\ cached \in DOMAIN Scheme
  /\ age \in 0..AgeCap /\ fetching \in BOOLEAN
  /\ refresh \in [Fetchers -> {"idle", "asked", "answered"}]
  /\ answer \in [Callers \cup Fetchers -> DOMAIN Scheme]
  /\ clients \in [Refs -> Urls \cup {None}]
  /\ lock \in Callers \cup {None}
  /\ pc \in [Callers -> {"idle", "lazy", "wait", "fetch", "install", "unset",
                         "lookup", "client", "lock", "connect", "return",
                         "error"}]
  /\ key \in [Callers -> Refs] /\ info \in [Callers -> Entries \cup {None}]
  /\ first \in [Callers -> Entries \cup {None, Dropped}]
  /\ seen \in [Callers -> SUBSET DOMAIN Scheme]

\* main exits unless InitialFetch succeeds.
Init ==
  /\ published = 1 /\ cached = 1 /\ age = 0 /\ fetching = FALSE
  /\ refresh = [f \in Fetchers |-> "idle"]
  /\ answer = [x \in Callers \cup Fetchers |-> 1]
  /\ clients = [k \in Refs |-> None] /\ lock = None
  /\ pc = [t \in Callers |-> "idle"]
  /\ key = [t \in Callers |-> CHOOSE k \in Keys : TRUE]
  /\ info = [t \in Callers |-> None] /\ first = [t \in Callers |-> None]
  /\ seen = [t \in Callers |-> {}]

-----------------------------------------------------------------------------
(* The management API and the clock.                                       *)

Publish ==
  /\ published + 1 \in DOMAIN Scheme /\ published' = published + 1
  /\ UNCHANGED <<managerVars, refresh, answer, clients, lock, pc, callVars,
                 seen>>

Tick ==
  /\ age < AgeCap /\ age' = age + 1
  /\ UNCHANGED <<published, cached, fetching, refresh, answer, clients, lock,
                 pc, callVars, seen>>

\* doFetch, its answer having arrived: the cache is replaced under the lock,
\* whatever version it holds.  Calls in progress see the new version.
Replace(v) ==
  /\ cached' = v /\ age' = 0
  /\ seen' = [t \in Callers |-> IF pc[t] = "idle" THEN seen[t]
                                                  ELSE seen[t] \cup {v}]

-----------------------------------------------------------------------------
(* BackgroundRefresh and safeFetch.                                        *)

BackgroundTick(f) ==
  /\ refresh[f] = "idle"
  /\ refresh' = [refresh EXCEPT ![f] = "asked"]
  /\ UNCHANGED <<published, managerVars, answer, clients, lock, pc, callVars,
                 seen>>

RefreshAnswered(f) ==
  /\ refresh[f] = "asked"
  /\ refresh' = [refresh EXCEPT ![f] = "answered"]
  /\ answer' = [answer EXCEPT ![f] = published]
  /\ UNCHANGED <<published, managerVars, clients, lock, pc, callVars, seen>>

RefreshFails(f) ==
  /\ refresh[f] = "asked"
  /\ refresh' = [refresh EXCEPT ![f] = "idle"]
  /\ UNCHANGED <<published, managerVars, answer, clients, lock, pc, callVars,
                 seen>>

\* MUTANT of RefreshInstall: the answer is dropped.
RefreshDropped(f) ==
  /\ refresh[f] = "answered"
  /\ refresh' = [refresh EXCEPT ![f] = "idle"]
  /\ UNCHANGED <<published, managerVars, answer, clients, lock, pc, callVars,
                 seen>>

RefreshInstall(f) ==
  /\ refresh[f] = "answered"
  /\ Replace(answer[f])
  /\ refresh' = [refresh EXCEPT ![f] = "idle"]
  /\ answer' = [answer EXCEPT ![f] = 1]
  /\ UNCHANGED <<published, fetching, clients, lock, pc, callVars>>

-----------------------------------------------------------------------------
(* Manager.Get.                                                            *)

Enabled(e) == e # None /\ e.enabled
\* A direct hit for k in the cache, under the read lock.
Direct(k) == IF k \in Names THEN Scheme[cached][k] ELSE None
\* The answers lookup may give: the name, or any enabled cluster with the
\* alias (a range over a map), or nothing.
Matches(v, k) ==
  IF k \in Names /\ Enabled(Scheme[v][k]) THEN {Scheme[v][k]}
  ELSE {Scheme[v][n] : n \in {m \in Names : Enabled(Scheme[v][m])
                                            /\ Scheme[v][m].alias = k}}

Goto(t, l) == pc' = [pc EXCEPT ![t] = l]

\* A request calls for what it asks.
CallAsked(t, k) == pc[t] = "idle" /\ k \in Keys /\ UNCHANGED first

Second(t, x) == t \in Twice /\ info[t] # None /\ first[t] = None
                /\ first' = [first EXCEPT ![t] = x]

\* CheckJobExists calls Get, drops what it gives, and calls
\* GetClientForCluster with the same key.
CallChecked(t, k) == pc[t] = "client" /\ k = key[t] /\ Second(t, Dropped)

\* MUTANT of CallForRange: the second call is made with what was asked.
CallForRangeAsked(t, k) ==
  pc[t] = "return" /\ k = key[t] /\ Second(t, info[t])

\* buildRawPlan calls again to discover the full range of a job, with the
\* real name of the cluster it is about to search.
CallForRange(t, k) ==
  pc[t] = "return" /\ info[t] # None /\ k = info[t].name /\ Second(t, info[t])

Calls(t, k) == CallAsked(t, k) \/ CallChecked(t, k) \/ CallForRange(t, k)

\* The first read decides the way the call takes.
GetFresh(t, k) ==
  /\ Calls(t, k) /\ Enabled(Direct(k)) /\ age <= TTL
  /\ info' = [info EXCEPT ![t] = Direct(k)] /\ key' = [key EXCEPT ![t] = k]
  /\ Goto(t, "client") /\ seen' = [seen EXCEPT ![t] = {cached}]
  /\ UNCHANGED <<published, managerVars, refresh, answer, clients, lock>>

\* A stale entry is used and a goroutine started (if the bound allows).
GetStale(t, k) ==
  /\ Calls(t, k) /\ Enabled(Direct(k)) /\ age > TTL
  /\ info' = [info EXCEPT ![t] = Direct(k)] /\ key' = [key EXCEPT ![t] = k]
  /\ Goto(t, "client") /\ seen' = [seen EXCEPT ![t] = {cached}]
  /\ LET free == {f \in Fetchers : refresh[f] = "idle"}
     IN IF free # {}
        THEN \E f \in free : refresh' = [refresh EXCEPT ![f] = "asked"]
        ELSE UNCHANGED refresh
  /\ UNCHANGED <<published, managerVars, answer, clients, lock>>

GetMiss(t, k) ==
  /\ Calls(t, k) /\ ~Enabled(Direct(k))
  /\ info' = [info EXCEPT ![t] = None] /\ key' = [key EXCEPT ![t] = k]
  /\ Goto(t, IF age > MinGap THEN "lazy" ELSE "lookup")
  /\ seen' = [seen EXCEPT ![t] = {cached}]
  /\ UNCHANGED <<published, managerVars, refresh, answer, clients, lock>>

\* MUTANT of LazyStart: the flag is set and not tested.
LazyStartUntested(t) ==
  /\ pc[t] = "lazy"
  /\ fetching' = TRUE /\ Goto(t, "fetch")
  /\ UNCHANGED <<published, cached, age, refresh, answer, clients, lock,
                 callVars, seen>>

LazyStart(t) ==
  /\ pc[t] = "lazy" /\ ~fetching
  /\ fetching' = TRUE /\ Goto(t, "fetch")
  /\ UNCHANGED <<published, cached, age, refresh, answer, clients, lock,
                 callVars, seen>>

LazyWait(t) ==
  /\ pc[t] = "lazy" /\ fetching /\ Goto(t, "wait")
  /\ UNCHANGED <<published, managerVars, refresh, answer, clients, lock,
                 callVars, seen>>

LazyWake(t) ==
  /\ pc[t] = "wait" /\ ~fetching /\ Goto(t, "lookup")
  /\ UNCHANGED <<published, managerVars, refresh, answer, clients, lock,
                 callVars, seen>>

LazyAnswered(t) ==
  /\ pc[t] = "fetch" /\ Goto(t, "install")
  /\ answer' = [answer EXCEPT ![t] = published]
  /\ UNCHANGED <<published, managerVars, refresh, clients, lock, callVars,
                 seen>>

LazyFails(t) ==
  /\ pc[t] = "fetch" /\ Goto(t, "unset")
  /\ UNCHANGED <<published, managerVars, refresh, answer, clients, lock,
                 callVars, seen>>

LazyInstall(t) ==
  /\ pc[t] = "install" /\ Replace(answer[t]) /\ Goto(t, "unset")
  /\ answer' = [answer EXCEPT ![t] = 1]
  /\ UNCHANGED <<published, fetching, refresh, clients, lock, callVars>>

\* MUTANT of LazyEnd: the flag is not reset.
LazyEndFlagged(t) ==
  /\ pc[t] = "unset" /\ Goto(t, "lookup")
  /\ UNCHANGED <<published, managerVars, refresh, answer, clients, lock,
                 callVars, seen>>

\* fetching is reset and the waiters woken, whether it failed or not.
LazyEnd(t) ==
  /\ pc[t] = "unset" /\ fetching' = FALSE /\ Goto(t, "lookup")
  /\ UNCHANGED <<published, cached, age, refresh, answer, clients, lock,
                 callVars, seen>>

\* MUTANT of Lookup: an alias is matched without looking at enabled.
LookupDisabled(t) ==
  LET named == {Scheme[cached][n] : n \in {m \in Names :
                  Scheme[cached][m] # None /\ Scheme[cached][m].alias = key[t]}}
  IN /\ pc[t] = "lookup"
     /\ IF named = {}
        THEN Goto(t, "error") /\ UNCHANGED info
        ELSE /\ \E e \in named : info' = [info EXCEPT ![t] = e]
             /\ Goto(t, "client")
     /\ UNCHANGED <<published, managerVars, refresh, answer, clients, lock,
                    key, first, seen>>

Lookup(t) ==
  /\ pc[t] = "lookup"
  /\ IF Matches(cached, key[t]) = {}
     THEN Goto(t, "error") /\ UNCHANGED info
     ELSE /\ \E e \in Matches(cached, key[t]) :
               info' = [info EXCEPT ![t] = e]
          /\ Goto(t, "client")
  /\ UNCHANGED <<published, managerVars, refresh, answer, clients, lock, key,
                 first, seen>>

-----------------------------------------------------------------------------
(* ClientManager.GetClientForCluster, the client being cached per key.     *)

Current(t) == clients[key[t]] = info[t].url

\* MUTANT of ClientRead: any client of the key will do.
ClientReadAny(t) ==
  /\ pc[t] = "client" /\ lock = None
  /\ Goto(t, IF clients[key[t]] # None THEN "return" ELSE "lock")
  /\ UNCHANGED <<published, managerVars, refresh, answer, clients, lock,
                 callVars, seen>>

\* The read lock is not granted while a writer connects.
ClientRead(t) ==
  /\ pc[t] = "client" /\ lock = None
  /\ Goto(t, IF Current(t) THEN "return" ELSE "lock")
  /\ UNCHANGED <<published, managerVars, refresh, answer, clients, lock,
                 callVars, seen>>

\* The second check, with the lock held for as long as connecting takes.
ClientLock(t) ==
  /\ pc[t] = "lock" /\ lock = None
  /\ IF Current(t) THEN Goto(t, "return") /\ UNCHANGED lock
                   ELSE Goto(t, "connect") /\ lock' = t
  /\ UNCHANGED <<published, managerVars, refresh, answer, clients, callVars,
                 seen>>

ClientConnected(t) ==
  /\ pc[t] = "connect"
  /\ clients' = [clients EXCEPT ![key[t]] = info[t].url]
  /\ lock' = None /\ Goto(t, "return")
  /\ UNCHANGED <<published, managerVars, refresh, answer, callVars, seen>>

\* MUTANT of ClientFails: the lock is kept when connecting fails.
ClientFailsLocked(t) ==
  /\ pc[t] = "connect" /\ Goto(t, "error")
  /\ UNCHANGED <<published, managerVars, refresh, answer, clients, lock,
                 callVars, seen>>

ClientFails(t) ==
  /\ pc[t] = "connect"
  /\ lock' = None /\ Goto(t, "error")
  /\ UNCHANGED <<published, managerVars, refresh, answer, clients, callVars,
                 seen>>

\* The request uses what it got, and is over.
Return(t) ==
  /\ pc[t] \in {"return", "error"} /\ Goto(t, "idle")
  /\ info' = [info EXCEPT ![t] = None] /\ seen' = [seen EXCEPT ![t] = {}]
  /\ first' = [first EXCEPT ![t] = None]
  /\ key' = [key EXCEPT ![t] = CHOOSE k \in Keys : TRUE]
  /\ UNCHANGED <<published, managerVars, refresh, answer, clients, lock>>

Step(t) ==
  \/ LazyStart(t) \/ LazyWait(t) \/ LazyWake(t) \/ LazyAnswered(t)
  \/ LazyFails(t) \/ LazyInstall(t) \/ LazyEnd(t) \/ Lookup(t)
  \/ ClientRead(t) \/ ClientLock(t) \/ ClientConnected(t) \/ ClientFails(t)
  \/ Return(t)

Refresh(f) ==
  \/ BackgroundTick(f) \/ RefreshAnswered(f) \/ RefreshFails(f)
  \/ RefreshInstall(f)

Next ==
  \/ Publish \/ Tick
  \/ \E f \in Fetchers : Refresh(f)
  \/ \E t \in Callers :
       \/ Step(t)
       \/ \E k \in Refs : GetFresh(t, k) \/ GetStale(t, k) \/ GetMiss(t, k)

Spec == Init /\ [][Next]_vars

\* A call moves on, a lock or a wake-up being granted in the end (sync locks
\* do not starve); requests to the API end; the ticker fires; and a refresh
\* that is repeated for ever is not refused for ever.
Fairness ==
  /\ \A t \in Callers : SF_vars(Step(t))
  /\ \A f \in Fetchers : WF_vars(Refresh(f)) /\ SF_vars(RefreshAnswered(f))
FairSpec == Spec /\ Fairness

-----------------------------------------------------------------------------
(* What callers rely on.                                                   *)

\* Misses never fetch side by side: the flag and the callers agree, so that
\* a wave of requests for unknown clusters is one request to the API.
OneLazyFetch ==
  LET busy == {t \in Callers : pc[t] \in {"fetch", "install", "unset"}}
  IN Cardinality(busy) <= 1 /\ (fetching <=> busy # {})

\* An answer is one some version of the cache gave during the call, and
\* never a disabled cluster; "not found" too was true of the cache at some
\* moment of the call (Get reads the cache up to twice, without a lock
\* between).
AnswerFromCache ==
  \A t \in Callers :
    /\ pc[t] \in {"client", "lock", "connect", "return"} =>
         \E v \in seen[t] : info[t] \in Matches(v, key[t])
    /\ pc[t] = "error" /\ info[t] = None =>
         \E v \in seen[t] : Matches(v, key[t]) = {}

\* A caller gets a client of the URL in its own cluster information, however
\* many other callers replace the client of that key with older or newer
\* information meanwhile (the URL test before and under the lock).  This is
\* of the moment of the check: the map may hold another client afterwards.
ClientOfOwnUrl ==
  [][\A t \in Callers : pc[t] # "return" /\ pc'[t] = "return" =>
       clients'[key[t]] = info[t].url]_vars

\* Double-checked locking: nobody connects while the map already holds the
\* client wanted, so that a client in use is never replaced by its equal.
NoNeedlessConnect ==
  \A t \in Callers : pc[t] = "connect" => ~Current(t)

\* Whoever has to wait waits for a caller that is at work and will release
\* it: no failed connection leaves the lock behind, no failed fetch the flag,
\* and nobody waits for himself (the deferred Unlock, and fetching reset
\* before the error is looked at).
NobodyWaitsInVain ==
  \A t \in Callers :
    /\ pc[t] \in {"client", "lock"} /\ lock # None =>
         lock # t /\ pc[lock] = "connect"
    /\ pc[t] = "wait" /\ fetching =>
         \E u \in Callers : pc[u] \in {"fetch", "install", "unset"}

\* The range of a full-range query is discovered on the cluster that is then
\* searched, though the two are looked up one after the other and aliases move
\* in between: unless the cluster itself was taken away in the meantime.
RangeOfSearchedCluster ==
  \A t \in Callers :
    pc[t] = "return" /\ first[t] \notin {None, Dropped}
      /\ info[t].name # first[t].name
    => \E v \in seen[t] : ~Enabled(Scheme[v][first[t].name])

\* Every call comes back: nobody waits for ever on the condition variable
\* or behind a connection that fails.
EveryGetReturns == \A t \in Callers : pc[t] # "idle" ~> pc[t] = "idle"

\* When the scheme no longer changes the cache ends up with its last
\* version, although older answers may overwrite newer ones on the way.
EventuallyFresh == <>[](cached = published)

-----------------------------------------------------------------------------
(* Why they hold: an inductive invariant.                                  *)

\* One caller at most is between setting m.fetching and resetting it.
Fetching(t) == pc[t] \in {"fetch", "install", "unset"}
FlagOK ==
  /\ \A t \in Callers, u \in Callers : Fetching(t) /\ Fetching(u) => t = u
  /\ fetching <=> \E t \in Callers : Fetching(t)

\* What a caller knows of the cache, and why its second call asks what it asks.
CallOK(t) ==
  /\ IF pc[t] = "idle" THEN first[t] = None ELSE cached \in seen[t]
  /\ pc[t] \in {"lazy", "wait", "fetch", "install", "unset", "lookup"} =>
       info[t] = None
  /\ pc[t] \in {"client", "lock", "connect", "return"} =>
       \E v \in seen[t] : info[t] \in Matches(v, key[t])
  /\ pc[t] = "error" /\ info[t] = None =>
       \E v \in seen[t] : Matches(v, key[t]) = {}
  /\ first[t] \notin {None, Dropped} => key[t] = first[t].name

\* The caller that connects holds the lock, and still has to.
LockOK(t) ==
  /\ pc[t] = "connect" <=> lock = t
  /\ pc[t] = "connect" => ~Current(t)

IInv == TypeOK /\ FlagOK /\ \A t \in Callers : CallOK(t) /\ LockOK(t)
=============================================================================

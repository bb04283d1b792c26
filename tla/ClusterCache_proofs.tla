------------------------- MODULE ClusterCache_proofs --------------------------
(***************************************************************************)
(* Proofs about ClusterCache, for every set of callers and refreshers, and *)
(* every sequence of schemes.                                              *)
(***************************************************************************)
EXTENDS ClusterCache, FiniteSetTheorems, TLAPS

USE KeysAssumption, TimesAssumption

-----------------------------------------------------------------------------
(* The scheme and lookup.                                                  *)

\* What lookup may answer is an enabled entry of the scheme; for a name that
\* is enabled, its own.
LEMMA MatchesAreEntries ==
  ASSUME NEW v \in DOMAIN Scheme, NEW k, NEW e \in Matches(v, k)
  PROVE  /\ e \in Entries /\ Enabled(e)
         /\ k \in Names /\ Enabled(Scheme[v][k]) => e.name = k
BY SchemeAssumption DEF Matches, Enabled

\* A direct hit that is enabled is the one answer of lookup.
LEMMA DirectMatches ==
  ASSUME TypeOK, NEW k \in Refs, Enabled(Direct(k))
  PROVE  Direct(k) \in Entries /\ Direct(k) \in Matches(cached, k)
<1>1. cached \in DOMAIN Scheme
  BY DEF TypeOK
<1>2. CASE k \in Names
  BY <1>1, <1>2, SchemeAssumption DEF Direct, Enabled, Matches
<1>3. CASE k \notin Names
  BY <1>3 DEF Direct, Enabled
<1> QED
  BY <1>2, <1>3

-----------------------------------------------------------------------------
(* Type correctness.                                                       *)

\* There is a first version of the scheme.
LEMMA FirstVersion == 1 \in DOMAIN Scheme
BY SchemeAssumption

LEMMA InitType == Init => TypeOK
<1> SUFFICES ASSUME Init PROVE TypeOK
  OBVIOUS
<1>1. (CHOOSE k \in Keys : TRUE) \in Refs
  OBVIOUS
<1>2. /\ published \in DOMAIN Scheme /\ cached \in DOMAIN Scheme
      /\ answer \in [Callers \cup Fetchers -> DOMAIN Scheme]
  BY FirstVersion DEF Init
<1>3. age \in 0..AgeCap
  <2>1. age = 0
    BY DEF Init
  <2> QED
    BY <2>1
<1>6. fetching \in BOOLEAN /\ lock \in Callers \cup {None}
  BY DEF Init
<1>4. key \in [Callers -> Refs]
  BY <1>1 DEF Init
<1>5. /\ clients \in [Refs -> Urls \cup {None}]
      /\ info \in [Callers -> Entries \cup {None}]
      /\ first \in [Callers -> Entries \cup {None, Dropped}]
      /\ seen \in [Callers -> SUBSET DOMAIN Scheme]
  BY DEF Init
<1> QED
  BY <1>2, <1>3, <1>4, <1>5, <1>6 DEF Init, TypeOK

LEMMA RefreshType ==
  ASSUME TypeOK, NEW f \in Fetchers, Refresh(f)
  PROVE  TypeOK'
<1> USE DEF TypeOK, managerVars, callVars
<1>1. CASE BackgroundTick(f)
  BY <1>1 DEF BackgroundTick
<1>2. CASE RefreshAnswered(f)
  BY <1>2 DEF RefreshAnswered
<1>3. CASE RefreshFails(f)
  BY <1>3 DEF RefreshFails
<1>4. CASE RefreshInstall(f)
  BY <1>4, FirstVersion DEF RefreshInstall, Replace
<1> QED
  BY <1>1, <1>2, <1>3, <1>4 DEF Refresh

\* The start of a call: what it asks and what it had before.
LEMMA CallType ==
  ASSUME TypeOK, NEW t \in Callers, NEW k \in Refs, Calls(t, k)
  PROVE  first' \in [Callers -> Entries \cup {None, Dropped}]
BY DEF TypeOK, Calls, CallAsked, CallChecked, CallForRange, Second

LEMMA GetType ==
  ASSUME TypeOK, NEW t \in Callers, NEW k \in Refs,
         GetFresh(t, k) \/ GetStale(t, k) \/ GetMiss(t, k)
  PROVE  TypeOK'
<1> USE DEF TypeOK, managerVars, Goto
<1>1. first' \in [Callers -> Entries \cup {None, Dropped}]
  BY CallType DEF GetFresh, GetStale, GetMiss
<1>2. CASE GetFresh(t, k)
  BY <1>1, <1>2, DirectMatches DEF GetFresh
<1>3. CASE GetStale(t, k)
  <2>1. refresh' \in [Fetchers -> {"idle", "asked", "answered"}]
    BY <1>3 DEF GetStale
  <2> QED
    BY <1>1, <1>3, <2>1, DirectMatches DEF GetStale
<1>4. CASE GetMiss(t, k)
  BY <1>1, <1>4 DEF GetMiss
<1> QED
  BY <1>2, <1>3, <1>4

LEMMA StepType ==
  ASSUME TypeOK, NEW t \in Callers, CallOK(t), Step(t)
  PROVE  TypeOK'
<1> USE DEF TypeOK, managerVars, callVars, Goto
<1>1. CASE LazyStart(t) \/ LazyEnd(t)
  BY <1>1 DEF LazyStart, LazyEnd
<1>8. CASE LazyWait(t) \/ LazyWake(t) \/ LazyFails(t)
  BY <1>8 DEF LazyWait, LazyWake, LazyFails
<1>2. CASE LazyAnswered(t)
  BY <1>2 DEF LazyAnswered
<1>3. CASE LazyInstall(t)
  BY <1>3, FirstVersion DEF LazyInstall, Replace
<1>4. CASE Lookup(t)
  BY <1>4, MatchesAreEntries DEF Lookup
<1>5. CASE ClientRead(t) \/ ClientLock(t) \/ ClientFails(t)
  BY <1>5 DEF ClientRead, ClientLock, ClientFails
<1>6. CASE ClientConnected(t)
  <2>1. info[t] \in Entries
    BY <1>6, MatchesAreEntries DEF ClientConnected, CallOK
  <2>2. clients' \in [Refs -> Urls \cup {None}]
    BY <1>6, <2>1 DEF ClientConnected, Entries
  <2> QED
    BY <1>6, <2>2 DEF ClientConnected
<1>7. CASE Return(t)
  BY <1>7 DEF Return
<1> QED
  BY <1>1, <1>2, <1>3, <1>4, <1>5, <1>6, <1>7, <1>8 DEF Step

LEMMA NextType == IInv /\ [Next]_vars => TypeOK'
<1> SUFFICES ASSUME TypeOK, \A t \in Callers : CallOK(t), [Next]_vars
             PROVE  TypeOK'
  BY DEF IInv
<1>1. CASE UNCHANGED vars
  BY <1>1 DEF TypeOK, vars, managerVars, callVars
<1>2. CASE Publish \/ Tick
  BY <1>2 DEF TypeOK, Publish, Tick, managerVars, callVars
<1> QED
  BY <1>1, <1>2, RefreshType, GetType, StepType DEF Next

-----------------------------------------------------------------------------
(* What a step may do.                                                     *)

\* A call begins.
Get(t) == \E k \in Refs : GetFresh(t, k) \/ GetStale(t, k) \/ GetMiss(t, k)

\* The answers of the API and the clock.
Outside == Publish \/ Tick \/ \E f \in Fetchers : Refresh(f)

LEMMA NextSteps ==
  ASSUME [Next]_vars
  PROVE  UNCHANGED vars \/ Outside \/ \E t \in Callers : Get(t) \/ Step(t)
BY DEF Next, Get, Outside

\* The step of a caller leaves the other callers where they are.
LEMMA CallerLocal ==
  ASSUME TypeOK, NEW t \in Callers, NEW q \in Callers, q # t, Get(t) \/ Step(t)
  PROVE  UNCHANGED <<pc[q], key[q], info[q], first[q]>>
<1> USE DEF TypeOK, callVars, Goto
<1>1. CASE Get(t)
  BY <1>1 DEF Get, GetFresh, GetStale, GetMiss, Calls, CallAsked, CallChecked,
              CallForRange, Second
<1>2. CASE Step(t)
  BY <1>2 DEF Step, LazyStart, LazyWait, LazyWake, LazyAnswered, LazyFails,
              LazyInstall, LazyEnd, Lookup, ClientRead, ClientLock,
              ClientConnected, ClientFails, Return
<1> QED
  BY <1>1, <1>2

\* A step of the outside leaves all callers where they are.
LEMMA OutsideLocal ==
  ASSUME Outside
  PROVE  UNCHANGED <<pc, key, info, first, fetching, lock, clients>>
BY DEF Outside, Publish, Tick, Refresh, BackgroundTick, RefreshAnswered,
       RefreshFails, RefreshInstall, managerVars, callVars

\* A new version in the cache is seen by every call in progress.
LEMMA SeenGrows ==
  ASSUME TypeOK, NEW t \in Callers,
         \/ Outside
         \/ \E q \in Callers \ {t} : Get(q) \/ Step(q)
         \/ LazyInstall(t)
  PROVE  /\ seen[t] \subseteq seen'[t]
         /\ pc[t] # "idle" /\ cached \in seen[t] => cached' \in seen'[t]
<1> USE DEF TypeOK, managerVars, callVars
<1>1. CASE \/ \E v : Replace(v)
           \/ seen'[t] = seen[t] /\ UNCHANGED cached
  BY <1>1 DEF Replace
<1>2. CASE Outside
  BY <1>1, <1>2 DEF Outside, Publish, Tick, Refresh, BackgroundTick,
     RefreshAnswered, RefreshFails, RefreshInstall
<1>3. ASSUME NEW q \in Callers \ {t}, Get(q)
      PROVE  seen'[t] = seen[t] /\ UNCHANGED cached
  BY <1>3 DEF Get, GetFresh, GetStale, GetMiss
<1>4. ASSUME NEW q \in Callers \ {t}, Step(q)
      PROVE  (\E v : Replace(v)) \/ (seen'[t] = seen[t] /\ UNCHANGED cached)
  BY <1>4 DEF Step, LazyStart, LazyWait, LazyWake, LazyAnswered, LazyFails,
              LazyInstall, LazyEnd, Lookup, ClientRead, ClientLock,
              ClientConnected, ClientFails, Return
<1>5. CASE LazyInstall(t)
  BY <1>1, <1>5 DEF LazyInstall
<1> QED
  BY <1>1, <1>2, <1>3, <1>4, <1>5

-----------------------------------------------------------------------------
(* The flag and the lock.                                                  *)

LEMMA FlagStep ==
  ASSUME TypeOK, FlagOK, NEW t \in Callers, Get(t) \/ Step(t)
  PROVE  FlagOK'
<1>1. \A q \in Callers : q # t => Fetching(q)' = Fetching(q)
  BY CallerLocal DEF Fetching
<1>2. ASSUME Fetching(t)' = Fetching(t), UNCHANGED fetching
      PROVE  FlagOK'
  BY <1>1, <1>2 DEF FlagOK
<1> USE DEF TypeOK, managerVars, callVars, Goto, Fetching
<1>3. CASE Get(t)
  <2>1. pc[t] \notin {"fetch", "install", "unset"} /\ UNCHANGED fetching
    BY <1>3 DEF Get, GetFresh, GetStale, GetMiss, Calls, CallAsked, CallChecked,
                CallForRange
  <2>2. pc'[t] \notin {"fetch", "install", "unset"}
    BY <1>3 DEF Get, GetFresh, GetStale, GetMiss
  <2> QED
    BY <1>2, <2>1, <2>2
<1>4. CASE LazyStart(t)
  <2>1. ~Fetching(t) /\ Fetching(t)' /\ ~fetching /\ fetching'
    BY <1>4 DEF LazyStart
  <2> HIDE DEF Fetching
  <2> QED
    BY <1>1, <2>1 DEF FlagOK
<1>5. CASE LazyEnd(t)
  <2>1. Fetching(t) /\ ~Fetching(t)' /\ ~fetching'
    BY <1>5 DEF LazyEnd
  <2> HIDE DEF Fetching
  <2> QED
    BY <1>1, <2>1 DEF FlagOK
<1>6. CASE LazyWait(t) \/ LazyWake(t) \/ LazyAnswered(t) \/ LazyFails(t)
  BY <1>2, <1>6 DEF LazyWait, LazyWake, LazyAnswered, LazyFails
<1>7. CASE LazyInstall(t)
  BY <1>2, <1>7 DEF LazyInstall
<1>8. CASE Lookup(t) \/ ClientRead(t) \/ ClientLock(t)
  BY <1>2, <1>8 DEF Lookup, ClientRead, ClientLock
<1>9. CASE ClientConnected(t) \/ ClientFails(t) \/ Return(t)
  BY <1>2, <1>9 DEF ClientConnected, ClientFails, Return
<1> QED
  BY <1>3, <1>4, <1>5, <1>6, <1>7, <1>8, <1>9 DEF Step

\* Of the caller that takes the step.
LEMMA LockStepSelf ==
  ASSUME TypeOK, NEW t \in Callers, LockOK(t), Get(t) \/ Step(t)
  PROVE  LockOK(t)'
<1> USE DEF TypeOK, managerVars, callVars, Goto
<1>1. ASSUME pc[t] # "connect", pc'[t] # "connect", UNCHANGED lock
      PROVE  LockOK(t)'
  BY <1>1 DEF LockOK
<1>2. CASE Get(t)
  BY <1>1, <1>2 DEF Get, GetFresh, GetStale, GetMiss, Calls, CallAsked,
     CallChecked, CallForRange
<1>3. CASE LazyStart(t) \/ LazyWait(t) \/ LazyWake(t) \/ LazyAnswered(t)
  BY <1>1, <1>3 DEF LazyStart, LazyWait, LazyWake, LazyAnswered
<1>4. CASE LazyFails(t) \/ LazyInstall(t) \/ LazyEnd(t)
  BY <1>1, <1>4 DEF LazyFails, LazyInstall, LazyEnd
<1>5. CASE Lookup(t) \/ ClientRead(t) \/ Return(t)
  BY <1>1, <1>5 DEF Lookup, ClientRead, Return
<1>6. CASE ClientLock(t)
  <2>1. CASE Current(t)
    BY <1>1, <1>6, <2>1 DEF ClientLock
  <2>2. CASE ~Current(t)
    BY <1>6, <2>2 DEF ClientLock, LockOK, Current
  <2> QED
    BY <2>1, <2>2
<1>7. CASE ClientConnected(t) \/ ClientFails(t)
  BY <1>7, NoneAssumption DEF ClientConnected, ClientFails, LockOK
<1> QED
  BY <1>2, <1>3, <1>4, <1>5, <1>6, <1>7 DEF Step

\* Of another: while it connects nobody else gets the lock, and the clients
\* stay as they are.
LEMMA LockStepOther ==
  ASSUME TypeOK, NEW t \in Callers, NEW q \in Callers, q # t,
         LockOK(t), LockOK(q), Get(t) \/ Step(t)
  PROVE  LockOK(q)'
<1>1. UNCHANGED <<pc[q], key[q], info[q]>>
  BY CallerLocal
<1>2. CASE UNCHANGED <<lock, clients>>
  BY <1>1, <1>2 DEF LockOK, Current
<1>3. CASE Get(t)
  BY <1>2, <1>3 DEF Get, GetFresh, GetStale, GetMiss
<1>4. CASE ClientLock(t)
  <2>1. lock = None /\ lock' \in {None, t} /\ q # None
    BY <1>4, NoneAssumption DEF ClientLock
  <2> QED
    BY <1>1, <2>1 DEF LockOK
<1>5. CASE ClientConnected(t) \/ ClientFails(t)
  <2>1. lock = t /\ lock' = None /\ q # None
    BY <1>5, NoneAssumption DEF ClientConnected, ClientFails, LockOK
  <2> QED
    BY <1>1, <2>1 DEF LockOK
<1>6. CASE Step(t) /\ ~ClientLock(t) /\ ~ClientConnected(t) /\ ~ClientFails(t)
  BY <1>2, <1>6 DEF Step, LazyStart, LazyWait, LazyWake, LazyAnswered, LazyFails,
     LazyInstall, LazyEnd, Lookup, ClientRead, Return
<1> QED
  BY <1>3, <1>4, <1>5, <1>6

-----------------------------------------------------------------------------
(* What a caller knows.                                                    *)

\* Of a caller that does not move: whatever comes into the cache, it sees.
LEMMA CallStepOther ==
  ASSUME TypeOK, NEW q \in Callers, CallOK(q),
         Outside \/ \E t \in Callers \ {q} : Get(t) \/ Step(t)
  PROVE  CallOK(q)'
<1>1. UNCHANGED <<pc[q], key[q], info[q], first[q]>>
  BY CallerLocal, OutsideLocal
<1>2. /\ seen[q] \subseteq seen'[q]
      /\ pc[q] # "idle" /\ cached \in seen[q] => cached' \in seen'[q]
  BY SeenGrows
<1> QED
  BY <1>1, <1>2 DEF CallOK

\* Of a caller that starts a call: a second one asks what it has to.
LEMMA CallStepGet ==
  ASSUME TypeOK, NEW t \in Callers, CallOK(t), Get(t)
  PROVE  CallOK(t)'
<1> USE DEF TypeOK, managerVars, Goto
<1>1. PICK k \in Refs : GetFresh(t, k) \/ GetStale(t, k) \/ GetMiss(t, k)
  BY DEF Get
<1>2. /\ key'[t] = k /\ seen'[t] = {cached} /\ UNCHANGED cached
      /\ Calls(t, k)
  BY <1>1 DEF GetFresh, GetStale, GetMiss
<1>3. first'[t] \notin {None, Dropped} => first'[t].name = k
  <2>1. CASE CallAsked(t, k)
    BY <2>1 DEF CallAsked, CallOK
  <2>2. CASE CallChecked(t, k)
    BY <2>2 DEF CallChecked, Second
  <2>3. CASE CallForRange(t, k)
    BY <2>3 DEF CallForRange, Second
  <2> QED
    BY <1>2, <2>1, <2>2, <2>3 DEF Calls
<1>4. CASE GetMiss(t, k)
  BY <1>2, <1>3, <1>4 DEF GetMiss, CallOK
<1>5. CASE GetFresh(t, k) \/ GetStale(t, k)
  <2>1. pc'[t] = "client" /\ info'[t] = Direct(k) /\ Enabled(Direct(k))
    BY <1>5 DEF GetFresh, GetStale
  <2>2. Direct(k) \in Matches(cached, k)
    BY <2>1, DirectMatches
  <2> QED
    BY <1>2, <1>3, <2>1, <2>2 DEF CallOK
<1> QED
  BY <1>1, <1>4, <1>5

LEMMA CallStepSelf ==
  ASSUME TypeOK, NEW t \in Callers, CallOK(t), Step(t)
  PROVE  CallOK(t)'
<1> USE DEF TypeOK, managerVars, callVars, Goto
<1>1. CASE LazyStart(t) \/ LazyWait(t) \/ LazyWake(t) \/ LazyAnswered(t)
  BY <1>1 DEF LazyStart, LazyWait, LazyWake, LazyAnswered, CallOK
<1>2. CASE LazyFails(t) \/ LazyEnd(t)
  BY <1>2 DEF LazyFails, LazyEnd, CallOK
<1>3. CASE LazyInstall(t)
  <2>1. cached' \in seen'[t]
    BY <1>3, SeenGrows DEF LazyInstall, CallOK
  <2> QED
    BY <1>3, <2>1 DEF LazyInstall, CallOK
<1>4. CASE Lookup(t)
  <2>1. cached \in seen[t] /\ info[t] = None
    BY <1>4 DEF Lookup, CallOK
  <2>2. CASE Matches(cached, key[t]) = {}
    BY <1>4, <2>1, <2>2 DEF Lookup, CallOK
  <2>3. CASE Matches(cached, key[t]) # {}
    <3>1. PICK e \in Matches(cached, key[t]) : info' = [info EXCEPT ![t] = e]
      BY <1>4, <2>3 DEF Lookup
    <3>2. /\ pc'[t] = "client" /\ info'[t] = e
          /\ UNCHANGED <<cached, seen, key, first>>
      BY <1>4, <2>3, <3>1 DEF Lookup
    <3> QED
      BY <2>1, <3>1, <3>2 DEF CallOK
  <2> QED
    BY <2>2, <2>3
<1>5. CASE ClientRead(t) \/ ClientLock(t) \/ ClientConnected(t)
  BY <1>5 DEF ClientRead, ClientLock, ClientConnected, CallOK
<1>6. CASE ClientFails(t)
  <2>1. info[t] # None
    BY <1>6, MatchesAreEntries DEF ClientFails, CallOK, Enabled
  <2> QED
    BY <1>6, <2>1 DEF ClientFails, CallOK
<1>7. CASE Return(t)
  BY <1>7 DEF Return, CallOK
<1> QED
  BY <1>1, <1>2, <1>3, <1>4, <1>5, <1>6, <1>7 DEF Step

-----------------------------------------------------------------------------
(* The invariant holds.                                                    *)

LEMMA InitInv == Init => IInv
<1> SUFFICES ASSUME Init PROVE IInv
  OBVIOUS
<1>1. TypeOK
  BY InitType
<1>2. ASSUME NEW t \in Callers
      PROVE  pc[t] = "idle" /\ first[t] = None /\ lock # t
  BY NoneAssumption DEF Init
<1>3. ~fetching
  BY DEF Init
<1>4. FlagOK
  BY <1>2, <1>3 DEF FlagOK, Fetching
<1> QED
  BY <1>1, <1>2, <1>4 DEF IInv, CallOK, LockOK

LEMMA NextInv == IInv /\ [Next]_vars => IInv'
<1> SUFFICES ASSUME IInv, [Next]_vars PROVE IInv'
  OBVIOUS
<1>1. TypeOK /\ FlagOK /\ \A t \in Callers : CallOK(t) /\ LockOK(t)
  BY DEF IInv
<1>2. TypeOK'
  BY NextType
<1>3. CASE UNCHANGED vars
  BY <1>1, <1>2, <1>3 DEF IInv, FlagOK, Fetching, CallOK, LockOK, Current,
     vars, managerVars, callVars
<1>4. CASE Outside
  <2>1. UNCHANGED <<pc, key, info, first, fetching, lock, clients>>
    BY <1>4, OutsideLocal
  <2>2. \A t \in Callers : CallOK(t)'
    BY <1>1, <1>4, CallStepOther
  <2>3. FlagOK' /\ \A t \in Callers : LockOK(t)'
    BY <1>1, <2>1 DEF FlagOK, Fetching, LockOK, Current
  <2> QED
    BY <1>2, <2>2, <2>3 DEF IInv
<1>5. ASSUME NEW t \in Callers, Get(t) \/ Step(t)
      PROVE  IInv'
  <2>1. \A q \in Callers \ {t} : CallOK(q)' /\ LockOK(q)'
    BY <1>1, <1>5, CallStepOther, LockStepOther
  <2>2. CallOK(t)' /\ LockOK(t)'
    BY <1>1, <1>5, CallStepGet, CallStepSelf, LockStepSelf
  <2>3. FlagOK'
    BY <1>1, <1>5, FlagStep
  <2> QED
    BY <1>2, <2>1, <2>2, <2>3 DEF IInv
<1> QED
  BY <1>3, <1>4, <1>5, NextSteps

\* The inductive invariant of the cache: the fetch flag, the client lock, and
\* what each call has seen of the cache.
THEOREM CacheInvariant == Spec => []IInv
<1>1. Init => IInv
  BY InitInv
<1>2. IInv /\ [Next]_vars => IInv'
  BY NextInv
<1> QED
  BY <1>1, <1>2, PTL DEF Spec

\* The variables keep their types in every behaviour.
THEOREM TypeCorrect == Spec => []TypeOK
<1>1. IInv => TypeOK
  BY DEF IInv
<1> QED
  BY <1>1, CacheInvariant, PTL

-----------------------------------------------------------------------------
(* What follows from it.                                                   *)

\* Misses never fetch side by side, for any number of callers
\* (Manager.Get, fetching and fetchCond).
THEOREM AlwaysOneLazyFetch == Spec => []OneLazyFetch
<1>1. ASSUME IInv PROVE OneLazyFetch
  <2> DEFINE busy == {t \in Callers : pc[t] \in {"fetch", "install", "unset"}}
  <2>1. \A t \in busy, u \in busy : t = u
    BY <1>1 DEF IInv, FlagOK, Fetching
  <2>2. fetching <=> busy # {}
    BY <1>1 DEF IInv, FlagOK, Fetching
  <2>3. Cardinality(busy) <= 1
    <3>1. CASE busy = {}
      BY <3>1, FS_EmptySet
    <3>2. CASE busy # {}
      <4>1. PICK t \in busy : busy = {t}
        BY <2>1, <3>2
      <4>2. Cardinality({t}) = 1
        BY FS_Singleton
      <4> HIDE DEF busy
      <4> QED
        BY <4>1, <4>2
    <3> QED
      BY <3>1, <3>2
  <2> QED
    BY <2>2, <2>3 DEF OneLazyFetch
<1> QED
  BY <1>1, CacheInvariant, PTL

\* An answer, a "not found" included, is what some version of the cache gave
\* during the call (Get, lookup).
THEOREM AlwaysAnswerFromCache == Spec => []AnswerFromCache
<1>1. IInv => AnswerFromCache
  BY DEF IInv, CallOK, AnswerFromCache
<1> QED
  BY <1>1, CacheInvariant, PTL

\* Nobody connects for a client the map already holds (GetClientForCluster,
\* the second check under the lock).
THEOREM AlwaysNoNeedlessConnect == Spec => []NoNeedlessConnect
<1>1. IInv => NoNeedlessConnect
  BY DEF IInv, LockOK, NoNeedlessConnect
<1> QED
  BY <1>1, CacheInvariant, PTL

\* Nobody waits for a lock or a flag whose owner has gone (the deferred
\* Unlock of GetClientForCluster, the reset of fetching in Manager.Get).
THEOREM AlwaysNobodyWaitsInVain == Spec => []NobodyWaitsInVain
<1>1. IInv => NobodyWaitsInVain
  <2> SUFFICES ASSUME IInv, NEW t \in Callers
               PROVE  /\ pc[t] \in {"client", "lock"} /\ lock # None =>
                           lock # t /\ pc[lock] = "connect"
                      /\ pc[t] = "wait" /\ fetching =>
                           \E u \in Callers : Fetching(u)
    BY DEF NobodyWaitsInVain, Fetching
  <2>1. lock # None => lock \in Callers
    BY DEF IInv, TypeOK
  <2> QED
    BY <2>1 DEF IInv, FlagOK, LockOK
<1> QED
  BY <1>1, CacheInvariant, PTL

\* The second call of buildRawPlan gets the cluster of the first, unless a
\* version seen during it had that cluster disabled or gone.
THEOREM AlwaysRangeOfSearchedCluster == Spec => []RangeOfSearchedCluster
<1>1. ASSUME IInv, NEW t \in Callers, pc[t] = "return",
             first[t] \notin {None, Dropped}, info[t].name # first[t].name
      PROVE  \E v \in seen[t] : ~Enabled(Scheme[v][first[t].name])
  <2>1. first[t] \in Entries /\ key[t] = first[t].name /\ seen[t] \subseteq DOMAIN Scheme
    BY <1>1 DEF IInv, TypeOK, CallOK
  <2>2. PICK v \in seen[t] : info[t] \in Matches(v, key[t])
    BY <1>1 DEF IInv, CallOK
  <2>3. key[t] \in Names
    BY <2>1 DEF Entries
  <2> QED
    BY <1>1, <2>1, <2>2, <2>3, MatchesAreEntries
<1>2. IInv => RangeOfSearchedCluster
  BY <1>1 DEF RangeOfSearchedCluster
<1> QED
  BY <1>2, CacheInvariant, PTL

\* At the moment a caller gets its client the map holds one of the URL in the
\* caller's own cluster information, however other callers replace it.
THEOREM AlwaysClientOfOwnUrl == Spec => ClientOfOwnUrl
<1> DEFINE OwnUrl == \A t \in Callers : pc[t] # "return" /\ pc'[t] = "return" =>
                       clients'[key[t]] = info[t].url
<1>1. ASSUME TypeOK, [Next]_vars, NEW t \in Callers,
             pc[t] # "return", pc'[t] = "return"
      PROVE  clients'[key[t]] = info[t].url
  <2> USE DEF TypeOK, Goto
  <2>1. CASE UNCHANGED vars \/ Outside
    BY <1>1, <2>1, OutsideLocal DEF vars
  <2>2. ASSUME NEW q \in Callers, Get(q) \/ Step(q)
        PROVE  clients'[key[t]] = info[t].url
    <3>1. q = t
      BY <1>1, <2>2, CallerLocal
    <3>2. CASE Get(t)
      BY <1>1, <3>2 DEF Get, GetFresh, GetStale, GetMiss
    <3>3. CASE ClientRead(t) \/ ClientLock(t)
      BY <1>1, <3>3 DEF ClientRead, ClientLock, Current
    <3>4. CASE ClientConnected(t)
      BY <1>1, <3>4 DEF ClientConnected
    <3>5. CASE Step(t) /\ ~ClientRead(t) /\ ~ClientLock(t) /\ ~ClientConnected(t)
      BY <1>1, <3>5 DEF Step, LazyStart, LazyWait, LazyWake, LazyAnswered, LazyFails,
         LazyInstall, LazyEnd, Lookup, ClientFails, Return
    <3> QED
      BY <2>2, <3>1, <3>2, <3>3, <3>4, <3>5
  <2> QED
    BY <1>1, <2>1, <2>2, NextSteps
<1>2. TypeOK /\ [Next]_vars => [OwnUrl]_vars
  BY <1>1
<1> QED
  BY <1>2, TypeCorrect, PTL DEF Spec, ClientOfOwnUrl
=============================================================================

------------------------ MODULE RegistryReload_proofs -------------------------
(***************************************************************************)
(* Proofs about RegistryReload, for every sequence of files, valid or not, *)
(* and every set of readers.                                               *)
(***************************************************************************)
EXTENDS RegistryReload, FiniteSetTheorems, TLAPS

-----------------------------------------------------------------------------
(* Files.                                                                  *)

\* A global alias is an alias of the file.
LEMMA GlobalsAreAliases ==
  ASSUME NEW f
  PROVE  GlobalsOf(f) \subseteq AliasesOf(f)
<1> SUFFICES ASSUME NEW k \in DOMAIN f.global
             PROVE  f.global[k] \in AliasesOf(f)
  BY DEF GlobalsOf, ToSet
<1>1. <<0, k>> \in Places(f)
  BY DEF Places
<1>2. AliasAt(f, <<0, k>>) = f.global[k]
  BY DEF AliasAt
<1> QED
  BY <1>1, <1>2 DEF AliasesOf

\* Collectors are counted from one.
LEMMA NoCollectorZero ==
  ASSUME NEW v \in DOMAIN Files
  PROVE  0 \notin DOMAIN Files[v].collectors
<1> DEFINE c == DOMAIN Files[v].collectors
<1>1. IsFiniteSet(c) /\ c = 1..Cardinality(c)
  BY FilesAssumption
<1>2. Cardinality(c) \in Nat
  BY <1>1, FS_CardinalityType
<1> HIDE DEF c
<1>3. 0 \notin 1..Cardinality(c)
  BY <1>2
<1> QED
  BY <1>1, <1>3 DEF c

\* An alias that is not global is owned by a collector of the file.
LEMMA OwnerType ==
  ASSUME NEW v \in DOMAIN Files, NEW a \in AliasesOf(Files[v]),
         a \notin GlobalsOf(Files[v])
  PROVE  OwnerOf(Files[v], a) \in NamesOf(Files[v])
<1> DEFINE f == Files[v]
           Lists(j) == \E k \in DOMAIN f.collectors[j].aliases :
                         f.collectors[j].aliases[k] = a
<1>1. PICK p \in Places(f) : a = AliasAt(f, p)
  BY DEF AliasesOf
<1>2. \A k \in DOMAIN f.global : f.global[k] # a
  BY DEF GlobalsOf, ToSet
<1>3. PICK i \in DOMAIN f.collectors : \E k \in DOMAIN f.collectors[i].aliases :
                                         p = <<i, k>>
  BY <1>1, <1>2 DEF AliasAt, Places
<1>4. PICK k \in DOMAIN f.collectors[i].aliases : p = <<i, k>>
  BY <1>3
<1>5. f.collectors[i].aliases[k] = a
  <2>1. i # 0
    BY NoCollectorZero
  <2> QED
    BY <1>1, <1>4, <2>1 DEF AliasAt
<1>6. Lists(i)
  BY <1>5
<1>7. (CHOOSE j \in DOMAIN f.collectors : Lists(j)) \in DOMAIN f.collectors
  <2> HIDE DEF Lists
  <2> QED
    BY <1>6
<1>8. OwnerOf(f, a) = f.collectors[CHOOSE j \in DOMAIN f.collectors : Lists(j)].name
  BY <1>2 DEF OwnerOf
<1> HIDE DEF Lists
<1> QED
  BY <1>7, <1>8 DEF NamesOf

\* The owner of a global alias is no collector.
LEMMA GlobalOwner ==
  ASSUME NEW f, NEW a \in GlobalsOf(f)
  PROVE  OwnerOf(f, a) = Global
BY DEF GlobalsOf, OwnerOf, ToSet

\* What GetGlobalAliases makes of the two maps of a version is its global
\* aliases.
LEMMA GlobalsOfMaps ==
  ASSUME NEW v \in ValidVersions
  PROVE  {a \in AliasesOf(Files[v]) : \/ a \notin DOMAIN Owners(Files[v])
                                      \/ Owners(Files[v])[a] = Global}
           = GlobalsOf(Files[v])
<1>1. Global \notin NamesOf(Files[v]) /\ v \in DOMAIN Files
  BY DEF ValidVersions, Valid
<1>2. \A a \in AliasesOf(Files[v]) :
        OwnerOf(Files[v], a) = Global <=> a \in GlobalsOf(Files[v])
  BY <1>1, OwnerType, GlobalOwner
<1> QED
  BY <1>2, GlobalsAreAliases DEF Owners

\* What a version puts into the registry is of the right types.
LEMMA VersionType ==
  ASSUME NEW v \in DOMAIN Files
  PROVE  /\ NamesOf(Files[v]) \subseteq Names
         /\ Cardinality(NamesOf(Files[v])) \in Nat
         /\ AliasesOf(Files[v]) \subseteq Aliases
         /\ GlobalsOf(Files[v]) \subseteq Aliases
         /\ DOMAIN Owners(Files[v]) \subseteq Aliases
         /\ \A a \in DOMAIN Owners(Files[v]) :
              Owners(Files[v])[a] \in Names \cup {Global}
<1>1. NamesOf(Files[v]) \subseteq Names /\ AliasesOf(Files[v]) \subseteq Aliases
  BY DEF Names, Aliases
<1>2. \A a \in AliasesOf(Files[v]) : OwnerOf(Files[v], a) \in Names \cup {Global}
  BY <1>1, OwnerType, GlobalOwner
<1>3. Cardinality(NamesOf(Files[v])) \in Nat
  <2>1. IsFiniteSet(DOMAIN Files[v].collectors)
    BY FilesAssumption
  <2>2. IsFiniteSet(NamesOf(Files[v]))
    <3> DEFINE c == DOMAIN Files[v].collectors
               g == [i \in c |-> Files[v].collectors[i].name]
    <3>1. g \in Surjection(c, NamesOf(Files[v]))
      BY DEF Surjection, NamesOf
    <3> HIDE DEF g
    <3> QED
      BY <2>1, <3>1, FS_Surjection
  <2> QED
    BY <2>2, FS_CardinalityType
<1> QED
  BY <1>1, <1>2, <1>3, GlobalsAreAliases DEF Owners

-----------------------------------------------------------------------------
(* Type correctness.                                                       *)

LEMMA InitType == Init => TypeOK
<1> SUFFICES ASSUME Init PROVE TypeOK
  OBVIOUS
<1>1. 1 \in DOMAIN Files
  BY FilesAssumption
<1>2. Cardinality(array) \in Nat /\ length = Cardinality(array)
  BY <1>1, VersionType DEF Init
<1>3. /\ file \in DOMAIN Files /\ told \in DOMAIN Files /\ loaded \in DOMAIN Files
      /\ pending \in BOOLEAN
  BY <1>1 DEF Init
<1>4. /\ collectors \subseteq Names /\ aliasMap \subseteq Aliases
      /\ array \subseteq Names /\ names \subseteq Names
      /\ DOMAIN aliasCollector \subseteq Aliases
      /\ \A a \in DOMAIN aliasCollector : aliasCollector[a] \in Names \cup {Global}
  BY <1>1, VersionType DEF Init
<1> QED
  BY <1>2, <1>3, <1>4 DEF Init, TypeOK

\* The operator and the reloading goroutine; the length of the slice is that
\* of the names it was made of.
LEMMA ReloaderType ==
  ASSUME TypeOK, RegistryOK, SliceOK, Edit \/ Hangup \/ Reloader
  PROVE  TypeOK'
<1> USE DEF TypeOK, registry, slice, readerVars, Step
<1>1. CASE Edit \/ Hangup \/ Receive \/ Load
  BY <1>1 DEF Edit, Hangup, Receive, Load
<1>2. CASE Want \/ Unlock \/ TakeNames \/ SetArray
  BY <1>2 DEF Want, Unlock, TakeNames, SetArray
<1>3. CASE Lock
  BY <1>3, VersionType DEF Lock
<1>4. CASE ReplaceAliases
  BY <1>4, VersionType DEF ReplaceAliases
<1>5. CASE ReplaceOwners
  BY <1>5, VersionType DEF ReplaceOwners
<1>6. CASE SetLength
  <2>1. names = NamesOf(Files[loaded])
    BY <1>6 DEF SetLength, SliceOK, RegistryOK, CollectorsOf
  <2> QED
    BY <1>6, <2>1, VersionType DEF SetLength
<1> QED
  BY <1>1, <1>2, <1>3, <1>4, <1>5, <1>6 DEF Reloader

LEMMA ReaderType ==
  ASSUME TypeOK, NEW t \in Readers, Call(t) \/ Reader(t)
  PROVE  TypeOK'
<1> USE DEF TypeOK, registry, slice, sharedVars, Go, See, Give
<1>1. CASE Call(t)
  BY <1>1 DEF Call
<1>2. CASE RLock(t)
  BY <1>2 DEF RLock
<1>3. CASE ReadMap(t)
  BY <1>3 DEF ReadMap
<1>4. CASE ReadOwners(t)
  BY <1>4 DEF ReadOwners, GlobalsAmong
<1>5. CASE ReadLength(t)
  BY <1>5 DEF ReadLength
<1>6. CASE ReadArray(t)
  BY <1>6 DEF ReadArray
<1>7. CASE Return(t)
  BY <1>7 DEF Return
<1> QED
  BY <1>1, <1>2, <1>3, <1>4, <1>5, <1>6, <1>7 DEF Reader

-----------------------------------------------------------------------------
(* The invariant, step by step.                                            *)

\* Nobody but the reloader touches what it works on.
LEMMA RegistryStep ==
  ASSUME TypeOK, RegistryOK, Edit \/ Hangup \/ Reloader
  PROVE  RegistryOK'
<1> USE DEF RegistryOK, CollectorsOf, MapOf, OwnersOf, registry, Step
<1>1. CASE Edit \/ Hangup \/ Receive
  BY <1>1 DEF Edit, Hangup, Receive
<1>2. CASE Load
  <2>1. CASE Valid(Files[file])
    BY <1>2, <2>1 DEF Load, ValidVersions, TypeOK
  <2>2. CASE ~Valid(Files[file])
    BY <1>2, <2>2 DEF Load
  <2> QED
    BY <2>1, <2>2
<1>3. CASE Want \/ Lock
  BY <1>3 DEF Want, Lock
<1>4. CASE ReplaceAliases
  BY <1>4 DEF ReplaceAliases
<1>5. CASE ReplaceOwners
  BY <1>5 DEF ReplaceOwners
<1>6. CASE Unlock \/ TakeNames \/ SetArray \/ SetLength
  BY <1>6 DEF Unlock, TakeNames, SetArray, SetLength
<1> QED
  BY <1>1, <1>2, <1>3, <1>4, <1>5, <1>6 DEF Reloader

LEMMA SliceStep ==
  ASSUME TypeOK, SliceOK, Edit \/ Hangup \/ Reloader
  PROVE  SliceOK'
<1> USE DEF SliceOK, registry, slice, Step
<1>1. CASE Edit \/ Hangup \/ Receive \/ Load \/ Want
  BY <1>1 DEF Edit, Hangup, Receive, Load, Want
<1>2. CASE Lock \/ ReplaceAliases \/ ReplaceOwners \/ Unlock
  BY <1>2 DEF Lock, ReplaceAliases, ReplaceOwners, Unlock
<1>3. CASE TakeNames \/ SetArray \/ SetLength
  BY <1>3 DEF TakeNames, SetArray, SetLength
<1> QED
  BY <1>1, <1>2, <1>3 DEF Reloader

\* The writer enters when the readers are out, and no reader enters before it
\* has left.
LEMMA LockStep ==
  ASSUME TypeOK, LockOK, Edit \/ Hangup \/ Reloader
  PROVE  LockOK'
<1> USE DEF LockOK, registry, slice, readerVars, Step, MayWrite
<1>1. CASE Edit \/ Hangup \/ Receive \/ Load \/ Want
  BY <1>1 DEF Edit, Hangup, Receive, Load, Want
<1>2. CASE Lock \/ ReplaceAliases \/ ReplaceOwners \/ Unlock
  BY <1>2 DEF Lock, ReplaceAliases, ReplaceOwners, Unlock
<1>3. CASE TakeNames \/ SetArray \/ SetLength
  BY <1>3 DEF TakeNames, SetArray, SetLength
<1> QED
  BY <1>1, <1>2, <1>3 DEF Reloader

LEMMA LockStepReader ==
  ASSUME TypeOK, LockOK, NEW t \in Readers, Call(t) \/ Reader(t)
  PROVE  LockOK'
<1> USE DEF TypeOK, LockOK, sharedVars, Go
<1>1. CASE Call(t) \/ ReadMap(t) \/ ReadLength(t) \/ ReadArray(t) \/ Return(t)
  BY <1>1 DEF Call, ReadMap, ReadLength, ReadArray, Return
<1>2. CASE RLock(t)
  BY <1>2 DEF RLock
<1>3. CASE ReadOwners(t)
  BY <1>3 DEF ReadOwners
<1> QED
  BY <1>1, <1>2, <1>3 DEF Reader

\* A reader inside the lock keeps what it has seen of the map up to date: the
\* reloader does not write before it has left.
LEMMA ReadersStep ==
  ASSUME TypeOK, LockOK, ReadersOK, Edit \/ Hangup \/ Reloader
  PROVE  ReadersOK'
<1> USE DEF ReadersOK, readerVars, registry
<1>1. CASE UNCHANGED aliasMap
  <2>1. UNCHANGED <<rpc, seen, result>>
    BY DEF Edit, Hangup, Reloader, Receive, Load, Want, Lock, ReplaceAliases,
           ReplaceOwners, Unlock, TakeNames, SetArray, SetLength
  <2> QED
    BY <1>1, <2>1
<1>2. CASE ReplaceAliases
  <2>1. \A t \in Readers : rpc[t] # "owners"
    BY <1>2 DEF ReplaceAliases, Step, LockOK
  <2> QED
    BY <1>2, <2>1 DEF ReplaceAliases
<1>3. CASE (Edit \/ Hangup \/ Reloader) /\ ~ReplaceAliases
  BY <1>1, <1>3 DEF Edit, Hangup, Reloader, Receive, Load, Want, Lock,
           ReplaceOwners, Unlock, TakeNames, SetArray, SetLength
<1> QED
  BY <1>2, <1>3

LEMMA ReadersStepReader ==
  ASSUME TypeOK, RegistryOK, LockOK, ReadersOK, NEW t \in Readers,
         Call(t) \/ Reader(t)
  PROVE  ReadersOK'
<1> USE DEF TypeOK, sharedVars, registry, Go, See, Give
<1>1. CASE Call(t) \/ RLock(t)
  BY <1>1 DEF Call, RLock, ReadersOK
<1>2. CASE ReadMap(t)
  BY <1>2 DEF ReadMap, ReadersOK
<1>3. CASE ReadOwners(t)
  <2>1. pc \notin {"aliases", "owners"} /\ seen[t] = aliasMap
    BY <1>3 DEF ReadOwners, LockOK, ReadersOK
  <2>2. PICK v \in ValidVersions : OwnersOf(v) /\ MapOf(v)
    BY <2>1 DEF RegistryOK
  <2>3. result'[t] = GlobalsOf(Files[v])
    BY <1>3, <2>1, <2>2, GlobalsOfMaps
       DEF ReadOwners, GlobalsAmong, OwnersOf, MapOf
  <2> QED
    BY <1>3, <2>3 DEF ReadOwners, ReadersOK
<1>4. CASE ReadLength(t) \/ ReadArray(t)
  BY <1>4 DEF ReadLength, ReadArray, ReadersOK
<1>5. CASE Return(t)
  BY <1>5 DEF Return, ReadersOK
<1> QED
  BY <1>1, <1>2, <1>3, <1>4, <1>5 DEF Reader

-----------------------------------------------------------------------------
(* The invariant holds.                                                    *)

LEMMA InitInv == Init => IInv
<1> SUFFICES ASSUME Init PROVE IInv
  OBVIOUS
<1>1. 1 \in ValidVersions
  BY FilesAssumption DEF ValidVersions
<1>2. RegistryOK
  BY <1>1 DEF Init, RegistryOK, CollectorsOf, MapOf, OwnersOf
<1>3. LockOK /\ SliceOK /\ ReadersOK
  BY DEF Init, LockOK, SliceOK, ReadersOK
<1> QED
  BY <1>2, <1>3, InitType DEF IInv

LEMMA NextInv == IInv /\ [Next]_vars => IInv'
<1> SUFFICES ASSUME IInv, [Next]_vars PROVE IInv'
  OBVIOUS
<1>1. TypeOK /\ RegistryOK /\ LockOK /\ SliceOK /\ ReadersOK
  BY DEF IInv
<1>2. CASE UNCHANGED vars
  BY <1>1, <1>2 DEF IInv, TypeOK, RegistryOK, CollectorsOf, MapOf, OwnersOf, LockOK,
     SliceOK, ReadersOK, vars, registry, slice, readerVars
<1>3. CASE Edit \/ Hangup \/ Reloader
  BY <1>1, <1>3, ReloaderType, RegistryStep, LockStep, SliceStep, ReadersStep DEF IInv
<1>4. ASSUME NEW t \in Readers, Call(t) \/ Reader(t)
      PROVE  IInv'
  <2>1. UNCHANGED sharedVars
    BY <1>4 DEF Call, Reader, RLock, ReadMap, ReadOwners, ReadLength, ReadArray, Return
  <2>2. RegistryOK' /\ SliceOK'
    BY <1>1, <2>1 DEF RegistryOK, CollectorsOf, MapOf, OwnersOf, SliceOK, sharedVars,
       registry, slice
  <2> QED
    BY <1>1, <1>4, <2>2, ReaderType, LockStepReader, ReadersStepReader DEF IInv
<1> QED
  BY <1>2, <1>3, <1>4 DEF Next

\* The inductive invariant of the reload: which map is of which version where
\* the reloader stands, who holds the lock, and what the readers have seen.
THEOREM ReloadInvariant == Spec => []IInv
<1>1. Init => IInv
  BY InitInv
<1>2. IInv /\ [Next]_vars => IInv'
  BY NextInv
<1> QED
  BY <1>1, <1>2, PTL DEF Spec

\* The variables keep their types, whatever files are written.
THEOREM TypeCorrect == Spec => []TypeOK
<1>1. IInv => TypeOK
  BY DEF IInv
<1> QED
  BY <1>1, ReloadInvariant, PTL

\* GetGlobalAliases answers from one version of the file that was accepted,
\* never from two (the lock around the replacement in Reload).
THEOREM AlwaysGlobalsOfOneVersion == Spec => []GlobalsOfOneVersion
<1>1. IInv => GlobalsOfOneVersion
  BY DEF IInv, ReadersOK, ValidVersions, GlobalsOfOneVersion
<1> QED
  BY <1>1, ReloadInvariant, PTL

\* When no reload is under way the registry is that of the last file accepted
\* and the default collectors are its names.
THEOREM AlwaysSettledAgrees == Spec => []SettledAgrees
<1>1. IInv => SettledAgrees
  BY DEF IInv, RegistryOK, CollectorsOf, MapOf, OwnersOf, SliceOK, SettledAgrees
<1> QED
  BY <1>1, ReloadInvariant, PTL

-----------------------------------------------------------------------------
(* A reload is atomic.                                                     *)

Current == IF pc = "owners" THEN GlobalsOf(Files[loaded])
                            ELSE GlobalsAmong(aliasMap)
Phase == [t \in Readers |-> IF rpc[t] \in {"lock", "map", "owners"} THEN "called"
                            ELSE IF rpc[t] = "back" THEN "answered" ELSE "idle"]
Given == [t \in Readers |-> IF rpc[t] = "back" THEN result[t] ELSE {}]

\* The maps of a version give its global aliases.
LEMMA CurrentOfVersion ==
  ASSUME NEW v \in ValidVersions, MapOf(v), OwnersOf(v)
  PROVE  GlobalsAmong(aliasMap) = GlobalsOf(Files[v])
BY GlobalsOfMaps DEF MapOf, OwnersOf, GlobalsAmong

\* What is current is some version's.
LEMMA CurrentType ==
  ASSUME IInv
  PROVE  Current \in {GlobalsOf(Files[v]) : v \in ValidVersions}
<1>1. CASE pc = "owners"
  BY <1>1 DEF IInv, RegistryOK, Current
<1>2. CASE pc # "owners"
  <2>1. PICK v \in ValidVersions : OwnersOf(v) /\ MapOf(v)
    BY <1>2 DEF IInv, RegistryOK
  <2> QED
    BY <1>2, <2>1, CurrentOfVersion DEF Current
<1> QED
  BY <1>1, <1>2

\* The reloader replaces the answer when it replaces the map of aliases, and
\* at no other time.
LEMMA ReloaderRefines ==
  ASSUME IInv, IInv', Edit \/ Hangup \/ Reloader
  PROVE  Register!Replace \/ UNCHANGED Register!registerVars
<1> USE DEF Step, registry, readerVars
<1>1. UNCHANGED <<rpc, result>>
  BY DEF Edit, Hangup, Reloader, Receive, Load, Want, Lock, ReplaceAliases,
         ReplaceOwners, Unlock, TakeNames, SetArray, SetLength
<1>2. Phase' = Phase /\ Given' = Given
  BY <1>1 DEF Phase, Given
<1>3. CASE ReplaceAliases
  <2>1. Current' \in {GlobalsOf(Files[v]) : v \in ValidVersions}
    BY <1>3 DEF ReplaceAliases, IInv, RegistryOK, Current
  <2> QED
    BY <1>2, <2>1 DEF Register!Replace, Current, Phase, Given
<1>4. CASE ~ReplaceAliases
  <2>1. Current' = Current
    <3>1. CASE ReplaceOwners
      <4>1. /\ pc = "owners" /\ pc' = "unlock" /\ MapOf(loaded)
            /\ loaded \in ValidVersions /\ UNCHANGED <<aliasMap, loaded>>
            /\ aliasCollector' = Owners(Files[loaded])
        BY <3>1 DEF ReplaceOwners, IInv, RegistryOK
      <4>2. GlobalsAmong(aliasMap)' = GlobalsOf(Files[loaded])
        BY <4>1, GlobalsOfMaps DEF GlobalsAmong, MapOf
      <4> QED
        BY <4>1, <4>2 DEF Current
    <3>2. CASE ~ReplaceOwners
      <4>1. \/ /\ UNCHANGED <<aliasMap, aliasCollector>>
               /\ pc # "owners" /\ pc' # "owners"
            \/ UNCHANGED <<aliasMap, aliasCollector, pc, loaded>>
        BY <1>4, <3>2
           DEF Edit, Hangup, Reloader, Receive, Load, Want, Lock, Unlock,
               TakeNames, SetArray, SetLength
      <4> QED
        BY <4>1 DEF Current, GlobalsAmong
    <3> QED
      BY <3>1, <3>2
  <2> QED
    BY <1>2, <2>1 DEF Register!registerVars, Current, Phase, Given
<1> QED
  BY <1>3, <1>4

\* A call is answered when the owners are read: nobody has replaced the map
\* since it was.
LEMMA ReaderRefines ==
  ASSUME IInv, NEW t \in Readers, Call(t) \/ Reader(t)
  PROVE  \/ Register!Call(t) \/ Register!Answer(t) \/ Register!Return(t)
         \/ UNCHANGED Register!registerVars
<1> USE DEF Go, See, Give
<1>1. UNCHANGED <<aliasMap, aliasCollector, pc, loaded>>
  BY DEF Call, Reader, RLock, ReadMap, ReadOwners, ReadLength, ReadArray, Return,
         sharedVars, registry
<1>2. Current' = Current
  BY <1>1 DEF Current, GlobalsAmong
<1>3. /\ DOMAIN rpc = Readers /\ DOMAIN result = Readers
      /\ DOMAIN Phase = Readers /\ DOMAIN Given = Readers
  BY DEF IInv, TypeOK, Phase, Given
<1> DEFINE P(x) == IF x \in {"lock", "map", "owners"} THEN "called"
                   ELSE IF x = "back" THEN "answered" ELSE "idle"
           G(x, r) == IF x = "back" THEN r ELSE {}
<1>4. /\ Phase = [u \in Readers |-> P(rpc[u])]
      /\ Phase' = [u \in Readers |-> P(rpc'[u])]
      /\ Given = [u \in Readers |-> G(rpc[u], result[u])]
      /\ Given' = [u \in Readers |-> G(rpc'[u], result'[u])]
  BY DEF Phase, Given
<1>5. ASSUME NEW x, NEW r,
             rpc' = [rpc EXCEPT ![t] = x], result' = [result EXCEPT ![t] = r]
      PROVE  /\ Phase' = [Phase EXCEPT ![t] = P(x)]
             /\ Given' = [Given EXCEPT ![t] = G(x, r)]
  <2>1. \A u \in Readers : /\ rpc'[u] = IF u = t THEN x ELSE rpc[u]
                           /\ result'[u] = IF u = t THEN r ELSE result[u]
    BY <1>3, <1>5
  <2> HIDE DEF P, G
  <2> QED
    BY <1>4, <2>1
<1>6. ASSUME NEW x, rpc' = [rpc EXCEPT ![t] = x], result' = result
      PROVE  /\ Phase' = [Phase EXCEPT ![t] = P(x)]
             /\ Given' = [Given EXCEPT ![t] = G(x, result[t])]
  <2>1. result = [result EXCEPT ![t] = result[t]]
    <3>1. result \in [Readers -> SUBSET (Names \cup Aliases)]
      BY DEF IInv, TypeOK
    <3> QED
      BY <3>1
  <2> QED
    <3>1. result' = [result EXCEPT ![t] = result[t]]
      BY <1>6, <2>1
    <3> QED
      BY <1>5, <1>6, <3>1
<1>7. Phase[t] = P(rpc[t]) /\ Given[t] = G(rpc[t], result[t])
  BY <1>4
<1>8. ASSUME NEW x, Phase' = [Phase EXCEPT ![t] = x],
             Given' = [Given EXCEPT ![t] = Given[t]], x = Phase[t]
      PROVE  UNCHANGED Register!registerVars
  <2>1. Phase' = Phase /\ Given' = Given
    <3>1. Phase = [u \in Readers |-> Phase[u]] /\ Given = [u \in Readers |-> Given[u]]
      BY <1>4
    <3> HIDE DEF P, G
    <3> QED
      BY <1>3, <1>8, <3>1
  <2> QED
    BY <1>2, <2>1 DEF Register!registerVars, Current, Phase, Given
<1>9. CASE Call(t)
  <2>1. PICK to \in {"lock", "length"} :
          rpc[t] = "idle" /\ rpc' = [rpc EXCEPT ![t] = to] /\ result' = result
    BY <1>9 DEF Call
  <2>2. /\ Phase' = [Phase EXCEPT ![t] = P(to)]
        /\ Given' = [Given EXCEPT ![t] = {}]
        /\ Phase[t] = "idle" /\ Given[t] = {}
    BY <1>6, <1>7, <2>1
  <2>3. CASE to = "lock"
    <3>1. Phase' = [Phase EXCEPT ![t] = "called"] /\ Given' = Given
      BY <1>4, <2>2, <2>3
    <3> QED
      BY <1>2, <2>2, <3>1 DEF Register!Call, Current, Phase, Given
  <2>4. CASE to = "length"
    BY <1>8, <2>2, <2>4
  <2> QED
    BY <2>3, <2>4
<1>10. CASE RLock(t) \/ ReadMap(t) \/ ReadLength(t) \/ ReadArray(t)
  <2>1. PICK to \in {"map", "owners", "array", "listed"} :
          /\ rpc' = [rpc EXCEPT ![t] = to] /\ P(rpc[t]) = P(to)
          /\ rpc[t] # "back"
          /\ result' = result \/ \E r : result' = [result EXCEPT ![t] = r]
    BY <1>10 DEF RLock, ReadMap, ReadLength, ReadArray
  <2>2. /\ Phase' = [Phase EXCEPT ![t] = P(to)]
        /\ Given' = [Given EXCEPT ![t] = {}]
        /\ Phase[t] = P(to) /\ Given[t] = {}
    BY <1>5, <1>6, <1>7, <2>1
  <2> QED
    BY <1>8, <2>2
<1>11. CASE ReadOwners(t)
  <2>1. /\ rpc[t] = "owners" /\ rpc' = [rpc EXCEPT ![t] = "back"]
        /\ result' = [result EXCEPT ![t] = GlobalsAmong(seen[t])]
    BY <1>11 DEF ReadOwners
  <2>2. GlobalsAmong(seen[t]) = Current
    <3>1. pc # "owners" /\ seen[t] = aliasMap
      BY <2>1 DEF IInv, LockOK, ReadersOK
    <3> QED
      BY <3>1 DEF Current
  <2>3. /\ Phase[t] = "called" /\ Phase' = [Phase EXCEPT ![t] = "answered"]
        /\ Given' = [Given EXCEPT ![t] = Current]
    BY <1>5, <1>7, <2>1, <2>2
  <2> QED
    BY <1>2, <2>3 DEF Register!Answer, Current, Phase, Given
<1>12. CASE Return(t)
  <2>1. /\ rpc[t] \in {"back", "listed"} /\ rpc' = [rpc EXCEPT ![t] = "idle"]
        /\ result' = [result EXCEPT ![t] = {}]
    BY <1>12 DEF Return
  <2>2. /\ Phase' = [Phase EXCEPT ![t] = "idle"]
        /\ Given' = [Given EXCEPT ![t] = {}]
        /\ Phase[t] = P(rpc[t]) /\ Given[t] = G(rpc[t], result[t])
    BY <1>5, <1>7, <2>1
  <2>3. CASE rpc[t] = "back"
    BY <1>2, <2>2, <2>3 DEF Register!Return, Current, Phase, Given
  <2>4. CASE rpc[t] = "listed"
    BY <1>8, <2>2, <2>4
  <2> QED
    BY <2>1, <2>3, <2>4
<1> QED
  BY <1>9, <1>10, <1>11, <1>12 DEF Reader

\* For GetGlobalAliases the reload of the three maps is one step, and each
\* call gets what is current at one moment of it, for any versions of the file
\* and any number of requests (the write lock of Reload around all the maps,
\* the read lock of the getter around both it reads).
THEOREM ReloadRefinesRegister == Spec => RefinesRegister
<1>1. Init => Register!Init
  <2> SUFFICES ASSUME Init PROVE Register!Init
    OBVIOUS
  <2>1. IInv
    BY InitInv
  <2>2. Current \in {GlobalsOf(Files[v]) : v \in ValidVersions}
    BY <2>1, CurrentType
  <2>3. Phase = [t \in Readers |-> "idle"] /\ Given = [t \in Readers |-> {}]
    BY DEF Init, Phase, Given
  <2> QED
    BY <2>2, <2>3 DEF Register!Init, Current, Phase, Given
<1>2. IInv /\ IInv' /\ [Next]_vars => [Register!Next]_(Register!registerVars)
  <2> SUFFICES ASSUME IInv, IInv', [Next]_vars
               PROVE  Register!Next \/ UNCHANGED Register!registerVars
    OBVIOUS
  <2>1. CASE UNCHANGED vars
    BY <2>1 DEF vars, registry, readerVars, Register!registerVars, GlobalsAmong
  <2>2. CASE Edit \/ Hangup \/ Reloader
    BY <2>2, ReloaderRefines DEF Register!Next
  <2>3. ASSUME NEW t \in Readers, Call(t) \/ Reader(t)
        PROVE  Register!Next \/ UNCHANGED Register!registerVars
    BY <2>3, ReaderRefines DEF Register!Next
  <2> QED
    BY <2>1, <2>2, <2>3 DEF Next
<1> QED
  BY <1>1, <1>2, ReloadInvariant, PTL DEF Spec, RefinesRegister, Register!Spec

-----------------------------------------------------------------------------
(* No signal is lost.                                                      *)

LEMMA SignalStep ==
  ASSUME SignalOK, [Next]_vars
  PROVE  SignalOK'
<1> USE DEF SignalOK, NoSignalLost, Step, registry, slice, readerVars
<1>1. CASE Edit
  BY <1>1 DEF Edit
<1>2. CASE Hangup
  BY <1>2 DEF Hangup
<1>3. CASE Receive
  BY <1>3 DEF Receive
<1>4. CASE Load
  <2>1. CASE Valid(Files[file])
    BY <1>4, <2>1 DEF Load
  <2>2. CASE ~Valid(Files[file])
    <3>1. file \in told..file
      OBVIOUS
    <3> QED
      BY <1>4, <2>2, <3>1 DEF Load
  <2> QED
    BY <2>1, <2>2
<1>5. CASE \/ Want \/ Lock \/ ReplaceAliases \/ ReplaceOwners \/ Unlock
           \/ TakeNames \/ SetArray \/ SetLength
  BY <1>5 DEF Want, Lock, ReplaceAliases, ReplaceOwners, Unlock, TakeNames,
             SetArray, SetLength
<1>6. ASSUME NEW t \in Readers, Call(t) \/ Reader(t)
      PROVE  SignalOK'
  BY <1>6 DEF Call, Reader, RLock, ReadMap, ReadOwners, ReadLength, ReadArray,
             Return, sharedVars
<1>7. CASE UNCHANGED vars
  BY <1>7 DEF vars
<1> QED
  BY <1>1, <1>2, <1>3, <1>4, <1>5, <1>6, <1>7 DEF Next, Reloader

\* A SIGHUP is never forgotten, however many are sent during a reload: at any
\* time it waits, or is being served, or a version that is no older has been
\* loaded or refused (the channel of capacity one, and the file read after
\* the signal was taken).  What remains for ReloadHappens is fairness.
THEOREM AlwaysNoSignalLost == Spec => []NoSignalLost
<1>1. Init => SignalOK
  BY DEF Init, SignalOK, NoSignalLost
<1>2. SignalOK => NoSignalLost
  BY DEF SignalOK
<1> QED
  BY <1>1, <1>2, SignalStep, PTL DEF Spec
=============================================================================

---------------------------- MODULE RegistryReload ----------------------------
(***************************************************************************)
(* The collector registry and its hot reload.  SIGHUP goes through a       *)
(* channel of capacity one to a goroutine that loads the registry file,    *)
(* replaces the registry's maps under its lock, and then sets              *)
(* cfg.DefaultCollectors, which request goroutines read without a lock.    *)
(*                                                                         *)
(* A file is a record: collectors, a sequence of [name, aliases], and      *)
(* global, a sequence of aliases.  A slice is two words here, its array    *)
(* and its length; the array is named by the names it was made for.        *)
(***************************************************************************)
EXTENDS Integers, Sequences, FiniteSets, SequencesExt

CONSTANTS
  Readers,  \* request goroutines
  Files,    \* the versions of the file, in the order they are written
  Global    \* no collector: the owner of a global alias

VARIABLES
  file,        \* the version on disk
  told,        \* the version on disk when SIGHUP was last sent
  pending,     \* reloadCh holds a signal
  \* the registry
  collectors, aliasMap, aliasCollector,
  lock,        \* "free", "wanted" or "held" by the writer
  readers,     \* who holds it for reading
  array, length, \* cfg.DefaultCollectors
  \* the reloading goroutine
  pc, loaded,
  names,       \* what GetCollectorNames gave it
  \* the readers
  rpc,
  seen, count, \* what they have read: aliasMap, or the slice's length
  result       \* what the call returns

registry == <<collectors, aliasMap, aliasCollector>>
slice == <<array, length>>
readerVars == <<readers, rpc, seen, count, result>>
vars == <<file, told, pending, registry, lock, slice, pc, loaded, names,
          readerVars>>

-----------------------------------------------------------------------------
(* LoadRegistry.                                                           *)

NamesOf(f) == {f.collectors[i].name : i \in DOMAIN f.collectors}

\* The places an alias is written at, <<i, k>> for the k-th of collector i
\* and <<0, k>> for the k-th global one.
Places(f) ==
  {<<0, k>> : k \in DOMAIN f.global}
    \cup UNION {{<<i, k>> : k \in DOMAIN f.collectors[i].aliases} :
                i \in DOMAIN f.collectors}
AliasAt(f, p) == IF p[1] = 0 THEN f.global[p[2]]
                             ELSE f.collectors[p[1]].aliases[p[2]]
AliasesOf(f) == {AliasAt(f, p) : p \in Places(f)}

\* A name or an alias that occurs twice, an empty name (Global), or no
\* collector at all, is refused.
Valid(f) ==
  /\ f.collectors # <<>>
  /\ Global \notin NamesOf(f)
  /\ \A i, j \in DOMAIN f.collectors :
       i # j => f.collectors[i].name # f.collectors[j].name
  /\ \A p, q \in Places(f) : p # q => AliasAt(f, p) # AliasAt(f, q)

OwnerOf(f, a) ==
  IF \E i \in DOMAIN f.global : f.global[i] = a THEN Global
  ELSE LET i == CHOOSE j \in DOMAIN f.collectors :
                  \E k \in DOMAIN f.collectors[j].aliases :
                    f.collectors[j].aliases[k] = a
       IN f.collectors[i].name
Owners(f) == [a \in AliasesOf(f) |-> OwnerOf(f, a)]
GlobalsOf(f) == ToSet(f.global)

\* The collectors of a file are a list.
ASSUME FilesAssumption ==
  /\ 1 \in DOMAIN Files /\ Valid(Files[1])
  /\ \A v \in DOMAIN Files :
       LET c == DOMAIN Files[v].collectors
       IN IsFiniteSet(c) /\ c = 1..Cardinality(c)

Names == UNION {NamesOf(Files[v]) : v \in DOMAIN Files}
Aliases == UNION {AliasesOf(Files[v]) : v \in DOMAIN Files}

TypeOK ==
  /\ file \in DOMAIN Files /\ told \in DOMAIN Files /\ loaded \in DOMAIN Files
  /\ pending \in BOOLEAN
  /\ collectors \subseteq Names /\ aliasMap \subseteq Aliases
  /\ DOMAIN aliasCollector \subseteq Aliases
  /\ \A a \in DOMAIN aliasCollector : aliasCollector[a] \in Names \cup {Global}
  /\ lock \in {"free", "wanted", "held"} /\ readers \subseteq Readers
  /\ array \subseteq Names /\ length \in Nat /\ names \subseteq Names
  /\ pc \in {"wait", "load", "lock", "aliases", "owners", "unlock", "names",
             "array", "length"}
  /\ rpc \in [Readers -> {"idle", "lock", "map", "owners", "back", "length",
                          "array", "listed"}]
  /\ seen \in [Readers -> SUBSET Aliases] /\ count \in [Readers -> Nat]
  /\ result \in [Readers -> SUBSET (Names \cup Aliases)]

\* main loads the file before it serves.
Init ==
  /\ file = 1 /\ told = 1 /\ pending = FALSE
  /\ collectors = NamesOf(Files[1]) /\ aliasMap = AliasesOf(Files[1])
  /\ aliasCollector = Owners(Files[1])
  /\ lock = "free" /\ readers = {}
  /\ array = NamesOf(Files[1]) /\ length = Cardinality(array)
  /\ pc = "wait" /\ loaded = 1 /\ names = {}
  /\ rpc = [t \in Readers |-> "idle"] /\ seen = [t \in Readers |-> {}]
  /\ count = [t \in Readers |-> 0] /\ result = [t \in Readers |-> {}]

-----------------------------------------------------------------------------
(* The operator.                                                           *)

Edit ==
  /\ file + 1 \in DOMAIN Files /\ file' = file + 1
  /\ UNCHANGED <<told, pending, registry, lock, slice, pc, loaded, names,
                 readerVars>>

\* MUTANT of Hangup: with an unbuffered channel a signal is dropped unless
\* the goroutine is waiting for it.
HangupUnbuffered ==
  /\ told' = file /\ pending' = (pending \/ pc = "wait")
  /\ UNCHANGED <<file, registry, lock, slice, pc, loaded, names, readerVars>>

\* The signal is dropped if the channel holds one.
Hangup ==
  /\ told' = file /\ pending' = TRUE
  /\ UNCHANGED <<file, registry, lock, slice, pc, loaded, names, readerVars>>

-----------------------------------------------------------------------------
(* The reloading goroutine.                                                *)

Step(from, to) == pc = from /\ pc' = to

Receive ==
  /\ Step("wait", "load") /\ pending /\ pending' = FALSE
  /\ UNCHANGED <<file, told, registry, lock, slice, loaded, names, readerVars>>

\* A file that is refused leaves everything as it was.
Load ==
  /\ pc = "load"
  /\ IF Valid(Files[file]) THEN loaded' = file /\ pc' = "lock"
                           ELSE pc' = "wait" /\ UNCHANGED loaded
  /\ UNCHANGED <<file, told, pending, registry, lock, slice, names, readerVars>>

\* r.mu.Lock: new readers are kept out, those inside are waited for.
Want ==
  /\ pc = "lock" /\ lock = "free" /\ lock' = "wanted"
  /\ UNCHANGED <<file, told, pending, registry, slice, pc, loaded, names,
                 readerVars>>

MayWrite == lock = "wanted" /\ readers = {}

Lock ==
  /\ Step("lock", "aliases") /\ MayWrite /\ lock' = "held"
  /\ collectors' = NamesOf(Files[loaded])
  /\ UNCHANGED <<file, told, pending, aliasMap, aliasCollector, slice, loaded,
                 names, readerVars>>

ReplaceAliases ==
  /\ Step("aliases", "owners") /\ aliasMap' = AliasesOf(Files[loaded])
  /\ UNCHANGED <<file, told, pending, collectors, aliasCollector, lock, slice,
                 loaded, names, readerVars>>

\* summaryAliases and recordAliases, parts of aliasMap, go with this step.
ReplaceOwners ==
  /\ Step("owners", "unlock") /\ aliasCollector' = Owners(Files[loaded])
  /\ UNCHANGED <<file, told, pending, collectors, aliasMap, lock, slice,
                 loaded, names, readerVars>>

Unlock ==
  /\ Step("unlock", "names") /\ lock' = "free"
  /\ UNCHANGED <<file, told, pending, registry, slice, loaded, names,
                 readerVars>>

\* GetCollectorNames, under the read lock: nobody else writes.
TakeNames ==
  /\ Step("names", "array") /\ names' = collectors
  /\ UNCHANGED <<file, told, pending, registry, lock, slice, loaded,
                 readerVars>>

\* The assignment to cfg.DefaultCollectors, word by word.
SetArray ==
  /\ Step("array", "length") /\ array' = names
  /\ UNCHANGED <<file, told, pending, registry, lock, length, loaded, names,
                 readerVars>>
SetLength ==
  /\ Step("length", "wait") /\ length' = Cardinality(names)
  /\ UNCHANGED <<file, told, pending, registry, lock, array, loaded, names,
                 readerVars>>

-----------------------------------------------------------------------------
(* Requests: GetGlobalAliases, the getter that reads two maps, and a read  *)
(* of cfg.DefaultCollectors.                                               *)

Go(t, from, to) == rpc[t] = from /\ rpc' = [rpc EXCEPT ![t] = to]
See(t, x) == seen' = [seen EXCEPT ![t] = x]
Give(t, x) == result' = [result EXCEPT ![t] = x]
sharedVars == <<file, told, pending, registry, lock, slice, pc, loaded, names>>

Call(t) ==
  /\ \E to \in {"lock", "length"} : Go(t, "idle", to)
  /\ UNCHANGED <<sharedVars, readers, seen, count, result>>

RLock(t) ==
  /\ Go(t, "lock", "map") /\ lock = "free"
  /\ readers' = readers \cup {t}
  /\ UNCHANGED <<sharedVars, seen, count, result>>

\* MUTANT of ReadMap: the two maps are read under locks of their own.
ReadMapAlone(t) ==
  /\ Go(t, "map", "owners") /\ See(t, aliasMap)
  /\ readers' = readers \ {t}
  /\ UNCHANGED <<sharedVars, count, result>>

ReadMap(t) ==
  /\ Go(t, "map", "owners") /\ See(t, aliasMap)
  /\ UNCHANGED <<sharedVars, readers, count, result>>

\* An alias without an owner counts as global (a missing key reads as "").
GlobalsAmong(as) ==
  {a \in as : a \notin DOMAIN aliasCollector \/ aliasCollector[a] = Global}

ReadOwners(t) ==
  /\ Go(t, "owners", "back") /\ Give(t, GlobalsAmong(seen[t]))
  /\ readers' = readers \ {t}
  /\ UNCHANGED <<sharedVars, seen, count>>

\* range over cfg.DefaultCollectors: its length and its array.
ReadLength(t) ==
  /\ Go(t, "length", "array") /\ count' = [count EXCEPT ![t] = length]
  /\ UNCHANGED <<sharedVars, readers, seen, result>>

ReadArray(t) ==
  /\ Go(t, "array", "listed") /\ Give(t, array)
  /\ UNCHANGED <<sharedVars, readers, seen, count>>

Return(t) ==
  /\ Go(t, "back", "idle") \/ Go(t, "listed", "idle")
  /\ See(t, {}) /\ Give(t, {}) /\ count' = [count EXCEPT ![t] = 0]
  /\ UNCHANGED <<sharedVars, readers>>

Reloader ==
  \/ Receive \/ Load \/ Want \/ Lock \/ ReplaceAliases \/ ReplaceOwners
  \/ Unlock \/ TakeNames \/ SetArray \/ SetLength
Reader(t) ==
  \/ RLock(t) \/ ReadMap(t) \/ ReadOwners(t) \/ ReadLength(t) \/ ReadArray(t)
  \/ Return(t)

Next == Edit \/ Hangup \/ Reloader \/ \E t \in Readers : Call(t) \/ Reader(t)

Spec == Init /\ [][Next]_vars
\* The goroutines are scheduled; a waiting writer keeps new readers out.
FairSpec == Spec /\ WF_vars(Reloader) /\ \A t \in Readers : WF_vars(Reader(t))

-----------------------------------------------------------------------------
(* What a reload promises.                                                 *)

\* GetGlobalAliases answers from one version of the file, never from a map
\* of one and the owners of another (the lock around the replacement).
GlobalsOfOneVersion ==
  \A t \in Readers : rpc[t] = "back" =>
    \E v \in DOMAIN Files : Valid(Files[v]) /\ result[t] = GlobalsOf(Files[v])

\* A reload is atomic for GetGlobalAliases: whatever steps it is made of, it
\* takes effect when the map is replaced, and a call when the owners are read.
ValidVersions == {v \in DOMAIN Files : Valid(Files[v])}
Register ==
  INSTANCE AtomicRegister WITH
    Values <- {GlobalsOf(Files[v]) : v \in ValidVersions},
    current <- IF pc = "owners" THEN GlobalsOf(Files[loaded])
                                ELSE GlobalsAmong(aliasMap),
    phase <- [t \in Readers |-> IF rpc[t] \in {"lock", "map", "owners"}
                                THEN "called"
                                ELSE IF rpc[t] = "back" THEN "answered"
                                                        ELSE "idle"],
    answer <- [t \in Readers |-> IF rpc[t] = "back" THEN result[t] ELSE {}]
RefinesRegister == Register!Spec

\* Between reloads the default collectors are those of the registry, and
\* both are of the last file that was accepted.
SettledAgrees ==
  pc = "wait" => /\ collectors = NamesOf(Files[loaded])
                 /\ aliasMap = AliasesOf(Files[loaded])
                 /\ aliasCollector = Owners(Files[loaded])
                 /\ array = collectors /\ length = Cardinality(collectors)

\* No signal is lost for good: after a SIGHUP the file it was sent for, or a
\* later one, is loaded, unless it is refused, although signals that arrive
\* during a reload are merged (capacity one, and the file is read after the
\* signal was taken).
ReloadHappens ==
  \A v \in DOMAIN Files :
    told = v /\ Valid(Files[v]) ~>
      loaded >= v \/ ~Valid(Files[file])

\* Until then the signal is on its way: unless one waits in the channel, or
\* the file is about to be read, what was read last is at least the version
\* SIGHUP was last sent for, or a version from then on is one that is refused.
NoSignalLost ==
  ~pending /\ pc # "load" =>
    loaded >= told \/ \E v \in told..file : ~Valid(Files[v])

\* "DefaultCollectors updated in step (safe for concurrent use)" (comment in
\* main): a request reads as many names as there are in the array it got.
DefaultCollectorsWhole ==
  \A t \in Readers : rpc[t] = "listed" => count[t] = Cardinality(result[t])

-----------------------------------------------------------------------------
(* Why they hold: an inductive invariant.                                  *)

\* The three maps of the registry, of version v.
CollectorsOf(v) == collectors = NamesOf(Files[v])
MapOf(v) == aliasMap = AliasesOf(Files[v])
OwnersOf(v) == aliasCollector = Owners(Files[v])

\* Between a load and the replacement the maps are still those of an earlier
\* version; during it, the reloader has the lock, some are.
RegistryOK ==
  /\ loaded \in ValidVersions
  /\ \E v \in ValidVersions :
       /\ OwnersOf(v) /\ (pc # "owners" => MapOf(v))
       /\ pc \notin {"aliases", "owners"} => CollectorsOf(v)
       /\ pc \notin {"lock", "aliases", "owners"} => v = loaded
  /\ pc \in {"aliases", "owners"} => CollectorsOf(loaded)
  /\ pc = "owners" => MapOf(loaded)

\* The writer keeps readers out, and the readers inside are those registered.
LockOK ==
  /\ lock = "held" <=> pc \in {"aliases", "owners", "unlock"}
  /\ lock = "wanted" => pc = "lock"
  /\ lock = "held" => readers = {}
  /\ readers = {t \in Readers : rpc[t] \in {"map", "owners"}}

\* cfg.DefaultCollectors follows the registry, the array first.
SliceOK ==
  /\ pc \in {"array", "length"} => names = collectors
  /\ pc \in {"length", "wait", "load"} => array = collectors
  /\ pc \in {"wait", "load"} => length = Cardinality(collectors)

ReadersOK ==
  \A t \in Readers :
    /\ rpc[t] = "owners" => seen[t] = aliasMap
    /\ rpc[t] = "back" =>
         \E v \in ValidVersions : result[t] = GlobalsOf(Files[v])

\* Versions are numbers, and only those written can be loaded or told.
SignalOK ==
  /\ file \in Nat /\ told \in Nat /\ loaded \in Nat
  /\ told <= file /\ loaded <= file /\ NoSignalLost

IInv == TypeOK /\ RegistryOK /\ LockOK /\ SliceOK /\ ReadersOK
=============================================================================

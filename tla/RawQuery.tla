------------------------------- MODULE RawQuery ------------------------------
(***************************************************************************)
(* GET /data/raw: one page of records of one cluster, or of several        *)
(* clusters that are asked in parallel and merged, and a client that walks *)
(* through the pages with next_cursor, while time passes and records keep  *)
(* arriving, late ones too.                                                *)
(*                                                                         *)
(* Nothing is kept between two requests: each plans its range anew, from   *)
(* the clock or, with full_range, from what is stored.  A page is sorted   *)
(* by @timestamp alone, so the sort value a cursor carries is a time, ties *)
(* come in any order and search_after returns what is strictly older.  A   *)
(* record is a cluster and its place in the order of arrival.  The query   *)
(* hash a cursor also carries is never read, and left out.                 *)
(***************************************************************************)
EXTENDS QueryPlan

CONSTANTS
  Clusters,
  Params,     \* what the clients pass as cluster, sequences of parts
  Ranges,     \* what they pass as range: full, or two times
  Stores,     \* what the clusters hold at first
  Size,       \* records in a page
  FirstNow,   \* the clock at first
  MaxPages,   \* bound: requests the client makes
  MaxArrivals,\* bound: records that arrive during a behaviour
  MaxTicks,   \* bound: steps of the clock
  None

\* A list of clusters: what ParseClusterParam makes of a parameter.
ASSUME ParamsAssumption ==
  \A p \in Params : ParseClusterParam(p, Clusters) \subseteq Seq(Clusters)
ASSUME RangesAssumption ==
  LET Input == [ago : BOOLEAN, time : Int]
  IN Ranges \subseteq [full : BOOLEAN, from : Input, to : Input]
ASSUME SizeAssumption == Size \in Nat \ {0} /\ MaxPages \in Nat
ASSUME StoresAssumption ==
  /\ FirstNow \in Int /\ Stores \subseteq [Clusters -> Seq(Int)]
  /\ \A s \in Stores : \A c \in Clusters : \A n \in DOMAIN s[c] : s[c][n] <= FirstNow
ASSUME NoneAssumption == None \notin [cluster : Clusters, after : Int]

VARIABLES
  now,     \* the clock
  store,   \* per cluster, the times of its records in order of arrival
  known,   \* per cluster, how many of them had arrived before the first request
  phase,   \* "idle" between requests, "asking" while clusters are searched
  range,   \* the range the client asks for
  param,   \* the clusters of the request
  cursor,  \* the cursor of the request, or None
  results, \* per goroutine: its state, its plan and its page
  reply,   \* the last answer
  log      \* what the client has received: pages, the plans behind them,
           \* and whether each of their searches was whole

vars == <<now, store, known, phase, range, param, cursor, results, reply, log>>
asked == <<known, range, param, cursor>>

Record == Clusters \X (Nat \ {0})
Time(r) == store[r[1]][r[2]]
Stored(c) == {<<c, n>> : n \in DOMAIN store[c]}
Cursors == [cluster : Clusters, after : Int]
Plans == [from : Int, to : Int, empty : BOOLEAN]
Single(p) == Len(p) = 1

TypeOK ==
  /\ now \in Int /\ store \in [Clusters -> Seq(Int)] /\ known \in [Clusters -> Nat]
  /\ phase \in {"idle", "asking"} /\ range \in Ranges
  /\ param \in Seq(Clusters) /\ cursor \in Cursors \cup {None}
  /\ \A i \in DOMAIN results :
       /\ results[i] \in [state : {"pending", "planned", "page", "failed"},
                          plan : Plans \cup {None}, page : Seq(Record),
                          whole : BOOLEAN]
       /\ results[i].state \in {"planned", "page"} => results[i].plan \in Plans
  /\ reply \in [status : {"none", "ok", "error"}, more : BOOLEAN,
                next : Cursors \cup {None}]
  /\ log \in Seq([page : Seq(Record), whole : BOOLEAN,
                  plans : SUBSET [cluster : Clusters, plan : Plans]])

NoReply == [status |-> "none", more |-> FALSE, next |-> None]

Init ==
  /\ store \in Stores /\ now = FirstNow
  /\ known = [c \in Clusters |-> Len(store[c])]
  /\ phase = "idle" /\ range \in Ranges
  /\ param \in UNION {ParseClusterParam(p, Clusters) : p \in Params}
  /\ cursor = None /\ results = <<>> /\ reply = NoReply /\ log = <<>>

-----------------------------------------------------------------------------
(* Time and the writers.                                                   *)

Tick ==
  /\ now < FirstNow + MaxTicks /\ now' = now + 1
  /\ UNCHANGED <<store, asked, phase, results, reply, log>>

\* A record arrives, of now or late.
Arrive ==
  /\ \E c \in Clusters, t \in {now, now - 2} :
       /\ Len(store[c]) < known[c] + MaxArrivals
       /\ store' = [store EXCEPT ![c] = Append(@, t)]
  /\ UNCHANGED <<now, asked, phase, results, reply, log>>

-----------------------------------------------------------------------------
(* The request and its goroutines.                                         *)

\* A cursor narrows a request for several clusters to its own.
Targets == IF ~Single(param) /\ cursor # None THEN <<cursor.cluster>>
                                              ELSE param

\* MUTANT of Passed: no cursor is passed on.
PassedNever == None

\* The handler passes a cursor on for several clusters only.
Passed == IF Single(param) THEN None ELSE cursor

\* MUTANT of nextCursor: the time is cut to a coarser unit.
nextCursorCoarse(page) ==
  [cluster |-> Last(page)[1], after |-> (Time(Last(page)) \div 2) * 2]

\* A full page has a cursor, the sort value of its last hit.
nextCursor(page) ==
  [cluster |-> Last(page)[1], after |-> Time(Last(page))]

Waiting == [state |-> "pending", plan |-> None, page |-> <<>>, whole |-> TRUE]

Ask(c) ==
  /\ phase = "idle" /\ Len(log) < MaxPages
  /\ phase' = "asking" /\ cursor' = c
  /\ UNCHANGED <<now, store, known, range, param, reply, log>>
  /\ results' = [i \in DOMAIN Targets' |-> Waiting]

FirstRequest == reply = NoReply /\ Ask(None)

\* The client goes on with the cursor it was given.
NextRequest == reply.next # None /\ Ask(reply.next)

Becomes(i, r) ==
  /\ results' = [results EXCEPT ![i] = r]
  /\ UNCHANGED <<now, store, asked, phase, reply, log>>

\* The cluster is unknown, cannot be reached, or a search is refused.
GoroutineFails(i) ==
  /\ phase = "asking" /\ results[i].state \in {"pending", "planned"}
  /\ Becomes(i, [Waiting EXCEPT !.state = "failed"])

Discovered(c) ==
  IF store[c] = <<>> THEN [from |-> 0, to |-> 0, empty |-> TRUE]
  ELSE DiscoverJobTimeRange({Time(r) : r \in Stored(c)})

Asked == LET from == ParseTime(range.from, now)
             to == ParseTime(range.to, now)
         IN [from |-> from, to |-> to, empty |-> FALSE]

\* buildRawPlan: the range is read or discovered, and holds for one page.
BuildPlan(i) ==
  /\ phase = "asking" /\ results[i].state = "pending"
  /\ IF range.full \/ ValidateTimeRange(Asked.from, Asked.to)
     THEN Becomes(i, [Waiting EXCEPT
            !.state = "planned",
            !.plan = IF range.full THEN Discovered(Targets[i]) ELSE Asked])
     ELSE Becomes(i, [Waiting EXCEPT !.state = "failed"])

\* A cursor is used for the cluster that issued it.
Older(r) == \/ Passed = None
            \/ Passed.cluster # r[1]
            \/ Time(r) < Passed.after

Indices(plan) == IF range.full THEN ResolveWildcardIndices
                 ELSE ResolveIndices(plan.from, plan.to)

Within(r, plan) == ~plan.empty /\ plan.from <= Time(r) /\ Time(r) <= plan.to

\* What the query of BuildRawQuery matches in the indices.
Hits(i) == {r \in Stored(Targets[i]) :
              /\ Within(r, results[i].plan)
              /\ InIndices(Time(r), Indices(results[i].plan)) /\ Older(r)}

NewestFirst(s) == \A k, l \in DOMAIN s : k < l => Time(s[k]) >= Time(s[l])
Least(m, n) == IF m < n THEN m ELSE n
Top(s) == SubSeq(s, 1, Least(Size, Len(s)))

\* executeRawPage: the newest Size hits.  If shards have failed the answer
\* lacks some of the hits, and is taken for a whole one.
Search(i) ==
  /\ phase = "asking" /\ results[i].state = "planned"
  /\ \E found \in {Hits(i)} \cup {Hits(i) \ {r} : r \in Hits(i)} :
       \E s \in SetToSeqs(found) :
         /\ NewestFirst(s)
         /\ Becomes(i, [results[i] EXCEPT !.state = "page", !.page = Top(s),
                                          !.whole = found = Hits(i)])

-----------------------------------------------------------------------------
(* The answer.                                                             *)

Good == {i \in DOMAIN results : results[i].state = "page"}
\* The records of all pages, with the goroutine that brought them.
Found == UNION {{<<i, k>> : k \in DOMAIN results[i].page} : i \in Good}
At(f) == results[f[1]].page[f[2]]

\* MUTANT of IsMerge: the pages are cut and not sorted first.
IsMergeUnsorted(s) == TRUE

\* sort.Slice by time: any order in which nothing precedes a newer record.
IsMerge(s) == NewestFirst([k \in DOMAIN s |-> At(s[k])])

\* Pagination.HasMore: a full page may have more behind it.
HasMore(page) == Len(page) >= Size

Received(page, more, next) ==
  /\ reply' = [status |-> "ok", more |-> more, next |-> next]
  /\ log' = Append(log, [page |-> page,
                         plans |-> {[cluster |-> Targets[i],
                                     plan |-> results[i].plan] : i \in Good},
                         whole |-> \A i \in Good : results[i].whole])

\* MergeResults: one page is handed on as it is; several are sorted and cut,
\* and lose their cursors.
MergeResults ==
  CASE Good = {} -> Received(<<>>, FALSE, None)
    [] Cardinality(Good) = 1 ->
         LET page == results[CHOOSE i \in Good : TRUE].page
         IN Received(page, HasMore(page),
                     IF HasMore(page) THEN nextCursor(page) ELSE None)
    [] OTHER ->
         \E s \in SetToSeqs(Found) :
           /\ IsMerge(s)
           /\ Received(Top([k \in DOMAIN s |-> At(s[k])]), Len(s) > Size, None)

\* A failed cluster is left out as long as another one has answered.
Respond ==
  /\ phase = "asking" /\ \A i \in DOMAIN results : results[i].state \in {"page", "failed"}
  /\ phase' = "idle" /\ results' = <<>>
  /\ IF Good = {} /\ results # <<>>
     THEN reply' = [NoReply EXCEPT !.status = "error"] /\ UNCHANGED log
     ELSE MergeResults
  /\ UNCHANGED <<now, store, asked>>

\* The walk is over, or the client loses interest.
Stopped == phase = "idle" /\ reply # NoReply /\ UNCHANGED vars

Next == FirstRequest \/ NextRequest \/ Respond \/ Stopped \/ Tick \/ Arrive
        \/ \E i \in DOMAIN results : GoroutineFails(i) \/ BuildPlan(i) \/ Search(i)

Spec == Init /\ [][Next]_vars

-----------------------------------------------------------------------------
(* What the client may rely on.  A record counts if it had arrived before  *)
(* the first request, and only answers without failed shards do.           *)

IsIn(r, page) == \E k \in DOMAIN page : page[k] = r
InLog(r) == \E k \in DOMAIN log : IsIn(r, log[k].page)
Answered == phase = "idle" /\ reply.status = "ok" /\ Last(log).whole

\* The records an answer is about: those in the range of a plan behind it.
About(entry) ==
  {r \in UNION {Stored(c) : c \in Clusters} :
     /\ r[2] <= known[r[1]]
     /\ \E p \in entry.plans : p.cluster = r[1] /\ Within(r, p.plan)}

\* A first page holds the newest records of all the clusters that answered,
\* in order: it is full or holds them all, and none that is missing is newer
\* than one that is there.  Each cluster's own page is enough for the merge,
\* and the daily indices hold every record of the range.
PageIsNewest ==
  Answered /\ cursor = None =>
    LET page == Last(log).page
    IN /\ NewestFirst(page)
       /\ \A r \in About(Last(log)) :
            ~IsIn(r, page) =>
              /\ Len(page) = Size
              /\ \A k \in DOMAIN page : Time(page[k]) >= Time(r)

\* A page of a walk never brings a record of the pages before it, although
\* every page plans its range anew and records arrive (for several clusters:
\* the cursor is bound to the one whose page it ended).
NoRepeat ==
  ~Single(param) =>
    \A k, l \in DOMAIN log : k < l =>
      \A m \in DOMAIN log[k].page : ~IsIn(log[k].page[m], log[l].page)

\* The client has the record, or a page was not about it, or it is of the very
\* instant at which one page ended and the next began: the sort has no
\* tie-breaker.
Accounted(r) ==
  \/ InLog(r)
  \/ \E k \in DOMAIN log : r \notin About(log[k])
  \/ \E k \in DOMAIN log :
       log[k].page # <<>> /\ Time(Last(log[k].page)) = Time(r)

\* A walk that has come to its end has brought every record of its cluster
\* that was in the range of all its pages, except those at the page breaks.
\* (What a relative range has moved past in the meantime is not promised.)
WalkIsComplete ==
  /\ phase = "idle" /\ reply.status = "ok" /\ reply.next = None
  /\ ~Single(param) /\ cursor # None /\ \A k \in DOMAIN log : log[k].whole
  => \A r \in Stored(cursor.cluster) : Accounted(r)

\* has_more = false is the truth, of the range as it was planned: nothing is
\* left that is older than the cursor - unless the page was merged from
\* several and has exactly Size records; then one cluster's page may have been
\* full and the others empty, and the rest of it cannot be reached.
MoreIsHonest ==
  Answered /\ ~reply.more =>
    LET last == Last(log)
    IN \/ Cardinality(last.plans) > 1 /\ Len(last.page) = Size
       \/ \A r \in About(last) : IsIn(r, last.page) \/ ~Older(r)

\* "Next page via cursor" (API.md, with a single cluster): the page that is
\* asked for with a cursor does not bring a record of the page before.
CursorContinues ==
  Single(param) =>
    \A k, l \in DOMAIN log : k < l =>
      \A m \in DOMAIN log[k].page : ~IsIn(log[k].page[m], log[l].page)

-----------------------------------------------------------------------------
(* The inductive invariant behind these: what each goroutine has brought,  *)
(* and how far the walk has come.                                          *)

\* The request and the answer before it.
RequestOK ==
  /\ \A c \in Clusters : known[c] <= Len(store[c])
  /\ IF phase = "idle" THEN results = <<>> ELSE DOMAIN results = DOMAIN Targets
  /\ reply.status = "none" => reply = NoReply /\ log = <<>> /\ cursor = None
  /\ reply.status = "ok" <=> log # <<>> /\ reply.status # "error"
  /\ reply.next # None => reply.status = "ok"
  /\ phase = "asking" => reply.next = cursor /\ (cursor = None => log = <<>>)

\* r is missing from a page, for which the page is full of newer ones.
PassedOver(r, page) ==
  Len(page) = Size /\ \A k \in DOMAIN page : Time(page[k]) >= Time(r)

\* A page is of its cluster, in order, and has what is newest in the range.
PageOK(i) ==
  LET page == results[i].page
  IN /\ Len(page) <= Size /\ NewestFirst(page)
     /\ \A k \in DOMAIN page : page[k] \in Stored(Targets[i]) /\ Older(page[k])
     /\ results[i].whole =>
          \A r \in Stored(Targets[i]) :
            /\ r[2] <= known[r[1]] /\ Within(r, results[i].plan) /\ Older(r)
            => IsIn(r, page) \/ PassedOver(r, page)

ResultsOK ==
  phase = "asking" => \A i \in DOMAIN results : results[i].state = "page" => PageOK(i)

\* What the client has is stored, and what it has not seen in a walk lies
\* behind the cursor.
LogOK ==
  \A k \in DOMAIN log : \A m \in DOMAIN log[k].page :
    log[k].page[m] \in Stored(log[k].page[m][1])
WalkOK ==
  ~Single(param) /\ reply.next # None =>
    /\ \A k \in DOMAIN log : \A m \in DOMAIN log[k].page :
         /\ log[k].page[m][1] = reply.next.cluster
         /\ Time(log[k].page[m]) >= reply.next.after
    /\ (\A k \in DOMAIN log : log[k].whole) =>
         \A r \in Stored(reply.next.cluster) :
           Accounted(r) \/ Time(r) < reply.next.after

IInv == RequestOK /\ ResultsOK /\ LogOK /\ WalkOK
        /\ PageIsNewest /\ NoRepeat /\ WalkIsComplete /\ MoreIsHonest
=============================================================================

--------------------------- MODULE Collection_proofs ---------------------------
(***************************************************************************)
(* Proofs about Collection, for every number of requests, nodes, attempts  *)
(* and collectors, and every list a script may print.                      *)
(***************************************************************************)
EXTENDS Collection, FiniteSetTheorems, SequenceTheorems, TLAPS

-----------------------------------------------------------------------------
(* The verdict.                                                            *)

\* As many distinct entries as the list is long, for each of some collectors,
\* are all the entries: there can be one collector only.
LEMMA AllCounted ==
  ASSUME NEW n \in Nat, NEW A \in SUBSET (1..n), NEW c \in Nat,
         Cardinality(A) = n * c, n * c > 0
  PROVE  A = 1..n
<1>1. IsFiniteSet(1..n) /\ Cardinality(1..n) = n
  BY FS_Interval
<1>2. /\ IsFiniteSet(A) /\ Cardinality(A) <= n
      /\ Cardinality(A) = n => A = 1..n
  BY <1>1, FS_Subset
<1>3. n * c <= n
  BY <1>2
<1>4. n * c = n
  <2>1. CASE c = 0
    BY <2>1
  <2>2. CASE c = 1
    BY <2>2
  <2>3. CASE c # 0 /\ c # 1
    <3>1. PICK d \in Nat : c = d + 2
      <4>1. c - 2 \in Nat /\ c = (c - 2) + 2
        BY <2>3
      <4> QED
        BY <4>1
    <3>2. n * (d + 2) = n * d + n + n /\ n * d \in Nat
      BY <3>1
    <3> QED
      BY <1>3, <3>1, <3>2
  <2> QED
    BY <2>1, <2>2, <2>3
<1> QED
  BY <1>2, <1>4

\* Nothing counted is nothing answered.
LEMMA NoneCounted ==
  ASSUME NEW n \in Nat, NEW A \in SUBSET (1..n)
  PROVE  Cardinality(A) \in Nat /\ (Cardinality(A) = 0 => A = {})
<1>1. IsFiniteSet(1..n)
  BY FS_Interval
<1>2. IsFiniteSet(A)
  BY <1>1, FS_Subset
<1> QED
  BY <1>2, FS_EmptySet, FS_CardinalityType

\* What the status of a request by job says.
LEMMA VerdictMeans ==
  ASSUME TypeOK, NEW r \in Requests, ListOK(r)
  PROVE  /\ Verdict(r) \in {"success", "partial_success", "failed"}
         /\ Verdict(r) = "success" =>
              nodes[r] # <<>> /\ answered[r] = DOMAIN nodes[r]
         /\ Verdict(r) = "failed" => answered[r] = {}
<1> DEFINE n == Len(nodes[r])
           c == collectors[r]
           A == answered[r]
<1>1. nodes[r] \in Seq(Nodes) /\ c \in Nat
  BY DEF TypeOK
<1>2. n \in Nat /\ DOMAIN nodes[r] = 1..n /\ (n > 0 => nodes[r] # <<>>)
  BY <1>1
<1>3. A \in SUBSET (1..n)
  BY <1>2 DEF ListOK
<1>4. Verdict(r) = CASE Cardinality(A) = n * c /\ n * c > 0 -> "success"
                     [] Cardinality(A) > 0 /\ ~(Cardinality(A) = n * c /\ n * c > 0)
                          -> "partial_success"
                     [] Cardinality(A) = 0 -> "failed"
  BY DEF Verdict
<1> HIDE DEF A, n, c
<1>5. n * c \in Nat /\ (n * c > 0 => n > 0)
  BY <1>1, <1>2
<1>6. Cardinality(A) \in Nat /\ (Cardinality(A) = 0 => A = {})
  BY <1>2, <1>3, NoneCounted
<1>7. Cardinality(A) = n * c /\ n * c > 0 => A = 1..n /\ n > 0
  BY <1>1, <1>2, <1>3, <1>5, AllCounted
<1>8. /\ Verdict(r) \in {"success", "partial_success", "failed"}
      /\ Verdict(r) = "success" => Cardinality(A) = n * c /\ n * c > 0
      /\ Verdict(r) = "failed" => Cardinality(A) = 0
  BY <1>4, <1>5, <1>6
<1>9. /\ Verdict(r) = "success" => A = 1..n /\ n > 0
      /\ Verdict(r) = "failed" => A = {}
  BY <1>6, <1>7, <1>8
<1> QED
  BY <1>2, <1>8, <1>9 DEF A

-----------------------------------------------------------------------------
(* Type correctness.                                                       *)

LEMMA InitInv == Init => IInv
<1> SUFFICES ASSUME Init PROVE IInv
  OBVIOUS
<1>1. TypeOK
  BY DEF Init, TypeOK
<1>2. \A r \in Requests : RequestOK(r)
  BY DEF Init, RequestOK, Before, AtNode, ListOK, StatusOK
<1> QED
  BY <1>1, <1>2 DEF IInv

\* The node a request is at is an entry of its list.
LEMMA NextFacts ==
  ASSUME IInv, NEW r \in Requests, pc[r] \in {"node", "post", "backoff"}
  PROVE  /\ nodes[r] \in Seq(Nodes) /\ next[r] \in 1..Len(nodes[r])
         /\ nodes[r][next[r]] \in Nodes
         /\ tried[r] \in Seq(Nat) /\ next[r] \in DOMAIN tried[r]
         /\ tried[r][next[r]] \in Nat /\ tried[r][next[r]] = attempt[r]
<1>1. nodes[r] \in Seq(Nodes) /\ tried[r] \in Seq(Nat)
  BY DEF IInv, TypeOK
<1>2. /\ next[r] \in DOMAIN nodes[r] /\ tried[r][next[r]] = attempt[r]
      /\ DOMAIN tried[r] = DOMAIN nodes[r]
  BY DEF IInv, RequestOK, AtNode, ListOK
<1> QED
  BY <1>1, <1>2

\* An answer to the caller keeps the types, and touches one request.
LEMMA RespondFacts ==
  ASSUME TypeOK, NEW r \in Requests,
         NEW s \in {"success", "partial_success", "failed", "invalid"},
         Respond(r, s)
  PROVE  /\ pc' \in [Requests -> {"idle", "script", "node", "post", "backoff",
                                  "tally", "over"}]
         /\ status' \in [Requests -> {"none", "success", "partial_success",
                                      "failed", "invalid"}]
         /\ code' \in [Requests -> {0, 200, 207, 400}]
         /\ pc'[r] = "over" /\ status'[r] = s
         /\ \A q \in Requests : q # r => pc'[q] = pc[q] /\ status'[q] = status[q]
<1> DEFINE k == CASE s = "success" -> 200 [] s = "invalid" -> 400
                  [] OTHER -> 207
<1>1. k \in {0, 200, 207, 400}
  OBVIOUS
<1>2. code' = [code EXCEPT ![r] = k]
  BY DEF Respond
<1> HIDE DEF k
<1>3. code' \in [Requests -> {0, 200, 207, 400}]
  BY <1>1, <1>2 DEF TypeOK
<1> QED
  BY <1>3 DEF TypeOK, Respond, Goto

LEMMA StartType ==
  ASSUME IInv, NEW r \in Requests,
         \/ Invalid(r) \/ LookupFails(r) \/ StartByJob(r) \/ ScriptPrints(r)
         \/ StartDirect(r) \/ Tally(r)
  PROVE  TypeOK'
<1> USE DEF TypeOK, askVars, resultVars, Goto
<1>1. TypeOK
  BY DEF IInv
<1>2. ASSUME NEW l \in Seq(Nodes)
      PROVE  [i \in DOMAIN l |-> 0] \in Seq(Nat)
  OBVIOUS
<1>3. CASE Invalid(r)
  BY <1>1, <1>3, RespondFacts, SMTT(60) DEF Invalid
<1>4. CASE LookupFails(r)
  BY <1>1, <1>4, RespondFacts, SMTT(60) DEF LookupFails
<1>5. CASE StartByJob(r)
  BY <1>1, <1>5, NumbersAssumption, SMTT(60) DEF StartByJob
<1>6. CASE ScriptPrints(r)
  <2>1. PICK list \in NodeLists :
          IF list = <<>> THEN Respond(r, "failed") /\ UNCHANGED <<nodes, tried>>
                         ELSE /\ Ask(r, list) /\ Goto(r, "node")
                              /\ UNCHANGED resultVars
    BY <1>6 DEF ScriptPrints
  <2>2. list \in Seq(Nodes)
    BY ListsAssumption
  <2>3. CASE list = <<>>
    <3>1. Respond(r, "failed") /\ UNCHANGED <<nodes, tried>>
      BY <2>1, <2>3
    <3> QED
      BY <1>1, <1>6, <3>1, RespondFacts, SMTT(60) DEF ScriptPrints
  <2>4. CASE list # <<>>
    <3>1. nodes' = [nodes EXCEPT ![r] = list] /\ UNCHANGED <<status, code>>
          /\ tried' = [tried EXCEPT ![r] = [i \in DOMAIN list |-> 0]]
          /\ pc' = [pc EXCEPT ![r] = "node"]
      BY <2>1, <2>4 DEF Ask
    <3>2. nodes' \in [Requests -> Seq(Nodes)] /\ tried' \in [Requests -> Seq(Nat)]
      BY <1>1, <1>2, <2>2, <3>1
    <3> QED
      BY <1>1, <1>6, <3>1, <3>2 DEF ScriptPrints
  <2> QED
    BY <2>3, <2>4
<1>7. CASE StartDirect(r)
  <2>1. PICK n \in Nodes : Ask(r, <<n>>)
    BY <1>7 DEF StartDirect
  <2>2. <<n>> \in Seq(Nodes)
    OBVIOUS
  <2> QED
    BY <1>1, <1>2, <1>7, <2>1, <2>2, NumbersAssumption DEF StartDirect, Ask
<1>8. CASE Tally(r)
  <2>1. PICK s \in {"success", "partial_success", "failed"} : Respond(r, s)
    <3>1. CASE direct[r]
      BY <1>8, <3>1, Zenon DEF Tally
    <3>2. CASE ~direct[r]
      <4>1. Respond(r, Verdict(r))
        BY <1>8, <3>2, Zenon DEF Tally
      <4>2. Verdict(r) \in {"success", "partial_success", "failed"}
        BY <1>1, VerdictMeans DEF IInv, RequestOK
      <4> QED
        BY <4>1, <4>2, Zenon
    <3> QED
      BY <3>1, <3>2
  <2> QED
    <3>1. s \in {"success", "partial_success", "failed", "invalid"}
      OBVIOUS
    <3>2. /\ pc' \in [Requests -> {"idle", "script", "node", "post", "backoff",
                                   "tally", "over"}]
          /\ status' \in [Requests -> {"none", "success", "partial_success",
                                       "failed", "invalid"}]
          /\ code' \in [Requests -> {0, 200, 207, 400}]
      <4> HIDE DEF TypeOK
      <4> QED
        BY <1>1, <2>1, <3>1, RespondFacts
    <3> QED
      BY <1>1, <1>8, <3>2 DEF Tally
<1> QED
  BY <1>3, <1>4, <1>5, <1>6, <1>7, <1>8

\* A request to an agent is one more to the entry of the list.
LEMMA SentFacts ==
  ASSUME IInv, NEW r \in Requests, pc[r] = "post", Sent(r)
  PROVE  /\ tried' \in [Requests -> Seq(Nat)]
         /\ DOMAIN tried'[r] = DOMAIN tried[r]
         /\ tried'[r][next[r]] = attempt[r] + 1
         /\ \A i \in DOMAIN tried[r] : i # next[r] => tried'[r][i] = tried[r][i]
         /\ \A q \in Requests : q # r => tried'[q] = tried[q]
<1>1. tried \in [Requests -> Seq(Nat)]
  BY DEF IInv, TypeOK
<1>2. /\ next[r] \in DOMAIN tried[r] /\ tried[r] \in Seq(Nat)
      /\ tried[r][next[r]] = attempt[r] /\ attempt[r] \in Nat
  BY NextFacts DEF IInv, TypeOK
<1> DEFINE t == [tried[r] EXCEPT ![next[r]] = attempt[r] + 1]
<1>3. tried' = [tried EXCEPT ![r] = t]
  BY <1>1, <1>2 DEF Sent
<1>4. /\ t \in Seq(Nat) /\ DOMAIN t = DOMAIN tried[r]
      /\ t[next[r]] = attempt[r] + 1
      /\ \A i \in DOMAIN tried[r] : i # next[r] => t[i] = tried[r][i]
  <2>1. attempt[r] + 1 \in Nat
    BY <1>2
  <2> QED
    BY <1>2, <2>1
<1> HIDE DEF t
<1> QED
  BY <1>1, <1>3, <1>4

\* An agent that takes the job has it once more, and keeps it.
LEMMA TakenFacts ==
  ASSUME IInv, NEW r \in Requests, pc[r] = "post", Taken(r) \/ UNCHANGED added
  PROVE  /\ added' \in [Requests -> [Nodes -> Nat]]
         /\ \A n \in Nodes : added[r][n] > 0 => added'[r][n] > 0
         /\ Taken(r) => added'[r][nodes[r][next[r]]] > 0
         /\ \A q \in Requests : q # r => added'[q] = added[q]
<1>1. added \in [Requests -> [Nodes -> Nat]]
  BY DEF IInv, TypeOK
<1>2. nodes[r][next[r]] \in Nodes
  BY NextFacts
<1>3. CASE UNCHANGED added /\ ~Taken(r)
  BY <1>1, <1>3
<1>4. CASE Taken(r)
  <2> DEFINE n == nodes[r][next[r]]
             a == [added[r] EXCEPT ![n] = added[r][n] + 1]
  <2>1. added' = [added EXCEPT ![r] = a]
    BY <1>1, <1>2, <1>4 DEF Taken
  <2>2. added[r] \in [Nodes -> Nat] /\ n \in Nodes
    BY <1>1, <1>2
  <2> HIDE DEF n
  <2>3. /\ a \in [Nodes -> Nat] /\ a[n] > 0
        /\ \A m \in Nodes : added[r][m] > 0 => a[m] > 0
    <3>1. added[r][n] + 1 \in Nat /\ added[r][n] + 1 > 0
      BY <2>2
    <3> QED
      BY <2>2, <3>1
  <2> HIDE DEF a
  <2> QED
    BY <1>1, <2>1, <2>3 DEF n
<1> QED
  BY <1>3, <1>4

\* The loop goes on: the next entry, or the end of the list.
LEMMA OnwardFacts ==
  ASSUME IInv, NEW r \in Requests, pc[r] \in {"node", "post"}, Onward(r)
  PROVE  /\ pc' \in [Requests -> {"idle", "script", "node", "post", "backoff",
                                  "tally", "over"}]
         /\ next' \in [Requests -> Nat \ {0}] /\ attempt' \in [Requests -> Nat]
         /\ next'[r] = next[r] + 1 /\ attempt'[r] = 0
         /\ \/ pc'[r] = "node" /\ next[r] + 1 \in DOMAIN nodes[r]
            \/ pc'[r] = "tally" /\ next[r] = Len(nodes[r])
         /\ \A q \in Requests : q # r =>
              pc'[q] = pc[q] /\ next'[q] = next[q] /\ attempt'[q] = attempt[q]
<1>1. TypeOK
  BY DEF IInv
<1>2. nodes[r] \in Seq(Nodes) /\ next[r] \in 1..Len(nodes[r])
  BY NextFacts
<1>3. next' = [next EXCEPT ![r] = next[r] + 1] /\ next[r] + 1 \in Nat \ {0}
  BY <1>1, <1>2 DEF Onward, TypeOK
<1>4. CASE next[r] = Len(nodes[r])
  <2>1. pc' = [pc EXCEPT ![r] = "tally"]
    BY <1>4 DEF Onward, Goto
  <2> QED
    BY <1>1, <1>3, <1>4, <2>1 DEF Onward, TypeOK
<1>5. CASE next[r] # Len(nodes[r])
  <2>1. pc' = [pc EXCEPT ![r] = "node"]
    BY <1>5 DEF Onward, Goto
  <2>2. next[r] + 1 \in DOMAIN nodes[r]
    BY <1>2, <1>5
  <2> QED
    BY <1>1, <1>3, <2>1, <2>2 DEF Onward, TypeOK
<1> QED
  BY <1>4, <1>5

\* A node that failed is one of the list.
LEMMA GiveUpFacts ==
  ASSUME IInv, NEW r \in Requests, pc[r] \in {"node", "post"}, GiveUp(r)
  PROVE  /\ errors' \in [Requests -> SUBSET Nat]
         /\ errors'[r] = errors[r] \cup {next[r]}
         /\ \A q \in Requests : q # r => errors'[q] = errors[q]
<1>1. errors \in [Requests -> SUBSET Nat] /\ next[r] \in Nat
  BY DEF IInv, TypeOK
<1>2. errors' = [errors EXCEPT ![r] = errors[r] \cup {next[r]}]
  BY DEF GiveUp
<1>3. errors[r] \cup {next[r]} \in SUBSET Nat
  BY <1>1
<1> QED
  BY <1>1, <1>2, <1>3

LEMMA AnswerFacts ==
  ASSUME IInv, NEW r \in Requests,
         answered' = [answered EXCEPT ![r] = @ \cup {next[r]}]
  PROVE  /\ answered' \in [Requests -> SUBSET Nat]
         /\ answered'[r] = answered[r] \cup {next[r]}
         /\ \A q \in Requests : q # r => answered'[q] = answered[q]
<1>1. answered \in [Requests -> SUBSET Nat] /\ next[r] \in Nat
  BY DEF IInv, TypeOK
<1>2. answered[r] \cup {next[r]} \in SUBSET Nat
  BY <1>1
<1> QED
  BY <1>1, <1>2

-----------------------------------------------------------------------------
(* The inductive invariant.                                                *)

\* A request that a step leaves alone.
LEMMA RequestFrame ==
  ASSUME IInv, NEW q \in Requests,
         pc'[q] = pc[q], direct'[q] = direct[q], nodes'[q] = nodes[q],
         next'[q] = next[q], attempt'[q] = attempt[q],
         answered'[q] = answered[q], errors'[q] = errors[q],
         status'[q] = status[q], tried'[q] = tried[q], added'[q] = added[q]
  PROVE  RequestOK(q)'
<1>1. RequestOK(q)
  BY DEF IInv
<1> QED
  BY <1>1 DEF RequestOK, Before, AtNode, ListOK, EntryOK, StatusOK

\* The turn of an entry ends: it was answered, it failed, or (in a request by
\* job) its odd answer counts nowhere.
LEMMA TurnEnds ==
  ASSUME IInv, NEW r \in Requests, pc[r] \in {"node", "post"}, Onward(r),
         nodes'[r] = nodes[r], direct'[r] = direct[r], status'[r] = status[r],
         DOMAIN tried'[r] = DOMAIN tried[r],
         \A i \in DOMAIN tried[r] : i # next[r] => tried'[r][i] = tried[r][i],
         tried'[r][next[r]] <= MaxAttempts,
         \A n \in Nodes : added[r][n] > 0 => added'[r][n] > 0,
         \/ /\ answered'[r] = answered[r] \cup {next[r]}
            /\ errors'[r] = errors[r] /\ added'[r][nodes[r][next[r]]] > 0
         \/ /\ errors'[r] = errors[r] \cup {next[r]}
            /\ answered'[r] = answered[r]
            /\ tried'[r][next[r]] \in {0, MaxAttempts}
         \/ /\ answered'[r] = answered[r] /\ errors'[r] = errors[r]
            /\ ~direct[r]
  PROVE  RequestOK(r)'
<1>1. TypeOK /\ ListOK(r) /\ StatusOK(r)
  BY DEF IInv, RequestOK
<1>2. nodes[r] \in Seq(Nodes) /\ next[r] \in 1..Len(nodes[r])
  BY NextFacts
<1>3. /\ next'[r] = next[r] + 1 /\ attempt'[r] = 0
      /\ \/ pc'[r] = "node" /\ next[r] + 1 \in DOMAIN nodes[r]
         \/ pc'[r] = "tally" /\ next[r] = Len(nodes[r])
  BY OnwardFacts
<1>4. DOMAIN nodes[r] = 1..Len(nodes[r]) /\ DOMAIN tried[r] = DOMAIN nodes[r]
  BY <1>1, <1>2 DEF ListOK
<1>5. ASSUME NEW i \in DOMAIN nodes[r]
      PROVE  EntryOK(r, i)'
  <2>1. EntryOK(r, i) /\ i \in 1..Len(nodes[r]) /\ nodes[r][i] \in Nodes
    BY <1>1, <1>2, <1>4 DEF ListOK
  <2>2. tried'[r][i] <= MaxAttempts
    BY <1>4, <2>1 DEF EntryOK
  <2>3. i > next[r] + 1 => tried'[r][i] = 0
    BY <1>2, <1>4, <2>1 DEF EntryOK
  <2>4. CASE i # next[r]
    <3>1. /\ i \in answered'[r] => i \in answered[r]
          /\ i \in errors'[r] => i \in errors[r]
          /\ i \in answered[r] => i \in answered'[r]
          /\ i \in errors[r] => i \in errors'[r]
      BY <2>4
    <3>2. i < next[r] + 1 => i < next[r]
      BY <1>2, <2>1, <2>4
    <3>3. i < next[r] => i < next[r] + 1
      BY <1>2, <2>1
    <3>4. tried'[r][i] = tried[r][i]
      BY <1>4, <2>1, <2>4
    <3> QED
      BY <1>3, <2>1, <2>2, <2>3, <3>1, <3>2, <3>3, <3>4 DEF EntryOK
  <2>5. CASE i = next[r]
    <3>1. i \notin answered[r] /\ i \notin errors[r]
      BY <1>2, <2>1, <2>5 DEF EntryOK
    <3>2. i < next[r] + 1
      BY <1>2, <2>5
    <3> QED
      BY <1>3, <2>2, <2>3, <2>5, <3>1, <3>2 DEF EntryOK
  <2> QED
    BY <2>4, <2>5
<1>6. ListOK(r)'
  BY <1>1, <1>2, <1>3, <1>4, <1>5 DEF ListOK
<1>7. AtNode(r)'
  <2>1. ASSUME pc'[r] = "node"
        PROVE  tried'[r][next[r] + 1] = 0 /\ next[r] + 1 \in DOMAIN nodes[r]
    <3>1. next[r] + 1 \in DOMAIN nodes[r] /\ next[r] + 1 > next[r]
      BY <1>2, <1>3, <2>1
    <3>2. tried[r][next[r] + 1] = 0
      BY <1>1, <3>1 DEF ListOK, EntryOK
    <3> QED
      BY <1>2, <1>4, <3>1, <3>2
  <2> QED
    BY <1>3, <2>1 DEF AtNode
<1>8. Before(r)' /\ StatusOK(r)'
  BY <1>1, <1>3 DEF Before, StatusOK
<1> QED
  BY <1>6, <1>7, <1>8 DEF RequestOK

\* The other requests are as they were.
LEMMA AllRequests ==
  ASSUME IInv, NEW r \in Requests, RequestOK(r)',
         \A q \in Requests : q # r =>
           /\ pc'[q] = pc[q] /\ direct'[q] = direct[q] /\ nodes'[q] = nodes[q]
           /\ next'[q] = next[q] /\ attempt'[q] = attempt[q]
           /\ answered'[q] = answered[q] /\ errors'[q] = errors[q]
           /\ status'[q] = status[q] /\ tried'[q] = tried[q]
           /\ added'[q] = added[q]
  PROVE  \A q \in Requests : RequestOK(q)'
BY RequestFrame

LEMMA NodeRefusedStep ==
  ASSUME IInv, NEW r \in Requests, NodeRefused(r)
  PROVE  IInv'
<1>1. TypeOK /\ RequestOK(r)
  BY DEF IInv
<1>2. /\ pc[r] = "node" /\ GiveUp(r) /\ Onward(r)
      /\ UNCHANGED <<direct, goodJob, collectors, nodes, answered, status, code,
                     tried, added>>
  BY DEF NodeRefused, GiveUp, askVars, resultVars
<1>3. TypeOK'
  BY <1>1, <1>2, OnwardFacts, GiveUpFacts DEF TypeOK
<1>4. RequestOK(r)'
  <2>1. tried[r][next[r]] = 0 /\ MaxAttempts \in Nat
    BY <1>1, <1>2, NumbersAssumption DEF RequestOK, AtNode
  <2>2. tried'[r][next[r]] <= MaxAttempts /\ tried'[r][next[r]] \in {0, MaxAttempts}
    BY <1>2, <2>1
  <2>3. errors'[r] = errors[r] \cup {next[r]}
    BY <1>2, GiveUpFacts
  <2> QED
    BY <1>2, <2>2, <2>3, TurnEnds
<1> QED
  BY <1>2, <1>3, <1>4, AllRequests, OnwardFacts, GiveUpFacts DEF IInv

LEMMA AnsweredStep ==
  ASSUME IInv, NEW r \in Requests, Answered(r) \/ AnsweredOddly(r)
  PROVE  IInv'
<1>1. TypeOK /\ RequestOK(r)
  BY DEF IInv
<1>2. /\ pc[r] = "post" /\ Sent(r) /\ Taken(r) /\ Onward(r)
      /\ UNCHANGED <<direct, goodJob, collectors, nodes, errors, status, code>>
  BY DEF Answered, AnsweredOddly, askVars, resultVars
<1>3. \/ answered' = [answered EXCEPT ![r] = @ \cup {next[r]}]
      \/ answered' = answered /\ ~direct[r]
  BY Zenon DEF Answered, AnsweredOddly
<1>4. /\ answered' \in [Requests -> SUBSET Nat]
      /\ \A q \in Requests : q # r => answered'[q] = answered[q]
      /\ answered'[r] = answered[r] \cup {next[r]}
           \/ (answered'[r] = answered[r] /\ ~direct[r])
  <2>1. CASE answered' = [answered EXCEPT ![r] = @ \cup {next[r]}]
    BY <2>1, AnswerFacts
  <2>2. CASE answered' = answered /\ ~direct[r]
    BY <1>1, <2>2 DEF TypeOK
  <2> QED
    BY <1>3, <2>1, <2>2
<1>5. TypeOK'
  BY <1>1, <1>2, <1>4, OnwardFacts, SentFacts, TakenFacts DEF TypeOK
<1>6. attempt[r] \in Nat /\ attempt[r] < MaxAttempts /\ MaxAttempts \in Nat
  BY <1>1, <1>2, NumbersAssumption DEF TypeOK, RequestOK, AtNode
<1>7. /\ DOMAIN tried'[r] = DOMAIN tried[r]
      /\ \A i \in DOMAIN tried[r] : i # next[r] => tried'[r][i] = tried[r][i]
      /\ tried'[r][next[r]] = attempt[r] + 1
  BY <1>2, SentFacts
<1>8. tried'[r][next[r]] <= MaxAttempts
  BY <1>6, <1>7
<1>9. /\ \A n \in Nodes : added[r][n] > 0 => added'[r][n] > 0
      /\ added'[r][nodes[r][next[r]]] > 0
  BY <1>2, TakenFacts
<1>10. RequestOK(r)'
  BY <1>2, <1>4, <1>7, <1>8, <1>9, TurnEnds
<1> QED
  BY <1>2, <1>4, <1>5, <1>10, AllRequests, OnwardFacts, SentFacts, TakenFacts, ZenonT(60)
  DEF IInv

LEMMA AttemptFailsStep ==
  ASSUME IInv, NEW r \in Requests, AttemptFails(r)
  PROVE  IInv'
<1>1. TypeOK /\ RequestOK(r)
  BY DEF IInv
<1>2. /\ pc[r] = "post" /\ Sent(r) /\ (Taken(r) \/ UNCHANGED added)
      /\ UNCHANGED <<direct, goodJob, collectors, nodes, answered, status, code>>
  BY DEF AttemptFails, askVars, resultVars
<1>3. attempt[r] \in Nat /\ attempt[r] < MaxAttempts /\ MaxAttempts \in Nat
  BY <1>1, <1>2, NumbersAssumption DEF TypeOK, RequestOK, AtNode
<1>4. /\ DOMAIN tried'[r] = DOMAIN tried[r]
      /\ \A i \in DOMAIN tried[r] : i # next[r] => tried'[r][i] = tried[r][i]
      /\ tried'[r][next[r]] = attempt[r] + 1
  BY <1>2, SentFacts
<1>5. \A n \in Nodes : added[r][n] > 0 => added'[r][n] > 0
  BY <1>2, TakenFacts
<1>6. CASE ~Again(r)
  <2>1. GiveUp(r) /\ Onward(r)
    BY <1>6 DEF AttemptFails, GiveUp
  <2>2. TypeOK'
    BY <1>1, <1>2, <2>1, OnwardFacts, GiveUpFacts, SentFacts, TakenFacts DEF TypeOK
  <2>3. attempt[r] + 1 = MaxAttempts
    BY <1>3, <1>6 DEF Again
  <2>4. tried'[r][next[r]] <= MaxAttempts /\ tried'[r][next[r]] \in {0, MaxAttempts}
    BY <1>3, <1>4, <2>3
  <2>5. errors'[r] = errors[r] \cup {next[r]}
    BY <1>2, <2>1, GiveUpFacts
  <2>6. RequestOK(r)'
    BY <1>2, <1>4, <1>5, <2>1, <2>4, <2>5, TurnEnds
  <2>7. \A q \in Requests : q # r =>
          /\ pc'[q] = pc[q] /\ next'[q] = next[q] /\ attempt'[q] = attempt[q]
          /\ errors'[q] = errors[q]
    BY <1>2, <2>1, OnwardFacts, GiveUpFacts
  <2>8. \A q \in Requests : q # r => tried'[q] = tried[q] /\ added'[q] = added[q]
    BY <1>2, SentFacts, TakenFacts
  <2> QED
    BY <1>2, <2>2, <2>6, <2>7, <2>8, AllRequests DEF IInv
<1>7. CASE Again(r)
  <2>1. /\ attempt' = [attempt EXCEPT ![r] = @ + 1]
        /\ pc' = [pc EXCEPT ![r] = "backoff"] /\ UNCHANGED <<next, errors>>
    BY <1>7 DEF AttemptFails, Goto
  <2>2. attempt[r] + 1 \in Nat /\ attempt[r] + 1 < MaxAttempts
    BY <1>3, <1>7 DEF Again
  <2>3. attempt' \in [Requests -> Nat] /\ attempt'[r] = attempt[r] + 1
    BY <1>1, <2>1, <2>2 DEF TypeOK
  <2>4. TypeOK'
    BY <1>1, <1>2, <2>1, <2>3, SentFacts, TakenFacts DEF TypeOK
  <2>5. pc'[r] = "backoff"
    BY <1>1, <2>1 DEF TypeOK
  <2>6. nodes[r] \in Seq(Nodes) /\ next[r] \in 1..Len(nodes[r])
    BY <1>2, NextFacts
  <2>7. ASSUME NEW i \in DOMAIN nodes[r]
        PROVE  EntryOK(r, i)'
    <3>1. EntryOK(r, i) /\ i \in DOMAIN tried[r] /\ nodes[r][i] \in Nodes
      BY <1>1, <2>6 DEF RequestOK, ListOK
    <3>2. i = next[r] => i \notin errors[r] /\ ~(i > next[r])
      BY <2>6, <3>1 DEF EntryOK
    <3>3. tried'[r][i] <= MaxAttempts
      BY <1>3, <1>4, <3>1 DEF EntryOK
    <3> QED
      BY <1>2, <1>4, <1>5, <2>1, <3>1, <3>2, <3>3 DEF EntryOK
  <2>8. ListOK(r)'
    BY <1>1, <1>2, <1>4, <2>1, <2>5, <2>7 DEF RequestOK, ListOK
  <2>9. AtNode(r)'
    BY <1>2, <1>4, <2>1, <2>2, <2>3, <2>5, <2>6 DEF AtNode
  <2>10. Before(r)' /\ StatusOK(r)'
    BY <1>1, <1>2, <2>5 DEF RequestOK, Before, StatusOK
  <2>11. RequestOK(r)'
    BY <2>8, <2>9, <2>10 DEF RequestOK
  <2>12. \A q \in Requests : q # r => pc'[q] = pc[q] /\ attempt'[q] = attempt[q]
    BY <1>1, <2>1 DEF TypeOK
  <2> QED
    BY <1>2, <2>1, <2>4, <2>11, <2>12, AllRequests, SentFacts, TakenFacts DEF IInv
<1> QED
  BY <1>6, <1>7

\* Steps that only move a request to or from an attempt.
LEMMA AttemptStep ==
  ASSUME IInv, NEW r \in Requests, NodeStart(r) \/ Backoff(r)
  PROVE  IInv'
<1>1. TypeOK /\ RequestOK(r)
  BY DEF IInv
<1>2. /\ pc[r] \in {"node", "backoff"} /\ pc' = [pc EXCEPT ![r] = "post"]
      /\ pc[r] = "node" => MaxAttempts > 0
      /\ UNCHANGED <<direct, goodJob, collectors, nodes, next, attempt, answered,
                     errors, status, code, tried, added>>
  BY DEF NodeStart, Backoff, Goto, askVars, resultVars
<1>3. TypeOK' /\ pc'[r] = "post" /\ \A q \in Requests : q # r => pc'[q] = pc[q]
  BY <1>1, <1>2 DEF TypeOK
<1>4. RequestOK(r)'
  BY <1>1, <1>2, <1>3 DEF RequestOK, Before, AtNode, ListOK, EntryOK, StatusOK
<1> QED
  BY <1>2, <1>3, <1>4, AllRequests DEF IInv

\* Up to the nodes: nothing is counted before there is a list.
LEMMA StartStep ==
  ASSUME IInv, NEW r \in Requests,
         Invalid(r) \/ LookupFails(r) \/ StartByJob(r)
  PROVE  IInv'
<1>1. TypeOK /\ RequestOK(r) /\ TypeOK'
  BY StartType DEF IInv
<1>2. /\ pc[r] \in {"idle", "script"}
      /\ UNCHANGED <<direct, nodes, next, attempt, answered, errors, tried, added>>
  BY DEF Invalid, LookupFails, StartByJob, askVars
<1>3. /\ \A q \in Requests : q # r => pc'[q] = pc[q] /\ status'[q] = status[q]
      /\ \/ pc'[r] = "over" /\ status'[r] \in {"invalid", "failed"}
         \/ pc'[r] = "script" /\ status'[r] = status[r]
  <2>1. CASE Invalid(r)
    BY <1>1, <2>1, RespondFacts DEF Invalid
  <2>2. CASE LookupFails(r)
    BY <1>1, <2>2, RespondFacts DEF LookupFails
  <2>3. CASE StartByJob(r)
    BY <1>1, <2>3 DEF StartByJob, Goto, resultVars, TypeOK
  <2> QED
    BY <2>1, <2>2, <2>3
<1>4. /\ nodes[r] = <<>> /\ tried[r] = <<>> /\ answered[r] = {} /\ errors[r] = {}
      /\ next[r] = 1 /\ attempt[r] = 0 /\ ~direct[r] /\ status[r] = "none"
  BY <1>1, <1>2 DEF RequestOK, Before, StatusOK
<1>5. RequestOK(r)'
  BY <1>2, <1>3, <1>4 DEF RequestOK, Before, AtNode, ListOK, StatusOK
<1> QED
  BY <1>1, <1>2, <1>3, <1>5, AllRequests DEF IInv

\* The list of nodes is there, and none of them has been asked.
LEMMA ListStep ==
  ASSUME IInv, NEW r \in Requests, NEW list \in Seq(Nodes), list # <<>>,
         Ask(r, list), Goto(r, "node"), pc[r] \in {"idle", "script"},
         direct'[r] => Len(list) = 1,
         \A q \in Requests : q # r => direct'[q] = direct[q],
         UNCHANGED <<next, attempt, answered, errors, status, added>>
  PROVE  \A q \in Requests : RequestOK(q)'
<1>1. TypeOK /\ RequestOK(r)
  BY DEF IInv
<1>2. /\ pc'[r] = "node" /\ nodes'[r] = list
      /\ tried'[r] = [i \in DOMAIN list |-> 0]
      /\ \A q \in Requests : q # r =>
           pc'[q] = pc[q] /\ nodes'[q] = nodes[q] /\ tried'[q] = tried[q]
  BY <1>1 DEF Ask, Goto, TypeOK
<1>3. /\ answered[r] = {} /\ errors[r] = {} /\ next[r] = 1 /\ attempt[r] = 0
      /\ status[r] = "none"
  BY <1>1 DEF RequestOK, Before, StatusOK
<1>4. /\ DOMAIN list = 1..Len(list) /\ 1 \in DOMAIN list /\ MaxAttempts \in Nat
      /\ \A i \in DOMAIN list : tried'[r][i] = 0
      /\ DOMAIN tried'[r] = DOMAIN list
  BY <1>2, NumbersAssumption
<1>5. \A i \in DOMAIN list : EntryOK(r, i)'
  BY <1>2, <1>3, <1>4 DEF EntryOK
<1>6. ListOK(r)'
  BY <1>2, <1>3, <1>4, <1>5 DEF ListOK
<1>7. AtNode(r)' /\ Before(r)' /\ StatusOK(r)'
  BY <1>2, <1>3, <1>4 DEF AtNode, Before, StatusOK
<1>8. RequestOK(r)'
  BY <1>6, <1>7 DEF RequestOK
<1> QED
  BY <1>2, <1>8, AllRequests

LEMMA ScriptPrintsStep ==
  ASSUME IInv, NEW r \in Requests, ScriptPrints(r)
  PROVE  IInv'
<1>1. TypeOK /\ RequestOK(r) /\ TypeOK'
  BY StartType DEF IInv
<1>2. /\ pc[r] = "script"
      /\ UNCHANGED <<direct, next, attempt, answered, errors, added>>
  BY DEF ScriptPrints
<1>3. PICK list \in NodeLists :
        IF list = <<>> THEN Respond(r, "failed") /\ UNCHANGED <<nodes, tried>>
                       ELSE /\ Ask(r, list) /\ Goto(r, "node")
                            /\ UNCHANGED resultVars
  BY DEF ScriptPrints
<1>4. list \in Seq(Nodes)
  BY ListsAssumption
<1>5. CASE list = <<>>
  <2>1. Respond(r, "failed") /\ UNCHANGED <<nodes, tried>>
    BY <1>3, <1>5
  <2>2. /\ pc'[r] = "over" /\ status'[r] = "failed"
        /\ \A q \in Requests : q # r => pc'[q] = pc[q] /\ status'[q] = status[q]
    BY <1>1, <2>1, RespondFacts
  <2>3. /\ nodes[r] = <<>> /\ tried[r] = <<>> /\ answered[r] = {}
        /\ errors[r] = {} /\ ~direct[r]
    BY <1>1, <1>2 DEF RequestOK, Before
  <2>4. RequestOK(r)'
    BY <1>2, <2>1, <2>2, <2>3 DEF RequestOK, Before, AtNode, ListOK, StatusOK
  <2> QED
    BY <1>1, <1>2, <2>1, <2>2, <2>4, AllRequests DEF IInv
<1>6. CASE list # <<>>
  <2>1. Ask(r, list) /\ Goto(r, "node") /\ UNCHANGED status
    BY <1>3, <1>6 DEF resultVars
  <2>2. ~direct[r]
    BY <1>1, <1>2 DEF RequestOK, Before
  <2> QED
    BY <1>1, <1>2, <1>4, <1>6, <2>1, <2>2, ListStep DEF IInv
<1> QED
  BY <1>5, <1>6

LEMMA StartDirectStep ==
  ASSUME IInv, NEW r \in Requests, StartDirect(r)
  PROVE  IInv'
<1>1. TypeOK /\ TypeOK'
  BY StartType DEF IInv
<1>2. PICK n \in Nodes : Ask(r, <<n>>)
  BY DEF StartDirect
<1>3. /\ pc[r] = "idle" /\ Goto(r, "node")
      /\ UNCHANGED <<next, attempt, answered, errors, status, added>>
  BY DEF StartDirect, resultVars
<1>4. \A q \in Requests : q # r => direct'[q] = direct[q]
  BY <1>1 DEF StartDirect, TypeOK
<1>5. <<n>> \in Seq(Nodes) /\ <<n>> # <<>> /\ Len(<<n>>) = 1
  OBVIOUS
<1> QED
  BY <1>1, <1>2, <1>3, <1>4, <1>5, ListStep DEF IInv

\* Adding up: by now every entry has had its turn.
LEMMA TallyStep ==
  ASSUME IInv, NEW r \in Requests, Tally(r)
  PROVE  IInv'
<1>1. TypeOK /\ RequestOK(r) /\ TypeOK'
  BY StartType DEF IInv
<1>2. /\ pc[r] = "tally"
      /\ UNCHANGED <<direct, nodes, next, attempt, answered, errors, tried, added>>
  BY DEF Tally, askVars
<1>3. /\ nodes[r] # <<>> /\ next[r] = Len(nodes[r]) + 1 /\ nodes[r] \in Seq(Nodes)
  BY <1>1, <1>2 DEF TypeOK, RequestOK, ListOK
<1>4. PICK s \in {"success", "partial_success", "failed", "invalid"} :
        /\ Respond(r, s)
        /\ s = "success" => answered[r] = DOMAIN nodes[r]
        /\ s = "failed" => answered[r] = {}
  <2>1. CASE direct[r]
    <3>1. Respond(r, IF errors[r] = {} THEN "success" ELSE "failed")
      BY <2>1, Zenon DEF Tally
    <3>2. /\ DOMAIN nodes[r] = {1} /\ next[r] = 2
          /\ answered[r] \subseteq {1} /\ errors[r] \subseteq {1}
      <4>1. Len(nodes[r]) = 1
        BY <1>1, <2>1 DEF RequestOK, ListOK
      <4>2. DOMAIN nodes[r] = 1..1
        BY <1>3, <4>1
      <4>3. DOMAIN nodes[r] = {1} /\ next[r] = 2
        BY <1>3, <4>1, <4>2
      <4> QED
        BY <1>1, <4>3 DEF RequestOK, ListOK
    <3>3. 1 \in answered[r] \cup errors[r] /\ ~(1 \in answered[r] /\ 1 \in errors[r])
      BY <1>1, <2>1, <3>2 DEF RequestOK, ListOK, EntryOK
    <3>4. /\ errors[r] = {} => answered[r] = {1}
          /\ errors[r] # {} => answered[r] = {}
      BY <3>2, <3>3
    <3>5. CASE errors[r] = {}
      BY <3>1, <3>2, <3>4, <3>5
    <3>6. CASE errors[r] # {}
      BY <3>1, <3>2, <3>4, <3>6
    <3> QED
      BY <3>5, <3>6
  <2>2. CASE ~direct[r]
    <3>1. Respond(r, Verdict(r))
      BY <2>2, Zenon DEF Tally
    <3>2. /\ Verdict(r) \in {"success", "partial_success", "failed"}
          /\ Verdict(r) = "success" => answered[r] = DOMAIN nodes[r]
          /\ Verdict(r) = "failed" => answered[r] = {}
      BY <1>1, VerdictMeans DEF RequestOK
    <3> QED
      BY <3>1, <3>2
  <2> QED
    BY <2>1, <2>2
<1>5. /\ pc'[r] = "over" /\ status'[r] = s
      /\ \A q \in Requests : q # r => pc'[q] = pc[q] /\ status'[q] = status[q]
  BY <1>1, <1>4, RespondFacts
<1>6. RequestOK(r)'
  BY <1>1, <1>2, <1>3, <1>4, <1>5
  DEF RequestOK, Before, AtNode, ListOK, EntryOK, StatusOK
<1> QED
  BY <1>1, <1>2, <1>5, <1>6, AllRequests DEF IInv

LEMMA StepInv == IInv /\ [Next]_vars => IInv'
<1> SUFFICES ASSUME IInv, [Next]_vars PROVE IInv'
  OBVIOUS
<1>1. CASE Terminated \/ UNCHANGED vars
  <2>1. UNCHANGED vars
    BY <1>1 DEF Terminated
  <2>2. \A r \in Requests : RequestOK(r)'
    BY <2>1, RequestFrame DEF vars
  <2> QED
    BY <2>1, <2>2 DEF IInv, TypeOK, vars
<1>2. ASSUME NEW r \in Requests, Step(r)
      PROVE  IInv'
  BY <1>2, StartStep, ScriptPrintsStep, StartDirectStep, NodeRefusedStep,
     AttemptStep, AnsweredStep, AttemptFailsStep, TallyStep DEF Step
<1> QED
  BY <1>1, <1>2 DEF Next

-----------------------------------------------------------------------------
(* The theorems.                                                           *)

\* Along every run an entry of the node list has a result exactly when its
\* turn is over, the attempts made are the requests sent, and a status is
\* given when everything is counted (TriggerCollection and its loops).
THEOREM CollectionInvariant == Spec => []IInv
<1>1. Init => IInv
  BY InitInv
<1>2. IInv /\ [Next]_vars => IInv'
  BY StepInv
<1> QED
  BY <1>1, <1>2, PTL DEF Spec

\* Every variable stays in its type.
THEOREM TypeCorrect == Spec => []TypeOK
<1>1. IInv => TypeOK
  BY DEF IInv
<1> QED
  BY <1>1, CollectionInvariant, PTL

\* "success" means that every node's agent took the job, "failed" that none
\* was heard to take it, for every list of nodes and number of collectors
\* (the status of TriggerCollection and TriggerDirectCollection).
THEOREM AlwaysStatusMeansWhatItSays == Spec => []StatusMeansWhatItSays
<1>1. ASSUME IInv
      PROVE  StatusMeansWhatItSays
  <2>1. ASSUME NEW r \in Requests, status[r] = "success"
        PROVE  /\ nodes[r] # <<>>
               /\ \A n \in AskedOf(r) : added[r][n] > 0
    <3>1. /\ nodes[r] # <<>> /\ answered[r] = DOMAIN nodes[r]
          /\ \A i \in DOMAIN nodes[r] : EntryOK(r, i)
      BY <1>1, <2>1 DEF IInv, RequestOK, StatusOK, ListOK
    <3> QED
      BY <3>1 DEF AskedOf, EntryOK
  <2>2. ASSUME NEW r \in Requests, status[r] = "failed"
        PROVE  answered[r] = {}
    BY <1>1, <2>2 DEF IInv, RequestOK, StatusOK
  <2> QED
    BY <2>1, <2>2 DEF StatusMeansWhatItSays
<1> QED
  BY <1>1, CollectionInvariant, PTL

\* No entry gets more than MaxAttempts requests, a failed one has had them all
\* or none, and none is asked before its turn or after its answer
\* (TriggerAgentCollection and the loop over the nodes).
THEOREM AlwaysAttemptsSpent == Spec => []AttemptsSpent
<1>1. IInv => AttemptsSpent
  BY DEF IInv, RequestOK, ListOK, EntryOK, AttemptsSpent
<1> QED
  BY <1>1, CollectionInvariant, PTL
=============================================================================

------------------------------ MODULE Collection -----------------------------
(***************************************************************************)
(* POST /collect and POST /collect/direct: the nodes of a job are taken    *)
(* from the cluster's script or from the request, and the agent of each    *)
(* node in turn is asked to add the job, with retries and a growing delay. *)
(* Requests run side by side and share nothing but the agents.             *)
(*                                                                         *)
(* The agents are outside TAP: what is modelled is that an agent may take  *)
(* the job and yet not be heard (a lost answer, an answer that is no JSON).*)
(* A node's base URL always resolves (GetNodeURLWithFallback returns the   *)
(* default one when the registry does not help), so it is left out.        *)
(***************************************************************************)
EXTENDS Integers, Sequences, FiniteSets

CONSTANTS
  Requests,    \* the requests that are made
  Nodes,
  NodeLists,   \* node lists a script may print, sequences of nodes
  Collectors,  \* how many collectors a request may name
  MaxAttempts  \* TAP_AGENT_RETRY_MAX_ATTEMPTS

ASSUME ListsAssumption == NodeLists \subseteq Seq(Nodes)
ASSUME NumbersAssumption == Collectors \subseteq Nat /\ MaxAttempts \in Nat

VARIABLES
  pc,
  direct,     \* the request is a POST /collect/direct
  goodJob,    \* its job id parses
  collectors, \* number of collectors asked for
  nodes,      \* nodeList
  next,       \* index of the node being asked
  attempt,    \* attempts made at that node
  answered,   \* agentResponses, as indices into nodes
  errors,     \* indices of the nodes whose request failed
  status, code,
  tried,      \* history: requests sent, by request and index
  added       \* the agents: times a node took the job, by request

vars == <<pc, direct, goodJob, collectors, nodes, next, attempt, answered, errors,
          status, code, tried, added>>
resultVars == <<status, code>>
askVars == <<direct, goodJob, collectors, nodes>>

TypeOK ==
  /\ pc \in [Requests -> {"idle", "script", "node", "post", "backoff",
                          "tally", "over"}]
  /\ direct \in [Requests -> BOOLEAN] /\ goodJob \in [Requests -> BOOLEAN]
  /\ collectors \in [Requests -> Nat]
  /\ nodes \in [Requests -> Seq(Nodes)]
  /\ next \in [Requests -> Nat \ {0}] /\ attempt \in [Requests -> Nat]
  /\ status \in [Requests -> {"none", "success", "partial_success",
                              "failed", "invalid"}]
  /\ code \in [Requests -> {0, 200, 207, 400}]
  /\ answered \in [Requests -> SUBSET Nat] /\ errors \in [Requests -> SUBSET Nat]
  /\ tried \in [Requests -> Seq(Nat)]
  /\ added \in [Requests -> [Nodes -> Nat]]

Init ==
  /\ pc = [r \in Requests |-> "idle"]
  /\ direct = [r \in Requests |-> FALSE]
  /\ goodJob \in [Requests -> BOOLEAN]
  /\ collectors = [r \in Requests |-> 0]
  /\ nodes = [r \in Requests |-> <<>>]
  /\ next = [r \in Requests |-> 1] /\ attempt = [r \in Requests |-> 0]
  /\ answered = [r \in Requests |-> {}] /\ errors = [r \in Requests |-> {}]
  /\ status = [r \in Requests |-> "none"] /\ code = [r \in Requests |-> 0]
  /\ tried = [r \in Requests |-> <<>>]
  /\ added = [r \in Requests |-> [n \in Nodes |-> 0]]

Goto(r, l) == pc' = [pc EXCEPT ![r] = l]
\* The handlers answer 207 to everything but a success.
Respond(r, s) ==
  /\ Goto(r, "over")
  /\ status' = [status EXCEPT ![r] = s]
  /\ code' = [code EXCEPT ![r] = CASE s = "success" -> 200
                                   [] s = "invalid" -> 400
                                   [] OTHER -> 207]

-----------------------------------------------------------------------------
(* Up to the nodes.                                                        *)

\* The body does not bind, or a condor job has no slot.
Invalid(r) ==
  /\ pc[r] = "idle" /\ Respond(r, "invalid")
  /\ UNCHANGED <<askVars, next, attempt, answered, errors, tried, added>>

\* The cluster is unknown, or the script fails or prints an error.
LookupFails(r) ==
  /\ pc[r] \in {"idle", "script"} /\ Respond(r, "failed")
  /\ UNCHANGED <<askVars, next, attempt, answered, errors, tried, added>>

StartByJob(r) ==
  /\ pc[r] = "idle" /\ Goto(r, "script")
  /\ \E c \in Collectors : collectors' = [collectors EXCEPT ![r] = c]
  /\ UNCHANGED <<direct, goodJob, nodes, next, attempt, answered, errors, resultVars,
                 tried, added>>

Ask(r, list) == /\ nodes' = [nodes EXCEPT ![r] = list]
                /\ tried' = [tried EXCEPT ![r] = [i \in DOMAIN list |-> 0]]

ScriptPrints(r) ==
  /\ pc[r] = "script"
  /\ \E list \in NodeLists :
       IF list = <<>> THEN Respond(r, "failed") /\ UNCHANGED <<nodes, tried>>
                      ELSE /\ Ask(r, list) /\ Goto(r, "node")
                           /\ UNCHANGED resultVars
  /\ UNCHANGED <<direct, goodJob, collectors, next, attempt, answered, errors, added>>

StartDirect(r) ==
  /\ pc[r] = "idle" /\ Goto(r, "node")
  /\ direct' = [direct EXCEPT ![r] = TRUE]
  /\ \E c \in Collectors : collectors' = [collectors EXCEPT ![r] = c]
  /\ \E n \in Nodes : Ask(r, <<n>>)
  /\ UNCHANGED <<goodJob, next, attempt, answered, errors, resultVars, added>>

-----------------------------------------------------------------------------
(* TriggerAgentCollection for one node, and the loop over the nodes.       *)

\* The loop goes on with the next node, or adds up.
Onward(r) == /\ attempt' = [attempt EXCEPT ![r] = 0]
             /\ next' = [next EXCEPT ![r] = @ + 1]
             /\ Goto(r, IF next[r] = Len(nodes[r]) THEN "tally" ELSE "node")
GiveUp(r) == /\ errors' = [errors EXCEPT ![r] = @ \cup {next[r]}]
             /\ Onward(r)

\* MUTANT of NodeRefused: the loop goes on before it has moved to the next node.
NodeRefusedAgain(r) ==
  /\ pc[r] = "node" /\ ~(goodJob[r] /\ MaxAttempts > 0)
  /\ errors' = [errors EXCEPT ![r] = @ \cup {next[r]}]
  /\ UNCHANGED <<pc, next, attempt, askVars, answered, resultVars, tried, added>>

\* The job id does not parse, or nothing may be attempted: nothing is sent.
NodeRefused(r) ==
  /\ pc[r] = "node" /\ ~(goodJob[r] /\ MaxAttempts > 0) /\ GiveUp(r)
  /\ UNCHANGED <<askVars, answered, resultVars, tried, added>>

NodeStart(r) ==
  /\ pc[r] = "node" /\ goodJob[r] /\ MaxAttempts > 0 /\ Goto(r, "post")
  /\ UNCHANGED <<askVars, next, attempt, answered, errors, resultVars, tried,
                 added>>

Sent(r) == tried' = [tried EXCEPT ![r][next[r]] = @ + 1]
Taken(r) == added' = [added EXCEPT ![r][nodes[r][next[r]]] = @ + 1]

\* A 200 with a JSON object; the first one ends the attempts.
Answered(r) ==
  /\ pc[r] = "post" /\ Sent(r) /\ Taken(r)
  /\ answered' = [answered EXCEPT ![r] = @ \cup {next[r]}]
  /\ Onward(r)
  /\ UNCHANGED <<askVars, errors, resultVars>>

\* A 200 with JSON that is no object ends them too; TriggerCollection counts
\* it nowhere, TriggerDirectCollection as any other answer.
AnsweredOddly(r) ==
  /\ pc[r] = "post" /\ Sent(r) /\ Taken(r)
  /\ answered' = IF direct[r] THEN [answered EXCEPT ![r] = @ \cup {next[r]}]
                              ELSE answered
  /\ Onward(r)
  /\ UNCHANGED <<askVars, errors, resultVars>>

\* MUTANT of Again: one attempt too many.
AgainOnce(r) == attempt[r] + 1 <= MaxAttempts

Again(r) == attempt[r] + 1 < MaxAttempts

\* No answer, another status, or a body that does not parse; the agent may
\* have taken the job all the same.
AttemptFails(r) ==
  /\ pc[r] = "post" /\ Sent(r)
  /\ Taken(r) \/ UNCHANGED added
  /\ IF Again(r)
     THEN /\ attempt' = [attempt EXCEPT ![r] = @ + 1] /\ Goto(r, "backoff")
          /\ UNCHANGED <<next, errors>>
     ELSE GiveUp(r)
  /\ UNCHANGED <<askVars, answered, resultVars>>

Backoff(r) ==
  /\ pc[r] = "backoff" /\ Goto(r, "post")
  /\ UNCHANGED <<askVars, next, attempt, answered, errors, resultVars, tried,
                 added>>

\* MUTANT of Verdict: any answer makes a success.
VerdictAny(r) == IF answered[r] # {} THEN "success" ELSE "failed"

\* One call is made per node, but a success is one answer per node and
\* collector.
Verdict(r) ==
  LET n == Cardinality(answered[r])
      total == Len(nodes[r]) * collectors[r]
  IN CASE n = total /\ total > 0 -> "success"
       [] n > 0 /\ ~(n = total /\ total > 0) -> "partial_success"
       [] n = 0 -> "failed"

Tally(r) ==
  /\ pc[r] = "tally"
  /\ IF direct[r] THEN Respond(r, IF errors[r] = {} THEN "success" ELSE "failed")
                  ELSE Respond(r, Verdict(r))
  /\ UNCHANGED <<askVars, next, attempt, answered, errors, tried, added>>

Terminated == (\A r \in Requests : pc[r] = "over") /\ UNCHANGED vars

Step(r) ==
  \/ Invalid(r) \/ LookupFails(r) \/ StartByJob(r) \/ ScriptPrints(r)
  \/ StartDirect(r) \/ NodeRefused(r) \/ NodeStart(r) \/ Answered(r)
  \/ AnsweredOddly(r) \/ AttemptFails(r) \/ Backoff(r) \/ Tally(r)

Next == Terminated \/ \E r \in Requests : Step(r)

Spec == Init /\ [][Next]_vars
\* A request to an agent ends, by the client's timeout; a script runs without
\* a timeout and without the request's context and may never end.
FairSpec == Spec /\ \A r \in Requests : WF_vars(pc[r] # "script" /\ Step(r))

-----------------------------------------------------------------------------
(* What a caller may conclude from the answer.                             *)

AskedOf(r) == {nodes[r][i] : i \in DOMAIN nodes[r]}

\* "success" means that the agent of every node has taken the job, whatever
\* was retried on the way; and "failed" that none was heard to take it.
StatusMeansWhatItSays ==
  \A r \in Requests :
    /\ status[r] = "success" =>
         /\ nodes[r] # <<>>
         /\ \A n \in AskedOf(r) : added[r][n] > 0
    /\ status[r] = "failed" => answered[r] = {}

\* A node whose answer was counted is asked no more, a node that failed has
\* had all its attempts (or none, for a job id that does not parse), and nobody
\* is sent more than MaxAttempts requests for one entry of the list.
AttemptsSpent ==
  \A r \in Requests : \A i \in DOMAIN tried[r] :
    /\ tried[r][i] <= MaxAttempts
    /\ i \in errors[r] => tried[r][i] \in {0, MaxAttempts}
    /\ i \in errors[r] => i \notin answered[r]
    /\ i > next[r] => tried[r][i] = 0

\* Every request is answered, however its agents behave and whatever its job
\* id is, unless the script it waits for never ends.
EveryRequestAnswered ==
  \A r \in Requests : <>(pc[r] = "over") \/ <>[](pc[r] = "script")

\* "`success` (all succeeded)" (API.md): if the agent of every node has
\* answered, the status is success.
AllAnsweredIsSuccess ==
  \A r \in Requests :
    pc[r] = "over" /\ nodes[r] # <<>> /\ answered[r] = DOMAIN nodes[r] =>
      status[r] = "success"

-----------------------------------------------------------------------------
(* The inductive invariant behind these.                                   *)

\* Nothing is known of the nodes before a list of them is.
Before(r) == pc[r] \in {"idle", "script"} =>
  /\ nodes[r] = <<>> /\ tried[r] = <<>> /\ answered[r] = {} /\ errors[r] = {}
  /\ next[r] = 1 /\ attempt[r] = 0 /\ ~direct[r]

\* The node being asked: the attempts made are those that were sent.
AtNode(r) ==
  /\ pc[r] \in {"node", "post", "backoff"} =>
       next[r] \in DOMAIN nodes[r] /\ tried[r][next[r]] = attempt[r]
  /\ pc[r] = "node" => attempt[r] = 0
  /\ pc[r] \in {"post", "backoff"} => attempt[r] < MaxAttempts

\* What is known of an entry of the list: its result if its turn has passed.
EntryOK(r, i) ==
  /\ i \in answered[r] => i < next[r] /\ added[r][nodes[r][i]] > 0
  /\ i \in errors[r] => i < next[r] /\ i \notin answered[r]
                        /\ tried[r][i] \in {0, MaxAttempts}
  /\ tried[r][i] <= MaxAttempts
  /\ i > next[r] => tried[r][i] = 0
  /\ direct[r] /\ i < next[r] => i \in answered[r] \cup errors[r]

ListOK(r) ==
  /\ DOMAIN tried[r] = DOMAIN nodes[r]
  /\ answered[r] \subseteq DOMAIN nodes[r] /\ errors[r] \subseteq DOMAIN nodes[r]
  /\ \A i \in DOMAIN nodes[r] : EntryOK(r, i)
  /\ direct[r] => Len(nodes[r]) = 1
  /\ pc[r] = "tally" => nodes[r] # <<>> /\ next[r] = Len(nodes[r]) + 1

\* The status is given at the end, and by then everything is counted.
StatusOK(r) ==
  /\ pc[r] # "over" => status[r] = "none"
  /\ status[r] = "success" =>
       nodes[r] # <<>> /\ answered[r] = DOMAIN nodes[r]
  /\ status[r] = "failed" => answered[r] = {}

RequestOK(r) == Before(r) /\ AtNode(r) /\ ListOK(r) /\ StatusOK(r)
IInv == TypeOK /\ \A r \in Requests : RequestOK(r)
=============================================================================

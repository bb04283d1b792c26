---------------------------- MODULE AtomicRegister ---------------------------
(***************************************************************************)
(* What the registry promises a request that asks for the global aliases,  *)
(* without maps and locks: there is one current answer at any time, a      *)
(* reload replaces it in one step, and a call gets the one that is current *)
(* at some moment between its beginning and its end.  So a call that       *)
(* begins when another has returned gets nothing older than that one did.  *)
(***************************************************************************)
CONSTANTS Readers, Values

VARIABLES
  current, \* the answer
  phase,   \* of each reader: "idle", "called" or "answered"
  answer   \* what it was given

registerVars == <<current, phase, answer>>

Init ==
  /\ current \in Values /\ phase = [t \in Readers |-> "idle"]
  /\ answer = [t \in Readers |-> {}]

Replace == current' \in Values /\ UNCHANGED <<phase, answer>>

Call(t) ==
  /\ phase[t] = "idle" /\ phase' = [phase EXCEPT ![t] = "called"]
  /\ UNCHANGED <<current, answer>>

Answer(t) ==
  /\ phase[t] = "called" /\ phase' = [phase EXCEPT ![t] = "answered"]
  /\ answer' = [answer EXCEPT ![t] = current]
  /\ UNCHANGED current

Return(t) ==
  /\ phase[t] = "answered" /\ phase' = [phase EXCEPT ![t] = "idle"]
  /\ answer' = [answer EXCEPT ![t] = {}]
  /\ UNCHANGED current

Next == Replace \/ \E t \in Readers : Call(t) \/ Answer(t) \/ Return(t)
Spec == Init /\ [][Next]_registerVars
=============================================================================

---------------------------- MODULE CallContract ----------------------------
(***************************************************************************)
(* What the SDK promises about one service call, without requests, tokens, *)
(* retries or timeouts: how often the provider may change, and what the    *)
(* audit event may then say.                                               *)
(***************************************************************************)
EXTENDS Naturals

CONSTANTS Calls, Writes

VARIABLES
  kind,      \* "once": never submitted twice, "keyed", or "many"
  target,    \* the provider-side write a call asks for
  verdict,   \* what has been told about the call
  effects    \* how many times each write has been performed

contractVars == <<kind, target, verdict, effects>>

Verdicts == {"succeeded", "failed", "unknown", "silent"}

Init ==
  /\ kind \in [Calls -> {"once", "keyed", "many"}]
  /\ target \in [Calls -> Writes]
  /\ \A c, d \in Calls :
       c # d /\ target[c] = target[d] => kind[c] = "keyed" /\ kind[d] = "keyed"
  /\ verdict = [c \in Calls |-> "none"]
  /\ effects = [w \in Writes |-> 0]

Open(c) ==
  /\ verdict[c] = "none"
  /\ verdict' = [verdict EXCEPT ![c] = "open"]
  /\ UNCHANGED <<kind, target, effects>>

\* The provider acts, perhaps long after the caller was told "unknown", but
\* never once an unrepeatable call was told "failed" or nothing at all.
Act(c) ==
  /\ verdict[c] # "none"
  /\ kind[c] # "many" => effects[target[c]] = 0
  /\ kind[c] = "once" => verdict[c] \notin {"failed", "silent"}
  /\ effects' = [effects EXCEPT ![target[c]] = @ + 1]
  /\ UNCHANGED <<kind, target, verdict>>

Close(c, v) ==
  /\ verdict[c] \in {"none", "open"}
  /\ v = "succeeded" => effects[target[c]] > 0
  /\ kind[c] = "once" /\ v \in {"failed", "silent"} => effects[target[c]] = 0
  /\ verdict' = [verdict EXCEPT ![c] = v]
  /\ UNCHANGED <<kind, target, effects>>

Next == \E c \in Calls : Open(c) \/ Act(c) \/ \E v \in Verdicts : Close(c, v)

\* A call that was opened is closed.
Spec ==
  /\ Init /\ [][Next]_contractVars
  /\ \A c \in Calls :
       WF_contractVars(verdict[c] = "open" /\ \E v \in Verdicts : Close(c, v))

=============================================================================

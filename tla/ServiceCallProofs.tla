------------------------- MODULE ServiceCallProofs -------------------------
(***************************************************************************)
(* Theorems about ServiceCall for any calls, keys, statuses, token errors  *)
(* and number of attempts: the invariant of the engine survives the second *)
(* execution after a 401, what is written to the audit trail is true of    *)
(* the copies, and every step implements CallContract.                     *)
(***************************************************************************)
EXTENDS ServiceCall, RequestEngineProofs, FiniteSetTheorems

\* The control of the layers around the engine.
StageInv ==
  \A c \in Calls :
    /\ facade[c] = "plain" => options[c].safety = "read_only"
    /\ stage[c] = "idle" => pc[c] = "idle" /\ copies[c] = <<>>
    /\ stage[c] # "done" => audit[c] = <<>> /\ outcome[c] = "none"
    /\ stage[c] = "recovering" => pc[c] = "raised"
    /\ stage[c] \in {"recovering", "replay"} => ~Unrepeatable(c)

\* What the executions may have sent, the second one after a whole first one.
BudgetInv ==
  \A c \in Calls :
    /\ stage[c] \notin {"replay", "done"} => Len(copies[c]) <= Attempted(c)
    /\ stage[c] = "replay" => Len(copies[c]) <= MaxAttempts + Attempted(c)
    /\ stage[c] = "done" => Len(copies[c]) <= 2 * MaxAttempts

Trails == {<<>>, <<"succeeded">>, <<"failed">>, <<"unknown">>}

\* One event at most, and success only for what was performed.
TrailInv ==
  \A c \in Calls :
    /\ audit[c] \in Trails
    /\ audit[c] = <<"succeeded">> => Acted(c)
    /\ /\ stage[c] = "done" /\ copies[c] # <<>> /\ outcome[c] # "exception"
       /\ facade[c] # "plain"
       => /\ audit[c] # <<>>
          /\ outcome[c] = "response" => audit[c] = <<"succeeded">>

\* An execution raises an SDK error.
RaisedInv ==
  \A c \in Calls : pc[c] = "raised" => result[c].type \in ErrorTypes

Ends == ErrorTypes \cup {"none", "response", "exception"}

LayersTyped ==
  /\ facade \in [Calls -> Facades]
  /\ stage \in [Calls -> Stages]
  /\ audit \in [Calls -> Trails]
  /\ outcome \in [Calls -> Ends]

CallInv ==
  /\ IInv /\ ActedInv /\ RaisedInv
  /\ LayersTyped /\ StageInv /\ BudgetInv /\ TrailInv
  /\ UncertaintyIsAudited /\ GatewayAuditMatchesCaller

-----------------------------------------------------------------------------
(* What ends a call, and what is then true of the events it leaves.        *)

\* The event and the result that a call ends with tell what happened to it.
Tells(c, events, end) ==
  /\ events \in Trails /\ end \in Ends
  /\ Unrepeatable(c) /\ MayBeApplied(c) =>
       events \in {<<"succeeded">>, <<"unknown">>}
  /\ facade[c] = "gateway" => (events = <<"succeeded">> <=> end = "response")
  /\ events = <<"succeeded">> => Acted(c)
  /\ copies[c] # <<>> /\ end # "exception" /\ facade[c] # "plain" =>
       /\ events # <<>>
       /\ end = "response" => events = <<"succeeded">>

EndsTruly(c) ==
  \E events \in Trails, end \in Ends :
    End(c, events, end) /\ Tells(c, events, end)

Ending(c) ==
  \/ RejectInput(c) \/ TokenUnavailable(c) \/ ClientClosed(c)
  \/ Responded(c) \/ Failed(c) \/ GiveUp(c) \/ RecoveryFails(c)

\* The outcome of an SDK error is one of the two that are not a success.
LEMMA OutcomeOfError ==
  ASSUME NEW error
  PROVE  AuditOutcome(error) \in {"failed", "unknown"}
  BY DEF AuditOutcome

\* Different events are different trails.
LEMMA TrailsDiffer ==
  /\ \A x, y : <<x>> = <<y>> => x = y
  /\ \A x : <<x>> # <<>>
  OBVIOUS

\* Every trail is a sequence of outcomes, as the type invariant says.
LEMMA TrailsAreSequences ==
  Trails \subseteq Seq(AuditOutcomes) /\ \A t \in Trails : Len(t) <= 1
  <1>1. \A x \in AuditOutcomes : <<x>> \in Seq(AuditOutcomes) /\ Len(<<x>>) = 1
    OBVIOUS
  <1>2. {"succeeded", "failed", "unknown"} \subseteq AuditOutcomes
    BY DEF AuditOutcomes
  <1> QED BY <1>1, <1>2, EmptySeq DEF Trails

\* An SDK error tells the truth if it does not call an open write failed.
LEMMA ErrorTells ==
  ASSUME NEW c \in Calls, NEW error \in ErrorTypes, EndWithError(c, error),
         StageInv,
         Unrepeatable(c) /\ MayBeApplied(c) => AuditOutcome(error) = "unknown"
  PROVE  EndsTruly(c)
  <1> DEFINE told == AuditOutcome(error)
             events == Event(c, told)
  <1>1. told \in {"failed", "unknown"}
    BY OutcomeOfError
  <1>2. events \in Trails /\ events # <<"succeeded">>
    BY <1>1, TrailsDiffer DEF Event, Trails
  <1>3. error # "response" /\ error \in Ends
    BY DEF Ends, ErrorTypes
  <1>4. Unrepeatable(c) => facade[c] # "plain"
    BY DEF StageInv, Unrepeatable
  <1>5. facade[c] # "plain" => events = <<told>>
    BY DEF Event
  <1>6. Tells(c, events, error)
    <2> HIDE DEF events, told
    <2> QED BY <1>2, <1>3, <1>4, <1>5, TrailsDiffer DEF Tells, told
  <1> QED BY <1>2, <1>3, <1>6 DEF EndWithError, EndsTruly

\* An exception without an event needs that nothing is open.
LEMMA SilenceTells ==
  ASSUME NEW c \in Calls, NEW end \in ErrorTypes \cup {"exception"},
         End(c, <<>>, end), Unrepeatable(c) => ~MayBeApplied(c),
         end = "exception" \/ copies[c] = <<>>
  PROVE  EndsTruly(c)
  <1>1. Tells(c, <<>>, end)
    BY TrailsDiffer DEF Tells, Trails, Ends, ErrorTypes
  <1> QED BY <1>1 DEF EndsTruly, Tells

\* Nothing that a call has not sent, and nothing that was refused, is open.
LEMMA NothingOpen ==
  ASSUME NEW c \in Calls,
         copies[c] = <<>> \/ \A n \in DOMAIN copies[c] : copies[c][n] = "refused"
  PROVE  ~MayBeApplied(c)
  <1>1. DOMAIN <<>> = {}
    BY EmptySeq, LenProperties
  <1> QED BY <1>1 DEF MayBeApplied

\* Whatever ends a call leaves a true account of it, at the first end.
LEMMA EndingTells ==
  ASSUME CallInv, NEW c \in Calls, Ending(c)
  PROVE  stage[c] # "done" /\ EndsTruly(c)
  <1> USE DEF CallInv
  <1>1. stage[c] # "done"
    BY DEF Ending, RejectInput, TokenUnavailable, ClientClosed, Responded,
           Failed, GiveUp, RecoveryFails, Executing
  <1> SUFFICES EndsTruly(c)
    BY <1>1
  <1>2. "Validation" \in ErrorTypes /\ "Response" \in ErrorTypes
        /\ "Authentication" \in ErrorTypes
    BY DEF ErrorTypes
  <1>3. ASSUME stage[c] = "idle" PROVE ~MayBeApplied(c)
    BY <1>3, NothingOpen DEF StageInv
  <1>4. ASSUME TokenRaises(c), ~MayBeApplied(c) \/ ~Unrepeatable(c)
        PROVE  EndsTruly(c)
    <2>1. CASE \E error \in TokenErrors : EndWithError(c, error)
      BY <1>4, <2>1, ErrorTells, AuthenticatorAssumption
    <2>2. CASE EndWithException(c)
      BY <1>4, <2>2, SilenceTells DEF EndWithException
    <2> QED BY <1>4, <2>1, <2>2 DEF TokenRaises
  <1>5. CASE RejectInput(c)
    BY <1>2, <1>3, <1>5, SilenceTells DEF RejectInput, StageInv
  <1>6. CASE TokenUnavailable(c)
    BY <1>3, <1>4, <1>6 DEF TokenUnavailable
  <1>7. CASE ClientClosed(c)
    <2>1. Unrepeatable(c) => Len(copies[c]) = 0
      BY <1>7 DEF ClientClosed, IInv, SentInv
    <2>2. Unrepeatable(c) => copies[c] = <<>>
      BY <2>1, EmptySeq DEF IInv, TypeOK
    <2> QED BY <1>7, <2>2, NothingOpen, SilenceTells
            DEF ClientClosed, EndWithException
  <1>8. CASE Responded(c)
    <2>1. Acted(c)
      BY <1>8 DEF Responded, ActedInv, ResponseMeansApplied, Acted
    <2> DEFINE events == Event(c, "succeeded")
    <2>2. facade[c] # "plain" => events = <<"succeeded">>
      BY DEF Event
    <2>3. events \in Trails /\ (events = <<>> => facade[c] = "plain")
      BY TrailsDiffer DEF Event, Trails
    <2>4. Unrepeatable(c) => facade[c] # "plain"
      BY DEF StageInv, Unrepeatable
    <2>5. ASSUME NEW end \in {"response", "Response"},
                 end = "Response" => facade[c] # "gateway"
          PROVE  Tells(c, events, end)
      <3>1. end \in Ends
        BY <1>2 DEF Ends
      <3> HIDE DEF events
      <3> QED BY <2>1, <2>2, <2>3, <2>4, <2>5, <3>1 DEF Tells
    <2>6. CASE EndWithError(c, "Response")
      BY <1>2, <2>6, ErrorTells DEF AuditOutcome
    <2>7. CASE End(c, events, "response")
      BY <2>5, <2>7 DEF EndsTruly, Tells
    <2>8. CASE facade[c] # "gateway" /\ End(c, events, "Response")
      BY <2>5, <2>8 DEF EndsTruly, Tells
    <2> QED BY <1>8, <2>6, <2>7, <2>8 DEF Responded, EndWithResponse
  <1>9. ASSUME pc[c] = "raised", AuditOutcome(result[c].type) = "failed",
               Unrepeatable(c)
        PROVE  ~MayBeApplied(c)
    BY <1>9, NothingOpen DEF IInv, RejectionIsFinal
  <1>10. CASE Failed(c)
    <2>1. result[c].type \in ErrorTypes
      BY <1>10 DEF Failed, RaisedInv
    <2> QED BY <1>9, <1>10, <2>1, OutcomeOfError, ErrorTells DEF Failed
  <1>11. CASE GiveUp(c)
    <2>1. Unrepeatable(c) => ~MayBeApplied(c)
      BY <1>9, <1>11 DEF GiveUp, Unauthorized, AuditOutcome
    <2>2. CASE EndWithError(c, "Authentication")
      BY <1>2, <2>1, <2>2, ErrorTells
    <2>3. CASE EndWithException(c)
      BY <2>1, <2>3, SilenceTells DEF EndWithException
    <2> QED BY <1>11, <2>2, <2>3 DEF GiveUp
  <1>12. CASE RecoveryFails(c)
    BY <1>4, <1>12 DEF RecoveryFails, StageInv
  <1> QED BY <1>5, <1>6, <1>7, <1>8, <1>10, <1>11, <1>12 DEF Ending

-----------------------------------------------------------------------------
(* The steps.                                                              *)

\* A step that leaves the engine alone leaves what is said of it alone.
LEMMA EngineUnchanged ==
  ASSUME IInv, ActedInv, UNCHANGED vars
  PROVE  /\ IInv' /\ ActedInv'
         /\ \A c \in Calls : /\ Unrepeatable(c)' <=> Unrepeatable(c)
                             /\ MayBeApplied(c)' <=> MayBeApplied(c)
                             /\ Acted(c)' <=> Acted(c)
                             /\ Attempted(c)' = Attempted(c)
  <1>1. IInv'
    BY StepInv
  <1>2. \A c \in Calls : /\ Unrepeatable(c)' <=> Unrepeatable(c)
                         /\ MayBeApplied(c)' <=> MayBeApplied(c)
                         /\ Acted(c)' <=> Acted(c)
                         /\ Attempted(c)' = Attempted(c)
    BY DEF vars, Unrepeatable, MayBeApplied, Acted, Applied, KeyUsed, Honoured,
           Attempted
  <1>3. ActedInv'
    BY <1>2 DEF vars, ActedInv, AnswerInv, ResponseMeansApplied, Acted
  <1> QED BY <1>1, <1>2, <1>3

\* The counter is a number within the limit.
LEMMA AttemptedBound ==
  ASSUME TypeOK, NEW c \in Calls
  PROVE  /\ Attempted(c) \in Nat /\ Attempted(c) <= MaxAttempts
         /\ Len(copies[c]) \in Nat
  BY MaxAttemptsAssumption, LenProperties DEF TypeOK, Attempted

\* The end of a call, with a true account of it.
LEMMA EndKeeps ==
  ASSUME CallInv, NEW c \in Calls, stage[c] # "done", EndsTruly(c)
  PROVE  CallInv'
  <1> USE DEF CallInv
  <1>1. PICK events \in Trails, end \in Ends :
          End(c, events, end) /\ Tells(c, events, end)
    BY DEF EndsTruly
  <1>2. UNCHANGED vars /\ facade' = facade
    BY <1>1 DEF End
  <1>3. /\ IInv' /\ ActedInv'
        /\ \A d \in Calls : /\ Unrepeatable(d)' <=> Unrepeatable(d)
                            /\ MayBeApplied(d)' <=> MayBeApplied(d)
                            /\ Acted(d)' <=> Acted(d)
                            /\ Attempted(d)' = Attempted(d)
    BY <1>2, EngineUnchanged
  <1>4. /\ stage'[c] = "done" /\ outcome'[c] = end
        /\ \A d \in Calls \ {c} : /\ stage'[d] = stage[d] /\ audit'[d] = audit[d]
                                  /\ outcome'[d] = outcome[d]
    BY <1>1 DEF End, LayersTyped
  <1>5. audit'[c] = events
    <2>1. audit[c] = <<>> /\ audit'[c] = audit[c] \o events
      BY <1>1 DEF StageInv, End, LayersTyped
    <2>2. events \in Seq(AuditOutcomes)
      BY <1>1, TrailsAreSequences
    <2> QED BY <2>1, <2>2, ConcatEmptySeq
  <1>6. /\ audit' \in [Calls -> Trails]
        /\ stage' \in [Calls -> Stages] /\ outcome' \in [Calls -> Ends]
    <2>1. /\ stage' = [stage EXCEPT ![c] = "done"] /\ "done" \in Stages
          /\ outcome' = [outcome EXCEPT ![c] = end]
          /\ audit' = [audit EXCEPT ![c] = audit'[c]]
      BY <1>1 DEF End, LayersTyped, Stages
    <2> QED BY <1>1, <1>5, <2>1 DEF LayersTyped
  <1>7. LayersTyped'
    BY <1>2, <1>6 DEF LayersTyped
  <1>8. RaisedInv' /\ StageInv'
    BY <1>2, <1>3, <1>4 DEF vars, RaisedInv, StageInv
  <1>9. BudgetInv'
    <2>1. Len(copies[c]) <= 2 * MaxAttempts
      BY AttemptedBound, MaxAttemptsAssumption DEF BudgetInv, IInv
    <2> QED BY <1>2, <1>3, <1>4, <2>1 DEF vars, BudgetInv
  <1>10. TrailInv'
    BY <1>1, <1>2, <1>3, <1>4, <1>5 DEF vars, TrailInv, Tells
  <1>11. UncertaintyIsAudited'
    BY <1>1, <1>2, <1>3, <1>4, <1>5 DEF vars, UncertaintyIsAudited, Tells
  <1>12. GatewayAuditMatchesCaller'
    BY <1>1, <1>2, <1>4, <1>5 DEF GatewayAuditMatchesCaller, Tells
  <1> QED BY <1>3, <1>7, <1>8, <1>9, <1>10, <1>11, <1>12

\* The engine raises what _map_error gives or a transport error.
LEMMA ThreadRaises ==
  ASSUME TypeOK, RaisedInv, NEW c \in Calls, Begin(c) \/ ThreadStep(c)
  PROVE  RaisedInv'
  <1>1. ASSUME RaiseStatus(c) PROVE RaisedInv'
    <2> DEFINE error == ErrorOf(reply[c])
               r == [type |-> error, retryable |-> Retryable(options[c], reply[c])]
    <2>1. reply[c] \in Nat
      BY <1>1, StatusAssumption DEF TypeOK, RaiseStatus, Rejected
    <2>2. r.type \in ErrorTypes
      BY <2>1, ErrorOfType
    <2>3. /\ result' = [result EXCEPT ![c] = r]
          /\ pc' = [pc EXCEPT ![c] = "raised"]
      BY <1>1 DEF RaiseStatus
    <2> HIDE DEF r
    <2> QED BY <2>2, <2>3 DEF RaisedInv, TypeOK
  <1>2. ASSUME RaiseTransport(c) PROVE RaisedInv'
    <2>1. PICK error \in {"Timeout", "Network"} :
            result' = [result EXCEPT ![c] = [type |-> error, retryable |-> FALSE]]
      BY <1>2 DEF RaiseTransport
    <2> QED BY <1>2, <2>1 DEF RaiseTransport, RaisedInv, TypeOK, ErrorTypes
  <1>3. ASSUME \/ Begin(c) \/ Send(c) \/ Complete(c) \/ RetryAfterStatus(c)
               \/ RetryAfterTransport(c) \/ Wake(c)
        PROVE  RaisedInv'
    <2>1. /\ \A d \in Calls \ {c} : pc'[d] = pc[d] /\ result'[d] = result[d]
          /\ pc'[c] # "raised"
      BY <1>3 DEF Begin, Send, Complete, RetryAfterStatus, RetryAfterTransport,
                  Wake, TypeOK
    <2> QED BY <2>1 DEF RaisedInv
  <1> QED BY <1>1, <1>2, <1>3 DEF ThreadStep

\* A thread works on its own call.
LEMMA ThreadFrame ==
  ASSUME TypeOK, NEW c \in Calls, Begin(c) \/ ThreadStep(c)
  PROVE  /\ options' = options
         /\ \A d \in Calls \ {c} : pc'[d] = pc[d] /\ copies'[d] = copies[d]
  BY DEF Begin, ThreadStep, Send, Complete, RetryAfterStatus, RaiseStatus,
         RetryAfterTransport, RaiseTransport, Wake, TypeOK

\* The engine below the layers, on entry and inside an execution.
LEMMA ExecutionKeeps ==
  ASSUME CallInv, NEW c \in Calls, Enter(c) \/ EngineStep(c)
  PROVE  CallInv'
  <1> USE DEF CallInv
  <1>1. /\ Begin(c) \/ ThreadStep(c)
        /\ UNCHANGED <<facade, audit, outcome>>
        /\ stage[c] # "done" /\ stage'[c] \in {"first", "replay"}
        /\ stage[c] = "replay" <=> stage'[c] = "replay"
        /\ \A d \in Calls \ {c} : stage'[d] = stage[d]
        /\ stage' \in [Calls -> Stages]
    BY DEF Enter, EngineStep, Executing, callVars, LayersTyped, Stages
  <1>2. TypeOK
    BY DEF IInv
  <1>3. IInv'
    BY <1>1, StepInv DEF Next
  <1>4. ActedInv' /\ RaisedInv'
    BY <1>1, <1>2, ThreadActed, ThreadRaises
  <1>5. /\ options' = options
        /\ \A d \in Calls \ {c} : pc'[d] = pc[d] /\ copies'[d] = copies[d]
    BY <1>1, <1>2, ThreadFrame
  <1>6. LayersTyped'
    BY <1>1 DEF LayersTyped
  <1>7. StageInv'
    BY <1>1, <1>5 DEF StageInv, Unrepeatable
  <1>8. BudgetInv'
    <2> SUFFICES ASSUME NEW d \in Calls
                 PROVE  /\ stage'[d] \notin {"replay", "done"} =>
                             Len(copies'[d]) <= Attempted(d)'
                        /\ stage'[d] = "replay" =>
                             Len(copies'[d]) <= MaxAttempts + Attempted(d)'
                        /\ stage'[d] = "done" => Len(copies'[d]) <= 2 * MaxAttempts
      BY DEF BudgetInv
    <2>1. /\ Len(copies[d]) \in Nat /\ Attempted(d) \in Int /\ Attempted(d)' \in Int
          /\ Len(copies'[d]) - Attempted(d)' = Len(copies[d]) - Attempted(d)
      BY <1>1, <1>2, CopiesPerAttempt
    <2>2. Len(copies'[d]) \in Nat
      BY <1>3, LenProperties DEF IInv, TypeOK
    <2>3. /\ stage[d] = "replay" <=> stage'[d] = "replay"
          /\ stage[d] = "done" <=> stage'[d] = "done"
          /\ stage[d] = "done" => copies'[d] = copies[d]
      BY <1>1, <1>5
    <2> QED BY <2>1, <2>2, <2>3, MaxAttemptsAssumption DEF BudgetInv
  <1>9. TrailInv'
    <2>1. \A d \in Calls : Acted(d) => Acted(d)'
      BY <1>1, <1>2, ThreadKeepsActed
    <2> QED BY <1>1, <1>5, <2>1 DEF TrailInv
  <1>10. UncertaintyIsAudited'
    BY <1>1, <1>5 DEF UncertaintyIsAudited, Unrepeatable, MayBeApplied
  <1>11. GatewayAuditMatchesCaller'
    BY <1>1 DEF GatewayAuditMatchesCaller
  <1> QED BY <1>3, <1>4, <1>6, <1>7, <1>8, <1>9, <1>10, <1>11

\* The network and the provider.
LEMMA ProviderKeeps ==
  ASSUME CallInv, NEW c \in Calls, ProviderStep(c)
  PROVE  CallInv'
  <1> USE DEF CallInv
  <1>1. WorldStep(c) /\ UNCHANGED <<facade, stage, audit, outcome>>
    BY DEF ProviderStep, callVars
  <1>2. TypeOK
    BY DEF IInv
  <1>3. IInv'
    BY <1>1, StepInv DEF Next
  <1>4. ActedInv'
    BY <1>1, <1>2, WorldActed
  <1>5. /\ UNCHANGED <<options, pc, attempt, result>>
        /\ \A d \in Calls : Len(copies'[d]) = Len(copies[d])
        /\ \A d \in Calls : \A m \in DOMAIN copies'[d] :
             /\ m \in DOMAIN copies[d]
             /\ copies'[d][m] = copies[d][m] \/ copies[d][m] = "travelling"
    BY <1>1, <1>2, WorldEffects
  <1>6. \A d \in Calls : copies'[d] = <<>> <=> copies[d] = <<>>
    <2>1. copies \in [Calls -> Seq(CopyStates)] /\ copies' \in [Calls -> Seq(CopyStates)]
      BY <1>2, <1>3 DEF IInv, TypeOK
    <2> QED BY <1>5, <2>1, EmptySeq
  <1>7. RaisedInv' /\ LayersTyped'
    BY <1>1, <1>5 DEF RaisedInv, LayersTyped
  <1>8. StageInv'
    BY <1>1, <1>5, <1>6 DEF StageInv, Unrepeatable
  <1>9. BudgetInv'
    BY <1>1, <1>5 DEF BudgetInv, Attempted
  <1>10. TrailInv'
    <2>1. \A d \in Calls : Acted(d) => Acted(d)'
      BY <1>1, <1>2, WorldEffects, ActedStays
    <2> QED BY <1>1, <1>6, <2>1 DEF TrailInv
  <1>11. UncertaintyIsAudited'
    <2>1. \A d \in Calls : MayBeApplied(d)' => MayBeApplied(d)
      BY <1>5 DEF MayBeApplied
    <2> QED BY <1>1, <1>5, <2>1 DEF UncertaintyIsAudited, Unrepeatable
  <1>12. GatewayAuditMatchesCaller'
    BY <1>1 DEF GatewayAuditMatchesCaller
  <1> QED BY <1>3, <1>4, <1>7, <1>8, <1>9, <1>10, <1>11, <1>12

\* A 401 of a call that may be replayed.
LEMMA RecoverKeeps ==
  ASSUME CallInv, NEW c \in Calls, Recover(c)
  PROVE  CallInv'
  <1> USE DEF CallInv
  <1>1. /\ stage[c] = "first" /\ pc[c] = "raised" /\ CanReplay(options[c])
        /\ stage'[c] = "recovering" /\ stage' \in [Calls -> Stages]
        /\ \A d \in Calls \ {c} : stage'[d] = stage[d]
        /\ UNCHANGED vars /\ UNCHANGED <<facade, audit, outcome>>
    BY DEF Recover, Unauthorized, LayersTyped, Stages
  <1>2. ~Unrepeatable(c)
    BY <1>1 DEF CanReplay, Unrepeatable
  <1>3. /\ IInv' /\ ActedInv'
        /\ \A d \in Calls : /\ Unrepeatable(d)' <=> Unrepeatable(d)
                            /\ MayBeApplied(d)' <=> MayBeApplied(d)
                            /\ Acted(d)' <=> Acted(d)
                            /\ Attempted(d)' = Attempted(d)
    BY <1>1, EngineUnchanged
  <1>4. UNCHANGED <<options, pc, copies, result>>
    BY <1>1 DEF vars
  <1>5. RaisedInv' /\ LayersTyped' /\ StageInv' /\ BudgetInv'
    BY <1>1, <1>2, <1>3, <1>4 DEF RaisedInv, LayersTyped, StageInv, BudgetInv
  <1>6. TrailInv' /\ UncertaintyIsAudited' /\ GatewayAuditMatchesCaller'
    BY <1>1, <1>3, <1>4 DEF TrailInv, UncertaintyIsAudited, GatewayAuditMatchesCaller
  <1> QED BY <1>3, <1>5, <1>6

\* The second execution starts over, with the copies of the first still out.
LEMMA ReplayKeeps ==
  ASSUME CallInv, NEW c \in Calls, Replay(c)
  PROVE  CallInv'
  <1> USE DEF CallInv
  <1>1. /\ stage[c] = "recovering"
        /\ stage'[c] = "replay" /\ pc'[c] = "ready" /\ attempt'[c] = 1
        /\ stage' \in [Calls -> Stages]
        /\ \A d \in Calls \ {c} : /\ stage'[d] = stage[d] /\ pc'[d] = pc[d]
                                  /\ attempt'[d] = attempt[d]
                                  /\ result'[d] = result[d]
        /\ UNCHANGED <<options, copies, reply, facade, audit, outcome>>
    BY DEF Replay, LayersTyped, Stages, IInv, TypeOK
  <1>2. /\ pc[c] = "raised" /\ ~Unrepeatable(c)
        /\ Len(copies[c]) <= Attempted(c)
    BY <1>1 DEF StageInv, BudgetInv
  <1>3. \A d \in Calls : /\ Unrepeatable(d)' <=> Unrepeatable(d)
                         /\ MayBeApplied(d)' <=> MayBeApplied(d)
                         /\ Acted(d)' <=> Acted(d)
    BY <1>1 DEF Unrepeatable, MayBeApplied, Acted, Applied, KeyUsed, Honoured
  <1>4. IInv'
    <2>1. TypeOK'
      BY MaxAttemptsAssumption
      DEF Replay, IInv, TypeOK, ControlStates, NoResult, Results
    <2>2. AtMostOnceEffect'
      BY <1>1, SameCopies
    <2>3. SleepInv' /\ SentInv' /\ RefusedInv' /\ RejectionIsFinal'
      BY <1>1, <1>2, <1>3 DEF IInv, SleepInv, SentInv, RefusedInv, RejectionIsFinal
    <2> QED BY <2>1, <2>2, <2>3 DEF IInv
  <1>5. ActedInv'
    BY <1>1, <1>3 DEF ActedInv, AnswerInv, ResponseMeansApplied, Acted
  <1>6. RaisedInv' /\ LayersTyped' /\ StageInv'
    BY <1>1, <1>2, <1>3 DEF RaisedInv, LayersTyped, StageInv
  <1>7. BudgetInv'
    <2>1. Attempted(c)' = 0 /\ \A d \in Calls \ {c} : Attempted(d)' = Attempted(d)
      BY <1>1 DEF Attempted
    <2>2. Len(copies[c]) <= MaxAttempts + 0
      BY <1>2, AttemptedBound, MaxAttemptsAssumption DEF IInv
    <2> QED BY <1>1, <2>1, <2>2 DEF BudgetInv
  <1>8. TrailInv' /\ UncertaintyIsAudited' /\ GatewayAuditMatchesCaller'
    BY <1>1, <1>3 DEF TrailInv, UncertaintyIsAudited, GatewayAuditMatchesCaller
  <1> QED BY <1>4, <1>5, <1>6, <1>7, <1>8

-----------------------------------------------------------------------------
(* The theorems.                                                           *)

\* The invariant holds when no call has begun, whatever methods are called, as
\* long as the unaudited way is used for reading.
LEMMA StartInv ==
  ASSUME CallStart, facade \in [Calls -> Facades],
         \A c \in Calls : facade[c] = "plain" => options[c].safety = "read_only"
  PROVE  CallInv
  <1>1. IInv
    BY InitInv DEF CallStart
  <1>2. Len(<<>>) = 0 /\ DOMAIN <<>> = {} /\ <<>> \in Trails
    BY EmptySeq, LenProperties DEF Trails
  <1>3. ActedInv /\ RaisedInv
    BY DEF CallStart, Init, ActedInv, AnswerInv, ResponseMeansApplied, RaisedInv
  <1>4. LayersTyped /\ StageInv
    BY <1>2 DEF CallStart, Init, LayersTyped, StageInv, Stages, Ends
  <1>5. BudgetInv
    BY <1>2 DEF CallStart, Init, BudgetInv, Attempted
  <1>6. TrailInv /\ UncertaintyIsAudited /\ GatewayAuditMatchesCaller
    BY <1>2, TrailsDiffer DEF CallStart, TrailInv, UncertaintyIsAudited,
                              GatewayAuditMatchesCaller
  <1> QED BY <1>1, <1>3, <1>4, <1>5, <1>6 DEF CallInv

\* The ways and what they are used for satisfy that.
LEMMA CallInitInv == CallInit => CallInv
  <1>1. ASSUME CallInit, NEW c \in Calls, facade[c] = "plain"
        PROVE  options[c].safety = "read_only"
    <2>1. options[c] \in OperationsOf("plain")
      BY <1>1 DEF CallInit
    <2>2. OperationsOf("plain") = [safety : {"read_only"}, key : {NoKey}]
      BY DEF OperationsOf
    <2>3. \A o \in [safety : {"read_only"}, key : {NoKey}] : o.safety = "read_only"
      OBVIOUS
    <2> QED BY <2>1, <2>2, <2>3
  <1> QED BY <1>1, StartInv DEF CallInit

\* Every step of a caller, the network or the provider keeps the invariant.
LEMMA CallStepInv == CallInv /\ [CallNext]_allVars => CallInv'
  <1> SUFFICES ASSUME CallInv, [CallNext]_allVars PROVE CallInv'
    OBVIOUS
  <1>1. CASE UNCHANGED allVars
    <2>1. UNCHANGED vars /\ UNCHANGED <<facade, stage, audit, outcome>>
      BY <1>1 DEF allVars, callVars
    <2>2. UNCHANGED <<options, pc, copies, result>>
      BY <2>1 DEF vars
    <2>3. /\ IInv' /\ ActedInv'
          /\ \A d \in Calls : /\ Unrepeatable(d)' <=> Unrepeatable(d)
                              /\ MayBeApplied(d)' <=> MayBeApplied(d)
                              /\ Acted(d)' <=> Acted(d)
                              /\ Attempted(d)' = Attempted(d)
      BY <2>1, EngineUnchanged DEF CallInv
    <2>4. RaisedInv' /\ LayersTyped' /\ StageInv' /\ BudgetInv'
      BY <2>1, <2>2, <2>3 DEF CallInv, RaisedInv, LayersTyped, StageInv, BudgetInv
    <2>5. TrailInv' /\ UncertaintyIsAudited' /\ GatewayAuditMatchesCaller'
      BY <2>1, <2>2, <2>3 DEF CallInv, TrailInv, UncertaintyIsAudited,
                              GatewayAuditMatchesCaller
    <2> QED BY <2>3, <2>4, <2>5 DEF CallInv
  <1>2. ASSUME NEW c \in Calls, Ending(c) PROVE CallInv'
    BY <1>2, EndingTells, EndKeeps
  <1>3. ASSUME NEW c \in Calls,
               Enter(c) \/ EngineStep(c) \/ Recover(c) \/ Replay(c) \/ ProviderStep(c)
        PROVE  CallInv'
    BY <1>3, ExecutionKeeps, RecoverKeeps, ReplayKeeps, ProviderKeeps
  <1> QED BY <1>1, <1>2, <1>3 DEF CallNext, CallerStep, Ending

\* The invariant of a service call holds in every reachable state.
THEOREM CallInvariance == CallSpec => []CallInv
  BY CallInitInv, CallStepInv, PTL DEF CallSpec

\* The types, and the budget of a call: however often its token is rejected, it
\* submits at most twice max_attempts copies.
LEMMA CallTypes == CallInv => CallTypeOK
  <1> SUFFICES ASSUME CallInv PROVE CallTypeOK
    OBVIOUS
  <1>1. TypeOK /\ audit \in [Calls -> Seq(AuditOutcomes)]
    BY TrailsAreSequences DEF CallInv, IInv, LayersTyped
  <1>2. ASSUME NEW c \in Calls PROVE Len(copies[c]) <= 2 * MaxAttempts
    BY <1>1, AttemptedBound, MaxAttemptsAssumption DEF CallInv, BudgetInv
  <1> QED BY <1>1, <1>2 DEF CallTypeOK, CallInv, LayersTyped, Ends

\* AuthenticatedRequestEngine.execute keeps the types and sends at most
\* 2 * max_attempts copies of a call.
THEOREM CallTypeCorrect == CallSpec => []CallTypeOK
  BY CallInvariance, CallTypes, PTL

\* The replay after a 401 does not break the engine's promise: unsafe writes and
\* writes under a shared key are still performed at most once.
THEOREM AtMostOnceWithReplay == CallSpec => []AtMostOnceEffect
  <1>1. CallInv => AtMostOnceEffect
    BY DEF CallInv, IInv
  <1> QED BY <1>1, CallInvariance, PTL

\* Nor does the caller get data that no effect stands behind.
THEOREM ResponsesAreEarnedWithReplay == CallSpec => []ResponseMeansApplied
  <1>1. CallInv => ResponseMeansApplied
    BY DEF CallInv, ActedInv
  <1> QED BY <1>1, CallInvariance, PTL

\* Whatever raises, closes or is lost, the one event of an unrepeatable write
\* that may have happened does not say "failed" (services/base.py, _audit).
THEOREM UncertaintyAudited == CallSpec => []UncertaintyIsAudited
  <1>1. CallInv => UncertaintyIsAudited
    BY DEF CallInv
  <1> QED BY <1>1, CallInvariance, PTL

\* The gateway's event says "succeeded" exactly when the caller has a typed
\* result (_financial_typed parses before it reports).
THEOREM GatewayAuditIsTheCallers == CallSpec => []GatewayAuditMatchesCaller
  <1>1. CallInv => GatewayAuditMatchesCaller
    BY DEF CallInv
  <1> QED BY <1>1, CallInvariance, PTL

-----------------------------------------------------------------------------
(* The contract: every step of a call is a step of CallContract.           *)

\* The copies counted as effects of a write.
CopiesCounted ==
  \A w, x : x \in AppliedCopies(w) <=>
              /\ x = <<x[1], x[2]>>
              /\ x[1] \in Calls /\ Write(x[1]) = w
              /\ x[2] \in DOMAIN copies[x[1]] /\ copies[x[1]][x[2]] = "applied"

\* They are the applied copies of the calls that ask for the write.
LEMMA AppliedCopiesOf == CopiesCounted
  <1> SUFFICES ASSUME NEW w, NEW x
               PROVE  x \in AppliedCopies(w) <=>
                        /\ x = <<x[1], x[2]>>
                        /\ x[1] \in Calls /\ Write(x[1]) = w
                        /\ x[2] \in DOMAIN copies[x[1]]
                        /\ copies[x[1]][x[2]] = "applied"
    BY DEF CopiesCounted
  <1> DEFINE A(c) == {n \in DOMAIN copies[c] : copies[c][n] = "applied"}
             S == {c \in Calls : Write(c) = w}
  <1>1. x \in AppliedCopies(w) <=> \E c \in S : x \in {c} \X A(c)
    BY DEF AppliedCopies
  <1>2. \A c : x \in {c} \X A(c) <=>
                 x = <<x[1], x[2]>> /\ x[1] = c /\ x[2] \in A(c)
    OBVIOUS
  <1>3. x \in AppliedCopies(w) <=>
          x = <<x[1], x[2]>> /\ x[1] \in S /\ x[2] \in A(x[1])
    BY <1>1, <1>2
  <1> QED BY <1>3

\* A write is named by its key or by its only call.
LEMMA WriteNamed ==
  ASSUME TypeOK, NEW c \in Calls
  PROVE  /\ Write(c) \in WriteNames
         /\ \A d \in Calls : Write(c) = Write(d) <=>
              \/ c = d
              \/ Honoured(c) /\ Honoured(d) /\ options[c].key = options[d].key
  <1>1. \A d \in Calls : Honoured(d) => options[d].key \in Keys
    BY OperationsAssumption DEF TypeOK, Honoured, Options
  <1>2. \A x, y, a, b : <<x, y>> = <<a, b>> <=> x = a /\ y = b
    OBVIOUS
  <1>3. Write(c) \in WriteNames
    BY <1>1 DEF Write, WriteNames
  <1>4. ASSUME NEW d \in Calls
        PROVE  Write(c) = Write(d) <=>
                 \/ c = d
                 \/ Honoured(c) /\ Honoured(d) /\ options[c].key = options[d].key
    BY <1>2 DEF Write, Honoured
  <1> QED BY <1>3, <1>4

\* Only finitely many copies perform a write: those of one call, or a single
\* one under a key.
LEMMA AppliedCopiesFinite ==
  ASSUME TypeOK, AtMostOnceEffect, NEW c \in Calls
  PROVE  IsFiniteSet(AppliedCopies(Write(c)))
  <1> DEFINE A == AppliedCopies(Write(c))
  <1>1. CASE Honoured(c)
    <2>1. ASSUME NEW x \in A, NEW y \in A PROVE x = y
      <3>1. \A z \in A : /\ z = <<z[1], z[2]>> /\ z[1] \in Calls
                         /\ Write(z[1]) = Write(c) /\ z[2] \in DOMAIN copies[z[1]]
                         /\ copies[z[1]][z[2]] = "applied"
        BY AppliedCopiesOf DEF CopiesCounted
      <3>2. \A z \in A : Honoured(z[1]) /\ options[z[1]].key = options[c].key
        BY <1>1, <3>1, WriteNamed
      <3>3. x[1] = y[1] /\ x[2] = y[2]
        BY <2>1, <3>1, <3>2 DEF AtMostOnceEffect
      <3> QED BY <2>1, <3>1, <3>3
    <2>2. A = {} \/ \E x : A = {x}
      BY <2>1
    <2> QED BY <2>2, FS_EmptySet, FS_Singleton
  <1>2. CASE ~Honoured(c)
    <2>1. DOMAIN copies[c] = 1..Len(copies[c]) /\ Len(copies[c]) \in Nat
      BY LenProperties DEF TypeOK
    <2>2. A \subseteq {c} \X DOMAIN copies[c]
      <3> SUFFICES ASSUME NEW x \in A PROVE x \in {c} \X DOMAIN copies[c]
        OBVIOUS
      <3>1. /\ x = <<x[1], x[2]>> /\ x[1] \in Calls
            /\ Write(x[1]) = Write(c) /\ x[2] \in DOMAIN copies[x[1]]
        BY AppliedCopiesOf DEF CopiesCounted
      <3>2. x[1] = c
        BY <1>2, <3>1, WriteNamed
      <3> QED BY <3>1, <3>2
    <2>3. IsFiniteSet({c} \X DOMAIN copies[c])
      <3>1. IsFiniteSet({c})
        BY Zenon, FS_Singleton
      <3>2. 1 \in Int /\ Len(copies[c]) \in Int
        BY <2>1
      <3>3. IsFiniteSet(1..Len(copies[c]))
        BY Zenon, <3>2, FS_Interval
      <3> QED BY Zenon, <2>1, <3>1, <3>3, FS_Product
    <2> QED BY <2>2, <2>3, FS_Subset
  <1> QED BY <1>1, <1>2

\* A write has been performed exactly if the call was acted on.
LEMMA EffectsMeanActed ==
  ASSUME TypeOK, AtMostOnceEffect, NEW c \in Calls
  PROVE  /\ Effects[Write(c)] \in Nat
         /\ Effects[Write(c)] > 0 <=> Acted(c)
  <1> DEFINE A == AppliedCopies(Write(c))
  <1>1. IsFiniteSet(A)
    BY AppliedCopiesFinite
  <1>2. Effects[Write(c)] = Cardinality(A)
    BY WriteNamed DEF Effects
  <1>3. Cardinality(A) \in Nat /\ (Cardinality(A) = 0 <=> A = {})
    BY <1>1, FS_CardinalityType, FS_EmptySet
  <1>4. A # {} <=> Acted(c)
    <2>1. ASSUME A # {} PROVE Acted(c)
      <3>1. PICK x : x \in A
        BY <2>1
      <3>2. /\ x[1] \in Calls /\ Write(x[1]) = Write(c)
            /\ x[2] \in DOMAIN copies[x[1]] /\ copies[x[1]][x[2]] = "applied"
        BY <3>1, AppliedCopiesOf DEF CopiesCounted
      <3> QED BY <3>2, WriteNamed DEF Acted, Applied, KeyUsed
    <2>2. ASSUME Acted(c) PROVE A # {}
      <3>1. PICK a \in Calls : Write(a) = Write(c) /\ Applied(a)
        BY <2>2, WriteNamed DEF Acted, KeyUsed
      <3>2. PICK i \in DOMAIN copies[a] : copies[a][i] = "applied"
        BY <3>1 DEF Applied
      <3>3. <<a, i>> \in A
        BY <3>1, <3>2, AppliedCopiesOf DEF CopiesCounted
      <3> QED BY <3>3
    <2> QED BY <2>1, <2>2
  <1> QED BY <1>2, <1>3, <1>4

\* What has been told about a call, case by case.
VerdictGiven ==
  \A c \in Calls :
    /\ stage[c] = "idle" => Verdict(c) = "none"
    /\ stage[c] \notin {"idle", "done"} => Verdict(c) = "open"
    /\ stage[c] = "done" /\ audit[c] = <<>> => Verdict(c) = "silent"
    /\ \A v \in AuditOutcomes :
         stage[c] = "done" /\ audit[c] = <<v>> => Verdict(c) = v

\* The cases of the definition.
LEMMA VerdictCases == VerdictGiven
  BY SMTT(30) DEF VerdictGiven, Verdict, AuditOutcomes

\* A step that keeps the options keeps what the calls ask for.
LEMMA SameRequests ==
  ASSUME UNCHANGED options
  PROVE  /\ Kinds' = Kinds /\ Targets' = Targets
         /\ \A c \in Calls : Write(c)' = Write(c)
  BY DEF Kinds, Targets, Write, Unrepeatable, Honoured

\* A step that applies no copy has no effect.
LEMMA SameEffects ==
  ASSUME UNCHANGED options,
         \A d \in Calls : \A m :
           m \in DOMAIN copies'[d] /\ copies'[d][m] = "applied" <=>
           m \in DOMAIN copies[d] /\ copies[d][m] = "applied"
  PROVE  Effects' = Effects
  <1>1. CopiesCounted /\ CopiesCounted'
    BY AppliedCopiesOf, PTL
  <1>2. ASSUME NEW w, NEW x PROVE x \in AppliedCopies(w)' <=> x \in AppliedCopies(w)
    BY <1>1, SameRequests DEF CopiesCounted
  <1>3. \A w : AppliedCopies(w)' = AppliedCopies(w)
    BY <1>2
  <1> QED BY <1>3 DEF Effects

\* Calls of which nothing new is told keep their verdict.
LEMMA SameVerdict ==
  ASSUME NEW c \in Calls, stage'[c] = stage[c], audit'[c] = audit[c]
  PROVE  Verdict(c)' = Verdict(c)
  BY DEF Verdict

\* Before any call, nothing has been done and nothing told.
LEMMA ContractInit == CallStart /\ CallInv => Contract!Init
  <1> SUFFICES ASSUME CallStart, CallInv PROVE Contract!Init
    OBVIOUS
  <1>1. TypeOK
    BY DEF CallInv, IInv
  <1>2. Kinds \in [Calls -> {"once", "keyed", "many"}]
    BY DEF Kinds
  <1>3. Targets \in [Calls -> WriteNames]
    BY <1>1, WriteNamed DEF Targets
  <1>4. \A c, d \in Calls : c # d /\ Targets[c] = Targets[d] =>
          Kinds[c] = "keyed" /\ Kinds[d] = "keyed"
    BY <1>1, WriteNamed DEF Targets, Kinds, Unrepeatable, Honoured
  <1>5. Told = [c \in Calls |-> "none"]
    BY VerdictCases DEF VerdictGiven, Told, CallStart
  <1>6. Effects = [w \in WriteNames |-> 0]
    <2>1. DOMAIN <<>> = {}
      BY EmptySeq, LenProperties
    <2>2. \A c \in Calls : DOMAIN copies[c] = {}
      BY <2>1 DEF CallStart, Init
    <2>3. ASSUME NEW w PROVE AppliedCopies(w) = {}
      BY <2>2, AppliedCopiesOf DEF CopiesCounted
    <2> QED BY <2>3, FS_EmptySet DEF Effects
  <1> QED BY <1>2, <1>3, <1>4, <1>5, <1>6 DEF Contract!Init

\* The first request opens the call.
LEMMA EnterOpens ==
  ASSUME CallInv, NEW c \in Calls, Enter(c)
  PROVE  Contract!Open(c)
  <1>1. /\ stage[c] = "idle" /\ stage'[c] = "first"
        /\ \A d \in Calls \ {c} : stage'[d] = stage[d]
        /\ UNCHANGED <<options, copies, audit>>
    BY DEF Enter, Begin, CallInv, LayersTyped
  <1>2. VerdictGiven /\ VerdictGiven'
    BY VerdictCases, PTL
  <1>3. Verdict(c) = "none" /\ Verdict(c)' = "open"
    BY <1>1, <1>2 DEF VerdictGiven
  <1>4. \A d \in Calls \ {c} : Verdict(d)' = Verdict(d)
    BY <1>1, SameVerdict
  <1>5. Told[c] = "none" /\ Told' = [Told EXCEPT ![c] = "open"]
    BY <1>3, <1>4 DEF Told
  <1>6. UNCHANGED <<Kinds, Targets, Effects>>
    BY <1>1, SameRequests, SameEffects
  <1> QED BY <1>5, <1>6 DEF Contract!Open

\* Whatever ends a call closes it with a verdict that the effects bear out.
LEMMA EndingCloses ==
  ASSUME CallInv, NEW c \in Calls, Ending(c)
  PROVE  \E v \in Contract!Verdicts : Contract!Close(c, v)
  <1> USE DEF CallInv
  <1>1. TypeOK /\ AtMostOnceEffect
    BY DEF IInv
  <1>2. stage[c] # "done" /\ EndsTruly(c)
    BY EndingTells
  <1>3. PICK events \in Trails, end \in Ends :
          End(c, events, end) /\ Tells(c, events, end)
    BY <1>2 DEF EndsTruly
  <1>4. UNCHANGED <<options, copies>>
    BY <1>3 DEF End, vars
  <1>5. /\ stage'[c] = "done"
        /\ \A d \in Calls \ {c} : stage'[d] = stage[d] /\ audit'[d] = audit[d]
    BY <1>3 DEF End, LayersTyped
  <1>6. audit'[c] = events
    <2>1. audit[c] = <<>> /\ audit'[c] = audit[c] \o events
      BY <1>2, <1>3 DEF StageInv, End, LayersTyped
    <2> QED BY <1>3, <2>1, TrailsAreSequences, ConcatEmptySeq
  <1>7. VerdictGiven /\ VerdictGiven'
    BY VerdictCases, PTL
  <1>8. Told[c] \in {"none", "open"}
    BY <1>2, <1>7 DEF VerdictGiven, Told
  <1>9. PICK v \in {"silent"} \cup AuditOutcomes :
          /\ Verdict(c)' = v
          /\ events = IF v = "silent" THEN <<>> ELSE <<v>>
    <2>1. CASE events = <<>>
      BY <1>5, <1>6, <1>7, <2>1 DEF VerdictGiven
    <2>2. CASE events # <<>>
      <3>1. PICK v \in AuditOutcomes : events = <<v>>
        BY <1>3, <2>2 DEF Trails, AuditOutcomes
      <3> QED BY <1>5, <1>6, <1>7, <3>1 DEF VerdictGiven, AuditOutcomes
    <2> QED BY <2>1, <2>2
  <1>10. Told' = [Told EXCEPT ![c] = v]
    BY <1>5, <1>9, SameVerdict DEF Told
  <1>11. UNCHANGED <<Kinds, Targets, Effects>>
    BY <1>4, SameRequests, SameEffects
  <1>12. Targets[c] = Write(c) /\ (Kinds[c] = "once" <=> Unrepeatable(c))
    BY DEF Targets, Kinds
  <1>13. v = "succeeded" => Effects[Targets[c]] > 0
    BY <1>1, <1>3, <1>9, <1>12, EffectsMeanActed DEF Tells
  <1>14. Kinds[c] = "once" /\ v \in {"failed", "silent"} => Effects[Targets[c]] = 0
    <2> SUFFICES ASSUME Unrepeatable(c), v \in {"failed", "silent"}
                 PROVE  ~Acted(c)
      BY <1>1, <1>12, EffectsMeanActed
    <2>1. events \notin {<<"succeeded">>, <<"unknown">>}
      BY <1>9, TrailsDiffer
    <2>2. ~MayBeApplied(c)
      BY <1>3, <2>1 DEF Tells
    <2> QED BY <2>2 DEF MayBeApplied, Acted, Applied, Unrepeatable, Honoured
  <1>15. v \in Contract!Verdicts
    BY DEF Contract!Verdicts, AuditOutcomes
  <1> QED BY <1>8, <1>10, <1>11, <1>13, <1>14, <1>15 DEF Contract!Close

\* The requests, retries and the replay of an open call are not seen.
LEMMA ExecutionStutters ==
  ASSUME CallInv, NEW c \in Calls, EngineStep(c) \/ Recover(c) \/ Replay(c)
  PROVE  UNCHANGED Contract!contractVars
  <1> USE DEF CallInv
  <1>1. TypeOK
    BY DEF IInv
  <1>2. options' = options
    BY <1>1, ThreadFrame DEF EngineStep, Recover, Replay, vars
  <1>3. \A d \in Calls : \A m :
          m \in DOMAIN copies'[d] /\ copies'[d][m] = "applied" <=>
          m \in DOMAIN copies[d] /\ copies[d][m] = "applied"
    <2>1. CASE UNCHANGED copies
      BY <2>1
    <2>2. CASE Send(c)
      <3>1. ASSUME NEW d \in Calls, NEW m, m \in DOMAIN copies'[d],
                   copies'[d][m] = "applied"
            PROVE  m \in DOMAIN copies[d] /\ copies[d][m] = "applied"
        BY <1>1, <2>2, <3>1, SendCopies
      <3>2. ASSUME NEW d \in Calls, NEW m, m \in DOMAIN copies[d],
                   copies[d][m] = "applied"
            PROVE  m \in DOMAIN copies'[d] /\ copies'[d][m] = "applied"
        BY <1>1, <2>2, <3>2, SendKeepsCopies
      <3> QED BY <3>1, <3>2
    <2> QED BY <2>1, <2>2 DEF EngineStep, ThreadStep, Complete, RetryAfterStatus,
         RaiseStatus, RetryAfterTransport, RaiseTransport, Wake, Recover, Replay, vars
  <1>4. UNCHANGED <<Kinds, Targets, Effects>>
    BY <1>2, <1>3, SameRequests, SameEffects
  <1>5. /\ audit' = audit
        /\ \A d \in Calls \ {c} : stage'[d] = stage[d]
        /\ \/ stage'[c] = stage[c]
           \/ stage[c] \notin {"idle", "done"} /\ stage'[c] \notin {"idle", "done"}
    BY DEF EngineStep, Recover, Replay, callVars, LayersTyped
  <1>6. VerdictGiven /\ VerdictGiven'
    BY VerdictCases, PTL
  <1>7. \A d \in Calls : Verdict(d)' = Verdict(d)
    BY <1>5, <1>6, SameVerdict DEF VerdictGiven
  <1>8. Told' = Told
    BY <1>7 DEF Told
  <1> QED BY <1>4, <1>8 DEF Contract!contractVars

\* One newly applied copy is one more effect of its write.
LEMMA OneMoreEffect ==
  ASSUME TypeOK, AtMostOnceEffect, NEW c \in Calls, NEW n \in DOMAIN copies[c],
         NEW status, Settle(c, n, "applied", status), copies[c][n] = "travelling"
  PROVE  Effects' = [Effects EXCEPT ![Write(c)] = @ + 1]
  <1>0. PICK w \in WriteNames : w = Write(c)
    BY WriteNamed
  <1> DEFINE A == AppliedCopies(w)
  <1>1. options' = options /\ \A d \in Calls : Write(d)' = Write(d)
    BY SameRequests DEF Settle
  <1>2. /\ DOMAIN copies'[c] = DOMAIN copies[c]
        /\ \A d \in Calls \ {c} : copies'[d] = copies[d]
        /\ copies'[c][n] = "applied"
        /\ \A m \in DOMAIN copies[c] : m # n => copies'[c][m] = copies[c][m]
    BY SettleCopies DEF CopyStates
  <1>3. CopiesCounted /\ CopiesCounted'
    BY AppliedCopiesOf, PTL
  <1>4. <<c, n>> \notin A
    BY <1>3 DEF CopiesCounted
  <1>5. ASSUME NEW u, NEW x
        PROVE  x \in AppliedCopies(u)' <=>
                 x \in AppliedCopies(u) \/ (u = w /\ x = <<c, n>>)
    <2>1. CASE x = <<c, n>>
      BY <1>0, <1>1, <1>2, <1>3, <2>1 DEF CopiesCounted
    <2>2. CASE x # <<c, n>>
      <3>1. x = <<x[1], x[2]>> => x[1] # c \/ x[2] # n
        BY <2>2
      <3> QED BY <1>0, <1>1, <1>2, <1>3, <2>2, <3>1 DEF CopiesCounted
    <2> QED BY <2>1, <2>2
  <1>6. AppliedCopies(w)' = A \cup {<<c, n>>}
    BY <1>5
  <1>7. ASSUME NEW u, u # w PROVE AppliedCopies(u)' = AppliedCopies(u)
    <2>1. \A x : x \in AppliedCopies(u)' <=> x \in AppliedCopies(u)
      BY <1>5, <1>7
    <2> QED BY <2>1
  <1>8. Cardinality(A \cup {<<c, n>>}) = Cardinality(A) + 1
    <2>1. IsFiniteSet(A)
      BY <1>0, AppliedCopiesFinite
    <2> QED BY <1>4, <2>1, FS_AddElement
  <1> QED BY <1>0, <1>6, <1>7, <1>8 DEF Effects

\* A provider that acts, also long after the call ended, does what the contract
\* allows; its answers and refusals and the losses are not seen.
LEMMA ProviderActs ==
  ASSUME CallInv, NEW c \in Calls, ProviderStep(c)
  PROVE  Contract!Act(c) \/ UNCHANGED Contract!contractVars
  <1> USE DEF CallInv
  <1>1. TypeOK /\ AtMostOnceEffect /\ SentInv
    BY DEF IInv
  <1>2. WorldStep(c) /\ UNCHANGED <<facade, stage, audit, outcome>>
    BY DEF ProviderStep, callVars
  <1>3. PICK n \in DOMAIN copies[c], fate \in CopyStates,
             status \in Statuses \cup {NoReply} :
           /\ Settle(c, n, fate, status)
           /\ copies[c][n] = "travelling"
           /\ fate = "applied" => ~(Honoured(c) /\ KeyUsed(c))
    BY <1>2, WorldSettles
  <1>4. options' = options
    BY <1>3 DEF Settle
  <1>5. Told' = Told
    BY <1>2, SameVerdict DEF Told
  <1>6. CASE fate # "applied"
    <2>1. /\ DOMAIN copies'[c] = DOMAIN copies[c]
          /\ \A d \in Calls \ {c} : copies'[d] = copies[d]
          /\ copies'[c][n] = fate
          /\ \A m \in DOMAIN copies[c] : m # n => copies'[c][m] = copies[c][m]
      BY <1>1, <1>3, SettleCopies
    <2>2. Effects' = Effects
      BY <1>3, <1>4, <1>6, <2>1, SameEffects
    <2> QED BY <1>4, <1>5, <2>2, SameRequests DEF Contract!contractVars
  <1>7. CASE fate = "applied"
    <2>1. Effects' = [Effects EXCEPT ![Targets[c]] = @ + 1]
      BY <1>1, <1>3, <1>7, OneMoreEffect DEF Targets
    <2>2. MayBeApplied(c) /\ copies[c] # <<>>
      <3>1. DOMAIN <<>> = {}
        BY EmptySeq, LenProperties
      <3> QED BY <1>3, <3>1 DEF MayBeApplied
    <2>3. VerdictGiven
      BY VerdictCases
    <2>4. Told[c] # "none"
      <3>1. stage[c] # "idle"
        BY <2>2 DEF StageInv
      <3>2. CASE stage[c] # "done"
        BY <2>3, <3>1, <3>2 DEF VerdictGiven, Told
      <3>3. CASE stage[c] = "done"
        <4>1. audit[c] = <<>> \/ \E v \in AuditOutcomes : audit[c] = <<v>>
          BY DEF TrailInv, Trails, AuditOutcomes
        <4> QED BY <2>3, <3>3, <4>1 DEF VerdictGiven, Told, AuditOutcomes
      <3> QED BY <3>2, <3>3
    <2>5. Kinds[c] = "once" => Told[c] \notin {"failed", "silent"}
      <3> SUFFICES ASSUME Unrepeatable(c) PROVE Told[c] \notin {"failed", "silent"}
        BY DEF Kinds
      <3>1. CASE stage[c] # "done"
        BY <2>3, <3>1 DEF VerdictGiven, Told
      <3>2. CASE stage[c] = "done"
        <4>1. audit[c] \in {<<"succeeded">>, <<"unknown">>}
          BY <2>2, <3>2 DEF UncertaintyIsAudited
        <4> QED BY <2>3, <3>2, <4>1 DEF VerdictGiven, Told, AuditOutcomes
      <3> QED BY <3>1, <3>2
    <2>6. Kinds[c] # "many" => Effects[Targets[c]] = 0
      <3> SUFFICES ASSUME Unrepeatable(c) \/ Honoured(c) PROVE ~Acted(c)
        BY <1>1, EffectsMeanActed DEF Kinds, Targets
      <3>1. CASE Honoured(c)
        BY <1>3, <1>7, <3>1 DEF Acted, KeyUsed
      <3>2. CASE Unrepeatable(c)
        <4>1. copies[c] \in Seq(CopyStates) /\ Len(copies[c]) <= 1
          BY <1>1, <3>2 DEF TypeOK, SentInv
        <4>2. \A m \in DOMAIN copies[c] : m = n
          BY <1>3, <4>1, LenProperties
        <4> QED BY <1>3, <3>2, <4>2 DEF Acted, Applied, Unrepeatable, Honoured
      <3> QED BY <3>1, <3>2
    <2> QED BY <1>4, <1>5, <2>1, <2>4, <2>5, <2>6, SameRequests DEF Contract!Act
  <1> QED BY <1>6, <1>7

\* Every step of a call is a step of the contract, or is not seen by it.
LEMMA ContractStep ==
  CallInv /\ [CallNext]_allVars => [Contract!Next]_(Contract!contractVars)
  <1> SUFFICES ASSUME CallInv, [CallNext]_allVars
               PROVE  [Contract!Next]_(Contract!contractVars)
    OBVIOUS
  <1>1. CASE UNCHANGED allVars
    <2>1. UNCHANGED <<options, copies, stage, audit>>
      BY <1>1 DEF allVars, callVars, vars
    <2>2. UNCHANGED <<Kinds, Targets, Effects, Told>>
      BY <2>1, SameRequests, SameEffects, SameVerdict DEF Told
    <2> QED BY <2>2 DEF Contract!contractVars
  <1>2. ASSUME NEW c \in Calls, Enter(c) PROVE Contract!Next
    BY <1>2, EnterOpens DEF Contract!Next
  <1>3. ASSUME NEW c \in Calls, Ending(c) PROVE Contract!Next
    BY <1>3, EndingCloses DEF Contract!Next
  <1>4. ASSUME NEW c \in Calls, EngineStep(c) \/ Recover(c) \/ Replay(c)
        PROVE  UNCHANGED Contract!contractVars
    BY <1>4, ExecutionStutters
  <1>5. ASSUME NEW c \in Calls, ProviderStep(c)
        PROVE  [Contract!Next]_(Contract!contractVars)
    BY <1>5, ProviderActs DEF Contract!Next
  <1> QED BY <1>1, <1>2, <1>3, <1>4, <1>5 DEF CallNext, CallerStep, Ending

\* Requests, retries, the replay after a 401, late copies and audit events
\* implement CallContract, for any calls and keys: unrepeatable and keyed writes
\* take effect once, and no verdict contradicts the effects.
THEOREM CallsImplementTheContract == CallSpec => ImplementsContractSafely
  <1>1. CallSpec => Contract!Init /\ [][Contract!Next]_(Contract!contractVars)
    <2>1. CallInit => Contract!Init
      BY CallInitInv, ContractInit DEF CallInit
    <2> QED BY <2>1, ContractStep, CallInvariance, PTL DEF CallSpec
  <1> QED BY <1>1 DEF ImplementsContractSafely

=============================================================================

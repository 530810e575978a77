--------------------------- MODULE CallbackProofs ---------------------------
(***************************************************************************)
(* Safety of CallbackProcessing for any handlers and keys.                 *)
(***************************************************************************)
EXTENDS CallbackProcessing, TLAPS

\* A key that is handed over as new was claimed for it.
ClaimInv ==
  \A k \in Keys : originals[k] <= 1 /\ (originals[k] = 1 => k \in claimed)

DuplicateInv ==
  \A h \in Handlers : pc[h] = "duplicate" => delivery[h].key \in claimed

\* A handler that claimed the key works on it.
Owned(k) ==
  \E h \in Handlers :
    pc[h] = "original" /\ setup[h] = "complete" /\ delivery[h].key = k

OwnerInv == \A k \in claimed : k \in handled \cup interrupted \/ Owned(k)

AnswerInv == acknowledged \subseteq handled \cup claimed

Inv ==
  /\ TypeOK /\ ClaimInv /\ DuplicateInv
  /\ OwnerInv /\ AnswerInv /\ ClaimsAreAccounted

\* The initial states satisfy the invariant: nothing is claimed or answered.
LEMMA InitInv == Init => Inv
<1> SUFFICES ASSUME Init PROVE Inv
  OBVIOUS
<1>1. TypeOK
  BY DEF Init, TypeOK, ControlStates, Deliveries
<1>2. ClaimInv /\ OwnerInv /\ AnswerInv /\ ClaimsAreAccounted
  BY DEF Init, ClaimInv, OwnerInv, AnswerInv, ClaimsAreAccounted
<1>3. DuplicateInv
  BY DEF Init, DuplicateInv
<1> QED
  BY <1>1, <1>2, <1>3 DEF Inv

\* The arrival of a callback and the steps of parse_callback that leave the store
\* and the answers alone keep the invariant.
LEMMA LocalStep ==
  ASSUME Inv, NEW h \in Handlers, UNCHANGED <<setup, keyVars>>,
         NEW state \in ControlStates, Goto(h, state),
         state = "duplicate" => delivery[h].key \in claimed,
         NEW d \in Deliveries, delivery' = [delivery EXCEPT ![h] = d],
         d = delivery[h] \/ state # "duplicate",
         pc[h] # "original"
  PROVE  Inv'
<1>1. TypeOK'
  BY DEF Inv, TypeOK, Goto, keyVars
<1>2. ClaimInv' /\ ClaimsAreAccounted' /\ AnswerInv'
  BY DEF Inv, ClaimInv, ClaimsAreAccounted, AnswerInv, keyVars
<1>3. DuplicateInv'
  BY DEF Inv, DuplicateInv, TypeOK, Goto, keyVars
<1>4. ASSUME NEW k, Owned(k) PROVE Owned(k)'
  BY <1>4 DEF Inv, Owned, TypeOK, Goto
<1>5. OwnerInv'
  BY <1>4 DEF Inv, OwnerInv, keyVars
<1> QED
  BY <1>1, <1>2, <1>3, <1>5 DEF Inv

\* Claiming a key makes it claimed, counted once and owned.
LEMMA ClaimStep ==
  ASSUME Inv, NEW h \in Handlers, Claim(h)
  PROVE  Inv'
<1> DEFINE key == delivery[h].key
<1>1. key \in Keys
  BY DEF Inv, TypeOK, Deliveries
<1>2. /\ key \notin claimed /\ setup[h] = "complete"
      /\ claimed' = claimed \cup {key}
      /\ originals' = [originals EXCEPT ![key] = @ + 1]
      /\ pc' = [pc EXCEPT ![h] = "original"]
      /\ UNCHANGED <<setup, delivery, handled, interrupted, acknowledged>>
  BY DEF Claim, Claiming, Goto
<1>3. originals[key] = 0
  BY <1>1, <1>2 DEF Inv, ClaimInv, TypeOK
<1>4. TypeOK'
  BY <1>1, <1>2 DEF Inv, TypeOK, ControlStates
<1>5. ClaimInv' /\ ClaimsAreAccounted' /\ AnswerInv'
  BY <1>1, <1>2, <1>3 DEF Inv, ClaimInv, ClaimsAreAccounted, AnswerInv, TypeOK
<1>6. DuplicateInv'
  BY <1>2 DEF Inv, DuplicateInv, TypeOK
<1>7. Owned(key)'
  BY <1>2 DEF Inv, Owned, TypeOK
<1>8. ASSUME NEW k, Owned(k) PROVE Owned(k)'
  BY <1>2, <1>8 DEF Inv, Owned, TypeOK
<1>9. OwnerInv'
  BY <1>2, <1>7, <1>8 DEF Inv, OwnerInv
<1> QED
  BY <1>4, <1>5, <1>6, <1>9 DEF Inv

\* A store that raises leaves its key free, or claimed and interrupted.
LEMMA RaiseStep ==
  ASSUME Inv, NEW h \in Handlers, ClaimRaises(h)
  PROVE  Inv'
<1> DEFINE key == delivery[h].key
<1>1. key \in Keys
  BY DEF Inv, TypeOK, Deliveries
<1>2. /\ pc[h] = "verified" /\ pc' = [pc EXCEPT ![h] = "idle"]
      /\ UNCHANGED <<setup, delivery, originals, handled, acknowledged>>
      /\ \/ claimed' = claimed /\ interrupted' = interrupted
         \/ /\ claimed' = claimed \cup {key}
            /\ interrupted' = interrupted \cup {key}
  BY DEF ClaimRaises, Claiming, Goto
<1>3. TypeOK'
  BY <1>1, <1>2 DEF Inv, TypeOK, ControlStates
<1>4. ClaimInv' /\ ClaimsAreAccounted' /\ AnswerInv'
  BY <1>1, <1>2 DEF Inv, ClaimInv, ClaimsAreAccounted, AnswerInv, TypeOK
<1>5. DuplicateInv'
  BY <1>2 DEF Inv, DuplicateInv, TypeOK
<1>6. ASSUME NEW k, Owned(k) PROVE Owned(k)'
  BY <1>2, <1>6 DEF Inv, Owned, TypeOK
<1>7. OwnerInv'
  BY <1>2, <1>6 DEF Inv, OwnerInv
<1> QED
  BY <1>3, <1>4, <1>5, <1>7 DEF Inv

\* Answering a success: an original is handled now, a duplicate was claimed.
LEMMA AcknowledgeStep ==
  ASSUME Inv, NEW h \in Handlers, Acknowledge(h)
  PROVE  Inv'
<1> DEFINE key == delivery[h].key
<1>1. key \in Keys
  BY DEF Inv, TypeOK, Deliveries
<1>2. /\ pc' = [pc EXCEPT ![h] = "idle"]
      /\ acknowledged' = acknowledged \cup {key}
      /\ UNCHANGED <<setup, delivery, claimed, originals, interrupted>>
      /\ \/ pc[h] = "original" /\ handled' = handled \cup {key}
         \/ pc[h] = "duplicate" /\ handled' = handled /\ key \in claimed
  BY DEF Inv, Acknowledge, Goto, DuplicateInv
<1>3. TypeOK'
  BY <1>1, <1>2 DEF Inv, TypeOK, ControlStates
<1>4. ClaimInv' /\ ClaimsAreAccounted' /\ AnswerInv'
  BY <1>2 DEF Inv, ClaimInv, ClaimsAreAccounted, AnswerInv
<1>5. DuplicateInv'
  BY <1>2 DEF Inv, DuplicateInv, TypeOK
<1>6. ASSUME NEW k, Owned(k), k \notin handled' PROVE Owned(k)'
  BY <1>2, <1>6 DEF Inv, Owned, TypeOK
<1>7. OwnerInv'
  BY <1>2, <1>6 DEF Inv, OwnerInv
<1> QED
  BY <1>3, <1>4, <1>5, <1>7 DEF Inv

\* A handler that dies with a claim leaves its key interrupted.
LEMMA CrashStep ==
  ASSUME Inv, NEW h \in Handlers, Crash(h)
  PROVE  Inv'
<1> DEFINE key == delivery[h].key
<1>1. key \in Keys
  BY DEF Inv, TypeOK, Deliveries
<1>2. /\ pc' = [pc EXCEPT ![h] = "idle"]
      /\ UNCHANGED <<setup, delivery, claimed, originals, handled, acknowledged>>
      /\ interrupted \subseteq interrupted'
      /\ interrupted' \subseteq interrupted \cup {key}
      /\ pc[h] = "original" /\ setup[h] = "complete" => key \in interrupted'
  BY DEF Crash, Goto
<1>3. TypeOK'
  BY <1>1, <1>2 DEF Inv, TypeOK, ControlStates
<1>4. ClaimInv' /\ ClaimsAreAccounted' /\ AnswerInv'
  BY <1>2 DEF Inv, ClaimInv, ClaimsAreAccounted, AnswerInv
<1>5. DuplicateInv'
  BY <1>2 DEF Inv, DuplicateInv, TypeOK
<1>6. ASSUME NEW k, Owned(k), k \notin interrupted' PROVE Owned(k)'
  BY <1>2, <1>6 DEF Inv, Owned, TypeOK
<1>7. OwnerInv'
  BY <1>2, <1>6 DEF Inv, OwnerInv
<1> QED
  BY <1>3, <1>4, <1>5, <1>7 DEF Inv

\* Every step keeps the invariant, one lemma per kind of step.
LEMMA StepInv == Inv /\ [Next]_vars => Inv'
<1> SUFFICES ASSUME Inv, [Next]_vars PROVE Inv'
  OBVIOUS
<1>1. CASE UNCHANGED vars
  BY <1>1 DEF vars, Inv, TypeOK, ClaimInv, DuplicateInv, Owned, OwnerInv,
              AnswerInv, ClaimsAreAccounted
<1>2. ASSUME NEW h \in Handlers,
             Receive(h) \/ ParseCallback(h) \/ Acknowledge(h) \/ Crash(h)
      PROVE  Inv'
  <2>1. /\ delivery[h] \in Deliveries
        /\ delivery = [delivery EXCEPT ![h] = delivery[h]]
    BY DEF Inv, TypeOK
  <2>2. CASE Receive(h)
    <3>1. PICK d \in Deliveries : delivery' = [delivery EXCEPT ![h] = d]
      BY <2>2 DEF Receive
    <3>2. Goto(h, "received") /\ UNCHANGED <<setup, keyVars>> /\ pc[h] # "original"
      BY <2>2 DEF Receive
    <3> QED
      BY <3>1, <3>2, LocalStep DEF ControlStates
  <2>3. CASE Parse(h) \/ Verify(h)
    <3>1. PICK state \in {"parsed", "verified"} : Goto(h, state)
      BY <2>3 DEF Parse, Verify
    <3>2. UNCHANGED <<setup, delivery, keyVars>> /\ pc[h] # "original"
      BY <2>3 DEF Parse, Verify
    <3> QED
      BY <2>1, <3>1, <3>2, LocalStep DEF ControlStates
  <2>4. CASE RejectPayload(h) \/ RejectAuthenticity(h) \/ RejectSetup(h)
    <3>1. /\ Goto(h, "idle") /\ UNCHANGED <<setup, delivery, keyVars>>
          /\ pc[h] # "original"
      BY <2>4 DEF RejectPayload, RejectAuthenticity, RejectSetup, Reject
    <3> QED
      BY <2>1, <3>1, LocalStep DEF ControlStates
  <2>5. CASE SkipStore(h)
    <3>1. /\ Goto(h, "original") /\ UNCHANGED <<setup, delivery, keyVars>>
          /\ pc[h] # "original"
      BY <2>5 DEF SkipStore
    <3> QED
      BY <2>1, <3>1, LocalStep DEF ControlStates
  <2>6. CASE FindDuplicate(h)
    <3>1. /\ Goto(h, "duplicate") /\ UNCHANGED <<setup, delivery, keyVars>>
          /\ delivery[h].key \in claimed /\ pc[h] # "original"
      BY <2>6 DEF FindDuplicate, Claiming
    <3> QED
      BY <2>1, <3>1, LocalStep DEF ControlStates
  <2> QED
    BY <1>2, <2>2, <2>3, <2>4, <2>5, <2>6, ClaimStep, RaiseStep,
       AcknowledgeStep, CrashStep DEF ParseCallback
<1> QED
  BY <1>1, <1>2 DEF Next

\* The invariant holds in every reachable state.
LEMMA Invariance == Spec => []Inv
<1> QED
  BY InitInv, StepInv, PTL DEF Spec

\* For any number of handlers and purchases, at most one handler with a store
\* gets a callback as new (parse_callback's claim).
THEOREM OriginalsAreUnique == Spec => []OriginalOnce
<1>1. Inv => OriginalOnce
  BY DEF Inv, ClaimInv, OriginalOnce
<1> QED
  BY <1>1, Invariance, PTL

\* No callback that failed verification uses up a key.
THEOREM ClaimsAccounted == Spec => []ClaimsAreAccounted
<1>1. Inv => ClaimsAreAccounted
  BY DEF Inv
<1> QED
  BY <1>1, Invariance, PTL

\* An answered callback was processed, is in progress, or was interrupted.
THEOREM AnswersAccounted == Spec => []AcknowledgedIsAccounted
<1>1. ASSUME NEW k, Owned(k) PROVE InProgress(k)
  BY <1>1 DEF Owned, InProgress
<1>2. Inv => AcknowledgedIsAccounted
  BY <1>1 DEF Inv, AnswerInv, OwnerInv, AcknowledgedIsAccounted
<1> QED
  BY <1>2, Invariance, PTL

=============================================================================

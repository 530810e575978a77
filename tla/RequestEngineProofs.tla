------------------------ MODULE RequestEngineProofs ------------------------
(***************************************************************************)
(* Theorems about RequestEngine for any calls, keys, statuses and number   *)
(* of attempts.  AtMostOnceEffect is not inductive: it needs that a call   *)
(* outside the repeatable categories has sent at most one copy, which      *)
(* needs that such a call never sleeps before a retry.                     *)
(***************************************************************************)
EXTENDS RequestEngine, SequenceTheorems, TLAPS

\* A thread sleeps only between two attempts of a repeatable operation.
SleepInv ==
  \A c \in Calls : pc[c] = "sleeping" =>
    attempt[c] < MaxAttempts /\ ~Unrepeatable(c)

\* An unrepeatable call has sent nothing before its only send.
SentInv ==
  \A c \in Calls : Unrepeatable(c) =>
    /\ Len(copies[c]) <= 1
    /\ pc[c] \in {"idle", "ready"} => Len(copies[c]) = 0

\* A definitive answer is the answer to the only copy, which was refused.
RefusedInv ==
  \A c \in Calls :
    /\ Unrepeatable(c) /\ pc[c] = "waiting"
    /\ reply[c] # NoReply /\ ~Success(reply[c]) /\ ~Ambiguous(reply[c])
    => \A n \in DOMAIN copies[c] : copies[c][n] = "refused"

IInv ==
  /\ TypeOK /\ SleepInv /\ SentInv /\ RefusedInv
  /\ AtMostOnceEffect /\ RejectionIsFinal

-----------------------------------------------------------------------------
(* Lemmas about the classification rules.                                  *)

\* The engine retries nothing that is unrepeatable (RetryPolicy.decide).
LEMMA UnrepeatableNotRetried ==
  ASSUME NEW c \in Calls, Unrepeatable(c), NEW a
  PROVE  ~RetriesTransport(options[c], a)
  BY DEF Unrepeatable, RetriesTransport

\* decide and _map_error name the same operations and statuses.
THEOREM RetryRulesAgree ==
  ASSUME NEW opts \in Options, NEW status \in Nat, NEW a \in Nat, a < MaxAttempts
  PROVE  RetriesStatus(opts, a, status) <=> Retryable(opts, status)
  BY DEF RetriesStatus, RetriesTransport, Retryable, TransientStatusCodes,
         Options, OperationSafety

\* An error that is audited as "failed" stands for a definitive status.
LEMMA FailedIsDefinitive ==
  ASSUME NEW status \in Nat, ~Success(status),
         AuditOutcome(ErrorOf(status)) = "failed"
  PROVE  ~Ambiguous(status)
  BY SMTT(30) DEF Success, Ambiguous, AuditOutcome, ErrorOf

\* _map_error gives a documented exception type.
LEMMA ErrorOfType ==
  ASSUME NEW status \in Nat
  PROVE  ErrorOf(status) \in ErrorTypes
  BY SMTT(30) DEF ErrorOf, ErrorTypes

-----------------------------------------------------------------------------
(* What a step does to the copies.                                         *)

\* Sending appends one travelling copy and touches no other call.
LEMMA SendCopies ==
  ASSUME TypeOK, NEW c \in Calls, Send(c)
  PROVE  /\ copies' \in [Calls -> Seq(CopyStates)]
         /\ Len(copies'[c]) = Len(copies[c]) + 1
         /\ \A d \in Calls \ {c} : copies'[d] = copies[d]
         /\ \A m \in DOMAIN copies'[c] :
              copies'[c][m] # "travelling" =>
                m \in DOMAIN copies[c] /\ copies'[c][m] = copies[c][m]
  <1> DEFINE s == copies[c]
             t == Append(s, "travelling")
  <1>1. s \in Seq(CopyStates) /\ "travelling" \in CopyStates
    BY DEF TypeOK, CopyStates
  <1>2. /\ t \in Seq(CopyStates)
        /\ Len(t) = Len(s) + 1
        /\ \A i \in 1..Len(s) : t[i] = s[i]
        /\ t[Len(s) + 1] = "travelling"
    BY <1>1, AppendProperties
  <1>3. DOMAIN s = 1..Len(s) /\ DOMAIN t = 1..Len(t) /\ Len(s) \in Nat
    BY <1>1, <1>2, LenProperties
  <1>4. copies'[c] = t /\ \A d \in Calls \ {c} : copies'[d] = copies[d]
    BY DEF Send, TypeOK
  <1>5. copies' \in [Calls -> Seq(CopyStates)]
    BY <1>2 DEF Send, TypeOK
  <1>6. ASSUME NEW m \in DOMAIN t, t[m] # "travelling"
        PROVE  m \in DOMAIN s /\ t[m] = s[m]
    BY <1>2, <1>3, <1>6
  <1> QED BY <1>2, <1>4, <1>5, <1>6

\* The network and the provider decide the fate of exactly one copy.
LEMMA SettleCopies ==
  ASSUME TypeOK, NEW c \in Calls, NEW n \in DOMAIN copies[c],
         NEW fate \in CopyStates, NEW status, Settle(c, n, fate, status)
  PROVE  /\ copies' \in [Calls -> Seq(CopyStates)]
         /\ Len(copies'[c]) = Len(copies[c])
         /\ DOMAIN copies'[c] = DOMAIN copies[c]
         /\ \A d \in Calls \ {c} : copies'[d] = copies[d]
         /\ copies'[c][n] = fate
         /\ \A m \in DOMAIN copies[c] : m # n => copies'[c][m] = copies[c][m]
  <1> DEFINE s == copies[c]
             t == [s EXCEPT ![n] = fate]
  <1>1. s \in Seq(CopyStates)
    BY DEF TypeOK
  <1>2. DOMAIN s = 1..Len(s)
    BY <1>1, LenProperties
  <1>3. /\ t \in Seq(CopyStates)
        /\ Len(t) = Len(s)
        /\ \A j \in 1..Len(s) : t[j] = IF j = n THEN fate ELSE s[j]
    BY <1>1, <1>2, ExceptSeq
  <1>4. copies'[c] = t /\ \A d \in Calls \ {c} : copies'[d] = copies[d]
    BY DEF Settle, TypeOK
  <1>5. copies' \in [Calls -> Seq(CopyStates)]
    BY <1>3 DEF Settle, TypeOK
  <1> QED BY <1>2, <1>3, <1>4, <1>5

\* The only answers are those of the provider, in the statuses it knows.
LEMMA WorldSettles ==
  ASSUME NEW c \in Calls, WorldStep(c)
  PROVE  \E n \in DOMAIN copies[c], fate \in CopyStates,
            status \in Statuses \cup {NoReply} :
           /\ Settle(c, n, fate, status)
           /\ copies[c][n] = "travelling"
           /\ fate = "applied" => ~(Honoured(c) /\ KeyUsed(c))
           /\ \/ status = NoReply
              \/ Success(status)
              \/ Ambiguous(status)
              \/ fate = "refused"
  BY SMTT(30) DEF WorldStep, Lose, ProviderApplies, ProviderReplays,
                  ProviderRefuses, Settle, CopyStates

-----------------------------------------------------------------------------
(* The steps of a thread, one by one.                                      *)

\* Steps that send nothing and that no answer reaches keep the write-related
\* invariants.
LEMMA SameCopies ==
  ASSUME IInv, UNCHANGED <<options, copies>>
  PROVE  AtMostOnceEffect'
  BY DEF IInv, AtMostOnceEffect, Unrepeatable, Honoured

\* More generally, a step after which nothing is applied that was not before.
LEMMA NothingApplied ==
  ASSUME IInv, UNCHANGED options,
         \A c \in Calls : \A m \in DOMAIN copies'[c] :
           copies'[c][m] = "applied" =>
             m \in DOMAIN copies[c] /\ copies[c][m] = "applied"
  PROVE  AtMostOnceEffect'
  BY DEF IInv, AtMostOnceEffect, Unrepeatable, Honoured

\* Entering execute keeps the invariant.
LEMMA BeginInv ==
  ASSUME IInv, NEW c \in Calls, Begin(c)
  PROVE  IInv'
  <1>1. AtMostOnceEffect'
    BY SameCopies DEF Begin
  <1>2. TypeOK'
    BY DEF IInv, TypeOK, Begin, ControlStates
  <1>3. SleepInv' /\ SentInv' /\ RefusedInv' /\ RejectionIsFinal'
    BY DEF IInv, TypeOK, Begin, SleepInv, SentInv, RefusedInv,
           RejectionIsFinal, Unrepeatable
  <1> QED BY <1>1, <1>2, <1>3 DEF IInv

\* transport.send keeps it: an unrepeatable call had sent nothing before.
LEMMA SendInv ==
  ASSUME IInv, NEW c \in Calls, Send(c)
  PROVE  IInv'
  <1> USE DEF IInv
  <1>1. /\ copies' \in [Calls -> Seq(CopyStates)]
        /\ Len(copies'[c]) = Len(copies[c]) + 1
        /\ \A d \in Calls \ {c} : copies'[d] = copies[d]
        /\ \A m \in DOMAIN copies'[c] :
             copies'[c][m] # "travelling" =>
               m \in DOMAIN copies[c] /\ copies'[c][m] = copies[c][m]
    BY SendCopies
  <1>2. AtMostOnceEffect'
    <2>1. ASSUME NEW d \in Calls, NEW m \in DOMAIN copies'[d],
                 copies'[d][m] = "applied"
          PROVE  m \in DOMAIN copies[d] /\ copies[d][m] = "applied"
      BY <1>1, <2>1
    <2> QED BY <2>1, NothingApplied DEF Send
  <1>3. TypeOK'
    BY <1>1 DEF TypeOK, Send, ControlStates
  <1>4. SleepInv'
    BY DEF Send, SleepInv, TypeOK, Unrepeatable
  <1>5. SentInv'
    <2> SUFFICES ASSUME NEW d \in Calls, Unrepeatable(d)'
                 PROVE  /\ Len(copies'[d]) <= 1
                        /\ pc'[d] \in {"idle", "ready"} => Len(copies'[d]) = 0
      BY DEF SentInv
    <2>1. Unrepeatable(d)
      BY DEF Send, Unrepeatable
    <2>2. CASE d = c
      BY <1>1, <2>1, <2>2 DEF Send, SentInv, TypeOK
    <2>3. CASE d # c
      BY <1>1, <2>1, <2>3 DEF Send, SentInv, TypeOK
    <2> QED BY <2>2, <2>3
  <1>6. RefusedInv' /\ RejectionIsFinal'
    BY <1>1 DEF Send, RefusedInv, RejectionIsFinal, TypeOK, Unrepeatable
  <1> QED BY <1>2, <1>3, <1>4, <1>5, <1>6

\* A 2xx response keeps it.
LEMMA CompleteInv ==
  ASSUME IInv, NEW c \in Calls, Complete(c)
  PROVE  IInv'
  <1>1. AtMostOnceEffect'
    BY SameCopies DEF Complete
  <1>2. TypeOK'
    BY DEF IInv, TypeOK, Complete, ControlStates, Results
  <1>3. SleepInv' /\ SentInv' /\ RefusedInv' /\ RejectionIsFinal'
    BY DEF IInv, TypeOK, Complete, SleepInv, SentInv, RefusedInv,
           RejectionIsFinal, Unrepeatable
  <1> QED BY <1>1, <1>2, <1>3 DEF IInv

\* Both ways into the back-off sleep.
LEMMA RetryInv ==
  ASSUME IInv, NEW c \in Calls, RetryAfterStatus(c) \/ RetryAfterTransport(c)
  PROVE  IInv'
  <1>1. /\ pc[c] = "waiting"
        /\ RetriesTransport(options[c], attempt[c])
        /\ pc' = [pc EXCEPT ![c] = "sleeping"]
        /\ UNCHANGED <<options, attempt, copies, reply, result>>
    BY DEF RetryAfterStatus, RetryAfterTransport, Rejected, RetriesStatus
  <1>2. attempt[c] < MaxAttempts /\ ~Unrepeatable(c)
    BY <1>1, UnrepeatableNotRetried DEF RetriesTransport
  <1>3. AtMostOnceEffect'
    BY <1>1, SameCopies
  <1>4. TypeOK'
    BY <1>1 DEF IInv, TypeOK, ControlStates
  <1>5. SleepInv' /\ SentInv' /\ RefusedInv' /\ RejectionIsFinal'
    BY <1>1, <1>2 DEF IInv, TypeOK, SleepInv, SentInv, RefusedInv,
           RejectionIsFinal, Unrepeatable
  <1> QED BY <1>3, <1>4, <1>5 DEF IInv

\* Raising a mapped error keeps it: a definitive one comes with a refused copy.
LEMMA RaiseStatusInv ==
  ASSUME IInv, NEW c \in Calls, RaiseStatus(c)
  PROVE  IInv'
  <1> DEFINE error == ErrorOf(reply[c])
  <1>1. reply[c] \in Nat /\ ~Success(reply[c]) /\ pc[c] = "waiting"
    BY StatusAssumption DEF IInv, TypeOK, RaiseStatus, Rejected
  <1>2. error \in ErrorTypes
    BY <1>1, ErrorOfType
  <1>3. AtMostOnceEffect'
    BY SameCopies DEF RaiseStatus
  <1>4. Retryable(options[c], reply[c]) \in BOOLEAN
    BY DEF Retryable
  <1>5. result' \in [Calls -> Results]
    <2>1. [type |-> error, retryable |-> Retryable(options[c], reply[c])] \in Results
      BY <1>2, <1>4 DEF Results
    <2> HIDE DEF error
    <2> QED BY <2>1 DEF IInv, TypeOK, RaiseStatus, error
  <1>6. TypeOK'
    BY <1>5 DEF IInv, TypeOK, RaiseStatus, ControlStates
  <1>7. SleepInv' /\ SentInv' /\ RefusedInv'
    BY DEF IInv, TypeOK, RaiseStatus, SleepInv, SentInv, RefusedInv, Unrepeatable
  <1>8. result'[c].type = error /\ \A d \in Calls \ {c} : result'[d] = result[d]
    <2> HIDE DEF error
    <2> QED BY DEF IInv, TypeOK, RaiseStatus, error
  <1>9. RejectionIsFinal'
    <2> SUFFICES ASSUME NEW d \in Calls, pc'[d] = "raised", Unrepeatable(d)',
                        AuditOutcome(result'[d].type) = "failed"
                 PROVE  \A n \in DOMAIN copies'[d] : copies'[d][n] = "refused"
      BY DEF RejectionIsFinal
    <2>1. Unrepeatable(d) /\ copies' = copies
      BY DEF RaiseStatus, Unrepeatable
    <2>2. CASE d = c
      <3>1. ~Ambiguous(reply[c])
        BY <1>1, <1>8, <2>2, FailedIsDefinitive
      <3> QED BY <1>1, <2>1, <2>2, <3>1 DEF IInv, RefusedInv, RaiseStatus, Rejected
    <2>3. CASE d # c
      <3>1. pc[d] = "raised" /\ result'[d] = result[d]
        BY <1>8, <2>3 DEF RaiseStatus, IInv, TypeOK
      <3> QED BY <2>1, <3>1 DEF IInv, RejectionIsFinal
    <2> QED BY <2>2, <2>3
  <1> QED BY <1>3, <1>6, <1>7, <1>9 DEF IInv

\* A transport error keeps it: it is audited as unknown, never as failed.
LEMMA RaiseTransportInv ==
  ASSUME IInv, NEW c \in Calls, RaiseTransport(c)
  PROVE  IInv'
  <1>1. PICK error \in {"Timeout", "Network"} :
          result' = [result EXCEPT ![c] = [type |-> error, retryable |-> FALSE]]
    BY DEF RaiseTransport
  <1>2. AtMostOnceEffect'
    BY SameCopies DEF RaiseTransport
  <1>3. TypeOK'
    BY <1>1 DEF IInv, TypeOK, RaiseTransport, ControlStates, Results, ErrorTypes
  <1>4. SleepInv' /\ SentInv' /\ RefusedInv'
    BY DEF IInv, TypeOK, RaiseTransport, SleepInv, SentInv, RefusedInv, Unrepeatable
  <1>5. RejectionIsFinal'
    BY <1>1 DEF IInv, TypeOK, RaiseTransport, RejectionIsFinal, Unrepeatable,
                AuditOutcome
  <1> QED BY <1>2, <1>3, <1>4, <1>5 DEF IInv

\* The next attempt keeps it: only a repeatable call was asleep.
LEMMA WakeInv ==
  ASSUME IInv, NEW c \in Calls, Wake(c)
  PROVE  IInv'
  <1>1. AtMostOnceEffect'
    BY SameCopies DEF Wake
  <1>2. attempt[c] < MaxAttempts /\ ~Unrepeatable(c)
    BY DEF IInv, Wake, SleepInv
  <1>3. TypeOK'
    BY <1>2, MaxAttemptsAssumption DEF IInv, TypeOK, Wake, ControlStates
  <1>4. SleepInv' /\ SentInv' /\ RefusedInv' /\ RejectionIsFinal'
    BY <1>2 DEF IInv, TypeOK, Wake, SleepInv, SentInv, RefusedInv,
                RejectionIsFinal, Unrepeatable
  <1> QED BY <1>1, <1>3, <1>4 DEF IInv

-----------------------------------------------------------------------------
(* The network and the provider.                                           *)

\* A copy that is newly applied is the only one of its write.
LEMMA AppliedOnce ==
  ASSUME IInv, NEW c \in Calls, NEW n \in DOMAIN copies[c], NEW status,
         Settle(c, n, "applied", status), ~(Honoured(c) /\ KeyUsed(c))
  PROVE  AtMostOnceEffect'
  <1>1. "applied" \in CopyStates
    BY DEF CopyStates
  <1>2. /\ DOMAIN copies'[c] = DOMAIN copies[c]
        /\ \A d \in Calls \ {c} : copies'[d] = copies[d]
        /\ \A m \in DOMAIN copies[c] : m # n => copies'[c][m] = copies[c][m]
    BY <1>1, SettleCopies DEF IInv
  <1>3. ASSUME NEW d \in Calls, NEW m \in DOMAIN copies'[d],
               copies'[d][m] = "applied", d # c \/ m # n
        PROVE  m \in DOMAIN copies[d] /\ copies[d][m] = "applied"
    BY <1>2, <1>3
  <1>4. options' = options
    BY DEF Settle
  <1>5. ASSUME NEW d \in Calls, Honoured(c), Honoured(d),
               options[c].key = options[d].key, NEW m \in DOMAIN copies'[d],
               copies'[d][m] = "applied"
        PROVE  d = c /\ m = n
    BY <1>3, <1>5 DEF KeyUsed, Applied
  <1>6. ASSUME NEW d \in Calls, Unrepeatable(d),
               NEW i \in DOMAIN copies'[d], NEW j \in DOMAIN copies'[d]
        PROVE  i = j
    <2>1. DOMAIN copies'[d] = DOMAIN copies[d]
      BY <1>2
    <2>2. copies[d] \in Seq(CopyStates) /\ Len(copies[d]) <= 1
      BY <1>6 DEF IInv, TypeOK, SentInv
    <2>3. DOMAIN copies[d] = 1..Len(copies[d]) /\ Len(copies[d]) \in Nat
      BY <2>2, LenProperties
    <2> QED BY <1>6, <2>1, <2>2, <2>3
  <1> SUFFICES ASSUME NEW a \in Calls, NEW b \in Calls,
                      NEW i \in DOMAIN copies'[a], NEW j \in DOMAIN copies'[b],
                      copies'[a][i] = "applied", copies'[b][j] = "applied",
                      \/ a = b /\ Unrepeatable(a)
                      \/ Honoured(a) /\ Honoured(b) /\ options[a].key = options[b].key
               PROVE  a = b /\ i = j
    BY <1>4 DEF AtMostOnceEffect, Unrepeatable, Honoured
  <1>7. CASE a = b /\ Unrepeatable(a)
    BY <1>6, <1>7
  <1>8. CASE Honoured(a) /\ Honoured(b) /\ options[a].key = options[b].key
    <2>1. CASE a = c /\ i = n
      BY <1>5, <1>8, <2>1
    <2>2. CASE b = c /\ j = n
      BY <1>5, <1>8, <2>2
    <2>3. CASE ~(a = c /\ i = n) /\ ~(b = c /\ j = n)
      BY <1>3, <1>8, <2>3 DEF IInv, AtMostOnceEffect
    <2> QED BY <2>1, <2>2, <2>3
  <1> QED BY <1>7, <1>8

\* Whatever happens to a copy outside the engine keeps it.
LEMMA WorldInv ==
  ASSUME IInv, NEW c \in Calls, WorldStep(c)
  PROVE  IInv'
  <1> USE DEF IInv
  <1>1. PICK n \in DOMAIN copies[c], fate \in CopyStates,
             status \in Statuses \cup {NoReply} :
           /\ Settle(c, n, fate, status)
           /\ copies[c][n] = "travelling"
           /\ fate = "applied" => ~(Honoured(c) /\ KeyUsed(c))
           /\ \/ status = NoReply
              \/ Success(status)
              \/ Ambiguous(status)
              \/ fate = "refused"
    BY WorldSettles
  <1>2. /\ copies' \in [Calls -> Seq(CopyStates)]
        /\ Len(copies'[c]) = Len(copies[c])
        /\ DOMAIN copies'[c] = DOMAIN copies[c]
        /\ \A d \in Calls \ {c} : copies'[d] = copies[d]
        /\ copies'[c][n] = fate
        /\ \A m \in DOMAIN copies[c] : m # n => copies'[c][m] = copies[c][m]
    BY <1>1, SettleCopies
  <1>3. UNCHANGED <<options, pc, attempt, result>>
    BY <1>1 DEF Settle
  <1>4. AtMostOnceEffect'
    <2>1. CASE fate = "applied"
      BY <1>1, <2>1, AppliedOnce
    <2>2. CASE fate # "applied"
      <3>1. ASSUME NEW d \in Calls, NEW m \in DOMAIN copies'[d],
                   copies'[d][m] = "applied"
            PROVE  m \in DOMAIN copies[d] /\ copies[d][m] = "applied"
        BY <1>2, <2>2, <3>1
      <3> QED BY <1>3, <3>1, NothingApplied
    <2> QED BY <2>1, <2>2
  <1>5. reply' \in [Calls -> Statuses \cup {NoReply}]
    BY <1>1 DEF Settle, TypeOK
  <1>6. TypeOK'
    BY <1>2, <1>3, <1>5 DEF TypeOK
  <1>7. SleepInv' /\ SentInv'
    BY <1>2, <1>3 DEF SleepInv, SentInv, Unrepeatable
  <1>8. ASSUME NEW d \in Calls, NEW m \in DOMAIN copies[d],
               copies[d][m] = "refused"
        PROVE  copies'[d][m] = "refused"
    BY <1>1, <1>2, <1>8
  <1>9. RejectionIsFinal'
    BY <1>2, <1>3, <1>8 DEF RejectionIsFinal, Unrepeatable
  <1>10. RefusedInv'
    <2> SUFFICES ASSUME NEW d \in Calls, Unrepeatable(d)', pc'[d] = "waiting",
                        reply'[d] # NoReply, ~Success(reply'[d]),
                        ~Ambiguous(reply'[d]),
                        NEW m \in DOMAIN copies'[d]
                 PROVE  copies'[d][m] = "refused"
      BY DEF RefusedInv
    <2>1. Unrepeatable(d) /\ pc[d] = "waiting" /\ DOMAIN copies'[d] = DOMAIN copies[d]
      BY <1>2, <1>3 DEF Unrepeatable
    <2>2. CASE reply'[d] = reply[d]
      BY <1>8, <2>1, <2>2 DEF RefusedInv
    <2>3. CASE reply'[d] # reply[d]
      <3>1. d = c /\ reply'[c] = status
        BY <1>1, <2>3 DEF Settle, TypeOK
      <3>2. fate = "refused"
        BY <1>1, <3>1
      <3>3. m = n
        <4>1. copies[c] \in Seq(CopyStates) /\ Len(copies[c]) <= 1
          BY <2>1, <3>1 DEF TypeOK, SentInv
        <4>2. DOMAIN copies[c] = 1..Len(copies[c]) /\ Len(copies[c]) \in Nat
          BY <4>1, LenProperties
        <4> QED BY <2>1, <3>1, <4>1, <4>2
      <3> QED BY <1>2, <3>1, <3>2, <3>3
    <2> QED BY <2>2, <2>3
  <1> QED BY <1>4, <1>6, <1>7, <1>9, <1>10

-----------------------------------------------------------------------------
(* The theorems.                                                           *)

\* The invariant holds before the first call.
LEMMA InitInv == Init => IInv
  <1> SUFFICES ASSUME Init PROVE IInv
    OBVIOUS
  <1>1. <<>> \in Seq(CopyStates) /\ Len(<<>>) = 0
    BY EmptySeq
  <1>2. DOMAIN <<>> = {}
    BY <1>1, LenProperties
  <1>3. TypeOK
    BY <1>1, MaxAttemptsAssumption
    DEF Init, TypeOK, ControlStates, NoResult, Results
  <1>4. SleepInv /\ SentInv /\ RefusedInv
    BY <1>1 DEF Init, SleepInv, SentInv, RefusedInv
  <1>5. AtMostOnceEffect /\ RejectionIsFinal
    BY <1>2 DEF Init, AtMostOnceEffect, RejectionIsFinal
  <1> QED BY <1>3, <1>4, <1>5 DEF IInv

\* Every step of a thread, the network or the provider keeps the invariant.
LEMMA StepInv == IInv /\ [Next]_vars => IInv'
  <1> SUFFICES ASSUME IInv, [Next]_vars PROVE IInv'
    OBVIOUS
  <1>1. CASE UNCHANGED vars
    BY <1>1 DEF vars, IInv, TypeOK, SleepInv, SentInv, RefusedInv,
                AtMostOnceEffect, RejectionIsFinal, Unrepeatable, Honoured
  <1>2. ASSUME NEW c \in Calls, Begin(c) PROVE IInv'
    BY <1>2, BeginInv
  <1>3. ASSUME NEW c \in Calls, ThreadStep(c) PROVE IInv'
    BY <1>3, SendInv, CompleteInv, RetryInv, RaiseStatusInv,
       RaiseTransportInv, WakeInv DEF ThreadStep
  <1>4. ASSUME NEW c \in Calls, WorldStep(c) PROVE IInv'
    BY <1>4, WorldInv
  <1> QED BY <1>1, <1>2, <1>3, <1>4 DEF Next

\* The strengthened invariant of RequestEngine.execute holds in every reachable
\* state; the three theorems below are read off it.
THEOREM Invariance == Spec => []IInv
  BY InitInv, StepInv, PTL DEF Spec

\* RequestEngine.execute keeps its variables in their types: in particular the
\* loop counter never passes max_attempts.
THEOREM TypeCorrect == Spec => []TypeOK
  <1>1. IInv => TypeOK
    BY DEF IInv
  <1> QED BY <1>1, Invariance, PTL

\* An unsafe write, or a write protected by a shared key, is performed at most
\* once, for any number of calls, attempts and statuses.
THEOREM AtMostOnce == Spec => []AtMostOnceEffect
  <1>1. IInv => AtMostOnceEffect
    BY DEF IInv
  <1> QED BY <1>1, Invariance, PTL

\* A definitive error of an unrepeatable call stays true forever: no late copy
\* can undo it.
THEOREM RejectionsAreFinal == Spec => []RejectionIsFinal
  <1>1. IInv => RejectionIsFinal
    BY DEF IInv
  <1> QED BY <1>1, Invariance, PTL


-----------------------------------------------------------------------------
(* What a returned response and a retryable error tell.  Both need to know *)
(* how the state of the loop relates to the copies sent so far.            *)

\* The provider acted on a copy of the call, or on another call with its key.
Acted(c) == Applied(c) \/ (Honoured(c) /\ KeyUsed(c))

\* A 2xx that waits to be read was caused by an effect.
AnswerInv ==
  \A c \in Calls :
    pc[c] = "waiting" /\ reply[c] # NoReply /\ Success(reply[c]) => Acted(c)

ActedInv == AnswerInv /\ ResponseMeansApplied

\* The copies that a pass through the loop has sent by now.
Attempted(c) ==
  IF pc[c] \in {"idle", "ready"} THEN attempt[c] - 1 ELSE attempt[c]

CountInv == \A c \in Calls : Len(copies[c]) = Attempted(c)

FlagInv == \A c \in Calls : result[c].retryable => pc[c] = "raised"

\* What was applied stays applied, so a call that was acted on stays so.
LEMMA ActedStays ==
  ASSUME UNCHANGED options,
         \A d \in Calls : \A m \in DOMAIN copies[d] :
           copies[d][m] = "applied" =>
             m \in DOMAIN copies'[d] /\ copies'[d][m] = "applied",
         NEW c \in Calls, Acted(c)
  PROVE  Acted(c)'
  <1>1. ASSUME NEW d \in Calls, Applied(d) PROVE Applied(d)'
    BY <1>1 DEF Applied
  <1>2. \A d \in Calls : Honoured(d)' <=> Honoured(d)
    BY DEF Honoured
  <1> QED BY <1>1, <1>2 DEF Acted, KeyUsed

\* transport.send leaves every earlier copy as it was.
LEMMA SendKeepsCopies ==
  ASSUME TypeOK, NEW c \in Calls, Send(c), NEW d \in Calls,
         NEW m \in DOMAIN copies[d]
  PROVE  m \in DOMAIN copies'[d] /\ copies'[d][m] = copies[d][m]
  <1>1. CASE d = c
    <2>1. copies[c] \in Seq(CopyStates) /\ "travelling" \in CopyStates
      BY DEF TypeOK, CopyStates
    <2>2. copies'[c] = Append(copies[c], "travelling")
      BY DEF Send, TypeOK
    <2> QED BY <1>1, <2>1, <2>2, AppendProperties, LenProperties
  <1>2. CASE d # c
    BY <1>2, SendCopies
  <1> QED BY <1>1, <1>2

\* The world outside the engine settles copies that travelled, and answers a
\* success only to what is applied, now or under its key.
LEMMA WorldEffects ==
  ASSUME TypeOK, NEW c \in Calls, WorldStep(c)
  PROVE  /\ UNCHANGED <<options, pc, attempt, result>>
         /\ \A d \in Calls : Len(copies'[d]) = Len(copies[d])
         /\ \A d \in Calls : \A m \in DOMAIN copies[d] :
              copies[d][m] # "travelling" =>
                m \in DOMAIN copies'[d] /\ copies'[d][m] = copies[d][m]
         /\ \A d \in Calls : \A m \in DOMAIN copies'[d] :
              /\ m \in DOMAIN copies[d]
              /\ copies'[d][m] = copies[d][m] \/ copies[d][m] = "travelling"
         /\ \A d \in Calls :
              \/ reply'[d] = reply[d]
              \/ reply'[d] = NoReply
              \/ ~Success(reply'[d])
              \/ Applied(d)' \/ (Honoured(d) /\ KeyUsed(d))
  <1>1. PICK n \in DOMAIN copies[c], fate \in CopyStates,
             status \in Statuses \cup {NoReply} :
           /\ Settle(c, n, fate, status)
           /\ copies[c][n] = "travelling"
           /\ \/ status = NoReply
              \/ ~Success(status)
              \/ fate = "applied"
              \/ Honoured(c) /\ KeyUsed(c)
    BY SMTT(30) DEF WorldStep, Lose, ProviderApplies, ProviderReplays,
                    ProviderRefuses, Settle, CopyStates
  <1>2. /\ Len(copies'[c]) = Len(copies[c])
        /\ DOMAIN copies'[c] = DOMAIN copies[c]
        /\ \A d \in Calls \ {c} : copies'[d] = copies[d]
        /\ copies'[c][n] = fate
        /\ \A m \in DOMAIN copies[c] : m # n => copies'[c][m] = copies[c][m]
    BY <1>1, SettleCopies
  <1>3. UNCHANGED <<options, pc, attempt, result>>
    BY <1>1 DEF Settle
  <1>4. \A d \in Calls : reply'[d] = reply[d] \/ (d = c /\ reply'[d] = status)
    BY <1>1 DEF Settle, TypeOK
  <1>5. fate = "applied" => Applied(c)'
    BY <1>2 DEF Applied
  <1>6. \A d \in Calls : \/ reply'[d] = reply[d]
                         \/ reply'[d] = NoReply
                         \/ ~Success(reply'[d])
                         \/ Applied(d)' \/ (Honoured(d) /\ KeyUsed(d))
    BY <1>1, <1>4, <1>5
  <1>7. \A d \in Calls : Len(copies'[d]) = Len(copies[d])
    BY <1>2
  <1>8. \A d \in Calls : \A m \in DOMAIN copies[d] :
          copies[d][m] # "travelling" =>
            m \in DOMAIN copies'[d] /\ copies'[d][m] = copies[d][m]
    BY <1>1, <1>2
  <1>9. \A d \in Calls : \A m \in DOMAIN copies'[d] :
          /\ m \in DOMAIN copies[d]
          /\ copies'[d][m] = copies[d][m] \/ copies[d][m] = "travelling"
    BY <1>1, <1>2
  <1> QED BY <1>3, <1>6, <1>7, <1>8, <1>9

\* No step of a thread undoes an effect.
LEMMA ThreadKeepsActed ==
  ASSUME TypeOK, NEW c \in Calls, Begin(c) \/ ThreadStep(c),
         NEW d \in Calls, Acted(d)
  PROVE  Acted(d)'
  <1>1. CASE Send(c)
    <2>1. UNCHANGED options
      BY <1>1 DEF Send
    <2> QED BY <1>1, <2>1, SendKeepsCopies, ActedStays
  <1>2. CASE UNCHANGED <<options, copies>>
    BY <1>2, ActedStays
  <1> QED BY <1>1, <1>2 DEF Begin, ThreadStep, Complete, RetryAfterStatus,
          RaiseStatus, RetryAfterTransport, RaiseTransport, Wake

\* The steps of execute keep the link between a 2xx and an effect.
LEMMA ThreadActed ==
  ASSUME TypeOK, ActedInv, NEW c \in Calls, Begin(c) \/ ThreadStep(c)
  PROVE  ActedInv'
  <1> USE DEF ActedInv
  <1>1. ASSUME NEW d \in Calls, Acted(d) PROVE Acted(d)'
    BY <1>1, ThreadKeepsActed
  <1>2. CASE Send(c)
    BY <1>1, <1>2 DEF AnswerInv, ResponseMeansApplied, Acted, Send, TypeOK
  <1>3. CASE Complete(c)
    <2>1. Acted(c)
      BY <1>3 DEF Complete, AnswerInv
    <2> QED BY <1>1, <1>3, <2>1
            DEF Complete, AnswerInv, ResponseMeansApplied, Acted, TypeOK
  <1>4. ASSUME \/ Begin(c) \/ RetryAfterStatus(c) \/ RaiseStatus(c)
               \/ RetryAfterTransport(c) \/ RaiseTransport(c) \/ Wake(c)
        PROVE  ActedInv'
    <2>1. /\ UNCHANGED reply
          /\ \E p \in {"ready", "sleeping", "raised"} : pc' = [pc EXCEPT ![c] = p]
      BY <1>4 DEF Begin, RetryAfterStatus, RaiseStatus, RetryAfterTransport,
                  RaiseTransport, Wake
    <2> QED BY <1>1, <2>1 DEF AnswerInv, ResponseMeansApplied, Acted, TypeOK
  <1> QED BY <1>2, <1>3, <1>4 DEF ThreadStep

\* So do the network and the provider.
LEMMA WorldActed ==
  ASSUME TypeOK, ActedInv, NEW c \in Calls, WorldStep(c)
  PROVE  ActedInv'
  <1>1. ASSUME NEW d \in Calls, Acted(d) PROVE Acted(d)'
    BY <1>1, WorldEffects, ActedStays
  <1>2. ASSUME NEW d \in Calls, Applied(d)' \/ (Honoured(d) /\ KeyUsed(d))
        PROVE  Acted(d)'
    BY <1>1, <1>2 DEF Acted
  <1>3. AnswerInv'
    BY <1>1, <1>2, WorldEffects DEF ActedInv, AnswerInv
  <1>4. ResponseMeansApplied'
    BY <1>1, WorldEffects DEF ActedInv, ResponseMeansApplied, Acted
  <1> QED BY <1>3, <1>4 DEF ActedInv

\* A step of execute and the copies it has sent advance together.
LEMMA CopiesPerAttempt ==
  ASSUME TypeOK, NEW c \in Calls, Begin(c) \/ ThreadStep(c), NEW d \in Calls
  PROVE  /\ Len(copies[d]) \in Nat /\ Attempted(d) \in Int /\ Attempted(d)' \in Int
         /\ Len(copies'[d]) - Attempted(d)' = Len(copies[d]) - Attempted(d)
  <1>1. Len(copies[d]) \in Nat /\ attempt[d] \in Int
    BY LenProperties, MaxAttemptsAssumption DEF TypeOK
  <1>2. CASE Send(c)
    <2>1. /\ Len(copies'[c]) = Len(copies[c]) + 1
          /\ d # c => copies'[d] = copies[d]
      BY <1>2, SendCopies
    <2>2. /\ attempt' = attempt
          /\ pc[c] = "ready" /\ pc'[c] = "waiting"
          /\ d # c => pc'[d] = pc[d]
      BY <1>2 DEF Send, TypeOK
    <2>3. CASE d = c
      <3>1. Attempted(d) = attempt[d] - 1 /\ Attempted(d)' = attempt[d]
        BY <2>2, <2>3 DEF Attempted
      <3> HIDE DEF Attempted
      <3> QED BY <1>1, <2>1, <2>3, <3>1
    <2>4. CASE d # c
      <3>1. Attempted(d)' = Attempted(d) /\ Attempted(d) \in Int
        BY <1>1, <2>2, <2>4 DEF Attempted
      <3> HIDE DEF Attempted
      <3> QED BY <1>1, <2>1, <2>4, <3>1
    <2> QED BY <2>3, <2>4
  <1>3. CASE Begin(c)
    BY <1>1, <1>3 DEF Begin, Attempted, TypeOK
  <1>4. CASE Wake(c)
    <2>1. /\ copies' = copies /\ attempt'[c] = attempt[c] + 1
          /\ pc[c] = "sleeping" /\ pc'[c] = "ready"
          /\ d # c => attempt'[d] = attempt[d] /\ pc'[d] = pc[d]
      BY <1>4 DEF Wake, TypeOK
    <2> QED BY <1>1, <2>1 DEF Attempted
  <1>5. CASE \/ Complete(c) \/ RetryAfterStatus(c) \/ RaiseStatus(c)
             \/ RetryAfterTransport(c) \/ RaiseTransport(c)
    BY <1>1, <1>5 DEF Complete, RetryAfterStatus, RaiseStatus, Rejected,
         RetryAfterTransport, RaiseTransport, Attempted, TypeOK
  <1> QED BY <1>2, <1>3, <1>4, <1>5 DEF ThreadStep

\* A retryable error ends the last attempt of a repeatable call; the copies
\* count the attempts.
LEMMA ThreadExhausts ==
  ASSUME TypeOK, CountInv, FlagInv, RetryableMeansExhausted,
         NEW c \in Calls, Begin(c) \/ ThreadStep(c)
  PROVE  CountInv' /\ FlagInv' /\ RetryableMeansExhausted'
  <1>1. CountInv'
    BY CopiesPerAttempt DEF CountInv
  <1>2. ASSUME Begin(c) \/ Send(c) \/ RetryAfterStatus(c)
               \/ RetryAfterTransport(c) \/ Wake(c)
        PROVE  FlagInv' /\ RetryableMeansExhausted'
    <2>1. /\ UNCHANGED <<options, result>>
          /\ pc[c] # "raised"
          /\ \A d \in Calls \ {c} : /\ pc'[d] = pc[d] /\ attempt'[d] = attempt[d]
                                    /\ copies'[d] = copies[d]
      BY <1>2 DEF Begin, Send, RetryAfterStatus, RetryAfterTransport, Wake,
                  Rejected, TypeOK
    <2>2. ~result[c].retryable
      BY <2>1 DEF FlagInv
    <2> QED BY <2>1, <2>2 DEF FlagInv, RetryableMeansExhausted, Unrepeatable
  <1>3. ASSUME NEW r \in Results, result' = [result EXCEPT ![c] = r],
               UNCHANGED <<options, attempt, copies>>, pc[c] = "waiting",
               NEW p, pc' = [pc EXCEPT ![c] = p],
               r.retryable => p = "raised" /\ attempt[c] = MaxAttempts
                              /\ ~Unrepeatable(c)
        PROVE  FlagInv' /\ RetryableMeansExhausted'
    <2>1. \A d \in Calls \ {c} : result'[d] = result[d] /\ pc'[d] = pc[d]
      BY <1>3 DEF TypeOK
    <2>2. result'[c] = r /\ pc'[c] = p /\ Len(copies[c]) = attempt[c]
      BY <1>3 DEF TypeOK, CountInv, Attempted
    <2> QED BY <1>3, <2>1, <2>2 DEF FlagInv, RetryableMeansExhausted, Unrepeatable
  <1>4. ASSUME Complete(c) PROVE FlagInv' /\ RetryableMeansExhausted'
    <2> DEFINE r == [type |-> "response", retryable |-> FALSE]
    <2>1. r \in Results /\ ~r.retryable
      BY DEF Results
    <2> HIDE DEF r
    <2> QED BY <1>3, <1>4, <2>1 DEF Complete, r
  <1>5. ASSUME RaiseTransport(c) PROVE FlagInv' /\ RetryableMeansExhausted'
    <2>1. PICK error \in {"Timeout", "Network"} :
            result' = [result EXCEPT ![c] = [type |-> error, retryable |-> FALSE]]
      BY <1>5 DEF RaiseTransport
    <2> DEFINE r == [type |-> error, retryable |-> FALSE]
    <2>2. r \in Results /\ ~r.retryable
      BY DEF Results, ErrorTypes
    <2> HIDE DEF r
    <2> QED BY <1>3, <1>5, <2>1, <2>2 DEF RaiseTransport, r
  <1>6. ASSUME RaiseStatus(c) PROVE FlagInv' /\ RetryableMeansExhausted'
    <2> DEFINE flag == Retryable(options[c], reply[c])
               r == [type |-> ErrorOf(reply[c]), retryable |-> flag]
    <2>1. /\ reply[c] \in Nat /\ attempt[c] \in 1..MaxAttempts
          /\ options[c] \in Options
      BY <1>6, StatusAssumption, OperationsAssumption
      DEF TypeOK, RaiseStatus, Rejected
    <2>2. r \in Results /\ r.retryable = flag
      BY <2>1, ErrorOfType DEF Results, Retryable
    <2>3. flag => attempt[c] = MaxAttempts
      <3>1. attempt[c] \in Nat /\ attempt[c] <= MaxAttempts
        BY <2>1, MaxAttemptsAssumption
      <3>2. ~RetriesStatus(options[c], attempt[c], reply[c])
        BY <1>6 DEF RaiseStatus
      <3>3. attempt[c] < MaxAttempts => ~flag
        BY <2>1, <3>1, <3>2, RetryRulesAgree
      <3> QED BY <3>1, <3>3, MaxAttemptsAssumption
    <2>4. flag => ~Unrepeatable(c)
      BY DEF Retryable, Unrepeatable
    <2>5. /\ result' = [result EXCEPT ![c] = r]
          /\ pc' = [pc EXCEPT ![c] = "raised"] /\ pc[c] = "waiting"
          /\ UNCHANGED <<options, attempt, copies>>
      BY <1>6 DEF RaiseStatus, Rejected
    <2> HIDE DEF r, flag
    <2> QED BY <1>3, <2>2, <2>3, <2>4, <2>5
  <1> QED BY <1>1, <1>2, <1>4, <1>5, <1>6 DEF ThreadStep

\* The invariant of the two theorems below: the one above, and what links the
\* answers, the attempts and the flag to the copies.
EngineInv ==
  IInv /\ ActedInv /\ CountInv /\ FlagInv /\ RetryableMeansExhausted

\* It holds before the first call.
LEMMA InitEngine == Init => EngineInv
  <1> SUFFICES ASSUME Init PROVE EngineInv
    OBVIOUS
  <1>1. IInv
    BY InitInv
  <1>2. ActedInv
    BY DEF Init, ActedInv, AnswerInv, ResponseMeansApplied
  <1>3. CountInv
    BY EmptySeq DEF Init, CountInv, Attempted
  <1>4. FlagInv /\ RetryableMeansExhausted
    BY DEF Init, FlagInv, RetryableMeansExhausted, NoResult
  <1> QED BY <1>1, <1>2, <1>3, <1>4 DEF EngineInv

\* Every step of a thread, the network or the provider keeps it.
LEMMA StepEngine == EngineInv /\ [Next]_vars => EngineInv'
  <1> SUFFICES ASSUME EngineInv, [Next]_vars PROVE EngineInv'
    OBVIOUS
  <1>1. IInv' /\ TypeOK
    BY StepInv DEF EngineInv, IInv
  <1>2. CASE UNCHANGED vars
    BY <1>1, <1>2 DEF vars, EngineInv, ActedInv, AnswerInv, ResponseMeansApplied,
         Acted, Applied, KeyUsed, Honoured, CountInv, Attempted, FlagInv,
         RetryableMeansExhausted, Unrepeatable
  <1>3. ASSUME NEW c \in Calls, Begin(c) \/ ThreadStep(c) PROVE EngineInv'
    BY <1>1, <1>3, ThreadActed, ThreadExhausts DEF EngineInv
  <1>4. ASSUME NEW c \in Calls, WorldStep(c) PROVE EngineInv'
    <2>1. ActedInv'
      BY <1>1, <1>4, WorldActed DEF EngineInv
    <2>2. /\ UNCHANGED <<options, pc, attempt, result>>
          /\ \A d \in Calls : Len(copies'[d]) = Len(copies[d])
      BY <1>1, <1>4, WorldEffects
    <2>3. CountInv' /\ FlagInv' /\ RetryableMeansExhausted'
      BY <2>2 DEF EngineInv, CountInv, Attempted, FlagInv,
                  RetryableMeansExhausted, Unrepeatable
    <2> QED BY <1>1, <2>1, <2>3 DEF EngineInv
  <1> QED BY <1>2, <1>3, <1>4 DEF Next

\* It holds in every reachable state of RequestEngine.execute.
THEOREM EngineInvariance == Spec => []EngineInv
  BY InitEngine, StepEngine, PTL DEF Spec

\* A response reaches the caller only after the provider acted on a copy of the
\* call or under its honoured key (execute returns on a 2xx alone).
THEOREM ResponsesAreEarned == Spec => []ResponseMeansApplied
  <1>1. EngineInv => ResponseMeansApplied
    BY DEF EngineInv, ActedInv
  <1> QED BY <1>1, EngineInvariance, PTL

\* An error flagged retryable by _map_error comes after exactly max_attempts
\* submissions of a repeatable call, for any limit and any statuses.
THEOREM RetryableIsExhausted == Spec => []RetryableMeansExhausted
  <1>1. EngineInv => RetryableMeansExhausted
    BY DEF EngineInv
  <1> QED BY <1>1, EngineInvariance, PTL

=============================================================================

--------------------------- MODULE WriteRetryProofs ---------------------------
(***************************************************************************)
(* For every choice of delays, budget and timeout, a call of Client.do     *)
(* keeps its budget, gives up on long writes only and has its request      *)
(* carried out at most once.                                               *)
(***************************************************************************)
EXTENDS WriteRetry, TLAPS

LEMMA TypeHolds == Spec => []TypeOK
<1> USE DelaysAssumption, TimesAssumption
<1>1. Init => TypeOK
  BY DEF Init, TypeOK, Statuses
<1>2. TypeOK /\ [Next]_vars => TypeOK'
  <2> SUFFICES ASSUME TypeOK, [Next]_vars
               PROVE  TypeOK'
    OBVIOUS
  <2> USE DEF TypeOK, Statuses, NoAnswer
  <2>1. \A l \in Latencies : now + l \in Nat
    OBVIOUS
  <2>2. CASE Succeed
    BY <2>1, <2>2 DEF Succeed
  <2>3. CASE Fail
    BY <2>1, <2>3 DEF Fail
  <2>4. CASE Refused
    BY <2>1, <2>4 DEF Refused
  <2>5. CASE GiveUp \/ KeepTrying \/ Cancel
    BY <2>5 DEF GiveUp, KeepTrying, Cancel
  <2>6. CASE WakeUp
    BY <2>6 DEF WakeUp, NextDelay
  <2>7. CASE UNCHANGED vars
    BY <2>7 DEF vars
  <2> QED
    BY <2>2, <2>3, <2>4, <2>5, <2>6, <2>7 DEF Next
<1> QED
  BY <1>1, <1>2, PTL DEF Spec

\* The invariant adds what the deadline test leaves behind: a call that waits
\* wakes up inside the budget, and a refused one was refused less than a
\* timeout ago by a write that was settling then.
LEMMA RetryStep == TypeOK /\ TypeOK' /\ RetryInv /\ [Next]_vars => RetryInv'
<1> USE DelaysAssumption, TimesAssumption
<1> SUFFICES ASSUME TypeOK, TypeOK', RetryInv, [Next]_vars
             PROVE  RetryInv'
  OBVIOUS
<1> USE DEF TypeOK, RetryInv, ShortWritesWaitedOut, NoAnswer
<1>1. clear \in Nat /\ clear' \in Nat
  OBVIOUS
<1>2. \A l \in Latencies : l \in Nat /\ l <= Timeout
  OBVIOUS
<1>3. CASE Succeed
  BY <1>2, <1>3 DEF Succeed
<1>4. CASE Fail
  BY <1>2, <1>4 DEF Fail
<1>5. CASE Refused
  BY <1>1, <1>2, <1>5 DEF Refused
<1>6. CASE GiveUp
  BY <1>1, <1>6 DEF GiveUp, PastBudget
<1>7. CASE KeepTrying
  BY <1>1, <1>7 DEF KeepTrying, PastBudget
<1>8. CASE WakeUp
  BY <1>1, <1>8 DEF WakeUp
<1>9. CASE Cancel
  BY <1>1, <1>9 DEF Cancel
<1>10. CASE UNCHANGED vars
  BY <1>10 DEF vars
<1> QED
  BY <1>3, <1>4, <1>5, <1>6, <1>7, <1>8, <1>9, <1>10 DEF Next

\* Whatever the API does, a call of Client.do starts no attempt after its budget
\* and does not give up on a write that settled with a delay and a request to
\* spare.
THEOREM RetryCorrect == Spec => [](TypeOK /\ WithinBudget /\ ShortWritesWaitedOut)
<1>1. Init => RetryInv
  BY DelaysAssumption, TimesAssumption DEF Init, RetryInv
<1>2. TypeOK /\ RetryInv => WithinBudget /\ ShortWritesWaitedOut
  BY DelaysAssumption, TimesAssumption
  DEF TypeOK, RetryInv, WithinBudget, ShortWritesWaitedOut
<1> QED
  BY <1>1, <1>2, TypeHolds, RetryStep, PTL DEF Spec

------------------------------------------------------------------------------
(* A call seen from its run.                                               *)

LEMMA CallInit == Init => Call!Init
  BY DEF Init, Call!Init, Result

LEMMA CallStep == TypeOK /\ [Next]_vars => [Call!Next]_Call!vars
<1> SUFFICES ASSUME TypeOK, [Next]_vars
             PROVE  Call!Next \/ UNCHANGED Call!vars
  BY DEF Call!vars
<1> USE DEF Result, Call!vars
<1>1. clear \in Nat /\ now \in Nat
  BY TimesAssumption DEF TypeOK
<1>2. \A l \in Latencies : l \in Nat
  BY TimesAssumption
<1>3. CASE Succeed
  BY <1>3 DEF Succeed, Call!Next, Call!Write
<1>4. CASE Fail
  <2>1. clear' = clear /\ status = "attempt" /\ status' = "failed"
    BY <1>4 DEF Fail, NoAnswer
  <2>2. (clear <= now) => (clear <= now)'
    BY <1>1, <1>2, <1>4 DEF Fail, NoAnswer
  <2>3. \/ writes' = writes
        \/ writes' = writes + 1 /\ (clear <= now)'
    BY <1>4, <2>1 DEF Fail, NoAnswer
  <2> QED BY <2>1, <2>2, <2>3 DEF Call!Next, Call!Write, Call!NoWrite
<1>5. CASE Refused \/ KeepTrying \/ WakeUp
  <2>1. (clear <= now) => (clear <= now)'
    BY <1>1, <1>2, <1>5, DelaysAssumption DEF Refused, KeepTrying, WakeUp, TypeOK
  <2>2. writes' = writes /\ Result = "none" /\ Result' = "none"
    BY <1>5 DEF Refused, KeepTrying, WakeUp
  <2>3. (clear <= now)' \/ ((clear <= now)' <=> (clear <= now))
    BY <2>1
  <2> QED BY <2>1, <2>2, <2>3 DEF Call!Next, Call!Settle
<1>6. CASE GiveUp \/ Cancel
  BY <1>6 DEF GiveUp, Cancel, Call!Next, Call!NoWrite
<1>7. CASE UNCHANGED vars
  BY <1>7 DEF vars
<1> QED
  BY <1>3, <1>4, <1>5, <1>6, <1>7 DEF Next

\* However often a call of Client.do repeats its request, the API carries it out
\* in one step of the call or not at all: the call implements WriteCall.
THEOREM OneWriteKept == Spec => OneWrite
<1> QED BY CallInit, CallStep, TypeHolds, PTL DEF Spec, OneWrite, Call!Spec

\* No call has its request carried out twice, and one that returns nil once.
THEOREM WrittenOnce == Spec => []Call!AtMostOnce
<1> USE DEF Call!AtMostOnce
<1>1. Call!Init => Call!AtMostOnce
  BY DEF Call!Init
<1>2. Call!AtMostOnce /\ [Call!Next]_Call!vars => Call!AtMostOnce'
  BY DEF Call!Next, Call!vars, Call!Settle, Call!Write, Call!NoWrite
<1> QED BY <1>1, <1>2, OneWriteKept, PTL DEF OneWrite, Call!Spec
==============================================================================

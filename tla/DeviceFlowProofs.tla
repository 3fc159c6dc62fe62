---------------------------- MODULE DeviceFlowProofs ----------------------------
(***************************************************************************)
(* For every interval the endpoint names, every lifetime of a code and     *)
(* every delay, PollToken polls no faster than it was told to, ends soon   *)
(* after the code has expired and misses no earlier approval.              *)
(***************************************************************************)
EXTENDS DeviceFlow, TLAPS

LEMMA TypeHolds == Spec => []TypeOK
<1> USE IntervalAssumption, TimesAssumption
<1>1. Init => TypeOK
  BY DEF Init, TypeOK, Statuses
<1>2. TypeOK /\ [Next]_vars => TypeOK'
  <2> SUFFICES ASSUME TypeOK, [Next]_vars
               PROVE  TypeOK'
    OBVIOUS
  <2> USE DEF TypeOK, Statuses, external
  <2>1. lifetime \in Nat /\ asked \in Int
    OBVIOUS
  <2>2. \A l \in Latencies : now + l \in Nat /\ now + l + lifetime \in Nat
    BY <2>1
  <2>3. CASE Start
    BY <2>1, <2>2, <2>3 DEF Start, FirstInterval
  <2>4. CASE StartFails \/ Expire \/ Wait \/ Cancel
    BY <2>4 DEF StartFails, Expire, Wait, Cancel
  <2>5. CASE Poll
    BY <2>5 DEF Poll
  <2>6. CASE Grant \/ Pending \/ Refuse \/ Fail
    BY <2>2, <2>6 DEF Grant, Pending, Refuse, Fail, Answer
  <2>7. CASE SlowDown
    BY <2>2, <2>7 DEF SlowDown, Slowed, Answer
  <2>8. CASE UNCHANGED vars
    BY <2>8 DEF vars
  <2> QED
    BY <2>3, <2>4, <2>5, <2>6, <2>7, <2>8 DEF Next
<1> QED
  BY <1>1, <1>2, PTL DEF Spec

\* The invariant says what the endpoint has seen of the client: its last poll is
\* at most one answer old when the deadline is tested, and was not an approved
\* one; the wait that follows starts before the deadline.
LEMMA PollStep == TypeOK /\ TypeOK' /\ PollInv /\ [Next]_vars => PollInv'
<1> USE IntervalAssumption, TimesAssumption
<1> SUFFICES ASSUME TypeOK, TypeOK', PollInv, [Next]_vars
             PROVE  PollInv'
  OBVIOUS
<1> USE DEF TypeOK, PollInv, EndsInTime, ApprovalSeen, ApprovedBy, external
<1>1. lifetime \in Nat /\ approval \in Nat \ {0} /\ asked \in Int
  OBVIOUS
<1>2. \A l \in Latencies : l \in Nat /\ l <= MaxLatency
  OBVIOUS
<1>3. \A l \in Lags : l \in Nat /\ l <= MaxLag
  OBVIOUS
<1>4. CASE Start
  BY <1>1, <1>2, <1>4 DEF Start, FirstInterval
<1>5. CASE StartFails
  BY <1>1, <1>5 DEF StartFails
<1>6. CASE Expire
  BY <1>1, <1>6 DEF Expire, PastDeadline
<1>7. CASE Wait
  BY <1>1, <1>7 DEF Wait, PastDeadline
<1>8. CASE Cancel
  BY <1>1, <1>8 DEF Cancel
<1>9. CASE Poll
  <2>1. PICK lag \in Lags, there \in Latencies : now' = now + interval + lag + there
    BY <1>9 DEF Poll
  <2> QED
    BY <1>1, <1>2, <1>3, <1>9, <2>1 DEF Poll
<1>10. CASE Grant \/ Pending \/ SlowDown \/ Refuse \/ Fail
  <2>1. PICK back \in Latencies : now' = now + back
    BY <1>10 DEF Grant, Pending, SlowDown, Refuse, Fail, Answer
  <2>2. CASE Grant
    BY <1>1, <1>2, <2>1, <2>2 DEF Grant, Answer
  <2>3. CASE Pending
    BY <1>1, <1>2, <2>1, <2>3 DEF Pending, Answer
  <2>4. CASE SlowDown
    BY <1>1, <1>2, <2>1, <2>4 DEF SlowDown, Slowed, Answer
  <2>5. CASE Refuse
    BY <1>1, <1>2, <2>1, <2>5 DEF Refuse, Answer
  <2>6. CASE Fail
    BY <1>1, <1>2, <2>1, <2>6 DEF Fail, Answer
  <2> QED
    BY <1>10, <2>2, <2>3, <2>4, <2>5, <2>6
<1>11. CASE UNCHANGED vars
  BY <1>11 DEF vars
<1> QED
  BY <1>4, <1>5, <1>6, <1>7, <1>8, <1>9, <1>10, <1>11 DEF Next

\* A poll follows a wait of the interval, which is the one the endpoint demands.
LEMMA PoliteStep == TypeOK /\ PollInv /\ [Next]_vars => [seen' # seen => seen' - seen >= demanded]_vars
<1> USE IntervalAssumption, TimesAssumption
<1> SUFFICES ASSUME TypeOK, PollInv, Next, seen' # seen
             PROVE  seen' - seen >= demanded
  OBVIOUS
<1>1. Poll
  BY DEF Next, Start, StartFails, Expire, Wait, Cancel, Grant, Pending, SlowDown, Refuse, Fail,
         Answer
<1>2. PICK lag \in Lags, there \in Latencies : now' = now + interval + lag + there
  BY <1>1 DEF Poll
<1> QED
  BY <1>1, <1>2 DEF Poll, TypeOK, PollInv

\* Whatever the endpoint answers and however long that takes, a login keeps the
\* pace that was demanded, ends soon after the code has expired and does not
\* miss an approval that came a poll earlier.
THEOREM LoginCorrect == Spec => [](TypeOK /\ EndsInTime /\ ApprovalSeen) /\ Polite
<1>1. Init => PollInv
  BY IntervalAssumption, TimesAssumption
  DEF Init, PollInv, EndsInTime, ApprovalSeen
<1>2. TypeOK /\ PollInv => EndsInTime /\ ApprovalSeen
  BY DEF PollInv
<1> QED
  BY <1>1, <1>2, TypeHolds, PollStep, PoliteStep, PTL DEF Spec, Polite
==============================================================================

------------------------------ MODULE WriteRetry ------------------------------
(***************************************************************************)
(* One call of Client.do (internal/scp/client.go): a request that is       *)
(* repeated with exponential backoff while the API refuses it because      *)
(* another write of the user's is settling.                                *)
(*                                                                         *)
(* Time is counted from the start of the call.  The API is external: the   *)
(* other write is settled from time `clear' on, and an attempt takes some  *)
(* latency, at most the HTTP client's timeout, of which the API uses a     *)
(* part before it looks whether a write is running.  It carries a request  *)
(* out or refuses it; whether it did the first does not depend on whether  *)
(* its answer arrives.                                                     *)
(***************************************************************************)
EXTENDS Integers

CONSTANTS
    InitialDelay,  \* writeRetryInitialDelay
    MaxDelay,      \* writeRetryMaxDelay
    Budget,        \* writeRetryBudget
    Timeout,       \* of the HTTP client
    Latencies,     \* how long an attempt may take
    ClearTimes     \* when the other write may be settled

ASSUME DelaysAssumption ==
    /\ InitialDelay \in Nat \ {0} /\ MaxDelay \in Nat /\ Budget \in Nat
    /\ InitialDelay <= MaxDelay /\ MaxDelay <= Budget

ASSUME TimesAssumption ==
    /\ Timeout \in Nat
    /\ Latencies \subseteq 0 .. Timeout
    /\ ClearTimes \subseteq Nat

VARIABLES
    clear,   \* API: from then on no other write is running
    now,     \* time since the call started
    delay,   \* the wait after the next refusal
    writes,  \* API: how often it has carried the request out
    status   \* what the call does, or how it has returned

vars == <<clear, now, delay, writes, status>>

Statuses == {"attempt", "refused", "waiting", "answered", "failed", "blocked", "cancelled"}
Returned == {"answered", "failed", "blocked", "cancelled"}

Init ==
    /\ clear \in ClearTimes
    /\ now = 0
    /\ delay = InitialDelay
    /\ writes = 0
    /\ status = "attempt"

\* doOnce succeeds.
Succeed ==
    /\ status = "attempt"
    /\ \E l \in Latencies : now' = now + l
    /\ clear <= now'
    /\ writes' = writes + 1
    /\ status' = "answered"
    /\ UNCHANGED <<clear, delay>>

\* doOnce fails, for lack of an answer, say: the API may have carried the request
\* out.
NoAnswer ==
    /\ status = "attempt"
    /\ \E l \in Latencies : now' = now + l
    /\ writes' \in {writes} \cup (IF clear <= now' THEN {writes + 1} ELSE {})
    /\ UNCHANGED <<clear, delay>>

\* Mistake: a request is repeated whatever it failed for.
FailRepeated ==
    /\ NoAnswer
    /\ status' = "refused"

\* No connection, no answer in time, or another error of the API: that is not
\* repeated.
Fail ==
    /\ NoAnswer
    /\ status' = "failed"

\* The API refuses the attempt, which reaches it while the other write is
\* still settling.
Refused ==
    /\ status = "attempt"
    /\ now < clear
    /\ \E l \in Latencies : now' = now + l
    /\ status' = "refused"
    /\ UNCHANGED <<clear, delay, writes>>

\* Mistake: the test forgets the wait that is still to come.
PastBudgetNow == now > Budget

\* Another wait would run past the budget.
PastBudget == now + delay > Budget

GiveUp ==
    /\ status = "refused"
    /\ PastBudget
    /\ status' = "blocked"
    /\ UNCHANGED <<clear, now, delay, writes>>

KeepTrying ==
    /\ status = "refused"
    /\ ~PastBudget
    /\ status' = "waiting"
    /\ UNCHANGED <<clear, now, delay, writes>>

\* Mistakes: the cap is missing; the delay shrinks instead of growing.
NextDelayUncapped == 2 * delay
NextDelayHalved == delay \div 2

NextDelay == IF 2 * delay > MaxDelay THEN MaxDelay ELSE 2 * delay

WakeUp ==
    /\ status = "waiting"
    /\ now' = now + delay
    /\ delay' = NextDelay
    /\ status' = "attempt"
    /\ UNCHANGED <<clear, writes>>

\* The context is cancelled during the wait.
Cancel ==
    /\ status = "waiting"
    /\ status' = "cancelled"
    /\ UNCHANGED <<clear, now, delay, writes>>

Next == Succeed \/ Fail \/ Refused \/ GiveUp \/ KeepTrying \/ WakeUp \/ Cancel

Spec == Init /\ [][Next]_vars

\* The goroutine that makes the call runs, and its timers fire.
FairSpec == Spec /\ WF_vars(Next)

------------------------------------------------------------------------------
(* Properties.                                                             *)

\* The variables have their types, and the delay stays between its limits.
TypeOK ==
    /\ clear \in ClearTimes
    /\ now \in Nat
    /\ delay \in InitialDelay .. MaxDelay
    /\ writes \in Nat
    /\ status \in Statuses

\* The budget bounds the whole call: no attempt is started after it, so the
\* call has returned one timeout later at the latest.
WithinBudget ==
    /\ status \in {"attempt", "waiting"} => now <= Budget
    /\ now <= Budget + Timeout

\* "so the caller gets the API's own error rather than a timeout of ours": a
\* call gives up only on a write that was still settling in the last stretch of
\* the budget, one delay and one request long; shorter ones are waited out.
ShortWritesWaitedOut ==
    status = "blocked" => clear + MaxDelay + Timeout > Budget

\* The call returns, however long the other write takes.
Returns == <>(status \in Returned)

\* What the run has learned of its request.
Result == CASE status = "answered" -> "ok"
            [] status \in {"failed", "blocked", "cancelled"} -> "error"
            [] OTHER -> "none"

\* Seen from ApplyCycle a call is one step: however many attempts it takes, the
\* request is carried out once or not at all, after the other write, and when the
\* call returns nil it was.
Call == INSTANCE WriteCall WITH settled <- clear <= now, result <- Result
OneWrite == Call!Spec

------------------------------------------------------------------------------
(* The inductive invariant behind WithinBudget and ShortWritesWaitedOut.   *)

RetryInv ==
    /\ status = "attempt" => now <= Budget
    /\ status = "refused" => now < clear + Timeout
    /\ status = "waiting" => now + delay <= Budget
    /\ status = "blocked" => ShortWritesWaitedOut
    /\ now <= Budget + Timeout
==============================================================================

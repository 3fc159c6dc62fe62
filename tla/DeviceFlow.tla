------------------------------- MODULE DeviceFlow -------------------------------
(***************************************************************************)
(* The login of internal/auth: StartDeviceAuth asks for a device code and  *)
(* PollToken asks for the token every interval, until the user has         *)
(* approved, the code has expired or something else ends the wait.         *)
(*                                                                         *)
(* Time is counted in seconds from the moment the endpoint issues the code.*)
(* The endpoint is external: it may ask the client to slow down, and it    *)
(* need not notice at once that a code has expired.                        *)
(***************************************************************************)
EXTENDS Integers

CONSTANTS
    DefaultInterval,  \* when the endpoint names none
    SlowDownStep,     \* how much longer the interval gets by a slow_down
    MaxLatency,       \* a request or an answer is under way this long at most
    Latencies,        \* how long one may be
    MaxLag,           \* a timer fires this late at most
    Lags,             \* how late it may fire
    AskedIntervals,   \* what the endpoint may name; at most 0: nothing
    Lifetimes,        \* how long a code may be valid
    ApprovalTimes     \* when the user may approve

ASSUME IntervalAssumption ==
    DefaultInterval \in Nat \ {0} /\ SlowDownStep \in Nat \ {0} /\ AskedIntervals \subseteq Int

ASSUME TimesAssumption ==
    /\ MaxLatency \in Nat /\ Latencies \subseteq 0 .. MaxLatency
    /\ MaxLag \in Nat /\ Lags \subseteq 0 .. MaxLag
    /\ Lifetimes \subseteq Nat
    /\ ApprovalTimes \subseteq Nat \ {0}

VARIABLES
    asked,     \* endpoint: the interval it names
    lifetime,  \* endpoint: the code's
    approval,  \* when the user approves
    seen,      \* endpoint: when the last poll reached it, or it issued the code
    demanded,  \* endpoint: the interval it expects by now
    now,       \* time since the code was issued
    interval,  \* client: the wait before the next poll
    deadline,  \* client: when it takes the code to be expired
    status     \* what the login does, or how it has ended

external == <<asked, lifetime, approval>>
vars == <<external, seen, demanded, now, interval, deadline, status>>

Statuses == {"starting", "testing", "waiting", "polling",
             "granted", "expired", "refused", "failed", "cancelled"}
Ended == {"granted", "expired", "refused", "failed", "cancelled"}

\* The user's approval counts while the code is valid.
ApprovedBy(t) == approval <= t /\ approval < lifetime

\* Mistake: the default is missing.
FirstIntervalAsked(i) == i

FirstInterval(i) == IF i <= 0 THEN DefaultInterval ELSE i

Init ==
    /\ asked \in AskedIntervals /\ lifetime \in Lifetimes /\ approval \in ApprovalTimes
    /\ seen = 0
    /\ demanded = IF asked <= 0 THEN DefaultInterval ELSE asked
    /\ now = 0 /\ interval = DefaultInterval /\ deadline = 0
    /\ status = "starting"

\* StartDeviceAuth gets the answer, and PollToken computes its deadline then.
Start ==
    /\ status = "starting"
    /\ \E back \in Latencies : now' = now + back
    /\ interval' = FirstInterval(asked)
    /\ deadline' = now' + lifetime
    /\ status' = "testing"
    /\ UNCHANGED <<external, seen, demanded>>

StartFails ==
    /\ status = "starting"
    /\ status' = "failed"
    /\ UNCHANGED <<external, seen, demanded, now, interval, deadline>>

\* Mistake: no deadline.
PastDeadlineNever == FALSE

PastDeadline == now >= deadline

Expire ==
    /\ status = "testing"
    /\ PastDeadline
    /\ status' = "expired"
    /\ UNCHANGED <<external, seen, demanded, now, interval, deadline>>

Wait ==
    /\ status = "testing"
    /\ ~PastDeadline
    /\ status' = "waiting"
    /\ UNCHANGED <<external, seen, demanded, now, interval, deadline>>

\* The context is cancelled during the wait.
Cancel ==
    /\ status = "waiting"
    /\ status' = "cancelled"
    /\ UNCHANGED <<external, seen, demanded, now, interval, deadline>>

\* The interval is over: a poll is sent, and reaches the endpoint.
Poll ==
    /\ status = "waiting"
    /\ \E lag \in Lags, there \in Latencies : now' = now + interval + lag + there
    /\ seen' = now'
    /\ status' = "polling"
    /\ UNCHANGED <<external, demanded, interval, deadline>>

Answer(outcome) ==
    /\ status = "polling"
    /\ \E back \in Latencies : now' = now + back
    /\ status' = outcome
    /\ UNCHANGED <<external, seen, deadline>>

Grant ==
    /\ ApprovedBy(seen)
    /\ Answer("granted")
    /\ UNCHANGED <<demanded, interval>>

Pending ==
    /\ ~ApprovedBy(seen)
    /\ Answer("testing")
    /\ UNCHANGED <<demanded, interval>>

\* Mistakes: the client goes on as before; it slows down twice as much.
SlowedNot == interval
SlowedTwice == interval + 2 * SlowDownStep

Slowed == interval + SlowDownStep

SlowDown ==
    /\ ~ApprovedBy(seen)
    /\ Answer("testing")
    /\ demanded' = demanded + SlowDownStep
    /\ interval' = Slowed

\* The endpoint knows no such code any more.
Refuse ==
    /\ seen >= lifetime
    /\ Answer("refused")
    /\ UNCHANGED <<demanded, interval>>

\* The user denies, the request or its answer is lost or cancelled, or the
\* grant comes without a refresh token.
Fail ==
    /\ Answer("failed")
    /\ UNCHANGED <<demanded, interval>>

Next == Start \/ StartFails \/ Expire \/ Wait \/ Cancel \/ Poll
        \/ Grant \/ Pending \/ SlowDown \/ Refuse \/ Fail

Spec == Init /\ [][Next]_vars

\* The login's goroutine runs, its timers fire and its requests end.
FairSpec == Spec /\ WF_vars(Next)

------------------------------------------------------------------------------
(* Properties.                                                             *)

\* The variables have their types; in particular there is always a wait.
TypeOK ==
    /\ asked \in AskedIntervals /\ lifetime \in Lifetimes /\ approval \in ApprovalTimes
    /\ seen \in Nat /\ now \in Nat /\ deadline \in Nat
    /\ demanded \in Nat \ {0} /\ interval \in Nat \ {0}
    /\ status \in Statuses

\* "It honors authorization_pending and slow_down per RFC 8628": two polls, or
\* the code and the first poll, reach the endpoint no closer together than it
\* has demanded by then, whatever the two were delayed by.
Polite == [][seen' # seen => seen' - seen >= demanded]_vars

\* The login goes on only for a little after the code has expired, although the
\* endpoint may keep answering authorization_pending: one interval and the
\* delays of two exchanges, as the deadline is not tested after the wait.
EndsInTime == now <= lifetime + demanded + MaxLag + 3 * MaxLatency

\* An approval is not missed: a login that ends because the code has expired, by
\* its own clock or the endpoint's, was not approved before the last stretch of
\* the code's lifetime, one interval and the delays of one exchange long.
ApprovalSeen ==
    status \in {"expired", "refused"}
    => approval + demanded + MaxLag + 2 * MaxLatency > lifetime

\* The login ends, whatever the user and the endpoint do.
Returns == <>(status \in Ended)

------------------------------------------------------------------------------
(* The inductive invariant behind Polite, EndsInTime and ApprovalSeen.     *)

PollInv ==
    /\ status = "starting" =>
        now = 0 /\ seen = 0 /\ demanded = IF asked <= 0 THEN DefaultInterval ELSE asked
    /\ status # "starting" /\ status # "failed" => interval = demanded
    /\ seen <= now
    /\ status \notin {"starting", "failed"} =>
        deadline >= lifetime /\ deadline <= lifetime + MaxLatency
    /\ status \in {"testing", "waiting", "polling"} => now <= seen + MaxLatency
    /\ status = "testing" => now <= deadline + demanded + MaxLag + 2 * MaxLatency
    /\ status = "waiting" => now < deadline
    /\ status = "polling" => now = seen /\ now <= deadline + demanded + MaxLag + MaxLatency
    /\ status \in {"testing", "waiting"} => ~ApprovedBy(seen)
    /\ status = "polling" => approval + demanded + MaxLag + 2 * MaxLatency > seen
                             \/ approval >= lifetime
    /\ EndsInTime
    /\ ApprovalSeen
==============================================================================

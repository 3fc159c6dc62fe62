------------------------------- MODULE WriteCall -------------------------------
(***************************************************************************)
(* Abstract: a write of a run at the SCP API, as ApplyCycle has it.  It    *)
(* takes effect at most once, in the step in which the run learns what     *)
(* became of it, and not while another write is settling.                  *)
(***************************************************************************)
EXTENDS Naturals

VARIABLES
    settled,  \* API: no other write is settling
    writes,   \* API: how often the request has taken effect
    result    \* "none", or what the run learns: "ok" or "error"

vars == <<settled, writes, result>>

Init ==
    /\ settled \in BOOLEAN
    /\ writes = 0
    /\ result = "none"

\* Settle of ApplyCycle.
Settle ==
    /\ ~settled /\ settled'
    /\ UNCHANGED <<writes, result>>

\* The write has taken effect and the run knows (WritePolicy, SaveFirewall), or
\* gets an error all the same (WritePolicyLost, SaveFirewallLost).
Write ==
    /\ result = "none"
    /\ settled'
    /\ writes' = writes + 1
    /\ result' \in {"ok", "error"}

\* The run gets an error, and nothing has happened (Abort, TargetFails).
NoWrite ==
    /\ result = "none"
    /\ settled => settled'
    /\ result' = "error"
    /\ UNCHANGED writes

Next == Settle \/ Write \/ NoWrite

Spec == Init /\ [][Next]_vars

\* A request is not carried out twice, whatever its run learns; it was when the
\* run goes on as if it was, and not while the run still tries.
AtMostOnce ==
    /\ writes \in 0 .. 1
    /\ result = "none" => writes = 0
    /\ result = "ok" => writes = 1
==============================================================================

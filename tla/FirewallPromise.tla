---------------------------- MODULE FirewallPromise ----------------------------
(***************************************************************************)
(* What runs of the tool promise to do to an account, without the          *)
(* requests it takes: every managed policy is one slot that a run fills in *)
(* a single step, every interface carries a set of services that a run     *)
(* replaces in a single step, and a run ends well only if it has done      *)
(* everything it set out to do.                                            *)
(*                                                                         *)
(* The package comment of main.go, the comments of runApply (main.go),     *)
(* UpsertPolicy and ReconcileInterface (internal/scp/firewall.go) say so.  *)
(***************************************************************************)
CONSTANTS
    Services,    \* the services a managed policy exists for
    Interfaces,  \* every server interface of the account
    Policy,      \* contents of a managed policy
    NoPolicy,    \* a policy that does not exist
    Always       \* services attached to every target of every run

\* What a run sets out to do: the contents of the policies it needs, and the
\* services each of its targets is to carry.
Plan == [rules : [Services -> Policy \cup {NoPolicy}],
         on : UNION {[targets -> SUBSET Services] : targets \in SUBSET Interfaces}]
NoPlan == [rules |-> [s \in Services |-> NoPolicy], on |-> <<>>]

Needs(p) == {s \in Services : p.rules[s] # NoPolicy}

\* A plan writes what it attaches.
Sound(p) ==
    /\ DOMAIN p.on # {}
    /\ \A t \in DOMAIN p.on : Always \subseteq p.on[t] /\ p.on[t] \subseteq Needs(p)

VARIABLES
    rules,    \* the contents of each managed policy
    on,       \* the managed services each interface carries
    running,  \* a run is under way and knows its plan
    plan,     \* its plan, NoPlan between runs
    todo,     \* the policies it has yet to write
    left,     \* the targets it has yet to deal with
    good      \* nothing has gone wrong in it

vars == <<rules, on, running, plan, todo, left, good>>

Idle == running = FALSE /\ todo = {} /\ left = {} /\ good = TRUE /\ plan = NoPlan

Init ==
    /\ rules \in [Services -> Policy \cup {NoPolicy}]
    /\ on \in [Interfaces -> SUBSET Services]
    /\ \A t \in Interfaces : \A s \in on[t] : rules[s] # NoPolicy
    /\ Idle

\* A run has detected the address, read what it needs and knows its plan.
Begin ==
    /\ ~running
    /\ running' = TRUE
    /\ plan' \in Plan
    /\ Sound(plan')
    /\ todo' = Needs(plan')
    /\ left' = DOMAIN plan'.on
    /\ good' = TRUE
    /\ UNCHANGED <<rules, on>>

\* A policy is written; its former contents are gone everywhere at once.
Upsert(s) ==
    /\ s \in todo
    /\ todo' = todo \ {s}
    /\ rules' = [rules EXCEPT ![s] = plan.rules[s]]
    /\ UNCHANGED <<on, running, plan, left, good>>

\* A policy is written, but the run ends with it.
UpsertLost(s) ==
    /\ s \in todo
    /\ Idle'
    /\ rules' = [rules EXCEPT ![s] = plan.rules[s]]
    /\ UNCHANGED on

\* Interfaces are touched only when all policies are as planned.  The answer to
\* the write may be lost.
Reconcile(t) ==
    /\ todo = {} /\ t \in left
    /\ left' = left \ {t}
    /\ on' = [on EXCEPT ![t] = plan.on[t]]
    /\ good' \in {good, FALSE}
    /\ UNCHANGED <<rules, running, plan, todo>>

\* A target fails, the others go on.
Skip(t) ==
    /\ todo = {} /\ t \in left
    /\ left' = left \ {t}
    /\ good' = FALSE
    /\ UNCHANGED <<rules, on, running, plan, todo>>

\* A run returns, with an error unless it is still good, or is killed.
End == running /\ Idle' /\ UNCHANGED <<rules, on>>

Next ==
    \/ Begin \/ End
    \/ \E s \in todo : Upsert(s) \/ UpsertLost(s)
    \/ \E t \in left : Reconcile(t) \/ Skip(t)

Spec == Init /\ [][Next]_vars

------------------------------------------------------------------------------
(* Why the promise is worth having.                                        *)

\* When a run that is still good has nothing left to do, every policy and every
\* target are as planned.
DoneAsPlanned ==
    running /\ good /\ todo = {} /\ left = {} =>
        /\ \A s \in Needs(plan) : rules[s] = plan.rules[s]
        /\ \A t \in DOMAIN plan.on : on[t] = plan.on[t]

\* No interface ever carries a service whose policy does not exist.
NothingDangling == \A t \in Interfaces : \A s \in on[t] : rules[s] # NoPolicy

\* The inductive invariant behind both: what a run has behind it is as planned.
PromiseInv ==
    /\ rules \in [Services -> Policy \cup {NoPolicy}]
    /\ on \in [Interfaces -> SUBSET Services]
    /\ NothingDangling
    /\ ~running => todo = {} /\ left = {}
    /\ running =>
        /\ plan \in Plan /\ Sound(plan)
        /\ todo \subseteq Needs(plan) /\ left \subseteq DOMAIN plan.on
        /\ \A s \in Needs(plan) \ todo : rules[s] = plan.rules[s]
        /\ todo # {} => left = DOMAIN plan.on
        /\ good => \A t \in DOMAIN plan.on \ left : on[t] = plan.on[t]
==============================================================================

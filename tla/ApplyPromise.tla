----------------------------- MODULE ApplyPromise -----------------------------
(***************************************************************************)
(* Runs of ApplyCycle that do not overlap implement FirewallPromise.       *)
(***************************************************************************)
EXTENDS ApplyProps

\* The worker, for there is one.
Run == CHOOSE w \in Workers : TRUE

NoPolicy == [name |-> "none"]

\* The contents of the policy under a service's name.
MappedRules ==
    [s \in Services |->
        IF \E p \in DOMAIN policies : policies[p].name = PolicyName[s]
        THEN policies[CHOOSE p \in DOMAIN policies : policies[p].name = PolicyName[s]]
        ELSE NoPolicy]

MappedOn ==
    [t \in Interfaces |-> LET names == ManagedOn(t) IN {s \in Services : PolicyName[s] \in names}]

\* A run has its plan as soon as it has decided about egress.
Decided == pc[Run] \in {"list", "write", "get", "put", "done"}
Upserting == pc[Run] \in {"list", "write"}

NeededBy == {s \in Services : Needed(Run, s)}

MappedPlan ==
    IF Decided
    THEN [rules |-> [s \in Services |-> IF s \in NeededBy THEN RulesFor(Run, s) ELSE NoPolicy],
          on    |-> [t \in TargetsOf(Run) |-> ServicesFor(Run, t)]]
    ELSE [rules |-> [s \in Services |-> NoPolicy], on |-> <<>>]

MappedTodo == IF Upserting THEN NeededBy \ Behind(Run) ELSE {}

MappedLeft ==
    CASE Upserting -> TargetsOf(Run)
      [] pc[Run] \in {"get", "put"} ->
            {cfg[Run].targets[i] : i \in idx[Run] .. Len(cfg[Run].targets)}
      [] OTHER -> {}

Promise == INSTANCE FirewallPromise WITH
    NoPolicy <- NoPolicy, Always <- {"ssh"}, rules <- MappedRules, on <- MappedOn,
    running <- Decided, plan <- MappedPlan, todo <- MappedTodo, left <- MappedLeft, good <- ok[Run]

\* The requests of a run add up to the promise: a policy is written once, by its
\* name, an interface ends up with exactly the services of the plan, no
\* interface is touched before every policy is written, nothing else touches
\* what the tool manages, and only a run that did all of it is good.
KeepsPromise == Promise!Spec
==============================================================================

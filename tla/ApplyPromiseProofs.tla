-------------------------- MODULE ApplyPromiseProofs --------------------------
(***************************************************************************)
(* Runs that do not overlap implement FirewallPromise: ApplyPromise's      *)
(* refinement, for any set of interfaces, addresses, policies and          *)
(* configurations.                                                         *)
(***************************************************************************)
EXTENDS ApplyPromise, ApplySingleProofs

USE DEF Services, Optional, VpnServices, UpsertOrder, Steps, InLoop

\* No configuration lists an interface twice among its targets.
DistinctTargets ==
    \A c \in Configs : \A i, j \in DOMAIN c.targets : c.targets[i] = c.targets[j] => i = j

\* There is one worker, and it is Run.
SingleRun == Run \in Workers /\ \A w \in Workers : w = Run

LEMMA RunIsTheWorker ==
    ASSUME OneWorker, Workers # {}
    PROVE  SingleRun
  BY DEF OneWorker, Run, SingleRun

------------------------------------------------------------------------------
(* The policies, seen as one slot per service.                             *)

LEMMA NoPolicyIsNone == NoPolicy \notin Policy
  <1>1. ASSUME NEW p \in Policy PROVE p # NoPolicy
    <2>1. "egress" \in DOMAIN p
      BY DEF Policy
    <2>2. "egress" \notin DOMAIN NoPolicy
      BY DEF NoPolicy
    <2> QED BY <2>1, <2>2
  <1> QED BY <1>1

\* A slot holds the policy under its name, or none.
LEMMA SlotFilled ==
    ASSUME UniquePolicies, NEW s \in Services,
           NEW p \in DOMAIN policies, policies[p].name = PolicyName[s]
    PROVE  MappedRules[s] = policies[p]
  <1> DEFINE named == CHOOSE q \in DOMAIN policies : policies[q].name = PolicyName[s]
  <1>1. named \in DOMAIN policies /\ policies[named].name = PolicyName[s]
    OBVIOUS
  <1>2. PolicyName[s] \in Managed
    BY DEF Managed
  <1>3. named = p
    BY <1>1, <1>2 DEF UniquePolicies, UniqueIn
  <1>4. MappedRules[s] = policies[named]
    BY DEF MappedRules
  <1> QED BY <1>3, <1>4

LEMMA SlotEmpty ==
    ASSUME NEW s \in Services, \A p \in DOMAIN policies : policies[p].name # PolicyName[s]
    PROVE  MappedRules[s] = NoPolicy
  BY DEF MappedRules

LEMMA SlotsType ==
    ASSUME TypeOK, UniquePolicies
    PROVE  MappedRules \in [Services -> Policy \cup {NoPolicy}]
  <1>1. ASSUME NEW s \in Services PROVE MappedRules[s] \in Policy \cup {NoPolicy}
    <2>1. CASE \E p \in DOMAIN policies : policies[p].name = PolicyName[s]
      <3>1. PICK p \in DOMAIN policies : policies[p].name = PolicyName[s]
        BY <2>1
      <3>2. policies[p] \in Policy
        BY DEF TypeOK
      <3> QED BY <3>1, <3>2, SlotFilled
    <2>2. CASE ~\E p \in DOMAIN policies : policies[p].name = PolicyName[s]
      BY <2>2, SlotEmpty
    <2> QED BY <2>1, <2>2
  <1>2. MappedRules = [s \in Services |-> MappedRules[s]]
    BY DEF MappedRules
  <1> HIDE DEF Services
  <1> QED BY <1>1, <1>2

\* An interface carries a service if a policy of its name is attached.
LEMMA Carries ==
    ASSUME NEW t \in Interfaces, NEW s \in Services
    PROVE  s \in MappedOn[t] <=> \E p \in fw[t].user : policies[p].name = PolicyName[s]
  <1>1. PolicyName[s] \in Managed
    BY DEF Managed
  <1> HIDE DEF Services
  <1> QED BY <1>1 DEF MappedOn, ManagedOn

LEMMA CarriesType ==
    /\ MappedOn \in [Interfaces -> SUBSET Services]
    /\ \A t \in Interfaces : MappedOn[t] \subseteq Services
  BY DEF MappedOn

\* What an interface carries exists.
LEMMA CarriedExists ==
    ASSUME TypeOK, UniquePolicies, NEW t \in Interfaces, NEW s \in MappedOn[t]
    PROVE  MappedRules[s] # NoPolicy
  <1>1. s \in Services
    BY CarriesType
  <1>2. PICK p \in fw[t].user : policies[p].name = PolicyName[s]
    BY <1>1, Carries
  <1>3. p \in DOMAIN policies
    BY DEF TypeOK, AttachedExist
  <1>4. MappedRules[s] = policies[p] /\ policies[p] \in Policy
    BY <1>1, <1>2, <1>3, SlotFilled DEF TypeOK
  <1> QED BY <1>4, NoPolicyIsNone

------------------------------------------------------------------------------
(* The run's plan.                                                         *)

\* Nothing goes wrong before the first interface: an earlier failure ends the
\* run.
OkEarly == \A w \in Workers : pc[w] \notin {"get", "put", "done"} => ok[w] = TRUE

LEMMA OkEarlyStep == TypeOK /\ OkEarly /\ [Next]_vars => OkEarly'
  <1> SUFFICES ASSUME TypeOK, OkEarly, [Next]_vars, NEW v \in Workers,
                      pc'[v] \notin {"get", "put", "done"}
               PROVE  ok'[v] = TRUE
    BY DEF OkEarly
  <1> USE DEF TypeOK, OkEarly
  <1>1. ASSUME NEW w \in Workers,
               \/ Start(w) \/ Authenticate(w) \/ EgressByConfig(w) \/ EgressByInterface(w)
               \/ SkipUpsert(w) \/ ListPolicies(w) \/ WritePolicy(w)
        PROVE  ok'[v] = TRUE
    <2>1. ok' = ok /\ pc[w] \notin {"get", "put", "done"} /\ \A u \in Workers : u # w => pc'[u] = pc[u]
      BY <1>1 DEF Start, Authenticate, EgressByConfig, EgressByInterface, SkipUpsert,
                  ListPolicies, WritePolicy, NextUpsert
    <2> QED BY <2>1
  <1>2. ASSUME NEW w \in Workers, GetFirewall(w) \/ SaveFirewall(w) PROVE ok'[v] = TRUE
    BY <1>2 DEF GetFirewall, SaveFirewall, NextTarget
  <1>3. ASSUME NEW w \in Workers, Finish(w) \/ Abort(w) \/ WritePolicyLost(w)
        PROVE  ok'[v] = TRUE
    <2>1. EndRun(w)
      BY <1>3 DEF Finish, Abort, WritePolicyLost
    <2>2. CASE v = w
      BY <2>1, <2>2 DEF EndRun
    <2>3. CASE v # w
      BY <2>1, <2>3 DEF EndRun
    <2> QED BY <2>2, <2>3
  <1>4. ASSUME NEW w \in Workers, TargetFails(w) \/ SaveFirewallLost(w) PROVE ok'[v] = TRUE
    BY <1>4 DEF TargetFails, SaveFirewallLost, NextTarget
  <1>5. CASE Settle \/ Roam \/ UserEdit \/ UNCHANGED vars
    BY <1>5 DEF Settle, Roam, UserEdit, vars, runVars
  <1> QED BY <1>1, <1>2, <1>3, <1>4, <1>5 DEF Next, Progress, Failure

\* The set of policies left to write, in one piece.
LEMMA TodoIs ==
    ASSUME Decided
    PROVE  MappedTodo = NeededBy \ Behind(Run)
  <1>1. CASE Upserting
    BY <1>1 DEF MappedTodo
  <1>2. CASE ~Upserting
    <2>1. Behind(Run) = Services
      BY <1>2 DEF Decided, Upserting, Behind
    <2>2. NeededBy \subseteq Services
      BY DEF NeededBy
    <2> QED BY <1>2, <2>1, <2>2 DEF MappedTodo
  <1> QED BY <1>1, <1>2

\* The plan in which everything is still to do.
Fresh == Upserting \/ (pc[Run] = "get" /\ idx[Run] = 1)

LEMMA LeftFresh ==
    ASSUME SingleRun, TypeOK, Fresh
    PROVE  MappedLeft = TargetsOf(Run)
  <1>1. DOMAIN cfg[Run].targets = 1 .. Len(cfg[Run].targets)
    BY TargetsType DEF SingleRun
  <1> QED BY <1>1 DEF Fresh, Upserting, MappedLeft, TargetsOf

\* The services of a target are among the needed ones.
LEMMA ServicesNeeded ==
    ASSUME SingleRun, TypeOK, NEW t \in TargetsOf(Run)
    PROVE  "ssh" \in ServicesFor(Run, t) /\ ServicesFor(Run, t) \subseteq NeededBy
  <1>1. t \in Interfaces
    BY TargetsType DEF TargetsOf, SingleRun
  <1>2. cfg[Run].on[t] \subseteq Optional
    BY <1>1, ConfigsAssumption DEF TypeOK, Config, SingleRun
  <1>3. \A s \in cfg[Run].on[t] : AnyOn(cfg[Run], s)
    BY DEF TargetsOf, AnyOn
  <1> QED BY <1>2, <1>3 DEF ServicesFor, NeededBy, Needed

LEMMA PlanIs ==
    ASSUME SingleRun, TypeOK, Decided
    PROVE  /\ MappedPlan \in Promise!Plan
           /\ Promise!Sound(MappedPlan)
           /\ Promise!Needs(MappedPlan) = NeededBy
           /\ DOMAIN MappedPlan.on = TargetsOf(Run)
           /\ \A s \in NeededBy : MappedPlan.rules[s] = RulesFor(Run, s)
           /\ \A t \in TargetsOf(Run) : MappedPlan.on[t] = ServicesFor(Run, t)
  <1> DEFINE r == [s \in Services |-> IF s \in NeededBy THEN RulesFor(Run, s) ELSE NoPolicy]
             o == [t \in TargetsOf(Run) |-> ServicesFor(Run, t)]
  <1>1. MappedPlan = [rules |-> r, on |-> o]
    BY DEF MappedPlan
  <1>2. \A s \in Services : RulesFor(Run, s) \in Policy /\ RulesFor(Run, s) # NoPolicy
    BY RulesForType, NoPolicyIsNone DEF SingleRun
  <1>3. NeededBy \subseteq Services
    BY DEF NeededBy
  <1>4. r \in [Services -> Policy \cup {NoPolicy}]
    <2> HIDE DEF Services
    <2> QED BY <1>2
  <1>5. TargetsOf(Run) \subseteq Interfaces /\ TargetsOf(Run) # {}
    <2>1. cfg[Run].targets \in Seq(Interfaces) /\ 1 \in DOMAIN cfg[Run].targets
      BY TargetsType DEF SingleRun
    <2>2. \A i \in DOMAIN cfg[Run].targets : cfg[Run].targets[i] \in Interfaces
      BY <2>1
    <2> QED BY <2>1, <2>2 DEF TargetsOf
  <1>6. \A t \in TargetsOf(Run) : "ssh" \in ServicesFor(Run, t) /\ ServicesFor(Run, t) \subseteq NeededBy
    BY ServicesNeeded
  <1>7. o \in [TargetsOf(Run) -> SUBSET Services]
    BY <1>3, <1>6
  <1>8. {s \in Services : r[s] # NoPolicy} = NeededBy
    <2> HIDE DEF Services
    <2> QED BY <1>2, <1>3
  <1>9. \A s \in NeededBy : r[s] = RulesFor(Run, s)
    BY <1>3
  <1>10. DOMAIN o = TargetsOf(Run) /\ \A t \in TargetsOf(Run) : o[t] = ServicesFor(Run, t)
    OBVIOUS
  <1> HIDE DEF r, o, Services
  <1>11. MappedPlan.rules = r /\ MappedPlan.on = o
    BY <1>1
  <1>12. MappedPlan \in Promise!Plan
    BY <1>1, <1>4, <1>5, <1>7 DEF Promise!Plan
  <1>13. Promise!Needs(MappedPlan) = NeededBy
    BY <1>8, <1>11 DEF Promise!Needs
  <1>14. Promise!Sound(MappedPlan)
    BY <1>5, <1>6, <1>10, <1>11, <1>13 DEF Promise!Sound
  <1> QED BY <1>9, <1>10, <1>11, <1>12, <1>13, <1>14

\* A run without a plan is none as far as the promise goes.
LEMMA IdleIs ==
    ASSUME SingleRun, OkEarly, ~Decided
    PROVE  Promise!Idle
  <1>1. pc[Run] \notin {"get", "put", "done"} /\ ok[Run] = TRUE
    BY DEF Decided, SingleRun, OkEarly
  <1>2. ~Upserting
    BY DEF Decided, Upserting
  <1>3. MappedTodo = {} /\ MappedPlan = Promise!NoPlan
    BY <1>2 DEF MappedTodo, MappedPlan, Promise!NoPlan
  <1>4. MappedLeft = {}
    BY <1>1, <1>2 DEF MappedLeft
  <1> QED BY <1>1, <1>3, <1>4 DEF Promise!Idle

\* A settled target carries the services of the plan.
LEMMA SettledOn ==
    ASSUME SingleRun, TypeOK, IdsNamed, pc[Run] \in {"get", "put", "done"},
           NEW t \in TargetsOf(Run), Settled(Run, t)
    PROVE  MappedOn[t] = ServicesFor(Run, t)
  <1>1. t \in Interfaces
    BY TargetsType DEF TargetsOf, SingleRun
  <1>2. \A s \in Services : s \in MappedOn[t] <=> s \in ServicesFor(Run, t)
    BY <1>1, Carries, SettledCarries DEF SingleRun
  <1>3. ServicesFor(Run, t) \subseteq Services /\ MappedOn[t] \subseteq Services
    BY <1>1, ServicesNeeded, CarriesType DEF NeededBy
  <1> HIDE DEF Services
  <1> QED BY <1>2, <1>3

------------------------------------------------------------------------------
(* The promise's variables in one state.                                   *)

RunInv == TypeOK /\ IdsNamed /\ SingleRunInv /\ OkEarly

\* What the lemmas above say of the promise's variables, as one predicate, for
\* the states before and after a step.
View ==
    /\ \A s \in Services :
        /\ \A p \in DOMAIN policies :
             policies[p].name = PolicyName[s] => MappedRules[s] = policies[p]
        /\ (\A p \in DOMAIN policies : policies[p].name # PolicyName[s])
             => MappedRules[s] = NoPolicy
    /\ \A t \in Interfaces : \A s \in Services :
        s \in MappedOn[t] <=> \E p \in fw[t].user : policies[p].name = PolicyName[s]
    /\ ~Decided => Promise!Idle
    /\ Decided =>
        /\ MappedPlan \in Promise!Plan
        /\ Promise!Sound(MappedPlan)
        /\ Promise!Needs(MappedPlan) = NeededBy
        /\ DOMAIN MappedPlan.on = TargetsOf(Run)
        /\ \A s \in NeededBy : MappedPlan.rules[s] = RulesFor(Run, s)
        /\ \A t \in TargetsOf(Run) : MappedPlan.on[t] = ServicesFor(Run, t)
        /\ MappedTodo = NeededBy \ Behind(Run)
    /\ Fresh => MappedLeft = TargetsOf(Run)
    /\ pc[Run] \in {"get", "put", "done"} =>
        \A t \in TargetsOf(Run) : Settled(Run, t) => MappedOn[t] = ServicesFor(Run, t)

LEMMA ViewHolds ==
    ASSUME SingleRun, RunInv
    PROVE  View
  <1>1. TypeOK /\ IdsNamed /\ UniquePolicies /\ OkEarly
    BY DEF RunInv, SingleRunInv
  <1>2. \A s \in Services : \A p \in DOMAIN policies :
            policies[p].name = PolicyName[s] => MappedRules[s] = policies[p]
    BY <1>1, SlotFilled
  <1>3. \A s \in Services : (\A p \in DOMAIN policies : policies[p].name # PolicyName[s])
            => MappedRules[s] = NoPolicy
    BY SlotEmpty
  <1>4. \A t \in Interfaces : \A s \in Services :
            s \in MappedOn[t] <=> \E p \in fw[t].user : policies[p].name = PolicyName[s]
    BY Carries
  <1>5. ~Decided => Promise!Idle
    BY <1>1, IdleIs
  <1>6. Fresh => MappedLeft = TargetsOf(Run)
    BY <1>1, LeftFresh
  <1>7. pc[Run] \in {"get", "put", "done"} =>
            \A t \in TargetsOf(Run) : Settled(Run, t) => MappedOn[t] = ServicesFor(Run, t)
    BY <1>1, SettledOn
  <1> HIDE DEF Services
  <1> QED BY <1>1, <1>2, <1>3, <1>4, <1>5, <1>6, <1>7, PlanIs, TodoIs DEF View

\* What the promise says of policies and interfaces depends on the API only.
LEMMA SlotsFrame ==
    /\ policies' = policies => MappedRules' = MappedRules
    /\ policies' = policies /\ fw' = fw => MappedOn' = MappedOn
  BY DEF MappedRules, MappedOn, ManagedOn

\* A run's plan depends on what it detected and decided.
LEMMA PlanFrame ==
    ASSUME cfg'[Run] = cfg[Run], det'[Run] = det[Run], egr'[Run] = egr[Run]
    PROVE  /\ NeededBy' = NeededBy
           /\ TargetsOf(Run)' = TargetsOf(Run)
           /\ \A t : ServicesFor(Run, t)' = ServicesFor(Run, t)
           /\ Decided /\ Decided' => MappedPlan' = MappedPlan
  <1>1. NeededBy' = NeededBy
    BY DEF NeededBy, Needed, AnyOn
  <1>2. TargetsOf(Run)' = TargetsOf(Run)
    BY DEF TargetsOf
  <1>3. \A t : ServicesFor(Run, t)' = ServicesFor(Run, t)
    BY DEF ServicesFor
  <1>4. \A s \in Services : RulesFor(Run, s)' = RulesFor(Run, s)
    BY DEF RulesFor
  <1>5. ASSUME Decided, Decided' PROVE MappedPlan' = MappedPlan
    <2> HIDE DEF Services
    <2> QED BY <1>1, <1>2, <1>3, <1>4, <1>5 DEF MappedPlan
  <1> QED BY <1>1, <1>2, <1>3, <1>5

\* A step that leaves the run where it is leaves the promise's view of it.
LEMMA RunFrame ==
    ASSUME pc' = pc, cfg' = cfg, det' = det, egr' = egr, idx' = idx, ok' = ok
    PROVE  UNCHANGED <<Decided, MappedPlan, MappedTodo, MappedLeft, ok[Run]>>
  <1>1. Decided' = Decided /\ Upserting' = Upserting /\ Behind(Run)' = Behind(Run)
    BY DEF Decided, Upserting, Behind
  <1>2. NeededBy' = NeededBy /\ TargetsOf(Run)' = TargetsOf(Run)
    BY PlanFrame
  <1>3. MappedTodo' = MappedTodo
    BY <1>1, <1>2 DEF MappedTodo
  <1>4. MappedLeft' = MappedLeft
    BY <1>1, <1>2 DEF MappedLeft
  <1>5. MappedPlan' = MappedPlan
    <2>1. CASE Decided
      BY <1>1, <2>1, PlanFrame
    <2>2. CASE ~Decided
      BY <1>1, <2>2 DEF MappedPlan
    <2> QED BY <2>1, <2>2
  <1> QED BY <1>1, <1>3, <1>4, <1>5

------------------------------------------------------------------------------
(* Each step of a run is a step of the promise, or none.                   *)

LEMMA IdleStep ==
    ASSUME View, View', ~Decided, ~Decided', policies' = policies, fw' = fw
    PROVE  UNCHANGED Promise!vars
  <1>1. MappedRules' = MappedRules /\ MappedOn' = MappedOn
    BY SlotsFrame
  <1>2. Promise!Idle /\ Promise!Idle'
    BY DEF View
  <1> QED BY <1>1, <1>2 DEF Promise!Idle, Promise!NoPlan, Promise!vars

LEMMA BeginStep ==
    ASSUME SingleRun, TypeOK, OkEarly', View, View', ~Decided, pc'[Run] = "list", idx'[Run] = 1,
           policies' = policies, fw' = fw
    PROVE  Promise!Begin
  <1>1. MappedRules' = MappedRules /\ MappedOn' = MappedOn
    BY SlotsFrame
  <1>2. Decided' = TRUE /\ Fresh' /\ Behind(Run)' = {}
    <2>1. 1 .. (idx'[Run] - 1) = {}
      OBVIOUS
    <2> QED BY <2>1 DEF Decided, Fresh, Upserting, Behind
  <1>3. ok'[Run] = TRUE
    BY DEF SingleRun, OkEarly
  <1>4. /\ MappedPlan' \in Promise!Plan
        /\ Promise!Sound(MappedPlan')
        /\ Promise!Needs(MappedPlan') = NeededBy'
        /\ DOMAIN MappedPlan'.on = TargetsOf(Run)'
    BY <1>2 DEF View, Promise!Sound, Promise!Needs, Promise!Plan
  <1>5. MappedTodo' = NeededBy' /\ MappedLeft' = TargetsOf(Run)'
    BY <1>2 DEF View
  <1> QED BY <1>1, <1>2, <1>3, <1>4, <1>5 DEF Promise!Begin

LEMMA EndStep ==
    ASSUME View', Decided, ~Decided', policies' = policies, fw' = fw
    PROVE  Promise!End
  <1>1. MappedRules' = MappedRules /\ MappedOn' = MappedOn
    BY SlotsFrame
  <1>2. Promise!Idle'
    BY DEF View
  <1> QED BY <1>1, <1>2 DEF Promise!End

\* What a policy write does to the slots, whether or not its answer arrives.
LEMMA WriteSlots ==
    ASSUME SingleRun, TypeOK, IdsNamed, UniquePolicies, MatchCurrent, View, View', TypeOK',
           pc[Run] = "write", PutPolicy(Run), fw' = fw
    PROVE  /\ Service(Run) \in MappedTodo
           /\ MappedRules' = [MappedRules EXCEPT ![Service(Run)] =
                                MappedPlan.rules[Service(Run)]]
           /\ MappedOn' = MappedOn
  <1> DEFINE s == Service(Run)
             id == IF match[Run] # 0 THEN match[Run] ELSE Len(policies) + 1
  <1>1. s \in Services /\ idx[Run] \in 1 .. 5
    BY ServiceType DEF SingleRun
  <1>2. Needed(Run, s)
    BY DEF SingleRun, IdsNamed, IdsNamedOf
  <1>3. Decided /\ s \in NeededBy
    BY <1>1, <1>2 DEF Decided, NeededBy
  <1>4. MappedPlan.rules[s] = RulesFor(Run, s)
    BY <1>3 DEF View
  <1>5. s \in MappedTodo
    <2>1. \A i, j \in 1 .. 5 : UpsertOrder[i] = UpsertOrder[j] => i = j
      BY UpsertOrderFacts
    <2>2. Behind(Run) = {UpsertOrder[i] : i \in 1 .. (idx[Run] - 1)}
      BY DEF Behind
    <2>3. s = UpsertOrder[idx[Run]]
      BY DEF Service
    <2> HIDE DEF UpsertOrder
    <2>4. s \notin Behind(Run)
      BY <1>1, <2>1, <2>2, <2>3
    <2> QED BY <1>3, <2>4 DEF View
  <1>6. /\ \A p \in DOMAIN policies :
              policies'[p] = IF p = match[Run] THEN RulesFor(Run, s) ELSE policies[p]
        /\ policies'[id] = RulesFor(Run, s)
        /\ Len(policies') = IF match[Run] = 0 THEN Len(policies) + 1 ELSE Len(policies)
    BY PutPolicyType DEF SingleRun
  <1>7. /\ DOMAIN policies = 1 .. Len(policies) /\ DOMAIN policies' = 1 .. Len(policies')
        /\ Len(policies) \in Nat /\ match[Run] \in 0 .. Len(policies)
    BY DEF TypeOK, SingleRun
  <1>8. id \in DOMAIN policies' /\ DOMAIN policies' = DOMAIN policies \cup {id}
    BY <1>6, <1>7
  <1>9. RulesFor(Run, s).name = PolicyName[s]
    BY DEF RulesFor
  <1>10. match[Run] # 0 => policies[match[Run]].name = PolicyName[s]
    BY DEF SingleRun, IdsNamed, IdsNamedOf
  <1> HIDE DEF s, id
  <1>11. \A p \in DOMAIN policies : policies'[p].name = policies[p].name
    BY <1>6, <1>7, <1>9, <1>10
  <1>12. MappedRules'[s] = RulesFor(Run, s)
    BY <1>1, <1>6, <1>8, <1>9 DEF View
  <1>13. ASSUME NEW r \in Services, r # s PROVE MappedRules'[r] = MappedRules[r]
    <2>1. PolicyName[r] # PolicyName[s]
      BY <1>1, <1>13, PolicyNameAssumption
    <2>2. CASE \E p \in DOMAIN policies : policies[p].name = PolicyName[r]
      <3>1. PICK p \in DOMAIN policies : policies[p].name = PolicyName[r]
        BY <2>2
      <3>2. p # match[Run]
        BY <1>7, <1>10, <2>1, <3>1
      <3>3. p \in DOMAIN policies' /\ policies'[p] = policies[p]
        BY <1>6, <1>8, <3>1, <3>2
      <3> QED BY <3>1, <3>3 DEF View
    <2>3. CASE ~\E p \in DOMAIN policies : policies[p].name = PolicyName[r]
      <3>1. \A p \in DOMAIN policies' : policies'[p].name # PolicyName[r]
        BY <1>6, <1>8, <1>9, <1>11, <2>1, <2>3
      <3> QED BY <2>3, <3>1 DEF View
    <2> QED BY <2>2, <2>3
  <1>14. MappedRules' = [MappedRules EXCEPT ![s] = RulesFor(Run, s)]
    <2>1. MappedRules = [r \in Services |-> MappedRules[r]]
          /\ MappedRules' = [r \in Services |-> MappedRules'[r]]
      BY DEF MappedRules
    <2> HIDE DEF Services
    <2> QED BY <1>1, <1>12, <1>13, <2>1
  <1>15. MappedOn' = MappedOn
    <2>1. \A t \in Interfaces : fw[t].user \subseteq DOMAIN policies
      BY DEF TypeOK, AttachedExist
    <2>2. ASSUME NEW t \in Interfaces PROVE MappedOn'[t] = MappedOn[t]
      <3>1. \A r \in Services : r \in MappedOn'[t] <=> r \in MappedOn[t]
        BY <1>11, <2>1 DEF View
      <3>2. MappedOn[t] \subseteq Services /\ MappedOn'[t] \subseteq Services
        BY DEF MappedOn
      <3> HIDE DEF Services
      <3> QED BY <3>1, <3>2
    <2>3. MappedOn = [t \in Interfaces |-> MappedOn[t]]
          /\ MappedOn' = [t \in Interfaces |-> MappedOn'[t]]
      BY DEF MappedOn
    <2> QED BY <2>2, <2>3
  <1> QED BY <1>4, <1>5, <1>14, <1>15 DEF s

LEMMA UpsertStep ==
    ASSUME SingleRun, TypeOK, IdsNamed, UniquePolicies, MatchCurrent, View, View', TypeOK',
           WritePolicy(Run)
    PROVE  Promise!Upsert(Service(Run))
  <1>1. /\ pc[Run] = "write" /\ PutPolicy(Run) /\ NextUpsert(Run)
        /\ UNCHANGED <<fw, cfg, det, egr, ok>>
    BY DEF WritePolicy
  <1>2. /\ Service(Run) \in MappedTodo
        /\ MappedRules' = [MappedRules EXCEPT ![Service(Run)] = MappedPlan.rules[Service(Run)]]
        /\ MappedOn' = MappedOn
    BY <1>1, WriteSlots
  <1>3. pc'[Run] \in {"list", "get"} /\ (pc'[Run] = "get" => idx'[Run] = 1)
    BY <1>1 DEF NextUpsert, TypeOK, SingleRun
  <1>4. Decided = TRUE /\ Decided' = TRUE /\ Fresh /\ Fresh'
    BY <1>1, <1>3 DEF Decided, Fresh, Upserting
  <1>5. Behind(Run)' = Behind(Run) \cup {Service(Run)}
    BY <1>1, BehindGrows DEF SingleRun
  <1>6. NeededBy' = NeededBy /\ TargetsOf(Run)' = TargetsOf(Run) /\ MappedPlan' = MappedPlan
    BY <1>1, <1>4, PlanFrame
  <1>7. MappedTodo' = MappedTodo \ {Service(Run)}
    BY <1>4, <1>5, <1>6 DEF View
  <1>8. MappedLeft' = MappedLeft
    BY <1>4, <1>6 DEF View
  <1> QED BY <1>1, <1>2, <1>4, <1>6, <1>7, <1>8 DEF Promise!Upsert

LEMMA UpsertLostStep ==
    ASSUME SingleRun, TypeOK, IdsNamed, UniquePolicies, MatchCurrent, View, View', TypeOK',
           WritePolicyLost(Run)
    PROVE  Promise!UpsertLost(Service(Run))
  <1>1. pc[Run] = "write" /\ PutPolicy(Run) /\ EndRun(Run) /\ fw' = fw
    BY DEF WritePolicyLost
  <1>2. ~Decided'
    BY <1>1 DEF EndRun, TypeOK, SingleRun, Decided
  <1>3. Promise!Idle'
    BY <1>2 DEF View
  <1> QED BY <1>1, <1>3, WriteSlots DEF Promise!UpsertLost

\* A policy no target needs is not on the list of things to do.
LEMMA SkipUpsertStep ==
    ASSUME SingleRun, TypeOK, View, View', SkipUpsert(Run)
    PROVE  UNCHANGED Promise!vars
  <1>1. /\ pc[Run] = "list" /\ ~Needed(Run, Service(Run)) /\ NextUpsert(Run)
        /\ UNCHANGED <<policies, fw, cfg, det, egr, ok>>
    BY DEF SkipUpsert, apiVars
  <1>2. MappedRules' = MappedRules /\ MappedOn' = MappedOn
    BY <1>1, SlotsFrame
  <1>3. pc'[Run] \in {"list", "get"} /\ (pc'[Run] = "get" => idx'[Run] = 1)
    BY <1>1 DEF NextUpsert, TypeOK, SingleRun
  <1>4. Decided = TRUE /\ Decided' = TRUE /\ Fresh /\ Fresh'
    BY <1>1, <1>3 DEF Decided, Fresh, Upserting
  <1>5. Behind(Run)' = Behind(Run) \cup {Service(Run)} /\ Service(Run) \notin NeededBy
    BY <1>1, BehindGrows DEF SingleRun, NeededBy
  <1>6. NeededBy' = NeededBy /\ TargetsOf(Run)' = TargetsOf(Run) /\ MappedPlan' = MappedPlan
    BY <1>1, <1>4, PlanFrame
  <1>7. MappedTodo' = MappedTodo
    <2>1. MappedTodo = NeededBy \ Behind(Run) /\ MappedTodo' = NeededBy' \ Behind(Run)'
      BY <1>4 DEF View
    <2> QED BY <1>5, <1>6, <2>1
  <1>8. MappedLeft' = MappedLeft
    BY <1>4, <1>6 DEF View
  <1> QED BY <1>1, <1>2, <1>4, <1>6, <1>7, <1>8 DEF Promise!vars

LEMMA ListStep ==
    ASSUME SingleRun, TypeOK, View, View', ListPolicies(Run)
    PROVE  UNCHANGED Promise!vars
  <1>1. /\ pc[Run] = "list" /\ pc'[Run] = "write"
        /\ UNCHANGED <<policies, fw, cfg, det, egr, idx, ok>>
    BY DEF ListPolicies, apiVars, TypeOK, SingleRun
  <1>2. MappedRules' = MappedRules /\ MappedOn' = MappedOn
    BY <1>1, SlotsFrame
  <1>3. Decided = TRUE /\ Decided' = TRUE /\ Fresh /\ Fresh' /\ Behind(Run)' = Behind(Run)
    <2>1. Behind(Run)' = Behind(Run)
      BY <1>1 DEF Behind
    <2> QED BY <1>1, <2>1 DEF Decided, Fresh, Upserting
  <1>4. NeededBy' = NeededBy /\ TargetsOf(Run)' = TargetsOf(Run) /\ MappedPlan' = MappedPlan
    BY <1>1, <1>3, PlanFrame
  <1>5. MappedTodo' = MappedTodo /\ MappedLeft' = MappedLeft
    BY <1>3, <1>4 DEF View
  <1> QED BY <1>1, <1>2, <1>3, <1>4, <1>5 DEF Promise!vars


\* The run goes from one target to the next.
LEMMA NextTargetLeft ==
    ASSUME SingleRun, DistinctTargets, TypeOK, pc[Run] \in {"get", "put"}, NextTarget(Run),
           cfg' = cfg, egr' = egr, det' = det
    PROVE  /\ Decided = TRUE /\ Decided' = TRUE /\ ~Upserting /\ ~Upserting'
           /\ MappedTodo = {} /\ MappedTodo' = {}
           /\ pc'[Run] \in {"get", "put", "done"}
           /\ Target(Run) \in TargetsOf(Run) /\ Target(Run) \in Interfaces
           /\ Target(Run) \in MappedLeft
           /\ MappedLeft' = MappedLeft \ {Target(Run)}
           /\ MappedPlan' = MappedPlan
  <1> DEFINE T == cfg[Run].targets
             n == Len(T)
             i == idx[Run]
  <1>1. /\ DOMAIN T = 1 .. n /\ n \in Nat /\ i \in 1 .. n
        /\ \A j \in 1 .. n : T[j] \in Interfaces
    <2>1. T \in Seq(Interfaces) /\ DOMAIN T = 1 .. n /\ n \in Nat
      BY TargetsType DEF SingleRun
    <2>2. i \in DOMAIN T
      BY DEF TypeOK, SingleRun
    <2> QED BY <2>1, <2>2
  <1>2. \A j, k \in 1 .. n : T[j] = T[k] => j = k
    BY <1>1 DEF DistinctTargets, TypeOK, SingleRun
  <1>3. IF i < n THEN pc'[Run] = "get" /\ idx'[Run] = i + 1 ELSE pc'[Run] = "done"
    BY DEF NextTarget, TypeOK, SingleRun
  <1>4. pc'[Run] \in {"get", "put", "done"}
    BY <1>3
  <1>5. Decided = TRUE /\ Decided' = TRUE /\ ~Upserting /\ ~Upserting'
    BY <1>4 DEF Decided, Upserting
  <1>6. MappedTodo = {} /\ MappedTodo' = {}
    BY <1>5 DEF MappedTodo
  <1>7. MappedLeft = {T[j] : j \in i .. n}
    BY <1>5 DEF MappedLeft
  <1>8. Target(Run) = T[i]
    BY DEF Target
  <1>9. MappedLeft' = MappedLeft \ {Target(Run)}
    <2>1. CASE i < n
      <3>1. MappedLeft' = {T[j] : j \in (i + 1) .. n}
        BY <1>3, <1>5, <2>1 DEF MappedLeft
      <3> HIDE DEF T, n, i
      <3>2. i .. n = {i} \cup (i + 1) .. n /\ i \notin (i + 1) .. n
            /\ (i + 1) .. n \subseteq 1 .. n
        BY <1>1
      <3>3. \A j \in (i + 1) .. n : T[j] # T[i]
        BY <1>1, <1>2, <3>2
      <3> QED BY <1>7, <1>8, <3>1, <3>2, <3>3
    <2>2. CASE ~(i < n)
      <3>1. MappedLeft' = {}
        BY <1>3, <1>5, <2>2 DEF MappedLeft
      <3> HIDE DEF T, n, i
      <3>2. i .. n = {i}
        BY <1>1, <2>2
      <3> QED BY <1>7, <1>8, <3>1, <3>2
    <2> QED BY <2>1, <2>2
  <1>10. Target(Run) \in TargetsOf(Run) /\ Target(Run) \in Interfaces /\ Target(Run) \in MappedLeft
    <2>1. i \in i .. n
      BY <1>1
    <2> QED BY <1>1, <1>7, <1>8, <2>1 DEF TargetsOf
  <1>11. MappedPlan' = MappedPlan
    BY <1>5, PlanFrame
  <1> QED BY <1>4, <1>5, <1>6, <1>9, <1>10, <1>11

\* A write of the attachments leaves its target with the services of the plan,
\* whether or not the answer arrives, and no other interface changes.
LEMMA PutOn ==
    ASSUME SingleRun, TypeOK, IdsNamed, View', pc[Run] = "put", PutFirewall(Run),
           pc'[Run] \in {"get", "put", "done"}, Target(Run) \in TargetsOf(Run),
           Target(Run) \in Interfaces,
           policies' = policies, ids' = ids, cfg' = cfg, egr' = egr, det' = det
    PROVE  MappedOn' = [MappedOn EXCEPT ![Target(Run)] = ServicesFor(Run, Target(Run))]
  <1>0. PICK t \in Interfaces : t = Target(Run)
    OBVIOUS
  <1>1. Settled(Run, t)'
    BY <1>0, PutSettles DEF SingleRun
  <1> USE DEF SingleRun
  <1>2. TargetsOf(Run)' = TargetsOf(Run) /\ ServicesFor(Run, t)' = ServicesFor(Run, t)
    <2>1. cfg'[Run] = cfg[Run] /\ det'[Run] = det[Run] /\ egr'[Run] = egr[Run]
      OBVIOUS
    <2> QED BY <2>1, PlanFrame
  <1>3. MappedOn'[t] = ServicesFor(Run, t)
    BY <1>0, <1>1, <1>2 DEF View
  <1>4. ASSUME NEW u \in Interfaces, u # t PROVE MappedOn'[u] = MappedOn[u]
    <2>1. fw'[u] = fw[u]
      BY <1>0, <1>4, PutFirewallEffect
    <2> QED BY <2>1 DEF MappedOn, ManagedOn
  <1>5. /\ MappedOn = [u \in Interfaces |-> MappedOn[u]]
        /\ MappedOn' = [u \in Interfaces |-> MappedOn'[u]]
    BY DEF MappedOn
  <1>6. MappedOn' = [MappedOn EXCEPT ![t] = ServicesFor(Run, t)]
    BY <1>3, <1>4, <1>5
  <1> QED BY <1>0, <1>6

LEMMA SaveStep ==
    ASSUME SingleRun, DistinctTargets, TypeOK, IdsNamed, View, View',
           SaveFirewall(Run) \/ SaveFirewallLost(Run)
    PROVE  Promise!Reconcile(Target(Run))
  <1>1. /\ pc[Run] = "put" /\ PutFirewall(Run) /\ NextTarget(Run)
        /\ UNCHANGED <<policies, ids, cfg, det, egr>>
    BY DEF SaveFirewall, SaveFirewallLost
  <1>2. ok'[Run] \in {ok[Run], FALSE}
    BY DEF SaveFirewall, SaveFirewallLost, TypeOK, SingleRun
  <1>3. /\ Decided = TRUE /\ Decided' = TRUE /\ MappedTodo = {} /\ MappedTodo' = {}
        /\ pc'[Run] \in {"get", "put", "done"}
        /\ Target(Run) \in TargetsOf(Run) /\ Target(Run) \in Interfaces
        /\ Target(Run) \in MappedLeft /\ MappedLeft' = MappedLeft \ {Target(Run)}
        /\ MappedPlan' = MappedPlan
    BY <1>1, NextTargetLeft
  <1>4. MappedOn' = [MappedOn EXCEPT ![Target(Run)] = ServicesFor(Run, Target(Run))]
    BY <1>1, <1>3, PutOn
  <1>5. MappedPlan.on[Target(Run)] = ServicesFor(Run, Target(Run))
    BY <1>3 DEF View
  <1>6. MappedRules' = MappedRules
    BY <1>1, SlotsFrame
  <1> QED BY <1>2, <1>3, <1>4, <1>5, <1>6 DEF Promise!Reconcile

\* A read either leads to a write or finds the target as planned.
LEMMA GetStep ==
    ASSUME SingleRun, DistinctTargets, TypeOK, IdsNamed, View, View', GetFirewall(Run)
    PROVE  Promise!Reconcile(Target(Run)) \/ UNCHANGED Promise!vars
  <1> DEFINE t == Target(Run)
             changed == IsChanged(fw[t].user, Final(Run, t, fw[t]))
  <1>1. /\ pc[Run] = "get" /\ UNCHANGED <<policies, fw, cfg, det, egr, ok>>
        /\ changed => pc' = [pc EXCEPT ![Run] = "put"] /\ idx' = idx
        /\ ~changed => NextTarget(Run)
    BY DEF GetFirewall, apiVars
  <1>2. MappedRules' = MappedRules /\ MappedOn' = MappedOn
    BY <1>1, SlotsFrame
  <1>3. CASE changed
    <2>1. pc'[Run] = "put"
      BY <1>1, <1>3 DEF TypeOK, SingleRun
    <2>2. Decided = TRUE /\ Decided' = TRUE /\ ~Upserting /\ ~Upserting'
      BY <1>1, <2>1 DEF Decided, Upserting
    <2>3. MappedTodo' = MappedTodo
      BY <2>2 DEF MappedTodo
    <2>4. MappedLeft' = MappedLeft
      BY <1>1, <1>3, <2>1, <2>2 DEF MappedLeft
    <2>5. MappedPlan' = MappedPlan
      BY <1>1, <2>2, PlanFrame
    <2> QED BY <1>1, <1>2, <2>2, <2>3, <2>4, <2>5 DEF Promise!vars
  <1>4. CASE ~changed
    <2>1. /\ Decided = TRUE /\ Decided' = TRUE /\ MappedTodo = {} /\ MappedTodo' = {}
          /\ t \in TargetsOf(Run) /\ t \in Interfaces
          /\ t \in MappedLeft /\ MappedLeft' = MappedLeft \ {t}
          /\ MappedPlan' = MappedPlan
      BY <1>1, <1>4, NextTargetLeft
    <2>2. Settled(Run, t)
      BY <1>4, <2>1, UnchangedSettled DEF SingleRun
    <2>3. MappedOn[t] = ServicesFor(Run, t) /\ MappedPlan.on[t] = ServicesFor(Run, t)
      BY <1>1, <2>1, <2>2 DEF View
    <2>4. MappedOn' = [MappedOn EXCEPT ![t] = MappedPlan.on[t]]
      <3>1. MappedOn = [u \in Interfaces |-> MappedOn[u]]
        BY DEF MappedOn
      <3> QED BY <1>2, <2>3, <3>1
    <2>5. ok'[Run] \in {ok[Run], FALSE}
      BY <1>1
    <2> QED BY <1>2, <2>1, <2>4, <2>5 DEF Promise!Reconcile
  <1> QED BY <1>3, <1>4

LEMMA SkipStep ==
    ASSUME SingleRun, DistinctTargets, TypeOK, TargetFails(Run)
    PROVE  Promise!Skip(Target(Run))
  <1>1. /\ pc[Run] \in {"get", "put"} /\ NextTarget(Run)
        /\ UNCHANGED <<policies, fw, cfg, det, egr>>
    BY DEF TargetFails, apiVars
  <1>2. ok'[Run] = FALSE
    BY DEF TargetFails, TypeOK, SingleRun
  <1>3. /\ Decided = TRUE /\ Decided' = TRUE /\ MappedTodo = {} /\ MappedTodo' = {}
        /\ Target(Run) \in MappedLeft /\ MappedLeft' = MappedLeft \ {Target(Run)}
        /\ MappedPlan' = MappedPlan
    BY <1>1, NextTargetLeft
  <1> QED BY <1>1, <1>2, <1>3, SlotsFrame DEF Promise!Skip

\* A user's edit does not touch the managed services of an interface.
LEMMA EditStep ==
    ASSUME TypeOK, UserEdit
    PROVE  UNCHANGED Promise!vars
  <1>1. policies' = policies /\ UNCHANGED <<pc, cfg, det, egr, idx, ok>>
    BY DEF UserEdit, runVars
  <1>2. PICK t \in Interfaces : \E f \in Edited(fw[t]) : fw' = [fw EXCEPT ![t] = f]
    BY DEF UserEdit
  <1>3. PICK f \in Edited(fw[t]) : fw' = [fw EXCEPT ![t] = f]
    BY <1>2
  <1>4. /\ f.user \subseteq DOMAIN policies
        /\ \A p \in DOMAIN policies :
             policies[p].name \in Managed => (p \in f.user <=> p \in fw[t].user)
    BY <1>3, EditedShape
  <1>5. ASSUME NEW u \in Interfaces PROVE ManagedOn(u)' = ManagedOn(u)
    <2>1. CASE u = t
      <3>1. fw'[u].user = f.user /\ fw[t].user \subseteq DOMAIN policies
        BY <1>3, <2>1 DEF TypeOK, AttachedExist
      <3> QED BY <1>1, <1>4, <2>1, <3>1 DEF ManagedOn
    <2>2. CASE u # t
      <3>1. fw'[u] = fw[u]
        BY <1>3, <2>2 DEF TypeOK
      <3> QED BY <1>1, <3>1 DEF ManagedOn
    <2> QED BY <2>1, <2>2
  <1>6. MappedOn' = MappedOn
    BY <1>5 DEF MappedOn
  <1> QED BY <1>1, <1>6, SlotsFrame, RunFrame DEF Promise!vars


\* Up to its plan a run is nothing to the promise; with its plan it begins.
LEMMA EarlyStep ==
    ASSUME SingleRun, TypeOK, OkEarly', View, View',
           Start(Run) \/ Authenticate(Run) \/ EgressByConfig(Run) \/ EgressByInterface(Run)
    PROVE  Promise!Begin \/ UNCHANGED Promise!vars
  <1>1. policies' = policies /\ fw' = fw /\ ~Decided
    BY DEF Start, Authenticate, EgressByConfig, EgressByInterface, apiVars, Decided
  <1>2. \/ pc'[Run] \in {"auth", "egress"}
        \/ pc'[Run] = "list" /\ idx'[Run] = 1
    BY DEF Start, Authenticate, EgressByConfig, EgressByInterface, TypeOK, SingleRun
  <1>3. CASE pc'[Run] \in {"auth", "egress"}
    <2>1. ~Decided'
      BY <1>3 DEF Decided
    <2> QED BY <1>1, <2>1, IdleStep
  <1>4. CASE pc'[Run] = "list" /\ idx'[Run] = 1
    BY <1>1, <1>4, BeginStep
  <1> QED BY <1>2, <1>3, <1>4

\* A run that returns or is killed ends, if it had begun.
LEMMA LeaveStep ==
    ASSUME SingleRun, TypeOK, View, View', Finish(Run) \/ Abort(Run)
    PROVE  Promise!End \/ UNCHANGED Promise!vars
  <1>1. policies' = policies /\ fw' = fw /\ EndRun(Run)
    BY DEF Finish, Abort, apiVars
  <1>2. ~Decided'
    BY <1>1 DEF EndRun, Decided, TypeOK, SingleRun
  <1> QED BY <1>1, <1>2, EndStep, IdleStep

LEMMA PromiseStep ==
    ASSUME SingleRun, DistinctTargets, RunInv, RunInv', View, View', [Next]_vars
    PROVE  [Promise!Next]_(Promise!vars)
  <1>1. TypeOK /\ IdsNamed /\ UniquePolicies /\ MatchCurrent /\ TypeOK' /\ OkEarly'
    BY DEF RunInv, SingleRunInv
  <1>2. \/ Progress(Run) \/ Failure(Run)
        \/ Settle \/ Roam \/ UserEdit \/ UNCHANGED vars
    BY DEF Next, SingleRun
  <1>3. CASE \/ Start(Run) \/ Authenticate(Run) \/ EgressByConfig(Run) \/ EgressByInterface(Run)
             \/ Finish(Run) \/ Abort(Run)
    BY <1>1, <1>3, EarlyStep, LeaveStep DEF Promise!Next
  <1>4. CASE SkipUpsert(Run) \/ ListPolicies(Run)
    BY <1>1, <1>4, SkipUpsertStep, ListStep
  <1>5. CASE WritePolicy(Run)
    <2>1. Promise!Upsert(Service(Run))
      BY <1>1, <1>5, UpsertStep
    <2>2. Service(Run) \in MappedTodo
      BY <2>1 DEF Promise!Upsert
    <2> QED BY <2>1, <2>2 DEF Promise!Next
  <1>6. CASE WritePolicyLost(Run)
    <2>1. Promise!UpsertLost(Service(Run))
      BY <1>1, <1>6, UpsertLostStep
    <2>2. Service(Run) \in MappedTodo
      BY <2>1 DEF Promise!UpsertLost
    <2> QED BY <2>1, <2>2 DEF Promise!Next
  <1>7. ASSUME Promise!Reconcile(Target(Run)) PROVE Promise!Next
    <2>1. Target(Run) \in MappedLeft
      BY <1>7 DEF Promise!Reconcile
    <2> QED BY <1>7, <2>1 DEF Promise!Next
  <1>8. CASE GetFirewall(Run) \/ SaveFirewall(Run) \/ SaveFirewallLost(Run)
    BY <1>1, <1>7, <1>8, GetStep, SaveStep
  <1>9. CASE TargetFails(Run)
    <2>1. Promise!Skip(Target(Run))
      BY <1>1, <1>9, SkipStep
    <2>2. Target(Run) \in MappedLeft
      BY <2>1 DEF Promise!Skip
    <2> QED BY <2>1, <2>2 DEF Promise!Next
  <1>10. CASE UserEdit
    BY <1>1, <1>10, EditStep
  <1>11. CASE Settle \/ Roam \/ UNCHANGED vars
    <2>1. policies' = policies /\ fw' = fw /\ UNCHANGED <<pc, cfg, det, egr, idx, ok>>
      BY <1>11 DEF Settle, Roam, vars, apiVars, runVars
    <2> QED BY <2>1, SlotsFrame, RunFrame DEF Promise!vars
  <1> QED BY <1>2, <1>3, <1>4, <1>5, <1>6, <1>8, <1>9, <1>10, <1>11 DEF Progress, Failure

LEMMA PromiseInit ==
    ASSUME SingleRun, Init
    PROVE  Promise!Init
  <1>1. TypeOK
    BY TypeInit
  <1>2. UniquePolicies
    BY AccountsAssumption DEF Init, UniquePolicies
  <1>3. OkEarly /\ ~Decided
    BY DEF Init, OkEarly, Decided, SingleRun
  <1>4. MappedRules \in [Services -> Policy \cup {NoPolicy}]
    BY <1>1, <1>2, SlotsType
  <1>5. \A t \in Interfaces : \A s \in MappedOn[t] : MappedRules[s] # NoPolicy
    BY <1>1, <1>2, CarriedExists
  <1> QED BY <1>3, <1>4, <1>5, CarriesType, IdleIs DEF Promise!Init

\* Runs that do not overlap implement the promise: seen from the account, a run
\* writes each policy of its plan once, gives each target exactly the services
\* of its plan, touches no interface before every policy is written, and is good
\* at its end only if it did all of it - wherever requests fail, answers are
\* lost, the run is killed or the user edits an interface meanwhile.
THEOREM PromiseKept ==
    ASSUME OneWorker, Workers # {}, DistinctTargets
    PROVE  Spec => KeepsPromise
  <1>1. SingleRun
    BY RunIsTheWorker
  <1>2. Init => OkEarly
    BY DEF Init, OkEarly
  <1>3. Spec => []RunInv
    <2>1. TypeOK /\ IdsNamed /\ SingleRunInv /\ OkEarly => RunInv
      BY DEF RunInv
    <2> QED BY <1>2, <2>1, OkEarlyStep, TypeCorrect, IdsNamedCorrect, SingleRunInvCorrect, PTL
            DEF Spec
  <1>4. RunInv => View
    BY <1>1, ViewHolds
  <1>5. Init => Promise!Init
    BY <1>1, PromiseInit
  <1>6. RunInv /\ RunInv' /\ View /\ View' /\ [Next]_vars => [Promise!Next]_(Promise!vars)
    BY <1>1, PromiseStep
  <1> QED BY <1>3, <1>4, <1>5, <1>6, PTL DEF Spec, KeepsPromise, Promise!Spec

\* PromiseProofs, read for the account of ApplyCycle.
Proven == INSTANCE PromiseProofs WITH
    NoPolicy <- NoPolicy, Always <- {"ssh"}, rules <- MappedRules, on <- MappedOn,
    running <- Decided, plan <- MappedPlan, todo <- MappedTodo, left <- MappedLeft, good <- ok[Run]

\* What FirewallPromise's implementers have, runs that do not overlap have: a run
\* that is good with nothing left to do finds every policy and target as planned,
\* and no interface ever carries a policy that does not exist.
THEOREM PromiseCollected ==
    ASSUME OneWorker, Workers # {}, DistinctTargets
    PROVE  Spec => [](Promise!DoneAsPlanned /\ Promise!NothingDangling)
  <1>1. Promise!Init => Proven!Init
    BY DEF Promise!Init, Promise!Idle, Promise!NoPlan, Proven!Init, Proven!Idle, Proven!NoPlan
  <1>2. [Promise!Next]_(Promise!vars) => [Proven!Next]_(Proven!vars)
    BY DEF Promise!Next, Promise!Begin, Promise!Upsert, Promise!UpsertLost, Promise!Reconcile,
           Promise!Skip, Promise!End, Promise!Idle, Promise!Plan, Promise!NoPlan, Promise!Needs,
           Promise!Sound, Promise!vars,
           Proven!Next, Proven!Begin, Proven!Upsert, Proven!UpsertLost, Proven!Reconcile,
           Proven!Skip, Proven!End, Proven!Idle, Proven!Plan, Proven!NoPlan, Proven!Needs,
           Proven!Sound, Proven!vars
  <1>3. Proven!DoneAsPlanned /\ Proven!NothingDangling
        => Promise!DoneAsPlanned /\ Promise!NothingDangling
    BY DEF Promise!DoneAsPlanned, Promise!NothingDangling, Promise!Needs,
           Proven!DoneAsPlanned, Proven!NothingDangling, Proven!Needs
  <1> QED BY <1>1, <1>2, <1>3, PromiseKept, Proven!PromiseCorrect, PTL
          DEF KeepsPromise, Promise!Spec, Proven!Spec
==============================================================================

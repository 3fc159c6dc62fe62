-------------------------- MODULE ApplySingleProofs --------------------------
(***************************************************************************)
(* What a run promises when runs do not overlap: with one worker.          *)
(***************************************************************************)
EXTENDS ApplyCycleProofs

USE DEF Services, Optional, VpnServices, UpsertOrder, Steps, InLoop

OneWorker == \A v, w \in Workers : v = w

------------------------------------------------------------------------------
(* ReconcileInterface's decision.                                          *)

\* The code's order-independent comparison (sizes first, then each id of the
\* new list) finds a difference exactly if there is one.
THEOREM ChangedIffDifferent ==
    ASSUME NEW current, NEW final, IsFiniteSet(current), IsFiniteSet(final)
    PROVE  IsChanged(current, final) <=> current # final
  <1>1. ASSUME current = final PROVE ~IsChanged(current, final)
    BY <1>1 DEF IsChanged
  <1>2. ASSUME ~IsChanged(current, final) PROVE current = final
    <2>1. final \subseteq current /\ Cardinality(current) = Cardinality(final)
      BY <1>2 DEF IsChanged
    <2> QED BY <2>1, FS_Subset
  <1> QED BY <1>1, <1>2

\* The ids a run wants attached carry no name it wants absent.
LEMMA FinalSettled ==
    ASSUME TypeOK, IdsNamed, NEW w \in Workers, NEW t, NEW f, f.user \subseteq DOMAIN policies
    PROVE  /\ Present(w, t) \ {0} \subseteq Final(w, t, f)
           /\ \A p \in Final(w, t, f) : policies[p].name \notin Absent(w, t)
  <1>1. Final(w, t, f) = KeptIds(f.user, NameOf, Absent(w, t)) \cup (Present(w, t) \ {0})
    BY DEF Final, FinalIds
  <1>2. ASSUME NEW p \in KeptIds(f.user, NameOf, Absent(w, t))
        PROVE  policies[p].name \notin Absent(w, t)
    BY DEF KeptIds, NameOf
  <1>3. ASSUME NEW p \in Present(w, t) \ {0}
        PROVE  policies[p].name \notin Absent(w, t)
    <2>1. PICK s \in Services : WantsOn(w, t, s) /\ p = ids[w][s]
      BY DEF Present
    <2>2. policies[p].name = PolicyName[s]
      BY <1>3, <2>1 DEF IdsNamed, IdsNamedOf
    <2>3. \A r \in Services : PolicyName[s] = PolicyName[r] => s = r
      BY PolicyNameAssumption
    <2> HIDE DEF Services
    <2> QED BY <2>1, <2>2, <2>3 DEF Absent
  <1> QED BY <1>1, <1>2, <1>3

------------------------------------------------------------------------------
(* One policy per name.                                                    *)

LEMMA UniqueStep ==
    ASSUME OneWorker, TypeOK, IdsNamed, UniquePolicies, MatchCurrent, [Next]_vars
    PROVE  UniquePolicies'
  <1>1. CASE policies' = policies
    BY <1>1 DEF UniquePolicies, UniqueIn
  <1>2. CASE policies' # policies
    <2>1. PICK w \in Workers : pc[w] = "write" /\ PutPolicy(w)
      BY <1>2, PolicyWriters
    <2> DEFINE N == PolicyName[Service(w)]
    <2>2. /\ policies' \in Seq(Policy)
          /\ Len(policies') = IF match[w] = 0 THEN Len(policies) + 1 ELSE Len(policies)
          /\ policies'[IF match[w] # 0 THEN match[w] ELSE Len(policies) + 1].name = N
      <3>1. RulesFor(w, Service(w)).name = N
        BY DEF RulesFor
      <3> QED BY <2>1, <3>1, PutPolicyType
    <2>3. DOMAIN policies' = 1 .. Len(policies') /\ DOMAIN policies = 1 .. Len(policies)
          /\ Len(policies) \in Nat
      BY <2>2 DEF TypeOK
    <2>4. \A p \in DOMAIN policies : policies'[p].name = policies[p].name
      BY NamesStay
    <2>5. CASE match[w] # 0
      <3>1. DOMAIN policies' = DOMAIN policies
        BY <2>2, <2>3, <2>5
      <3> QED BY <2>4, <3>1 DEF UniquePolicies, UniqueIn
    <2>6. CASE match[w] = 0
      <3>1. DOMAIN policies' = DOMAIN policies \cup {Len(policies) + 1}
        BY <2>2, <2>3, <2>6
      <3>2. \A p \in DOMAIN policies : policies'[p].name # N
        BY <2>1, <2>4, <2>6 DEF MatchCurrent
      <3>3. policies'[Len(policies) + 1].name = N
        BY <2>2, <2>6
      <3> QED BY <2>4, <3>1, <3>2, <3>3 DEF UniquePolicies, UniqueIn
    <2> QED BY <2>5, <2>6
  <1> QED BY <1>1, <1>2

LEMMA MatchStep ==
    ASSUME OneWorker, TypeOK, MatchCurrent, [Next]_vars
    PROVE  MatchCurrent'
  <1> SUFFICES ASSUME NEW v \in Workers, pc'[v] = "write", match'[v] = 0,
                      NEW p \in DOMAIN policies'
               PROVE  policies'[p].name # PolicyName[Service(v)']
    BY DEF MatchCurrent
  <1>1. CASE Progress(v) \/ Failure(v)
    <2>1. ListPolicies(v)
      BY <1>1, WriteFollowsList
    <2>2. policies' = policies /\ idx' = idx /\ cfg' = cfg
      BY <2>1 DEF ListPolicies, apiVars
    <2>3. {q \in DOMAIN policies : policies[q].name = PolicyName[Service(v)]} = {}
      BY <2>1 DEF ListPolicies, TypeOK
    <2> QED BY <2>2, <2>3 DEF Service
  <1>2. CASE Settle \/ Roam \/ UserEdit \/ UNCHANGED vars
    <2>1. UNCHANGED <<pc, match, policies, idx>>
      BY <1>2 DEF Settle, Roam, UserEdit, vars, runVars, apiVars
    <2> QED BY <2>1 DEF MatchCurrent, Service
  <1> QED BY <1>1, <1>2 DEF Next, OneWorker

\* Runs that do not overlap never leave two policies under one managed name,
\* wherever they fail or crash.
THEOREM UniqueCorrect ==
    ASSUME OneWorker
    PROVE  Spec => [](UniquePolicies /\ MatchCurrent)
  <1>1. Init => UniquePolicies /\ MatchCurrent
    BY AccountsAssumption DEF Init, UniquePolicies, MatchCurrent
  <1>2. TypeOK /\ IdsNamed /\ UniquePolicies /\ MatchCurrent /\ [Next]_vars
        => (UniquePolicies /\ MatchCurrent)'
    BY UniqueStep, MatchStep
  <1> QED BY <1>1, <1>2, TypeCorrect, IdsNamedCorrect, PTL DEF Spec

------------------------------------------------------------------------------
(* The upserted policies keep their rules.                                 *)

\* The rules of a policy follow from what the run detected and decided.
LEMMA RulesForStays ==
    ASSUME NEW v \in Workers, det'[v] = det[v], egr'[v] = egr[v], NEW s \in Services
    PROVE  RulesFor(v, s)' = RulesFor(v, s)
  BY DEF RulesFor

\* The steps of a run that leave the policies alone: it holds no ids, or its
\* ids and the rules it built stay the same.
LEMMA IdsStep ==
    ASSUME TypeOK, IdsNamed, NEW v \in Workers, Progress(v) \/ Failure(v), ~WritePolicy(v)
    PROVE  \/ \A s \in Services : ids'[v][s] = 0
           \/ ids' = ids /\ det' = det /\ egr' = egr /\ policies' = policies
  <1> USE DEF apiVars
  <1>1. CASE Start(v) \/ EgressByConfig(v) \/ EgressByInterface(v)
    <2>1. pc[v] \in {"idle", "egress"} /\ ids' = ids
      BY <1>1 DEF Start, EgressByConfig, EgressByInterface
    <2>2. Behind(v) = {}
      BY <2>1 DEF Behind
    <2> QED BY <2>1, <2>2 DEF IdsNamed, IdsNamedOf
  <1>2. CASE \/ Authenticate(v) \/ SkipUpsert(v) \/ ListPolicies(v) \/ GetFirewall(v)
             \/ SaveFirewall(v) \/ TargetFails(v) \/ SaveFirewallLost(v)
    BY <1>2 DEF Authenticate, SkipUpsert, ListPolicies, GetFirewall, SaveFirewall, TargetFails,
                SaveFirewallLost
  <1>3. CASE Finish(v) \/ Abort(v) \/ WritePolicyLost(v)
    <2>1. EndRun(v)
      BY <1>3 DEF Finish, Abort, WritePolicyLost
    <2> QED BY <2>1 DEF EndRun, TypeOK, NoIds
  <1> QED BY <1>1, <1>2, <1>3 DEF Progress, Failure

LEMMA RulesStep ==
    ASSUME OneWorker, TypeOK, IdsNamed, RulesKept, [Next]_vars
    PROVE  RulesKept'
  <1> SUFFICES ASSUME NEW v \in Workers, NEW s \in Services, ids'[v][s] # 0
               PROVE  policies'[ids'[v][s]] = RulesFor(v, s)'
    BY DEF RulesKept
  <1>1. ASSUME ids' = ids, det' = det, egr' = egr, policies' = policies
        PROVE  policies'[ids'[v][s]] = RulesFor(v, s)'
    BY <1>1, RulesForStays DEF RulesKept
  <1>2. CASE WritePolicy(v)
    <2> DEFINE id == IF match[v] # 0 THEN match[v] ELSE Len(policies) + 1
    <2>1. /\ pc[v] = "write" /\ PutPolicy(v) /\ UNCHANGED <<det, egr>>
          /\ ids' = [ids EXCEPT ![v][Service(v)] = id]
      BY <1>2 DEF WritePolicy
    <2>2. /\ policies'[id] = RulesFor(v, Service(v))
          /\ \A p \in DOMAIN policies :
                policies'[p] = IF p = match[v] THEN RulesFor(v, Service(v)) ELSE policies[p]
      BY <2>1, PutPolicyType
    <2> HIDE DEF id
    <2>3. RulesFor(v, s)' = RulesFor(v, s)
      BY <2>1, RulesForStays
    <2>4. ids'[v][s] = IF s = Service(v) THEN id ELSE ids[v][s]
      BY <2>1, ServiceType DEF TypeOK
    <2>5. CASE s = Service(v)
      BY <2>2, <2>3, <2>4, <2>5
    <2>6. CASE s # Service(v)
      <3>1. ids'[v][s] = ids[v][s] /\ ids[v][s] \in DOMAIN policies
        BY <2>4, <2>6 DEF TypeOK
      <3>2. policies[ids[v][s]].name = PolicyName[s]
        BY <3>1 DEF IdsNamed, IdsNamedOf
      <3>3. match[v] # 0 => policies[match[v]].name = PolicyName[Service(v)]
        BY <2>1 DEF IdsNamed, IdsNamedOf
      <3>4. PolicyName[Service(v)] # PolicyName[s]
        BY <2>1, <2>6, ServiceType, PolicyNameAssumption
      <3>5. ids[v][s] # match[v]
        BY <3>1, <3>2, <3>3, <3>4
      <3>6. policies[ids[v][s]] = RulesFor(v, s)
        BY <3>1 DEF RulesKept
      <3> QED BY <2>2, <2>3, <3>1, <3>5, <3>6
    <2> QED BY <2>5, <2>6
  <1>3. CASE (Progress(v) \/ Failure(v)) /\ ~WritePolicy(v)
    BY <1>1, <1>3, IdsStep
  <1>4. CASE Settle \/ Roam \/ UserEdit \/ UNCHANGED vars
    BY <1>1, <1>4 DEF Settle, Roam, UserEdit, vars, runVars, apiVars
  <1> QED BY <1>2, <1>3, <1>4 DEF Next, OneWorker

------------------------------------------------------------------------------
(* The targets stay as the run leaves them.                                *)

\* Only the two halves of ReconcileInterface, and failures after which the run
\* reports an error, bring a run to its next target.
LEMMA TargetSteps ==
    ASSUME TypeOK, NEW v \in Workers, Progress(v) \/ Failure(v), ok'[v],
           pc'[v] \in {"get", "put", "done"}
    PROVE  \/ GetFirewall(v) \/ SaveFirewall(v)
           \/ pc'[v] = "get" /\ idx'[v] = 1
  BY DEF Progress, Failure, Start, Authenticate, EgressByConfig, EgressByInterface, SkipUpsert,
         ListPolicies, WritePolicy, GetFirewall, SaveFirewall, Finish, Abort, WritePolicyLost,
         TargetFails, SaveFirewallLost, EndRun, NextUpsert, TypeOK

\* Whether a target is settled depends on its attachments, the ids and the
\* configuration.
LEMMA SettledStays ==
    ASSUME NEW v \in Workers, NEW t \in Interfaces, Settled(v, t),
           fw'[t] = fw[t], ids'[v] = ids[v], cfg'[v] = cfg[v], policies' = policies
    PROVE  Settled(v, t)'
  BY DEF Settled, Present, Absent, WantsOn

\* A read that finds nothing to change finds the target settled.
LEMMA UnchangedSettled ==
    ASSUME TypeOK, IdsNamed, NEW w \in Workers, NEW t \in Interfaces,
           ~IsChanged(fw[t].user, Final(w, t, fw[t]))
    PROVE  Settled(w, t)
  <1>1. fw[t].user \subseteq 1 .. Len(policies) /\ Len(policies) \in Nat
        /\ fw[t].user \subseteq DOMAIN policies
    BY DEF TypeOK, AttachedExist
  <1>2. Final(w, t, fw[t]) \subseteq 1 .. Len(policies)
    BY <1>1, PresentType, FinalIdsType DEF Final
  <1>3. IsFiniteSet(1 .. Len(policies))
    BY <1>1, FS_Interval
  <1>4. IsFiniteSet(fw[t].user) /\ IsFiniteSet(Final(w, t, fw[t]))
    BY <1>1, <1>2, <1>3, FS_Subset
  <1>5. fw[t].user = Final(w, t, fw[t])
    BY <1>4, ChangedIffDifferent
  <1> QED BY <1>1, <1>5, FinalSettled DEF Settled

\* A user's edit does not unsettle a target.
LEMMA EditKeepsSettled ==
    ASSUME TypeOK, IdsNamed, UserEdit, NEW v \in Workers, NEW t \in Interfaces, Settled(v, t)
    PROVE  Settled(v, t)'
  <1>1. policies' = policies /\ ids' = ids /\ cfg' = cfg
    BY DEF UserEdit, runVars
  <1>2. PICK u \in Interfaces : \E f \in Edited(fw[u]) : fw' = [fw EXCEPT ![u] = f]
    BY DEF UserEdit
  <1>3. PICK f \in Edited(fw[u]) : fw' = [fw EXCEPT ![u] = f]
    BY <1>2
  <1>4. CASE u # t
    <2>1. fw'[t] = fw[t]
      BY <1>3, <1>4 DEF TypeOK
    <2> QED BY <1>1, <2>1, SettledStays
  <1>5. CASE u = t
    <2>1. fw'[t] = f
      BY <1>3, <1>5 DEF TypeOK
    <2>2. /\ f.user \subseteq DOMAIN policies
          /\ \A p \in DOMAIN policies :
                policies[p].name \in Managed => (p \in f.user <=> p \in fw[t].user)
      BY <1>3, <1>5, EditedShape
    <2>3. Present(v, t)' = Present(v, t) /\ Absent(v, t)' = Absent(v, t)
      BY <1>1 DEF Present, Absent, WantsOn
    <2>4. ASSUME NEW id \in Present(v, t) \ {0} PROVE id \in f.user
      <3>1. id \in fw[t].user /\ id \in DOMAIN policies
        BY DEF Settled, TypeOK, AttachedExist
      <3>2. PICK s \in Services : id = ids[v][s]
        BY DEF Present
      <3>3. policies[id].name \in Managed
        BY <2>4, <3>2 DEF IdsNamed, IdsNamedOf, Managed
      <3> QED BY <2>2, <3>1, <3>3
    <2>5. ASSUME NEW p \in f.user, policies[p].name \in Absent(v, t) PROVE FALSE
      <3>1. policies[p].name \in Managed
        BY <2>5 DEF Absent, Managed
      <3> QED BY <2>2, <2>5, <3>1 DEF Settled
    <2> QED BY <1>1, <2>1, <2>3, <2>4, <2>5 DEF Settled
  <1> QED BY <1>4, <1>5

\* The write of a target leaves it settled, and settled ones stay so, whether or
\* not its answer arrives.
LEMMA PutSettles ==
    ASSUME TypeOK, IdsNamed, NEW w \in Workers, pc[w] = "put", PutFirewall(w),
           ids' = ids, cfg' = cfg, policies' = policies,
           NEW t \in Interfaces, t = Target(w) \/ Settled(w, t)
    PROVE  Settled(w, t)'
  <1>1. CASE t = Target(w)
    <2>1. fw'[t].user = Final(w, t, snap[w])
      BY <1>1, PutFirewallEffect
    <2>2. snap[w].user \subseteq DOMAIN policies
      BY DEF TypeOK
    <2>3. Present(w, t)' = Present(w, t) /\ Absent(w, t)' = Absent(w, t)
      BY DEF Present, Absent, WantsOn
    <2> QED BY <2>1, <2>2, <2>3, FinalSettled DEF Settled
  <1>2. CASE t # Target(w)
    BY <1>2, PutFirewallEffect, SettledStays
  <1> QED BY <1>1, <1>2

LEMMA SaveSettles ==
    ASSUME TypeOK, IdsNamed, NEW w \in Workers, SaveFirewall(w), NEW t \in Interfaces,
           t = Target(w) \/ Settled(w, t)
    PROVE  Settled(w, t)'
  <1>1. /\ pc[w] = "put" /\ PutFirewall(w) /\ ids' = ids /\ cfg' = cfg /\ policies' = policies
    BY DEF SaveFirewall
  <1> QED BY <1>1, PutSettles

\* A target's position is a natural number in the next state, too.
LEMMA TargetsNext ==
    ASSUME TypeOK', NEW v \in Workers
    PROVE  /\ DOMAIN cfg'[v].targets = 1 .. Len(cfg'[v].targets)
           /\ \A i \in DOMAIN cfg'[v].targets : cfg'[v].targets[i] \in Interfaces
  <1>1. cfg'[v].targets \in Seq(Interfaces)
    BY ConfigsAssumption DEF TypeOK, Config
  <1> QED BY <1>1

LEMMA TargetsStep ==
    ASSUME OneWorker, TypeOK, IdsNamed, TargetsSettled, [Next]_vars
    PROVE  TargetsSettled'
  <1> SUFFICES ASSUME NEW v \in Workers, ok'[v], NEW i \in DOMAIN cfg'[v].targets,
                      pc'[v] = "done" \/ (pc'[v] \in {"get", "put"} /\ i < idx'[v]),
                      NEW t \in Interfaces, t = cfg'[v].targets[i]
               PROVE  Settled(v, t)'
    <2>1. SUFFICES ASSUME NEW v \in Workers, ok'[v], NEW i \in DOMAIN cfg'[v].targets,
                          pc'[v] = "done" \/ (pc'[v] \in {"get", "put"} /\ i < idx'[v])
                   PROVE  Settled(v, cfg[v].targets[i])'
      BY DEF TargetsSettled
    <2>2. cfg'[v].targets[i] \in Interfaces
      BY TypeStep, TargetsNext
    <2>3. PICK t \in Interfaces : t = cfg'[v].targets[i]
      BY <2>2
    <2>4. Settled(v, t)'
      BY <2>1, <2>3
    <2> QED BY <2>3, <2>4 DEF Settled, Present, Absent, WantsOn
  <1>1. CASE Progress(v) \/ Failure(v)
    <2>1. CASE GetFirewall(v)
      <3>1. UNCHANGED <<policies, fw, ids, cfg, ok>> /\ pc[v] = "get"
        BY <2>1 DEF GetFirewall, apiVars
      <3>2. /\ t = cfg[v].targets[i] /\ i \in Nat /\ i <= Len(cfg[v].targets)
            /\ idx[v] \in 1 .. Len(cfg[v].targets)
        <4>1. /\ cfg[v].targets \in Seq(Interfaces) /\ i \in 1 .. Len(cfg[v].targets)
              /\ DOMAIN cfg[v].targets = 1 .. Len(cfg[v].targets)
          BY <3>1, TargetsType
        <4>2. idx[v] \in DOMAIN cfg[v].targets
          BY <3>1 DEF TypeOK
        <4> QED BY <3>1, <4>1, <4>2
      <3>3. Settled(v, t) => Settled(v, t)'
        BY <3>1, <3>2, SettledStays
      <3>4. i < idx[v] => Settled(v, t)
        BY <3>1, <3>2 DEF TargetsSettled
      <3>5. ASSUME ~(i < idx[v]) PROVE ~IsChanged(fw[t].user, Final(v, t, fw[t]))
        <4>1. CASE pc'[v] = "put"
          <5>1. idx' = idx
            BY <2>1, <3>1, <4>1 DEF GetFirewall, NextTarget, TypeOK
          <5> QED BY <3>5, <4>1, <5>1
        <4>2. CASE pc'[v] # "put"
          <5>1. NextTarget(v) /\ ~IsChanged(fw[Target(v)].user, Final(v, Target(v), fw[Target(v)]))
            BY <2>1, <3>1, <4>2 DEF GetFirewall, TypeOK
          <5>2. i = idx[v]
            BY <3>1, <3>2, <3>5, <5>1 DEF NextTarget, TypeOK
          <5> QED BY <3>2, <5>1, <5>2 DEF Target
        <4> QED BY <4>1, <4>2
      <3> QED BY <3>1, <3>2, <3>3, <3>4, <3>5, UnchangedSettled
    <2>2. CASE SaveFirewall(v)
      <3>1. ids' = ids /\ cfg' = cfg /\ ok' = ok /\ pc[v] = "put"
        BY <2>2 DEF SaveFirewall
      <3>2. /\ t = cfg[v].targets[i] /\ i \in Nat /\ i <= Len(cfg[v].targets)
            /\ idx[v] \in 1 .. Len(cfg[v].targets)
        <4>1. /\ cfg[v].targets \in Seq(Interfaces) /\ i \in 1 .. Len(cfg[v].targets)
              /\ DOMAIN cfg[v].targets = 1 .. Len(cfg[v].targets)
          BY <3>1, TargetsType
        <4>2. idx[v] \in DOMAIN cfg[v].targets
          BY <3>1 DEF TypeOK
        <4> QED BY <3>1, <4>1, <4>2
      <3>3. i < idx[v] => Settled(v, t)
        BY <3>1, <3>2 DEF TargetsSettled
      <3>4. ~(i < idx[v]) => i = idx[v]
        BY <2>2, <3>2 DEF SaveFirewall, NextTarget, TypeOK
      <3> QED BY <2>2, <3>1, <3>2, <3>3, <3>4, SaveSettles DEF Target
    <2>3. CASE pc'[v] = "get" /\ idx'[v] = 1
      <3>1. i \in 1 .. Len(cfg'[v].targets)
        BY TypeStep, TargetsNext
      <3> QED BY <2>3, <3>1
    <2> QED BY <1>1, <2>1, <2>2, <2>3, TargetSteps
  <1>2. CASE UserEdit
    <2>1. UNCHANGED <<pc, cfg, idx, ok>>
      BY <1>2 DEF UserEdit, runVars
    <2>2. Settled(v, t)
      BY <2>1 DEF TargetsSettled
    <2> QED BY <1>2, <2>2, EditKeepsSettled
  <1>3. CASE Settle \/ Roam \/ UNCHANGED vars
    <2>1. UNCHANGED <<policies, fw, pc, cfg, idx, ok, ids>>
      BY <1>3 DEF Settle, Roam, vars, runVars, apiVars
    <2>2. Settled(v, t)
      BY <2>1 DEF TargetsSettled
    <2> QED BY <2>1, <2>2, SettledStays
  <1> QED BY <1>1, <1>2, <1>3 DEF Next, OneWorker

LEMMA SingleRunInvCorrect ==
    ASSUME OneWorker
    PROVE  Spec => []SingleRunInv
  <1>1. Init => RulesKept /\ TargetsSettled
    BY DEF Init, RulesKept, TargetsSettled, NoIds
  <1>2. TypeOK /\ IdsNamed /\ RulesKept /\ TargetsSettled /\ [Next]_vars
        => (RulesKept /\ TargetsSettled)'
    BY RulesStep, TargetsStep
  <1>3. UniquePolicies /\ MatchCurrent /\ RulesKept /\ TargetsSettled <=> SingleRunInv
    BY DEF SingleRunInv
  <1> QED BY <1>1, <1>2, <1>3, TypeCorrect, IdsNamedCorrect, UniqueCorrect, PTL DEF Spec

------------------------------------------------------------------------------
(* What a settled target is.                                               *)

\* A run at its targets asks for the services of the configuration, and holds
\* the id of a policy for each.
LEMMA ServicesWanted ==
    ASSUME TypeOK, IdsNamed, NEW w \in Workers, pc[w] \in {"get", "put", "done"},
           NEW t \in TargetsOf(w), NEW s \in Services
    PROVE  /\ WantsOn(w, t, s) <=> s \in ServicesFor(w, t)
           /\ s \in ServicesFor(w, t) => ids[w][s] # 0
  <1>1. ids[w][s] # 0 <=> Needed(w, s)
    BY DEF IdsNamed, IdsNamedOf, Behind
  <1>2. t \in Interfaces
    BY TargetsType DEF TargetsOf
  <1>3. cfg[w].on[t] \subseteq Optional
    BY <1>2, ConfigsAssumption DEF TypeOK, Config
  <1>4. CASE s = "ssh"
    BY <1>1, <1>4 DEF WantsOn, ServicesFor, Needed
  <1>5. CASE s = "egress"
    BY <1>1, <1>3, <1>5 DEF WantsOn, ServicesFor, Needed
  <1>6. CASE s \in Optional
    <2>1. s \in cfg[w].on[t] => AnyOn(cfg[w], s)
      BY DEF TargetsOf, AnyOn
    <2> QED BY <1>1, <1>6, <2>1 DEF WantsOn, ServicesFor, Needed
  <1> QED BY <1>4, <1>5, <1>6

\* A settled target carries the policies of exactly these services ...
LEMMA SettledCarries ==
    ASSUME TypeOK, IdsNamed, NEW w \in Workers, pc[w] \in {"get", "put", "done"},
           NEW t \in TargetsOf(w), Settled(w, t), NEW s \in Services
    PROVE  (\E p \in fw[t].user : policies[p].name = PolicyName[s]) <=> s \in ServicesFor(w, t)
  <1>1. ASSUME s \in ServicesFor(w, t)
        PROVE  \E p \in fw[t].user : policies[p].name = PolicyName[s]
    <2>1. ids[w][s] # 0 /\ WantsOn(w, t, s)
      BY <1>1, ServicesWanted
    <2>2. ids[w][s] \in fw[t].user
      BY <2>1 DEF Settled, Present
    <2> QED BY <2>1, <2>2 DEF IdsNamed, IdsNamedOf
  <1>2. ASSUME s \notin ServicesFor(w, t), NEW p \in fw[t].user
        PROVE  policies[p].name # PolicyName[s]
    <2>1. PolicyName[s] \in Absent(w, t)
      BY <1>2, ServicesWanted DEF Absent
    <2> QED BY <2>1 DEF Settled
  <1> QED BY <1>1, <1>2

\* ... and they are the policies the run upserted.
LEMMA SettledRules ==
    ASSUME TypeOK, IdsNamed, UniquePolicies, RulesKept,
           NEW w \in Workers, pc[w] \in {"get", "put", "done"},
           NEW t \in TargetsOf(w), Settled(w, t), NEW s \in Services,
           NEW p \in fw[t].user, policies[p].name = PolicyName[s]
    PROVE  policies[p] = RulesFor(w, s)
  <1>1. s \in ServicesFor(w, t)
    BY SettledCarries
  <1>2. ids[w][s] # 0
    BY <1>1, ServicesWanted
  <1>3. policies[ids[w][s]].name = PolicyName[s] /\ policies[ids[w][s]] = RulesFor(w, s)
    BY <1>2 DEF IdsNamed, IdsNamedOf, RulesKept
  <1>4. ids[w][s] \in DOMAIN policies
    BY <1>2 DEF TypeOK
  <1>5. p \in DOMAIN policies
    <2>1. t \in Interfaces
      BY TargetsType DEF TargetsOf
    <2> QED BY <2>1 DEF TypeOK, AttachedExist
  <1>6. PolicyName[s] \in Managed
    BY DEF Managed
  <1>7. p = ids[w][s]
    BY <1>3, <1>4, <1>5, <1>6 DEF UniquePolicies, UniqueIn
  <1> QED BY <1>3, <1>7

\* A settled target lets outbound traffic pass, whatever the VPN policies say.
LEMMA SettledOutbound ==
    ASSUME TypeOK, IdsNamed, UniquePolicies, RulesKept,
           NEW w \in Workers, pc[w] \in {"get", "put", "done"}, cfg[w].allowAll,
           NEW t \in TargetsOf(w), Settled(w, t)
    PROVE  OutboundOpen(t)
  <1> SUFFICES ASSUME NEW p \in fw[t].user, NEW s \in VpnServices,
                      policies[p].name = PolicyName[s], policies[p].egress
               PROVE  PolicyName["egress"] \in ManagedOn(t)
    BY DEF OutboundOpen
  <1>1. policies[p] = RulesFor(w, s)
    BY SettledRules
  <1>2. egr[w]
    <2>1. RulesFor(w, s).egress = ((s = "egress") \/ (s \in VpnServices /\ egr[w]))
      BY DEF RulesFor
    <2>2. s # "egress"
      OBVIOUS
    <2>3. RulesFor(w, s).egress
      BY <1>1
    <2> HIDE DEF VpnServices
    <2> QED BY <2>1, <2>2, <2>3, Zenon
  <1>3. "egress" \in ServicesFor(w, t)
    BY <1>2 DEF ServicesFor
  <1>4. \E q \in fw[t].user : policies[q].name = PolicyName["egress"]
    BY <1>3, SettledCarries
  <1> QED BY <1>4 DEF ManagedOn, Managed

------------------------------------------------------------------------------
(* A successful run.                                                       *)

LEMMA SucceededSettled ==
    ASSUME TargetsSettled, NEW w \in Workers, Succeeded(w), NEW t \in TargetsOf(w)
    PROVE  Settled(w, t)
  BY DEF TargetsSettled, Succeeded, TargetsOf

\* After a successful run that none overlapped, each target carries exactly the
\* managed policies its configuration asks for, accepts SSH from the detected
\* address only, and is not cut off from the outside.
THEOREM RunCorrect ==
    ASSUME OneWorker
    PROVE  Spec => [](UniquePolicies /\ AttachedAsConfigured /\ SshOnlyFromDetected /\ OutboundKept)
  <1>1. ASSUME TypeOK, IdsNamed, SingleRunInv PROVE AttachedAsConfigured
    <2> SUFFICES ASSUME NEW w \in Workers, Succeeded(w), NEW t \in TargetsOf(w)
                 PROVE  ManagedOn(t) = {PolicyName[s] : s \in ServicesFor(w, t)}
      BY DEF AttachedAsConfigured
    <2>1. Settled(w, t) /\ pc[w] \in {"get", "put", "done"}
      BY <1>1, SucceededSettled DEF SingleRunInv, Succeeded
    <2>2. \A s \in Services : (\E p \in fw[t].user : policies[p].name = PolicyName[s])
                              <=> s \in ServicesFor(w, t)
      BY <1>1, <2>1, SettledCarries
    <2>3. ServicesFor(w, t) \subseteq Services
      <3>1. t \in Interfaces
        BY <1>1, TargetsType DEF TargetsOf
      <3>2. cfg[w].on[t] \subseteq Optional
        BY <1>1, <3>1, ConfigsAssumption DEF TypeOK, Config
      <3> QED BY <3>2 DEF ServicesFor
    <2> HIDE DEF Services
    <2> QED BY <2>2, <2>3 DEF ManagedOn, Managed
  <1>2. ASSUME TypeOK, IdsNamed, SingleRunInv PROVE SshOnlyFromDetected
    <2> SUFFICES ASSUME NEW w \in Workers, Succeeded(w), NEW t \in TargetsOf(w),
                        NEW p \in fw[t].user, policies[p].name = PolicyName["ssh"]
                 PROVE  policies[p].sources = det[w]
      BY DEF SshOnlyFromDetected
    <2>1. Settled(w, t) /\ pc[w] \in {"get", "put", "done"}
      BY <1>2, SucceededSettled DEF SingleRunInv, Succeeded
    <2>2. policies[p] = RulesFor(w, "ssh")
      BY <1>2, <2>1, SettledRules DEF SingleRunInv
    <2> QED BY <2>2 DEF RulesFor
  <1>3. ASSUME TypeOK, IdsNamed, SingleRunInv PROVE OutboundKept
    <2> SUFFICES ASSUME NEW w \in Workers, Succeeded(w), cfg[w].allowAll, NEW t \in TargetsOf(w)
                 PROVE  OutboundOpen(t)
      BY DEF OutboundKept
    <2>1. Settled(w, t) /\ pc[w] \in {"get", "put", "done"}
      BY <1>3, SucceededSettled DEF SingleRunInv, Succeeded
    <2> QED BY <1>3, <2>1, SettledOutbound DEF SingleRunInv
  <1>4. SingleRunInv => UniquePolicies
    BY DEF SingleRunInv
  <1> QED BY <1>1, <1>2, <1>3, <1>4, TypeCorrect, IdsNamedCorrect, SingleRunInvCorrect, PTL

\* No write of an interface strands it, in runs that succeed and in runs that
\* fail later.
THEOREM SaveOutbound ==
    ASSUME OneWorker
    PROVE  Spec => SaveKeepsOutboundOpen
  <1> DEFINE I == \A w \in Workers : pc[w] \in {"get", "put", "done"} /\ cfg[w].allowAll =>
                    \A t \in TargetsOf(w) : Settled(w, t) => OutboundOpen(t)
             A == \A w \in Workers : \A t \in Interfaces :
                    SaveFirewall(w) /\ Target(w) = t /\ cfg[w].allowAll => OutboundOpen(t)'
  <1>1. TypeOK /\ IdsNamed /\ SingleRunInv => I
    BY SettledOutbound DEF SingleRunInv
  <1>2. ASSUME TypeOK, IdsNamed, I' PROVE A
    <2> SUFFICES ASSUME NEW w \in Workers, NEW t \in Interfaces,
                        SaveFirewall(w), Target(w) = t, cfg[w].allowAll
                 PROVE  OutboundOpen(t)'
      OBVIOUS
    <2>1. Settled(w, t)'
      BY <1>2, SaveSettles
    <2>2. cfg' = cfg /\ pc[w] = "put" /\ pc'[w] \in {"get", "done"}
      BY <1>2 DEF SaveFirewall, NextTarget, TypeOK
    <2>3. idx[w] \in DOMAIN cfg[w].targets
      BY <1>2, <2>2 DEF TypeOK
    <2>4. t \in TargetsOf(w)'
      BY <2>2, <2>3 DEF TargetsOf, Target
    <2> QED BY <1>2, <2>1, <2>2, <2>4
  <1>3. TypeOK /\ IdsNamed /\ I' => [A]_vars
    BY <1>2
  <1> QED BY <1>1, <1>3, TypeCorrect, IdsNamedCorrect, SingleRunInvCorrect, PTL
             DEF SaveKeepsOutboundOpen
==============================================================================

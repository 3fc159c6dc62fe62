--------------------------- MODULE ApplyCycleProofs ---------------------------
(***************************************************************************)
(* Proofs about ApplyCycle, for any set of interfaces, addresses, policies *)
(* and configurations: the types, then what any number of overlapping runs *)
(* keep.                                                                   *)
(***************************************************************************)
EXTENDS ApplyProps, FiniteSetTheorems, TLAPS

USE DEF Services, Optional, VpnServices, UpsertOrder, Steps, InLoop

------------------------------------------------------------------------------
(* The helpers have their types.                                           *)

\* The ids of a write are ids the run read or upserted.
LEMMA FinalIdsType ==
    ASSUME NEW n \in Nat, NEW user, user \subseteq 1 .. n, NEW nm,
           NEW present, present \subseteq 0 .. n, NEW absent
    PROVE  FinalIds(user, nm, present, absent) \subseteq 1 .. n
  <1>1. KeptIds(user, nm, absent) \subseteq 1 .. n
    BY DEF KeptIds
  <1>2. present \ {0} \subseteq 1 .. n
    OBVIOUS
  <1> QED BY <1>1, <1>2 DEF FinalIds

\* The ids of a longer list of policies include those of a shorter one.
LEMMA LongerDomain ==
    ASSUME NEW S, NEW p \in Seq(S), NEW q \in Seq(S), Len(p) <= Len(q)
    PROVE  DOMAIN p \subseteq DOMAIN q
  <1>1. DOMAIN p = 1 .. Len(p) /\ DOMAIN q = 1 .. Len(q) /\ Len(p) \in Nat /\ Len(q) \in Nat
    OBVIOUS
  <1> QED BY <1>1

\* reconcileTarget asks for ids of the policies the run upserted.
LEMMA PresentType ==
    ASSUME TypeOK, NEW w \in Workers, NEW t
    PROVE  Present(w, t) \subseteq 0 .. Len(policies)
  BY DEF Present, TypeOK

\* The position in the upsert loop is that of a service.
LEMMA ServiceType ==
    ASSUME TypeOK, NEW w \in Workers, pc[w] \in {"list", "write"}
    PROVE  Service(w) \in Services /\ idx[w] \in 1 .. 5
  <1>1. DOMAIN UpsertOrder = 1 .. 5
    OBVIOUS
  <1>2. idx[w] \in 1 .. 5
    BY <1>1 DEF TypeOK
  <1>3. \A i \in 1 .. 5 : UpsertOrder[i] \in Services
    OBVIOUS
  <1> QED BY <1>2, <1>3 DEF Service

\* The rules a run builds make up a policy.
LEMMA RulesForType ==
    ASSUME TypeOK, NEW w \in Workers, NEW s \in Services
    PROVE  RulesFor(w, s) \in Policy
  <1>1. PolicyName[s] \in Names
    BY PolicyNameAssumption
  <1>2. (CASE s = "ssh" -> det[w] [] s = "cf" -> CfRanges [] OTHER -> {})
            \in SUBSET (Addrs \cup CfRanges)
    <2>1. CASE s = "ssh"
      BY <2>1 DEF TypeOK
    <2>2. CASE s = "cf"
      BY <2>2
    <2>3. CASE s # "ssh" /\ s # "cf"
      BY <2>3
    <2> QED BY <2>1, <2>2, <2>3
  <1>3. ((s = "egress") \/ (s \in VpnServices /\ egr[w])) \in BOOLEAN
    OBVIOUS
  <1> QED BY <1>1, <1>2, <1>3 DEF RulesFor, Policy

\* What a policy write leaves at the API: policies stay policies, ids stay ids.
LEMMA PutPolicyType ==
    ASSUME TypeOK, NEW w \in Workers, pc[w] = "write", PutPolicy(w)
    PROVE  /\ policies' \in Seq(Policy)
           /\ Len(policies) <= Len(policies')
           /\ Len(policies') = IF match[w] = 0 THEN Len(policies) + 1 ELSE Len(policies)
           /\ AttachedExist(policies', fw)
           /\ \A p \in DOMAIN policies :
                policies'[p] = IF p = match[w] THEN RulesFor(w, Service(w)) ELSE policies[p]
           /\ policies'[IF match[w] # 0 THEN match[w] ELSE Len(policies) + 1]
                = RulesFor(w, Service(w))
  <1>1. RulesFor(w, Service(w)) \in Policy
    BY ServiceType, RulesForType
  <1> DEFINE rules == RulesFor(w, Service(w))
  <1> HIDE DEF rules
  <1>2. policies \in Seq(Policy) /\ match[w] \in 0 .. Len(policies) /\ AttachedExist(policies, fw)
    BY DEF TypeOK
  <1>3. policies' = IF match[w] # 0 THEN [policies EXCEPT ![match[w]] = rules]
                    ELSE Append(policies, rules)
    BY DEF PutPolicy, rules
  <1>4. rules \in Policy
    BY <1>1 DEF rules
  <1>5. CASE match[w] # 0
    BY <1>2, <1>3, <1>4, <1>5 DEF AttachedExist, rules
  <1>6. CASE match[w] = 0
    BY <1>2, <1>3, <1>4, <1>6 DEF AttachedExist, rules
  <1> QED BY <1>5, <1>6

\* Both writes of an interface attach ids of existing policies.
LEMMA PutFirewallType ==
    ASSUME TypeOK, NEW w \in Workers, pc[w] = "put", PutFirewall(w)
    PROVE  fw' \in [Interfaces -> Firewall] /\ AttachedExist(policies, fw')
  <1>1. Target(w) \in Interfaces
    BY ConfigsAssumption DEF TypeOK, Target, Config
  <1>2. Final(w, Target(w), snap[w]) \subseteq 1 .. Len(policies)
    <2>1. snap[w].user \subseteq 1 .. Len(policies) /\ Len(policies) \in Nat
      BY DEF TypeOK
    <2> QED BY <2>1, PresentType, FinalIdsType DEF Final
  <1>3. snap[w].copied \subseteq CopiedIds
    BY DEF TypeOK, Firewall
  <1> DEFINE f == [user   |-> Final(w, Target(w), snap[w]),
                   copied |-> snap[w].copied,
                   active |-> TRUE]
  <1>4. f \in Firewall
    BY <1>2, <1>3 DEF Firewall
  <1>5. fw' = [fw EXCEPT ![Target(w)] = f] /\ f.user \subseteq 1 .. Len(policies)
    BY <1>2 DEF PutFirewall
  <1> HIDE DEF f
  <1> QED BY <1>1, <1>4, <1>5 DEF TypeOK, AttachedExist

\* A user's edit leaves a firewall, and touches only existing policies that the
\* tool does not manage.
LEMMA EditedShape ==
    ASSUME TypeOK, NEW t \in Interfaces, NEW f \in Edited(fw[t])
    PROVE  /\ f \in Firewall
           /\ f.user \subseteq DOMAIN policies
           /\ \A p \in DOMAIN policies :
                policies[p].name \in Managed => (p \in f.user <=> p \in fw[t].user)
  <1> DEFINE g == fw[t]
             others == {p \in DOMAIN policies : policies[p].name \notin Managed}
  <1>1. g \in Firewall /\ g.user \subseteq DOMAIN policies /\ DOMAIN policies \subseteq Nat
    BY DEF TypeOK, AttachedExist
  <1>2. g = [user |-> g.user, copied |-> g.copied, active |-> g.active]
        /\ g.copied \subseteq CopiedIds /\ g.active \in BOOLEAN
    BY <1>1 DEF Firewall
  <1> HIDE DEF g
  <1>3. \/ \E p \in others : f = [g EXCEPT !.user = @ \cup {p}]
        \/ \E p \in others : f = [g EXCEPT !.user = @ \ {p}]
        \/ \E c \in SUBSET CopiedIds : f = [g EXCEPT !.copied = c]
        \/ f = [g EXCEPT !.active = FALSE]
    BY DEF Edited, g
  <1>4. CASE \E p \in others : f = [g EXCEPT !.user = @ \cup {p}]
    BY <1>1, <1>2, <1>4 DEF Firewall, g
  <1>5. CASE \E p \in others : f = [g EXCEPT !.user = @ \ {p}]
    BY <1>1, <1>2, <1>5 DEF Firewall, g
  <1>6. CASE \E c \in SUBSET CopiedIds : f = [g EXCEPT !.copied = c]
    BY <1>1, <1>2, <1>6 DEF Firewall, g
  <1>7. CASE f = [g EXCEPT !.active = FALSE]
    BY <1>1, <1>2, <1>7 DEF Firewall, g
  <1> QED BY <1>3, <1>4, <1>5, <1>6, <1>7

\* A worker's variables return to their initial values.
LEMMA EndRunType ==
    ASSUME TypeOK, NEW w \in Workers, EndRun(w), home' \in Addrs, busy' \in BOOLEAN,
           policies' \in Seq(Policy), Len(policies) <= Len(policies'), fw' = fw,
           AttachedExist(policies', fw),
           roams' \in 0 .. MaxRoams, edits' \in 0 .. MaxEdits, faults' \in 0 .. MaxFaults
    PROVE  TypeOK'
  <1>1. AnyConfig \in Configs
    BY ConfigsAssumption DEF AnyConfig
  <1>2. NoFirewall \in Firewall /\ NoFirewall.user = {}
    BY DEF NoFirewall, Firewall
  <1>3. NoIds \in [Services -> 0 .. Len(policies')]
    BY DEF NoIds
  <1>4. \A v \in Workers : pc'[v] = (IF v = w THEN "idle" ELSE pc[v])
    BY DEF EndRun, TypeOK
  <1>5. /\ pc' \in [Workers -> Steps] /\ cfg' \in [Workers -> Configs]
        /\ det' \in [Workers -> SUBSET Addrs] /\ egr' \in [Workers -> BOOLEAN]
        /\ idx' \in [Workers -> Nat \ {0}]
        /\ snap' \in [Workers -> Firewall] /\ ok' \in [Workers -> BOOLEAN]
    BY <1>1, <1>2 DEF EndRun, TypeOK
  <1>6. /\ ids' \in [Workers -> [Services -> 0 .. Len(policies')]]
        /\ match' \in [Workers -> 0 .. Len(policies')]
    <2>1. Len(policies) \in Nat /\ Len(policies') \in Nat /\ 0 .. Len(policies) \subseteq 0 .. Len(policies')
      BY DEF TypeOK
    <2>2. /\ ids \in [Workers -> [Services -> 0 .. Len(policies')]]
          /\ match \in [Workers -> 0 .. Len(policies')]
      BY <2>1 DEF TypeOK
    <2> QED BY <1>3, <2>1, <2>2 DEF EndRun
  <1>7. ASSUME NEW v \in Workers
        PROVE  /\ snap'[v].user \subseteq DOMAIN policies'
               /\ InLoop(v)'
    <2>1. DOMAIN policies \subseteq DOMAIN policies'
      BY LongerDomain DEF TypeOK
    <2>2. CASE v = w
      BY <1>2, <1>4, <2>2 DEF EndRun, TypeOK
    <2>3. CASE v # w
      BY <1>4, <2>1, <2>3 DEF EndRun, TypeOK
    <2> QED BY <2>2, <2>3
  <1> QED BY <1>5, <1>6, <1>7 DEF TypeOK

------------------------------------------------------------------------------
(* Type correctness.                                                       *)

\* A configuration has a first target.
LEMMA TargetsType ==
    ASSUME TypeOK, NEW w \in Workers
    PROVE  /\ cfg[w].targets \in Seq(Interfaces)
           /\ DOMAIN cfg[w].targets = 1 .. Len(cfg[w].targets)
           /\ Len(cfg[w].targets) \in Nat
           /\ 1 \in DOMAIN cfg[w].targets
  <1>1. cfg[w].targets \in Seq(Interfaces) /\ cfg[w].targets # <<>>
    BY ConfigsAssumption DEF TypeOK, Config
  <1> QED BY <1>1

LEMMA NextUpsertType ==
    ASSUME TypeOK, NEW w \in Workers, pc[w] \in {"list", "write"}, NextUpsert(w), cfg' = cfg
    PROVE  /\ pc' \in [Workers -> Steps]
           /\ idx' \in [Workers -> Nat \ {0}]
           /\ \A v \in Workers : InLoop(v)'
  <1>1. idx[w] \in 1 .. 5 /\ DOMAIN UpsertOrder = 1 .. 5 /\ Len(UpsertOrder) = 5
    BY ServiceType
  <1>2. 1 \in DOMAIN cfg[w].targets
    BY TargetsType
  <1>3. pc' \in [Workers -> Steps] /\ idx' \in [Workers -> Nat \ {0}]
    BY <1>1 DEF TypeOK, NextUpsert
  <1>4. ASSUME NEW v \in Workers PROVE InLoop(v)'
    <2>1. CASE v = w
      BY <1>1, <1>2, <2>1 DEF TypeOK, NextUpsert
    <2>2. CASE v # w
      BY <2>2 DEF TypeOK, NextUpsert
    <2> QED BY <2>1, <2>2
  <1> QED BY <1>3, <1>4

LEMMA NextTargetType ==
    ASSUME TypeOK, NEW w \in Workers, pc[w] \in {"get", "put"}, NextTarget(w), cfg' = cfg
    PROVE  /\ pc' \in [Workers -> Steps]
           /\ idx' \in [Workers -> Nat \ {0}]
           /\ snap' \in [Workers -> Firewall]
           /\ \A v \in Workers : InLoop(v)' /\ snap'[v].user \subseteq DOMAIN policies
  <1>1. NoFirewall \in Firewall /\ NoFirewall.user = {}
    BY DEF NoFirewall, Firewall
  <1>2. pc' \in [Workers -> Steps] /\ idx' \in [Workers -> Nat \ {0}] /\ snap' \in [Workers -> Firewall]
    BY <1>1 DEF TypeOK, NextTarget
  <1>3. ASSUME NEW v \in Workers PROVE InLoop(v)' /\ snap'[v].user \subseteq DOMAIN policies
    <2>1. CASE v = w
      <3>1. idx[w] \in 1 .. Len(cfg[w].targets) /\ Len(cfg[w].targets) \in Nat
        BY TargetsType DEF TypeOK
      <3>2. snap'[v] = NoFirewall
        BY <2>1 DEF TypeOK, NextTarget
      <3>3. CASE idx[w] < Len(cfg[w].targets)
        <4>1. pc'[w] = "get" /\ idx'[w] = idx[w] + 1
          BY <3>3 DEF TypeOK, NextTarget
        <4> QED BY <1>1, <2>1, <3>1, <3>2, <3>3, <4>1, TargetsType
      <3>4. CASE ~(idx[w] < Len(cfg[w].targets))
        <4>1. pc'[w] = "done"
          BY <3>4 DEF TypeOK, NextTarget
        <4> QED BY <1>1, <2>1, <3>2, <4>1
      <3> QED BY <3>3, <3>4
    <2>2. CASE v # w
      BY <2>2 DEF TypeOK, NextTarget
    <2> QED BY <2>1, <2>2
  <1> QED BY <1>2, <1>3

THEOREM TypeInit == Init => TypeOK
  <1> SUFFICES ASSUME Init PROVE TypeOK
    OBVIOUS
  <1>1. AnyConfig \in Configs
    BY ConfigsAssumption DEF AnyConfig
  <1>2. NoFirewall \in Firewall /\ NoFirewall.user = {}
    BY DEF NoFirewall, Firewall
  <1>3. policies \in Seq(Policy) /\ fw \in [Interfaces -> Firewall] /\ AttachedExist(policies, fw)
    BY AccountsAssumption DEF Init
  <1>4. NoIds \in [Services -> 0 .. Len(policies)] /\ 0 \in 0 .. Len(policies)
    BY <1>3 DEF NoIds
  <1>5. /\ ids \in [Workers -> [Services -> 0 .. Len(policies)]]
        /\ match \in [Workers -> 0 .. Len(policies)]
    BY <1>4 DEF Init
  <1>6. /\ pc \in [Workers -> Steps] /\ cfg \in [Workers -> Configs]
        /\ det \in [Workers -> SUBSET Addrs] /\ egr \in [Workers -> BOOLEAN]
        /\ idx \in [Workers -> Nat \ {0}]
        /\ snap \in [Workers -> Firewall] /\ ok \in [Workers -> BOOLEAN]
        /\ busy \in BOOLEAN /\ home \in Addrs
    <2>1. pc \in [Workers -> Steps] /\ cfg \in [Workers -> Configs]
      BY <1>1 DEF Init
    <2>2. det \in [Workers -> SUBSET Addrs] /\ egr \in [Workers -> BOOLEAN]
      BY DEF Init
    <2>3. idx \in [Workers -> Nat \ {0}] /\ ok \in [Workers -> BOOLEAN]
      BY DEF Init
    <2>4. snap \in [Workers -> Firewall]
      BY <1>2 DEF Init
    <2>5. busy \in BOOLEAN /\ home \in Addrs
      BY DEF Init
    <2> QED BY <2>1, <2>2, <2>3, <2>4, <2>5
  <1>7. roams \in 0 .. MaxRoams /\ edits \in 0 .. MaxEdits /\ faults \in 0 .. MaxFaults
    BY BoundsAssumption DEF Init
  <1>8. \A w \in Workers : snap[w].user = {} /\ pc[w] = "idle" /\ idx[w] = 1
    BY <1>2 DEF Init
  <1> QED BY <1>3, <1>5, <1>6, <1>7, <1>8 DEF TypeOK

\* The part of TypeOK about the variables of the runs.
RunTypes ==
    /\ pc \in [Workers -> Steps]
    /\ cfg \in [Workers -> Configs]
    /\ det \in [Workers -> SUBSET Addrs]
    /\ egr \in [Workers -> BOOLEAN]
    /\ idx \in [Workers -> Nat \ {0}]
    /\ ids \in [Workers -> [Services -> 0 .. Len(policies)]]
    /\ match \in [Workers -> 0 .. Len(policies)]
    /\ snap \in [Workers -> Firewall]
    /\ ok \in [Workers -> BOOLEAN]

\* Every step of the runs, of the API and of the outside world keeps the types.
THEOREM TypeStep == TypeOK /\ [Next]_vars => TypeOK'
  <1> SUFFICES ASSUME TypeOK, [Next]_vars PROVE TypeOK'
    OBVIOUS
  <1> USE DEF apiVars, boundVars
  <1>1. ASSUME NEW w \in Workers, Start(w) PROVE TypeOK'
    <2>1. RunTypes'
      BY <1>1 DEF TypeOK, RunTypes, Start
    <2>2. ASSUME NEW v \in Workers PROVE snap'[v].user \subseteq DOMAIN policies' /\ InLoop(v)'
      BY <1>1 DEF TypeOK, Start
    <2> QED BY <1>1, <2>1, <2>2 DEF TypeOK, RunTypes, Start
  <1>2. ASSUME NEW w \in Workers, Authenticate(w) PROVE TypeOK'
    <2>1. RunTypes'
      BY <1>2 DEF TypeOK, RunTypes, Authenticate
    <2>2. ASSUME NEW v \in Workers PROVE snap'[v].user \subseteq DOMAIN policies' /\ InLoop(v)'
      BY <1>2, TargetsType DEF TypeOK, Authenticate
    <2> QED BY <1>2, <2>1, <2>2 DEF TypeOK, RunTypes, Authenticate
  <1>3. ASSUME NEW w \in Workers, EgressByConfig(w) PROVE TypeOK'
    <2>1. RunTypes'
      BY <1>3 DEF TypeOK, RunTypes, EgressByConfig
    <2>2. ASSUME NEW v \in Workers PROVE snap'[v].user \subseteq DOMAIN policies' /\ InLoop(v)'
      <3>1. CASE v = w
        <4>1. idx'[v] = 1 /\ pc'[v] = "list" /\ 1 \in DOMAIN UpsertOrder
          BY <1>3, <3>1 DEF TypeOK, EgressByConfig
        <4> QED BY <1>3, <4>1 DEF TypeOK, EgressByConfig
      <3>2. CASE v # w
        BY <1>3, <3>2 DEF TypeOK, EgressByConfig
      <3> QED BY <3>1, <3>2
    <2> QED BY <1>3, <2>1, <2>2 DEF TypeOK, RunTypes, EgressByConfig
  <1>4. ASSUME NEW w \in Workers, EgressByInterface(w) PROVE TypeOK'
    <2> DEFINE dropped == EgressDropped(Target(w))
               stop == dropped \/ idx[w] = Len(cfg[w].targets)
    <2>1. dropped \in BOOLEAN
      BY DEF EgressDropped
    <2>2. idx[w] \in 1 .. Len(cfg[w].targets) /\ Len(cfg[w].targets) \in Nat
      BY <1>4, TargetsType DEF TypeOK, EgressByInterface
    <2>3. /\ egr' = [egr EXCEPT ![w] = dropped]
          /\ idx' = [idx EXCEPT ![w] = IF stop THEN 1 ELSE idx[w] + 1]
          /\ pc' = [pc EXCEPT ![w] = IF stop THEN "list" ELSE "egress"]
          /\ UNCHANGED <<apiVars, home, cfg, det, ids, match, snap, ok, boundVars>>
          /\ ReadsTargets(cfg[w])
      BY <1>4 DEF EgressByInterface
    <2> HIDE DEF dropped
    <2>4. RunTypes'
      <3>1. (IF stop THEN 1 ELSE idx[w] + 1) \in Nat \ {0}
        BY <2>2
      <3>2. (IF stop THEN "list" ELSE "egress") \in Steps
        OBVIOUS
      <3> HIDE DEF stop
      <3> QED BY <2>1, <2>3, <3>1, <3>2 DEF TypeOK, RunTypes
    <2>5. ASSUME NEW v \in Workers PROVE snap'[v].user \subseteq DOMAIN policies' /\ InLoop(v)'
      <3>1. CASE v = w
        <4>1. pc'[v] = (IF stop THEN "list" ELSE "egress") /\ cfg'[v] = cfg[v]
              /\ idx'[v] = (IF stop THEN 1 ELSE idx[w] + 1)
          BY <2>3, <3>1 DEF TypeOK
        <4>2. CASE stop
          BY <2>3, <3>1, <4>1, <4>2 DEF TypeOK
        <4>3. CASE ~stop
          <5>1. idx[w] + 1 \in DOMAIN cfg[w].targets
            BY <2>2, <4>3, TargetsType
          <5> QED BY <2>3, <3>1, <4>1, <4>3, <5>1 DEF TypeOK
        <4> QED BY <4>2, <4>3
      <3>2. CASE v # w
        BY <2>3, <3>2 DEF TypeOK
      <3> QED BY <3>1, <3>2
    <2> QED BY <2>3, <2>4, <2>5 DEF TypeOK, RunTypes
  <1>5. ASSUME NEW w \in Workers, SkipUpsert(w) PROVE TypeOK'
    <2>1. RunTypes'
      BY <1>5, NextUpsertType DEF TypeOK, RunTypes, SkipUpsert
    <2>2. ASSUME NEW v \in Workers PROVE snap'[v].user \subseteq DOMAIN policies' /\ InLoop(v)'
      BY <1>5, NextUpsertType DEF TypeOK, SkipUpsert
    <2> QED BY <1>5, <2>1, <2>2 DEF TypeOK, RunTypes, SkipUpsert
  <1>6. ASSUME NEW w \in Workers, ListPolicies(w) PROVE TypeOK'
    <2>1. RunTypes'
      BY <1>6 DEF TypeOK, RunTypes, ListPolicies
    <2>2. ASSUME NEW v \in Workers PROVE snap'[v].user \subseteq DOMAIN policies' /\ InLoop(v)'
      BY <1>6 DEF TypeOK, ListPolicies
    <2> QED BY <1>6, <2>1, <2>2 DEF TypeOK, RunTypes, ListPolicies
  <1>7. ASSUME NEW w \in Workers, WritePolicy(w) PROVE TypeOK'
    <2>0. /\ policies' \in Seq(Policy)
          /\ Len(policies) <= Len(policies') /\ AttachedExist(policies', fw)
          /\ match[w] = 0 => Len(policies') = Len(policies) + 1
      BY <1>7, PutPolicyType DEF WritePolicy
    <2>1. policies \in Seq(Policy) /\ Len(policies') \in Nat /\ Len(policies) \in Nat
      BY <2>0 DEF TypeOK
    <2>2. (IF match[w] # 0 THEN match[w] ELSE Len(policies) + 1) \in 0 .. Len(policies')
      BY <2>0, <2>1 DEF TypeOK
    <2>3. 0 .. Len(policies) \subseteq 0 .. Len(policies') /\ 0 \in 0 .. Len(policies')
      BY <2>0, <2>1
    <2>4. /\ ids \in [Workers -> [Services -> 0 .. Len(policies')]]
          /\ match \in [Workers -> 0 .. Len(policies')]
      BY <2>3 DEF TypeOK
    <2>5. /\ ids' \in [Workers -> [Services -> 0 .. Len(policies')]]
          /\ match' \in [Workers -> 0 .. Len(policies')]
      BY <1>7, <2>2, <2>3, <2>4 DEF WritePolicy
    <2>6. /\ pc' \in [Workers -> Steps] /\ idx' \in [Workers -> Nat \ {0}]
          /\ \A v \in Workers : InLoop(v)'
      BY <1>7, NextUpsertType DEF WritePolicy
    <2>7. \A v \in Workers : snap'[v].user \subseteq DOMAIN policies'
      <3>1. DOMAIN policies \subseteq DOMAIN policies'
        BY <2>0, <2>1, LongerDomain
      <3> QED BY <1>7, <3>1 DEF WritePolicy, TypeOK
    <2> QED BY <1>7, <2>0, <2>5, <2>6, <2>7 DEF TypeOK, WritePolicy, PutPolicy
  <1>8. ASSUME NEW w \in Workers, GetFirewall(w) PROVE TypeOK'
    <2>1. Target(w) \in Interfaces
      <3>1. cfg[w].targets \in Seq(Interfaces)
        BY TargetsType
      <3>2. idx[w] \in DOMAIN cfg[w].targets
        BY <1>8 DEF TypeOK, GetFirewall
      <3> QED BY <3>1, <3>2 DEF Target
    <2>2. CASE /\ snap' = [snap EXCEPT ![w] = fw[Target(w)]]
               /\ pc' = [pc EXCEPT ![w] = "put"]
               /\ UNCHANGED idx
      <3>1. RunTypes'
        BY <1>8, <2>1, <2>2 DEF TypeOK, RunTypes, GetFirewall
      <3>2. ASSUME NEW v \in Workers PROVE snap'[v].user \subseteq DOMAIN policies' /\ InLoop(v)'
        BY <1>8, <2>1, <2>2 DEF TypeOK, GetFirewall, AttachedExist
      <3> QED BY <1>8, <3>1, <3>2 DEF TypeOK, RunTypes, GetFirewall
    <2>3. CASE NextTarget(w)
      BY <1>8, <2>3, NextTargetType DEF TypeOK, GetFirewall
    <2> QED BY <1>8, <2>2, <2>3 DEF GetFirewall
  <1>9. ASSUME NEW w \in Workers, SaveFirewall(w) PROVE TypeOK'
    <2>1. RunTypes'
      BY <1>9, NextTargetType, PutFirewallType DEF TypeOK, RunTypes, SaveFirewall, PutFirewall
    <2>2. ASSUME NEW v \in Workers PROVE snap'[v].user \subseteq DOMAIN policies' /\ InLoop(v)'
      BY <1>9, NextTargetType, PutFirewallType DEF TypeOK, SaveFirewall
    <2> QED BY <1>9, <2>1, <2>2, PutFirewallType DEF TypeOK, RunTypes, SaveFirewall, PutFirewall
  <1>10. ASSUME NEW w \in Workers, Finish(w) PROVE TypeOK'
    <2>1. EndRun(w) /\ UNCHANGED <<policies, fw, busy, home, roams, edits, faults>>
      BY <1>10 DEF Finish
    <2>2. /\ policies' \in Seq(Policy) /\ Len(policies) <= Len(policies')
          /\ AttachedExist(policies', fw) /\ home' \in Addrs /\ busy' \in BOOLEAN
          /\ roams' \in 0 .. MaxRoams /\ edits' \in 0 .. MaxEdits /\ faults' \in 0 .. MaxFaults
      BY <2>1 DEF TypeOK, AttachedExist
    <2> QED BY <2>1, <2>2, EndRunType
  <1>11. ASSUME NEW w \in Workers, Abort(w) PROVE TypeOK'
    <2>1. EndRun(w) /\ UNCHANGED <<policies, fw, busy, home, roams, edits>>
      BY <1>11 DEF Abort
    <2>2. faults' \in 0 .. MaxFaults
      BY <1>11, BoundsAssumption DEF TypeOK, Abort, Fault
    <2>3. /\ policies' \in Seq(Policy) /\ Len(policies) <= Len(policies')
          /\ AttachedExist(policies', fw) /\ home' \in Addrs /\ busy' \in BOOLEAN
          /\ roams' \in 0 .. MaxRoams /\ edits' \in 0 .. MaxEdits
      BY <2>1 DEF TypeOK, AttachedExist
    <2> QED BY <2>1, <2>2, <2>3, EndRunType
  <1>12. ASSUME NEW w \in Workers, WritePolicyLost(w) PROVE TypeOK'
    <2>1. EndRun(w) /\ UNCHANGED <<fw, home, roams, edits>> /\ busy' \in BOOLEAN
      BY <1>12 DEF WritePolicyLost, PutPolicy
    <2>2. faults' \in 0 .. MaxFaults
      BY <1>12, BoundsAssumption DEF TypeOK, WritePolicyLost, Fault
    <2>3. /\ policies' \in Seq(Policy) /\ Len(policies) <= Len(policies')
          /\ AttachedExist(policies', fw)
      BY <1>12, PutPolicyType DEF WritePolicyLost
    <2>4. home' \in Addrs /\ roams' \in 0 .. MaxRoams /\ edits' \in 0 .. MaxEdits
      BY <2>1 DEF TypeOK
    <2> QED BY <2>1, <2>2, <2>3, <2>4, EndRunType
  <1>13. ASSUME NEW w \in Workers, TargetFails(w) PROVE TypeOK'
    <2>1. RunTypes'
      BY <1>13, NextTargetType DEF TypeOK, RunTypes, TargetFails
    <2>2. ASSUME NEW v \in Workers PROVE snap'[v].user \subseteq DOMAIN policies' /\ InLoop(v)'
      BY <1>13, NextTargetType DEF TypeOK, TargetFails
    <2>3. faults' \in 0 .. MaxFaults
      BY <1>13, BoundsAssumption DEF TypeOK, TargetFails, Fault
    <2> QED BY <1>13, <2>1, <2>2, <2>3 DEF TypeOK, RunTypes, TargetFails
  <1>14. ASSUME NEW w \in Workers, SaveFirewallLost(w) PROVE TypeOK'
    <2>1. RunTypes'
      BY <1>14, NextTargetType DEF TypeOK, RunTypes, SaveFirewallLost
    <2>2. ASSUME NEW v \in Workers PROVE snap'[v].user \subseteq DOMAIN policies' /\ InLoop(v)'
      BY <1>14, NextTargetType DEF TypeOK, SaveFirewallLost
    <2>3. faults' \in 0 .. MaxFaults
      BY <1>14, BoundsAssumption DEF TypeOK, SaveFirewallLost, Fault
    <2> QED BY <1>14, <2>1, <2>2, <2>3, PutFirewallType DEF TypeOK, RunTypes, SaveFirewallLost, PutFirewall
  <1>15. ASSUME Settle PROVE TypeOK'
    BY <1>15 DEF TypeOK, Settle, runVars
  <1>16. ASSUME Roam PROVE TypeOK'
    <2>1. home' \in Addrs
      BY <1>16 DEF Roam
    <2>2. roams' \in 0 .. MaxRoams
      BY <1>16, BoundsAssumption DEF TypeOK, Roam
    <2> QED BY <1>16, <2>1, <2>2 DEF TypeOK, Roam, runVars
  <1>17. ASSUME UserEdit PROVE TypeOK'
    <2>1. PICK t \in Interfaces : \E f \in Edited(fw[t]) : fw' = [fw EXCEPT ![t] = f]
      BY <1>17 DEF UserEdit
    <2>2. fw' \in [Interfaces -> Firewall] /\ AttachedExist(policies, fw')
      BY <2>1, EditedShape DEF TypeOK, AttachedExist
    <2>3. edits' \in 0 .. MaxEdits
      BY <1>17, BoundsAssumption DEF TypeOK, UserEdit
    <2> QED BY <1>17, <2>2, <2>3 DEF TypeOK, UserEdit, runVars
  <1>18. CASE UNCHANGED vars
    BY <1>18 DEF TypeOK, vars, runVars
  <1> QED
    BY <1>1, <1>2, <1>3, <1>4, <1>5, <1>6, <1>7, <1>8, <1>9, <1>10, <1>11, <1>12, <1>13,
       <1>14, <1>15, <1>16, <1>17, <1>18 DEF Next, Progress, Failure

\* Whatever the runs, the API, the user and the network do, the state keeps its
\* types and every attached, remembered or matched id is that of a policy.
THEOREM TypeCorrect == Spec => []TypeOK
  <1> QED BY TypeInit, TypeStep, PTL DEF Spec

------------------------------------------------------------------------------
(* What the runs promise, from the types and invariants of the ids they    *)
(* carry between their requests.                                           *)

Own(v) == <<pc[v], cfg[v], det[v], egr[v], idx[v], ids[v], match[v], snap[v], ok[v]>>

\* A worker's step leaves the variables of the other workers alone.
LEMMA OthersUntouched ==
    ASSUME TypeOK, NEW w \in Workers, Progress(w) \/ Failure(w), NEW v \in Workers, v # w
    PROVE  Own(v)' = Own(v)
  <1> USE DEF Own, TypeOK
  <1>1. CASE Start(w)
    BY <1>1 DEF Start
  <1>2. CASE Authenticate(w)
    BY <1>2 DEF Authenticate
  <1>3. CASE EgressByConfig(w)
    BY <1>3 DEF EgressByConfig
  <1>4. CASE EgressByInterface(w)
    BY <1>4 DEF EgressByInterface
  <1>5. CASE SkipUpsert(w)
    BY <1>5 DEF SkipUpsert, NextUpsert
  <1>6. CASE ListPolicies(w)
    BY <1>6 DEF ListPolicies
  <1>7. CASE WritePolicy(w)
    BY <1>7 DEF WritePolicy, NextUpsert
  <1>8. CASE GetFirewall(w)
    BY <1>8 DEF GetFirewall, NextTarget
  <1>9. CASE SaveFirewall(w)
    BY <1>9 DEF SaveFirewall, NextTarget
  <1>10. CASE Finish(w)
    BY <1>10 DEF Finish, EndRun
  <1>11. CASE Abort(w)
    BY <1>11 DEF Abort, EndRun
  <1>12. CASE WritePolicyLost(w)
    BY <1>12 DEF WritePolicyLost, EndRun
  <1>13. CASE TargetFails(w)
    BY <1>13 DEF TargetFails, NextTarget
  <1>14. CASE SaveFirewallLost(w)
    BY <1>14 DEF SaveFirewallLost, NextTarget
  <1> QED BY <1>1, <1>2, <1>3, <1>4, <1>5, <1>6, <1>7, <1>8, <1>9, <1>10, <1>11, <1>12,
             <1>13, <1>14 DEF Progress, Failure

\* Only the two policy writes change the policies.
LEMMA PolicyWriters ==
    ASSUME [Next]_vars, policies' # policies
    PROVE  \E w \in Workers : /\ WritePolicy(w) \/ WritePolicyLost(w)
                              /\ pc[w] = "write" /\ PutPolicy(w)
  <1> USE DEF apiVars
  <1>1. ASSUME NEW w \in Workers, Progress(w)
        PROVE  WritePolicy(w) /\ pc[w] = "write" /\ PutPolicy(w)
    BY <1>1 DEF Progress, Start, Authenticate, EgressByConfig, EgressByInterface, SkipUpsert,
                ListPolicies, WritePolicy, GetFirewall, SaveFirewall, Finish
  <1>2. ASSUME NEW w \in Workers, Failure(w)
        PROVE  WritePolicyLost(w) /\ pc[w] = "write" /\ PutPolicy(w)
    BY <1>2 DEF Failure, Abort, WritePolicyLost, TargetFails, SaveFirewallLost
  <1>3. ~Settle /\ ~Roam /\ ~UserEdit /\ ~UNCHANGED vars
    BY DEF Settle, Roam, UserEdit, vars
  <1> QED BY <1>1, <1>2, <1>3 DEF Next

\* A policy keeps its id and its name for good.
LEMMA NamesStay ==
    ASSUME TypeOK, IdsNamed, [Next]_vars
    PROVE  /\ DOMAIN policies \subseteq DOMAIN policies'
           /\ \A p \in DOMAIN policies : policies'[p].name = policies[p].name
  <1>1. CASE policies' = policies
    BY <1>1
  <1>2. CASE policies' # policies
    <2>1. PICK w \in Workers : pc[w] = "write" /\ PutPolicy(w)
      BY <1>2, PolicyWriters
    <2>2. /\ policies' \in Seq(Policy) /\ Len(policies) <= Len(policies')
          /\ \A p \in DOMAIN policies :
               policies'[p] = IF p = match[w] THEN RulesFor(w, Service(w)) ELSE policies[p]
      BY <2>1, PutPolicyType
    <2>3. DOMAIN policies \subseteq DOMAIN policies'
      BY <2>2, LongerDomain DEF TypeOK
    <2>4. match[w] # 0 => policies[match[w]].name = PolicyName[Service(w)]
      BY <2>1 DEF IdsNamed, IdsNamedOf
    <2>5. RulesFor(w, Service(w)).name = PolicyName[Service(w)]
      BY DEF RulesFor
    <2>6. 0 \notin DOMAIN policies
      BY DEF TypeOK
    <2> QED BY <2>2, <2>3, <2>4, <2>5, <2>6
  <1> QED BY <1>1, <1>2

\* The run needs a policy or not by its configuration and egress decision.
LEMMA NeededStays ==
    ASSUME NEW v \in Workers, cfg'[v] = cfg[v], egr'[v] = egr[v], NEW s \in Services
    PROVE  Needed(v, s)' <=> Needed(v, s)
  BY DEF Needed, AnyOn

\* The upsert loop visits every service once.
LEMMA UpsertOrderFacts ==
    /\ Len(UpsertOrder) = 5
    /\ \A i, j \in 1 .. 5 : UpsertOrder[i] = UpsertOrder[j] => i = j
    /\ {UpsertOrder[i] : i \in 1 .. 5} = Services
  <1>1. /\ UpsertOrder[1] = "ssh" /\ UpsertOrder[2] = "cf" /\ UpsertOrder[3] = "wg"
        /\ UpsertOrder[4] = "ovpn" /\ UpsertOrder[5] = "egress"
    OBVIOUS
  <1>2. Len(UpsertOrder) = 5
    OBVIOUS
  <1>3. 1 .. 5 = {1, 2, 3, 4, 5}
    OBVIOUS
  <1>4. {UpsertOrder[i] : i \in 1 .. 5} = {"ssh", "cf", "wg", "ovpn", "egress"}
    BY <1>1, <1>3
  <1>5. {"ssh", "cf", "wg", "ovpn", "egress"} = Services
    OBVIOUS
  <1> HIDE DEF UpsertOrder, Services
  <1>6. \A i, j \in 1 .. 5 : UpsertOrder[i] = UpsertOrder[j] => i = j
    BY <1>1, <1>3
  <1> QED BY <1>2, <1>4, <1>5, <1>6

\* Moving on in the upsert loop puts one more service behind the run.
LEMMA BehindGrows ==
    ASSUME TypeOK, NEW w \in Workers, pc[w] \in {"list", "write"}, NextUpsert(w)
    PROVE  Behind(w)' = Behind(w) \cup {Service(w)} /\ Service(w) \notin Behind(w)
  <1>1. idx[w] \in 1 .. 5 /\ Len(UpsertOrder) = 5
    BY ServiceType, UpsertOrderFacts
  <1>2. Behind(w) = {UpsertOrder[i] : i \in 1 .. (idx[w] - 1)}
    BY DEF Behind
  <1>3. \A i, j \in 1 .. 5 : UpsertOrder[i] = UpsertOrder[j] => i = j
    BY UpsertOrderFacts
  <1>4. Service(w) \notin Behind(w)
    BY <1>1, <1>2, <1>3 DEF Service
  <1>5. CASE idx[w] < 5
    <2>1. pc'[w] = "list" /\ idx'[w] = idx[w] + 1
      BY <1>1, <1>5 DEF NextUpsert, TypeOK
    <2>2. Behind(w)' = {UpsertOrder[i] : i \in 1 .. idx[w]}
      BY <1>1, <2>1 DEF Behind
    <2>3. 1 .. idx[w] = (1 .. (idx[w] - 1)) \cup {idx[w]}
      BY <1>1
    <2>4. {UpsertOrder[i] : i \in 1 .. idx[w]} = {UpsertOrder[i] : i \in 1 .. (idx[w] - 1)} \cup {UpsertOrder[idx[w]]}
      BY <2>3, Zenon
    <2> QED BY <1>2, <1>4, <2>2, <2>4 DEF Service
  <1>6. CASE idx[w] = 5
    <2>1. pc'[w] = "get"
      BY <1>1, <1>6 DEF NextUpsert, TypeOK
    <2>2. Behind(w)' = Services
      BY <2>1 DEF Behind
    <2>3. Services = {UpsertOrder[i] : i \in 1 .. 4} \cup {UpsertOrder[5]}
      <3>1. 1 .. 5 = (1 .. 4) \cup {5}
        OBVIOUS
      <3> HIDE DEF Services, UpsertOrder
      <3> QED BY <3>1, UpsertOrderFacts
    <2> QED BY <1>2, <1>4, <1>6, <2>2, <2>3 DEF Service
  <1> QED BY <1>1, <1>5, <1>6

------------------------------------------------------------------------------
(* Any number of workers.                                                  *)

\* The ids of a worker that does not move are good for what it holds.
LEMMA IdsNamedFrame ==
    ASSUME TypeOK, IdsNamed, [Next]_vars, NEW v \in Workers, Own(v)' = Own(v)
    PROVE  IdsNamedOf(v)'
  <1>1. /\ pc'[v] = pc[v] /\ match'[v] = match[v] /\ ids'[v] = ids[v] /\ idx'[v] = idx[v]
        /\ cfg'[v] = cfg[v] /\ egr'[v] = egr[v]
    BY DEF Own
  <1>2. Behind(v)' = Behind(v) /\ Service(v)' = Service(v)
    BY <1>1 DEF Behind, Service
  <1>3. IdsNamedOf(v)
    BY DEF IdsNamed
  <1>4. \A p \in DOMAIN policies : policies'[p].name = policies[p].name
    BY NamesStay
  <1>5. pc[v] = "write" /\ match[v] # 0 => match[v] \in DOMAIN policies
    BY DEF TypeOK
  <1>6. \A s \in Services : ids[v][s] # 0 => ids[v][s] \in DOMAIN policies
    BY DEF TypeOK
  <1>7. \A s \in Services : Needed(v, s)' <=> Needed(v, s)
    BY <1>1, NeededStays
  <1>8. pc[v] = "write" => Service(v) \in Services
    BY ServiceType
  <1> QED BY <1>1, <1>2, <1>3, <1>4, <1>5, <1>6, <1>7, <1>8 DEF IdsNamedOf

\* Before its first upsert a run holds no ids.
LEMMA IdsNamedEmpty ==
    ASSUME NEW w \in Workers, pc'[w] # "write", Behind(w)' = {}, \A s \in Services : ids'[w][s] = 0
    PROVE  IdsNamedOf(w)'
  BY DEF IdsNamedOf

LEMMA IdsNamedStep == TypeOK /\ IdsNamed /\ [Next]_vars => IdsNamed'
  <1> SUFFICES ASSUME TypeOK, IdsNamed, [Next]_vars, NEW v \in Workers PROVE IdsNamedOf(v)'
    BY DEF IdsNamed
  <1> USE DEF apiVars, boundVars
  <1>0. IdsNamedOf(v)
    BY DEF IdsNamed
  <1>1. CASE Start(v) \/ Authenticate(v)
    <2>1. Behind(v) = {} /\ Behind(v)' = {} /\ ids' = ids /\ pc'[v] # "write"
      BY <1>1 DEF Start, Authenticate, TypeOK, Behind
    <2> QED BY <1>0, <2>1, IdsNamedEmpty DEF IdsNamedOf
  <1>2. CASE EgressByConfig(v) \/ EgressByInterface(v)
    <2>1. Behind(v) = {} /\ ids' = ids /\ pc'[v] \in {"list", "egress"}
      BY <1>2 DEF EgressByConfig, EgressByInterface, TypeOK, Behind
    <2>2. pc'[v] = "list" => idx'[v] = 1
      BY <1>2 DEF EgressByConfig, EgressByInterface, TypeOK
    <2>3. Behind(v)' = {}
      BY <2>1, <2>2 DEF Behind
    <2> QED BY <1>0, <2>1, <2>3, IdsNamedEmpty DEF IdsNamedOf
  <1>3. CASE SkipUpsert(v)
    <2>1. Behind(v)' = Behind(v) \cup {Service(v)}
      BY <1>3, BehindGrows DEF SkipUpsert
    <2>2. ~Needed(v, Service(v)) /\ UNCHANGED <<policies, ids, cfg, egr>> /\ pc'[v] # "write"
      BY <1>3 DEF SkipUpsert, NextUpsert, TypeOK
    <2>3. \A s \in Services : Needed(v, s)' <=> Needed(v, s)
      BY <2>2, NeededStays
    <2> QED BY <1>0, <2>1, <2>2, <2>3 DEF IdsNamedOf
  <1>4. CASE ListPolicies(v)
    <2>1. /\ pc[v] = "list" /\ pc'[v] = "write" /\ Needed(v, Service(v))
          /\ UNCHANGED <<policies, ids, cfg, egr, idx>>
      BY <1>4 DEF ListPolicies, TypeOK
    <2>2. Behind(v)' = Behind(v) /\ Service(v)' = Service(v) /\ Service(v) \in Services
      BY <2>1, ServiceType DEF Behind, Service
    <2>3. match'[v] # 0 => policies[match'[v]].name = PolicyName[Service(v)]
      BY <1>4 DEF ListPolicies, TypeOK
    <2>4. \A s \in Services : Needed(v, s)' <=> Needed(v, s)
      BY <2>1, NeededStays
    <2> QED BY <1>0, <2>1, <2>2, <2>3, <2>4 DEF IdsNamedOf
  <1>5. CASE WritePolicy(v)
    <2> DEFINE id == IF match[v] # 0 THEN match[v] ELSE Len(policies) + 1
    <2>1. /\ pc[v] = "write" /\ PutPolicy(v) /\ NextUpsert(v) /\ UNCHANGED <<cfg, egr>>
          /\ ids' = [ids EXCEPT ![v][Service(v)] = id]
      BY <1>5 DEF WritePolicy
    <2>2. id # 0 /\ policies'[id] = RulesFor(v, Service(v))
      <3>1. policies'[id] = RulesFor(v, Service(v))
        BY <2>1, PutPolicyType
      <3>2. id # 0
        BY DEF TypeOK
      <3> QED BY <3>1, <3>2
    <2> HIDE DEF id
    <2>3. Behind(v)' = Behind(v) \cup {Service(v)} /\ Service(v) \in Services
      BY <2>1, BehindGrows, ServiceType
    <2>4. pc'[v] # "write" /\ Needed(v, Service(v))
      BY <1>0, <2>1 DEF NextUpsert, TypeOK, IdsNamedOf
    <2>5. \A s \in Services : Needed(v, s)' <=> Needed(v, s)
      BY <2>1, NeededStays
    <2>6. \A s \in Services : ids'[v][s] = IF s = Service(v) THEN id ELSE ids[v][s]
      BY <2>1, <2>3 DEF TypeOK
    <2>7. ASSUME NEW s \in Services, ids'[v][s] # 0
          PROVE  policies'[ids'[v][s]].name = PolicyName[s]
      <3>1. CASE s = Service(v)
        BY <2>2, <2>6, <3>1 DEF RulesFor
      <3>2. CASE s # Service(v)
        <4>1. ids'[v][s] = ids[v][s] /\ ids[v][s] \in DOMAIN policies
          BY <2>6, <2>7, <3>2 DEF TypeOK
        <4> QED BY <1>0, <2>7, <4>1, NamesStay DEF IdsNamedOf
      <3> QED BY <3>1, <3>2
    <2> QED BY <1>0, <2>2, <2>3, <2>4, <2>5, <2>6, <2>7 DEF IdsNamedOf
  <1>6. CASE GetFirewall(v) \/ SaveFirewall(v) \/ TargetFails(v) \/ SaveFirewallLost(v)
    <2>1. /\ pc[v] \in {"get", "put"} /\ pc'[v] \in {"get", "put", "done"}
          /\ UNCHANGED <<policies, ids, cfg, egr>>
      BY <1>6 DEF GetFirewall, SaveFirewall, TargetFails, SaveFirewallLost, NextTarget, TypeOK
    <2>2. Behind(v)' = Behind(v)
      BY <2>1 DEF Behind
    <2>3. \A s \in Services : Needed(v, s)' <=> Needed(v, s)
      BY <2>1, NeededStays
    <2> QED BY <1>0, <2>1, <2>2, <2>3 DEF IdsNamedOf
  <1>7. CASE Finish(v) \/ Abort(v) \/ WritePolicyLost(v)
    <2>1. EndRun(v)
      BY <1>7 DEF Finish, Abort, WritePolicyLost
    <2>2. pc'[v] = "idle" /\ \A s \in Services : ids'[v][s] = 0
      BY <2>1 DEF EndRun, TypeOK, NoIds
    <2> QED BY <2>2, IdsNamedEmpty DEF Behind
  <1>8. CASE \E w \in Workers : w # v /\ (Progress(w) \/ Failure(w))
    BY <1>8, OthersUntouched, IdsNamedFrame
  <1>9. CASE Settle \/ Roam \/ UserEdit \/ UNCHANGED vars
    <2>1. Own(v)' = Own(v)
      BY <1>9 DEF Settle, Roam, UserEdit, vars, runVars, Own
    <2> QED BY <2>1, IdsNamedFrame
  <1> QED BY <1>1, <1>2, <1>3, <1>4, <1>5, <1>6, <1>7, <1>8, <1>9 DEF Next, Progress, Failure

LEMMA IdsNamedCorrect == Spec => []IdsNamed
  <1>1. Init => IdsNamed
    BY DEF Init, IdsNamed, IdsNamedOf, Behind, NoIds
  <1> QED BY <1>1, IdsNamedStep, TypeCorrect, PTL DEF Spec

\* Only the listing brings a run to a policy write.
LEMMA WriteFollowsList ==
    ASSUME TypeOK, NEW w \in Workers, Progress(w) \/ Failure(w), pc'[w] = "write"
    PROVE  ListPolicies(w)
  BY DEF Progress, Failure, Start, Authenticate, EgressByConfig, EgressByInterface, SkipUpsert,
         ListPolicies, WritePolicy, GetFirewall, SaveFirewall, Finish, Abort, WritePolicyLost,
         TargetFails, SaveFirewallLost, EndRun, NextUpsert, NextTarget, TypeOK

\* What a run needs, its configuration may need.
LEMMA NeededMayNeed ==
    ASSUME TypeOK, NEW w \in Workers, NEW s \in Services, Needed(w, s)
    PROVE  MayNeed(s)
  <1>1. cfg[w] \in Configs
    BY DEF TypeOK
  <1>2. s = "ssh" \/ (s \in Optional /\ AnyOn(cfg[w], s)) \/ (s = "egress" /\ cfg[w].allowAll)
    BY DEF Needed
  <1> QED BY <1>1, <1>2 DEF MayNeed

\* Policies keep their names, so an established account stays one.
LEMMA EstablishedStep ==
    ASSUME TypeOK, IdsNamed, Established(policies), [Next]_vars
    PROVE  Established(policies)'
  <1> SUFFICES ASSUME NEW s \in Services, MayNeed(s)
               PROVE  \E p \in DOMAIN policies' : policies'[p].name = PolicyName[s]
    BY DEF Established, MayNeed, AnyOn
  <1>1. PICK p \in DOMAIN policies : policies[p].name = PolicyName[s]
    BY DEF Established
  <1> QED BY <1>1, NamesStay

\* The listing finds what the run needs, whatever other runs have done since.
LEMMA MatchFoundStep ==
    ASSUME TypeOK, Established(policies), MatchFound, [Next]_vars
    PROVE  MatchFound'
  <1> SUFFICES ASSUME NEW v \in Workers, pc'[v] = "write" PROVE match'[v] # 0
    BY DEF MatchFound
  <1>1. CASE Progress(v) \/ Failure(v)
    <2>1. ListPolicies(v)
      BY <1>1, WriteFollowsList
    <2>2. Service(v) \in Services /\ Needed(v, Service(v))
      BY <2>1, ServiceType DEF ListPolicies
    <2>3. PICK p \in DOMAIN policies : policies[p].name = PolicyName[Service(v)]
      BY <2>2, NeededMayNeed DEF Established
    <2>4. 0 \notin DOMAIN policies
      BY DEF TypeOK
    <2> DEFINE found == {q \in DOMAIN policies : policies[q].name = PolicyName[Service(v)]}
    <2>5. found # {} /\ 0 \notin found
      BY <2>3, <2>4
    <2>6. \E q \in (IF found = {} THEN {0} ELSE found) : match' = [match EXCEPT ![v] = q]
      BY <2>1 DEF ListPolicies
    <2> HIDE DEF found
    <2> QED BY <2>5, <2>6 DEF TypeOK
  <1>2. CASE \E w \in Workers : w # v /\ (Progress(w) \/ Failure(w))
    <2>1. Own(v)' = Own(v)
      BY <1>2, OthersUntouched
    <2> QED BY <2>1 DEF Own, MatchFound
  <1>3. CASE Settle \/ Roam \/ UserEdit \/ UNCHANGED vars
    <2>1. UNCHANGED <<pc, match>>
      BY <1>3 DEF Settle, Roam, UserEdit, vars, runVars
    <2> QED BY <2>1 DEF MatchFound
  <1> QED BY <1>1, <1>2, <1>3 DEF Next

\* Writes that update in place add no name.
LEMMA UniqueInPlace ==
    ASSUME TypeOK, IdsNamed, UniquePolicies, MatchFound, [Next]_vars
    PROVE  UniquePolicies'
  <1>1. CASE policies' = policies
    BY <1>1 DEF UniquePolicies, UniqueIn
  <1>2. CASE policies' # policies
    <2>1. PICK w \in Workers : pc[w] = "write" /\ PutPolicy(w)
      BY <1>2, PolicyWriters
    <2>2. match[w] # 0
      BY <2>1 DEF MatchFound
    <2>3. policies' \in Seq(Policy) /\ Len(policies') = Len(policies)
      BY <2>1, <2>2, PutPolicyType
    <2>4. DOMAIN policies' = DOMAIN policies
      BY <2>3 DEF TypeOK
    <2>5. \A p \in DOMAIN policies : policies'[p].name = policies[p].name
      BY NamesStay
    <2> QED BY <2>4, <2>5 DEF UniquePolicies, UniqueIn
  <1> QED BY <1>1, <1>2

\* Once the account holds every policy the configurations ask for, overlapping
\* runs cannot double one either: the duplicates of runs that overlap come from
\* the first creation alone.
THEOREM EstablishedUnique ==
    ASSUME \A a \in Accounts : Established(a.policies)
    PROVE  Spec => []UniquePolicies
  <1> DEFINE Inv == UniquePolicies /\ Established(policies) /\ MatchFound
  <1>1. Init => Inv
    <2> SUFFICES ASSUME Init PROVE Inv
      OBVIOUS
    <2>1. PICK a \in Accounts : policies = a.policies
      BY DEF Init
    <2>2. UniqueIn(policies) /\ Established(policies)
      BY <2>1, AccountsAssumption
    <2> QED BY <2>2 DEF Init, UniquePolicies, MatchFound
  <1>2. TypeOK /\ IdsNamed /\ Inv /\ [Next]_vars => Inv'
    BY EstablishedStep, MatchFoundStep, UniqueInPlace
  <1>3. Inv => UniquePolicies
    OBVIOUS
  <1> HIDE DEF Inv
  <1> QED BY <1>1, <1>2, <1>3, TypeCorrect, IdsNamedCorrect, PTL DEF Spec

\* A run that has come to its targets holds the id of its SSH policy.
LEMMA SshPresent ==
    ASSUME TypeOK, IdsNamed, NEW w \in Workers, pc[w] = "put"
    PROVE  LET id == ids[w]["ssh"] IN
           /\ id \in Final(w, Target(w), snap[w])
           /\ policies[id].name = PolicyName["ssh"]
  <1>1. ids[w]["ssh"] # 0 /\ policies[ids[w]["ssh"]].name = PolicyName["ssh"]
    BY DEF IdsNamed, IdsNamedOf, Behind, Needed
  <1>2. ids[w]["ssh"] \in Present(w, Target(w))
    BY DEF Present, WantsOn
  <1> QED BY <1>1, <1>2 DEF Final, FinalIds

\* What the writes of an interface leave attached.
LEMMA PutFirewallEffect ==
    ASSUME TypeOK, NEW w \in Workers, pc[w] = "put", PutFirewall(w), NEW t \in Interfaces
    PROVE  /\ t # Target(w) => fw'[t] = fw[t]
           /\ t = Target(w) => /\ fw'[t].user = Final(w, Target(w), snap[w])
                               /\ fw'[t].copied = snap[w].copied
  BY DEF PutFirewall, TypeOK

\* Only the two writes of an interface and the user change the attachments.
LEMMA FirewallWriters ==
    ASSUME [Next]_vars, fw' # fw
    PROVE  \/ UserEdit
           \/ \E w \in Workers : pc[w] = "put" /\ PutFirewall(w) /\ policies' = policies
  <1> USE DEF apiVars
  <1>1. ASSUME NEW w \in Workers, Progress(w)
        PROVE  pc[w] = "put" /\ PutFirewall(w) /\ policies' = policies
    BY <1>1 DEF Progress, Start, Authenticate, EgressByConfig, EgressByInterface, SkipUpsert,
                ListPolicies, WritePolicy, GetFirewall, SaveFirewall, Finish
  <1>2. ASSUME NEW w \in Workers, Failure(w)
        PROVE  pc[w] = "put" /\ PutFirewall(w) /\ policies' = policies
    BY <1>2 DEF Failure, Abort, WritePolicyLost, TargetFails, SaveFirewallLost
  <1>3. ~Settle /\ ~Roam /\ ~UNCHANGED vars
    BY DEF Settle, Roam, vars
  <1> QED BY <1>1, <1>2, <1>3 DEF Next

\* The user's access survives every run: no step of any number of overlapping,
\* failing or crashing runs takes the SSH policy off an interface.
THEOREM SshStays == Spec => SshStaysAttached
  <1> DEFINE P == PolicyName["ssh"]
  <1>1. ASSUME TypeOK, IdsNamed, [Next]_vars, NEW t \in Interfaces, P \in ManagedOn(t)
        PROVE  P \in ManagedOn(t)'
    <2>1. PICK p \in fw[t].user : policies[p].name = P
      BY <1>1 DEF ManagedOn
    <2>2. P \in Managed
      BY DEF Managed
    <2>3. p \in DOMAIN policies /\ policies'[p].name = P
      BY <1>1, <2>1, NamesStay DEF TypeOK, AttachedExist
    <2>4. SUFFICES \E q \in fw'[t].user : policies'[q].name = P
      BY <2>2 DEF ManagedOn, Managed
    <2>5. CASE fw' = fw
      BY <2>1, <2>3, <2>5
    <2>6. CASE UserEdit
      <3>1. policies' = policies
        BY <2>6 DEF UserEdit
      <3>2. PICK u \in Interfaces : \E f \in Edited(fw[u]) : fw' = [fw EXCEPT ![u] = f]
        BY <2>6 DEF UserEdit
      <3>3. PICK f \in Edited(fw[u]) : fw' = [fw EXCEPT ![u] = f]
        BY <3>2
      <3>4. u = t => p \in f.user
        BY <1>1, <2>1, <2>2, <2>3, <3>3, EditedShape
      <3>5. fw'[t] = IF u = t THEN f ELSE fw[t]
        BY <1>1, <3>3 DEF TypeOK
      <3> QED BY <2>1, <2>3, <3>4, <3>5
    <2>7. ASSUME NEW w \in Workers, pc[w] = "put", PutFirewall(w), policies' = policies
          PROVE  \E q \in fw'[t].user : policies'[q].name = P
      <3>1. CASE t # Target(w)
        BY <1>1, <2>1, <2>3, <2>7, <3>1, PutFirewallEffect
      <3>2. CASE t = Target(w)
        <4>1. fw'[t].user = Final(w, Target(w), snap[w])
          BY <1>1, <2>7, <3>2, PutFirewallEffect
        <4> QED BY <1>1, <2>7, <4>1, SshPresent
      <3> QED BY <3>1, <3>2
    <2> QED BY <1>1, <2>5, <2>6, <2>7, FirewallWriters
  <1>2. TypeOK /\ IdsNamed /\ [Next]_vars
        => [\A t \in Interfaces : P \in ManagedOn(t) => P \in ManagedOn(t)']_vars
    BY <1>1
  <1> QED BY <1>2, TypeCorrect, IdsNamedCorrect, PTL DEF Spec, SshStaysAttached

\* No run detaches a policy of the user's, or drops a copied policy, that was
\* there when it read the interface, however much time passed before its write.
THEOREM SawKept == Spec => KeepsWhatItSaw
  <1> DEFINE A == \A t \in Interfaces :
                    \/ UserStep
                    \/ LET lost == {p \in fw[t].user \ fw'[t].user :
                                       policies[p].name \notin Managed} IN
                       /\ lost # {} => \E w \in Workers :
                             pc[w] = "put" /\ Target(w) = t /\ snap[w].user \cap lost = {}
                       /\ ~(fw[t].copied \subseteq fw'[t].copied) => \E w \in Workers :
                             pc[w] = "put" /\ Target(w) = t
                             /\ snap[w].copied = fw'[t].copied
  <1>1. ASSUME TypeOK, [Next]_vars PROVE A
    <2>1. CASE fw' = fw
      BY <2>1
    <2>2. CASE UserEdit
      <3>1. edits' = edits + 1 /\ edits \in Nat
        BY <1>1, <2>2, BoundsAssumption DEF UserEdit, TypeOK
      <3> QED BY <3>1 DEF UserStep
    <2>3. ASSUME NEW w \in Workers, pc[w] = "put", PutFirewall(w) PROVE A
      <3> SUFFICES ASSUME NEW t \in Interfaces
                   PROVE  LET lost == {p \in fw[t].user \ fw'[t].user :
                                         policies[p].name \notin Managed} IN
                          /\ lost # {} => \E v \in Workers :
                                pc[v] = "put" /\ Target(v) = t /\ snap[v].user \cap lost = {}
                          /\ ~(fw[t].copied \subseteq fw'[t].copied) => \E v \in Workers :
                                pc[v] = "put" /\ Target(v) = t
                                /\ snap[v].copied = fw'[t].copied
        OBVIOUS
      <3>1. CASE t # Target(w)
        BY <1>1, <2>3, <3>1, PutFirewallEffect
      <3>2. CASE t = Target(w)
        <4>1. /\ fw'[t].user = Final(w, Target(w), snap[w])
              /\ fw'[t].copied = snap[w].copied
          BY <1>1, <2>3, <3>2, PutFirewallEffect
        <4>2. ASSUME NEW p \in snap[w].user, policies[p].name \notin Managed
              PROVE  p \in fw'[t].user
          <5>1. p \in DOMAIN policies
            BY <1>1 DEF TypeOK
          <5>2. NameOf[p] \notin Absent(w, t)
            BY <4>2, <5>1 DEF NameOf, Absent, Managed
          <5> QED BY <3>2, <4>1, <5>2 DEF Final, FinalIds, KeptIds
        <4> QED BY <2>3, <3>2, <4>1, <4>2
      <3> QED BY <3>1, <3>2
    <2> HIDE DEF A
    <2> QED BY <1>1, <2>1, <2>2, <2>3, FirewallWriters
  <1>2. TypeOK /\ [Next]_vars => [A]_vars
    BY <1>1
  <1> QED BY <1>2, TypeCorrect, PTL DEF Spec, KeepsWhatItSaw
==============================================================================

------------------------------ MODULE ApplyCycle ------------------------------
(***************************************************************************)
(* Runs of runApply (main.go) against the SCP firewall API.                *)
(*                                                                         *)
(* A worker is one invocation: a tick of the `run` daemon, or an `apply`   *)
(* typed by hand or started by cron.  With two workers, runs overlap.  One *)
(* action is one request at the API together with the local computation up *)
(* to the next request, so everything that can happen between two requests *)
(* of a run is an interleaving here.                                       *)
(*                                                                         *)
(* The API, the user at the web panel and the address of the user's        *)
(* connection are external to the repository; they are modelled as the     *)
(* code and its comments describe them.                                    *)
(***************************************************************************)
EXTENDS Reconcile, Sequences

CONSTANTS
    Workers,        \* the invocations that may run at the same time
    Interfaces,     \* every server interface of the SCP account
    Addrs,          \* public addresses the user's connection may have
    CfRanges,       \* Cloudflare's edge ranges, as FetchRanges returns them
    CopiedIds,      \* ids of copied policies
    Names,          \* names of firewall policies
    PolicyName,     \* the configured policy name of each service
    Configs,        \* the effective configurations runs are started with
    Accounts,       \* the states the account may be in at the start
    MaxRoams,       \* bound: changes of the public address
    MaxEdits,       \* bound: edits the user makes at the web panel
    MaxFaults       \* bound: failed requests, given-up retries and crashes

Optional == {"cf", "wg", "ovpn"}
VpnServices == {"wg", "ovpn"}
Services == {"ssh", "egress"} \cup Optional

\* The order in which runApply upserts the policies.
UpsertOrder == <<"ssh", "cf", "wg", "ovpn", "egress">>

\* A policy, its rules abstracted to the sources its ingress rules accept
\* ({} for "any") and whether one of its rules is an egress rule.
Policy == [name : Names, sources : SUBSET (Addrs \cup CfRanges), egress : BOOLEAN]

\* What GET .../firewall returns and PUT .../firewall replaces.
Firewall == [user : SUBSET Nat, copied : SUBSET CopiedIds, active : BOOLEAN]

\* The part of the configuration a run depends on.  `on' holds the optional
\* services of each interface after the per-target overrides.
Config == [targets : Seq(Interfaces), on : [Interfaces -> SUBSET Optional],
           vpnEgress : {"auto", "always", "never"}, allowAll : BOOLEAN]

Managed == {PolicyName[s] : s \in Services}

UniqueIn(pols) ==
    \A p, q \in DOMAIN pols :
        pols[p].name = pols[q].name /\ pols[p].name \in Managed => p = q

AttachedExist(pols, f) == \A t \in Interfaces : f[t].user \subseteq DOMAIN pols

ASSUME PolicyNameAssumption ==
    /\ PolicyName \in [Services -> Names]
    /\ \A s, r \in Services : PolicyName[s] = PolicyName[r] => s = r

\* requireTarget and runApply refuse a configuration without targets.
ASSUME ConfigsAssumption ==
    /\ Configs # {}
    /\ Configs \subseteq Config
    /\ \A c \in Configs : c.targets # <<>>

ASSUME AccountsAssumption ==
    \A a \in Accounts :
        /\ a.policies \in Seq(Policy)
        /\ a.fw \in [Interfaces -> Firewall]
        /\ AttachedExist(a.policies, a.fw)
        /\ UniqueIn(a.policies)    \* nobody created a namesake by hand

ASSUME BoundsAssumption ==
    MaxRoams \in Nat /\ MaxEdits \in Nat /\ MaxFaults \in Nat

VARIABLES
    policies,   \* API: the user's policies; a policy's id is its position
    fw,         \* API: the firewall of each interface
    busy,       \* API: a write of this user is still settling
    home,       \* the current public address of the user's connection
    pc,         \* run: the request the worker makes next
    cfg,        \* run: its effective configuration
    det,        \* run: the sources of the SSH rules, from the detected address
    egr,        \* run: whether the VPN policies carry egress rules
    idx,        \* run: position in the loop it is in (targets or UpsertOrder)
    ids,        \* run: policyIDs, 0 where the policy is not in use
    match,      \* run: id UpsertPolicy found under the name, 0 if none
    snap,       \* run: the firewall ReconcileInterface read
    ok,         \* run: firstErr is still nil
    roams, edits, faults  \* how much of each bound is used

apiVars == <<policies, fw, busy>>
runVars == <<pc, cfg, det, egr, idx, ids, match, snap, ok>>
boundVars == <<roams, edits, faults>>
vars == <<apiVars, home, runVars, boundVars>>

NoIds == [s \in Services |-> 0]
NoFirewall == [user |-> {}, copied |-> {}, active |-> FALSE]
AnyConfig == CHOOSE c \in Configs : TRUE

Steps == {"idle", "auth", "egress", "list", "write", "get", "put", "done"}

Init ==
    /\ \E a \in Accounts : policies = a.policies /\ fw = a.fw
    /\ busy = FALSE
    /\ home \in Addrs
    /\ pc = [w \in Workers |-> "idle"]
    /\ cfg = [w \in Workers |-> AnyConfig]
    /\ det = [w \in Workers |-> {}]
    /\ egr = [w \in Workers |-> FALSE]
    /\ idx = [w \in Workers |-> 1]
    /\ ids = [w \in Workers |-> NoIds]
    /\ match = [w \in Workers |-> 0]
    /\ snap = [w \in Workers |-> NoFirewall]
    /\ ok = [w \in Workers |-> TRUE]
    /\ roams = 0 /\ edits = 0 /\ faults = 0

------------------------------------------------------------------------------
(* Helpers.                                                                *)
(*                                                                         *)
(* The definitions that say "mistake" stand for plausible bugs; mutation   *)
(* runs put them in the place of the definition that follows them.         *)

\* AnyCloudflare, AnyWireGuard, AnyOpenVPN: some target has the service on.
AnyOn(c, s) == \E i \in DOMAIN c.targets : s \in c.on[c.targets[i]]

AnyVpn(c) == \E s \in VpnServices : AnyOn(c, s)

\* Whether resolveEgress has to read the targets' firewalls.
ReadsTargets(c) == AnyVpn(c) /\ c.vpnEgress = "auto"

\* The implicit egress rule is DROP_ALL exactly while an egress rule is
\* attached (the comments of resolveEgress and upsertEgressAllowPolicy).
EgressDropped(t) == \E p \in fw[t].user : policies[p].egress

Target(w) == cfg[w].targets[idx[w]]
Service(w) == UpsertOrder[idx[w]]

\* Mistake: always emitting egress rules, but allowing egress in mode auto only.
NeededInAuto(w, s) ==
    CASE s = "ssh" -> TRUE
      [] s \in Optional -> AnyOn(cfg[w], s)
      [] s = "egress" -> egr[w] /\ cfg[w].allowAll /\ cfg[w].vpnEgress = "auto"

\* Whether the run upserts the policy of service s at all.
Needed(w, s) ==
    CASE s = "ssh" -> TRUE
      [] s \in Optional -> AnyOn(cfg[w], s)
      [] s = "egress" -> egr[w] /\ cfg[w].allowAll

\* Mistake: an update adds the new source to the ones the policy had.
RulesAdded(w, s) ==
    [name    |-> PolicyName[s],
     sources |-> (IF match[w] # 0 THEN policies[match[w]].sources ELSE {})
                 \cup (IF s = "ssh" THEN det[w] ELSE {}),
     egress  |-> (s = "egress") \/ (s \in VpnServices /\ egr[w])]

\* The rules the builders of internal/firewall produce for service s.
RulesFor(w, s) ==
    [name    |-> PolicyName[s],
     sources |-> CASE s = "ssh" -> det[w]
                   [] s = "cf" -> CfRanges
                   [] OTHER -> {},
     egress  |-> (s = "egress") \/ (s \in VpnServices /\ egr[w])]

\* Mistakes: the egress allowance is left to a later write; the SSH policy is
\* attached only where an optional service is on.
WantsLessEgress(w, t, s) == s = "ssh" \/ s \in cfg[w].on[t]
WantsLessSsh(w, t, s) ==
    \/ s \in cfg[w].on[t] \/ (s = "ssh" /\ cfg[w].on[t] # {})
    \/ (s = "egress" /\ ids[w][s] # 0)

\* What reconcileTarget asks of interface t.
WantsOn(w, t, s) == s = "ssh" \/ s \in cfg[w].on[t] \/ (s = "egress" /\ ids[w][s] # 0)
Present(w, t) == {ids[w][s] : s \in {r \in Services : WantsOn(w, t, r)}}
Absent(w, t) == {PolicyName[s] : s \in {r \in Services : ~WantsOn(w, t, r)}}

NameOf == [p \in DOMAIN policies |-> policies[p].name]
Final(w, t, f) == FinalIds(f.user, NameOf, Present(w, t), Absent(w, t))

\* The worker's variables leave with its stack frame when the run returns.
EndRun(w) ==
    /\ pc' = [pc EXCEPT ![w] = "idle"]
    /\ cfg' = [cfg EXCEPT ![w] = AnyConfig]
    /\ det' = [det EXCEPT ![w] = {}]
    /\ egr' = [egr EXCEPT ![w] = FALSE]
    /\ idx' = [idx EXCEPT ![w] = 1]
    /\ ids' = [ids EXCEPT ![w] = NoIds]
    /\ match' = [match EXCEPT ![w] = 0]
    /\ snap' = [snap EXCEPT ![w] = NoFirewall]
    /\ ok' = [ok EXCEPT ![w] = TRUE]

\* Mistake: the last policy is forgotten.
NextUpsertShort(w) ==
    /\ idx' = [idx EXCEPT ![w] = IF idx[w] + 1 < Len(UpsertOrder) THEN idx[w] + 1 ELSE 1]
    /\ pc' = [pc EXCEPT ![w] = IF idx[w] + 1 < Len(UpsertOrder) THEN "list" ELSE "get"]

\* The upsert loop moves on; after the last policy the targets are reconciled.
NextUpsert(w) ==
    /\ idx' = [idx EXCEPT ![w] = IF idx[w] < Len(UpsertOrder) THEN idx[w] + 1 ELSE 1]
    /\ pc' = [pc EXCEPT ![w] = IF idx[w] < Len(UpsertOrder) THEN "list" ELSE "get"]

\* Mistake: one target too many.
NextTargetLate(w) ==
    LET more == idx[w] <= Len(cfg[w].targets) IN
    /\ idx' = [idx EXCEPT ![w] = IF more THEN idx[w] + 1 ELSE 1]
    /\ pc' = [pc EXCEPT ![w] = IF more THEN "get" ELSE "done"]
    /\ snap' = [snap EXCEPT ![w] = NoFirewall]

\* The loop over the targets moves on; after the last one the run returns.
NextTarget(w) ==
    LET more == idx[w] < Len(cfg[w].targets) IN
    /\ idx' = [idx EXCEPT ![w] = IF more THEN idx[w] + 1 ELSE 1]
    /\ pc' = [pc EXCEPT ![w] = IF more THEN "get" ELSE "done"]
    /\ snap' = [snap EXCEPT ![w] = NoFirewall]

------------------------------------------------------------------------------
(* A run without failures.                                                 *)

\* A run starts: the configuration is resolved and the public address is
\* detected.  A failed detection ends the run before it did anything.
Start(w) ==
    /\ pc[w] = "idle"
    /\ \E c \in Configs : cfg' = [cfg EXCEPT ![w] = c]
    /\ det' = [det EXCEPT ![w] = {home}]
    /\ pc' = [pc EXCEPT ![w] = "auth"]
    /\ UNCHANGED <<apiVars, home, egr, idx, ids, match, snap, ok, boundVars>>

\* The user confirms, authClient and ensureUserID succeed.
Authenticate(w) ==
    /\ pc[w] = "auth"
    /\ pc' = [pc EXCEPT ![w] = "egress"]
    /\ UNCHANGED <<apiVars, home, cfg, det, egr, idx, ids, match, snap, ok, boundVars>>

\* resolveEgress where no interface has to be read.
EgressByConfig(w) ==
    /\ pc[w] = "egress"
    /\ ~ReadsTargets(cfg[w])
    /\ egr' = [egr EXCEPT ![w] = AnyVpn(cfg[w]) /\ cfg[w].vpnEgress = "always"]
    /\ pc' = [pc EXCEPT ![w] = "list"]
    /\ UNCHANGED <<apiVars, home, cfg, det, idx, ids, match, snap, ok, boundVars>>

\* resolveEgress in mode auto reads the targets one by one and stops at the
\* first whose implicit egress rule is restrictive.
EgressByInterface(w) ==
    /\ pc[w] = "egress"
    /\ ReadsTargets(cfg[w])
    /\ LET stop == EgressDropped(Target(w)) \/ idx[w] = Len(cfg[w].targets) IN
       /\ egr' = [egr EXCEPT ![w] = EgressDropped(Target(w))]
       /\ idx' = [idx EXCEPT ![w] = IF stop THEN 1 ELSE idx[w] + 1]
       /\ pc' = [pc EXCEPT ![w] = IF stop THEN "list" ELSE "egress"]
    /\ UNCHANGED <<apiVars, home, cfg, det, ids, match, snap, ok, boundVars>>

\* No target needs the policy: its id stays 0.
SkipUpsert(w) ==
    /\ pc[w] = "list"
    /\ ~Needed(w, Service(w))
    /\ NextUpsert(w)
    /\ UNCHANGED <<apiVars, home, cfg, det, egr, ids, match, snap, ok, boundVars>>

\* UpsertPolicy lists the policies and looks for the exact name.  The API
\* promises no order, so any of several may be the first.
ListPolicies(w) ==
    /\ pc[w] = "list"
    /\ Needed(w, Service(w))
    /\ LET found == {p \in DOMAIN policies : policies[p].name = PolicyName[Service(w)]} IN
       \E p \in (IF found = {} THEN {0} ELSE found) : match' = [match EXCEPT ![w] = p]
    /\ pc' = [pc EXCEPT ![w] = "write"]
    /\ UNCHANGED <<apiVars, home, cfg, det, egr, idx, ids, snap, ok, boundVars>>

\* Mistake: never updating in place.
PutPolicyAnew(w) ==
    /\ ~busy
    /\ busy' = TRUE
    /\ policies' = Append(policies, RulesFor(w, Service(w)))

\* What a policy write does at the API: replace the policy the run found, or
\* add a new one.  A write is refused while another one settles.
PutPolicy(w) ==
    /\ ~busy
    /\ busy' = TRUE
    /\ policies' = IF match[w] # 0
                   THEN [policies EXCEPT ![match[w]] = RulesFor(w, Service(w))]
                   ELSE Append(policies, RulesFor(w, Service(w)))

\* UpdatePolicy or CreatePolicy succeeds.  Refused attempts are repeated by
\* Client.do and change nothing, so they do not appear as steps.
WritePolicy(w) ==
    /\ pc[w] = "write"
    /\ PutPolicy(w)
    /\ ids' = [ids EXCEPT ![w][Service(w)] =
                    IF match[w] # 0 THEN match[w] ELSE Len(policies) + 1]
    /\ match' = [match EXCEPT ![w] = 0]
    /\ NextUpsert(w)
    /\ UNCHANGED <<fw, home, cfg, det, egr, snap, ok, boundVars>>

\* ReconcileInterface reads the interface and decides whether to write.
GetFirewall(w) ==
    /\ pc[w] = "get"
    /\ LET f == fw[Target(w)] IN
       IF IsChanged(f.user, Final(w, Target(w), f))
       THEN /\ snap' = [snap EXCEPT ![w] = f]
            /\ pc' = [pc EXCEPT ![w] = "put"]
            /\ UNCHANGED idx
       ELSE NextTarget(w)
    /\ UNCHANGED <<apiVars, home, cfg, det, egr, ids, match, ok, boundVars>>

\* What the write of the attachments does at the API: everything the PUT body
\* holds comes from the snapshot, however old it is by now.
PutFirewall(w) ==
    /\ ~busy
    /\ busy' = TRUE
    /\ fw' = [fw EXCEPT ![Target(w)] =
                [user   |-> Final(w, Target(w), snap[w]),
                 copied |-> snap[w].copied,
                 active |-> TRUE]]

SaveFirewall(w) ==
    /\ pc[w] = "put"
    /\ PutFirewall(w)
    /\ NextTarget(w)
    /\ UNCHANGED <<policies, home, cfg, det, egr, ids, match, ok, boundVars>>

\* runApply returns; ok tells whether it returned nil.
Finish(w) ==
    /\ pc[w] = "done"
    /\ EndRun(w)
    /\ UNCHANGED <<apiVars, home, boundVars>>

------------------------------------------------------------------------------
(* Failures.                                                               *)

Fault == faults < MaxFaults /\ faults' = faults + 1

\* The run stops between two requests: the process is killed, the user does
\* not confirm, or a step up to the upserts returns an error that runApply
\* passes on (a refused refresh, FetchRanges, a request that failed, a retry
\* budget spent).
Abort(w) ==
    /\ pc[w] # "idle"
    /\ Fault
    /\ EndRun(w)
    /\ UNCHANGED <<apiVars, home, roams, edits>>

\* A policy write takes effect but its answer does not arrive.
WritePolicyLost(w) ==
    /\ pc[w] = "write"
    /\ Fault
    /\ PutPolicy(w)
    /\ EndRun(w)
    /\ UNCHANGED <<fw, home, roams, edits>>

\* Reading or writing one target fails: the error is kept, the others go on.
TargetFails(w) ==
    /\ pc[w] \in {"get", "put"}
    /\ Fault
    /\ ok' = [ok EXCEPT ![w] = FALSE]
    /\ NextTarget(w)
    /\ UNCHANGED <<apiVars, home, cfg, det, egr, ids, match, roams, edits>>

\* The write of one target takes effect but its answer does not arrive.
SaveFirewallLost(w) ==
    /\ pc[w] = "put"
    /\ Fault
    /\ PutFirewall(w)
    /\ ok' = [ok EXCEPT ![w] = FALSE]
    /\ NextTarget(w)
    /\ UNCHANGED <<policies, home, cfg, det, egr, ids, match, roams, edits>>

------------------------------------------------------------------------------
(* The outside world.                                                      *)

\* The asynchronous task behind the last accepted write is finished.
Settle ==
    /\ busy
    /\ busy' = FALSE
    /\ UNCHANGED <<policies, fw, home, runVars, boundVars>>

\* The provider hands the connection another address.
Roam ==
    /\ roams < MaxRoams
    /\ roams' = roams + 1
    /\ \E a \in Addrs \ {home} : home' = a
    /\ UNCHANGED <<apiVars, runVars, edits, faults>>

\* The user edits one interface at the web panel: attaches or detaches a
\* policy the tool does not manage, changes the copied policies, or switches
\* the interface's firewall off.
Edited(f) ==
    LET others == {p \in DOMAIN policies : policies[p].name \notin Managed} IN
    {[f EXCEPT !.user = @ \cup {p}] : p \in others}
    \cup {[f EXCEPT !.user = @ \ {p}] : p \in others}
    \cup {[f EXCEPT !.copied = c] : c \in SUBSET CopiedIds}
    \cup {[f EXCEPT !.active = FALSE]}

UserEdit ==
    /\ edits < MaxEdits
    /\ edits' = edits + 1
    /\ ~busy
    /\ busy' = TRUE
    /\ \E t \in Interfaces : \E f \in Edited(fw[t]) \ {fw[t]} : fw' = [fw EXCEPT ![t] = f]
    /\ UNCHANGED <<policies, home, runVars, roams, faults>>

------------------------------------------------------------------------------

Progress(w) ==
    \/ Start(w) \/ Authenticate(w) \/ EgressByConfig(w) \/ EgressByInterface(w)
    \/ SkipUpsert(w) \/ ListPolicies(w) \/ WritePolicy(w)
    \/ GetFirewall(w) \/ SaveFirewall(w) \/ Finish(w)

Failure(w) == Abort(w) \/ WritePolicyLost(w) \/ TargetFails(w) \/ SaveFirewallLost(w)

Next ==
    \/ \E w \in Workers : Progress(w) \/ Failure(w)
    \/ Settle \/ Roam \/ UserEdit

Spec == Init /\ [][Next]_vars

\* The scheduler keeps starting runs, a started run keeps going, and the tasks
\* of the API finish.  Failures, edits and new addresses are owed to nobody.
Fairness == WF_vars(Settle) /\ \A w \in Workers : WF_vars(Progress(w))
FairSpec == Spec /\ Fairness
==============================================================================

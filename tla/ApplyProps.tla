------------------------------ MODULE ApplyProps ------------------------------
(***************************************************************************)
(* What runs of runApply promise, stated over the state of ApplyCycle.     *)
(***************************************************************************)
EXTENDS ApplyCycle

\* A run is inside the loop its step belongs to: the targets or the upserts.
InLoop(w) ==
    /\ pc[w] \in {"idle", "auth"} => idx[w] = 1
    /\ pc[w] = "egress" /\ ~ReadsTargets(cfg[w]) => idx[w] = 1
    /\ pc[w] \in {"egress", "get", "put"} => idx[w] \in DOMAIN cfg[w].targets
    /\ pc[w] \in {"list", "write"} => idx[w] \in DOMAIN UpsertOrder

\* The variables have their types, ids refer to existing policies, and a run
\* is inside the loop its step belongs to.
TypeOK ==
    /\ policies \in Seq(Policy)
    /\ fw \in [Interfaces -> Firewall]
    /\ AttachedExist(policies, fw)
    /\ busy \in BOOLEAN
    /\ home \in Addrs
    /\ pc \in [Workers -> Steps]
    /\ cfg \in [Workers -> Configs]
    /\ det \in [Workers -> SUBSET Addrs]
    /\ egr \in [Workers -> BOOLEAN]
    /\ idx \in [Workers -> Nat \ {0}]
    /\ ids \in [Workers -> [Services -> 0 .. Len(policies)]]
    /\ match \in [Workers -> 0 .. Len(policies)]
    /\ snap \in [Workers -> Firewall]
    /\ ok \in [Workers -> BOOLEAN]
    /\ roams \in 0 .. MaxRoams
    /\ edits \in 0 .. MaxEdits
    /\ faults \in 0 .. MaxFaults
    /\ \A w \in Workers : snap[w].user \subseteq DOMAIN policies /\ InLoop(w)

------------------------------------------------------------------------------
(* Policies.                                                               *)

\* UpsertPolicy updates in place: the account never holds two policies under
\* one managed name, whatever fails or crashes between the listing and the
\* write (it needs runs that do not overlap, or an account on which the policies
\* exist already).
UniquePolicies == UniqueIn(policies)

------------------------------------------------------------------------------
(* A run that returned without an error.                                   *)

Succeeded(w) == pc[w] = "done" /\ ok[w]
TargetsOf(w) == {cfg[w].targets[i] : i \in DOMAIN cfg[w].targets}
ManagedOn(t) == {policies[p].name : p \in fw[t].user} \cap Managed

\* The services reconcileTarget is to leave attached to t, from the
\* configuration and the egress decision alone.
ServicesFor(w, t) ==
    {"ssh"} \cup cfg[w].on[t]
    \cup (IF egr[w] /\ cfg[w].allowAll THEN {"egress"} ELSE {})

\* After a successful run every target carries exactly the managed policies its
\* configuration asks for: enabled ones attached, disabled ones detached.
AttachedAsConfigured ==
    \A w \in Workers : Succeeded(w) =>
        \A t \in TargetsOf(w) : ManagedOn(t) = {PolicyName[s] : s \in ServicesFor(w, t)}

\* After a successful run the targets accept SSH from the address the run
\* detected and from no other: no older SSH policy is left attached.
SshOnlyFromDetected ==
    \A w \in Workers : Succeeded(w) =>
        \A t \in TargetsOf(w) : \A p \in fw[t].user :
            policies[p].name = PolicyName["ssh"] => policies[p].sources = det[w]

\* Outbound traffic does not hang on the VPN's egress rule alone: where a VPN
\* policy brings one, the allow-all policy is attached beside it.
OutboundOpen(t) ==
    (\E p \in fw[t].user : policies[p].name \in {PolicyName[s] : s \in VpnServices}
                           /\ policies[p].egress)
    => PolicyName["egress"] \in ManagedOn(t)

\* After a successful run with egressAllowAll on, no target is cut off from the
\* outside by egress rules of the tool.
OutboundKept ==
    \A w \in Workers : Succeeded(w) /\ cfg[w].allowAll =>
        \A t \in TargetsOf(w) : OutboundOpen(t)

------------------------------------------------------------------------------
(* What a step may never do.                                               *)

UserStep == edits' # edits

\* The write of an interface never strands it, even in a run that fails later:
\* reconcileTarget attaches the allowance in the write that attaches the rules.
SaveKeepsOutboundOpen ==
    [][\A w \in Workers : \A t \in Interfaces :
        SaveFirewall(w) /\ Target(w) = t /\ cfg[w].allowAll => OutboundOpen(t)']_vars

\* A run detaches a policy it does not manage, or drops a copied policy, only
\* if it was not there when the run read the interface.
KeepsWhatItSaw ==
    [][\A t \in Interfaces : \/ UserStep
                             \/ LET lost == {p \in fw[t].user \ fw'[t].user :
                                                policies[p].name \notin Managed} IN
                                /\ lost # {} => \E w \in Workers :
                                      pc[w] = "put" /\ Target(w) = t /\ snap[w].user \cap lost = {}
                                /\ ~(fw[t].copied \subseteq fw'[t].copied) => \E w \in Workers :
                                      pc[w] = "put" /\ Target(w) = t
                                      /\ snap[w].copied = fw'[t].copied]_vars

\* No step of any run, failing or overlapping, takes the SSH policy off an
\* interface that has one (which would drop the user's own access).
SshStaysAttached ==
    [][\A t \in Interfaces : PolicyName["ssh"] \in ManagedOn(t)
                             => PolicyName["ssh"] \in ManagedOn(t)']_vars

------------------------------------------------------------------------------
(* The inductive invariants behind the properties above.                   *)

\* The services whose upsert worker w has behind it in its current run.
Behind(w) ==
    CASE pc[w] \in {"get", "put", "done"} -> Services
      [] pc[w] \in {"list", "write"} -> {UpsertOrder[i] : i \in 1 .. (idx[w] - 1)}
      [] OTHER -> {}

\* For any number of workers: the ids a run works with keep the names it
\* looked them up or created them under, and it has one for every policy that
\* it needs and has upserted.
IdsNamedOf(w) ==
    /\ pc[w] = "write" => /\ match[w] # 0 => policies[match[w]].name = PolicyName[Service(w)]
                          /\ Needed(w, Service(w))
    /\ \A s \in Services :
        /\ ids[w][s] # 0 => policies[ids[w][s]].name = PolicyName[s]
        /\ ids[w][s] # 0 <=> s \in Behind(w) /\ Needed(w, s)

IdsNamed == \A w \in Workers : IdsNamedOf(w)

\* For one worker: what it found, or did not find, under a name still holds
\* when it writes.
MatchCurrent ==
    \A w \in Workers : pc[w] = "write" /\ match[w] = 0 =>
        \A p \in DOMAIN policies : policies[p].name # PolicyName[Service(w)]

\* The services some configuration may have a run upsert a policy for.
MayNeed(s) ==
    \E c \in Configs : s = "ssh" \/ (s \in Optional /\ AnyOn(c, s)) \/ (s = "egress" /\ c.allowAll)

\* An account on which every policy the configurations ask for exists.
Established(pols) ==
    \A s \in Services : MayNeed(s) => \E p \in DOMAIN pols : pols[p].name = PolicyName[s]

\* For any number of workers on such an account: no write creates a policy.
MatchFound == \A w \in Workers : pc[w] = "write" => match[w] # 0

\* For one worker: the policies it upserted keep the rules it gave them.
RulesKept ==
    \A w \in Workers : \A s \in Services :
        ids[w][s] # 0 => policies[ids[w][s]] = RulesFor(w, s)

\* What ReconcileInterface leaves behind on interface t.
Settled(w, t) ==
    /\ Present(w, t) \ {0} \subseteq fw[t].user
    /\ \A p \in fw[t].user : policies[p].name \notin Absent(w, t)

\* For one worker: the targets it has dealt with stay as it left them.
TargetsSettled ==
    \A w \in Workers : ok[w] =>
        \A i \in DOMAIN cfg[w].targets :
            pc[w] = "done" \/ (pc[w] \in {"get", "put"} /\ i < idx[w])
            => Settled(w, cfg[w].targets[i])

SingleRunInv == UniquePolicies /\ MatchCurrent /\ RulesKept /\ TargetsSettled

------------------------------------------------------------------------------
(* What must come about.                                                   *)

SshCurrent(t) ==
    /\ PolicyName["ssh"] \in ManagedOn(t)
    /\ \A p \in fw[t].user :
        policies[p].name = PolicyName["ssh"] => policies[p].sources = {home}

AlwaysTarget(t) == \A c \in Configs : \E i \in DOMAIN c.targets : c.targets[i] = t

\* Once addresses stop changing and failures stop, every interface all
\* configurations name ends up accepting SSH from the current address only,
\* although a run that detected the old address may still be writing.
Converges == <>[](\A t \in Interfaces : AlwaysTarget(t) => SshCurrent(t))

\* A failure between the VPN policy's write and an interface's may strand the
\* interface; later runs repair that for good.  Not so in mode auto: there two
\* runs that keep overlapping may decide on each other's unfinished work for ever.
OutboundRepaired ==
    (\A c \in Configs : c.allowAll /\ ~ReadsTargets(c))
    => <>[](\A t \in Interfaces : AlwaysTarget(t) => OutboundOpen(t))

------------------------------------------------------------------------------
(* What the documentation says and the code does not keep.                 *)

\* "whenever it emits any egress rule, it also attaches an egress-allow-all
\* policy" (README): when no run is under way nothing is stranded.
NothingStranded ==
    (\A w \in Workers : pc[w] = "idle") => \A t \in Interfaces : OutboundOpen(t)

ForeignEgress(t) ==
    \E p \in fw[t].user : policies[p].name \notin Managed /\ policies[p].egress

\* Mode auto "adapts as that state changes" (README): once no policy of the
\* user's restricts egress, the interfaces return to ACCEPT_ALL.
AutoReverts ==
    <>[](\A t \in Interfaces : ~ForeignEgress(t)) => <>[](\A t \in Interfaces : ~EgressDropped(t))
==============================================================================

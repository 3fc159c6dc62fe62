-------------------------------- MODULE Detect --------------------------------
(***************************************************************************)
(* From the configuration file to the SSH rules: how a run of the tool     *)
(* resolves its options (config.Load, resolveConfig, buildIPSource), looks *)
(* up its public addresses one family after the other (pubip.Resolve with  *)
(* an EchoSource or a DNSSource) and writes the ranges around them into    *)
(* the SSH policy (BuildSSHRulesOpts), while the connection gets other     *)
(* addresses, DNS lags behind and the user edits the file.                 *)
(*                                                                         *)
(* The requests between the detection and the write are ApplyCycle; here   *)
(* they are the time between two steps.                                    *)
(***************************************************************************)
EXTENDS Addresses

CONSTANTS
    Homes,        \* the addresses the connection may have
    LanAddrs,     \* what else a router may register under its DynDNS name
    Setups,       \* files, command lines and echo servers the runs start with
    MaxRenewals,  \* bound: changes of the connection's addresses
    MaxEdits,     \* bound: edits of the file
    MaxFaults     \* bound: lookups that fail though they need not, runs given up

ASSUME HomesAssumption ==
    Homes \subseteq Address /\ \A a \in Homes : IsRoutablePublic(a)
ASSUME LanAssumption == LanAddrs \subseteq Address /\ \A a \in LanAddrs : ~IsRoutablePublic(a)

\* The options of the file, or of a command line, that decide about detection.
\* "" and 0 stand for an option not given; a URL or a host name is given or not.
Options == [source : {"", "echo", "dns"}, echoURL : BOOLEAN, hostname : BOOLEAN,
            server : BOOLEAN, mode : {"", "dual", "v4only", "v6only", "auto"},
            prefix : [Families -> Nat]]
Given == {"source", "echoURL", "hostname"}

\* How the runs are set up: the user's file, what the user may write into it
\* later, the command line, the way to the echo server, and whether that expects
\* the User-Agent the runs send.
ASSUME SetupsAssumption ==
    Setups \subseteq [file : Options, edits : SUBSET {"hostname", "echoURL", "echo", "dns"},
                      flags : Options, deployment : Deployments, agent : BOOLEAN]
ASSUME BoundsAssumption == MaxRenewals \in Nat /\ MaxEdits \in Nat /\ MaxFaults \in Nat

VARIABLES
    setup,   \* how the runs are set up
    file,    \* the options in the configuration file
    wrote,   \* history: the options the user has written into it
    conn,    \* the connection's address of each family
    record,  \* the addresses published under the DynDNS name
    cache,   \* what the resolver answers without --dns-server
    at,      \* run: the family it looks up next, or what it does
    cfg,     \* run: its options
    res,     \* run: what the lookups gave
    recent,  \* history: the addresses its source has stood for since it began
    rules,   \* the ranges of the SSH policy
    renewals, edits, faults  \* how much of each bound is used

userVars == <<setup, file, wrote>>
worldVars == <<conn, record, cache>>
runVars == <<at, cfg, res, recent>>
boundVars == <<renewals, edits, faults>>
vars == <<userVars, worldVars, runVars, rules, boundVars>>

------------------------------------------------------------------------------
(* Options.                                                                *)

\* Mistake: an explicit source does not win.
WithDefaultsAlways(c) ==
    [c EXCEPT !.source = IF c.hostname /\ ~c.echoURL THEN "dns" ELSE "echo",
              !.mode = IF @ = "" THEN "dual" ELSE @]

\* withDefaults, applied to every file that is loaded.
WithDefaults(c) ==
    [c EXCEPT !.source = IF @ # "" THEN @
                         ELSE IF c.hostname /\ ~c.echoURL THEN "dns" ELSE "echo",
              !.mode = IF @ = "" THEN "dual" ELSE @]

\* resolveConfig: the flags of command line fl on top of a loaded file.
Overridden(c, fl) ==
    LET echoURL == c.echoURL \/ fl.echoURL IN
    [source   |-> IF fl.source # "" THEN fl.source
                  ELSE IF fl.hostname /\ ~echoURL THEN "dns" ELSE c.source,
     echoURL  |-> echoURL,
     hostname |-> c.hostname \/ fl.hostname,
     server   |-> c.server \/ fl.server,
     mode     |-> IF fl.mode # "" THEN fl.mode ELSE c.mode,
     prefix   |-> [f \in Families |-> IF fl.prefix[f] # 0 THEN fl.prefix[f] ELSE c.prefix[f]]]

ResolveConfig(f, fl) == Overridden(WithDefaults(f), fl)

\* buildIPSource refuses the DNS source without a host name.
Buildable(c) == c.source = "dns" => c.hostname

Wants(mode, f) == (f = "v4" /\ mode # "v6only") \/ (f = "v6" /\ mode # "v4only")

\* The families Resolve does not do without; auto only wants one of the two.
Required(mode) ==
    CASE mode \in {"dual", "v4only"} -> {"v4"}
      [] mode = "v6only" -> {"v6"}
      [] mode = "auto" -> {}

NoRun == [source |-> "", echoURL |-> FALSE, hostname |-> FALSE, server |-> FALSE,
          mode |-> "", prefix |-> [f \in Families |-> 0]]
NoResults == [f \in Families |-> None]

------------------------------------------------------------------------------
(* Lookups.                                                                *)

Published(c, f) == IF c.server THEN record[f] ELSE cache[f]

\* The echo server's answers to a request over family f.  It tells nobody who
\* does not send the User-Agent it expects.
EchoAnswers(f) ==
    IF setup.agent THEN {FromRequest(h, f) : h \in Headers(setup.deployment, conn[f])}
    ELSE {None}

\* What one Lookup of family f may give with options c, if nothing fails that
\* need not.  A DNS name without a usable address of that family is no failure;
\* a connection without that family cannot reach the echo server over it.
Lookups(c, f) ==
    IF c.source = "dns"
    THEN LET usable == {a \in Published(c, f) : IsRoutablePublic(a)} IN
         IF usable = {} THEN {None} ELSE usable
    ELSE IF c.echoURL /\ conn[f] # None THEN {Accepted(a, f) : a \in EchoAnswers(f)}
    ELSE {Failed}

\* The addresses the source of options c stands for: the connection's own, or
\* what DNS publishes.
StandsFor(c) ==
    IF c.source = "dns" THEN (UNION {Published(c, f) : f \in Families}) \ LanAddrs
    ELSE {conn[f] : f \in Families} \ {None}

Found(r) == {f \in Families : r[f] \in Address}

\* Mistake: one family is as good as the other in every mode.
ResolvesEither(c, r) == Found(r) # {}

\* The end of Resolve: is there what the mode requires?
Resolves(c, r) == Found(r) # {} /\ Required(c.mode) \subseteq Found(r)

\* BuildSSHRulesOpts: one range per address found, or an error for all of them.
Builds(c, r) == \A f \in Found(r) : ValidPrefix(f, c.prefix[f])
SSHRules(c, r) == {Masked(r[f], c.prefix[f]) : f \in Found(r)}

EndRun == at' = "idle" /\ cfg' = NoRun /\ res' = NoResults /\ recent' = {}

\* The history of a run that goes on.
Remember == recent' = IF at = "idle" THEN {} ELSE recent \cup StandsFor(cfg)'

Fault == faults < MaxFaults /\ faults' = faults + 1 /\ UNCHANGED <<renewals, edits>>

------------------------------------------------------------------------------
(* Runs.                                                                   *)

Init ==
    /\ setup \in Setups
    /\ file = setup.file
    /\ wrote = {o \in Given : IF o = "source" THEN file[o] # "" ELSE file[o]}
    /\ conn \in [Families -> Homes \cup {None}]
    /\ \A f \in Families : conn[f].fam \in {f, "none"}
    /\ record = [f \in Families |-> {conn[f]} \ {None}]
    /\ cache = record
    /\ at = "idle" /\ cfg = NoRun /\ res = NoResults /\ recent = {}
    /\ rules = {}
    /\ renewals = 0 /\ edits = 0 /\ faults = 0

\* A run loads the file and starts with the first family its mode wants.
Begin ==
    /\ at = "idle"
    /\ cfg' = ResolveConfig(file, setup.flags)
    /\ Buildable(cfg')
    /\ at' = IF Wants(cfg'.mode, "v4") THEN "v4" ELSE "v6"
    /\ recent' = StandsFor(cfg')
    /\ UNCHANGED <<userVars, worldVars, res, rules, boundVars>>

\* Mistakes: the second family is forgotten; it is looked up in every mode.
NextFamilyNone(f) == "found"
NextFamilyEvery(f) == IF f = "v4" THEN "v6" ELSE "found"

\* The lookup of IPv6 follows the one of IPv4, whatever that gave.
NextFamily(f) == IF f = "v4" /\ Wants(cfg.mode, "v6") THEN "v6" ELSE "found"

Lookup(f) ==
    /\ at = f
    /\ \E r \in Lookups(cfg, f) : res' = [res EXCEPT ![f] = r]
    /\ at' = NextFamily(f)
    /\ UNCHANGED <<userVars, worldVars, cfg, recent, rules, boundVars>>

\* The network, the echo server or the resolver fails.
LookupFails(f) ==
    /\ at = f
    /\ Fault
    /\ res' = [res EXCEPT ![f] = Failed]
    /\ at' = NextFamily(f)
    /\ UNCHANGED <<userVars, worldVars, cfg, recent, rules>>

\* Resolve or the rule builder returns an error: the run is over.
Refuse ==
    /\ at = "found"
    /\ ~(Resolves(cfg, res) /\ Builds(cfg, res))
    /\ EndRun
    /\ UNCHANGED <<userVars, worldVars, rules, boundVars>>

\* The SSH policy is written, some time after the addresses were found.
WriteRules ==
    /\ at = "found"
    /\ Resolves(cfg, res) /\ Builds(cfg, res)
    /\ rules' = SSHRules(cfg, res)
    /\ EndRun
    /\ UNCHANGED <<userVars, worldVars, boundVars>>

\* The run ends between the two, for a reason of its own.
Abort ==
    /\ at = "found"
    /\ Fault
    /\ EndRun
    /\ UNCHANGED <<userVars, worldVars, rules>>

------------------------------------------------------------------------------
(* The configuration file.                                                 *)

Save(c) ==
    /\ file' = c
    /\ UNCHANGED <<setup, wrote, worldVars, runVars, rules, boundVars>>

\* login saves the file it loaded with the defaults, and the flags it was given,
\* filled in.
SaveLogin == \E fl \in {NoRun, setup.flags} : Save(ResolveConfig(file, fl))

\* A run that has a rotated token to keep saves the options it works with.
SaveRun ==
    /\ at = "found"
    /\ Resolves(cfg, res) /\ Builds(cfg, res)
    /\ Save(cfg)

\* The user writes one option into the file.
EditFile ==
    /\ edits < MaxEdits
    /\ edits' = edits + 1
    /\ \E e \in setup.edits :
        /\ file' = IF e \in {"echo", "dns"} THEN [file EXCEPT !.source = e]
                   ELSE [file EXCEPT ![e] = TRUE]
        /\ wrote' = wrote \cup {IF e \in {"echo", "dns"} THEN "source" ELSE e}
    /\ UNCHANGED <<setup, worldVars, runVars, rules, renewals, faults>>

------------------------------------------------------------------------------
(* The outside world.                                                      *)

\* The connection gets another address of a family, or loses it.
Renew(f) ==
    /\ renewals < MaxRenewals
    /\ renewals' = renewals + 1
    /\ \E a \in {h \in Homes \cup {None} : h.fam \in {f, "none"}} \ {conn[f]} :
        conn' = [conn EXCEPT ![f] = a]
    /\ UNCHANGED <<userVars, record, cache, at, cfg, res, rules, edits, faults>>
    /\ Remember

Named == file.hostname \/ setup.flags.hostname

\* The router publishes a new address of the connection, perhaps with one of
\* its own.  It does not withdraw an address it has lost.
Register(f) ==
    /\ Named
    /\ conn[f] # None /\ conn[f] \notin record[f]
    /\ \E lan \in SUBSET {a \in LanAddrs : a.fam = f} :
        record' = [record EXCEPT ![f] = {conn[f]} \cup lan]
    /\ UNCHANGED <<userVars, conn, cache, at, cfg, res, rules, boundVars>>
    /\ Remember

\* A cached answer expires and is asked for again.
Expire(f) ==
    /\ Named
    /\ cache[f] # record[f]
    /\ cache' = [cache EXCEPT ![f] = record[f]]
    /\ UNCHANGED <<userVars, conn, record, at, cfg, res, rules, boundVars>>
    /\ Remember

------------------------------------------------------------------------------

Run == Begin \/ (\E f \in Families : Lookup(f)) \/ Refuse \/ WriteRules

Next ==
    \/ Run
    \/ (\E f \in Families : LookupFails(f)) \/ Abort
    \/ SaveLogin \/ SaveRun \/ EditFile
    \/ \E f \in Families : Renew(f) \/ Register(f) \/ Expire(f)

Spec == Init /\ [][Next]_vars

\* The schedule keeps starting runs, which go on; routers register new addresses
\* and cached answers expire.
Fairness ==
    /\ WF_vars(Run)
    /\ \A f \in Families : WF_vars(Register(f)) /\ WF_vars(Expire(f))
FairSpec == Spec /\ Fairness

------------------------------------------------------------------------------
(* Properties.                                                             *)

Ranges == [fam : Families, bits : Nat, base : Nat]

\* The variables have their types, and a run looks up only what its mode wants.
TypeOK ==
    /\ setup \in Setups /\ file \in Options /\ wrote \subseteq Given
    /\ conn \in [Families -> Homes \cup {None}]
    /\ record \in [Families -> SUBSET (Homes \cup LanAddrs)]
    /\ cache \in [Families -> SUBSET (Homes \cup LanAddrs)]
    /\ at \in Families \cup {"idle", "found"}
    /\ cfg \in Options
    /\ res \in [Families -> Results]
    /\ recent \subseteq Homes
    /\ rules \subseteq Ranges
    /\ renewals \in 0 .. MaxRenewals /\ edits \in 0 .. MaxEdits /\ faults \in 0 .. MaxFaults
    /\ cfg.mode = "v4only" => at # "v6" /\ res["v6"] = None
    /\ cfg.mode = "v6only" => at # "v4" /\ res["v4"] = None

\* The echo server may tell the address of a proxy for the client's: the proxy
\* forwards no header and is itself on the public internet.
Misled(c, f) ==
    /\ c.source # "dns" /\ setup.deployment = "bareproxy"
    /\ \E p \in ProxyAddrs : p.fam = f /\ IsRoutablePublic(p)

\* Every range a run writes is around an address its source stood for while the
\* run went on: for the echo server the connection's own, never a proxy's, an
\* edge's or a pseudo address; for DNS a published or still cached one, never the
\* router's LAN side.  No range is left over from an earlier run.  Excepted is
\* what an echo server tells behind a public proxy that forwards no header.
RulesWitnessed ==
    [][rules' # rules => \A range \in rules' :
        Misled(cfg, range.fam) \/ \E a \in recent : Covers(range, a)]_vars

\* A failed lookup of the family the mode requires changes no rules: new rules
\* let in an address the source stood for during the run, in mode dual and
\* v4only one of IPv4 and in v6only one of IPv6.  The other family, and in mode
\* auto either, may lose its rule.
AccessKept ==
    [][rules' # rules /\ (\A f \in Families : ~Misled(cfg, f)) =>
        \E range \in rules' : \E a \in recent :
            /\ Covers(range, a)
            /\ cfg.mode \in {"dual", "v4only"} => a.fam = "v4"
            /\ cfg.mode = "v6only" => a.fam = "v6"]_vars

\* Whatever prefix lengths are configured, no range opens the SSH port to more
\* addresses than one of MinPrefixLen does, nor covers a part of the network it
\* starts in only.
NeverTooWide ==
    \A range \in rules :
        /\ Size(range.fam, range.bits) <= Size(range.fam, MinPrefixLen)
        /\ range.base % Size(range.fam, range.bits) = 0

\* What the tool saves does not change what later runs do: they work with the
\* options they would have had, or with those of the run that saved.
SavesTransparent ==
    [][file' # file /\ edits' = edits =>
        ResolveConfig(file', setup.flags) \in {ResolveConfig(file, setup.flags), cfg}]_vars

\* Addresses are listed under their own family, a run's options already contain
\* the flags, and what a run has found its source stood for since it began,
\* unless a proxy misled it: what makes the properties above inductive.
DetectInv ==
    /\ \A f \in Families :
        /\ conn[f].fam \in {f, "none"}
        /\ \A a \in record[f] \cup cache[f] : a.fam = f
        /\ res[f] \in Address => res[f].fam = f /\ (res[f] \in recent \/ Misled(cfg, f))
    /\ at = "idle" => cfg = NoRun /\ res = NoResults /\ recent = {}
    /\ at # "idle" =>
        /\ cfg.mode # ""
        /\ ResolveConfig(cfg, setup.flags) = cfg
        /\ StandsFor(cfg) \subseteq recent

\* The configuration and the connection give a run what it needs.
Workable ==
    LET c == ResolveConfig(file, setup.flags) IN
    /\ IF c.source = "dns" THEN c.hostname
       ELSE c.echoURL /\ setup.agent /\ setup.deployment # "bareproxy"
    /\ \A f \in Required(c.mode) : conn[f] # None
    /\ \A f \in Families : Wants(c.mode, f) => ValidPrefix(f, c.prefix[f])

LetsIn(a) == \E range \in rules : Covers(range, a)

\* Once addresses stop changing and failures stop, every address of the
\* connection that the mode wants is let in for good, although DNS answers were
\* stale and a family's rule was lost with a failed lookup; with the echo server
\* nothing else is.
FollowsHome ==
    <>[](Workable =>
         LET c == ResolveConfig(file, setup.flags) IN
         /\ \A f \in Families : Wants(c.mode, f) /\ conn[f] # None => LetsIn(conn[f])
         /\ c.source = "echo" /\ (\E f \in Families : Wants(c.mode, f) /\ conn[f] # None) =>
                \A range \in rules : \E f \in Families :
                    conn[f] # None /\ Covers(range, conn[f]))

------------------------------------------------------------------------------
(* What the documentation says and the code does not keep.                 *)

\* The source "defaults to `dns' when only DNSHostname is set" (config.go):
\* so it is when that is all the user has ever written.
SourceFollows ==
    wrote = {"hostname"} /\ file.hostname /\ setup.flags = NoRun
    => ResolveConfig(file, setup.flags).source = "dns"
==============================================================================

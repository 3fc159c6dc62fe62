# TLA+ verification of netcup-autofirewall

netcup-autofirewall keeps the firewall of NetCup servers open for SSH from the
user's current public address and closed for everybody else. This directory
models what it does at NetCup's Server Control Panel (SCP) API and with its own
configuration file, model-checks small instances with TLC, and proves the most
important properties for every instance with TLAPS.

Source references are to the repository: `main.go:433` is line 433 of
`src/main.go`, `firewall.go` is `src/internal/scp/firewall.go`, `client.go`
`src/internal/scp/client.go`, `config.go` `src/internal/config/config.go`.

## 1. The system

| Component | State it keeps | Operations | Interacts with |
|---|---|---|---|
| apply cycle, `runApply` (`main.go:433`) | on its stack: targets, detected rules, egress decision, policy ids, first error | detect, authenticate, decide egress, upsert up to five policies, reconcile each target | all below |
| upsert and reconcile (`firewall.go`) | none between calls; the policies and attachments are at the API | `UpsertPolicy`: list, then update or create. `ReconcileInterface`: read, then write if it differs | SCP API |
| SCP client (`client.go`) | access token | `do`: one request, repeated with backoff while another write settles | SCP API |
| egress decision (`main.go:641`) | none | reads the targets in mode auto | SCP API |
| credentials (`main.go:258-341`, `848`; `internal/auth`) | refresh token and user id in the process's copy of the configuration | login, rotation, logout | token endpoint, configuration file |
| configuration (`config.go`) | the file; every process has a copy of its own | load with defaults, save, per-target overrides | every command |
| daemon (`main.go:366`) | one copy of the configuration for its lifetime, a cron schedule | a first cycle, then ticks | apply cycle |
| rule builders (`internal/firewall`) | none | address, port, protocol and prefix length to rules | apply cycle |
| address detection (`internal/pubip`) | one result per family, for a call | `Resolve`: IPv4, then IPv6, from the echo server or DNS; modes that require or tolerate a missing family | echo server, DNS |
| echo server (`cmd/echo-server`, `internal/clientip`) | none | answers the address a request came from, out of four headers | reverse proxies, Cloudflare |
| device login (`internal/auth`) | interval and deadline of one login | `StartDeviceAuth`, `PollToken` | device and token endpoint |
| Cloudflare ranges, status command | none | download; read-only output | |

What makes it hard:

- **No run owns the account.** A daemon tick, a cron job and an `apply` typed by
  hand may overlap (gocron does not run jobs as singletons by default), and so
  may the user at the web panel. Every decision is taken from a read and carried
  out by a later request; a write may be repeated for five minutes
  (`client.go:98`) with the body made from the old read.
- **Policies are shared.** The policies belong to the account, not to an
  interface; updating one changes every interface it is attached to, before the
  run gets to the interfaces themselves.
- **Runs stop half-way**: killed, refused, out of retry budget, or without the
  answer to a request that took effect.
- **Every process saves its whole configuration**, loaded when it started, over
  what the others have saved; the refresh token in it may be replaced whenever it
  is used.
- **Derived options are saved**: what `withDefaults` fills in when a file is
  loaded gets into the file with the next save, and counts as given from then on.
- **A family may be missing** for a moment or for good; the modes tell a failed
  lookup from a missing address only in part, and DNS may be out of date.
- **Polling goes by two clocks**: the client's deadline and the endpoint's, with
  an interval the endpoint may lengthen.
- **The implicit rules**: attaching any egress rule makes the interface drop all
  other outbound traffic.

What makes each component correct: the apply cycle has done, when it returns
without an error, what its configuration asks for on every target, and has not
taken away the user's own access, the user's own policies or outbound traffic on
the way; upserts never duplicate a policy; retries respect their budget and are
enough for shorter writes; the stored token stays usable, a logout stays a
logout, and a flag counts for its run; the SSH rules are around addresses the
source really stood for, follow the connection, and are never too wide; a login
is polite, ends in time and misses no approval. `PROJECT.json` lists the hazards line by
line, each with the properties aimed at it.

## 2. The modules

| Module | Models |
|---|---|
| `Reconcile` | the decision inside `ReconcileInterface`: which ids to write, and whether to |
| `ApplyCycle` | runs of `runApply` against the API, one action per request |
| `ApplyProps` | properties of `ApplyCycle`, and the invariants that make them inductive |
| `FirewallPromise` | abstract: what a run promises to do to an account, without the requests it takes |
| `ApplyPromise` | the mapping by which `ApplyCycle` implements `FirewallPromise` |
| `MCApplyCycle` | accounts and configurations for TLC |
| `ApplyCycleProofs`, `ApplySingleProofs`, `PromiseProofs`, `ApplyPromiseProofs` | the proofs about `ApplyCycle`, about `FirewallPromise`, and that the one implements the other |
| `Credentials`, `CredentialsProofs` | the configuration file, the processes' copies and the refresh token; the proofs about them |
| `WriteCall` | abstract: what a call of `Client.do` does for a run, however many attempts it takes |
| `WriteRetry`, `WriteRetryProofs` | one call of `Client.do`; the proofs of its bounds and that it implements `WriteCall` |
| `Addresses` | pure: what the echo server answers, what the client accepts, the ranges of the rules |
| `Detect` | from the file and the flags to the ranges of the SSH policy, run after run |
| `MCDetect`, `DetectProofs` | addresses and setups for TLC; the proofs about `Detect` and `Addresses` |
| `DeviceFlow`, `DeviceFlowProofs` | a login: the device code and the polls; the proof of its bounds |

The modules are composed by inclusion (`ApplyPromise` > `ApplyProps` >
`ApplyCycle` > `Reconcile`; `Detect` > `Addresses`) and, for the components that
meet at a request, by what the one shows the other: `ApplyCycle` takes one
detected address from `Detect`, `Credentials` takes a granted token from
`DeviceFlow`, and a write of `ApplyCycle` is the single step that `WriteCall` makes of
a whole call of `WriteRetry`.

### ApplyCycle

A *worker* is one invocation of `runApply`. `policies`, `fw` and `busy` are the
API's state: the account's policies (a policy's id is its position in the
sequence), each interface's firewall, and whether a write is still settling.
`home` is the current address of the user's connection. The other variables are
one run's locals: `det` its SSH sources, `egr` the result of `resolveEgress`,
`ids` the struct `policyIDs`, `match` what `UpsertPolicy` found, `snap` what
`ReconcileInterface` read, `ok` whether `firstErr` is nil.

| Action | Code |
|---|---|
| `Start` | detection and SSH rules, `main.go:433-462` |
| `Authenticate` | confirmation, `authClient`, `ensureUserID` |
| `EgressByConfig`, `EgressByInterface` | `resolveEgress`; in mode auto each target's read is one step |
| `SkipUpsert`, `ListPolicies`, `WritePolicy` | the five upserts in their order: not needed; listing and match; update or create |
| `GetFirewall`, `SaveFirewall` | `ReconcileInterface`: read and decide; write |
| `Finish` | `return firstErr` |
| `Abort` | killed, not confirmed, or an early error return of `runApply` |
| `WritePolicyLost`, `SaveFirewallLost` | the write took effect, its answer did not arrive |
| `TargetFails` | reading or writing one target failed, the loop goes on |
| `Settle`, `Roam`, `UserEdit` | external: the API's task ends, the address changes, the user edits one interface at the web panel |

Abstractions. Of a policy's rules the model keeps the ingress sources and whether
one of them is an egress rule, which is all the properties tell apart. The
addresses of a run are one value: families are the matter of `Detect`. The
implicit egress rule is computed from the attached policies, as the comments of
`main.go:635-640` describe the API. A refused write is repeated by `Client.do`
and changes nothing, so it is no step: a worker whose write is refused just waits
for `~busy`; giving up is `Abort` or `TargetFails`. Attachments are visible to
reads as soon as a write is accepted. A policy's name never changes, so
`Final`, which the code computes at the read and sends at the write, may be
evaluated at either. The sum of the user's freedom is `UserEdit`: other people's
policies are attached and detached, copied policies changed, the firewall
switched off. The user does not delete or create policies under managed names.
The configured names are distinct (`PolicyNameAssumption`): two services with one
name would overwrite each other.

### FirewallPromise and ApplyPromise

`FirewallPromise` knows no ids, listings, reads or retries. Each managed policy
is a slot (`rules`), each interface carries a set of services (`on`), and a run
has a plan that it carries out in single steps: write every policy it needs, then
replace the services of each target, and be good at the end only if it did all of
it. It may end early or skip a target, but then it is not good.

The mapping: `rules[s]` is the policy under the name of service `s`, `on[t]` the
services whose policies' names are attached to `t`; a run has its plan once it is
past the egress decision; `todo` are the needed services it has not upserted,
`left` the targets from the present one on, `good` is `ok`. So `ListPolicies`,
`GetFirewall`, `SkipUpsert` and all that happens at other people's policies are
stutters; `WritePolicy` is `Upsert`, `SaveFirewall` (and a `GetFirewall` that finds
nothing to change) is `Reconcile`, `TargetFails` is `Skip`, `Finish` and `Abort`
are `End`. A target that was listed twice would be reconciled twice; the
configurations list targets once.

### Credentials

A process has a copy `mem` of the configuration and cycles `run` that share it;
only a daemon has several. `Present` (the request takes the copy's token),
`Refresh` (the endpoint answers), `Store` (the answer is handled), `OpenFile`
(truncation) and `WriteFile` are separate steps, so other cycles, processes, kills
and failures fall in between. A cycle keeps in `tok` the token it has presented,
and from the answer on the one it was answered: a new one, the same one or none
(`Answers`). `Store` compares it with the copy as it is by then, like
`main.go:268`, and not with the token presented (`Differs`). `Settings` stands for
any option that a flag overrides and `config.Save` writes. Concurrent ticks race on
the copy's fields; the model interleaves the accesses at the granularity of these
steps.

| Action | Code |
|---|---|
| `Invoke` | `config.Load` and the flags at the start of each command |
| `Tick`, `Stop` | the schedule of `run`, and its shutdown between cycles |
| `Grant`, `GrantRefused` | the end of `login`; `DeviceFlow` is what came before |
| `Revoke`, `RevokeFails`, `LogoutNothing` | `logout` |
| `Present`, `Refresh`, `RefreshLost`, `NoRefresh`, `Store` | `authClient`: the request, its answer or failure, and what it makes of the answer |
| `UserKnown`, `EnsureUser`, `EnsureUserFails` | `ensureUserID` |
| `OpenFile`, `OpenFails`, `WriteFile`, `WriteFails` | `config.Save` |
| `Kill`, `EditFile`, `RemoveFile` | external |

Two history variables say what `StoredUsable` leaves out. `clashed`: a cycle
presented its token, or a command began, while another was at work. `behind`: since
the last completed save, a save failed, an answer was lost or a process was killed
at work. So the property says that cycles that do not get in each other's way leave a
usable file, and that a completed save makes up for whatever went wrong before it.
`KeepsSession` is about overlapping cycles and failing saves, and excepts two steps
only: a lost answer, and the handling of a `Stale` answer, one whose token the
endpoint has replaced since. Such answers exist if the endpoint sometimes answers
the token it was presented and sometimes another (`stale_answer` shows what comes of
it); if it rotates every token it answers, there are none (`NeverStale`, a theorem:
the run `credentials` has both kinds of endpoint).

### WriteRetry

Time in seconds since the call started. The API refuses attempts that reach it
before `clear`; `Latencies` are the times an attempt may take. `writes` counts how often
the API has carried the request out, which is not for the call to see: an attempt
that fails for lack of an answer (`NoAnswer`) may have been. `RetryInv` is the
inductive invariant, of use in the proof only. What `net/http` repeats on a broken
connection by its own rules is inside an attempt, and not modelled.

`WriteCall` is what `ApplyCycle` takes such a call for: `Write` is `WritePolicy` or
`SaveFirewall`, with an error `WritePolicyLost` or `SaveFirewallLost`; `NoWrite` is
`Abort` or `TargetFails`. The mapping: another write has `settled` from `clear` on,
`result` is what the call returns. `Succeed` is `Write`, `Fail` is `Write` or
`NoWrite`, `GiveUp` and `Cancel` are `NoWrite`; refusals and waits are stutters, or
`Settle` if the other write ends meanwhile.

### Addresses and Detect

An address is a number of as many bits as its family has, and has a kind
(`KindOf`) that stands for the tests of package `netip` that the code makes; its
text form is left out. A size is `Pow2`, a recursive
function that proofs can be about. `Headers` is external: which headers a request carries, and
whose address its peer has, when it comes directly, through a reverse proxy that
adds the header or forgets it, or through Cloudflare with or without Pseudo IPv4.

| Action or operator | Code |
|---|---|
| `WithDefaults`, `Overridden`, `Buildable` | `withDefaults`, `resolveConfig`, `buildIPSource` |
| `Candidates`, `FromRequest` | `clientip.FromRequest` |
| `IsRoutablePublic`, `Accepted` | `isRoutablePublic`, `detectFamily` |
| `Lookups`, `Lookup`, `LookupFails` | the two sources' `Lookup` of one family |
| `Wants`, `NextFamily`, `Required`, `Resolves`, `Refuse` | `Resolve`: the order, the modes, the errors |
| `ValidPrefix`, `Masked`, `SSHRules`, `WriteRules` | `BuildSSHRulesOpts`, `maskToPrefix`; the write is a request of `ApplyCycle` |
| `SaveLogin`, `SaveRun` | the saves of `Credentials`, here with the options of detection |
| `Renew`, `Register`, `Expire`, `EditFile` | external: the connection, the router's DynDNS client, resolver caches, the user |

`record` is what the name servers publish and `cache` what an ordinary resolver
still answers; with `--dns-server` a run asks the former. `recent` is a history
variable: all the addresses the run's source stood for since the run began, since
a lookup may be true when it is made and out of date when the rules are written.
The steps of other requests, between detection and write, are just time here.

### DeviceFlow

Time in seconds since the endpoint issued the code. A request is under way for up
to `MaxLatency` in each direction and a timer is up to `MaxLag` late. The endpoint
may answer `slow_down` or `authorization_pending` at any time, also after the code
has expired: only then does the client's own deadline matter. `demanded` is the
interval the endpoint expects by its own count.

## 3. The runs

Passing runs:

| Run | Shows |
|---|---|
| `apply_single` | One worker runs again and again with three configurations (WireGuard auto; WireGuard always plus Cloudflare with the targets in the other order; OpenVPN without allowance on one target) on an account the tool has not touched (every later state of an account grows from it). `UniquePolicies`; a successful run has the configured policies attached (`AttachedAsConfigured`), SSH open to the detected address only (`SshOnlyFromDetected`) and outbound traffic open (`OutboundKept`); the write of an interface never strands it (`SaveKeepsOutboundOpen`). |
| `apply_overlap` | Two workers overlap on an account (`HalfSet`) that has all policies its configuration asks for, but whose interfaces are not as they should be: the VPN's rules are without egress, the allowance is attached nowhere, one interface lacks the SSH policy and the other has the VPN left over. So the runs write both interfaces, from snapshots of different age and next to an edit by the user, and an interface is stranded as soon as the VPN policy is rewritten. No run doubles a policy (`UniquePolicies`); no step takes away an attachment or a copied policy its run had seen (`KeepsWhatItSaw`), or the SSH policy (`SshStaysAttached`); with fairness, `Converges` and `OutboundRepaired`. |
| `credentials` | One process after the other, among them a daemon with two cycles at once, with every kind of answer, failing saves, lost answers and kills: `StoredUsable` and `KeepsSession`. |
| `write_retry` | `Client.do` with the delays of the source (2 s doubling to 30 s, 300 s budget, 30 s timeout): `WithinBudget`, `ShortWritesWaitedOut`, `Returns`; and the call implements `WriteCall` (`OneWrite`): its request is carried out once at most, although an answer may be lost. |
| `detect` | Run after run with twelve setups (echo server directly, behind a proxy, a proxy that forgets the header, with a private address or a public one, Cloudflare, Pseudo IPv4, or expecting another User-Agent; DNS with and without a server of its own; every mode; prefix lengths at and beyond their limits), while addresses are renewed and lost, DNS lags, lookups fail and options are saved: `RulesWitnessed`, `AccessKept`, `NeverTooWide`, `SavesTransparent` and, with fairness, `FollowsHome`. |
| `device_flow` | A login against an endpoint that slows it down, answers late and notices the expiry late: `Polite`, `EndsInTime`, `ApprovalSeen` and, with fairness, `Returns`. |

`apply_single` also checks `KeepsPromise`: its runs implement `FirewallPromise`.

Runs that find a disagreement between the documentation and the code; each is a
finding in `PROJECT.json` with the quoted line:

| Run | What TLC finds |
|---|---|
| `overlap_duplicates` | two overlapping first runs create two `ssh-autofirewall` policies; from then on one of them is stale |
| `egress_stranded` | the shared VPN policy has its egress rules, the run fails, the interface has no allowance |
| `auto_latches` | mode auto never takes its own egress rules back: it reads the effect of its own rules |
| `stale_answer` | a cycle that was answered the token it had presented puts it back after another cycle has stored the token that replaced it; nothing failed and no two saves overlap |
| `logout_resurrected` | an apply under way during a logout stores a valid token in the cleared file |
| `source_sticks` | a login on a file without options stores the derived source `echo`; the DynDNS name the user writes into the file afterwards is ignored |

Bounds. `MaxRoams`, `MaxEdits`, `MaxFaults` (in `ApplyCycle`) and `MaxTokens`,
`MaxEdits`, `MaxLosses`, `MaxFaults` (in `Credentials`) only limit how often the
environment acts; the number of runs is not bounded. One of each in `ApplyCycle`
is enough for the cases the hazards name: a failure between any two requests
followed by good runs, an address change during a run, an edit between read and
write. Two interfaces distinguish shared policies from attachments and a first
target from a later one; two workers give every pairwise overlap. In
`Credentials` four tokens allow a login and repeated rotations of a daemon; two
cycles (and in `logout_resurrected` two processes) give every pairwise race, and two faults a failed save
after a failed save.

`ClearTimes` in `WriteRetry` straddle 240 s (the edge of `ShortWritesWaitedOut`),
270 s and 300 s. `Detect` has IPv4 addresses of three bits and IPv6 ones of four,
two of each for the connection, so that a range of the shortest permitted prefix
(`MinPrefixLen` 2 instead of 8) holds one of them or both, and addresses of every
kind for proxies, edges and routers (a private IPv4 and a public IPv6 address for
the proxies); two renewals (`MaxRenewals`) let both families change, or one come
and go, in one run; one failed lookup and one edit meet each of them.
`DeviceFlow` has intervals given, missing and nonsensical, lifetimes shorter than
an interval, of two of them and of several, and approvals before the first poll,
between polls, in the last stretch and never.

No state constraint and no symmetry is used. `write_retry` and `device_flow` have
`CHECK_DEADLOCK FALSE`: a call returns, a login ends, and that is all.

Fairness. `FairSpec` of `ApplyCycle` is weakly fair to `Settle` (the API's tasks
end, `client.go:71`: "can take several minutes to settle") and to each worker's
`Progress` (the schedule keeps starting runs, `main.go:406-417`, and a goroutine
that can go on does). Failures, edits and address changes are owed nothing, and
are bounded, so "eventually" means once they have stopped. Writes get weak
fairness only: a worker whose writes are refused for ever because the other one
always gets in first is not ruled out, and the properties hold nevertheless.
`Detect`'s is weakly fair to the runs, for the same reason, and to `Register` and
`Expire` of each family: a router with a DynDNS client registers an address it
keeps, and a cached answer has a lifetime. Saves, renewals and failures are owed
nothing. The call in `WriteRetry` and the login in `DeviceFlow` are weakly fair to
their own steps: timers fire and requests end, `http.Client` having timeouts.

## 4. The proofs

Every theorem is proved by TLAPS for all values of the constants, from the
assumptions named in the modules (`PolicyNameAssumption`: distinct names;
`ConfigsAssumption`: configurations have targets; `AccountsAssumption`: the
account is well-formed and has no namesakes; `BoundsAssumption`; of the delays, the
times, the widths of addresses and the setups, that they are such, and that a delay
is not longer than the cap nor the cap than the budget).

| Theorem | States |
|---|---|
| `TypeCorrect` | `TypeOK`, for any number of overlapping runs |
| `SshStays` | `SshStaysAttached`, for any number of overlapping runs |
| `SawKept` | `KeepsWhatItSaw`, for any number of overlapping runs |
| `UniqueCorrect` | `UniquePolicies`, if runs do not overlap |
| `EstablishedUnique` | `UniquePolicies`, for any number of overlapping runs, if the account has every policy some configuration may need (`Established`) |
| `RunCorrect` | `UniquePolicies`, `AttachedAsConfigured`, `SshOnlyFromDetected`, `OutboundKept`, if runs do not overlap |
| `SaveOutbound` | `SaveKeepsOutboundOpen`, if runs do not overlap |
| `ChangedIffDifferent` | the code's comparison (sizes, then one inclusion) decides equality of finite sets |
| `RetryCorrect` | `TypeOK`, `WithinBudget` and `ShortWritesWaitedOut`, for all delays, budgets and timeouts |
| `OneWriteKept` | `OneWrite`: the refinement, for all delays, budgets and timeouts |
| `WrittenOnce` | a call's request is carried out once at most, and once if it returns nil |
| `PromiseCorrect` | of `FirewallPromise`: a run that ends well has everything as planned (`DoneAsPlanned`), and no interface ever carries a service without a policy (`NothingDangling`) |
| `PromiseKept` | `KeepsPromise`: the refinement, if runs do not overlap and no configuration lists a target twice (`DistinctTargets`) |
| `PromiseCollected` | `DoneAsPlanned` and `NothingDangling` of `ApplyCycle`'s account, under the same hypotheses |
| `CredentialsTyped` | `TypeOK` of `Credentials`, for any number of processes side by side |
| `SessionKept` | `KeepsSession`, if commands do not run side by side, for any number of overlapping cycles |
| `RotationNeverStale` | `NeverStale`, under the same hypothesis, if the endpoint never answers the token it was presented |
| `SessionStored` | `StoredUsable`, if commands do not run side by side |
| `LoginCorrect` | `TypeOK`, `EndsInTime`, `ApprovalSeen` and `Polite` of `DeviceFlow`, for every interval, lifetime and delay |
| `EchoTruth` | whatever stands between a client and the echo server, the client accepts its own address or none; or the proxy's, if that forwards no header and has a public address of the family asked for |
| `MaskedRange` | for every width and accepted prefix length, a rule's range contains its address, starts at a multiple of its size and is no larger than the shortest length permits |
| `SavedOptions` | resolving options, saving them and resolving them again changes nothing |
| `DetectTyped` | `TypeOK` of `Detect` |
| `WidthBounded` | `NeverTooWide` |
| `OnlyWitnessed` | `RulesWitnessed` (which excepts such a proxy: `Misled`) |
| `AccessStays` | `AccessKept` (likewise) |
| `SavesHarmless` | `SavesTransparent` |

"Runs do not overlap" is the hypothesis `OneWorker`, that `Workers` has at most
one element; `overlap_duplicates` shows that `UniquePolicies` needs it, or the
account of `EstablishedUnique`. "Commands
do not run side by side" is `OneProcess`, that there is one process, which runs one
command after the other; the cycles of a daemon still overlap.
`logout_resurrected` shows what two processes do to each other.

The argument. `TypeOK` alone says that ids refer to existing policies. It is not
enough for `SshStaysAttached`: the invariant `IdsNamed` adds that the id a run
holds for a service still carries that service's name, and that it has an id for
exactly the services it needs and has upserted; names are never changed
(`NamesStay`), so the invariant survives every other run. Then the ids a write
adds always contain the SSH policy's, and the names it removes never do.

`EstablishedUnique` rests on two more: policies keep their names, so an account that
is `Established` stays so, and a run that lists it finds what it needs
(`MatchFound`), so every write is an update, whatever other runs have done since.

For runs that do not overlap, `SingleRunInv` adds what one run may rely on:
`MatchCurrent` (what it did not find is still missing when it creates it),
`RulesKept` (the policies it wrote keep the rules it wrote) and `TargetsSettled`
(the targets behind it stay as it left them; the user's edits do not touch
managed policies). `UniquePolicies` is inductive only together with
`MatchCurrent`, since creating is safe exactly then. From `TargetsSettled` in
the state where a run returns without an error, `SettledCarries`,
`SettledRules` and `SettledOutbound` derive the three properties of a successful
run. `TargetsSettled` for a target that needed no write rests on
`ChangedIffDifferent`.

`PromiseKept` shows that initial states map to initial states and each step to a
step of the promise or to none. Its lemmas say first what the mapped variables are
in one state (`View`, an invariant, so that it may be used before and after a step)
and then what each step does to them. `WriteSlots` needs `UniquePolicies`: a slot is
the one policy of its name. `UpsertStep` and `SkipUpsertStep` need `IdsNamed`'s
`Behind`: what is left to write is what is needed and not behind. `SaveStep` and
`GetStep` rest on `PutSettles`, `UnchangedSettled` and `SettledCarries`: a target a
run has dealt with carries the services of the plan, though the run knows ids only.
`EditStep` is `EditedShape`: the user does not touch managed policies. What
`PromiseCorrect` says of the promise then holds of the runs (`PromiseCollected`,
with `PromiseProofs` instantiated by the same mapping).

`RetryInv` says of a waiting call that it wakes up inside the budget, and of a
refused one that the other write was settling less than a timeout ago; the test
`PastBudget` turns the one into the other. `OneWriteKept` needs only that: a call
goes on after a refusal and after nothing else, and a refused attempt was not
carried out. The promise is why `ApplyCycle` may leave the attempts out, and
`AtMostOnce` why a lost answer there is one write or none.

`PollInv` bounds, for each status of a login, how far the clock may be from the
last poll and from the deadline, and says that the client's interval is the one
the endpoint demands. `Polite` follows because a poll is sent an interval after the
answer to the last one; `EndsInTime` because the deadline is tested before each
wait, but not after it; `ApprovalSeen` because a login that ends at `lifetime` or
later has polled in the stretch before.

In `Credentials` tokens are numbered as they are issued, so `TypeOK` needs
`TokensInv`: no copy, answer or file holds a token that is yet to be issued, and
only a daemon has more than one cycle.

A daemon is `Live` by its copy's token or by an answer not handled yet, and the steps
of `KeepsSession` go through the cases: a rotation replaces the token by one in an
answer, a `Store` puts it into the copy, and a failed save changes neither. What
could take it is a `Store` whose answer is not alive, and that is a `Stale` one.
`FreshInv` is why there is none when every answer is rotated: an answer not handled
yet carries a token that is alive, and neither the copy nor another cycle knows it,
so nobody else can have presented it and had it replaced.

`SavingInv` is what `StoredUsable` needs: as long as nothing clashed, one cycle is at
work (`AloneInv`), and it is `Sound`: the token it asked with is the copy's, its
answer is good, and what it saves is what the copy holds. So the file is good unless
a better token is on its way into it; `behind` is set by whatever keeps that token
from arriving, and taken back by the next save that does arrive.

In `Detect` the ranges come first. `Pow2` is defined by recursion over the numbers,
which says nothing until a function is shown to satisfy it. The library's induction
takes an operator and is out of reach, so the proof makes its own over a set of
numbers (`SetInduction`, from the least element that the well-founded order gives),
builds the lists of the first powers (`PowersExist`), and takes the function from
them (`PowersAgree`, `Pow2Recursion`). From it, `Pow2Grows` and `CutToMultiple` give
`MaskedRange`. `DetectInv` adds to the types what a run carries from step to step: an
address is listed under its own family, the run's options already contain the flags
(`SavedOptions` makes them a fixed point, so a save in mid-run is harmless), and what
it has found is among `recent`, the addresses its source stood for since it began.
`EchoTruth` and `LookupFinds` say that a lookup brings no other, unless a public
proxy without headers stands before the echo server: nothing in `clientip.go` or in
the client could tell its address from the user's, so `Misled` is a hypothesis of
the properties and not of the constants. `AccessStays` then
only needs the modes: a run that writes has found the family its mode requires.

Only model-checked: `Converges`, `OutboundRepaired`, `FollowsHome` and the two
`Returns` (liveness is beyond the proof system's reach), and that the findings'
properties fail. Every invariant and every action property a passing run checks is
also a theorem.
`Converges` needs an account that has all policies: TLC also shows that after
`overlap_duplicates` a stale namesake of the SSH policy may stay attached for
ever. `OutboundRepaired` needs a mode that reads no interface: in mode auto, once
the user has detached the last egress policy of their own, TLC finds two runs that
overlap for ever, of which one always sees the other's egress rules and the other
never does, so that the interface is stranded again and again.

## 5. Not modelled, and the plan

Not modelled, and why:

- The Cloudflare download: one request and a parser; its result is a constant of
  `ApplyCycle` and its failure an `Abort`. The status command: it reads and prints;
  the one thing it changes, a rotated token, is `authClient`'s, in `Credentials`.
- Ports, protocols and descriptions of the rule builders: copied from the
  configuration or refused, without state. JSON coding, TLS and HTTP layers, output.
- The parsing of the schedule and the delivery of signals: `gocron`'s and the
  runtime's. What a killed run leaves behind is modelled.

Known to differ from the documentation, or to surprise, without a run of its own:

- `config.go:322`: `--server-id` and `--mac` have no effect on a file with a
  targets list.
- `main.go:667`: in mode auto one restrictive target makes the shared policies
  carry egress rules on the permissive ones too (`README.md:317`).
- `clientip.go:49`: behind a proxy that forwards no header, the echo server answers
  the proxy's address, and if that is public, the rules let the proxy in.
- `config.go:332`: a save writes the whole copy of its process, so it may take back
  an edit the user has made meanwhile; `SavesTransparent` allows the options of the
  run that saves.
- `firewall.go:112`: a policy the user attaches between a run's read and write is
  detached (`README.md:7`). `KeepsWhatItSaw` is what does hold.
- `main.go:391`: a daemon does not load the file again, so a token another process
  has rotated leaves it without a session.
- `main.go:270`: a flag given for one run becomes the stored setting if the run has a
  token or user id to save (`README.md:438-439` says "for that run"), and is
  forgotten otherwise (`README.md:166` says that all options persist).
- `main.go:270`: two cycles of a daemon may save at once, and the older token may
  land last in the file, though nothing failed; `KeepsSession` holds all the same.
- `main.go:26`: only `os.Interrupt` is caught; SIGTERM, which a container or
  systemd sends (`README.md:351-352`), ends a daemon in mid-cycle.
- `main.go:503`: a policy renamed in the configuration leaves the one of the old
  name attached. `firewall.go:104`: a firewall the user has switched off stays off
  if its attachments agree. `client.go:165`: a created policy's id is 0 if the API
  answers 2xx without a body.

What the plan has left, in this order:

1. `RuleBuild`: the VPN, WireGuard and egress builders with their protocols and
   ports, against reference definitions.
2. `Daemon`: schedule, signals and shutdown, composed with `Credentials`.

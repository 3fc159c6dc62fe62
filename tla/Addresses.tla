------------------------------- MODULE Addresses -------------------------------
(***************************************************************************)
(* Public addresses and what is computed from them: what the echo server   *)
(* answers to a request that came through proxies (cmd/echo-server,        *)
(* internal/clientip), which answers the client accepts (internal/pubip),  *)
(* and the ranges the SSH rules open (internal/firewall/rules.go).         *)
(*                                                                         *)
(* An address is a number of as many bits as its family has; what decides  *)
(* whether it is usable, and its text form, are abstracted to its kind.    *)
(***************************************************************************)
EXTENDS Integers, Sequences

CONSTANTS
    Width,         \* bits of an address of each family
    KindOf,        \* what each address is for
    MinPrefixLen,  \* the shortest prefix a rule may have
    ProxyAddrs,    \* reverse proxies before the echo server, as it sees them
    EdgeAddrs,     \* Cloudflare's edge, towards the echo server
    PseudoIPv4     \* what Cloudflare sends in place of an IPv6 address

\* The number of values n bits have.
Pow2[n \in Nat] == IF n = 0 THEN 1 ELSE 2 * Pow2[n - 1]

Families == {"v4", "v6"}
Address == UNION {[fam : {f}, num : 0 .. (Pow2[Width[f]] - 1)] : f \in Families}
Kinds == {"public", "private", "special", "shared", "reserved"}

\* No address, and a lookup that failed.
None == [fam |-> "none", num |-> 0]
Failed == [fam |-> "failed", num |-> 0]
Results == Address \cup {None, Failed}

ASSUME WidthAssumption ==
    /\ Width \in [Families -> Nat]
    /\ MinPrefixLen \in Nat
    /\ \A f \in Families : MinPrefixLen <= Width[f]

\* A proxy may have an address of any kind; a pseudo address is one of
\* 240.0.0.0/4.
ASSUME AddressesAssumption ==
    /\ KindOf \in [Address -> Kinds]
    /\ ProxyAddrs \subseteq Address /\ EdgeAddrs \subseteq Address
    /\ PseudoIPv4 \in Address /\ PseudoIPv4.fam = "v4" /\ KindOf[PseudoIPv4] = "reserved"

------------------------------------------------------------------------------
(* The echo server.  The definitions that say "mistake" stand for plausible *)
(* bugs; mutation runs put them in the place of the ones that follow.       *)

Deployments == {"direct", "proxy", "bareproxy", "cloudflare", "pseudo"}

\* External: the headers a request from address a arrives with, and the address
\* of the peer.  A bare proxy forwards none.  With Pseudo IPv4 on, the edge
\* speaks IPv4 to the server and overwrites the client's IPv6 address.
Headers(deployment, a) ==
    CASE deployment = "direct" -> {[cf |-> None, cf6 |-> None, xff |-> None, remote |-> a]}
      [] deployment = "proxy" ->
            {[cf |-> None, cf6 |-> None, xff |-> a, remote |-> p] : p \in ProxyAddrs}
      [] deployment = "bareproxy" ->
            {[cf |-> None, cf6 |-> None, xff |-> None, remote |-> p] : p \in ProxyAddrs}
      [] deployment = "cloudflare" \/ (deployment = "pseudo" /\ a.fam = "v4") ->
            {[cf |-> a, cf6 |-> None, xff |-> a, remote |-> e] : e \in EdgeAddrs}
      [] OTHER ->
            {[cf |-> PseudoIPv4, cf6 |-> a, xff |-> PseudoIPv4, remote |-> e] :
                e \in {x \in EdgeAddrs : x.fam = "v4"}}

\* Mistake: the peer's address first.
CandidatesPeerFirst(h, want) ==
    IF want = "v6" THEN <<h.remote, h.cf6, h.cf, h.xff>> ELSE <<h.remote, h.cf, h.xff>>

Candidates(h, want) ==
    IF want = "v6" THEN <<h.cf6, h.cf, h.xff, h.remote>> ELSE <<h.cf, h.xff, h.remote>>

\* The first candidate that is an address of the wanted family.
FromRequest(h, want) ==
    LET c == Candidates(h, want)
        fits == {i \in DOMAIN c : c[i] # None /\ c[i].fam = want} IN
    IF fits = {} THEN None ELSE c[CHOOSE i \in fits : \A j \in fits : i <= j]

------------------------------------------------------------------------------
(* The client.                                                             *)

IsRoutablePublic(a) ==
    /\ KindOf[a] \notin {"special", "private"}
    /\ a.fam = "v4" => KindOf[a] \notin {"reserved", "shared"}

\* detectFamily: what becomes of an answer to a request over family f.
Accepted(a, f) == IF a # None /\ IsRoutablePublic(a) /\ a.fam = f THEN a ELSE Failed

------------------------------------------------------------------------------
(* Ranges.                                                                 *)

\* A prefix length of 0 means the default, a single host.
Bits(f, asked) == IF asked = 0 THEN Width[f] ELSE asked

\* Mistake: no guard against opening a large part of the internet.
ValidTyped(f, asked) == Bits(f, asked) <= Width[f]

ValidPrefix(f, asked) == MinPrefixLen <= Bits(f, asked) /\ Bits(f, asked) <= Width[f]

\* The number of addresses in a range.
Size(f, bits) == Pow2[Width[f] - bits]

\* maskToPrefix: the range of that length around an address.
Masked(a, asked) ==
    [fam |-> a.fam, bits |-> Bits(a.fam, asked),
     base |-> a.num - (a.num % Size(a.fam, Bits(a.fam, asked)))]

Covers(range, a) ==
    /\ a.fam = range.fam
    /\ range.base <= a.num /\ a.num < range.base + Size(range.fam, range.bits)
==============================================================================

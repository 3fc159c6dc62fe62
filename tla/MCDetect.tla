------------------------------- MODULE MCDetect -------------------------------
(***************************************************************************)
(* Small instances of Detect: IPv4 addresses of three bits, IPv6 addresses *)
(* of four, two of each for the connection, and one setup for every way to *)
(* the echo server, for DNS with and without a server of its own, and for  *)
(* prefixes at their limits.                                               *)
(***************************************************************************)
EXTENDS Detect, TLC

MCWidth == [f \in Families |-> IF f = "v4" THEN 3 ELSE 4]
V4(n) == [fam |-> "v4", num |-> n]
V6(n) == [fam |-> "v6", num |-> n]

MCHomes == {V4(1), V4(2), V6(2), V6(9)}
MCProxyAddrs == {V4(6), V6(5)}
MCLanAddrs == {V4(5)}
MCPseudoIPv4 == V4(7)
MCEdgeAddrs == {V4(3), V6(12)}
MCKindOf == [a \in Address |-> CASE a = V4(6) -> "private"
                                 [] a = V4(5) -> "shared"
                                 [] a = V4(7) -> "reserved"
                                 [] OTHER -> "public"]

Opts(source, given, mode, p4, p6) ==
    [source |-> source, echoURL |-> "echoURL" \in given, hostname |-> "hostname" \in given,
     server |-> "server" \in given, mode |-> mode,
     prefix |-> [f \in Families |-> IF f = "v4" THEN p4 ELSE p6]]
Nothing == Opts("", {}, "", 0, 0)

Setup(f, ed, fl, deployment) ==
    [file |-> f, edits |-> ed, flags |-> fl, deployment |-> deployment, agent |-> TRUE]

Echo(mode, p4, p6) == Opts("", {"echoURL"}, mode, p4, p6)
Dns(given, mode) == Opts("", {"hostname"} \cup given, mode, 0, 0)

MCSetups ==
    { Setup(Echo("", 0, 2), {}, Nothing, "direct"),
      Setup(Echo("dual", 0, 0), {}, Nothing, "cloudflare"),
      Setup(Echo("auto", 2, 3), {}, Nothing, "pseudo"),
      Setup(Nothing, {}, Echo("v6only", 0, 3), "proxy"),
      Setup(Echo("", 0, 0), {}, Nothing, "bareproxy"),
      Setup(Echo("auto", 0, 0), {}, Nothing, "bareproxy"),
      Setup(Echo("auto", 0, 1), {}, Nothing, "direct"),
      Setup(Dns({"server"}, ""), {}, Nothing, "direct"),
      Setup(Nothing, {}, Dns({}, "auto"), "direct"),
      Setup(Dns({}, "v4only"), {}, Opts("", {"echoURL"}, "", 0, 0), "direct"),
      Setup(Echo("v4only", 0, 0), {"hostname", "dns"}, Nothing, "direct"),
      [Setup(Echo("", 0, 0), {}, Nothing, "direct") EXCEPT !.agent = FALSE] }

EmptyFile == {Setup(Nothing, {"hostname"}, Nothing, "direct")}
==============================================================================

----------------------------- MODULE MCApplyCycle -----------------------------
(***************************************************************************)
(* Small instances of ApplyCycle: two interfaces, two addresses, two       *)
(* policies of the user's (the second with an egress rule).                *)
(***************************************************************************)
EXTENDS ApplyPromise, TLC

CONSTANTS i1, i2, a1, a2, r1

MCPolicyName ==
    [s \in Services |-> CASE s = "ssh" -> "ssh-autofirewall"
                          [] s = "cf" -> "cloudflare-https"
                          [] s = "wg" -> "wireguard"
                          [] s = "ovpn" -> "openvpn"
                          [] s = "egress" -> "egress-allow-all"]
MCNames == {MCPolicyName[s] : s \in Services} \cup {"web", "outbound"}

Web == [name |-> "web", sources |-> {}, egress |-> FALSE]
Outbound == [name |-> "outbound", sources |-> {}, egress |-> TRUE]
Ssh(a) == [name |-> "ssh-autofirewall", sources |-> {a}, egress |-> FALSE]
Wg(e) == [name |-> "wireguard", sources |-> {}, egress |-> e]
Allow == [name |-> "egress-allow-all", sources |-> {}, egress |-> TRUE]

Fw(user) == [user |-> user, copied |-> {}, active |-> TRUE]
FwOf(u1, u2) == (i1 :> Fw(u1)) @@ (i2 :> Fw(u2))

\* An account the tool has not touched, one it has run on before, and one on
\* which the VPN was used with egress rules.
Fresh == [policies |-> <<Web, Outbound>>, fw |-> FwOf({1}, {})]
Steady == [policies |-> <<Web, Outbound, Ssh(a1), Wg(FALSE)>>, fw |-> FwOf({1, 3, 4}, {3})]
WithEgress == [policies |-> <<Web, Outbound, Ssh(a1), Wg(TRUE), Allow>>,
               fw |-> FwOf({3, 4, 5}, {2, 3, 5})]

\* Every policy exists, but no interface is as the configurations want it: the
\* VPN's rules are without egress, the allowance is attached nowhere, one
\* interface lacks the SSH policy and the other has the VPN left over.
HalfSet == [policies |-> <<Web, Ssh(a1), Wg(FALSE), Allow>>,
            fw |-> FwOf({1, 3}, {2, 3})]

Conf(targets, on1, on2, mode, allow) ==
    [targets |-> targets, on |-> (i1 :> on1) @@ (i2 :> on2),
     vpnEgress |-> mode, allowAll |-> allow]

Plain == Conf(<<i1, i2>>, {}, {}, "auto", TRUE)
WgAuto == Conf(<<i1, i2>>, {"wg"}, {}, "auto", TRUE)
WgAlways == Conf(<<i2, i1>>, {"wg"}, {"cf"}, "always", TRUE)
WgCrossed == Conf(<<i2, i1>>, {"wg"}, {}, "always", TRUE)
OvpnNoAllow == Conf(<<i1>>, {"ovpn"}, {}, "always", FALSE)

FreshOnly == {Fresh}
SteadyOnly == {Steady}
WithEgressOnly == {WithEgress}
SingleRunConfigs == {WgAuto, WgAlways, OvpnNoAllow}
WgAutoOnly == {WgAuto}
HalfSetOnly == {HalfSet}
WgCrossedOnly == {WgCrossed}
PlainOnly == {Plain}
WgAlwaysOnly == {WgAlways}
==============================================================================

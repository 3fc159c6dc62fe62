----------------------------- MODULE DetectProofs -----------------------------
(***************************************************************************)
(* Proofs about Detect and the definitions of Addresses, for addresses of  *)
(* any number of bits, any setups, and any number of renewals, edits and   *)
(* failures.                                                               *)
(***************************************************************************)
EXTENDS Detect, WellFoundedInduction, TLAPS

------------------------------------------------------------------------------
(* Powers of two.  Their recursive definition says nothing until there is a *)
(* function that satisfies it; induction over a set of numbers shows that   *)
(* there is one.                                                           *)

LEMMA LeastElement ==
    ASSUME NEW T, T \subseteq Nat, T # {}
    PROVE  \E x \in T : \A y \in T : x <= y
  <1> DEFINE less == OpToRel(<, Nat)
  <1>1. IsWellFoundedOn(less, Nat)
    BY NatLessThanWellFounded
  <1>2. \A x, y \in Nat : <<y, x>> \in less <=> y < x
    BY DEF OpToRel
  <1> HIDE DEF less
  <1>3. PICK x \in T : \A y \in T : ~(<<y, x>> \in less)
    BY <1>1, WFMin
  <1>4. ASSUME NEW y \in T PROVE x <= y
    <2>1. x \in Nat /\ y \in Nat /\ <<y, x>> \notin less
      BY <1>3
    <2>2. ~(y < x)
      BY <2>1, <1>2
    <2> QED BY <2>1, <2>2
  <1> QED BY <1>4

LEMMA SetInduction ==
    ASSUME NEW A, 0 \in A, \A n \in Nat : n \in A => n + 1 \in A
    PROVE  Nat \subseteq A
  <1> SUFFICES ASSUME NEW x \in Nat, x \notin A PROVE FALSE
    OBVIOUS
  <1>1. PICK m \in Nat \ A : \A y \in Nat \ A : m <= y
    <2>1. Nat \ A \subseteq Nat /\ Nat \ A # {}
      OBVIOUS
    <2> QED BY <2>1, LeastElement
  <1>2. m # 0 /\ m - 1 \in Nat /\ m - 1 \in A
    BY <1>1
  <1> QED BY <1>1, <1>2

\* The lists of the first powers.
Powers(n) == {g \in [0 .. n -> Nat] : g[0] = 1 /\ \A i \in 1 .. n : g[i] = 2 * g[i - 1]}

LEMMA PowersExist == \A n \in Nat : Powers(n) # {}
  <1> DEFINE A == {n \in Nat : Powers(n) # {}}
  <1>1. 0 \in A
    <2>1. [i \in 0 .. 0 |-> 1] \in Powers(0)
      BY DEF Powers
    <2> QED BY <2>1
  <1>2. ASSUME NEW n \in Nat, n \in A PROVE n + 1 \in A
    <2>1. PICK g : g \in Powers(n)
      BY <1>2
    <2> DEFINE h == [i \in 0 .. n + 1 |-> IF i <= n THEN g[i] ELSE 2 * g[n]]
    <2>2. g \in [0 .. n -> Nat] /\ g[0] = 1 /\ \A i \in 1 .. n : g[i] = 2 * g[i - 1]
      BY <2>1 DEF Powers
    <2>3. h \in [0 .. n + 1 -> Nat] /\ h[0] = 1
      BY <2>2
    <2>4. \A i \in 1 .. n + 1 : h[i] = 2 * h[i - 1]
      BY <2>2
    <2>5. h \in Powers(n + 1)
      BY <2>3, <2>4 DEF Powers
    <2> QED BY <2>5
  <1> HIDE DEF A
  <1>3. Nat \subseteq A
    BY <1>1, <1>2, SetInduction
  <1> QED BY <1>3 DEF A

LEMMA PowersAgree ==
    ASSUME NEW n \in Nat, NEW m \in Nat, n <= m, NEW g \in Powers(n), NEW h \in Powers(m)
    PROVE  \A i \in 0 .. n : g[i] = h[i]
  <1> DEFINE A == {i \in Nat : i \in 0 .. n => g[i] = h[i]}
  <1>1. 0 \in A
    BY DEF Powers
  <1>2. ASSUME NEW i \in Nat, i \in A PROVE i + 1 \in A
    BY <1>2 DEF Powers
  <1> HIDE DEF A
  <1>3. Nat \subseteq A
    BY <1>1, <1>2, SetInduction
  <1> QED BY <1>3 DEF A

LEMMA Pow2Recursion == Pow2 = [n \in Nat |-> IF n = 0 THEN 1 ELSE 2 * Pow2[n - 1]]
  <1> DEFINE list(n) == CHOOSE g : g \in Powers(n)
             pow == [n \in Nat |-> list(n)[n]]
  <1>1. \A n \in Nat : list(n) \in Powers(n)
    BY PowersExist
  <1> HIDE DEF list
  <1>2. ASSUME NEW n \in Nat, n # 0 PROVE pow[n] = 2 * pow[n - 1]
    <2>1. n - 1 \in Nat /\ list(n) \in Powers(n) /\ list(n - 1) \in Powers(n - 1)
      BY <1>1, <1>2
    <2>2. list(n)[n] = 2 * list(n)[n - 1]
      BY <1>2, <2>1 DEF Powers
    <2>3. list(n)[n - 1] = list(n - 1)[n - 1]
      BY <2>1, <1>2, PowersAgree
    <2> QED BY <2>1, <2>2, <2>3
  <1>3. pow[0] = 1
    BY <1>1 DEF Powers
  <1>4. pow = [n \in Nat |-> IF n = 0 THEN 1 ELSE 2 * pow[n - 1]]
    BY <1>2, <1>3
  <1> HIDE DEF pow
  <1> QED BY <1>4 DEF Pow2

LEMMA Pow2Step == Pow2[0] = 1 /\ \A n \in Nat : Pow2[n + 1] = 2 * Pow2[n]
  <1>1. \A n \in Nat : Pow2[n] = IF n = 0 THEN 1 ELSE 2 * Pow2[n - 1]
    BY Pow2Recursion
  <1> QED BY <1>1

LEMMA Pow2Type == \A n \in Nat : Pow2[n] \in Nat \ {0}
  <1> DEFINE A == {n \in Nat : Pow2[n] \in Nat \ {0}}
  <1>1. 0 \in A
    BY Pow2Step
  <1>2. ASSUME NEW n \in Nat, n \in A PROVE n + 1 \in A
    BY <1>2, Pow2Step
  <1> HIDE DEF A
  <1>3. Nat \subseteq A
    BY <1>1, <1>2, SetInduction
  <1> QED BY <1>3 DEF A

LEMMA Pow2Grows ==
    ASSUME NEW m \in Nat, NEW n \in Nat, m <= n
    PROVE  Pow2[m] <= Pow2[n]
  <1> DEFINE A == {k \in Nat : Pow2[m] <= Pow2[m + k]}
  <1>1. 0 \in A
    BY Pow2Type
  <1>2. ASSUME NEW k \in Nat, k \in A PROVE k + 1 \in A
    <2>1. m + k \in Nat /\ m + (k + 1) = (m + k) + 1
      OBVIOUS
    <2>2. Pow2[m + (k + 1)] = 2 * Pow2[m + k]
      BY <2>1, Pow2Step
    <2>3. Pow2[m] \in Nat /\ Pow2[m + k] \in Nat
      BY <2>1, Pow2Type
    <2> QED BY <1>2, <2>2, <2>3
  <1> HIDE DEF A
  <1>3. Nat \subseteq A
    BY <1>1, <1>2, SetInduction
  <1>4. n - m \in A
    BY <1>3
  <1> QED BY <1>4 DEF A

------------------------------------------------------------------------------
(* Addresses and ranges.                                                   *)

LEMMA AddressParts ==
    \A a \in Address : a.fam \in Families /\ a.num \in Nat /\ a # None /\ a # Failed
  BY DEF Address, Families, None, Failed

LEMMA NoAddress == None \notin Address /\ Failed \notin Address
  BY AddressParts

\* A candidate that fits, with none before it that does, is the answer.
LEMMA FirstFits ==
    ASSUME NEW h, NEW want, NEW i \in DOMAIN Candidates(h, want),
           DOMAIN Candidates(h, want) \subseteq Nat,
           Candidates(h, want)[i] # None, Candidates(h, want)[i].fam = want,
           \A j \in DOMAIN Candidates(h, want) : j < i =>
               Candidates(h, want)[j] = None \/ Candidates(h, want)[j].fam # want
    PROVE  FromRequest(h, want) = Candidates(h, want)[i]
  <1> DEFINE c == Candidates(h, want)
             fits == {k \in DOMAIN c : c[k] # None /\ c[k].fam = want}
  <1>1. i \in fits /\ \A j \in fits : i <= j
    OBVIOUS
  <1>2. (CHOOSE k \in fits : \A j \in fits : k <= j) = i
    <2>1. \A k \in fits : (\A j \in fits : k <= j) => k = i
      BY <1>1
    <2> HIDE DEF fits, c
    <2> QED BY <1>1, <2>1
  <1>3. FromRequest(h, want) = IF fits = {} THEN None ELSE c[CHOOSE k \in fits : \A j \in fits : k <= j]
    BY DEF FromRequest
  <1> QED BY <1>1, <1>2, <1>3

\* Without a candidate that fits, the server answers that it knows none.
LEMMA NoneFits ==
    ASSUME NEW h, NEW want,
           \A j \in DOMAIN Candidates(h, want) :
               Candidates(h, want)[j] = None \/ Candidates(h, want)[j].fam # want
    PROVE  FromRequest(h, want) = None
  BY DEF FromRequest

\* Whatever stands between a client and the echo server, the client accepts its
\* own address or none, never that of an edge nor a pseudo address, with one
\* exception: the peer's address, if that is a proxy which forwards no header and
\* is itself on the public internet.
THEOREM EchoTruth ==
    ASSUME NEW a \in Address, NEW deployment \in Deployments,
           NEW h \in Headers(deployment, a)
    PROVE  LET r == Accepted(FromRequest(h, a.fam), a.fam) IN
           \/ r \in {a, Failed}
           \/ /\ deployment = "bareproxy" /\ h.remote \in ProxyAddrs
              /\ r = h.remote /\ r.fam = a.fam /\ IsRoutablePublic(r)
  <1> DEFINE c == Candidates(h, a.fam)
  <1>0. a.fam \in Families /\ a # None
    BY AddressParts
  <1>1. CASE FromRequest(h, a.fam) \in {a, None}
    BY <1>1 DEF Accepted
  <1>2. CASE deployment = "direct"
    <2>1. h = [cf |-> None, cf6 |-> None, xff |-> None, remote |-> a]
      BY <1>2 DEF Headers
    <2>2. CASE a.fam = "v4"
      <3>1. c = <<None, None, a>>
        BY <2>1, <2>2 DEF Candidates
      <3>2. FromRequest(h, a.fam) = c[3]
        BY <1>0, <3>1, FirstFits
      <3> QED BY <1>1, <3>1, <3>2
    <2>3. CASE a.fam = "v6"
      <3>1. c = <<None, None, None, a>>
        BY <2>1, <2>3 DEF Candidates
      <3>2. FromRequest(h, a.fam) = c[4]
        BY <1>0, <3>1, FirstFits
      <3> QED BY <1>1, <3>1, <3>2
    <2> QED BY <1>0, <2>2, <2>3 DEF Families
  <1>3. CASE deployment = "proxy"
    <2>1. PICK p \in ProxyAddrs : h = [cf |-> None, cf6 |-> None, xff |-> a, remote |-> p]
      BY <1>3 DEF Headers
    <2>2. CASE a.fam = "v4"
      <3>1. c = <<None, a, p>>
        BY <2>1, <2>2 DEF Candidates
      <3>2. FromRequest(h, a.fam) = c[2]
        BY <1>0, <3>1, FirstFits
      <3> QED BY <1>1, <3>1, <3>2
    <2>3. CASE a.fam = "v6"
      <3>1. c = <<None, None, a, p>>
        BY <2>1, <2>3 DEF Candidates
      <3>2. FromRequest(h, a.fam) = c[3]
        BY <1>0, <3>1, FirstFits
      <3> QED BY <1>1, <3>1, <3>2
    <2> QED BY <1>0, <2>2, <2>3 DEF Families
  <1>4. CASE deployment = "bareproxy"
    <2>1. PICK p \in ProxyAddrs : h = [cf |-> None, cf6 |-> None, xff |-> None, remote |-> p]
      BY <1>4 DEF Headers
    <2>2. \A i \in DOMAIN c : c[i] \in {None, p}
      BY <2>1 DEF Candidates
    <2>3. FromRequest(h, a.fam) \in {None, p}
      <3>0. p # None
        BY AddressesAssumption, AddressParts
      <3>1. CASE p.fam = a.fam /\ a.fam = "v4"
        <4>1. c = <<None, None, p>>
          BY <2>1, <3>1 DEF Candidates
        <4>2. FromRequest(h, a.fam) = c[3]
          BY <3>0, <3>1, <4>1, FirstFits
        <4> QED BY <4>1, <4>2
      <3>2. CASE p.fam = a.fam /\ a.fam = "v6"
        <4>1. c = <<None, None, None, p>>
          BY <2>1, <3>2 DEF Candidates
        <4>2. FromRequest(h, a.fam) = c[4]
          BY <3>0, <3>2, <4>1, FirstFits
        <4> QED BY <4>1, <4>2
      <3>3. CASE p.fam # a.fam
        BY <2>2, <3>3, NoneFits
      <3> QED BY <1>0, <3>1, <3>2, <3>3 DEF Families
    <2>4. h.remote = p
      BY <2>1
    <2> QED BY <1>4, <2>3, <2>4 DEF Accepted
  <1>5. CASE deployment = "cloudflare" \/ (deployment = "pseudo" /\ a.fam = "v4")
    <2>1. PICK e \in EdgeAddrs : h = [cf |-> a, cf6 |-> None, xff |-> a, remote |-> e]
      BY <1>5 DEF Headers
    <2>2. CASE a.fam = "v4"
      <3>1. c = <<a, a, e>>
        BY <2>1, <2>2 DEF Candidates
      <3>2. FromRequest(h, a.fam) = c[1]
        BY <1>0, <3>1, FirstFits
      <3> QED BY <1>1, <3>1, <3>2
    <2>3. CASE a.fam = "v6"
      <3>1. c = <<None, a, a, e>>
        BY <2>1, <2>3 DEF Candidates
      <3>2. FromRequest(h, a.fam) = c[2]
        BY <1>0, <3>1, FirstFits
      <3> QED BY <1>1, <3>1, <3>2
    <2> QED BY <1>0, <2>2, <2>3 DEF Families
  <1>6. CASE deployment = "pseudo" /\ a.fam = "v6"
    <2>1. PICK e : h = [cf |-> PseudoIPv4, cf6 |-> a, xff |-> PseudoIPv4, remote |-> e]
      BY <1>6 DEF Headers
    <2>2. c = <<a, PseudoIPv4, PseudoIPv4, e>>
      BY <2>1, <1>6 DEF Candidates
    <2>3. FromRequest(h, a.fam) = c[1]
      BY <1>0, <2>2, FirstFits
    <2> QED BY <1>1, <2>2, <2>3
  <1> QED BY <1>0, <1>2, <1>3, <1>4, <1>5, <1>6 DEF Deployments, Families

LEMMA Division ==
    ASSUME NEW n \in Nat, NEW d \in Nat \ {0}
    PROVE  /\ n \div d \in Int
           /\ n % d \in 0 .. d - 1
           /\ n % d <= n
           /\ n = d * (n \div d) + (n % d)
  <1>1. n \div d \in Int
    OBVIOUS
  <1>2. n % d \in 0 .. d - 1
    OBVIOUS
  <1>3. n % d <= n
    OBVIOUS
  <1>4. n = d * (n \div d) + (n % d)
    OBVIOUS
  <1> QED BY <1>1, <1>2, <1>3, <1>4

LEMMA NoMultipleBetween ==
    ASSUME NEW d \in Nat \ {0}, NEW k \in Int, 0 <= d * k, d * k < d
    PROVE  k = 0
  <1>1. k > 0 => d * k >= d
    OBVIOUS
  <1>2. k < 0 => d * k < 0
    OBVIOUS
  <1> QED BY <1>1, <1>2

LEMMA MultipleRem ==
    ASSUME NEW d \in Nat \ {0}, NEW q \in Int, NEW m \in Nat, m = d * q
    PROVE  m % d = 0
  <1>1. PICK p \in Int, s \in 0 .. d - 1 : p = m \div d /\ s = m % d
    <2>1. m \div d \in Int /\ m % d \in 0 .. d - 1
      BY Division
    <2> QED BY <2>1
  <1>2. m = d * p + s
    BY <1>1, Division
  <1>3. s = d * (q - p)
    BY <1>2
  <1>4. q - p = 0
    BY <1>3, NoMultipleBetween
  <1> QED BY <1>1, <1>3, <1>4

\* A remainder is smaller than its divisor and no larger than the number; what
\* is left without it is a multiple.
LEMMA CutToMultiple ==
    ASSUME NEW n \in Nat, NEW d \in Nat \ {0}
    PROVE  /\ n - (n % d) \in Nat
           /\ n - (n % d) <= n /\ n < n - (n % d) + d
           /\ (n - (n % d)) % d = 0
  <1>1. PICK q \in Int, r \in 0 .. d - 1 : q = n \div d /\ r = n % d
    <2>1. n \div d \in Int /\ n % d \in 0 .. d - 1
      BY Division
    <2> QED BY <2>1
  <1>2. n = d * q + r /\ r <= n
    BY <1>1, Division
  <1>3. n - r \in Nat /\ n - r = d * q
    BY <1>2
  <1>4. (n - r) % d = 0
    BY <1>3, MultipleRem
  <1> QED BY <1>1, <1>2, <1>3, <1>4

\* The range a rule opens for an address, when the prefix length is accepted,
\* contains the address, starts where such a range may, and is no larger than
\* one of the shortest accepted length.
THEOREM MaskedRange ==
    ASSUME NEW a \in Address, NEW asked \in Nat, ValidPrefix(a.fam, asked)
    PROVE  LET range == Masked(a, asked) IN
           /\ range \in Ranges
           /\ Covers(range, a)
           /\ Size(range.fam, range.bits) <= Size(range.fam, MinPrefixLen)
           /\ range.base % Size(range.fam, range.bits) = 0
  <1> DEFINE bits == Bits(a.fam, asked)
             size == Size(a.fam, bits)
             base == a.num - (a.num % size)
  <1>1. a.fam \in Families /\ a.num \in Nat
    BY AddressParts
  <1>2. Width[a.fam] \in Nat /\ MinPrefixLen \in Nat /\ bits \in Nat
    BY <1>1, WidthAssumption DEF Bits
  <1>3. MinPrefixLen <= bits /\ bits <= Width[a.fam]
    BY DEF ValidPrefix
  <1>4. size \in Nat \ {0}
    <2>1. Width[a.fam] - bits \in Nat
      BY <1>2, <1>3
    <2> QED BY <2>1, Pow2Type DEF Size
  <1>5. size <= Size(a.fam, MinPrefixLen)
    <2>1. /\ Width[a.fam] - bits \in Nat /\ Width[a.fam] - MinPrefixLen \in Nat
          /\ Width[a.fam] - bits <= Width[a.fam] - MinPrefixLen
      BY <1>2, <1>3
    <2> QED BY <2>1, Pow2Grows DEF Size
  <1>6. Masked(a, asked) = [fam |-> a.fam, bits |-> bits, base |-> base]
    BY DEF Masked
  <1>7. base \in Nat /\ base <= a.num /\ a.num < base + size /\ base % size = 0
    <2> HIDE DEF size
    <2> QED BY <1>1, <1>4, CutToMultiple
  <1> HIDE DEF bits, size, base
  <1>8. Masked(a, asked) \in Ranges
    BY <1>1, <1>2, <1>6, <1>7 DEF Ranges
  <1>9. Covers(Masked(a, asked), a)
    BY <1>6, <1>7 DEF Covers, size
  <1> QED BY <1>5, <1>6, <1>7, <1>8, <1>9 DEF size

------------------------------------------------------------------------------
(* Options.                                                                *)

LEMMA NoRunTyped == NoRun \in Options
  BY DEF NoRun, Options, Families

LEMMA SetupParts ==
    ASSUME NEW s \in Setups
    PROVE  s.file \in Options /\ s.flags \in Options /\ s.deployment \in Deployments
  BY SetupsAssumption

LEMMA Defaults ==
    ASSUME NEW c \in Options
    PROVE  /\ WithDefaults(c) \in Options
           /\ WithDefaults(c).source # "" /\ WithDefaults(c).mode # ""
           /\ c.source # "" /\ c.mode # "" => WithDefaults(c) = c
  BY DEF WithDefaults, Options

LEMMA OverriddenTyped ==
    ASSUME NEW c \in Options, NEW fl \in Options
    PROVE  /\ Overridden(c, fl) \in Options
           /\ c.source # "" /\ c.mode # "" =>
                  Overridden(c, fl).source # "" /\ Overridden(c, fl).mode # ""
  <1>1. [f \in Families |-> IF fl.prefix[f] # 0 THEN fl.prefix[f] ELSE c.prefix[f]]
            \in [Families -> Nat]
    BY DEF Options
  <1> QED BY <1>1 DEF Overridden, Options

\* A run's options are complete.
LEMMA ResolvedTyped ==
    ASSUME NEW c \in Options, NEW fl \in Options
    PROVE  /\ ResolveConfig(c, fl) \in Options
           /\ ResolveConfig(c, fl).source # "" /\ ResolveConfig(c, fl).mode # ""
  BY Defaults, OverriddenTyped DEF ResolveConfig

\* Flags that are part of the options already change nothing more, nor do flags
\* that are not given.
LEMMA OverriddenTwice ==
    ASSUME NEW c \in Options, NEW fl \in Options
    PROVE  Overridden(Overridden(c, fl), fl) = Overridden(c, fl)
  <1> DEFINE p == [f \in Families |-> IF fl.prefix[f] # 0 THEN fl.prefix[f] ELSE c.prefix[f]]
             q == [f \in Families |-> IF fl.prefix[f] # 0 THEN fl.prefix[f] ELSE p[f]]
  <1>1. p = q
    OBVIOUS
  <1>2. Overridden(c, fl).prefix = p /\ Overridden(Overridden(c, fl), fl).prefix = q
    BY DEF Overridden
  <1> HIDE DEF p, q
  <1> QED BY <1>1, <1>2 DEF Overridden, Options

LEMMA OverriddenNot ==
    ASSUME NEW c \in Options
    PROVE  Overridden(c, NoRun) = c
  <1>1. [f \in Families |-> IF NoRun.prefix[f] # 0 THEN NoRun.prefix[f] ELSE c.prefix[f]] = c.prefix
    BY DEF NoRun, Options
  <1> QED BY <1>1 DEF Overridden, NoRun, Options

\* What a run works with does not change when it is saved and loaded again by a
\* run with the same flags; nor does saving a file with its defaults matter.
THEOREM SavedOptions ==
    ASSUME NEW c \in Options, NEW fl \in Options
    PROVE  /\ ResolveConfig(ResolveConfig(c, fl), fl) = ResolveConfig(c, fl)
           /\ ResolveConfig(ResolveConfig(c, NoRun), fl) = ResolveConfig(c, fl)
  <1>1. WithDefaults(ResolveConfig(c, fl)) = ResolveConfig(c, fl)
    BY ResolvedTyped, Defaults
  <1>2. WithDefaults(c) \in Options
    BY Defaults
  <1>3. ResolveConfig(c, NoRun) = WithDefaults(c)
    BY <1>2, OverriddenNot DEF ResolveConfig
  <1>4. WithDefaults(WithDefaults(c)) = WithDefaults(c)
    BY <1>2, Defaults
  <1> QED BY <1>1, <1>2, <1>3, <1>4, OverriddenTwice DEF ResolveConfig

------------------------------------------------------------------------------
(* Lookups.                                                                *)

\* A source stands for addresses the connection has or had.
LEMMA StandsForHomes ==
    ASSUME TypeOK, NEW c
    PROVE  StandsFor(c) \subseteq Homes
  BY DEF StandsFor, Published, TypeOK

\* What a lookup finds its source stands for, unless a proxy misled it, and it is
\* of the family asked for.
LEMMA LookupFinds ==
    ASSUME TypeOK, DetectInv, NEW f \in Families, NEW r \in Lookups(cfg, f)
    PROVE  /\ r \in Results
           /\ r \in Address => r.fam = f /\ (r \in StandsFor(cfg) \/ Misled(cfg, f))
  <1>1. CASE cfg.source = "dns"
    <2>1. CASE r = None
      BY <2>1, NoAddress DEF Results
    <2>2. CASE r \in Published(cfg, f) /\ IsRoutablePublic(r)
      <3>1. r \in record[f] \cup cache[f] /\ r \in Homes \cup LanAddrs
        BY <2>2 DEF Published, TypeOK
      <3>2. r \notin LanAddrs /\ r \in Address
        BY <2>2, <3>1, LanAssumption, HomesAssumption
      <3>3. r.fam = f
        BY <3>1 DEF DetectInv
      <3>4. r \in StandsFor(cfg)
        BY <1>1, <2>2, <3>2 DEF StandsFor
      <3> QED BY <3>2, <3>3, <3>4 DEF Results
    <2> QED BY <1>1, <2>1, <2>2 DEF Lookups
  <1>2. CASE r = Failed
    BY <1>2, NoAddress DEF Results
  <1>3. CASE cfg.source # "dns" /\ conn[f] # None /\ r \in {Accepted(a, f) : a \in EchoAnswers(f)}
    <2>1. conn[f] \in Homes /\ conn[f] \in Address
      BY <1>3, HomesAssumption DEF TypeOK
    <2>2. conn[f].fam = f
      BY <2>1, AddressParts DEF DetectInv, Families
    <2>3. \/ r \in {conn[f], Failed}
          \/ /\ setup.deployment = "bareproxy" /\ r \in ProxyAddrs
             /\ r.fam = f /\ IsRoutablePublic(r)
      <3>1. PICK a \in EchoAnswers(f) : r = Accepted(a, f)
        BY <1>3
      <3>2. CASE setup.agent
        <4>1. PICK h \in Headers(setup.deployment, conn[f]) : a = FromRequest(h, f)
          BY <3>1, <3>2 DEF EchoAnswers
        <4>2. setup.deployment \in Deployments
          BY SetupParts DEF TypeOK
        <4> QED BY <2>1, <2>2, <3>1, <4>1, <4>2, EchoTruth
      <3>3. CASE ~setup.agent
        BY <3>1, <3>3 DEF EchoAnswers, Accepted
      <3> QED BY <3>2, <3>3
    <2>4. conn[f] \in StandsFor(cfg)
      BY <1>3 DEF StandsFor
    <2>5. CASE r \in {conn[f], Failed}
      BY <2>1, <2>2, <2>4, <2>5, NoAddress DEF Results
    <2>6. CASE /\ setup.deployment = "bareproxy" /\ r \in ProxyAddrs
               /\ r.fam = f /\ IsRoutablePublic(r)
      BY <1>3, <2>6, AddressesAssumption DEF Results, Misled
    <2> QED BY <2>3, <2>5, <2>6
  <1> QED BY <1>1, <1>2, <1>3 DEF Lookups

------------------------------------------------------------------------------
(* The invariant.                                                          *)

Inv == TypeOK /\ DetectInv /\ NeverTooWide

LEMMA InvInit == Init => Inv
  <1> SUFFICES ASSUME Init PROVE Inv
    OBVIOUS
  <1>1. setup \in Setups /\ file \in Options /\ wrote \subseteq Given
    BY SetupParts DEF Init
  <1>2. conn \in [Families -> Homes \cup {None}] /\ \A f \in Families : conn[f].fam \in {f, "none"}
    BY DEF Init
  <1>3. \A f \in Families : \A a \in record[f] \cup cache[f] : a = conn[f] /\ a \in Homes
    BY <1>2 DEF Init
  <1>4. \A f \in Families : \A a \in record[f] \cup cache[f] : a.fam = f
    BY <1>2, <1>3, HomesAssumption, AddressParts DEF Families
  <1>5. record \in [Families -> SUBSET (Homes \cup LanAddrs)] /\ cache = record
    BY <1>3 DEF Init
  <1>6. res \in [Families -> Results] /\ \A f \in Families : res[f] = None
    BY DEF Init, NoResults, Results
  <1>7. /\ at = "idle" /\ cfg = NoRun /\ cfg.mode = "" /\ res = NoResults /\ recent = {} /\ rules = {}
    BY DEF Init, NoRun
  <1>8. TypeOK
    <2>1. cfg \in Options /\ cfg.mode \notin {"v4only", "v6only"}
      BY <1>7, NoRunTyped
    <2>2. renewals \in 0 .. MaxRenewals /\ edits \in 0 .. MaxEdits /\ faults \in 0 .. MaxFaults
      <3>1. renewals = 0 /\ edits = 0 /\ faults = 0
        BY DEF Init
      <3>2. \A n \in Nat : 0 \in 0 .. n
        OBVIOUS
      <3> QED BY <3>1, <3>2, BoundsAssumption
    <2>3. recent \subseteq Homes /\ rules \subseteq Ranges /\ at \in Families \cup {"idle", "found"}
      BY <1>7
    <2>4. cache \in [Families -> SUBSET (Homes \cup LanAddrs)]
      BY <1>5
    <2> QED BY <1>1, <1>2, <1>5, <1>6, <2>1, <2>2, <2>3, <2>4 DEF TypeOK
  <1>9. DetectInv
    BY <1>2, <1>4, <1>6, <1>7, NoAddress DEF DetectInv
  <1> QED BY <1>7, <1>8, <1>9 DEF Inv, NeverTooWide

\* The ranges a run writes.
LEMMA NewRules ==
    ASSUME Inv, Builds(cfg, res), NEW range \in SSHRules(cfg, res)
    PROVE  /\ range \in Ranges
           /\ Size(range.fam, range.bits) <= Size(range.fam, MinPrefixLen)
           /\ range.base % Size(range.fam, range.bits) = 0
           /\ \E f \in Found(res) : range = Masked(res[f], cfg.prefix[f]) /\ Covers(range, res[f])
  <1>1. PICK f \in Found(res) : range = Masked(res[f], cfg.prefix[f])
    BY DEF SSHRules
  <1>2. res[f] \in Address /\ res[f].fam = f
    BY DEF Found, Inv, DetectInv
  <1>3. cfg.prefix[f] \in Nat
    BY DEF Inv, TypeOK, Options, Found
  <1>4. ValidPrefix(res[f].fam, cfg.prefix[f])
    BY <1>2 DEF Builds
  <1> QED BY <1>1, <1>2, <1>3, <1>4, MaskedRange

\* Why a run that ends leaves the invariant.
LEMMA EndRunInv ==
    ASSUME Inv, EndRun, UNCHANGED <<setup, file, wrote, conn, record, cache>>,
           rules' \subseteq Ranges,
           UNCHANGED <<renewals, edits>>, faults' \in 0 .. MaxFaults
    PROVE  TypeOK' /\ DetectInv'
  <1>1. cfg' \in Options
    BY NoRunTyped DEF EndRun
  <1>2. res' \in [Families -> Results] /\ \A f \in Families : res'[f] = None
    BY DEF EndRun, NoResults, Results
  <1>3. TypeOK'
    BY <1>1, <1>2 DEF Inv, TypeOK, EndRun, NoRun, Families
  <1>4. DetectInv'
    BY <1>2, NoAddress DEF Inv, DetectInv, EndRun
  <1> QED BY <1>3, <1>4

\* Changes of the connection and of what DNS publishes while a run goes on.
LEMMA WorldInv ==
    ASSUME Inv, Remember, UNCHANGED <<setup, file, wrote, at, cfg, res, rules, edits, faults>>,
           renewals' \in 0 .. MaxRenewals,
           conn' \in [Families -> Homes \cup {None}],
           record' \in [Families -> SUBSET (Homes \cup LanAddrs)],
           cache' \in [Families -> SUBSET (Homes \cup LanAddrs)],
           \A f \in Families : conn'[f].fam \in {f, "none"},
           \A f \in Families : \A a \in record'[f] \cup cache'[f] : a.fam = f
    PROVE  Inv'
  <1>1. StandsFor(cfg)' \subseteq Homes
    BY DEF StandsFor, Published
  <1>2. recent' \subseteq Homes
    BY <1>1 DEF Inv, TypeOK, Remember
  <1>3. TypeOK'
    BY <1>2 DEF Inv, TypeOK
  <1>4. at # "idle" => recent \subseteq recent' /\ StandsFor(cfg)' \subseteq recent'
    BY DEF Remember
  <1>5. at = "idle" => recent' = {} /\ res' = NoResults
    BY DEF Remember, Inv, DetectInv
  <1>6. \A f \in Families : res'[f] \in Address =>
            res'[f].fam = f /\ (res'[f] \in recent' \/ Misled(cfg, f))
    BY <1>4, <1>5, NoAddress DEF Inv, DetectInv, NoResults
  <1>7. ResolveConfig(cfg, setup.flags)' = ResolveConfig(cfg, setup.flags)
    BY DEF ResolveConfig, WithDefaults, Overridden
  <1>8. DetectInv'
    <2>1. \A f \in Families : Misled(cfg, f)' = Misled(cfg, f)
      BY DEF Misled
    <2> QED BY <1>4, <1>5, <1>6, <1>7, <2>1 DEF Inv, DetectInv
  <1>9. NeverTooWide'
    BY DEF Inv, NeverTooWide
  <1> QED BY <1>3, <1>8, <1>9 DEF Inv

LEMMA FaultTyped == ASSUME TypeOK, Fault PROVE faults' \in 0 .. MaxFaults
  BY BoundsAssumption DEF TypeOK, Fault

\* A lookup that gave an address its source stands for, or none.
LEMMA LookupInv ==
    ASSUME Inv, NEW f \in Families, at = f, NEW r \in Results,
           r \in Address => r.fam = f /\ (r \in StandsFor(cfg) \/ Misled(cfg, f)),
           res' = [res EXCEPT ![f] = r], at' = NextFamily(f),
           UNCHANGED <<userVars, worldVars, cfg, recent, rules, renewals, edits>>,
           faults' \in 0 .. MaxFaults
    PROVE  Inv'
  <1>0. /\ UNCHANGED <<setup, file, wrote, conn, record, cache>>
        /\ res' = [res EXCEPT ![f] = r]
    BY DEF userVars, worldVars
  <1>1. at # "idle" /\ at' \in {"v6", "found"}
    BY DEF NextFamily, Families
  <1>2. res' \in [Families -> Results]
    BY <1>0 DEF Inv, TypeOK
  <1>3. cfg.mode = "v4only" => at' # "v6" /\ res'["v6"] = None
    <2>1. SUFFICES ASSUME cfg.mode = "v4only" PROVE at' # "v6" /\ res'["v6"] = None
      OBVIOUS
    <2>2. f = "v4" /\ res["v6"] = None
      BY <2>1 DEF Inv, TypeOK, Families
    <2>3. at' # "v6"
      BY <2>1 DEF NextFamily, Wants
    <2> QED BY <2>2, <2>3 DEF Inv, TypeOK, Families
  <1>4. cfg.mode = "v6only" => at' # "v4" /\ res'["v4"] = None
    <2>1. SUFFICES ASSUME cfg.mode = "v6only" PROVE at' # "v4" /\ res'["v4"] = None
      OBVIOUS
    <2>2. f = "v6" /\ res["v4"] = None
      BY <2>1 DEF Inv, TypeOK, Families
    <2> QED BY <1>1, <2>2 DEF Inv, TypeOK, Families
  <1>5. TypeOK'
    <2>1. cfg' = cfg /\ recent' = recent /\ rules' = rules /\ renewals' = renewals /\ edits' = edits
      OBVIOUS
    <2>2. at' \in Families \cup {"idle", "found"}
      BY <1>1 DEF Families
    <2> QED BY <1>0, <1>2, <1>3, <1>4, <2>1, <2>2 DEF Inv, TypeOK
  <1>6. \A g \in Families : res'[g] \in Address =>
            res'[g].fam = g /\ (res'[g] \in recent \/ Misled(cfg, g))
    <2>1. ASSUME NEW g \in Families, g # f, res'[g] \in Address
          PROVE  res'[g].fam = g /\ (res'[g] \in recent \/ Misled(cfg, g))
      <3>1. res \in [Families -> Results]
        BY DEF Inv, TypeOK
      <3>2. res'[g] = res[g]
        BY <1>0, <2>1, <3>1
      <3>3. res[g] \in Address => res[g].fam = g /\ (res[g] \in recent \/ Misled(cfg, g))
        BY DEF Inv, DetectInv
      <3> QED BY <2>1, <3>2, <3>3
    <2>2. r \in Address => r \in recent \/ Misled(cfg, f)
      BY <1>1 DEF Inv, DetectInv
    <2>3. res'[f] = r
      BY DEF Inv, TypeOK
    <2> QED BY <2>1, <2>2, <2>3
  <1>7. StandsFor(cfg)' = StandsFor(cfg)
    BY <1>0 DEF StandsFor, Published
  <1>8. ResolveConfig(cfg, setup.flags)' = ResolveConfig(cfg, setup.flags)
    BY <1>0 DEF ResolveConfig, WithDefaults, Overridden
  <1>9. DetectInv'
    <2>1. \A g \in Families :
            /\ conn'[g].fam \in {g, "none"}
            /\ \A a \in record'[g] \cup cache'[g] : a.fam = g
      BY <1>0 DEF Inv, DetectInv
    <2>2. cfg'.mode # "" /\ StandsFor(cfg)' \subseteq recent'
      <3>1. cfg.mode # "" /\ StandsFor(cfg) \subseteq recent
        BY <1>1 DEF Inv, DetectInv
      <3>2. cfg' = cfg /\ recent' = recent
        OBVIOUS
      <3> QED BY <1>7, <3>1, <3>2
    <2>3. ResolveConfig(cfg, setup.flags)' = cfg'
      BY <1>1, <1>8 DEF Inv, DetectInv
    <2>4. at' # "idle" /\ recent' = recent
      BY <1>1
    <2>5. \A g \in Families : Misled(cfg, g)' = Misled(cfg, g)
      BY <1>0 DEF Misled
    <2> QED BY <1>6, <2>1, <2>2, <2>3, <2>4, <2>5 DEF DetectInv
  <1>10. NeverTooWide'
    BY <1>0 DEF Inv, NeverTooWide
  <1> QED BY <1>5, <1>9, <1>10 DEF Inv

\* The file changes, the run that goes on and the world do not.
LEMMA FileInv ==
    ASSUME Inv, file' \in Options, wrote' \subseteq Given,
           UNCHANGED <<setup, worldVars, runVars, rules, renewals, faults>>,
           edits' \in 0 .. MaxEdits
    PROVE  Inv'
  <1>0. UNCHANGED <<setup, conn, record, cache, at, cfg, res, recent, rules, renewals, faults>>
    BY DEF worldVars, runVars
  <1>1. TypeOK'
    BY <1>0 DEF Inv, TypeOK
  <1>2. StandsFor(cfg)' = StandsFor(cfg)
    BY <1>0 DEF StandsFor, Published
  <1>3. ResolveConfig(cfg, setup.flags)' = ResolveConfig(cfg, setup.flags)
    BY <1>0 DEF ResolveConfig, WithDefaults, Overridden
  <1>4. DetectInv'
    <2>1. \A g \in Families :
            /\ conn'[g].fam \in {g, "none"}
            /\ \A a \in record'[g] \cup cache'[g] : a.fam = g
            /\ res'[g] \in Address => res'[g].fam = g /\ (res'[g] \in recent' \/ Misled(cfg, g)')
      <3>1. \A g \in Families : Misled(cfg, g)' = Misled(cfg, g)
        BY <1>0 DEF Misled
      <3> QED BY <1>0, <3>1 DEF Inv, DetectInv
    <2>2. at' = "idle" => cfg' = NoRun /\ res' = NoResults /\ recent' = {}
      BY <1>0 DEF Inv, DetectInv
    <2>3. at' # "idle" => cfg'.mode # "" /\ StandsFor(cfg)' \subseteq recent'
      <3>1. at # "idle" => cfg.mode # "" /\ StandsFor(cfg) \subseteq recent
        BY DEF Inv, DetectInv
      <3>2. at' = at /\ cfg' = cfg /\ recent' = recent
        BY <1>0
      <3> QED BY <1>2, <3>1, <3>2
    <2>4. at' # "idle" => ResolveConfig(cfg, setup.flags)' = cfg'
      BY <1>0, <1>3 DEF Inv, DetectInv
    <2> QED BY <2>1, <2>2, <2>3, <2>4 DEF DetectInv
  <1>5. NeverTooWide'
    BY <1>0 DEF Inv, NeverTooWide
  <1> QED BY <1>1, <1>4, <1>5 DEF Inv

LEMMA BeginInv == ASSUME Inv, Begin PROVE Inv'
  <1>0. UNCHANGED <<setup, file, wrote, conn, record, cache, res, rules, renewals, edits, faults>>
    BY DEF Begin, userVars, worldVars, boundVars
  <1>1. cfg' \in Options /\ cfg'.mode # "" /\ ResolveConfig(cfg', setup.flags) = cfg'
    BY SetupParts, ResolvedTyped, SavedOptions DEF Begin, Inv, TypeOK
  <1>2. at' \in Families /\ (cfg'.mode = "v4only" => at' = "v4") /\ (cfg'.mode = "v6only" => at' = "v6")
    BY DEF Begin, Wants, Families
  <1>3. recent' = StandsFor(cfg') /\ recent' \subseteq Homes
    BY StandsForHomes DEF Begin, Inv
  <1>4. res' = NoResults /\ \A f \in Families : res'[f] = None
    BY DEF Begin, Inv, DetectInv, NoResults
  <1>5. TypeOK'
    BY <1>0, <1>1, <1>2, <1>3, <1>4 DEF Inv, TypeOK, Families
  <1>6. StandsFor(cfg)' = StandsFor(cfg')
    BY <1>0 DEF StandsFor, Published
  <1>7. ResolveConfig(cfg, setup.flags)' = ResolveConfig(cfg', setup.flags)
    BY <1>0
  <1>8. at' # "idle"
    BY <1>2 DEF Families
  <1>9. DetectInv'
    BY <1>0, <1>1, <1>3, <1>4, <1>6, <1>7, <1>8, NoAddress DEF Inv, DetectInv
  <1>10. NeverTooWide'
    BY <1>0 DEF Inv, NeverTooWide
  <1> QED BY <1>5, <1>9, <1>10 DEF Inv

\* The part of the invariant that speaks of the world.
LEMMA UnderOwnFamily ==
    ASSUME DetectInv
    PROVE  \A f \in Families :
             /\ conn[f].fam \in {f, "none"}
             /\ \A a \in record[f] \cup cache[f] : a.fam = f
  BY DEF DetectInv

LEMMA InvStep == Inv /\ [Next]_vars => Inv'
  <1> SUFFICES ASSUME Inv, [Next]_vars PROVE Inv'
    OBVIOUS
  <1>0. TypeOK /\ DetectInv /\ NeverTooWide
    BY DEF Inv
  <1>00. \A f \in Families :
           /\ conn[f].fam \in {f, "none"}
           /\ \A a \in record[f] \cup cache[f] : a.fam = f
    BY <1>0, UnderOwnFamily
  <1>1. CASE Begin
    BY <1>1, BeginInv
  <1>2. ASSUME NEW f \in Families, Lookup(f) PROVE Inv'
    <2>1. PICK r \in Lookups(cfg, f) : res' = [res EXCEPT ![f] = r]
      BY <1>2 DEF Lookup
    <2>2. /\ r \in Results
          /\ r \in Address => r.fam = f /\ (r \in StandsFor(cfg) \/ Misled(cfg, f))
      BY <1>0, LookupFinds
    <2>3. /\ at = f /\ at' = NextFamily(f)
          /\ UNCHANGED <<userVars, worldVars, cfg, recent, rules, renewals, edits>>
          /\ faults' \in 0 .. MaxFaults
      BY <1>0, <1>2 DEF Lookup, boundVars, TypeOK
    <2> QED BY <2>1, <2>2, <2>3, LookupInv
  <1>3. ASSUME NEW f \in Families, LookupFails(f) PROVE Inv'
    <2>1. Failed \in Results /\ Failed \notin Address
      BY NoAddress DEF Results
    <2>2. faults' \in 0 .. MaxFaults
      BY <1>0, <1>3, FaultTyped DEF LookupFails
    <2>3. /\ at = f /\ at' = NextFamily(f) /\ res' = [res EXCEPT ![f] = Failed]
          /\ UNCHANGED <<userVars, worldVars, cfg, recent, rules, renewals, edits>>
      BY <1>3 DEF LookupFails, Fault
    <2> QED BY <2>1, <2>2, <2>3, LookupInv
  <1>4. CASE Refuse
    <2>1. EndRun /\ UNCHANGED <<setup, file, wrote, conn, record, cache, rules, renewals, edits, faults>>
      BY <1>4 DEF Refuse, userVars, worldVars, boundVars
    <2>2. rules' \subseteq Ranges /\ faults' \in 0 .. MaxFaults /\ NeverTooWide'
      BY <1>0, <2>1 DEF TypeOK, NeverTooWide
    <2> QED BY <2>1, <2>2, EndRunInv DEF Inv
  <1>5. CASE WriteRules
    <2>1. /\ EndRun /\ Builds(cfg, res) /\ rules' = SSHRules(cfg, res)
          /\ UNCHANGED <<setup, file, wrote, conn, record, cache, renewals, edits, faults>>
      BY <1>5 DEF WriteRules, userVars, worldVars, boundVars
    <2>2. rules' \subseteq Ranges /\ NeverTooWide'
      BY <2>1, NewRules DEF NeverTooWide
    <2>3. faults' \in 0 .. MaxFaults
      BY <1>0, <2>1 DEF TypeOK
    <2> QED BY <2>1, <2>2, <2>3, EndRunInv DEF Inv
  <1>6. CASE Abort
    <2>1. EndRun /\ UNCHANGED <<setup, file, wrote, conn, record, cache, rules, renewals, edits>>
      BY <1>6 DEF Abort, Fault, userVars, worldVars
    <2>2. rules' \subseteq Ranges /\ NeverTooWide'
      BY <1>0, <2>1 DEF TypeOK, NeverTooWide
    <2>3. faults' \in 0 .. MaxFaults
      BY <1>0, <1>6, FaultTyped DEF Abort
    <2> QED BY <2>1, <2>2, <2>3, EndRunInv DEF Inv
  <1>7. ASSUME NEW c \in Options, Save(c) PROVE Inv'
    <2>1. /\ file' \in Options /\ wrote' \subseteq Given /\ edits' \in 0 .. MaxEdits
          /\ UNCHANGED <<setup, worldVars, runVars, rules, renewals, faults>>
      BY <1>0, <1>7 DEF Save, boundVars, TypeOK
    <2> QED BY <2>1, FileInv
  <1>8. CASE SaveLogin
    <2>1. PICK fl \in {NoRun, setup.flags} : Save(ResolveConfig(file, fl))
      BY <1>8 DEF SaveLogin
    <2>2. file \in Options /\ fl \in Options
      BY <1>0, NoRunTyped, SetupParts DEF TypeOK
    <2> QED BY <1>7, <2>1, <2>2, ResolvedTyped
  <1>9. CASE SaveRun
    BY <1>0, <1>7, <1>9 DEF SaveRun, TypeOK
  <1>10. CASE EditFile
    <2>1. PICK e \in setup.edits :
            /\ file' = IF e \in {"echo", "dns"} THEN [file EXCEPT !.source = e]
                       ELSE [file EXCEPT ![e] = TRUE]
            /\ wrote' = wrote \cup {IF e \in {"echo", "dns"} THEN "source" ELSE e}
      BY <1>10 DEF EditFile
    <2>2. e \in {"hostname", "echoURL", "echo", "dns"}
      BY <1>0, SetupsAssumption DEF TypeOK
    <2>3. file \in Options /\ wrote \subseteq Given
      BY <1>0 DEF TypeOK
    <2>4. file' \in Options
      <3>1. CASE e = "hostname"
        BY <2>1, <2>3, <3>1 DEF Options
      <3>2. CASE e = "echoURL"
        BY <2>1, <2>3, <3>2 DEF Options
      <3>3. CASE e \in {"echo", "dns"}
        BY <2>1, <2>3, <3>3 DEF Options
      <3> QED BY <2>2, <3>1, <3>2, <3>3
    <2>5. wrote' \subseteq Given
      BY <2>1, <2>2, <2>3 DEF Given
    <2>6. edits' \in 0 .. MaxEdits
      BY <1>0, <1>10, BoundsAssumption DEF EditFile, TypeOK
    <2>7. UNCHANGED <<setup, worldVars, runVars, rules, renewals, faults>>
      BY <1>10 DEF EditFile
    <2> QED BY <2>4, <2>5, <2>6, <2>7, FileInv
  <1>11. ASSUME NEW f \in Families, Renew(f) PROVE Inv'
    <2>1. PICK a \in {h \in Homes \cup {None} : h.fam \in {f, "none"}} : conn' = [conn EXCEPT ![f] = a]
      BY <1>11 DEF Renew
    <2>2. conn' \in [Families -> Homes \cup {None}]
      BY <1>0, <1>00, <2>1 DEF TypeOK
    <2>3. \A g \in Families : conn'[g].fam \in {g, "none"}
      BY <1>0, <1>00, <2>1 DEF TypeOK
    <2>4. renewals' \in 0 .. MaxRenewals
      BY <1>0, <1>00, <1>11, BoundsAssumption DEF Renew, TypeOK
    <2>5. /\ Remember
          /\ UNCHANGED <<setup, file, wrote, at, cfg, res, rules, edits, faults, record, cache>>
      BY <1>11 DEF Renew, userVars
    <2>6. /\ record' \in [Families -> SUBSET (Homes \cup LanAddrs)]
          /\ cache' \in [Families -> SUBSET (Homes \cup LanAddrs)]
      BY <1>0, <1>00, <2>5 DEF TypeOK
    <2>7. \A g \in Families : \A b \in record'[g] \cup cache'[g] : b.fam = g
      BY <1>0, <1>00, <2>5
    <2> QED BY <2>2, <2>3, <2>4, <2>5, <2>6, <2>7, WorldInv
  <1>12. ASSUME NEW f \in Families, Register(f) PROVE Inv'
    <2>1. PICK lan \in SUBSET {a \in LanAddrs : a.fam = f} :
            record' = [record EXCEPT ![f] = {conn[f]} \cup lan]
      BY <1>12 DEF Register
    <2>2. conn[f] \in Homes /\ conn[f].fam = f
      <3>1. conn[f] \in Homes /\ conn[f].fam \in {f, "none"}
        BY <1>0, <1>00, <1>12 DEF Register, TypeOK
      <3> QED BY <3>1, HomesAssumption, AddressParts DEF Families
    <2>3. record' \in [Families -> SUBSET (Homes \cup LanAddrs)]
      BY <1>0, <1>00, <2>1, <2>2 DEF TypeOK
    <2>4. /\ Remember
          /\ UNCHANGED <<setup, file, wrote, at, cfg, res, rules, edits, faults, conn, cache, renewals>>
      BY <1>12 DEF Register, userVars, boundVars
    <2>5. \A g \in Families : \A b \in record'[g] : b.fam = g
      BY <1>0, <1>00, <2>1, <2>2 DEF TypeOK
    <2>6. /\ conn' \in [Families -> Homes \cup {None}]
          /\ cache' \in [Families -> SUBSET (Homes \cup LanAddrs)]
          /\ renewals' \in 0 .. MaxRenewals
      BY <1>0, <1>00, <2>4 DEF TypeOK
    <2>7. \A g \in Families : conn'[g].fam \in {g, "none"} /\ \A b \in cache'[g] : b.fam = g
      BY <1>0, <1>00, <2>4
    <2> QED BY <2>3, <2>4, <2>5, <2>6, <2>7, WorldInv
  <1>13. ASSUME NEW f \in Families, Expire(f) PROVE Inv'
    <2>1. cache' = [cache EXCEPT ![f] = record[f]]
      BY <1>13 DEF Expire
    <2>2. cache' \in [Families -> SUBSET (Homes \cup LanAddrs)]
      BY <1>0, <1>00, <2>1 DEF TypeOK
    <2>3. /\ Remember
          /\ UNCHANGED <<setup, file, wrote, at, cfg, res, rules, edits, faults, conn, record, renewals>>
      BY <1>13 DEF Expire, userVars, boundVars
    <2>4. \A g \in Families : \A b \in cache'[g] : b.fam = g
      BY <1>0, <1>00, <2>1 DEF TypeOK
    <2>5. /\ conn' \in [Families -> Homes \cup {None}]
          /\ record' \in [Families -> SUBSET (Homes \cup LanAddrs)]
          /\ renewals' \in 0 .. MaxRenewals
      BY <1>0, <1>00, <2>3 DEF TypeOK
    <2>6. \A g \in Families : conn'[g].fam \in {g, "none"} /\ \A b \in record'[g] : b.fam = g
      BY <1>0, <1>00, <2>3
    <2> QED BY <2>2, <2>3, <2>4, <2>5, <2>6, WorldInv
  <1>14. CASE UNCHANGED vars
    <2>1. /\ file' \in Options /\ wrote' \subseteq Given /\ edits' \in 0 .. MaxEdits
          /\ UNCHANGED <<setup, worldVars, runVars, rules, renewals, faults>>
      BY <1>0, <1>14 DEF vars, userVars, boundVars, TypeOK
    <2> QED BY <2>1, FileInv
  <1> QED
    BY <1>1, <1>2, <1>3, <1>4, <1>5, <1>6, <1>8, <1>9, <1>10, <1>11, <1>12, <1>13, <1>14
    DEF Next, Run

LEMMA InvAlways == Spec => []Inv
  <1> QED BY InvInit, InvStep, PTL DEF Spec

\* The variables keep their types, and a run looks up only what its mode wants.
THEOREM DetectTyped == Spec => []TypeOK
  <1>1. Inv => TypeOK
    BY DEF Inv
  <1> QED BY <1>1, InvAlways, PTL

\* For addresses of any width and prefix lengths of any value, no range is larger
\* than one of the shortest accepted length, and each is cut to its network.
THEOREM WidthBounded == Spec => []NeverTooWide
  <1>1. Inv => NeverTooWide
    BY DEF Inv
  <1> QED BY <1>1, InvAlways, PTL

------------------------------------------------------------------------------
(* What a step may do to the rules and to the file.                        *)

LEMMA RulesWriter ==
    ASSUME Inv, [Next]_vars, rules' # rules
    PROVE  WriteRules
  <1> USE DEF Lookup, LookupFails, Begin, Refuse, Abort, Save, SaveLogin, SaveRun, EditFile,
              Renew, Register, Expire, Next, Run, vars
  <1> QED OBVIOUS

\* Each written range is around an address its run has found.
LEMMA WrittenWitnessed ==
    ASSUME Inv, WriteRules, NEW range \in rules'
    PROVE  \E f \in Found(res) :
               /\ res[f].fam = f /\ range.fam = f /\ Covers(range, res[f])
               /\ res[f] \in recent \/ Misled(cfg, f)
  <1>1. Builds(cfg, res) /\ range \in SSHRules(cfg, res)
    BY DEF WriteRules
  <1>2. PICK f \in Found(res) : Covers(range, res[f])
    BY <1>1, NewRules
  <1>3. res[f].fam = f /\ (res[f] \in recent \/ Misled(cfg, f))
    BY DEF Found, Inv, DetectInv
  <1> QED BY <1>2, <1>3 DEF Covers

\* Whatever stands between the connection and its source, and whatever changes
\* while a run goes on, a range it writes is around an address the source stood
\* for since it began, unless a public proxy hid the connection from the server.
THEOREM OnlyWitnessed == Spec => RulesWitnessed
  <1> DEFINE A == rules' # rules => \A range \in rules' :
                    Misled(cfg, range.fam) \/ \E a \in recent : Covers(range, a)
  <1>1. ASSUME Inv, [Next]_vars PROVE [A]_vars
    BY <1>1, RulesWriter, WrittenWitnessed
  <1>2. Inv /\ [Next]_vars => [A]_vars
    BY <1>1
  <1> QED BY <1>2, InvAlways, PTL DEF Spec, RulesWitnessed

\* Whatever lookup fails, rules that change let in an address the source stood
\* for, of the family the mode cannot do without.
THEOREM AccessStays == Spec => AccessKept
  <1> DEFINE A == rules' # rules /\ (\A f \in Families : ~Misled(cfg, f)) =>
                    \E range \in rules' : \E a \in recent :
                        /\ Covers(range, a)
                        /\ cfg.mode \in {"dual", "v4only"} => a.fam = "v4"
                        /\ cfg.mode = "v6only" => a.fam = "v6"
  <1>1. ASSUME Inv, [Next]_vars, rules' # rules, \A f \in Families : ~Misled(cfg, f)
        PROVE  A
    <2>1. WriteRules
      BY <1>1, RulesWriter
    <2>2. PICK f \in Found(res) :
            /\ cfg.mode \in {"dual", "v4only"} => f = "v4"
            /\ cfg.mode = "v6only" => f = "v6"
      <3>1. Found(res) # {} /\ Required(cfg.mode) \subseteq Found(res)
        BY <2>1 DEF WriteRules, Resolves
      <3> QED BY <3>1 DEF Required
    <2>3. PICK range : range = Masked(res[f], cfg.prefix[f])
      OBVIOUS
    <2>4. range \in rules' /\ Builds(cfg, res) /\ range \in SSHRules(cfg, res)
      BY <2>1, <2>3 DEF WriteRules, SSHRules
    <2>5. res[f] \in Address /\ res[f] \in recent /\ res[f].fam = f
      BY <1>1 DEF Found, Inv, DetectInv
    <2>6. cfg.prefix[f] \in Nat
      BY <1>1 DEF Inv, TypeOK, Options, Found
    <2>7. ValidPrefix(res[f].fam, cfg.prefix[f])
      BY <2>4, <2>5 DEF Builds
    <2>8. Covers(range, res[f])
      BY <2>3, <2>5, <2>6, <2>7, MaskedRange
    <2> QED BY <2>2, <2>4, <2>5, <2>8
  <1>2. Inv /\ [Next]_vars => [A]_vars
    BY <1>1
  <1> QED BY <1>2, InvAlways, PTL DEF Spec, AccessKept

\* Whenever a login or a run saves the file, later runs work with the options
\* they would have had, or with those of the run that saved.
THEOREM SavesHarmless == Spec => SavesTransparent
  <1> DEFINE A == file' # file /\ edits' = edits =>
                    ResolveConfig(file', setup.flags) \in {ResolveConfig(file, setup.flags), cfg}
  <1>1. ASSUME Inv, [Next]_vars, file' # file, edits' = edits PROVE A
    <2>1. SaveLogin \/ SaveRun
      <3>1. ~EditFile
        BY <1>1 DEF EditFile, Inv, TypeOK
      <3> QED BY <1>1, <3>1 DEF Lookup, LookupFails, Begin, Refuse, WriteRules, Abort,
                Renew, Register, Expire, Next, Run, vars, userVars
    <2>2. file \in Options /\ setup.flags \in Options
      BY <1>1, SetupParts DEF Inv, TypeOK
    <2>3. CASE SaveLogin
      <3>1. PICK fl \in {NoRun, setup.flags} : file' = ResolveConfig(file, fl)
        BY <2>3 DEF SaveLogin, Save
      <3>2. ResolveConfig(ResolveConfig(file, fl), setup.flags) = ResolveConfig(file, setup.flags)
        BY <2>2, SavedOptions
      <3> QED BY <3>1, <3>2
    <2>4. CASE SaveRun
      <3>1. at = "found" /\ file' = cfg
        BY <2>4 DEF SaveRun, Save
      <3>2. ResolveConfig(cfg, setup.flags) = cfg
        BY <1>1, <3>1 DEF Inv, DetectInv
      <3> QED BY <3>1, <3>2
    <2> QED BY <2>1, <2>3, <2>4
  <1>2. Inv /\ [Next]_vars => [A]_vars
    BY <1>1
  <1> QED BY <1>2, InvAlways, PTL DEF Spec, SavesTransparent
==============================================================================

------------------------------ MODULE FireProofs -----------------------------
(***************************************************************************)
(* Proofs about the jobs that Service fires: where a request may go, what  *)
(* its headers are and what is kept of the answer.                         *)
(*                                                                         *)
(* Neither the loader nor the executor looks at everything: the loader     *)
(* sees the literal address and the variables once, the pre-flight sees    *)
(* what a name resolves to.  The properties of a request therefore need to *)
(* know where the job being fired comes from: ServiceProofs shows that the *)
(* registry holds accepted jobs only, and Fired carries that into the      *)
(* attempt.  They rest on the rules for addresses, which AddressPolicy     *)
(* states twice, and on the cuts of TextCaps, where a text is built        *)
(* character by character: IsText is what every prefix of it satisfies.    *)
(***************************************************************************)
EXTENDS ServiceProofs

-----------------------------------------------------------------------------
(* Addresses, for every IPv4 and every IPv6 address.                       *)

LEMMA OctetType ==
  ASSUME NEW o \in Octets, NEW i \in 1 .. 4
  PROVE  o[i] \in Int /\ 0 <= o[i] /\ o[i] <= 255
<1>1. o[i] \in Octet
  BY SMT DEF Octets
<1> QED
  BY <1>1, SMT DEF Octet

LEMMA SegmentRange ==
  ASSUME NEW x \in Segment
  PROVE  x \in Int /\ 0 <= x /\ x <= 65535
BY SMT DEF Segment

LEMMA SegmentType ==
  ASSUME NEW s \in Segments, NEW i \in 1 .. 8
  PROVE  s[i] \in Int /\ 0 <= s[i] /\ s[i] <= 65535
<1>1. s[i] \in Segment
  BY SMT DEF Segments
<1> QED
  BY <1>1, SegmentRange, SMT

(* The masks of is_private_or_local as blocks of first segments.           *)
LEMMA Multicast6Block ==
  ASSUME NEW x \in Int, 0 <= x, x <= 65535
  PROVE  x \div 256 = 255 <=> x \in 65280 .. 65535
BY SMT

LEMMA LinkLocal6Block ==
  ASSUME NEW x \in Int, 0 <= x, x <= 65535
  PROVE  x \div 64 = 1018 <=> x \in 65152 .. 65215
BY SMT

LEMMA UniqueLocal6Block ==
  ASSUME NEW x \in Int, 0 <= x, x <= 65535
  PROVE  x \div 512 = 126 <=> x \in 64512 .. 65023
BY SMT

(* An IPv4-mapped address stands for an IPv4 address.                      *)
LEMMA UnwrapType ==
  ASSUME NEW s \in Segments
  PROVE  Unwrap(s) \in Octets
<1>1. \A x \in Int : 0 <= x /\ x <= 65535 => x \div 256 \in Octet /\ x % 256 \in Octet
  BY SMT DEF Octet
<1>2. /\ s[7] \in Int /\ 0 <= s[7] /\ s[7] <= 65535
      /\ s[8] \in Int /\ 0 <= s[8] /\ s[8] <= 65535
  BY SegmentType, SMT
<1>3. /\ s[7] \div 256 \in Octet /\ s[7] % 256 \in Octet
      /\ s[8] \div 256 \in Octet /\ s[8] % 256 \in Octet
  BY <1>1, <1>2, SMT
<1> QED
  BY <1>3, SMT DEF Unwrap, Octets

(* The networks, part by part.                                             *)
LEMMA NeverNets4Spelled ==
  ASSUME NEW o \in Octets
  PROVE  (\E n \in NeverNets4 : InNet(o, n)) <=> BlockedV4(o)
<1> DEFINE A == <<{169}, {254}>>
           B == <<{0}, {0}, {0}, {0}>>
           C == <<224 .. 239>>
           D == <<{255}, {255}, {255}, {255}>>
<1>1. InNet(o, A) <=> IsLinkLocal4(o)
  BY SMT DEF InNet, IsLinkLocal4
<1>2. InNet(o, B) <=> IsUnspecified4(o)
  BY SMT DEF InNet, IsUnspecified4
<1>3. InNet(o, C) <=> IsMulticast4(o)
  BY SMT DEF InNet, IsMulticast4
<1>4. InNet(o, D) <=> IsBroadcast4(o)
  BY SMT DEF InNet, IsBroadcast4
<1>5. NeverNets4 = {A, B, C, D}
  BY SMT DEF NeverNets4
<1> HIDE DEF A, B, C, D
<1> QED
  BY <1>1, <1>2, <1>3, <1>4, <1>5, Zenon DEF BlockedV4

LEMMA LocalNets4Spelled ==
  ASSUME NEW o \in Octets
  PROVE  (\E n \in LocalNets4 : InNet(o, n))
           <=> (IsLoopback4(o) \/ IsPrivate4(o) \/ IsSharedNat(o))
<1> DEFINE A == <<{127}>>
           B == <<{10}>>
           C == <<{172}, 16 .. 31>>
           D == <<{192}, {168}>>
           E == <<{100}, 64 .. 127>>
<1>1. InNet(o, A) <=> IsLoopback4(o)
  BY SMT DEF InNet, IsLoopback4
<1>2. InNet(o, B) <=> o[1] = 10
  BY SMT DEF InNet
<1>3. InNet(o, C) <=> o[1] = 172 /\ o[2] \in 16 .. 31
  BY SMT DEF InNet
<1>4. InNet(o, D) <=> o[1] = 192 /\ o[2] = 168
  BY SMT DEF InNet
<1>5. InNet(o, E) <=> IsSharedNat(o)
  BY SMT DEF InNet, IsSharedNat
<1>6. LocalNets4 = {A, B, C, D, E}
  BY SMT DEF LocalNets4
<1>7. IsPrivate4(o) <=> (InNet(o, B) \/ InNet(o, C) \/ InNet(o, D))
  BY <1>2, <1>3, <1>4 DEF IsPrivate4
<1> HIDE DEF A, B, C, D, E
<1> QED
  BY <1>1, <1>5, <1>6, <1>7, Zenon

LEMMA NeverNets6Spelled ==
  ASSUME NEW s \in Segments
  PROVE  (\E n \in NeverNets6 : InNet(s, n))
           <=> (IsUnspecified6(s) \/ IsMulticast6(s) \/ IsLinkLocal6(s) \/ IsImds6(s))
<1> DEFINE A == <<{0}, {0}, {0}, {0}, {0}, {0}, {0}, {0}>>
           B == <<65280 .. 65535>>
           C == <<65152 .. 65215>>
           D == <<{64768}, {3778}, {0}, {0}, {0}, {0}, {0}, {596}>>
<1>t. s[1] \in Int /\ 0 <= s[1] /\ s[1] <= 65535
  BY SegmentType, SMT
<1>1. InNet(s, A) <=> IsUnspecified6(s)
  BY SMT DEF InNet, IsUnspecified6
<1>2. InNet(s, B) <=> IsMulticast6(s)
  <2>1. InNet(s, B) <=> s[1] \in 65280 .. 65535
    BY SMT DEF InNet
  <2> QED
    BY <1>t, <2>1, Multicast6Block, SMT DEF IsMulticast6
<1>3. InNet(s, C) <=> IsLinkLocal6(s)
  <2>1. InNet(s, C) <=> s[1] \in 65152 .. 65215
    BY SMT DEF InNet
  <2> QED
    BY <1>t, <2>1, LinkLocal6Block, SMT DEF IsLinkLocal6
<1>4. InNet(s, D) <=> IsImds6(s)
  <2>1. \A i : i \in 3 .. 7 <=> (i = 3 \/ i = 4 \/ i = 5 \/ i = 6 \/ i = 7)
    BY SMT
  <2>2. IsImds6(s) <=> (/\ s[1] = 64768 /\ s[2] = 3778 /\ s[3] = 0 /\ s[4] = 0
                        /\ s[5] = 0 /\ s[6] = 0 /\ s[7] = 0 /\ s[8] = 596)
    BY <2>1, SMT DEF IsImds6
  <2>3. \A i : i \in DOMAIN D <=> (\/ i = 1 \/ i = 2 \/ i = 3 \/ i = 4
                                  \/ i = 5 \/ i = 6 \/ i = 7 \/ i = 8)
    BY SMT
  <2> QED
    BY <2>2, <2>3, SMT DEF InNet
<1>5. NeverNets6 = {A, B, C, D}
  BY SMT DEF NeverNets6
<1> HIDE DEF A, B, C, D
<1> QED
  BY <1>1, <1>2, <1>3, <1>4, <1>5, Zenon

LEMMA LocalNets6Spelled ==
  ASSUME NEW s \in Segments
  PROVE  (\E n \in LocalNets6 : InNet(s, n)) <=> (IsLoopback6(s) \/ IsUniqueLocal6(s))
<1> DEFINE A == <<{0}, {0}, {0}, {0}, {0}, {0}, {0}, {1}>>
           B == <<64512 .. 65023>>
<1>t. s[1] \in Int /\ 0 <= s[1] /\ s[1] <= 65535
  BY SegmentType, SMT
<1>1. InNet(s, A) <=> IsLoopback6(s)
  BY SMT DEF InNet, IsLoopback6
<1>2. InNet(s, B) <=> IsUniqueLocal6(s)
  <2>1. InNet(s, B) <=> s[1] \in 64512 .. 65023
    BY SMT DEF InNet
  <2> QED
    BY <1>t, <2>1, UniqueLocal6Block, SMT DEF IsUniqueLocal6
<1>3. LocalNets6 = {A, B}
  BY SMT DEF LocalNets6
<1> HIDE DEF A, B
<1> QED
  BY <1>1, <1>2, <1>3, Zenon
(* The two verdicts on IPv4 addresses, and so on mapped ones.              *)
LEMMA VerdictV4 ==
  ASSUME NEW o \in Octets
  PROVE  PrivateV4(o) <=> ((\E n \in NeverNets4 : InNet(o, n))
                           \/ (\E n \in LocalNets4 : InNet(o, n)))
BY NeverNets4Spelled, LocalNets4Spelled, Zenon DEF PrivateV4, BlockedV4

(* A mapped address is none of the IPv6 addresses the rules name.          *)
LEMMA MappedIsNone ==
  ASSUME NEW s \in Segments, IsMapped(s)
  PROVE  ~ IsLoopback6(s) /\ ~ IsUnspecified6(s) /\ ~ IsMulticast6(s)
<1>1. s[1] = 0 /\ s[6] = 65535
  BY SMT DEF IsMapped
<1>2. ~ IsMulticast6(s)
  BY <1>1, SMT DEF IsMulticast6
<1>3. ~ IsLoopback6(s) /\ ~ IsUnspecified6(s)
  BY <1>1, SMT DEF IsLoopback6, IsUnspecified6
<1> QED
  BY <1>2, <1>3

LEMMA VerdictV6 ==
  ASSUME NEW s \in Segments, ~ IsMapped(s)
  PROVE  /\ BlockedV6(s) <=> \E n \in NeverNets6 : InNet(s, n)
         /\ PrivateV6(s) <=> ((\E n \in NeverNets6 : InNet(s, n))
                              \/ (\E n \in LocalNets6 : InNet(s, n)))
<1>1. IsImds6(s) => IsUniqueLocal6(s)
  BY SMT DEF IsImds6, IsUniqueLocal6
<1> QED
  BY <1>1, NeverNets6Spelled, LocalNets6Spelled, Zenon DEF PrivateV6, BlockedV6

(* is_always_blocked, which also a host of security.allowed_private_hosts  *)
(* meets, refuses the addresses of the networks that are never allowed,    *)
(* mapped ones included, and no others.                                    *)
THEOREM AlwaysBlockedExact ==
  ASSUME NEW ip \in Addresses
  PROVE  is_always_blocked(ip) <=> InNeverNet(ip)
<1>1. CASE ip \in [version : {4}, parts : Octets]
  <2> DEFINE o == ip.parts
  <2>2. ip.version = 4 /\ ip.parts = o /\ o \in Octets
    BY <1>1, SMT
  <2>3. Actual(ip) = ip
    BY <2>2, SMT DEF Actual
  <2> QED
    BY <2>2, <2>3, NeverNets4Spelled, Zenon DEF is_always_blocked, InNeverNet
<1>2. CASE ip \in [version : {6}, parts : Segments]
  <2> DEFINE s == ip.parts
  <2>2. ip.version = 6 /\ ip.parts = s /\ ip.version # 4 /\ s \in Segments
    BY <1>2, SMT
  <2>3. CASE IsMapped(s)
    <3>1. Actual(ip) = IPv4(Unwrap(s))
      BY <2>2, <2>3, Zenon DEF Actual
    <3>2. Actual(ip).version = 4 /\ Actual(ip).parts = Unwrap(s)
      BY <3>1, SMT DEF IPv4
    <3> QED
      BY <2>2, <2>3, <3>2, UnwrapType, NeverNets4Spelled, Zenon
      DEF is_always_blocked, InNeverNet, BlockedV6
  <2>4. CASE ~ IsMapped(s)
    <3>1. Actual(ip) = ip
      BY <2>2, <2>4, Zenon DEF Actual
    <3> QED
      BY <2>2, <2>4, <3>1, VerdictV6, Zenon DEF is_always_blocked, InNeverNet
  <2> QED
    BY <2>3, <2>4
<1> QED
  BY <1>1, <1>2, Zenon DEF Addresses

(* is_private_or_local, which the loader and the pre-flight ask, refuses   *)
(* the addresses of the two lists of networks, mapped ones included, and   *)
(* no others.                                                              *)
THEOREM PrivateExact ==
  ASSUME NEW ip \in Addresses
  PROVE  is_private_or_local(ip) <=> (InNeverNet(ip) \/ InLocalNet(ip))
<1>1. CASE ip \in [version : {4}, parts : Octets]
  <2> DEFINE o == ip.parts
  <2>2. ip.version = 4 /\ ip.parts = o /\ o \in Octets
    BY <1>1, SMT
  <2>3. Actual(ip) = ip
    BY <2>2, SMT DEF Actual
  <2> QED
    BY <2>2, <2>3, VerdictV4, Zenon DEF is_private_or_local, InNeverNet, InLocalNet
<1>2. CASE ip \in [version : {6}, parts : Segments]
  <2> DEFINE s == ip.parts
  <2>2. ip.version = 6 /\ ip.parts = s /\ ip.version # 4 /\ s \in Segments
    BY <1>2, SMT
  <2>3. CASE IsMapped(s)
    <3>1. Actual(ip) = IPv4(Unwrap(s))
      BY <2>2, <2>3, Zenon DEF Actual
    <3>2. Actual(ip).version = 4 /\ Actual(ip).parts = Unwrap(s)
      BY <3>1, SMT DEF IPv4
    <3>3. PrivateV6(s) <=> PrivateV4(Unwrap(s))
      BY <2>2, <2>3, MappedIsNone, Zenon DEF PrivateV6
    <3> QED
      BY <2>2, <3>2, <3>3, UnwrapType, VerdictV4, Zenon
      DEF is_private_or_local, InNeverNet, InLocalNet
  <2>4. CASE ~ IsMapped(s)
    <3>1. Actual(ip) = ip
      BY <2>2, <2>4, Zenon DEF Actual
    <3> QED
      BY <2>2, <2>4, <3>1, VerdictV6, Zenon DEF is_private_or_local, InNeverNet, InLocalNet
  <2> QED
    BY <2>3, <2>4
<1> QED
  BY <1>1, <1>2, Zenon DEF Addresses

LEMMA DocumentationApart ==
  ASSUME NEW o \in Octets, \E n \in DocumentationNets4 : InNet(o, n)
  PROVE  /\ ~ \E n \in NeverNets4 : InNet(o, n)
         /\ ~ \E n \in LocalNets4 : InNet(o, n)
<1> DEFINE A == <<{192}, {0}, {2}>>
           B == <<{198}, {51}, {100}>>
           C == <<{203}, {0}, {113}>>
<1>1. InNet(o, A) => o[1] = 192 /\ o[2] = 0
  BY SMT DEF InNet
<1>2. InNet(o, B) => o[1] = 198
  BY SMT DEF InNet
<1>3. InNet(o, C) => o[1] = 203
  BY SMT DEF InNet
<1>4. DocumentationNets4 = {A, B, C}
  BY SMT DEF DocumentationNets4
<1> HIDE DEF A, B, C
<1>5. (o[1] = 192 /\ o[2] = 0) \/ o[1] = 198 \/ o[1] = 203
  BY <1>1, <1>2, <1>3, <1>4, Zenon
<1>6. ~ BlockedV4(o)
  BY <1>5, SMT DEF BlockedV4, IsLinkLocal4, IsUnspecified4, IsMulticast4, IsBroadcast4
<1>7. ~ (IsLoopback4(o) \/ IsPrivate4(o) \/ IsSharedNat(o))
  BY <1>5, SMT DEF IsLoopback4, IsPrivate4, IsSharedNat
<1> QED
  BY <1>6, <1>7, NeverNets4Spelled, LocalNets4Spelled, Zenon

(* The documentation ranges, which the comment of is_private_or_local      *)
(* lists among what it covers, are none of these: every address in them is *)
(* let through, for a listed host and for any other.                       *)
THEOREM DocumentationPasses ==
  ASSUME NEW ip \in Addresses, InDocumentationNet(ip), NEW listed \in BOOLEAN
  PROVE  ~ ssrf_refuses(ip, listed)
<1> DEFINE a == Actual(ip)
<1>1. a.version = 4 /\ \E n \in DocumentationNets4 : InNet(a.parts, n)
  BY Zenon DEF InDocumentationNet
<1>2. a.parts \in Octets
  <2>1. CASE ip \in [version : {4}, parts : Octets]
    <3>1. ip.version = 4 /\ ip.parts \in Octets
      BY <2>1, SMT
    <3> QED BY <3>1, SMT DEF Actual
  <2>2. CASE ip \in [version : {6}, parts : Segments]
    <3>1. ip.version = 6 /\ ip.parts \in Segments
      BY <2>2, SMT
    <3>2. CASE IsMapped(ip.parts)
      <4>1. a = IPv4(Unwrap(ip.parts))
        BY <3>1, <3>2, Zenon DEF Actual
      <4>2. a.parts = Unwrap(ip.parts)
        BY <4>1, SMT DEF IPv4
      <4> QED BY <3>1, <4>2, UnwrapType, Zenon
    <3>3. CASE ~ IsMapped(ip.parts)
      <4>1. a = ip
        BY <3>3, Zenon DEF Actual
      <4> QED BY <1>1, <3>1, <4>1, SMT
    <3> QED BY <3>2, <3>3
  <2> QED BY <2>1, <2>2, Zenon DEF Addresses
<1>3. ~ InNeverNet(ip) /\ ~ InLocalNet(ip)
  BY <1>1, <1>2, DocumentationApart, Zenon DEF InNeverNet, InLocalNet
<1> QED
  BY <1>3, AlwaysBlockedExact, PrivateExact, Zenon DEF ssrf_refuses

(* Listing a host in security.allowed_private_hosts only ever allows more: *)
(* ssrf_refuses never refuses a listed host what it lets an unlisted one.  *)
THEOREM AllowlistOnlyWidens ==
  ASSUME NEW ip \in Addresses
  PROVE  ssrf_refuses(ip, TRUE) => ssrf_refuses(ip, FALSE)
BY AlwaysBlockedExact, PrivateExact, Zenon DEF ssrf_refuses

-----------------------------------------------------------------------------
(* Texts, for every sequence of characters and every cap.                  *)

(* A function that is defined along the numbers up to n exists.            *)
Unrolls(f, n, base, step) ==
  f = [i \in 0 .. n |-> IF i = 0 THEN base ELSE step[<<i, f[i - 1]>>]]

LEMMA Iterated ==
  ASSUME NEW n \in Nat, NEW S, NEW base \in S, NEW step \in [(1 .. n) \X S -> S]
  PROVE  \E f \in [0 .. n -> S] : Unrolls(f, n, base, step)
<1> DEFINE Fits(f, m) == f[0] = base /\ \A i \in 1 .. m : f[i] = step[<<i, f[i - 1]>>]
           T == {m \in 0 .. n : ~ \E f \in [0 .. m -> S] : Fits(f, m)}
<1>1. ASSUME T # {} PROVE FALSE
  <2>1. PICK m \in T : \A k \in T : m <= k
    <3>1. T \in SUBSET Nat
      OBVIOUS
    <3> HIDE DEF T
    <3> QED BY <1>1, <3>1, LeastElement
  <2>2. m # 0
    <3>1. Fits([i \in 0 .. 0 |-> base], 0)
      OBVIOUS
    <3> QED BY <2>1, <3>1
  <2>3. m - 1 \in 0 .. n /\ m - 1 \notin T
    BY <2>1, <2>2
  <2>4. PICK f \in [0 .. m - 1 -> S] : Fits(f, m - 1)
    BY <2>3
  <2> DEFINE g == [i \in 0 .. m |-> IF i = m THEN step[<<m, f[m - 1]>>] ELSE f[i]]
  <2>5. f[m - 1] \in S /\ step[<<m, f[m - 1]>>] \in S
    BY <2>1, <2>2, <2>4
  <2>6. g \in [0 .. m -> S]
    BY <2>1, <2>4, <2>5
  <2>7. \A i \in 1 .. m : g[i] = step[<<i, g[i - 1]>>]
    <3> SUFFICES ASSUME NEW i \in 1 .. m PROVE g[i] = step[<<i, g[i - 1]>>]
      OBVIOUS
    <3>1. g[i - 1] = f[i - 1]
      BY <2>1, <2>4
    <3>2. CASE i = m
      <4>1. g[m] = step[<<m, f[m - 1]>>]
        BY <2>1
      <4> QED BY <3>1, <3>2, <4>1
    <3>3. CASE i # m
      BY <2>1, <2>4, <3>1, <3>3
    <3> QED BY <3>2, <3>3
  <2>8. g[0] = base
    BY <2>1, <2>2, <2>4
  <2> QED BY <2>1, <2>6, <2>7, <2>8
<1>2. PICK f \in [0 .. n -> S] : Fits(f, n)
  <2>1. n \notin T
    BY <1>1
  <2> QED BY <2>1
<1>3. f = [i \in 0 .. n |-> IF i = 0 THEN base ELSE step[<<i, f[i - 1]>>]]
  BY <1>2
<1> QED BY <1>3 DEF Unrolls

(* A clean text: a character takes at most four bytes, so from any offset  *)
(* in it the boundary before is less than four bytes away.                 *)
IsText(s) ==
  /\ s \in SUBSET Nat
  /\ 0 \in s
  /\ \E m \in s : \A b \in s : b <= m
  /\ \A x \in 0 .. Bytes(s) : \E b \in s : b <= x /\ x - b < 4

LEMMA MaxIs ==
  ASSUME NEW s \in SUBSET Nat, NEW m \in s, \A b \in s : b <= m
  PROVE  Max(s) = m
<1>1. \A y \in s : m >= y
  OBVIOUS
<1>2. \A x \in s : (\A y \in s : x >= y) => x = m
  OBVIOUS
<1> QED BY <1>1, <1>2, Zenon DEF Max

LEMMA TextBytes ==
  ASSUME NEW s, IsText(s)
  PROVE  Bytes(s) \in s /\ Bytes(s) \in Nat /\ \A b \in s : b \in Nat /\ b <= Bytes(s)
<1>1. PICK m \in s : \A b \in s : b <= m
  BY DEF IsText
<1>2. s \in SUBSET Nat
  BY DEF IsText
<1>3. Bytes(s) = m
  BY <1>1, <1>2, MaxIs DEF Bytes
<1> QED BY <1>1, <1>2, <1>3

(* What is pushed onto a text makes it longer by its own length.           *)
LEMMA PushText ==
  ASSUME NEW s, IsText(s), NEW ends, IsText(ends \cup {0})
  PROVE  /\ IsText(Push(s, ends))
         /\ Bytes(Push(s, ends)) = Bytes(s) + Bytes(ends \cup {0})
<1> DEFINE n == Bytes(s)
           m == Bytes(ends \cup {0})
           p == Push(s, ends)
<1>1. n \in s /\ n \in Nat /\ s \in SUBSET Nat /\ 0 \in s /\ \A b \in s : b <= n
  BY TextBytes DEF IsText
<1>2. m \in ends \cup {0} /\ m \in Nat /\ ends \in SUBSET Nat /\ \A b \in ends : b <= m
  BY TextBytes DEF IsText
<1>3. p = s \cup {n + e : e \in ends}
  BY DEF Push
<1>4. \A x \in 0 .. n : \E b \in s : b <= x /\ x - b < 4
  BY DEF IsText
<1>5. \A x \in 0 .. m : \E b \in ends \cup {0} : b <= x /\ x - b < 4
  BY DEF IsText
<1> HIDE DEF n, m, p
<1>6. p \in SUBSET Nat /\ 0 \in p /\ n \in p
  <2>1. \A e \in ends : n + e \in Nat
    BY <1>1, <1>2
  <2> QED BY <1>1, <1>3, <2>1
<1>7. n + m \in p
  BY <1>1, <1>2, <1>3
<1>8. \A b \in p : b <= n + m
  BY <1>1, <1>2, <1>3
<1>9. Bytes(p) = n + m
  BY <1>6, <1>7, <1>8, MaxIs DEF Bytes
<1>10. \A x \in 0 .. n + m : \E b \in p : b <= x /\ x - b < 4
  <2> SUFFICES ASSUME NEW x \in 0 .. n + m PROVE \E b \in p : b <= x /\ x - b < 4
    OBVIOUS
  <2>1. CASE x <= n
    <3>1. x \in 0 .. n
      BY <1>1, <1>2, <2>1
    <3> QED BY <1>3, <1>4, <3>1
  <2>2. CASE ~ (x <= n)
    <3>1. x - n \in 0 .. m
      BY <1>1, <1>2, <2>2
    <3>2. PICK e \in ends \cup {0} : e <= x - n /\ x - n - e < 4
      BY <1>5, <3>1
    <3>3. n + e \in p
      BY <1>1, <1>3, <3>2
    <3>4. n + e <= x /\ x - (n + e) < 4
      BY <1>1, <1>2, <3>1, <3>2
    <3> QED BY <3>3, <3>4
  <2> QED BY <2>1, <2>2
<1>11. IsText(p)
  BY <1>6, <1>7, <1>8, <1>9, <1>10 DEF IsText
<1> QED BY <1>9, <1>11 DEF n, m, p

LEMMA EmptyText == IsText({0}) /\ Bytes({0}) = 0
<1>1. Bytes({0}) = 0
  BY MaxIs DEF Bytes
<1> QED BY <1>1 DEF IsText

(* Up to four bytes a character, and six for an escape.                    *)
LEMMA EscapeText ==
  ASSUME NEW c \in Chars
  PROVE  IsText(Escape(c) \cup {0}) /\ Bytes(Escape(c) \cup {0}) \in 0 .. 6
<1>1. ASSUME NEW n \in 1 .. 4
      PROVE  IsText({n} \cup {0}) /\ Bytes({n} \cup {0}) = n
  <2>1. Bytes({n} \cup {0}) = n
    BY MaxIs DEF Bytes
  <2> QED BY <2>1 DEF IsText
<1>2. ASSUME NEW n \in 1 .. 6
      PROVE  IsText((1 .. n) \cup {0}) /\ Bytes((1 .. n) \cup {0}) = n
  <2>1. Bytes((1 .. n) \cup {0}) = n
    BY MaxIs DEF Bytes
  <2> QED BY <2>1 DEF IsText
<1>3. CASE c = "newline"
  <2>1. Escape(c) = 1 .. 2
    BY <1>3, Zenon DEF Escape
  <2> QED BY <1>2, <2>1
<1>4. CASE c = "control"
  <2>1. Escape(c) = 1 .. 6
    BY <1>4 DEF Escape
  <2> QED BY <1>2, <2>1
<1>5. CASE c \notin {"newline", "control"}
  <2>1. Escape(c) = {LossyBytes(c)}
    BY <1>5 DEF Escape
  <2>2. LossyBytes(c) \in 1 .. 4
    BY <1>5 DEF Chars, LossyBytes, WireBytes, Plain
  <2> QED BY <1>1, <2>1, <2>2
<1> QED BY <1>3, <1>4, <1>5

AllTexts == {s \in SUBSET Nat : IsText(s)}

LEMMA PersistedText ==
  ASSUME NEW text \in Seq(Chars)
  PROVE  IsText(sanitize_for_persistence(text))
<1> DEFINE n == Len(text)
           Out(f) == [i \in 0 .. n |-> IF i = 0 THEN {0} ELSE Push(f[i - 1], Escape(text[i]))]
           out == CHOOSE f : f = Out(f)
           step == [p \in (1 .. n) \X AllTexts |-> Push(p[2], Escape(text[p[1]]))]
<1>1. n \in Nat /\ \A i \in 1 .. n : text[i] \in Chars
  OBVIOUS
<1>2. ASSUME NEW i \in 1 .. n, NEW s \in AllTexts
      PROVE  Push(s, Escape(text[i])) \in AllTexts
  BY <1>1, PushText, EscapeText DEF AllTexts, IsText
<1>3. {0} \in AllTexts
  BY EmptyText DEF AllTexts
<1>4. step \in [(1 .. n) \X AllTexts -> AllTexts]
  BY <1>2
<1>5. PICK f \in [0 .. n -> AllTexts] : Unrolls(f, n, {0}, step)
  <2> DEFINE base == {0}
  <2>1. base \in AllTexts
    BY <1>3
  <2>2. n \in Nat
    BY <1>1
  <2> HIDE DEF step, n, base
  <2>3. \E f \in [0 .. n -> AllTexts] : Unrolls(f, n, base, step)
    BY <1>4, <2>1, <2>2, Iterated
  <2> QED BY <2>3 DEF base
<1>6. f = Out(f)
  <2>1. ASSUME NEW i \in 1 .. n
        PROVE  step[<<i, f[i - 1]>>] = Push(f[i - 1], Escape(text[i]))
    <3>1. i - 1 \in 0 .. n
      BY <1>1
    <3>2. f[i - 1] \in AllTexts
      BY <1>5, <3>1
    <3>3. \A s \in AllTexts : step[<<i, s>>] = Push(s, Escape(text[i]))
      OBVIOUS
    <3> HIDE DEF step
    <3> QED BY <3>2, <3>3
  <2> HIDE DEF step, n
  <2> QED BY <1>5, <2>1 DEF Unrolls
<1>7. out = Out(out)
  <2> HIDE DEF Out
  <2> QED BY <1>6
<1>8. sanitize_for_persistence(text) = out[n]
  BY DEF sanitize_for_persistence
<1> HIDE DEF out, step
<1>9. out[0] \in AllTexts /\ \A i \in 1 .. n : out[i - 1] \in AllTexts => out[i] \in AllTexts
  <2>1. out[0] = {0} /\ \A i \in 1 .. n : out[i] = Push(out[i - 1], Escape(text[i]))
    BY <1>1, <1>7
  <2> QED BY <1>2, <1>3, <2>1
<1>10. \A i \in 0 .. n : out[i] \in AllTexts
  <2> HIDE DEF n
  <2> QED BY <1>1, <1>9, KeptAlong
<1> QED BY <1>1, <1>8, <1>10 DEF AllTexts

(* The marker comes after at most cap bytes.                               *)
LogTexts(cap) ==
  {s \in [out : AllTexts, full : BOOLEAN] :
     Bytes(s.out) <= cap + (IF s.full THEN LogMarkerBytes ELSE 0)}

LEMMA MarkerText == IsText(LogMarker \cup {0}) /\ Bytes(LogMarker \cup {0}) = LogMarkerBytes
<1>1. Bytes(LogMarker \cup {0}) = LogMarkerBytes
  BY MaxIs DEF Bytes, LogMarker, LogMarkerBytes
<1> QED BY <1>1 DEF IsText, LogMarker, LogMarkerBytes

LEMMA LogPushFits ==
  ASSUME NEW cap \in Nat, NEW s \in LogTexts(cap), NEW c \in Chars
  PROVE  LogPush(s, c, cap) \in LogTexts(cap)
<1>1. /\ s.out \in AllTexts /\ IsText(s.out) /\ Bytes(s.out) \in Nat /\ s.full \in BOOLEAN
      /\ Bytes(s.out) <= cap + (IF s.full THEN LogMarkerBytes ELSE 0)
  BY TextBytes DEF LogTexts, AllTexts
<1>2. CASE s.full
  BY <1>2 DEF LogPush
<1>3. CASE ~ s.full /\ Bytes(s.out) + 6 > cap
  <2>1. /\ IsText(Push(s.out, LogMarker))
        /\ Bytes(Push(s.out, LogMarker)) = Bytes(s.out) + LogMarkerBytes
    BY <1>1, MarkerText, PushText
  <2>2. Push(s.out, LogMarker) \in AllTexts
    BY <2>1 DEF AllTexts, IsText
  <2>3. Bytes(s.out) + LogMarkerBytes <= cap + LogMarkerBytes
    BY <1>1, <1>3 DEF LogMarkerBytes
  <2>4. LogPush(s, c, cap) = [out |-> Push(s.out, LogMarker), full |-> TRUE]
    BY <1>3 DEF LogPush
  <2> QED BY <2>1, <2>2, <2>3, <2>4 DEF LogTexts
<1>4. CASE ~ s.full /\ ~ (Bytes(s.out) + 6 > cap)
  <2>1. /\ IsText(Push(s.out, Escape(c)))
        /\ Bytes(Push(s.out, Escape(c))) = Bytes(s.out) + Bytes(Escape(c) \cup {0})
        /\ Bytes(Escape(c) \cup {0}) \in 0 .. 6
    BY <1>1, EscapeText, PushText
  <2>2. Push(s.out, Escape(c)) \in AllTexts
    BY <2>1 DEF AllTexts, IsText
  <2>3. Bytes(Push(s.out, Escape(c))) <= cap + 0
    BY <1>1, <1>4, <2>1
  <2>4. LogPush(s, c, cap) = [out |-> Push(s.out, Escape(c)), full |-> FALSE]
    BY <1>4 DEF LogPush
  <2> QED BY <2>2, <2>3, <2>4 DEF LogTexts
<1> QED BY <1>2, <1>3, <1>4

LEMMA LoggedText ==
  ASSUME NEW text \in Seq(Chars), NEW cap \in Nat
  PROVE  /\ IsText(sanitize_for_log(text, cap))
         /\ Bytes(sanitize_for_log(text, cap)) <= cap + LogMarkerBytes
<1> DEFINE n == Len(text)
           first == [out |-> {0}, full |-> FALSE]
           Acc(f) == [i \in 0 .. n |-> IF i = 0 THEN first ELSE LogPush(f[i - 1], text[i], cap)]
           acc == CHOOSE f : f = Acc(f)
           S == LogTexts(cap)
           step == [p \in (1 .. n) \X S |-> LogPush(p[2], text[p[1]], cap)]
<1>1. n \in Nat /\ \A i \in 1 .. n : text[i] \in Chars
  OBVIOUS
<1>2. ASSUME NEW i \in 1 .. n, NEW s \in S
      PROVE  LogPush(s, text[i], cap) \in S
  BY <1>1, LogPushFits
<1>3. first \in S
  <2>1. {0} \in AllTexts /\ Bytes({0}) = 0
    BY EmptyText DEF AllTexts
  <2>2. Bytes({0}) <= cap + 0
    BY <2>1
  <2> HIDE DEF S
  <2>3. first \in [out : AllTexts, full : BOOLEAN] /\ first.out = {0} /\ ~ first.full
    BY <2>1
  <2> HIDE DEF first
  <2> QED BY <2>2, <2>3 DEF S, LogTexts
<1>4. step \in [(1 .. n) \X S -> S]
  <2> HIDE DEF S
  <2> QED BY <1>2
<1>5. PICK f \in [0 .. n -> S] : Unrolls(f, n, first, step)
  <2>1. n \in Nat
    BY <1>1
  <2> HIDE DEF step, n, first, S
  <2> QED BY <1>3, <1>4, <2>1, Iterated
<1>6. f = Acc(f)
  <2> HIDE DEF S, first
  <2>1. ASSUME NEW i \in 1 .. n
        PROVE  step[<<i, f[i - 1]>>] = LogPush(f[i - 1], text[i], cap)
    <3>1. i - 1 \in 0 .. n
      BY <1>1
    <3>2. f[i - 1] \in S
      BY <1>5, <3>1
    <3>3. \A s \in S : step[<<i, s>>] = LogPush(s, text[i], cap)
      OBVIOUS
    <3> HIDE DEF step
    <3> QED BY <3>2, <3>3
  <2> HIDE DEF step, n
  <2> QED BY <1>5, <2>1 DEF Unrolls
<1>7. acc = Acc(acc)
  <2> HIDE DEF Acc
  <2> QED BY <1>6
<1>8. sanitize_for_log(text, cap) = acc[n].out
  BY DEF sanitize_for_log
<1> HIDE DEF acc, step, S, first
<1>9. acc[0] \in S /\ \A i \in 1 .. n : acc[i - 1] \in S => acc[i] \in S
  <2>1. acc[0] = first /\ \A i \in 1 .. n : acc[i] = LogPush(acc[i - 1], text[i], cap)
    BY <1>1, <1>7
  <2> QED BY <1>2, <1>3, <2>1
<1>10. acc[n] \in S
  <2>1. n \in Nat /\ n \in 0 .. n
    BY <1>1
  <2> HIDE DEF n
  <2>2. \A i \in 0 .. n : acc[i] \in S
    BY <1>9, <2>1, KeptAlong
  <2> QED BY <2>1, <2>2
<1>11. IsText(acc[n].out) /\ Bytes(acc[n].out) <= cap + (IF acc[n].full THEN LogMarkerBytes ELSE 0)
  BY <1>10 DEF S, LogTexts, AllTexts
<1>12. Bytes(acc[n].out) \in Nat
  BY <1>11, TextBytes
<1> QED BY <1>8, <1>11, <1>12 DEF LogMarkerBytes

-----------------------------------------------------------------------------

LEMMA FloorIs ==
  ASSUME NEW s, IsText(s), NEW idx \in Nat
  PROVE  LET cut == char_boundary_floor(s, idx)
         IN  /\ cut \in Nat /\ cut <= Bytes(s)
             /\ idx >= Bytes(s) => cut = Bytes(s)
             /\ idx < Bytes(s) => cut <= idx /\ idx - cut < 4
<1> DEFINE cut == char_boundary_floor(s, idx)
           B == {b \in s : b <= idx}
           D == {idx - b : b \in B}
<1>1. Bytes(s) \in Nat /\ (\A b \in s : b \in Nat /\ b <= Bytes(s)) /\ 0 \in s
  BY TextBytes DEF IsText
<1>2. CASE idx >= Bytes(s)
  BY <1>1, <1>2 DEF char_boundary_floor
<1>3. CASE idx < Bytes(s)
  <2>1. \A b \in B : b \in Nat /\ b <= idx
    BY <1>1
  <2>2. D \in SUBSET Nat /\ D # {}
    BY <1>1, <2>1
  <2>3. PICK d \in D : \A k \in D : d <= k
    <3> HIDE DEF D
    <3> QED BY <2>2, LeastElement
  <2>4. PICK m \in B : d = idx - m
    BY <2>3
  <2>5. \A b \in B : b <= m
    BY <2>1, <2>3, <2>4
  <2>6. Max(B) = m
    <3>1. B \in SUBSET Nat
      BY <2>1
    <3> HIDE DEF B
    <3> QED BY <2>4, <2>5, <3>1, MaxIs
  <2>7. cut = m
    BY <1>1, <1>3, <2>6 DEF char_boundary_floor
  <2>8. PICK b \in s : b <= idx /\ idx - b < 4
    <3>1. idx \in 0 .. Bytes(s)
      BY <1>1, <1>3
    <3> QED BY <3>1 DEF IsText
  <2>9. b \in B
    BY <2>8
  <2>10. m \in Nat /\ m <= idx /\ m <= Bytes(s)
    BY <1>1, <2>1, <2>4
  <2>11. idx - m < 4
    BY <1>1, <2>5, <2>8, <2>9, <2>10
  <2> QED BY <1>1, <1>3, <2>7, <2>10, <2>11
<1> QED BY <1>1, <1>2, <1>3

LEMMA CeilIs ==
  ASSUME NEW s, IsText(s), NEW idx \in Nat
  PROVE  LET cut == char_boundary_ceil(s, idx)
         IN  /\ cut \in Nat /\ cut <= Bytes(s)
             /\ idx <= Bytes(s) => idx <= cut
<1> DEFINE cut == char_boundary_ceil(s, idx)
           B == {b \in s : b >= idx}
<1>1. Bytes(s) \in s /\ Bytes(s) \in Nat /\ \A b \in s : b \in Nat /\ b <= Bytes(s)
  BY TextBytes
<1>2. CASE idx >= Bytes(s)
  BY <1>1, <1>2 DEF char_boundary_ceil
<1>3. CASE idx < Bytes(s)
  <2>1. B \in SUBSET Nat /\ B # {}
    BY <1>1, <1>3
  <2>2. PICK m \in B : \A k \in B : m <= k
    <3> HIDE DEF B
    <3> QED BY <2>1, LeastElement
  <2>3. Min(B) = m
    <3>1. \A x \in B : (\A y \in B : x <= y) => x = m
      BY <2>1, <2>2
    <3> HIDE DEF B
    <3> QED BY <2>2, <3>1, Zenon DEF Min
  <2>4. cut = m
    BY <1>1, <1>3, <2>3 DEF char_boundary_ceil
  <2> QED BY <1>1, <1>3, <2>2, <2>4
<1> QED BY <1>1, <1>2, <1>3

(* The stored body of a run: at most max bytes of it are kept, head and    *)
(* tail do not overlap, and the marker tells exactly what is missing.      *)
THEOREM StoredBodyFits ==
  ASSUME NEW text \in Seq(Chars), NEW max \in Nat
  PROVE  LET s == truncate_response_body(text, max)
         IN  /\ s.head <= s.tail
             /\ s.head + (s.all - s.tail) <= max
             /\ s.told = s.tail - s.head
             /\ s.all <= max <=> s.told = 0
<1> DEFINE clean == sanitize_for_persistence(text)
           all == Bytes(clean)
           half == max \div 2
           head == char_boundary_floor(clean, half)
           tail == char_boundary_ceil(clean, SaturatingSub(all, half))
           s == truncate_response_body(text, max)
<1>1. IsText(clean)
  BY PersistedText
<1>2. all \in Nat
  BY <1>1, TextBytes
<1>3. half \in Nat /\ 2 * half <= max
  OBVIOUS
<1>4. CASE all <= max
  <2>1. s = [all |-> all, head |-> all, tail |-> all, told |-> 0]
    BY <1>4 DEF truncate_response_body
  <2> HIDE DEF all, s
  <2> QED BY <1>2, <1>4, <2>1 DEF s
<1>5. CASE ~ (all <= max)
  <2>1. s = [all |-> all, head |-> head, tail |-> tail, told |-> all - (head + (all - tail))]
    BY <1>5 DEF truncate_response_body
  <2>2. half < all /\ SaturatingSub(all, half) = all - half /\ all - half \in Nat
    <3> HIDE DEF all
    <3> QED BY <1>2, <1>3, <1>5 DEF SaturatingSub
  <2>3. head \in Nat /\ head <= half
    <3> HIDE DEF half, clean
    <3> QED BY <1>1, <1>2, <1>3, <2>2, FloorIs
  <2>4. tail \in Nat /\ tail <= all /\ all - half <= tail
    <3>1. ASSUME NEW i \in Nat, i <= all
          PROVE  LET c == char_boundary_ceil(clean, i) IN c \in Nat /\ c <= all /\ i <= c
      <4> HIDE DEF clean
      <4> QED BY <1>1, <3>1, CeilIs
    <3> HIDE DEF clean, half, all
    <3>2. all - half <= all
      BY <1>2, <1>3
    <3> QED BY <2>2, <3>1, <3>2
  <2> HIDE DEF all, half, head, tail, s
  <2> QED BY <1>2, <1>3, <1>5, <2>1, <2>2, <2>3, <2>4 DEF s
<1> QED BY <1>4, <1>5

(* The text in the message of a failed attempt: bounded by the log's cap   *)
(* and by the message's, apart from their markers, and a cut loses fewer   *)
(* than four bytes to a character's boundary.                              *)
THEOREM ErrorTextFits ==
  ASSUME NEW text \in Seq(Chars), NEW cap \in Nat, NEW max \in Nat
  PROVE  LET t == truncate(sanitize_for_log(text, cap), max)
         IN  /\ t.all <= cap + LogMarkerBytes
             /\ ErrorLength(t) <= max + ErrorMarker
             /\ t.cut < t.all => max - t.cut < 4
<1> DEFINE clean == sanitize_for_log(text, cap)
           cut == char_boundary_floor(clean, max)
           t == truncate(clean, max)
<1>1. IsText(clean) /\ Bytes(clean) <= cap + LogMarkerBytes
  BY LoggedText
<1> HIDE DEF clean
<1>2. Bytes(clean) \in Nat
  BY <1>1, TextBytes
<1>3. /\ cut \in Nat /\ cut <= Bytes(clean)
      /\ max >= Bytes(clean) => cut = Bytes(clean)
      /\ max < Bytes(clean) => cut <= max /\ max - cut < 4
  BY <1>1, FloorIs
<1>4. t = [all |-> Bytes(clean), cut |-> cut]
  BY DEF truncate
<1>5. ErrorLength(t) = cut + (IF cut < Bytes(clean) THEN ErrorMarker ELSE 0)
  BY <1>4 DEF ErrorLength
<1> HIDE DEF cut, t
<1>6. ErrorLength(t) <= max + ErrorMarker
  BY <1>2, <1>3, <1>5 DEF ErrorMarker
<1>7. t.cut < t.all => max - t.cut < 4
  BY <1>2, <1>3, <1>4
<1>8. t.all <= cap + LogMarkerBytes
  BY <1>1, <1>4
<1> QED BY <1>6, <1>7, <1>8 DEF t, clean

-----------------------------------------------------------------------------
(* Fires.                                                                  *)

OnTheWay == {"headers", "sent", "success", "failure", "toolarge"}
Gone     == {"sent", "success", "failure", "toolarge"}

(* An address that the policy lets a request for this URL go to.           *)
Fit(ip, url) == ~ InNeverNet(ip) /\ (InLocalNet(ip) => IsAllowlisted(cfg, url))

Fired ==
  /\ DOMAIN fire = {"stage", "spec", "vetted", "kept", "began", "read"}
  /\ fire.stage \in {"none", "preflight", "refused", "unresolved", "header"} \cup OnTheWay
  /\ fire.began \in [EnvNames -> Nat] /\ \A v \in EnvNames : fire.began[v] <= rotated[v]
  /\ fire.stage # "none" => fire.spec \in GoodSpecs /\ fire.spec.type = "http"
  /\ fire.stage = "header" => \E v \in fire.spec.vars : v \in EnvNames /\ rotated[v] # 0
  /\ fire.stage \in Gone =>
       \A v \in fire.spec.vars :
         /\ v \in EnvNames
         /\ fire.read[v] \in HeaderValues \/ (fire.read[v] = "empty" /\ rotated[v] # 0)
         /\ rotated[v] = fire.began[v] => fire.read[v] = environ[v]
  /\ cfg.block /\ fire.stage \in OnTheWay => \A ip \in fire.vetted : Fit(ip, fire.spec.url)

FInv == IInv /\ Fired

-----------------------------------------------------------------------------

(* What into_spec has made sure of for an HTTP job.                        *)
LEMMA HttpJob ==
  ASSUME NEW spec \in GoodSpecs, spec.type = "http"
  PROVE  /\ spec.url.kind \in {"name", "address"}
         /\ spec.url.kind = "address" =>
              /\ spec.url.host \in Addresses
              /\ cfg.block => ~ is_private_or_local(spec.url.host)
         /\ spec.names \cap FORBIDDEN_HEADERS = {}
         /\ \A v \in spec.vars :
              v \in EnvNames /\ (rotated[v] = 0 => environ[v] \in HeaderValues)
<1>1. PICK raw \in RawJobs, e \in EarlierEnvs : spec = JobSpec(raw) /\ Accepted(raw, cfg, e)
  BY DEF GoodSpecs
<1>2. spec.type = raw.type
  BY <1>1 DEF JobSpec
<1>3. UrlAccepted(raw, cfg) /\ HeadersAccepted(raw, e)
  BY <1>1, <1>2 DEF Accepted
<1>4. /\ spec.url = raw.url
      /\ spec.vars = {h.var : h \in raw.headerEnvs}
      /\ spec.names = {LowerCase[h.name] : h \in raw.headers \cup raw.headerEnvs}
  BY <1>1, <1>2 DEF JobSpec
<1>5. /\ spec.url.kind \in {"name", "address"}
      /\ spec.url.kind = "address" =>
           /\ spec.url.host \in Addresses
           /\ cfg.block => ~ is_private_or_local(spec.url.host)
  BY <1>3, <1>4, RawJobsAssumption DEF UrlAccepted
<1>6. spec.names \cap FORBIDDEN_HEADERS = {}
  <2>1. \A h \in raw.headers \cup raw.headerEnvs : LowerCase[h.name] \notin FORBIDDEN_HEADERS
    BY <1>3, Zenon DEF HeadersAccepted, HeaderEnvsAccepted, NameAccepted
  <2> QED BY <1>4, <2>1
<1>7. \A v \in spec.vars : v \in EnvNames /\ (rotated[v] = 0 => environ[v] \in HeaderValues)
  <2>1. \A v \in spec.vars : v \in EnvNames /\ e[v] \in HeaderValues
    BY <1>3, <1>4 DEF HeadersAccepted, HeaderEnvsAccepted
  <2> QED BY <2>1 DEF EarlierEnvs
<1> QED BY <1>5, <1>6, <1>7

(* An address that neither of the two checks refuses.                      *)
LEMMA NotRefused ==
  ASSUME NEW ip \in Addresses, NEW url, ~ ssrf_refuses(ip, IsAllowlisted(cfg, url))
  PROVE  Fit(ip, url)
BY AlwaysBlockedExact, PrivateExact, Zenon DEF ssrf_refuses, Fit

LEMMA NotPrivate ==
  ASSUME NEW ip \in Addresses, NEW url, ~ is_private_or_local(ip)
  PROVE  Fit(ip, url)
BY PrivateExact, Zenon DEF Fit

-----------------------------------------------------------------------------

LEMMA FiredAtFirst == Init => Fired
<1> SUFFICES ASSUME Init
             PROVE  Fired
  OBVIOUS
<1>1. fire = NoFire /\ rotated = [v \in EnvNames |-> 0]
  BY DEF Init, FireInit, LoadInit
<1> QED BY <1>1 DEF NoFire, Fired, OnTheWay, Gone

Still == UNCHANGED <<cfg, environ, rotated>>

(* The attempt goes on, with what it is about and what it has read.        *)
LEMMA FireMoves ==
  ASSUME Fired, Still, fire.stage # "none", DOMAIN fire' = DOMAIN fire,
         NEW how \in {"refused", "unresolved"} \cup OnTheWay, fire'.stage = how,
         fire'.spec = fire.spec, fire'.began = fire.began, fire'.read = fire.read,
         how \in Gone => fire.stage \in Gone,
         cfg.block /\ how \in OnTheWay => \A ip \in fire'.vetted : Fit(ip, fire.spec.url)
  PROVE  Fired'
<1>1. UNCHANGED <<cfg, environ, rotated>>
  BY DEF Still
<1>2. GoodSpecs' = GoodSpecs
  BY <1>1, SpecsKept
<1>3. \A ip, url : Fit(ip, url)' <=> Fit(ip, url)
  BY <1>1 DEF Fit
<1> QED BY <1>1, <1>2, <1>3 DEF Fired, OnTheWay

(* The stage of the attempt changes, and nothing else.                     *)
LEMMA FireStaged ==
  ASSUME Fired, Still, NEW how \in {"refused", "unresolved"} \cup OnTheWay, FireEnds(how),
         fire.stage # "none", how \in OnTheWay => fire.stage \in OnTheWay,
         how \in Gone => fire.stage \in Gone
  PROVE  Fired'
<1>1. /\ DOMAIN fire' = DOMAIN fire /\ fire'.stage = how /\ fire'.spec = fire.spec
      /\ fire'.vetted = fire.vetted /\ fire'.began = fire.began /\ fire'.read = fire.read
  BY DEF FireEnds, Fired
<1>2. cfg.block /\ how \in OnTheWay => \A ip \in fire'.vetted : Fit(ip, fire.spec.url)
  BY <1>1 DEF Fired
<1> QED BY <1>1, <1>2, FireMoves

LEMMA PreflightKeeps ==
  ASSUME Fired, Still, Preflight(cfg)
  PROVE  Fired'
<1> DEFINE spec == fire.spec
           url == spec.url
<1>1. fire.stage = "preflight" /\ spec \in GoodSpecs /\ spec.type = "http"
  BY DEF Preflight, Fired
<1>2. /\ url.kind \in {"name", "address"}
      /\ url.kind = "address" => /\ url.host \in Addresses
                                 /\ cfg.block => ~ is_private_or_local(url.host)
  BY <1>1, HttpJob
<1>3. ASSUME NEW ips, cfg.block => \A ip \in ips : Fit(ip, url),
             fire' = [fire EXCEPT !.stage = "headers", !.vetted = ips]
      PROVE  Fired'
  <2>1. /\ DOMAIN fire' = DOMAIN fire /\ fire'.stage = "headers" /\ fire'.spec = fire.spec
        /\ fire'.vetted = ips /\ fire'.began = fire.began /\ fire'.read = fire.read
    BY <1>3 DEF Fired
  <2>2. "headers" \in OnTheWay /\ "headers" \notin Gone
    BY DEF OnTheWay, Gone
  <2> QED BY <1>1, <1>3, <2>1, <2>2, FireMoves
<1>4. CASE ~ cfg.block \/ Trusted(url)
  <2> DEFINE ips == IF url.kind = "address" THEN {url.host} ELSE {}
  <2>1. fire' = [fire EXCEPT !.stage = "headers", !.vetted = ips]
    BY <1>4 DEF Preflight
  <2>2. cfg.block => \A ip \in ips : Fit(ip, url)
    BY <1>2, NotPrivate
  <2> HIDE DEF ips
  <2> QED BY <1>3, <2>1, <2>2
<1>5. CASE ~ (~ cfg.block \/ Trusted(url))
  <2>1. PICK ips \in IF url.kind = "address" THEN {{url.host}} ELSE Lookups :
          IF \E ip \in ips : ssrf_refuses(ip, IsAllowlisted(cfg, url))
          THEN FireEnds("refused")
          ELSE fire' = [fire EXCEPT !.stage = "headers", !.vetted = ips]
    BY <1>5 DEF Preflight
  <2>2. \A ip \in ips : ip \in Addresses
    BY <1>2, LookupsAssumption
  <2>3. CASE \E ip \in ips : ssrf_refuses(ip, IsAllowlisted(cfg, url))
    BY <1>1, <2>1, <2>3, FireStaged DEF OnTheWay, Gone
  <2>4. CASE ~ \E ip \in ips : ssrf_refuses(ip, IsAllowlisted(cfg, url))
    <3>1. \A ip \in ips : Fit(ip, url)
      BY <2>2, <2>4, NotRefused
    <3> QED BY <1>3, <2>1, <2>4, <3>1
  <2> QED BY <2>3, <2>4
<1> QED BY <1>4, <1>5

LEMMA AttachKeeps ==
  ASSUME Fired, Still, environ \in [EnvNames -> VarStates], AttachHeaders(cfg, environ)
  PROVE  Fired'
<1>1. fire.stage = "headers" /\ fire.spec \in GoodSpecs /\ fire.spec.type = "http"
  BY DEF AttachHeaders, Fired
<1>2. \A v \in fire.spec.vars :
        v \in EnvNames /\ (rotated[v] = 0 => environ[v] \in HeaderValues)
  BY <1>1, HttpJob
<1>3. GoodSpecs' = GoodSpecs /\ (\A ip, url : Fit(ip, url)' <=> Fit(ip, url))
      /\ UNCHANGED <<cfg, environ, rotated>>
  BY SpecsKept DEF Fit, Still
<1>4. CASE \E v \in fire.spec.vars : v \notin EnvNames \/ environ[v] \in {"unset", "garbled"}
  <2>1. PICK v \in fire.spec.vars : environ[v] \in {"unset", "garbled"}
    BY <1>2, <1>4
  <2>2. v \in EnvNames /\ rotated[v] # 0
    BY <1>2, <2>1 DEF HeaderValues
  <2>3. /\ DOMAIN fire' = DOMAIN fire /\ fire'.stage = "header" /\ fire'.spec = fire.spec
        /\ fire'.began = fire.began
    BY <1>4 DEF AttachHeaders, FireEnds, Fired
  <2> QED BY <1>1, <1>3, <2>2, <2>3 DEF Fired, OnTheWay, Gone
<1>5. CASE ~ \E v \in fire.spec.vars : v \notin EnvNames \/ environ[v] \in {"unset", "garbled"}
  <2>1. \A v \in fire.spec.vars :
          environ[v] \in HeaderValues \/ (environ[v] = "empty" /\ rotated[v] # 0)
    BY <1>2, <1>5 DEF VarStates, HeaderValues
  <2>2. /\ DOMAIN fire' = DOMAIN fire /\ fire'.stage = "sent" /\ fire'.spec = fire.spec
        /\ fire'.began = fire.began /\ fire'.read = environ /\ fire'.vetted = fire.vetted
    BY <1>5 DEF AttachHeaders, Fired
  <2> QED BY <1>1, <1>2, <1>3, <2>1, <2>2 DEF Fired, OnTheWay, Gone
<1> QED BY <1>4, <1>5

LEMMA FireStepKeeps ==
  ASSUME Fired, Still, environ \in [EnvNames -> VarStates], FireStep(cfg, environ)
  PROVE  Fired'
<1>1. CASE LookupFails(cfg)
  BY <1>1, FireStaged DEF LookupFails, OnTheWay, Gone
<1>2. CASE AttachHeaders(cfg, environ)
  BY <1>2, AttachKeeps
<1>3. ASSUME NEW body, NEW ok, Answered(cfg, body, ok)
      PROVE  Fired'
  <2>1. fire.stage = "sent"
    BY <1>3 DEF Answered
  <2>2. CASE FireEnds("toolarge")
    BY <2>1, <2>2, FireStaged DEF OnTheWay, Gone
  <2>3. ASSUME NEW how \in {"success", "failure"}, NEW text,
               fire' = [fire EXCEPT !.stage = how, !.kept = text]
        PROVE  Fired'
    <3>1. /\ DOMAIN fire' = DOMAIN fire /\ fire'.stage = how /\ fire'.spec = fire.spec
          /\ fire'.vetted = fire.vetted /\ fire'.began = fire.began /\ fire'.read = fire.read
      BY <2>3 DEF Fired
    <3>2. cfg.block => \A ip \in fire'.vetted : Fit(ip, fire.spec.url)
      BY <2>1, <3>1 DEF Fired, OnTheWay
    <3>3. how \in OnTheWay /\ fire.stage \in Gone
      BY <2>1, <2>3 DEF OnTheWay, Gone
    <3> QED BY <2>1, <3>1, <3>2, <3>3, FireMoves
  <2> QED BY <1>3, <2>2, <2>3 DEF Answered
<1> QED BY <1>1, <1>2, <1>3, PreflightKeeps DEF FireStep

LEMMA FireBeginsKeeps ==
  ASSUME Fired, Still, rotated \in [EnvNames -> Nat], NEW spec \in GoodSpecs,
         FireBegins(spec, rotated)
  PROVE  Fired'
<1>1. /\ DOMAIN fire' = DOMAIN fire /\ fire'.stage = "preflight" /\ fire'.spec = spec
      /\ spec.type = "http" /\ fire'.began = rotated
  BY DEF FireBegins, Fired
<1>2. GoodSpecs' = GoodSpecs /\ rotated' = rotated
  BY SpecsKept DEF Still
<1> QED BY <1>1, <1>2 DEF Fired, OnTheWay, Gone

(* A variable changes while an attempt is under way, or after it.          *)
LEMMA RotateKeeps ==
  ASSUME IInv, Fired, OperatorRotates
  PROVE  Fired'
<1>1. PICK v \in EnvNames, s \in VarStates : Rotate(v, s)
  BY DEF OperatorRotates
<1>2. fire' = fire /\ cfg' = cfg
  BY <1>1 DEF OperatorRotates, Rotate
<1>3. rotated \in [EnvNames -> Nat] /\ environ \in [EnvNames -> VarStates]
  BY Assembled DEF Stocked
<1>4. /\ \A w \in EnvNames : w # v => rotated'[w] = rotated[w] /\ environ'[w] = environ[w]
      /\ rotated'[v] = rotated[v] + 1
  BY <1>1, <1>3 DEF Rotate
<1>5. \A w \in EnvNames : fire.began[w] <= rotated'[w] /\ (rotated[w] # 0 => rotated'[w] # 0)
  BY <1>3, <1>4 DEF Fired
<1>6. \A w \in EnvNames : rotated'[w] = fire.began[w] =>
        rotated[w] = fire.began[w] /\ environ'[w] = environ[w]
  BY <1>3, <1>4 DEF Fired
<1>7. GoodSpecs \subseteq GoodSpecs' /\ \A ip, url : Fit(ip, url)' <=> Fit(ip, url)
  BY <1>1, <1>2, SpecsGrow, Assembled DEF Fit
<1>8. fire.stage = "header" => \E w \in fire.spec.vars : w \in EnvNames /\ rotated'[w] # 0
  BY <1>5 DEF Fired
<1>9. fire.stage \in Gone =>
        \A w \in fire.spec.vars :
          /\ w \in EnvNames
          /\ fire.read[w] \in HeaderValues \/ (fire.read[w] = "empty" /\ rotated'[w] # 0)
          /\ rotated'[w] = fire.began[w] => fire.read[w] = environ'[w]
  BY <1>5, <1>6 DEF Fired
<1> QED BY <1>2, <1>5, <1>7, <1>8, <1>9 DEF Fired

LEMMA FiredKept == FInv /\ [Next]_vars => FInv'
<1> SUFFICES ASSUME FInv, [Next]_vars
             PROVE  FInv'
  OBVIOUS
<1>1. IInv' /\ IInv /\ Fired
  BY NextKeeps DEF FInv
<1>2. CASE JobFires
  <2>1. Still /\ environ \in [EnvNames -> VarStates] /\ rotated \in [EnvNames -> Nat]
    BY <1>1, <1>2, Assembled DEF JobFires, loadVars, Still, Stocked
  <2>2. \A k \in DOMAIN jobs : jobs[k] \in GoodSpecs
    BY <1>1, Assembled DEF Registry
  <2>3. Fired'
    BY <1>1, <1>2, <2>1, <2>2, FireBeginsKeeps, FireStepKeeps DEF JobFires
  <2> QED BY <1>1, <2>3 DEF FInv
<1>3. ASSUME UNCHANGED <<fire, cfg, environ, rotated>>
      PROVE  FInv'
  <2>1. GoodSpecs' = GoodSpecs
    BY <1>3, SpecsKept
  <2>2. \A ip, url : Fit(ip, url)' <=> Fit(ip, url)
    BY <1>3 DEF Fit
  <2>3. Fired'
    BY <1>1, <1>3, <2>1, <2>2 DEF Fired
  <2> QED BY <1>1, <2>3 DEF FInv
<1>4. CASE UNCHANGED vars
  BY <1>3, <1>4 DEF vars, loadVars
<1>5. CASE OperatorEdits
  BY <1>3, <1>5 DEF OperatorEdits, Edit
<1>6. CASE LoadGoesOn
  BY <1>3, <1>6 DEF LoadGoesOn, LoadStep, LoadMisses
<1>7. CASE ApiStep /\ UNCHANGED fire
  <2>1. UNCHANGED <<cfg, environ, rotated>>
    BY <1>7 DEF ApiStep, Arrive, Await, LoadReturns, LoadTimesOut, Deadline, ClientLeaves,
                SectionStep, DispatchEnds, Signal, Drained, Exit, loadVars
  <2> QED BY <1>3, <1>7, <2>1
<1>8. CASE OperatorRotates
  BY <1>1, <1>8, RotateKeeps DEF FInv
<1> QED BY <1>2, <1>4, <1>5, <1>6, <1>7, <1>8 DEF Next

LEMMA FireInvariant == Spec => []FInv
<1>1. Init => FInv
  BY InitHolds, FiredAtFirst DEF FInv
<1> QED BY <1>1, FiredKept, PTL DEF Spec

(* With block_private_networks no request goes out whose literal host, or  *)
(* one of the addresses that the pre-flight got for its host, is in one of *)
(* the reference networks, whichever of the loader and the pre-flight was  *)
(* to look at it, except a local one of a host that is listed: for every   *)
(* IPv4 and IPv6 address, every job file and every answer that the         *)
(* resolver gives the pre-flight.  What the client resolves to connect,    *)
(* and the documentation ranges, are outside of it.                        *)
THEOREM ScreenedBeforeSent == Spec => []FiresOnlyScreened
<1>1. FInv => FiresOnlyScreened
  BY DEF FInv, Fired, FiresOnlyScreened, OnTheWay, Fit
<1> QED BY <1>1, FireInvariant, PTL

(* However often and whenever the variables change: a request that goes    *)
(* out carries what its variables are, unless they changed after the fire  *)
(* had begun, and only header values; a fire fails for want of one, or     *)
(* sends an empty one, only if it has changed since the service started.   *)
THEOREM HeadersAreFresh == Spec => []HeadersFresh
<1>1. FInv => HeadersFresh
  <2> SUFFICES ASSUME FInv
               PROVE  HeadersFresh
    OBVIOUS
  <2>1. \A v \in EnvNames : rotated[v] # 0 => rotated[v] > 0
    BY Assembled DEF FInv, Stocked
  <2>2. fire.stage = "header" => \E v \in fire.spec.vars : rotated[v] > 0
    BY <2>1 DEF FInv, Fired
  <2>3. CASE fire.stage \in Gone
    <3>1. fire.spec \in GoodSpecs /\ fire.spec.type = "http"
      BY <2>3 DEF FInv, Fired, Gone
    <3>2. fire.spec.names \cap FORBIDDEN_HEADERS = {}
      BY <3>1, HttpJob
    <3>3. \A v \in fire.spec.vars :
            /\ fire.read[v] \in HeaderValues \/ (fire.read[v] = "empty" /\ rotated[v] > 0)
            /\ rotated[v] = fire.began[v] => fire.read[v] = environ[v]
      BY <2>1, <2>3 DEF FInv, Fired
    <3> QED BY <2>2, <3>2, <3>3 DEF HeadersFresh
  <2> QED BY <2>2, <2>3 DEF HeadersFresh, Gone
<1> QED BY <1>1, FireInvariant, PTL

-----------------------------------------------------------------------------
(* What is kept of an answer.                                              *)

LEMMA BodiesAreTexts ==
  ASSUME NEW body \in Bodies(cfg)
  PROVE  body \in Seq(Chars)
<1>1. PICK m \in 0 .. cfg.maxChars : body \in [1 .. m -> Chars]
  BY DEF Bodies, SeqOf
<1> QED BY <1>1

(* A fire whose text is not kept, or not kept yet.                         *)
LEMMA NothingKept ==
  ASSUME Fired, NEW how, how \notin {"success", "failure"}, NEW ips, NEW spec, NEW n, NEW e,
         fire' = [fire EXCEPT !.stage = how] \/ fire' = [fire EXCEPT !.stage = how, !.vetted = ips]
         \/ fire' = [fire EXCEPT !.stage = how, !.spec = spec, !.began = n]
         \/ fire' = [fire EXCEPT !.stage = how, !.read = e]
  PROVE  KeptTextFits'
<1>1. fire'.stage = how
  BY DEF Fired
<1> QED BY <1>1 DEF KeptTextFits

LEMMA AnsweredKeeps ==
  ASSUME IInv, Fired, cfg' = cfg, NEW body \in Bodies(cfg), NEW ok, Answered(cfg, body, ok)
  PROVE  KeptTextFits'
<1>1. /\ cfg.maxStored \in Nat /\ cfg.maxLog \in Nat /\ cfg.maxError \in Nat
      /\ body \in Seq(Chars)
  BY CapsAssumption, BodiesAreTexts DEF IInv, Stocked
<1>2. CASE FireEnds("toolarge")
  BY <1>2, NothingKept DEF FireEnds
<1>3. CASE fire' = [fire EXCEPT !.stage = "success",
                                !.kept = truncate_response_body(body, cfg.maxStored)]
  <2> DEFINE s == truncate_response_body(body, cfg.maxStored)
  <2>1. /\ s.head <= s.tail
        /\ s.head + (s.all - s.tail) <= cfg.maxStored
        /\ s.told = s.tail - s.head
        /\ s.all <= cfg.maxStored <=> s.told = 0
    BY <1>1, StoredBodyFits
  <2> HIDE DEF s
  <2>2. fire'.stage = "success" /\ fire'.kept = s
    BY <1>3 DEF Fired, s
  <2> QED BY <2>1, <2>2 DEF KeptTextFits
<1>4. CASE fire' = [fire EXCEPT !.stage = "failure",
                                !.kept = truncate(sanitize_for_log(body, cfg.maxLog), cfg.maxError)]
  <2> DEFINE t == truncate(sanitize_for_log(body, cfg.maxLog), cfg.maxError)
  <2>1. /\ t.all <= cfg.maxLog + LogMarkerBytes
        /\ ErrorLength(t) <= cfg.maxError + ErrorMarker
        /\ t.cut < t.all => cfg.maxError - t.cut < 4
    BY <1>1, ErrorTextFits
  <2> HIDE DEF t
  <2>2. fire'.stage = "failure" /\ fire'.kept = t
    BY <1>4 DEF Fired, t
  <2> QED BY <2>1, <2>2 DEF KeptTextFits
<1> QED BY <1>2, <1>3, <1>4 DEF Answered

LEMMA TextsKept == FInv /\ KeptTextFits /\ [Next]_vars => KeptTextFits'
<1> SUFFICES ASSUME FInv, KeptTextFits, [Next]_vars
             PROVE  KeptTextFits'
  OBVIOUS
<1>1. IInv /\ Fired
  BY DEF FInv
<1>2. ASSUME UNCHANGED <<fire, cfg>>
      PROVE  KeptTextFits'
  BY <1>2 DEF KeptTextFits
<1>3. CASE JobFires
  <2>1. cfg' = cfg
    BY <1>3 DEF JobFires, loadVars
  <2>2. CASE \E k \in DOMAIN jobs : FireBegins(jobs[k], rotated)
    <3>1. fire'.stage = "preflight"
      BY <1>1, <2>2 DEF FireBegins, Fired
    <3> QED BY <3>1 DEF KeptTextFits
  <2>3. CASE Preflight(cfg)
    BY <1>1, <2>3, NothingKept DEF Preflight, FireEnds
  <2>4. CASE LookupFails(cfg) \/ AttachHeaders(cfg, environ)
    <3>1. \/ fire' = [fire EXCEPT !.stage = "unresolved"]
          \/ fire' = [fire EXCEPT !.stage = "header"]
          \/ fire' = [fire EXCEPT !.stage = "sent", !.read = environ]
      BY <2>4 DEF LookupFails, AttachHeaders, FireEnds
    <3> QED BY <1>1, <3>1, NothingKept
  <2>5. CASE \E body \in Bodies(cfg), ok \in BOOLEAN : Answered(cfg, body, ok)
    BY <1>1, <2>1, <2>5, AnsweredKeeps
  <2> QED BY <1>3, <2>2, <2>3, <2>4, <2>5 DEF JobFires, FireStep
<1>4. CASE UNCHANGED vars
  BY <1>2, <1>4 DEF vars, loadVars
<1>5. CASE OperatorEdits
  BY <1>2, <1>5 DEF OperatorEdits, Edit
<1>6. CASE LoadGoesOn
  BY <1>2, <1>6 DEF LoadGoesOn, LoadStep, LoadMisses
<1>7. CASE ApiStep /\ UNCHANGED fire
  <2>1. cfg' = cfg
    BY <1>7 DEF ApiStep, Arrive, Await, LoadReturns, LoadTimesOut, Deadline, ClientLeaves,
                SectionStep, DispatchEnds, Signal, Drained, Exit, loadVars
  <2> QED BY <1>2, <1>7, <2>1
<1>8. CASE OperatorRotates
  BY <1>2, <1>8 DEF OperatorRotates, Rotate
<1> QED BY <1>3, <1>4, <1>5, <1>6, <1>7, <1>8 DEF Next

(* What a run leaves behind is bounded and honest, for every answer, byte  *)
(* by byte, and every setting of the caps: the stored body and the text in *)
(* the error message stay within them, and what is missing is told.        *)
THEOREM KeptTextsFit == Spec => []KeptTextFits
<1>1. Init => KeptTextFits
  BY DEF Init, FireInit, NoFire, KeptTextFits
<1> QED BY <1>1, TextsKept, FireInvariant, PTL DEF Spec
=============================================================================

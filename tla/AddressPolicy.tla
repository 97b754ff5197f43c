---------------------------- MODULE AddressPolicy ----------------------------
(***************************************************************************)
(* Which addresses an HTTP job may talk to: is_private_or_local,           *)
(* is_always_blocked and normalize_allowed_host of src/src/security.rs,    *)
(* and the fire-time verdict of src/src/executor/http.rs.                  *)
(*                                                                         *)
(* Nothing here keeps state.  An address is a record with the octets of an *)
(* IPv4 or the segments of an IPv6 address, as the code sees them.         *)
(***************************************************************************)
EXTENDS Integers, Sequences

Octet    == 0 .. 255
Segment  == 0 .. 65535
Octets   == [1 .. 4 -> Octet]
Segments == [1 .. 8 -> Segment]

IPv4(o) == [version |-> 4, parts |-> o]
IPv6(s) == [version |-> 6, parts |-> s]

Addresses == [version : {4}, parts : Octets] \cup [version : {6}, parts : Segments]

-----------------------------------------------------------------------------
(* The predicates of std::net::Ipv4Addr and Ipv6Addr.                      *)

IsLoopback4(o)    == o[1] = 127
IsLinkLocal4(o)   == o[1] = 169 /\ o[2] = 254
IsPrivate4(o)     == \/ o[1] = 10
                     \/ o[1] = 172 /\ o[2] \in 16..31
                     \/ o[1] = 192 /\ o[2] = 168
IsUnspecified4(o) == \A i \in 1..4 : o[i] = 0
IsMulticast4(o)   == o[1] \in 224..239
IsBroadcast4(o)   == \A i \in 1..4 : o[i] = 255

IsUnspecified6(s) == \A i \in 1..8 : s[i] = 0
IsLoopback6(s)    == (\A i \in 1..7 : s[i] = 0) /\ s[8] = 1
IsMulticast6(s)   == s[1] \div 256 = 255

(* to_ipv4_mapped: ::ffff:a.b.c.d.                                         *)
IsMapped(s) == (\A i \in 1..5 : s[i] = 0) /\ s[6] = 65535
Unwrap(s)   == <<s[7] \div 256, s[7] % 256, s[8] \div 256, s[8] % 256>>

-----------------------------------------------------------------------------
(* security.rs.                                                            *)

(* Carrier-grade NAT, which is_private does not know.                      *)
IsSharedNat(o) == o[1] = 100 /\ o[2] \in 64..127

PrivateV4(o) ==
  \/ IsLoopback4(o) \/ IsLinkLocal4(o) \/ IsPrivate4(o) \/ IsUnspecified4(o)
  \/ IsSharedNat(o)
  \/ IsMulticast4(o) \/ IsBroadcast4(o)

(* The masks ffc0 and fe00 on the first segment.                           *)
IsLinkLocal6(s)   == s[1] \div 64 = 1018
IsUniqueLocal6(s) == s[1] \div 512 = 126

PrivateV6(s) ==
  \/ IsLoopback6(s) \/ IsUnspecified6(s) \/ IsMulticast6(s)
  \/ IF IsMapped(s) THEN PrivateV4(Unwrap(s))
     ELSE IsLinkLocal6(s) \/ IsUniqueLocal6(s)

is_private_or_local(ip) ==
  IF ip.version = 4 THEN PrivateV4(ip.parts) ELSE PrivateV6(ip.parts)

BlockedV4(o) ==
  IsLinkLocal4(o) \/ IsUnspecified4(o) \/ IsMulticast4(o) \/ IsBroadcast4(o)

(* fd00:ec2::254.                                                          *)
IsImds6(s) ==
  s[1] = 64768 /\ s[2] = 3778 /\ (\A i \in 3..7 : s[i] = 0) /\ s[8] = 596

BlockedV6(s) ==
  IF IsMapped(s) THEN BlockedV4(Unwrap(s))
  ELSE \/ IsUnspecified6(s) \/ IsMulticast6(s)
       \/ IsLinkLocal6(s) \/ IsImds6(s)

is_always_blocked(ip) ==
  IF ip.version = 4 THEN BlockedV4(ip.parts) ELSE BlockedV6(ip.parts)

(* normalize_allowed_host and split_allowed_private_hosts: an entry of     *)
(* security.allowed_private_hosts that is blank, an IP literal or has a    *)
(* character no host name has is dropped; of the others only the host name *)
(* stays, without the white space, the capitals and the trailing dots.     *)
HostForms == {"plain", "capitals", "dotted", "blank", "literal", "wildcard"}

AllowedHosts(entries) ==
  {e.host : e \in {x \in entries : x.form \in {"plain", "capitals", "dotted"}}}

-----------------------------------------------------------------------------
(* executor/http.rs.                                                       *)

ssrf_refuses(ip, allowlisted) ==
  IF allowlisted THEN is_always_blocked(ip) ELSE is_private_or_local(ip)

-----------------------------------------------------------------------------
(* The reference: the networks that the rules stand for, by their blocks   *)
(* in the RFCs.  Never covers what the comment of is_always_blocked names, *)
(* Local the loopback, private, shared and unique local networks.  The     *)
(* comment of is_private_or_local also names the documentation ranges, as  *)
(* "included": no rule of the code is about them.                          *)

(* A network: the values that each of the leading parts of its addresses   *)
(* may have; the other parts may be anything.                              *)
InNet(p, net) == \A i \in DOMAIN net : p[i] \in net[i]

NeverNets4 == {<<{169}, {254}>>, <<{0}, {0}, {0}, {0}>>, <<224 .. 239>>,
               <<{255}, {255}, {255}, {255}>>}
LocalNets4 == {<<{127}>>, <<{10}>>, <<{172}, 16 .. 31>>, <<{192}, {168}>>,
               <<{100}, 64 .. 127>>}
DocumentationNets4 == {<<{192}, {0}, {2}>>, <<{198}, {51}, {100}>>, <<{203}, {0}, {113}>>}

NeverNets6 == {<<{0}, {0}, {0}, {0}, {0}, {0}, {0}, {0}>>, <<65280 .. 65535>>,
               <<65152 .. 65215>>,
               <<{64768}, {3778}, {0}, {0}, {0}, {0}, {0}, {596}>>}
LocalNets6 == {<<{0}, {0}, {0}, {0}, {0}, {0}, {0}, {1}>>, <<64512 .. 65023>>}

(* The address that packets to ip go to.                                   *)
Actual(ip) ==
  IF ip.version = 6 /\ IsMapped(ip.parts) THEN IPv4(Unwrap(ip.parts)) ELSE ip

InNeverNet(ip) ==
  LET a == Actual(ip)
  IN  IF a.version = 4 THEN \E n \in NeverNets4 : InNet(a.parts, n)
      ELSE \E n \in NeverNets6 : InNet(a.parts, n)

InLocalNet(ip) ==
  LET a == Actual(ip)
  IN  IF a.version = 4 THEN \E n \in LocalNets4 : InNet(a.parts, n)
      ELSE \E n \in LocalNets6 : InNet(a.parts, n)

InDocumentationNet(ip) ==
  LET a == Actual(ip)
  IN  a.version = 4 /\ \E n \in DocumentationNets4 : InNet(a.parts, n)
=============================================================================

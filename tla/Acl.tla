--------------------------------- MODULE Acl ---------------------------------
(***************************************************************************)
(* Who may ask: the rules of dns/acl.rs, and the LAN that netinfo.rs finds *)
(* in the routing table, which the "private" stance trusts as well.        *)
(*                                                                         *)
(* An address is a family and a number of Bits bits, the width standing    *)
(* for 32 and 128.  Which numbers are loopback or private is a matter of   *)
(* the constants; an IPv4-mapped address does not occur, because the IPv6  *)
(* sockets are V6ONLY.                                                     *)
(***************************************************************************)
EXTENDS Integers, SequencesExt

CONSTANTS
    Bits,
    LoopbackAddrs, PrivateAddrs,   \* sets of addresses
    NoSubnet                       \* None

ASSUME AclAssumption ==
    /\ Bits \in Nat \ {0}
    /\ \A k \in 0..Bits : 2^k \in Nat \ {0}
    /\ LoopbackAddrs \cup PrivateAddrs \subseteq [v6 : BOOLEAN, n : 0..(2^Bits - 1)]

Addrs == [v6 : BOOLEAN, n : 0..(2^Bits - 1)]

Cidr(v6, network, prefix) ==
    [rule |-> "cidr", v6 |-> v6, network |-> network, prefix |-> prefix]
Keyword(word) == [rule |-> word]

(* An entry of dns.allow_from: a CIDR of any prefix, or a word; "nonsense" *)
(* stands for all that are neither a keyword nor a CIDR.  Entries are in   *)
(* their plain spelling, Cidr(FALSE, 0, 0) being "0.0.0.0/0".              *)
Entry ==
    [rule : {"loopback", "private", "any", "nonsense"}]
        \cup [rule : {"cidr"}, v6 : BOOLEAN, network : 0..(2^Bits - 1), prefix : Nat]

----------------------------------------------------------------------------
(* v4_in, v6_in, Subnet::contains: compare under the mask; the shift by    *)
(* the full width is kept out by the test for 0.                           *)
Within(n, network, prefix) ==
    \/ prefix = 0
    \/ n \div 2^(Bits - prefix) = network \div 2^(Bits - prefix)

(* Acl::parse and parse_cidr: entries are keywords, CIDRs, or neither. *)
ParsesAcl(entries) ==
    \A e \in Range(entries) :
        \/ e.rule \in {"loopback", "private", "any"}
        \/ e.rule = "cidr" /\ e.prefix <= Bits

(* "0.0.0.0/0" is a keyword, Rule::Any; any other CIDR of prefix 0 is a    *)
(* rule for its own family.                                                *)
RuleOf(entry) == IF entry = Cidr(FALSE, 0, 0) THEN Keyword("any") ELSE entry

Parsed(entries) == [i \in DOMAIN entries |-> RuleOf(entries[i])]

IsPrivate(a) == a \in PrivateAddrs

Matches(rule, a) ==
    CASE rule.rule = "any"      -> TRUE
      [] rule.rule = "loopback" -> a \in LoopbackAddrs
      [] rule.rule = "private"  -> IsPrivate(a) \/ a \in LoopbackAddrs
      [] rule.rule = "cidr"     -> /\ a.v6 = rule.v6
                                   /\ Within(a.n, rule.network, rule.prefix)

(* Acl::allows; no rules mean "private". *)
AclAllows(rules, a) ==
    IF rules = <<>> THEN Matches(Keyword("private"), a)
    ELSE \E r \in Range(rules) : Matches(r, a)

PrivateStance(rules) == rules = <<>> \/ Keyword("private") \in Range(rules)

(* Faulty variant: the LAN is trusted whatever the operator wrote. *)
TrustAnySubnet(rules, lan) ==
    IF AclAllows(rules, [v6 |-> FALSE, n |-> lan.network]) THEN rules
    ELSE Append(rules, Cidr(FALSE, lan.network, lan.prefix))

(* Acl::trust_subnet.  With no rules the pushed rule would be the only     *)
(* one, so that the default no longer applies.                             *)
TrustSubnet(rules, lan) ==
    IF PrivateStance(rules) /\ ~AclAllows(rules, [v6 |-> FALSE, n |-> lan.network])
    THEN Append(rules, Cidr(FALSE, lan.network, lan.prefix))
    ELSE rules

----------------------------------------------------------------------------
(* /proc/net/route: rows of interface, destination, gateway and prefix,    *)
(* 0 for "none".  special marks link-local and multicast destinations.     *)

(* parse_default_route: the first row to 0 with a gateway. *)
DefaultRoute(routes) ==
    SelectSeq(routes, LAMBDA r : r.dest = 0 /\ r.gateway # 0)

OnLink(routes, iface) ==
    SelectSeq(routes, LAMBDA r : /\ r.iface = iface /\ r.gateway = 0
                                 /\ r.dest # 0 /\ ~r.special)

(* parse_lan_subnet: the most specific on-link row, the first of equals. *)
LanSubnet(routes, iface) ==
    FoldLeft(LAMBDA best, r :
                IF best = NoSubnet \/ r.prefix > best.prefix
                THEN [network |-> r.dest, prefix |-> r.prefix] ELSE best,
             NoSubnet, OnLink(routes, iface))

DetectedLan(routes) ==
    IF DefaultRoute(routes) = <<>> THEN NoSubnet
    ELSE LanSubnet(routes, DefaultRoute(routes)[1].iface)
=============================================================================

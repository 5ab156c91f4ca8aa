---------------------------- MODULE StartupProofs ----------------------------
(***************************************************************************)
(* Theorems about the start of the process, for any launches, retry window *)
(* and back-off, and for addresses of any width: a conflict over a port    *)
(* that is over before the window is never makes the process exit, and a   *)
(* running resolver serves whom the operator meant it to.                  *)
(***************************************************************************)
EXTENDS Startup, TLAPS

----------------------------------------------------------------------------
(* Binding *)

PortStates == {"free", "taken", "denied"}

(* A listener that is about to fail: its port is denied, or taken with the *)
(* window over.                                                            *)
Doomed(l) ==
    /\ sock[l] = "waiting"
    /\ port[l] = "denied" \/ (port[l] = "taken" /\ time >= Window)

BindInv ==
    /\ port \in [Listeners -> PortStates]
    /\ sock \in [Listeners -> {"off", "waiting", "bound"}]
    /\ time \in Nat
    /\ proc # "running" => time = 0 /\ sock = AllOff
    /\ (\E l \in Listeners : Doomed(l)) => late
    /\ RidesOutConflict

LEMMA WindowIsOpen == Window \in Nat \ {0}
BY StartupAssumption

LEMMA ExitKeepsBindInv ==
    ASSUME BindInv, NEW why, Exit(why), why = "dns" => late, port' = port
    PROVE  BindInv'
BY DEF BindInv, Exit, NoProcess, AllOff, Doomed, RidesOutConflict

LEMMA StartupNextPreserves ==
    ASSUME BindInv, [StartupNext]_startupVars
    PROVE  BindInv'
<1> USE DEF BindInv
<1>1. ASSUME NEW l \in Launches, Configure(l) PROVE BindInv'
  BY <1>1, StartupAssumption DEF Configure, AllOff, Doomed, RidesOutConflict,
     Listeners, PortStates
<1>2. CASE CheckConfig
  BY <1>2 DEF CheckConfig, procVars, Doomed, RidesOutConflict
<1>3. CASE Start
  BY <1>3 DEF Start, AllOff, Doomed, RidesOutConflict
<1>4. CASE LoadConfig
  <2>1. CASE Exit("config")
    BY <1>4, <2>1, ExitKeepsBindInv DEF LoadConfig
  <2>2. CASE ~Exit("config")
    BY <1>4, <2>2 DEF LoadConfig, AllOff, Doomed, RidesOutConflict
  <2> QED BY <2>1, <2>2
<1>5. CASE OpenStorage
  <2>1. CASE Exit("storage")
    BY <1>5, <2>1, ExitKeepsBindInv DEF OpenStorage
  <2>2. CASE ~Exit("storage")
    BY <1>5, <2>2 DEF OpenStorage, AllOff, Doomed, RidesOutConflict
  <2> QED BY <2>1, <2>2
<1>6. CASE FindNetwork
  <2>1. CASE Exit("config")
    BY <1>6, <2>1, ExitKeepsBindInv DEF FindNetwork
  <2>2. CASE ~Exit("config")
    <3>1. /\ proc' = "running" /\ time' = 0 /\ port' = port
          /\ sock' = [l \in Listeners |-> IF l \in ListenersOf(Effective(launch))
                                          THEN "waiting" ELSE "off"]
          /\ late' = \E l \in ListenersOf(Effective(launch)) : port[l] = "denied"
      BY <1>6, <2>2 DEF FindNetwork, Launched
    <3> QED BY <3>1, WindowIsOpen DEF Doomed, RidesOutConflict
  <2> QED BY <2>1, <2>2
<1>7. CASE SystemdRestarts
  BY <1>7 DEF SystemdRestarts, AllOff, Doomed, RidesOutConflict
<1>8. ASSUME NEW l \in Listeners, Attempt(l) PROVE BindInv'
  <2>1. CASE Bind(l)
    BY <2>1 DEF Bind, Due, Doomed, RidesOutConflict
  <2>2. CASE BindBusy(l)
    BY <2>2 DEF BindBusy, Due, Doomed, RidesOutConflict
  <2>3. CASE BindFails(l)
    <3>1. late
      BY <2>3, WindowIsOpen DEF BindFails, Due, Retries, Doomed
    <3> QED BY <2>3, <3>1, ExitKeepsBindInv DEF BindFails
  <2> QED BY <1>8, <2>1, <2>2, <2>3 DEF Attempt
<1>9. ASSUME NEW a \in AuxTasks, AuxFails(a) PROVE BindInv'
  BY <1>9 DEF AuxFails, Doomed, RidesOutConflict
<1>10. CASE Shutdown
  BY <1>10 DEF Shutdown, NoProcess, AllOff, Doomed, RidesOutConflict
<1>11. CASE TimePasses
  <2>1. /\ proc = "running" /\ proc' = proc /\ time' = time + 1
        /\ UNCHANGED <<port, sock, reason>>
        /\ late' = (late \/ (time' >= Window /\ \E l \in Waiting : port[l] = "taken"))
    BY <1>11 DEF TimePasses
  <2>2. ASSUME NEW l \in Listeners, Doomed(l)' PROVE late'
    BY <2>1, <2>2 DEF Doomed, Waiting
  <2> QED BY <2>1, <2>2 DEF RidesOutConflict
<1>12. ASSUME NEW l \in Listeners, NEW to \in {"free", "taken"}, PortChanges(l, to)
       PROVE  BindInv'
  <2>1. /\ proc = "running" /\ port' = [port EXCEPT ![l] = to]
        /\ UNCHANGED <<proc, time, sock, reason>>
        /\ late' = (late \/ (to = "taken" /\ time >= Window))
    BY <1>12 DEF PortChanges
  <2>2. port' \in [Listeners -> PortStates]
    BY <2>1 DEF PortStates
  <2>3. ASSUME NEW m \in Listeners, Doomed(m)' PROVE late'
    BY <2>1, <2>3 DEF Doomed
  <2> QED BY <2>1, <2>2, <2>3 DEF RidesOutConflict
<1>13. CASE UNCHANGED startupVars
  BY <1>13 DEF startupVars, procVars, Doomed, RidesOutConflict
<1> QED BY <1>1, <1>2, <1>3, <1>4, <1>5, <1>6, <1>7, <1>8, <1>9, <1>10, <1>11,
           <1>12, <1>13 DEF StartupNext, Process

(* A conflict over a DNS port makes the process exit only if the port was  *)
(* denied, or still or again taken when the window was over, for every     *)
(* window and back-off and however other processes take and free ports.    *)
THEOREM ConflictsRiddenOut == StartupSpec => []RidesOutConflict
<1>1. StartupInit => BindInv
  BY DEF StartupInit, BindInv, AllOff, PortStates, Doomed, RidesOutConflict
<1>2. BindInv /\ [StartupNext]_startupVars => BindInv'
  BY StartupNextPreserves
<1>3. BindInv => RidesOutConflict
  BY DEF BindInv
<1> QED BY <1>1, <1>2, <1>3, PTL DEF StartupSpec

----------------------------------------------------------------------------
(* Who is served: the mask and the range *)

(* Two numbers share a quotient exactly when one is in the block of the    *)
(* other.                                                                  *)
LEMMA SameBlock ==
    ASSUME NEW n \in Nat, NEW m \in Nat, NEW s \in Nat \ {0}
    PROVE  n \div s = m \div s <=> n \in (m - (m % s))..(m - (m % s) + s - 1)
<1> DEFINE q == n \div s  p == m \div s
<1>1. q \in Nat /\ p \in Nat /\ q * s \in Nat /\ p * s \in Nat
  OBVIOUS
<1>2. m - (m % s) = p * s /\ q * s <= n /\ n < q * s + s /\ m % s \in Nat
  OBVIOUS
<1> HIDE DEF q, p
<1>3. ASSUME q < p PROVE q * s + s <= p * s
  <2>1. p - q - 1 \in Nat /\ (p - q - 1) * s \in Nat
    BY <1>1, <1>3
  <2>2. (p - q - 1) * s = p * s - q * s - s
    BY <1>1
  <2> QED BY <1>1, <2>1, <2>2
<1>4. ASSUME p < q PROVE p * s + s <= q * s
  <2>1. q - p - 1 \in Nat /\ (q - p - 1) * s \in Nat
    BY <1>1, <1>4
  <2>2. (q - p - 1) * s = q * s - p * s - s
    BY <1>1
  <2> QED BY <1>1, <2>1, <2>2
<1>5. q = p <=> n \in (p * s)..(p * s + s - 1)
  BY <1>1, <1>2, <1>3, <1>4
<1> QED BY <1>2, <1>5 DEF q, p

(* The mask of v4_in and v6_in matches the addresses a CIDR names. *)
LEMMA MaskIsRange ==
    ASSUME NEW a \in Addrs, NEW v6 \in BOOLEAN, NEW network \in 0..(2^Bits - 1),
           NEW prefix \in 0..Bits
    PROVE  a \in Block(v6, network, prefix) <=>
               a.v6 = v6 /\ Within(a.n, network, prefix)
<1> DEFINE size == 2^(Bits - prefix)
           base == network - (network % size)
<1>1. 2^Bits \in Nat \ {0} /\ size \in Nat \ {0} /\ Bits \in Nat
  BY AclAssumption
<1>2. a.n \in Nat /\ network \in Nat /\ a.n < 2^Bits /\ network < 2^Bits
  BY <1>1 DEF Addrs
<1>3. Block(v6, network, prefix) =
        {b \in Addrs : b.v6 = v6 /\ b.n \in base..(base + size - 1)}
  BY DEF Block
<1>4. Within(a.n, network, prefix) <=> a.n \in base..(base + size - 1)
  <2>1. CASE prefix = 0
    <3>1. size = 2^Bits
      BY <1>1, <2>1
    <3>2. network % size = network
      BY <1>1, <1>2, <3>1
    <3> QED BY <1>1, <1>2, <2>1, <3>1, <3>2 DEF Within
  <2>2. CASE prefix # 0
    <3>1. Within(a.n, network, prefix) <=> a.n \div size = network \div size
      BY <2>2 DEF Within
    <3> HIDE DEF size
    <3>2. a.n \div size = network \div size <=>
            a.n \in (network - (network % size))..(network - (network % size) + size - 1)
      BY <1>1, <1>2, SameBlock
    <3> QED BY <3>1, <3>2
  <2> QED BY <2>1, <2>2
<1> QED BY <1>3, <1>4

----------------------------------------------------------------------------
(* Who is served: the rules *)

(* Entries that Acl::parse accepts. *)
Good(entries) == entries \in Seq(Entry) /\ ParsesAcl(entries)

(* What the keywords mean. *)
LEMMA MeaningOfWords ==
    ASSUME NEW e
    PROVE  /\ e.rule = "any" => Meaning(e) = Addrs
           /\ e.rule = "loopback" => Meaning(e) = LoopbackAddrs
           /\ e.rule = "private" => Meaning(e) = PrivateAddrs \cup LoopbackAddrs
<1>1. Cidr(FALSE, 0, 0).rule = "cidr"
  BY DEF Cidr
<1>2. e.rule \in {"any", "loopback", "private"} => e # Cidr(FALSE, 0, 0)
  BY <1>1
<1> QED BY <1>2 DEF Meaning

LEMMA MeaningOfPrivate == Meaning(Keyword("private")) = PrivateAddrs \cup LoopbackAddrs
BY MeaningOfWords DEF Keyword

(* What Acl::parse makes of a good entry matches exactly the addresses the *)
(* entry names.                                                            *)
LEMMA MatchesWhatItSays ==
    ASSUME NEW entries, Good(entries), NEW e \in Range(entries), NEW a \in Addrs
    PROVE  Matches(RuleOf(e), a) <=> a \in Meaning(e)
<1>1. e \in Entry
  BY DEF Good, Range
<1>2. \/ e.rule \in {"loopback", "private", "any"}
      \/ e.rule = "cidr" /\ e.prefix <= Bits
  BY DEF Good, ParsesAcl
<1>3. CASE e.rule = "cidr" /\ e # Cidr(FALSE, 0, 0)
  <2>1. e \in [rule : {"cidr"}, v6 : BOOLEAN, network : 0..(2^Bits - 1), prefix : Nat]
    BY <1>1, <1>3 DEF Entry
  <2>2. e.prefix \in 0..Bits
    BY <1>2, <1>3, <2>1, AclAssumption
  <2>3. RuleOf(e) = e
    BY <1>3 DEF RuleOf
  <2>4. Matches(e, a) <=> a.v6 = e.v6 /\ Within(a.n, e.network, e.prefix)
    BY <1>3 DEF Matches
  <2>5. Meaning(e) = Block(e.v6, e.network, e.prefix)
    BY <1>3 DEF Meaning
  <2>6. a \in Block(e.v6, e.network, e.prefix) <=>
            a.v6 = e.v6 /\ Within(a.n, e.network, e.prefix)
    BY <2>1, <2>2, MaskIsRange
  <2> QED BY <2>3, <2>4, <2>5, <2>6
<1>4. CASE e = Cidr(FALSE, 0, 0)
  <2>1. RuleOf(e).rule = "any"
    BY <1>4 DEF RuleOf, Keyword
  <2>2. e.rule = "cidr"
    BY <1>4 DEF Cidr
  <2>3. Meaning(e) = Addrs
    BY <1>4, <2>2 DEF Meaning
  <2> QED BY <2>1, <2>3 DEF Matches
<1>5. CASE e.rule \in {"loopback", "private", "any"}
  <2>1. RuleOf(e) = e
    <3>1. Cidr(FALSE, 0, 0).rule = "cidr"
      BY DEF Cidr
    <3> QED BY <1>5, <3>1 DEF RuleOf
  <2>2. CASE e.rule = "any"
    BY <2>1, <2>2, MeaningOfWords DEF Matches
  <2>3. CASE e.rule = "loopback"
    BY <2>1, <2>3, MeaningOfWords DEF Matches
  <2>4. CASE e.rule = "private"
    BY <2>1, <2>4, MeaningOfWords DEF Matches, IsPrivate
  <2> QED BY <1>5, <2>2, <2>3, <2>4
<1> QED BY <1>2, <1>3, <1>4, <1>5

(* Parsing keeps the list as it is but for "0.0.0.0/0". *)
LEMMA ParsedShape ==
    ASSUME NEW entries, Good(entries)
    PROVE  /\ Parsed(entries) \in Seq(Entry)
           /\ Parsed(entries) = <<>> <=> entries = <<>>
           /\ Range(Parsed(entries)) = {RuleOf(e) : e \in Range(entries)}
           /\ PrivateStance(Parsed(entries)) <=> PrivateStance(entries)
<1>1. entries \in Seq(Entry) /\ DOMAIN entries = 1..Len(entries) /\ Len(entries) \in Nat
  BY DEF Good
<1>2. ASSUME NEW e \in Entry PROVE RuleOf(e) \in Entry
  <2>1. Keyword("any") \in Entry
    BY DEF Keyword, Entry
  <2> QED BY <2>1 DEF RuleOf
<1>3. Parsed(entries) = [i \in 1..Len(entries) |-> RuleOf(entries[i])]
  BY <1>1 DEF Parsed
<1>4. \A i \in 1..Len(entries) : RuleOf(entries[i]) \in Entry
  BY <1>1, <1>2
<1>5. Parsed(entries) \in Seq(Entry) /\ Len(Parsed(entries)) = Len(entries)
  BY <1>1, <1>3, <1>4
<1>6. Parsed(entries) = <<>> <=> entries = <<>>
  BY <1>1, <1>5
<1>7. Range(Parsed(entries)) = {RuleOf(e) : e \in Range(entries)}
  BY <1>1, <1>3 DEF Range
<1>8. ASSUME NEW e PROVE RuleOf(e) = Keyword("private") <=> e = Keyword("private")
  <2>1. /\ Cidr(FALSE, 0, 0).rule = "cidr" /\ Keyword("any").rule = "any"
        /\ Keyword("private").rule = "private"
    BY DEF Cidr, Keyword
  <2>2. Keyword("any") # Keyword("private") /\ Cidr(FALSE, 0, 0) # Keyword("private")
    BY <2>1
  <2> QED BY <2>2 DEF RuleOf
<1>9. Keyword("private") \in Range(Parsed(entries)) <=> Keyword("private") \in Range(entries)
  BY <1>7, <1>8
<1> QED BY <1>5, <1>6, <1>7, <1>9 DEF PrivateStance

(* Some rule parsed from the list matches a. *)
SomeMatches(entries, a) == \E r \in Range(Parsed(entries)) : Matches(r, a)

LEMMA AllowsWhatIsMeant ==
    ASSUME NEW entries, Good(entries), NEW a \in Addrs
    PROVE  /\ AclAllows(Parsed(entries), a) <=> a \in Meant(entries)
           /\ entries # <<>> => (SomeMatches(entries, a) <=> a \in Meant(entries))
           /\ entries = <<>> => ~SomeMatches(entries, a)
<1>1. CASE entries = <<>>
  <2>1. Parsed(entries) = <<>> /\ Range(Parsed(entries)) = {}
    BY <1>1, ParsedShape DEF Range
  <2>2. Matches(Keyword("private"), a) <=> a \in Meaning(Keyword("private"))
    BY MeaningOfPrivate DEF Matches, Keyword, IsPrivate
  <2> QED BY <1>1, <2>1, <2>2 DEF AclAllows, Meant, SomeMatches
<1>2. CASE entries # <<>>
  <2>1. /\ Parsed(entries) # <<>>
        /\ Range(Parsed(entries)) = {RuleOf(e) : e \in Range(entries)}
    BY <1>2, ParsedShape
  <2>2. AclAllows(Parsed(entries), a) <=> SomeMatches(entries, a)
    BY <2>1 DEF AclAllows, SomeMatches
  <2>3. SomeMatches(entries, a) <=> \E e \in Range(entries) : Matches(RuleOf(e), a)
    BY <2>1 DEF SomeMatches
  <2>4. a \in Meant(entries) <=> \E e \in Range(entries) : a \in Meaning(e)
    BY <1>2 DEF Meant
  <2> QED BY <1>2, <2>2, <2>3, <2>4, MatchesWhatItSays
<1> QED BY <1>1, <1>2

LEMMA RangeOfAppend ==
    ASSUME NEW S, NEW q \in Seq(S), NEW e \in S
    PROVE  Append(q, e) \in Seq(S) /\ Range(Append(q, e)) = Range(q) \cup {e}
           /\ Append(q, e) # <<>>
<1>1. \A i \in 1..Len(q) : Append(q, e)[i] = q[i]
  OBVIOUS
<1>2. Append(q, e) \in Seq(S) /\ Len(Append(q, e)) = Len(q) + 1
      /\ Append(q, e)[Len(q) + 1] = e /\ Len(q) \in Nat
  OBVIOUS
<1>3. 1..(Len(q) + 1) = 1..Len(q) \cup {Len(q) + 1}
  BY <1>2
<1>4. DOMAIN q = 1..Len(q) /\ DOMAIN Append(q, e) = 1..(Len(q) + 1)
  OBVIOUS
<1> QED BY <1>1, <1>2, <1>3, <1>4 DEF Range

(* Rules with the LAN pushed behind them: those and the LAN, and no longer *)
(* the default for none.                                                   *)
LEMMA WithLanPushed ==
    ASSUME NEW entries, Good(entries),
           NEW lan \in [network : 0..(2^Bits - 1), prefix : 0..Bits], NEW a \in Addrs
    PROVE  AclAllows(Append(Parsed(entries), Cidr(FALSE, lan.network, lan.prefix)), a) <=>
               SomeMatches(entries, a) \/ a \in Block(FALSE, lan.network, lan.prefix)
<1> DEFINE c == Cidr(FALSE, lan.network, lan.prefix)
           rules == Parsed(entries)
<1>1. c \in Entry
  <2>1. lan.network \in 0..(2^Bits - 1) /\ lan.prefix \in Nat /\ lan.prefix <= Bits
    BY AclAssumption
  <2> QED BY <2>1 DEF Cidr, Entry
<1>2. Matches(c, a) <=> a.v6 = FALSE /\ Within(a.n, lan.network, lan.prefix)
  BY DEF Matches, Cidr
<1>3. a \in Block(FALSE, lan.network, lan.prefix) <=>
          a.v6 = FALSE /\ Within(a.n, lan.network, lan.prefix)
  BY MaskIsRange
<1>4. rules \in Seq(Entry)
  BY ParsedShape
<1> HIDE DEF c, rules
<1>5. /\ Append(rules, c) # <<>>
      /\ Range(Append(rules, c)) = Range(rules) \cup {c}
  BY <1>1, <1>4, RangeOfAppend
<1>6. AclAllows(Append(rules, c), a) <=>
          (\E r \in Range(rules) : Matches(r, a)) \/ Matches(c, a)
  BY <1>5 DEF AclAllows
<1> QED BY <1>2, <1>3, <1>6 DEF c, rules, SomeMatches

(* The network address of a LAN is one of its addresses. *)
LEMMA NetworkInLan ==
    ASSUME NEW lan \in [network : 0..(2^Bits - 1), prefix : 0..Bits]
    PROVE  [v6 |-> FALSE, n |-> lan.network] \in Block(FALSE, lan.network, lan.prefix)
<1> DEFINE home == [v6 |-> FALSE, n |-> lan.network]
<1>1. home \in Addrs /\ home.v6 = FALSE /\ home.n = lan.network
  BY DEF Addrs
<1>2. Within(home.n, lan.network, lan.prefix)
  BY <1>1 DEF Within
<1> QED BY <1>1, <1>2, MaskIsRange

----------------------------------------------------------------------------
(* Who is served: the launches *)

(* The configuration a running process has. *)
LEMMA ConfigIsGood ==
    ASSUME NEW l \in Launches, Loads(l)
    PROVE  Good(Effective(l).allow_from)
<1>1. Effective(l).allow_from = Loaded(l).allow_from
  BY DEF Effective, Loaded, DefaultConfig
<1>2. CASE l.file = "missing"
  <2>1. Loaded(l).allow_from = <<Keyword("loopback"), Keyword("private")>>
    BY <1>2 DEF Loaded, DefaultConfig
  <2>2. Keyword("loopback") \in Entry /\ Keyword("private") \in Entry
    BY DEF Keyword, Entry
  <2>3. ParsesAcl(<<Keyword("loopback"), Keyword("private")>>)
    <3>1. Range(<<Keyword("loopback"), Keyword("private")>>)
             = {Keyword("loopback"), Keyword("private")}
      BY DEF Range
    <3> QED BY <3>1 DEF ParsesAcl, Keyword
  <2> QED BY <1>1, <2>1, <2>2, <2>3 DEF Good
<1>3. CASE l.file = "present" /\ Validates(l.config)
  BY <1>1, <1>3, StartupAssumption DEF Loaded, Validates, Good
<1> QED BY <1>2, <1>3 DEF Loads

(* What the rules of the resolver serve, for every launch. *)
LEMMA RulesServeWhoWasMeant ==
    ASSUME NEW l \in Launches, Loads(l), Effective(l).subnet # Malformed
    PROVE  LET entries == Effective(l).allow_from
               lan     == LanAddrs(l)
               served  == {a \in Addrs : AclAllows(ResolverAcl(l), a)}
           IN  /\ entries # <<>> \/ lan \subseteq Meant(entries)
                     => Meant(entries) \subseteq served
               /\ served \subseteq Meant(entries)
                     \cup (IF PrivateStance(entries) THEN lan ELSE {})
               /\ PrivateStance(entries) /\ (\A e \in Range(entries) : e.rule # "cidr")
                     => lan \subseteq served
<1> DEFINE entries == Effective(l).allow_from
           lan     == SubnetOf(l)
           home    == [v6 |-> FALSE, n |-> lan.network]
           served  == {a \in Addrs : AclAllows(ResolverAcl(l), a)}
<1>1. Good(entries)
  BY ConfigIsGood
<1>2. \A a \in Addrs : AclAllows(Parsed(entries), a) <=> a \in Meant(entries)
  BY <1>1, AllowsWhatIsMeant
<1>3. Meant(entries) \subseteq Addrs /\ LanAddrs(l) \subseteq Addrs
  <2>1. \A e : Meaning(e) \subseteq Addrs
    BY AclAssumption DEF Meaning, Addrs, Block
  <2> QED BY <2>1 DEF Meant, LanAddrs, Block
<1>4. ASSUME lan # NoSubnet
      PROVE  /\ lan \in [network : 0..(2^Bits - 1), prefix : 0..Bits]
             /\ LanAddrs(l) = Block(FALSE, lan.network, lan.prefix)
             /\ home \in LanAddrs(l)
  <2>1. lan \in [network : 0..(2^Bits - 1), prefix : 0..Bits]
    BY <1>4, LanAssumption
  <2>2. LanAddrs(l) = Block(FALSE, lan.network, lan.prefix)
    BY <1>4 DEF LanAddrs
  <2> HIDE DEF lan
  <2> QED BY <2>1, <2>2, NetworkInLan
<1>5. CASE ResolverAcl(l) = Parsed(entries) /\
           (lan = NoSubnet \/ ~PrivateStance(entries) \/ AclAllows(Parsed(entries), home))
  <2>1. served = Meant(entries)
    BY <1>2, <1>3, <1>5
  <2>2. ASSUME PrivateStance(entries), \A e \in Range(entries) : e.rule # "cidr"
        PROVE  LanAddrs(l) \subseteq served
    <3>1. PrivateAddrs \cup LoopbackAddrs \subseteq Meant(entries)
      <4>1. entries = <<>> \/ Keyword("private") \in Range(entries)
        BY <2>2 DEF PrivateStance
      <4> QED BY <4>1, MeaningOfPrivate DEF Meant
    <3>2. CASE lan = NoSubnet
      BY <3>2 DEF LanAddrs
    <3>3. CASE lan # NoSubnet
      <4>1. home \in Meant(entries)
        BY <1>2, <1>3, <1>4, <1>5, <2>2, <3>3
      <4>2. CASE home \in PrivateAddrs \cup LoopbackAddrs
        <5>1. LanAddrs(l) \subseteq PrivateAddrs \cup LoopbackAddrs
          BY <3>3, <4>2, LanAssumption
        <5> QED BY <2>1, <3>1, <5>1
      <4>3. CASE home \notin PrivateAddrs \cup LoopbackAddrs
        <5>1. PICK e \in Range(entries) : home \in Meaning(e)
          <6>1. entries # <<>>
            BY <4>1, <4>3, MeaningOfPrivate DEF Meant
          <6> QED BY <4>1, <6>1 DEF Meant
        <5>2. e.rule \in {"loopback", "private", "any"}
          BY <1>1, <2>2 DEF Good, ParsesAcl
        <5>3. e.rule = "any"
          BY <4>3, <5>1, <5>2, MeaningOfWords
        <5>4. Addrs \subseteq Meant(entries)
          <6>1. entries # <<>>
            BY <5>1 DEF Range
          <6>2. Meaning(e) = Addrs
            BY <5>3, MeaningOfWords
          <6> QED BY <6>1, <6>2 DEF Meant
        <5> QED BY <1>3, <2>1, <5>4
      <4> QED BY <4>2, <4>3
    <3> QED BY <3>2, <3>3
  <2> QED BY <2>1, <2>2
<1>6. CASE /\ lan # NoSubnet /\ PrivateStance(entries)
           /\ ~AclAllows(Parsed(entries), home)
           /\ ResolverAcl(l) =
                 Append(Parsed(entries), Cidr(FALSE, lan.network, lan.prefix))
  <2>1. ~(LanAddrs(l) \subseteq Meant(entries))
    BY <1>2, <1>3, <1>4, <1>6
  <2> HIDE DEF entries, lan, home
  <2>2. \A a \in Addrs : AclAllows(ResolverAcl(l), a) <=>
            SomeMatches(entries, a) \/ a \in LanAddrs(l)
    BY <1>1, <1>4, <1>6, WithLanPushed
  <2>3. CASE entries = <<>>
    <3>1. served = LanAddrs(l)
      BY <1>1, <1>3, <2>2, <2>3, AllowsWhatIsMeant
    <3> QED BY <1>6, <2>1, <2>3, <3>1 DEF entries
  <2>4. CASE entries # <<>>
    <3>1. served = Meant(entries) \cup LanAddrs(l)
      BY <1>1, <1>3, <2>2, <2>4, AllowsWhatIsMeant
    <3> QED BY <1>6, <3>1 DEF entries
  <2> QED BY <2>3, <2>4
<1>7. \/ ResolverAcl(l) = Parsed(entries) /\
           (lan = NoSubnet \/ ~PrivateStance(entries) \/ AclAllows(Parsed(entries), home))
      \/ /\ lan # NoSubnet /\ PrivateStance(entries)
         /\ ~AclAllows(Parsed(entries), home)
         /\ ResolverAcl(l) =
               Append(Parsed(entries), Cidr(FALSE, lan.network, lan.prefix))
  <2>1. PrivateStance(Parsed(entries)) <=> PrivateStance(entries)
    BY <1>1, ParsedShape
  <2> QED BY <2>1 DEF ResolverAcl, TrustSubnet
<1> QED BY <1>5, <1>6, <1>7

(* What main.rs has established by the time the resolver runs. *)
AclInv ==
    /\ proc # "none" => launch \in Launches
    /\ proc \in {"storage", "network", "running"} => Loads(launch)
    /\ proc = "running" => /\ acl = ResolverAcl(launch)
                           /\ Effective(launch).subnet # Malformed

LEMMA AclNextPreserves ==
    ASSUME AclInv, [StartupNext]_startupVars
    PROVE  AclInv'
<1> USE DEF AclInv
<1>1. CASE \E l \in Launches : Configure(l)
  BY <1>1 DEF Configure
<1>2. CASE CheckConfig
  BY <1>2 DEF CheckConfig, procVars
<1>3. CASE Start \/ SystemdRestarts
  BY <1>3 DEF Start, SystemdRestarts
<1>4. CASE LoadConfig
  BY <1>4 DEF LoadConfig, Exit
<1>5. CASE OpenStorage
  BY <1>5 DEF OpenStorage, Exit
<1>6. CASE FindNetwork
  BY <1>6 DEF FindNetwork, Launched, Exit
<1>7. CASE \E l \in Listeners : Attempt(l)
  BY <1>7 DEF Attempt, Bind, BindBusy, BindFails, Due, Exit
<1>8. CASE (\E a \in AuxTasks : AuxFails(a)) \/ Shutdown \/ TimePasses
  BY <1>8 DEF AuxFails, Shutdown, TimePasses
<1>9. CASE \E l \in Listeners, to \in {"free", "taken"} : PortChanges(l, to)
  BY <1>9 DEF PortChanges
<1>10. CASE UNCHANGED startupVars
  BY <1>10 DEF startupVars, procVars
<1> QED BY <1>1, <1>2, <1>3, <1>4, <1>5, <1>6, <1>7, <1>8, <1>9, <1>10
        DEF StartupNext, Process

(* For every configuration that loads, whatever its prefixes and the       *)
(* width of an address, a running resolver serves what the operator listed *)
(* and beyond that at most the LAN, and that only under "private" or an    *)
(* empty list; the LAN is served whenever no CIDR was listed.  For an      *)
(* empty list, "serves what was meant" holds where the LAN is private.     *)
THEOREM ServedAsMeant == StartupSpec => []ServesWhoWasMeant
<1>1. StartupInit => AclInv
  BY DEF StartupInit, AclInv
<1>2. AclInv /\ [StartupNext]_startupVars => AclInv'
  BY AclNextPreserves
<1>3. ASSUME AclInv PROVE ServesWhoWasMeant
  <2> SUFFICES ASSUME proc = "running"
               PROVE  ServesWhoWasMeant
    BY DEF ServesWhoWasMeant
  <2>1. /\ launch \in Launches /\ Loads(launch) /\ Effective(launch).subnet # Malformed
        /\ acl = ResolverAcl(launch)
    BY <1>3 DEF AclInv
  <2> QED BY <2>1, RulesServeWhoWasMeant DEF ServesWhoWasMeant
<1> QED BY <1>1, <1>2, <1>3, PTL DEF StartupSpec
=============================================================================

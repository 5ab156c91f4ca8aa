------------------------------- MODULE Startup -------------------------------
(***************************************************************************)
(* The life of the process in main.rs: --check-config, loading and         *)
(* validating the configuration, opening the storage, finding the LAN,     *)
(* building the ACL, binding the DNS sockets with retries, and going down  *)
(* so that systemd starts it again.                                        *)
(*                                                                         *)
(* A launch is the operator's side: the configuration file, the flags, the *)
(* routing table of the host, and who else uses its ports.  Of the         *)
(* configuration only what can stop a start, or decides who is served, is  *)
(* kept.  The time is that since the process began; a timer may fire late. *)
(* Reading the lists and the device table cannot stop a start (Lists,      *)
(* Devices).  systemd is external, after deploy/netwatch.service.          *)
(***************************************************************************)
EXTENDS Acl

CONSTANTS
    Launches,                  \* launches an operator may set up
    Window,                    \* BIND_RETRY_WINDOW
    FirstDelay, MaxDelay,      \* the back-off of bind_with_retry
    MaxTime,                   \* bound on the time of one process
    StartLimitBurst,           \* of the unit
    NoLaunch,
    Malformed                  \* a discovery.subnet that is no CIDR

ASSUME StartupAssumption ==
    /\ {Window, FirstDelay, MaxDelay, MaxTime, StartLimitBurst} \subseteq Nat
    /\ Window > 0 /\ FirstDelay > 0 /\ MaxTime >= Window + MaxDelay
    /\ \A l \in Launches :
          /\ l.file \in {"missing", "unparsable", "present"}
          /\ l.ports \in [{"udp4", "tcp4", "udp6", "tcp6"} -> {"free", "taken", "denied"}]
          /\ l.config.allow_from \in Seq(Entry)

VARIABLES
    launch,      \* what the operator set up
    proc,        \* "none", "down", "load", "storage", "network", "running",
                 \* "exited", "stopped" or "failed"
    reason,      \* why it exited
    checked,     \* what --check-config said of the launch
    starts,      \* starts since the operator's
    acl,         \* the rules of the resolver
    sock,        \* per listener: "off", "waiting" or "bound"
    wake, delay, \* per listener: next attempt, next pause
    time,        \* since the process began
    port,        \* per listener: "free", "taken" or "denied" to us
    aux,         \* mDNS, DHCP and dashboard: "off", "active", "unavailable"
    late         \* history: a port was denied, or taken when Window was over

procVars == <<proc, reason, acl, sock, wake, delay, time, aux, late>>
startupVars == <<launch, checked, starts, port, procVars>>

Listeners == {"udp4", "tcp4", "udp6", "tcp6"}
AuxTasks == {"mdns", "dhcp", "web"}

----------------------------------------------------------------------------
(* Configuration *)

(* The rules of validate() that concern one setting each. *)
SettingRules == {"upstreams", "limits", "listen_v6", "ntfy_url", "alerts", "mode"}

(* A configuration has in faults the rules of these it breaks, then the    *)
(* entries of allow_from, where the dashboard listens and whether it has a *)
(* good token, discovery.subnet, and which listeners and tasks are wanted. *)
DefaultConfig == [faults |-> {}, allow_from |-> <<Keyword("loopback"), Keyword("private")>>,
                  web |-> "loopback", token |-> FALSE, subnet |-> NoSubnet,
                  v6 |-> FALSE, tcp |-> TRUE, aux |-> {"mdns", "web"}]

(* Config::validate *)
Validates(c) ==
    /\ c.faults = {}
    /\ ParsesAcl(c.allow_from)
    /\ c.web = "loopback" \/ c.token

(* Config::load_or_default: a missing file means the defaults. *)
Loads(l) ==
    \/ l.file = "missing"
    \/ l.file = "present" /\ Validates(l.config)

Loaded(l) == IF l.file = "missing" THEN DefaultConfig ELSE l.config

(* apply_overrides; of the overrides only --web-listen meets a rule. *)
Effective(l) ==
    IF l.web_listen = "none" THEN Loaded(l)
    ELSE [Loaded(l) EXCEPT !.web = l.web_listen]

(* check_config *)
Verdict(l) ==
    IF l.file = "missing" \/ (Loads(l) /\ Validates(Effective(l)))
    THEN "ok" ELSE "invalid"

----------------------------------------------------------------------------
AllOff == [l \in Listeners |-> "off"]
Zeros == [l \in Listeners |-> 0]

NoProcess ==
    /\ sock' = AllOff
    /\ wake' = Zeros
    /\ delay' = Zeros
    /\ time' = 0
    /\ aux' = [a \in AuxTasks |-> "off"]
    /\ acl' = <<>>

(* std::process::exit(1), or an error out of main *)
Exit(why) ==
    /\ proc' = "exited"
    /\ reason' = why
    /\ NoProcess
    /\ UNCHANGED late

Configure(l) ==
    /\ proc = "none"
    /\ launch' = l
    /\ proc' = "down"
    /\ port' = l.ports
    /\ UNCHANGED <<checked, starts, reason, acl, sock, wake, delay, time, aux, late>>

(* netwatch --check-config, before the service is started *)
CheckConfig ==
    /\ proc = "down"
    /\ checked' = Verdict(launch)
    /\ UNCHANGED <<launch, starts, port, procVars>>

(* systemctl start *)
Start ==
    /\ proc \in {"down", "stopped", "failed"}
    /\ proc' = "load"
    /\ starts' = 1
    /\ late' = FALSE
    /\ UNCHANGED <<launch, checked, port, reason, acl, sock, wake, delay, time, aux>>

LoadConfig ==
    /\ proc = "load"
    /\ \/ /\ Loads(launch)
          /\ proc' = "storage"
          /\ UNCHANGED <<reason, acl, sock, wake, delay, time, aux, late>>
       \/ ~Loads(launch) /\ Exit("config")
    /\ UNCHANGED <<launch, checked, starts, port>>

(* The state directory and two connections to the database. *)
OpenStorage ==
    /\ proc = "storage"
    /\ \/ /\ proc' = "network"
          /\ UNCHANGED <<reason, acl, sock, wake, delay, time, aux, late>>
       \/ Exit("storage")
    /\ UNCHANGED <<launch, checked, starts, port>>

ListenersOf(c) ==
    {"udp4"} \cup (IF c.tcp THEN {"tcp4"} ELSE {})
             \cup (IF c.v6 THEN {"udp6"} ELSE {})
             \cup (IF c.v6 /\ c.tcp THEN {"tcp6"} ELSE {})

SubnetOf(l) ==
    IF Effective(l).subnet = NoSubnet THEN DetectedLan(l.routes) ELSE Effective(l).subnet

(* Resolver::new *)
ResolverAcl(l) ==
    IF SubnetOf(l) = NoSubnet THEN Parsed(Effective(l).allow_from)
    ELSE TrustSubnet(Parsed(Effective(l).allow_from), SubnetOf(l))

(* Subnet::parse_cidr, Resolver::new, and the tasks are spawned. *)
Launched ==
    LET c == Effective(launch) IN
    /\ proc' = "running"
    /\ acl' = ResolverAcl(launch)
    /\ sock' = [l \in Listeners |-> IF l \in ListenersOf(c) THEN "waiting" ELSE "off"]
    /\ wake' = Zeros
    /\ delay' = [l \in Listeners |-> FirstDelay]
    /\ aux' = [a \in AuxTasks |-> IF a \in c.aux THEN "active" ELSE "off"]
    /\ late' = \E l \in ListenersOf(c) : port[l] = "denied"

FindNetwork ==
    /\ proc = "network"
    /\ \/ /\ Effective(launch).subnet # Malformed
          /\ Launched
          /\ UNCHANGED <<reason, time>>
       \/ Effective(launch).subnet = Malformed /\ Exit("config")
    /\ UNCHANGED <<launch, checked, starts, port>>

----------------------------------------------------------------------------
(* bind_with_retry in serve_udp and serve_tcp *)

Due(l) == proc = "running" /\ sock[l] = "waiting" /\ time >= wake[l]

Bind(l) ==
    /\ Due(l)
    /\ port[l] = "free"
    /\ sock' = [sock EXCEPT ![l] = "bound"]
    /\ wake' = [wake EXCEPT ![l] = 0]
    /\ delay' = [delay EXCEPT ![l] = 0]
    /\ UNCHANGED <<launch, checked, starts, port, proc, reason, acl, time, aux, late>>

(* Faulty variant: it gives up when the next attempt would be too late. *)
RetriesBeforeDeadline(l) == time + delay[l] < Window

(* Only AddrInUse, and only while the window is open. *)
Retries(l) == time < Window

BindBusy(l) ==
    /\ Due(l)
    /\ port[l] = "taken"
    /\ Retries(l)
    /\ wake' = [wake EXCEPT ![l] = time + delay[l]]
    /\ delay' = [delay EXCEPT ![l] = IF 2 * @ < MaxDelay THEN 2 * @ ELSE MaxDelay]
    /\ UNCHANGED <<launch, checked, starts, port, proc, reason, acl, sock, time, aux, late>>

(* Faulty variant: a listener that failed is only logged. *)
BindFailsQuietly(l) ==
    /\ Due(l)
    /\ port[l] = "denied" \/ (port[l] = "taken" /\ ~Retries(l))
    /\ sock' = [sock EXCEPT ![l] = "off"]
    /\ UNCHANGED <<launch, checked, starts, port, proc, reason, acl, wake, delay,
                   time, aux, late>>

(* Any other error, or the window is over: the process exits. *)
BindFails(l) ==
    /\ Due(l)
    /\ port[l] = "denied" \/ (port[l] = "taken" /\ ~Retries(l))
    /\ Exit("dns")
    /\ UNCHANGED <<launch, checked, starts, port>>

Attempt(l) == Bind(l) \/ BindBusy(l) \/ BindFails(l)

(* mDNS, DHCP and the dashboard may fail without consequence. *)
AuxFails(a) ==
    /\ proc = "running"
    /\ aux[a] = "active"
    /\ aux' = [aux EXCEPT ![a] = "unavailable"]
    /\ UNCHANGED <<launch, checked, starts, port, proc, reason, acl, sock, wake,
                   delay, time, late>>

(* shutdown_signal: the tasks are aborted and main returns. *)
Shutdown ==
    /\ proc = "running"
    /\ proc' = "stopped"
    /\ NoProcess
    /\ UNCHANGED <<launch, checked, starts, port, reason, late>>

Waiting == {l \in Listeners : sock[l] = "waiting"}

(* External: the clock; it matters while a listener waits. *)
TimePasses ==
    /\ proc = "running"
    /\ Waiting # {}
    /\ time < MaxTime
    /\ time' = time + 1
    /\ late' = (late \/ (time' >= Window /\ \E l \in Waiting : port[l] = "taken"))
    /\ UNCHANGED <<launch, checked, starts, port, proc, reason, acl, sock, wake,
                   delay, aux>>

(* External: another process takes or frees the port, on a host that has   *)
(* such a process; a port that is denied to us stays so.                   *)
PortChanges(l, to) ==
    /\ proc = "running" /\ sock[l] = "waiting"
    /\ launch.rival
    /\ port[l] \notin {to, "denied"}
    /\ port' = [port EXCEPT ![l] = to]
    /\ late' = (late \/ (to = "taken" /\ time >= Window))
    /\ UNCHANGED <<launch, checked, starts, proc, reason, acl, sock, wake, delay,
                   time, aux>>

(* External: Restart=on-failure, up to StartLimitBurst. *)
SystemdRestarts ==
    /\ proc = "exited"
    /\ IF starts < StartLimitBurst
       THEN proc' = "load" /\ starts' = starts + 1
       ELSE proc' = "failed" /\ UNCHANGED starts
    /\ late' = FALSE
    /\ UNCHANGED <<launch, checked, port, reason, acl, sock, wake, delay, time, aux>>

----------------------------------------------------------------------------
StartupInit ==
    /\ launch = NoLaunch
    /\ proc = "none"
    /\ reason = "none"
    /\ checked = "none"
    /\ starts = 0
    /\ acl = <<>>
    /\ sock = AllOff
    /\ wake = Zeros
    /\ delay = Zeros
    /\ time = 0
    /\ port = [l \in Listeners |-> "free"]
    /\ aux = [a \in AuxTasks |-> "off"]
    /\ late = FALSE

Process == LoadConfig \/ OpenStorage \/ FindNetwork \/ SystemdRestarts

StartupNext ==
    \/ \E l \in Launches : Configure(l)
    \/ CheckConfig
    \/ Start
    \/ Process
    \/ \E l \in Listeners : Attempt(l)
    \/ \E a \in AuxTasks : AuxFails(a)
    \/ Shutdown
    \/ TimePasses
    \/ \E l \in Listeners, to \in {"free", "taken"} : PortChanges(l, to)

(* A task whose timer has fired is polled, the process takes its next step *)
(* and time passes; nothing is assumed of other processes or the operator. *)
StartupFairness ==
    /\ WF_startupVars(Process)
    /\ WF_startupVars(TimePasses)
    /\ \A l \in Listeners : WF_startupVars(Attempt(l))

StartupSpec == StartupInit /\ [][StartupNext]_startupVars /\ StartupFairness

----------------------------------------------------------------------------
(* Properties *)

(* The addresses of a CIDR, as a range. *)
Block(v6, network, prefix) ==
    LET size == 2^(Bits - prefix)
        base == network - (network % size)
    IN  {a \in Addrs : a.v6 = v6 /\ a.n \in base..(base + size - 1)}

(* What an entry of dns.allow_from says, as a set of addresses; "0.0.0.0/0 *)
(* is the same promise as `any`".                                          *)
Meaning(entry) ==
    CASE entry.rule = "any"          -> Addrs
      [] entry.rule = "loopback"     -> LoopbackAddrs
      [] entry.rule = "private"      -> PrivateAddrs \cup LoopbackAddrs
      [] entry = Cidr(FALSE, 0, 0)   -> Addrs
      [] OTHER -> Block(entry.v6, entry.network, entry.prefix)

(* What the whole list says; an empty one is to be taken for "private". *)
Meant(entries) ==
    IF entries = <<>> THEN Meaning(Keyword("private"))
    ELSE UNION {Meaning(e) : e \in Range(entries)}

LanAddrs(l) ==
    IF SubnetOf(l) = NoSubnet THEN {}
    ELSE Block(FALSE, SubnetOf(l).network, SubnetOf(l).prefix)

(* What is asked of the LAN of a host: it is a subnet, and one whose       *)
(* network address is private or loopback lies in that range as a whole.   *)
ASSUME LanAssumption ==
    \A l \in Launches :
        SubnetOf(l) # NoSubnet /\ Effective(l).subnet # Malformed =>
            /\ SubnetOf(l) \in [network : 0..(2^Bits - 1), prefix : 0..Bits]
            /\ [v6 |-> FALSE, n |-> SubnetOf(l).network] \in PrivateAddrs \cup LoopbackAddrs
                   => LanAddrs(l) \subseteq PrivateAddrs \cup LoopbackAddrs

(* Every source the operator listed is served; beyond those only the LAN   *)
(* is, and only where the operator said "private" or nothing: an explicit  *)
(* list is never widened.  Where no CIDR was listed besides, "private"     *)
(* covers the whole LAN the host is on, public addresses included.  An     *)
(* empty list stands for "private" in all this but one thing: it serves    *)
(* loopback and private sources only if the LAN lies among them.           *)
ServesWhoWasMeant ==
    proc = "running" =>
        LET entries == Effective(launch).allow_from
            lan     == LanAddrs(launch)
            served  == {a \in Addrs : AclAllows(acl, a)}
        IN  /\ entries # <<>> \/ lan \subseteq Meant(entries)
                  => Meant(entries) \subseteq served
            /\ served \subseteq Meant(entries)
                  \cup (IF PrivateStance(entries) THEN lan ELSE {})
            /\ PrivateStance(entries) /\ (\A e \in Range(entries) : e.rule # "cidr")
                  => lan \subseteq served

(* "A transient boot race is absorbed in-process and never reaches         *)
(* systemd": when a DNS listener makes the process exit, some port was     *)
(* denied, or still or again taken when the retry window was over.         *)
RidesOutConflict == proc = "exited" /\ reason = "dns" => late

Serving == proc = "running" /\ \A l \in ListenersOf(Effective(launch)) : sock[l] = "bound"

(* DNS is not half up for good: a start ends with every configured         *)
(* listener bound, with the operator's shutdown, or in the failed state    *)
(* that systemd shows, however ports change hands.                         *)
ServesOrFails == proc = "load" ~> Serving \/ proc \in {"stopped", "failed"}

(* --check-config tells "whether netwatch would start with this config":   *)
(* what it passes is not what stops a start, and what it rejects does not  *)
(* come up.                                                                *)
CheckPredictsStart ==
    /\ proc = "exited" /\ reason = "config" => checked # "ok"
    /\ proc = "running" => checked # "invalid"
=============================================================================

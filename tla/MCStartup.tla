------------------------------ MODULE MCStartup ------------------------------
(* Small instances of Startup: addresses of four bits, of which 0001 is    *)
(* loopback and 01xx private, and launches chosen so that every rule of    *)
(* the configuration, every kind of allow_from and every state of the      *)
(* ports occurs.  MCSpec adds the tasks of Resolver under a budget, which  *)
(* share no state with the start: a behaviour is one of one of the two.    *)
EXTENDS Resolver, Startup

CONSTANTS u1, u2, c1, root, canary

----------------------------------------------------------------------------
(* Addresses and routing tables *)

MCLoopbackAddrs == {[v6 |-> v, n |-> 1] : v \in BOOLEAN}
MCPrivateAddrs  == {[v6 |-> v, n |-> n] : v \in BOOLEAN, n \in 4..7}

Route(iface, dest, gateway, prefix) ==
    [iface |-> iface, dest |-> dest, gateway |-> gateway, prefix |-> prefix,
     special |-> FALSE]
Via(iface) == Route(iface, 0, 5, 0)

PrivateLan == <<Via("eth0"), Route("eth0", 4, 0, 2)>>

(* A public LAN 11xx inside a wider on-link route, a link-local row, and a *)
(* tunnel that is not the default route.                                   *)
PublicLan == <<Route("wg0", 8, 0, 1), Via("eth0"),
               [Route("eth0", 2, 0, 4) EXCEPT !.special = TRUE],
               Route("eth0", 8, 0, 1), Route("eth0", 12, 0, 2)>>

----------------------------------------------------------------------------
(* Launches *)

Plain ==
    [file |-> "present", web_listen |-> "none", routes |-> PrivateLan, rival |-> FALSE,
     config |-> [DefaultConfig EXCEPT !.allow_from = <<Keyword("private")>>,
                                      !.tcp = FALSE, !.aux = {}],
     ports |-> [l \in Listeners |-> "free"]]

AllowFrom ==
    {<<>>, <<Keyword("private")>>, <<Keyword("loopback")>>, <<Keyword("any")>>,
     <<Keyword("loopback"), Cidr(FALSE, 9, 3)>>, <<Cidr(TRUE, 3, 0)>>,
     <<Cidr(FALSE, 0, 0)>>, <<Cidr(FALSE, 9, 0)>>,
     <<Cidr(FALSE, 11, 4)>>, <<Keyword("private"), Cidr(FALSE, 2, 3)>>,
     <<Keyword("nonsense")>>, <<Cidr(FALSE, 2, 5)>>}

Contested(l, state) ==
    [l EXCEPT !.rival = TRUE, !.ports = [p \in Listeners |-> state]]

MCLaunches ==
    {[Plain EXCEPT !.config.allow_from = e, !.routes = r] :
        e \in AllowFrom, r \in {PrivateLan, PublicLan, <<>>}}
    \cup {[Plain EXCEPT !.config.subnet = s] :
              s \in {Malformed, [network |-> 10, prefix |-> 3]}}
    \cup {[Plain EXCEPT !.config.faults = {f}] : f \in SettingRules}
    \cup {[Plain EXCEPT !.config.web = w, !.config.token = t, !.web_listen = o] :
              w \in {"loopback", "lan"}, t \in BOOLEAN, o \in {"none", "lan"}}
    \cup {[Plain EXCEPT !.file = f] : f \in {"missing", "unparsable"}}
    \cup {Contested([Plain EXCEPT !.config.tcp = TRUE], "taken"),
          [Contested([Plain EXCEPT !.config.v6 = TRUE], "free")
               EXCEPT !.ports["udp6"] = "denied"]}

----------------------------------------------------------------------------
MCInit == Init /\ StartupInit

MCNext ==
    \/ launch = NoLaunch /\ Next /\ UNCHANGED startupVars
    \/ Init /\ blocked = {} /\ StartupNext /\ UNCHANGED vars

MCSpec == /\ MCInit /\ [][MCNext]_<<vars, startupVars>>
          /\ Fairness
          /\ StartupFairness
=============================================================================

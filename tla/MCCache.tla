------------------------------ MODULE MCCache ------------------------------
(* Small instances of Cache: requests that share a key and requests that   *)
(* differ in one bit of it, and messages that take each path of insert().  *)
EXTENDS Cache

Req(edns, cd) ==
    [name |-> "n1", qtype |-> "A", qclass |-> "IN", edns |-> edns, cd |-> cd]

MCRequests == {Req("none", FALSE), Req("plain", FALSE),
               Req("dnssec_ok", FALSE), Req("none", TRUE)}

Rr(ttl) == [opt |-> FALSE, ttl |-> ttl]

Opt == [opt |-> TRUE, ttl |-> 0]

Msg(rcode, answers, authorities, additionals) ==
    [rcode |-> rcode, answers |-> answers, authorities |-> authorities,
     additionals |-> additionals]

(* Answers of several lifetimes, a negative answer that lives by its SOA,  *)
(* a zero TTL, no TTL at all, and a transient failure.                     *)
MCMessages == {Msg("NOERROR", {Rr(2), Rr(3)}, {}, {Opt}),
               Msg("NXDOMAIN", {}, {Rr(1)}, {}),
               Msg("NOERROR", {Rr(4)}, {Rr(2)}, {Rr(2)}),
               Msg("NOERROR", {Rr(0)}, {}, {}),
               Msg("NOERROR", {}, {}, {}),
               Msg("SERVFAIL", {Rr(3)}, {}, {})}

(* As above, with glue that lives less long than the answer. *)
MCGlueMessages == MCMessages \cup {Msg("NOERROR", {Rr(3)}, {}, {Rr(1)})}
============================================================================

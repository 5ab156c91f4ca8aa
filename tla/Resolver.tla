------------------------------ MODULE Resolver ------------------------------
(***************************************************************************)
(* The DNS service of dns/mod.rs: admission of UDP datagrams and TCP       *)
(* connections under their semaphores, the path of a request through the   *)
(* canary, the blocklist, the cache and the upstreams, the budgets that    *)
(* bound it, and the query log.                                            *)
(*                                                                         *)
(* A task is a spawned handler: a UDP task serves one datagram, a TCP task *)
(* one connection, request after request.  Code between two awaits runs    *)
(* without being cancelled, but on a thread pool: the blocklist lookup,    *)
(* the cache lookup and the cache insertion of one task interleave with    *)
(* those of the others and with the administrator's changes.               *)
(*                                                                         *)
(* The cache is the LossyStore that Cache is shown to implement, reduced   *)
(* to one set of terms: what it holds for a name may vanish at any time.   *)
(* Durations are in units of which a request may use RequestTimeout and    *)
(* one upstream attempt UpstreamTimeout.                                   *)
(***************************************************************************)
EXTENDS Integers, Sequences, FiniteSets

CONSTANTS
    UdpTasks, TcpTasks,   \* handlers that may exist at once
    MaxUdp,               \* dns.max_udp_in_flight
    MaxTcp,               \* dns.max_tcp_connections
    Names,                \* query names, lower case, without trailing dot
    Root,                 \* the empty name
    Canary,               \* FIREFOX_CANARY
    DisableFirefoxDoh,    \* blocking.disable_firefox_doh
    CacheEnabled,         \* dns.cache
    Upstreams,            \* number of dns.upstreams
    UpstreamTimeout,      \* dns.upstream_timeout_ms
    RequestTimeout,       \* dns.request_timeout_ms
    NoName                \* "no name": a request without a question

ASSUME ResolverAssumption ==
    /\ UdpTasks \cap TcpTasks = {}
    /\ IsFiniteSet(UdpTasks) /\ IsFiniteSet(TcpTasks)
    /\ MaxUdp \in Nat \ {0} /\ MaxTcp \in Nat \ {0}
    /\ {Root, Canary} \subseteq Names /\ Root # Canary /\ NoName \notin Names
    /\ DisableFirefoxDoh \in BOOLEAN /\ CacheEnabled \in BOOLEAN
    /\ Upstreams \in Nat \ {0}
    /\ UpstreamTimeout \in Nat /\ RequestTimeout \in Nat

VARIABLES
    pc,         \* where each task is
    ask,        \* the request each task is serving
    upstream,   \* index of the upstream being tried, 1..Upstreams
    spent,      \* time the request has used before the current exchange
    left,       \* time the current attempt has left
    got,        \* the accepted upstream reply
    out,        \* what handle() returned
    logged,     \* the statuses under which this request was logged
    udpFree,    \* permits left in the UDP semaphore
    tcpFree,    \* permits left in the TCP semaphore
    blocked,    \* names the current blocklist blocks
    store,      \* the cache: name -> reply, for the names held
    policy      \* history: whether the name asked for was blocked ever since
                \* the request came in, never since, or neither

taskVars == <<pc, ask, upstream, spent, left, got, out, logged>>
permitVars == <<udpFree, tcpFree>>
vars == <<taskVars, permitVars, blocked, store, policy>>

Tasks == UdpTasks \cup TcpTasks

----------------------------------------------------------------------------
(* Requests, replies and results *)

(* What Message::from_vec and the first checks of handle_inner tell apart. *)
Request ==
    [shape : {"query"}, name : Names]
        \cup [shape : {"malformed", "not_query", "no_question"}, name : {NoName}]

NoRequest == [shape |-> "none", name |-> NoName]

(* A complete message from an upstream, with the request's transaction id  *)
(* (udp_exchange discards others and keeps waiting).                       *)
Reply == [name  : Names,
          rcode : {"NOERROR", "NXDOMAIN", "REFUSED", "SERVFAIL"}]

NoReply == [name |-> NoName, rcode |-> "none"]

(* handle() returns no bytes, an answer built here, or an upstream's. *)
Nothing     == [kind |-> "none", reply |-> NoReply]
Local(kind) == [kind |-> kind, reply |-> NoReply]
Relay(kind, reply) == [kind |-> kind, reply |-> reply]

LocalKinds == {"refused", "formerr", "canary", "sinkhole", "servfail", "timeout"}

PcValues == {"idle", "reading", "check", "lookup", "udp_exchange",
             "tcp_exchange", "finish", "reply"}

(* The points of a task at which it waits and can be cancelled. *)
Awaiting == {"reading", "udp_exchange", "tcp_exchange", "reply"}

Cacheable(reply) == reply.rcode \in {"NOERROR", "NXDOMAIN"}

Status(rcode) == CASE rcode = "NOERROR"  -> "Forwarded"
                   [] rcode = "NXDOMAIN" -> "NxDomain"
                   [] rcode = "REFUSED"  -> "Refused"
                   [] OTHER              -> "ServFail"

----------------------------------------------------------------------------
(* Admission: serve_udp and serve_tcp *)

Serve(t, request) ==
    /\ pc' = [pc EXCEPT ![t] = "check"]
    /\ ask' = [ask EXCEPT ![t] = request]
    /\ policy' = [policy EXCEPT ![t] =
                     IF request.name \in blocked THEN "blocked" ELSE "clear"]

UdpReceive(t, request) ==
    /\ pc[t] = "idle"
    /\ udpFree > 0
    /\ udpFree' = udpFree - 1
    /\ Serve(t, request)
    /\ UNCHANGED <<upstream, spent, left, got, out, logged, tcpFree, blocked,
                   store>>

TcpAccept(t) ==
    /\ pc[t] = "idle"
    /\ tcpFree > 0
    /\ tcpFree' = tcpFree - 1
    /\ pc' = [pc EXCEPT ![t] = "reading"]
    /\ UNCHANGED <<ask, upstream, spent, left, got, out, logged, udpFree,
                   blocked, store, policy>>

TcpRead(t, request) ==
    /\ pc[t] = "reading"
    /\ Serve(t, request)
    /\ UNCHANGED <<upstream, spent, left, got, out, logged, permitVars,
                   blocked, store>>

----------------------------------------------------------------------------
(* handle_inner up to the first await *)

(* handle() returns result, its timers are dropped, and the query log gets *)
(* what status says, if anything.                                          *)
Return(t, result, status) ==
    /\ pc' = [pc EXCEPT ![t] = "reply"]
    /\ out' = [out EXCEPT ![t] = result]
    /\ logged' = [logged EXCEPT ![t] = @ \o status]
    /\ spent' = [spent EXCEPT ![t] = 0]
    /\ left' = [left EXCEPT ![t] = 0]
    /\ got' = [got EXCEPT ![t] = NoReply]

Refuses(request) == request.shape # "query"

Rejection(request) ==
    CASE request.shape = "malformed"   -> Nothing
      [] request.shape = "not_query"   -> Local("refused")
      [] request.shape = "no_question" -> Local("formerr")

IsCanary(name) == DisableFirefoxDoh /\ name = Canary

(* Faulty variant: the cache is trusted before the blocklist. *)
IsBlockedUnlessCached(name) ==
    name # Root /\ name \in blocked /\ name \notin DOMAIN store

IsBlocked(name) == name # Root /\ name \in blocked

(* The parse, the canary and the blocklist, read once under its lock. *)
Check(t) ==
    LET request == ask[t]
    IN  /\ pc[t] = "check"
        /\ \/ /\ Refuses(request)
              /\ Return(t, Rejection(request), <<>>)
           \/ /\ ~Refuses(request)
              /\ IsCanary(request.name)
              /\ Return(t, Local("canary"), <<"Blocked">>)
           \/ /\ ~Refuses(request)
              /\ ~IsCanary(request.name)
              /\ IsBlocked(request.name)
              /\ Return(t, Local("sinkhole"), <<"Blocked">>)
           \/ /\ ~Refuses(request)
              /\ ~IsCanary(request.name)
              /\ ~IsBlocked(request.name)
              /\ pc' = [pc EXCEPT ![t] = "lookup"]
              /\ UNCHANGED <<out, logged, spent, left, got>>
        /\ UNCHANGED <<ask, upstream, permitVars, blocked, store, policy>>

StartAttempt(t, i) ==
    /\ pc' = [pc EXCEPT ![t] = "udp_exchange"]
    /\ upstream' = [upstream EXCEPT ![t] = i]
    /\ left' = [left EXCEPT ![t] = UpstreamTimeout]

(* The cache, then the first upstream. *)
Lookup(t) ==
    LET name == ask[t].name
    IN  /\ pc[t] = "lookup"
        /\ \/ /\ CacheEnabled
              /\ name \in DOMAIN store
              /\ Return(t, Relay("cached", store[name]), <<"Cached">>)
              /\ UNCHANGED upstream
           \/ /\ ~(CacheEnabled /\ name \in DOMAIN store)
              /\ StartAttempt(t, 1)
              /\ UNCHANGED <<out, logged, spent, got>>
        /\ UNCHANGED <<ask, permitVars, blocked, store, policy>>

----------------------------------------------------------------------------
(* forward *)

Exchanging(t) == pc[t] \in {"udp_exchange", "tcp_exchange"}

(* The exchange takes d: not more than the attempt, nor the request, has.  *)
Takes(t, d) ==
    /\ d <= left[t]
    /\ spent[t] + d <= RequestTimeout

(* Faulty variant: the transaction id alone is compared. *)
AnswersAnything(request, reply) == reply.name \in Names

AnswersRequest(request, reply) == reply.name = request.name

(* A truncated UDP reply: ask the same upstream again over TCP, within the *)
(* same attempt.  Truncation is looked at before the question is.          *)
Truncated(t, d) ==
    /\ pc[t] = "udp_exchange"
    /\ Takes(t, d)
    /\ spent' = [spent EXCEPT ![t] = @ + d]
    /\ left' = [left EXCEPT ![t] = @ - d]
    /\ pc' = [pc EXCEPT ![t] = "tcp_exchange"]
    /\ UNCHANGED <<ask, upstream, got, out, logged, permitVars, blocked,
                   store, policy>>

Answered(t, reply, d) ==
    /\ Exchanging(t)
    /\ AnswersRequest(ask[t], reply)
    /\ Takes(t, d)
    /\ got' = [got EXCEPT ![t] = reply]
    /\ pc' = [pc EXCEPT ![t] = "finish"]
    /\ UNCHANGED <<ask, upstream, spent, left, out, logged, permitVars, blocked,
                   store, policy>>

(* Faulty variant: one upstream too many. *)
NextUpstreamOffByOne(t, d) ==
    \/ /\ upstream[t] <= Upstreams
       /\ StartAttempt(t, upstream[t] + 1)
       /\ spent' = [spent EXCEPT ![t] = @ + d]
       /\ UNCHANGED <<out, logged, got>>
    \/ /\ upstream[t] > Upstreams
       /\ Return(t, Local("servfail"), <<"ServFail">>)
       /\ UNCHANGED upstream

(* Faulty variant: the first failure is final. *)
NextUpstreamGivesUp(t, d) ==
    /\ Return(t, Local("servfail"), <<"ServFail">>)
    /\ UNCHANGED upstream

(* Faulty variant: every failed attempt is logged. *)
NextUpstreamLogsEach(t, d) ==
    \/ /\ upstream[t] < Upstreams
       /\ StartAttempt(t, upstream[t] + 1)
       /\ spent' = [spent EXCEPT ![t] = @ + d]
       /\ logged' = [logged EXCEPT ![t] = @ \o <<"ServFail">>]
       /\ UNCHANGED <<out, got>>
    \/ /\ upstream[t] = Upstreams
       /\ Return(t, Local("servfail"), <<"ServFail">>)
       /\ UNCHANGED upstream

(* The attempt took d and brought nothing. *)
NextUpstream(t, d) ==
    \/ /\ upstream[t] < Upstreams
       /\ StartAttempt(t, upstream[t] + 1)
       /\ spent' = [spent EXCEPT ![t] = @ + d]
       /\ UNCHANGED <<out, logged, got>>
    \/ /\ upstream[t] = Upstreams
       /\ Return(t, Local("servfail"), <<"ServFail">>)
       /\ UNCHANGED upstream

(* Another question answered, an undecodable reply, or an I/O error. *)
AttemptFails(t, d) ==
    /\ Exchanging(t)
    /\ Takes(t, d)
    /\ NextUpstream(t, d)
    /\ UNCHANGED <<ask, permitVars, blocked, store, policy>>

(* Faulty variant: an attempt without a timeout. *)
AttemptNeverTimesOut(t) ==
    /\ FALSE
    /\ UNCHANGED vars

(* upstream_timeout_ms is over. *)
AttemptTimesOut(t) ==
    /\ Exchanging(t)
    /\ Takes(t, left[t])
    /\ NextUpstream(t, left[t])
    /\ UNCHANGED <<ask, permitVars, blocked, store, policy>>

(* request_timeout_ms is over: handle() drops handle_inner where it waits. *)
BudgetExpires(t) ==
    /\ Exchanging(t)
    /\ spent[t] + left[t] >= RequestTimeout
    /\ Return(t, Local("timeout"), <<>>)
    /\ UNCHANGED <<ask, upstream, permitVars, blocked, store, policy>>

----------------------------------------------------------------------------
(* The rest of handle_inner: insert into the cache, log, return the reply. *)
(* insert() may decline for reasons of TTL.  The entry goes under the key  *)
(* of the request, whatever the reply is about.                            *)

Put(name, reply) ==
    [n \in DOMAIN store \cup {name} |-> IF n = name THEN reply ELSE store[n]]

Finish(t) ==
    /\ pc[t] = "finish"
    /\ \/ UNCHANGED store
       \/ /\ CacheEnabled
          /\ Cacheable(got[t])
          /\ store' = Put(ask[t].name, got[t])
    /\ Return(t, Relay("forwarded", got[t]), <<Status(got[t].rcode)>>)
    /\ UNCHANGED <<ask, upstream, permitVars, blocked, policy>>

----------------------------------------------------------------------------
(* The end of a request and of a task *)

ResetRequest(t) ==
    /\ ask' = [ask EXCEPT ![t] = NoRequest]
    /\ upstream' = [upstream EXCEPT ![t] = 0]
    /\ spent' = [spent EXCEPT ![t] = 0]
    /\ left' = [left EXCEPT ![t] = 0]
    /\ got' = [got EXCEPT ![t] = NoReply]
    /\ out' = [out EXCEPT ![t] = Nothing]
    /\ logged' = [logged EXCEPT ![t] = <<>>]
    /\ policy' = [policy EXCEPT ![t] = "clear"]

(* Faulty variant: the permit is lost when there is nothing to send. *)
UdpReplyLeaks(t) ==
    /\ pc[t] = "reply"
    /\ ResetRequest(t)
    /\ pc' = [pc EXCEPT ![t] = "idle"]
    /\ udpFree' = IF out[t] = Nothing THEN udpFree ELSE udpFree + 1
    /\ UNCHANGED <<tcpFree, blocked, store>>

(* Send what there is to send; the task ends and drops its permit. *)
UdpReply(t) ==
    /\ pc[t] = "reply"
    /\ ResetRequest(t)
    /\ pc' = [pc EXCEPT ![t] = "idle"]
    /\ udpFree' = udpFree + 1
    /\ UNCHANGED <<tcpFree, blocked, store>>

(* Write the reply and read the next request. *)
TcpReply(t) ==
    /\ pc[t] = "reply"
    /\ out[t] # Nothing
    /\ ResetRequest(t)
    /\ pc' = [pc EXCEPT ![t] = "reading"]
    /\ UNCHANGED <<permitVars, blocked, store>>

Close(t) ==
    /\ ResetRequest(t)
    /\ pc' = [pc EXCEPT ![t] = "idle"]
    /\ tcpFree' = tcpFree + 1
    /\ UNCHANGED <<udpFree, blocked, store>>

(* The client closes or sends a bad frame, nothing can be returned, or     *)
(* the reply cannot be written.                                            *)
TcpClose(t) == pc[t] \in {"reading", "reply"} /\ Close(t)

(* The session limit of 30 s cancels whatever the connection waits for. *)
TcpSessionExpires(t) == pc[t] \in Awaiting /\ Close(t)

----------------------------------------------------------------------------
(* The administrator and the cache itself *)

(* rebuild() and the scheduled refresh swap the list under its write lock. *)
SwapBlocklist(names) ==
    /\ blocked' = names
    /\ policy' = [t \in Tasks |->
                    IF (policy[t] = "blocked") = (ask[t].name \in names)
                    THEN policy[t] ELSE "changed"]
    /\ UNCHANGED <<taskVars, permitVars, store>>

FlushCache ==
    /\ store' = [n \in {} |-> NoReply]
    /\ UNCHANGED <<taskVars, permitVars, blocked, policy>>

(* An entry expires or is evicted. *)
CacheForgets(name) ==
    /\ name \in DOMAIN store
    /\ store' = [n \in DOMAIN store \ {name} |-> store[n]]
    /\ UNCHANGED <<taskVars, permitVars, blocked, policy>>

----------------------------------------------------------------------------
Init ==
    /\ pc = [t \in Tasks |-> "idle"]
    /\ ask = [t \in Tasks |-> NoRequest]
    /\ upstream = [t \in Tasks |-> 0]
    /\ spent = [t \in Tasks |-> 0]
    /\ left = [t \in Tasks |-> 0]
    /\ got = [t \in Tasks |-> NoReply]
    /\ out = [t \in Tasks |-> Nothing]
    /\ logged = [t \in Tasks |-> <<>>]
    /\ udpFree = MaxUdp
    /\ tcpFree = MaxTcp
    /\ blocked \in SUBSET (Names \ {Root})
    /\ store = [n \in {} |-> NoReply]
    /\ policy = [t \in Tasks |-> "clear"]

(* The steps a task takes once it has a request. *)
Exchange(t) ==
    \/ \E d \in 0..UpstreamTimeout :
          \/ Truncated(t, d)
          \/ AttemptFails(t, d)
          \/ \E reply \in Reply : Answered(t, reply, d)
    \/ AttemptTimesOut(t)
    \/ BudgetExpires(t)

Progress(t) == Check(t) \/ Lookup(t) \/ Exchange(t) \/ Finish(t)

UdpStep(t) ==
    \/ \E request \in Request : UdpReceive(t, request)
    \/ Progress(t)
    \/ UdpReply(t)

TcpStep(t) ==
    \/ TcpAccept(t)
    \/ \E request \in Request : TcpRead(t, request)
    \/ Progress(t)
    \/ TcpReply(t)
    \/ TcpClose(t)
    \/ TcpSessionExpires(t)

Next ==
    \/ \E t \in UdpTasks : UdpStep(t)
    \/ \E t \in TcpTasks : TcpStep(t)
    \/ \E names \in SUBSET (Names \ {Root}) : SwapBlocklist(names)
    \/ FlushCache
    \/ \E name \in Names : CacheForgets(name)

Spec == Init /\ [][Next]_vars

(* The runtime keeps running a task that can run and its timers fire; the  *)
(* timer of a TCP session, once over, cancels the session at the next      *)
(* point where it waits, however busy the session is.  Nothing is assumed  *)
(* of clients, upstreams or administrators.                                *)
Fairness ==
    /\ \A t \in UdpTasks : /\ WF_vars(Check(t) \/ Lookup(t) \/ Finish(t))
                           /\ WF_vars(AttemptTimesOut(t) \/ BudgetExpires(t))
                           /\ WF_vars(UdpReply(t))
    /\ \A t \in TcpTasks : /\ WF_vars(Check(t) \/ Lookup(t) \/ Finish(t))
                           /\ SF_vars(TcpSessionExpires(t))

FairSpec == Spec /\ Fairness

----------------------------------------------------------------------------
(* Properties *)

Result == [kind : LocalKinds \cup {"none"}, reply : {NoReply}]
              \cup [kind : {"cached", "forwarded"}, reply : Reply]

LogStatus == {"Blocked", "Cached", "Forwarded", "NxDomain", "Refused", "ServFail"}

TypeOK ==
    /\ pc \in [Tasks -> PcValues]
    /\ ask \in [Tasks -> Request \cup {NoRequest}]
    /\ upstream \in [Tasks -> 0..Upstreams]
    /\ spent \in [Tasks -> 0..RequestTimeout]
    /\ left \in [Tasks -> 0..UpstreamTimeout]
    /\ got \in [Tasks -> Reply \cup {NoReply}]
    /\ out \in [Tasks -> Result]
    /\ logged \in [Tasks -> Seq(LogStatus)]
    /\ udpFree \in 0..MaxUdp
    /\ tcpFree \in 0..MaxTcp
    /\ blocked \subseteq Names
    /\ DOMAIN store \subseteq Names
    /\ store \in [DOMAIN store -> Reply]
    /\ policy \in [Tasks -> {"blocked", "clear", "changed"}]

(* Both semaphores always account for every live task: no exit path of a   *)
(* task (malformed request, failed write, timeout, cancelled session)      *)
(* loses a permit or returns it twice.                                     *)
PermitsAccounted ==
    /\ udpFree + Cardinality({t \in UdpTasks : pc[t] # "idle"}) = MaxUdp
    /\ tcpFree + Cardinality({t \in TcpTasks : pc[t] # "idle"}) = MaxTcp

(* The blocklist decides, not the cache: a request gets no real answer for *)
(* a name that was blocked all the while it was served, even when an       *)
(* answer fetched before the block was inserted after the flush; and it is *)
(* not sinkholed for a name that was never blocked meanwhile.              *)
PolicyRespected ==
    \A t \in Tasks :
        /\ out[t].kind \in {"cached", "forwarded"} => policy[t] # "blocked"
        /\ out[t].kind = "sinkhole" => policy[t] # "clear"

(* A client is given, and the cache holds, only answers to the question    *)
(* that was asked, whatever the upstreams send and whoever asked first;    *)
(* transient failures are never held.                                      *)
AnswersOwnQuestion ==
    /\ \A t \in Tasks :
          out[t].reply # NoReply => out[t].reply.name = ask[t].name
    /\ \A n \in DOMAIN store : store[n].name = n /\ Cacheable(store[n])

StatusOf(result) ==
    CASE result.kind \in {"canary", "sinkhole"} -> "Blocked"
      [] result.kind = "cached"                 -> "Cached"
      [] result.kind = "servfail"               -> "ServFail"
      [] result.kind = "forwarded"              -> Status(result.reply.rcode)

(* The budget of a request races its last attempt, and only one of them    *)
(* tells the log: a query answered in time is in it exactly once, under    *)
(* the status of the answer given; one that ran out of budget is not, and  *)
(* neither is one not answered yet.                                        *)
LogTellsTheAnswer ==
    \A t \in Tasks :
        /\ pc[t] # "reply" => logged[t] = <<>>
        /\ pc[t] = "reply" /\ ask[t].shape = "query" =>
               logged[t] = IF out[t].kind = "timeout" THEN <<>>
                           ELSE <<StatusOf(out[t])>>

(* SERVFAIL means that every upstream was tried, provided the budget       *)
(* exceeds upstream_timeout_ms times the number of upstreams, as the       *)
(* comment on the default asks: failover is then never cut short.          *)
FailoverNotCutShort ==
    RequestTimeout > Upstreams * UpstreamTimeout =>
        \A t \in Tasks :
            /\ out[t].kind # "timeout"
            /\ out[t].kind = "servfail" => upstream[t] = Upstreams

(* Every admitted datagram and connection ends and gives its permit back,  *)
(* even if no upstream ever answers and no client ever closes.             *)
EveryTaskEnds == \A t \in Tasks : pc[t] # "idle" ~> pc[t] = "idle"
=============================================================================

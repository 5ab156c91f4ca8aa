--------------------------- MODULE ResolverProofs ---------------------------
(***************************************************************************)
(* Theorems about the DNS service for any number of tasks, permits, names  *)
(* and upstreams and any timeouts: permits are accounted for, the          *)
(* blocklist decides, a reply answers its own question and is logged as    *)
(* what it was, and failover reaches the last upstream. The last part is   *)
(* about Payload: an answer that fits is never sent clipped.               *)
(***************************************************************************)
EXTENDS Resolver, Payload, FiniteSetTheorems, TLAPS

----------------------------------------------------------------------------
(* The inductive invariant, as a predicate of one task *)

Forwarding == {"udp_exchange", "tcp_exchange"}

(* What a task has by the point it has reached. *)
Staged(t) ==
    /\ pc[t] \in {"idle", "reading"} => ask[t] = NoRequest
    /\ pc[t] \notin {"idle", "reading"} => ask[t] \in Request
    /\ pc[t] # "reply" => out[t] = Nothing /\ logged[t] = <<>>
    /\ pc[t] \in {"idle", "reading", "check", "lookup"} => spent[t] = 0
    /\ pc[t] \in Forwarding \cup {"lookup", "finish"} =>
           ask[t].shape = "query" /\ policy[t] # "blocked"
    /\ pc[t] \in Forwarding => upstream[t] \in 1..Upstreams
    /\ pc[t] = "finish" => got[t] \in Reply /\ got[t].name = ask[t].name

(* The history variable means what it says. *)
PolicyTrue(t) ==
    /\ policy[t] = "blocked" => ask[t].name \in blocked
    /\ policy[t] = "clear" => ask[t].name \notin blocked

(* Up to and with the current attempt no more than one timeout per         *)
(* upstream tried is used.                                                 *)
OnTime(t) ==
    pc[t] \in Forwarding => spent[t] + left[t] <= upstream[t] * UpstreamTimeout

(* The properties, for one task. *)
PolicyKept(t) ==
    /\ out[t].kind \in {"cached", "forwarded"} => policy[t] # "blocked"
    /\ out[t].kind = "sinkhole" => policy[t] # "clear"

OwnAnswer(t) == out[t].reply # NoReply => out[t].reply.name = ask[t].name

LogTrue(t) ==
    pc[t] = "reply" /\ ask[t].shape = "query" =>
        logged[t] = IF out[t].kind = "timeout" THEN <<>> ELSE <<StatusOf(out[t])>>

Ample == RequestTimeout > Upstreams * UpstreamTimeout

AllTried(t) ==
    Ample => /\ out[t].kind # "timeout"
             /\ out[t].kind = "servfail" => upstream[t] = Upstreams

TaskInv(t) ==
    /\ Staged(t) /\ PolicyTrue(t) /\ OnTime(t)
    /\ PolicyKept(t) /\ OwnAnswer(t) /\ LogTrue(t) /\ AllTried(t)

StoreSound == \A n \in DOMAIN store : store[n].name = n /\ Cacheable(store[n])

IInv ==
    /\ TypeOK
    /\ Root \notin blocked
    /\ PermitsAccounted
    /\ StoreSound
    /\ \A t \in Tasks : TaskInv(t)

----------------------------------------------------------------------------
(* Facts used throughout *)

(* A task that a step leaves alone keeps its part of the invariant. *)
LEMMA Frame ==
    ASSUME NEW t, TaskInv(t),
           pc'[t] = pc[t], ask'[t] = ask[t], upstream'[t] = upstream[t],
           spent'[t] = spent[t], left'[t] = left[t], got'[t] = got[t],
           out'[t] = out[t], logged'[t] = logged[t], policy'[t] = policy[t],
           blocked' = blocked
    PROVE  TaskInv(t)'
BY DEF TaskInv, Staged, PolicyTrue, OnTime, PolicyKept, OwnAnswer, LogTrue, AllTried

(* Permits and live tasks. *)
Busy(T) == {t \in T : pc[t] # "idle"}

LEMMA PermitsByBusy ==
    /\ PermitsAccounted <=> /\ udpFree + Cardinality(Busy(UdpTasks)) = MaxUdp
                            /\ tcpFree + Cardinality(Busy(TcpTasks)) = MaxTcp
    /\ PermitsAccounted' <=> /\ udpFree' + Cardinality(Busy(UdpTasks)') = MaxUdp
                             /\ tcpFree' + Cardinality(Busy(TcpTasks)') = MaxTcp
BY DEF PermitsAccounted, Busy

(* Permits stay accounted for while nobody begins or ends. *)
LEMMA SameBusy ==
    ASSUME PermitsAccounted, UNCHANGED permitVars,
           \A t \in Tasks : pc'[t] = "idle" <=> pc[t] = "idle"
    PROVE  PermitsAccounted'
<1>1. Busy(UdpTasks)' = Busy(UdpTasks) /\ Busy(TcpTasks)' = Busy(TcpTasks)
  BY DEF Tasks, Busy
<1> QED BY <1>1, PermitsByBusy DEF permitVars

(* One task that begins is one more, one that ends is one less. *)
LEMMA OneBegins ==
    ASSUME NEW T, IsFiniteSet(T), NEW t \in T, pc[t] = "idle", pc'[t] # "idle",
           \A u \in T \ {t} : pc'[u] = pc[u]
    PROVE  /\ Cardinality(Busy(T)') = Cardinality(Busy(T)) + 1
           /\ Cardinality(Busy(T)) \in Nat
<1>1. IsFiniteSet(Busy(T)) /\ t \notin Busy(T)
  BY FS_Subset DEF Busy
<1>2. Busy(T)' = Busy(T) \cup {t}
  BY DEF Busy
<1> QED BY <1>1, <1>2, FS_AddElement, FS_CardinalityType

LEMMA OneEnds ==
    ASSUME NEW T, IsFiniteSet(T), NEW t \in T, pc[t] # "idle", pc'[t] = "idle",
           \A u \in T \ {t} : pc'[u] = pc[u]
    PROVE  /\ Cardinality(Busy(T)') = Cardinality(Busy(T)) - 1
           /\ Cardinality(Busy(T)') \in Nat
           /\ Cardinality(Busy(T)) \in Nat
<1>1. IsFiniteSet(Busy(T)) /\ t \in Busy(T)
  BY FS_Subset DEF Busy
<1>2. Busy(T)' = Busy(T) \ {t}
  BY DEF Busy
<1>3. IsFiniteSet(Busy(T) \ {t})
  BY <1>1, FS_Subset
<1> QED BY <1>1, <1>2, <1>3, FS_RemoveElement, FS_CardinalityType

----------------------------------------------------------------------------
(* The actions *)

(* The step is one of t: nothing of another task changes. *)
OnlyTask(t) ==
    \A u \in Tasks \ {t} :
        /\ pc'[u] = pc[u] /\ ask'[u] = ask[u] /\ upstream'[u] = upstream[u]
        /\ spent'[u] = spent[u] /\ left'[u] = left[u] /\ got'[u] = got[u]
        /\ out'[u] = out[u] /\ logged'[u] = logged[u] /\ policy'[u] = policy[u]

(* What is left to show for a step of one task. *)
LEMMA TaskStep ==
    ASSUME IInv, NEW t \in Tasks, OnlyTask(t), blocked' = blocked,
           TypeOK', PermitsAccounted', StoreSound', TaskInv(t)'
    PROVE  IInv'
<1>1. ASSUME NEW u \in Tasks PROVE TaskInv(u)'
  <2>1. CASE u = t
    BY <2>1
  <2>2. CASE u # t
    BY <2>2, Frame DEF OnlyTask, IInv
  <2> QED BY <2>1, <2>2
<1> QED BY <1>1 DEF IInv

LEMMA UdpReceiveStep ==
    ASSUME IInv, NEW t \in UdpTasks, NEW request \in Request, UdpReceive(t, request)
    PROVE  IInv'
<1> USE DEF IInv
<1>1. t \in Tasks
  BY DEF Tasks
<1>2. PermitsAccounted'
  <2>1. \A u \in Tasks \ {t} : pc'[u] = pc[u]
    BY <1>1 DEF UdpReceive, Serve, TypeOK
  <2>2. pc[t] = "idle" /\ pc'[t] = "check"
    BY <1>1 DEF UdpReceive, Serve, TypeOK
  <2>3. /\ Cardinality(Busy(UdpTasks)') = Cardinality(Busy(UdpTasks)) + 1
        /\ Cardinality(Busy(UdpTasks)) \in Nat
    BY <2>1, <2>2, OneBegins, ResolverAssumption DEF Tasks
  <2>4. Busy(TcpTasks)' = Busy(TcpTasks)
    BY <2>1, <1>1, ResolverAssumption DEF Tasks, Busy
  <2>5. udpFree' = udpFree - 1 /\ tcpFree' = tcpFree
    BY DEF UdpReceive
  <2>6. udpFree \in Int /\ tcpFree \in Int
    BY ResolverAssumption DEF TypeOK
  <2>7. PermitsAccounted
    OBVIOUS
  <2> HIDE DEF IInv
  <2> QED BY <2>3, <2>4, <2>5, <2>6, <2>7, PermitsByBusy
<1>3. TypeOK'
  <2>1. udpFree' \in 0..MaxUdp
    BY ResolverAssumption DEF UdpReceive, TypeOK
  <2>2. pc' \in [Tasks -> PcValues] /\ ask' \in [Tasks -> Request \cup {NoRequest}]
    BY <1>1 DEF UdpReceive, Serve, TypeOK, PcValues
  <2>3. policy' \in [Tasks -> {"blocked", "clear", "changed"}]
    BY <1>1 DEF UdpReceive, Serve, TypeOK
  <2>4. UNCHANGED <<upstream, spent, left, got, out, logged, tcpFree, blocked, store>>
    BY DEF UdpReceive
  <2> QED BY <2>1, <2>2, <2>3, <2>4 DEF TypeOK
<1>4. OnlyTask(t)
  BY <1>1 DEF OnlyTask, UdpReceive, Serve, TypeOK
<1>5. StoreSound' /\ blocked' = blocked
  BY DEF UdpReceive, StoreSound
<1>6. TaskInv(t)'
  <2>1. /\ pc'[t] = "check" /\ ask'[t] = request
        /\ policy'[t] = IF request.name \in blocked THEN "blocked" ELSE "clear"
        /\ out'[t] = Nothing /\ logged'[t] = <<>> /\ spent'[t] = 0
    BY <1>1 DEF UdpReceive, Serve, TypeOK, TaskInv, Staged
  <2> QED BY <2>1, <1>5 DEF TaskInv, Staged, PolicyTrue, OnTime, PolicyKept,
             OwnAnswer, LogTrue, AllTried, Forwarding, Nothing
<1> QED BY <1>1, <1>2, <1>3, <1>4, <1>5, <1>6, TaskStep

LEMMA TcpAcceptStep ==
    ASSUME IInv, NEW t \in TcpTasks, TcpAccept(t)
    PROVE  IInv'
<1> USE DEF IInv
<1>1. t \in Tasks
  BY DEF Tasks
<1>2. PermitsAccounted'
  <2>1. \A u \in Tasks \ {t} : pc'[u] = pc[u]
    BY <1>1 DEF TcpAccept, TypeOK
  <2>2. pc[t] = "idle" /\ pc'[t] = "reading"
    BY <1>1 DEF TcpAccept, TypeOK
  <2>3. /\ Cardinality(Busy(TcpTasks)') = Cardinality(Busy(TcpTasks)) + 1
        /\ Cardinality(Busy(TcpTasks)) \in Nat
    BY <2>1, <2>2, OneBegins, ResolverAssumption DEF Tasks
  <2>4. Busy(UdpTasks)' = Busy(UdpTasks)
    BY <2>1, <1>1, ResolverAssumption DEF Tasks, Busy
  <2>5. tcpFree' = tcpFree - 1 /\ udpFree' = udpFree
    BY DEF TcpAccept
  <2>6. udpFree \in Int /\ tcpFree \in Int
    BY ResolverAssumption DEF TypeOK
  <2>7. PermitsAccounted
    OBVIOUS
  <2> HIDE DEF IInv
  <2> QED BY <2>3, <2>4, <2>5, <2>6, <2>7, PermitsByBusy
<1>3. TypeOK'
  <2>1. tcpFree' \in 0..MaxTcp
    BY ResolverAssumption DEF TcpAccept, TypeOK
  <2>2. pc' \in [Tasks -> PcValues]
    BY DEF TcpAccept, TypeOK, PcValues
  <2> QED BY <2>1, <2>2 DEF TcpAccept, TypeOK
<1>4. OnlyTask(t)
  BY <1>1 DEF OnlyTask, TcpAccept, TypeOK
<1>5. StoreSound' /\ blocked' = blocked
  BY DEF TcpAccept, StoreSound
<1>6. TaskInv(t)'
  <2>1. /\ pc[t] = "idle" /\ pc'[t] = "reading"
        /\ ask'[t] = ask[t] /\ policy'[t] = policy[t]
        /\ out'[t] = out[t] /\ logged'[t] = logged[t] /\ spent'[t] = spent[t]
    BY <1>1 DEF TcpAccept, TypeOK
  <2>2. TaskInv(t)
    BY <1>1
  <2> QED BY <2>1, <2>2, <1>5 DEF TaskInv, Staged, PolicyTrue, OnTime, PolicyKept,
             OwnAnswer, LogTrue, AllTried, Forwarding, Nothing
<1> QED BY <1>1, <1>2, <1>3, <1>4, <1>5, <1>6, TaskStep

LEMMA TcpReadStep ==
    ASSUME IInv, NEW t \in TcpTasks, NEW request \in Request, TcpRead(t, request)
    PROVE  IInv'
<1> USE DEF IInv
<1>1. t \in Tasks
  BY DEF Tasks
<1>2. PermitsAccounted'
  BY <1>1, SameBusy DEF TcpRead, Serve, TypeOK
<1>3. TypeOK'
  <2>1. pc' \in [Tasks -> PcValues] /\ ask' \in [Tasks -> Request \cup {NoRequest}]
    BY <1>1 DEF TcpRead, Serve, TypeOK, PcValues
  <2>2. policy' \in [Tasks -> {"blocked", "clear", "changed"}]
    BY <1>1 DEF TcpRead, Serve, TypeOK
  <2> QED BY <2>1, <2>2 DEF TcpRead, TypeOK, permitVars
<1>4. OnlyTask(t)
  BY <1>1 DEF OnlyTask, TcpRead, Serve, TypeOK
<1>5. StoreSound' /\ blocked' = blocked
  BY DEF TcpRead, StoreSound
<1>6. TaskInv(t)'
  <2>1. /\ pc'[t] = "check" /\ ask'[t] = request
        /\ policy'[t] = IF request.name \in blocked THEN "blocked" ELSE "clear"
        /\ out'[t] = Nothing /\ logged'[t] = <<>> /\ spent'[t] = 0
    BY <1>1 DEF TcpRead, Serve, TypeOK, TaskInv, Staged
  <2> QED BY <2>1, <1>5 DEF TaskInv, Staged, PolicyTrue, OnTime, PolicyKept,
             OwnAnswer, LogTrue, AllTried, Forwarding, Nothing
<1> QED BY <1>1, <1>2, <1>3, <1>4, <1>5, <1>6, TaskStep

(* Wherever handle() returns: what the result has to be. *)
Returnable(t, result, status) ==
    /\ result \in Result
    /\ result.kind \in {"cached", "forwarded"} => policy[t] # "blocked"
    /\ result.kind = "sinkhole" => policy[t] # "clear"
    /\ result.reply # NoReply => result.reply.name = ask[t].name
    /\ ask[t].shape = "query" =>
           status = IF result.kind = "timeout" THEN <<>> ELSE <<StatusOf(result)>>
    /\ Ample => /\ result.kind # "timeout"
                /\ result.kind = "servfail" => upstream[t] = Upstreams

LEMMA ReturnStep ==
    ASSUME IInv, NEW t \in Tasks, pc[t] \notin {"idle", "reading", "reply"},
           NEW result, NEW status \in Seq(LogStatus), Returnable(t, result, status),
           Return(t, result, status),
           UNCHANGED <<ask, upstream, permitVars, blocked, policy>>,
           DOMAIN store' \subseteq Names, store' \in [DOMAIN store' -> Reply],
           StoreSound'
    PROVE  IInv'
<1> USE DEF IInv
<1>1. PermitsAccounted'
  BY SameBusy DEF Return, TypeOK, permitVars
<1>2. TypeOK'
  <2>1. logged' \in [Tasks -> Seq(LogStatus)]
    BY DEF Return, TypeOK, Returnable
  <2>2. /\ pc' \in [Tasks -> PcValues]
        /\ out' \in [Tasks -> Result]
        /\ got' \in [Tasks -> Reply \cup {NoReply}]
    BY DEF Return, TypeOK, Returnable, PcValues
  <2>3. spent' \in [Tasks -> 0..RequestTimeout] /\ left' \in [Tasks -> 0..UpstreamTimeout]
    BY ResolverAssumption DEF Return, TypeOK
  <2> QED BY <2>1, <2>2, <2>3 DEF TypeOK, permitVars
<1>3. OnlyTask(t)
  BY DEF OnlyTask, Return, TypeOK
<1>4. TaskInv(t)'
  <2>1. logged[t] = <<>> /\ ask[t] \in Request
    BY DEF TaskInv, Staged
  <2>2. logged'[t] = status
    BY <2>1 DEF Return, TypeOK
  <2>3. /\ pc'[t] = "reply" /\ out'[t] = result /\ ask'[t] = ask[t]
        /\ policy'[t] = policy[t] /\ upstream'[t] = upstream[t] /\ blocked' = blocked
    BY DEF Return, TypeOK
  <2>4. TaskInv(t)
    OBVIOUS
  <2>5. Staged(t)' /\ PolicyTrue(t)' /\ OnTime(t)'
    BY <2>1, <2>3, <2>4 DEF TaskInv, Staged, PolicyTrue, OnTime, Forwarding
  <2>6. PolicyKept(t)' /\ OwnAnswer(t)' /\ LogTrue(t)' /\ AllTried(t)'
    BY <2>2, <2>3 DEF Returnable, PolicyKept, OwnAnswer, LogTrue, AllTried
  <2> QED BY <2>5, <2>6 DEF TaskInv
<1> QED BY <1>1, <1>2, <1>3, <1>4, TaskStep

LEMMA CheckStep ==
    ASSUME IInv, NEW t \in Tasks, Check(t)
    PROVE  IInv'
<1> USE DEF IInv
<1> DEFINE request == ask[t]
<1>0. /\ pc[t] = "check" /\ request \in Request /\ TaskInv(t)
      /\ UNCHANGED <<ask, upstream, permitVars, blocked, store, policy>>
  BY DEF Check, TaskInv, Staged
<1>1. ASSUME Refuses(request), Return(t, Rejection(request), <<>>) PROVE IInv'
  <2>1. Rejection(request) \in {Nothing, Local("refused"), Local("formerr")}
    BY <1>0, <1>1 DEF Rejection, Refuses, Request
  <2>2. Returnable(t, Rejection(request), <<>>)
    BY <2>1, <1>1 DEF Returnable, Refuses, Nothing, Local, Result, LocalKinds
  <2>3. <<>> \in Seq(LogStatus)
    OBVIOUS
  <2> QED BY <1>0, <1>1, <2>2, <2>3, ReturnStep DEF TypeOK, StoreSound
<1>2. ASSUME ~Refuses(request), Return(t, Local("canary"), <<"Blocked">>) PROVE IInv'
  <2>1. Returnable(t, Local("canary"), <<"Blocked">>)
    BY DEF Returnable, Local, Result, LocalKinds, StatusOf
  <2>2. <<"Blocked">> \in Seq(LogStatus)
    BY DEF LogStatus
  <2> QED BY <1>0, <1>2, <2>1, <2>2, ReturnStep DEF TypeOK, StoreSound
<1>3. ASSUME IsBlocked(request.name), Return(t, Local("sinkhole"), <<"Blocked">>)
      PROVE  IInv'
  <2>1. Returnable(t, Local("sinkhole"), <<"Blocked">>)
    BY <1>0, <1>3 DEF Returnable, Local, Result, LocalKinds, StatusOf,
                      TaskInv, PolicyTrue, IsBlocked
  <2>2. <<"Blocked">> \in Seq(LogStatus)
    BY DEF LogStatus
  <2> QED BY <1>0, <1>3, <2>1, <2>2, ReturnStep DEF TypeOK, StoreSound
<1>4. ASSUME ~Refuses(request), ~IsBlocked(request.name),
             pc' = [pc EXCEPT ![t] = "lookup"],
             UNCHANGED <<out, logged, spent, left, got>>
      PROVE  IInv'
  <2>1. PermitsAccounted'
    BY <1>0, <1>4, SameBusy DEF TypeOK
  <2>2. TypeOK'
    BY <1>0, <1>4 DEF TypeOK, PcValues, permitVars
  <2>3. OnlyTask(t)
    BY <1>0, <1>4 DEF OnlyTask, TypeOK
  <2>4. StoreSound'
    BY <1>0 DEF StoreSound
  <2>5. TaskInv(t)'
    <3>1. policy[t] # "blocked" /\ request.shape = "query"
      BY <1>0, <1>4 DEF TaskInv, PolicyTrue, IsBlocked, Refuses
    <3>2. pc'[t] = "lookup"
      BY <1>4 DEF TypeOK
    <3> QED BY <1>0, <1>4, <3>1, <3>2 DEF TaskInv, Staged, PolicyTrue, OnTime,
               PolicyKept, OwnAnswer, LogTrue, AllTried, Forwarding
  <2> QED BY <1>0, <2>1, <2>2, <2>3, <2>4, <2>5, TaskStep
<1> QED BY <1>1, <1>2, <1>3, <1>4 DEF Check

(* The next attempt begins with a full upstream_timeout_ms. *)
LEMMA AttemptStep ==
    ASSUME IInv, NEW t \in Tasks, NEW i \in 1..Upstreams, StartAttempt(t, i),
           pc[t] \in Forwarding \cup {"lookup"},
           NEW s \in 0..RequestTimeout, spent' = [spent EXCEPT ![t] = s],
           s + UpstreamTimeout <= i * UpstreamTimeout,
           UNCHANGED <<ask, got, out, logged, permitVars, blocked, store, policy>>
    PROVE  IInv'
<1> USE DEF IInv
<1>1. PermitsAccounted'
  BY SameBusy DEF StartAttempt, TypeOK, Forwarding
<1>2. TypeOK'
  <2>1. pc' \in [Tasks -> PcValues]
    BY DEF StartAttempt, TypeOK, PcValues
  <2>2. /\ upstream' \in [Tasks -> 0..Upstreams]
        /\ spent' \in [Tasks -> 0..RequestTimeout]
        /\ left' \in [Tasks -> 0..UpstreamTimeout]
    BY ResolverAssumption DEF StartAttempt, TypeOK
  <2> QED BY <2>1, <2>2 DEF TypeOK, permitVars
<1>3. OnlyTask(t)
  BY DEF OnlyTask, StartAttempt, TypeOK
<1>4. StoreSound'
  BY DEF StoreSound
<1>5. TaskInv(t)'
  <2>1. /\ pc'[t] = "udp_exchange" /\ upstream'[t] = i
        /\ spent'[t] = s /\ left'[t] = UpstreamTimeout
    BY DEF StartAttempt, TypeOK
  <2>2. out[t] = Nothing /\ TaskInv(t)
    BY DEF TaskInv, Staged, Forwarding
  <2> QED BY <2>1, <2>2 DEF TaskInv, Staged, PolicyTrue, OnTime, PolicyKept,
             OwnAnswer, LogTrue, AllTried, Forwarding, Nothing
<1> QED BY <1>1, <1>2, <1>3, <1>4, <1>5, TaskStep

LEMMA LookupStep ==
    ASSUME IInv, NEW t \in Tasks, Lookup(t)
    PROVE  IInv'
<1> USE DEF IInv
<1> DEFINE name == ask[t].name
<1>0. /\ pc[t] = "lookup" /\ TaskInv(t)
      /\ UNCHANGED <<ask, permitVars, blocked, store, policy>>
  BY DEF Lookup
<1>1. ask[t] \in Request /\ ask[t].shape = "query" /\ policy[t] # "blocked"
  BY <1>0 DEF TaskInv, Staged
<1>2. ASSUME name \in DOMAIN store, UNCHANGED upstream,
             Return(t, Relay("cached", store[name]), <<"Cached">>)
      PROVE  IInv'
  <2>1. store[name] \in Reply /\ store[name].name = name
    BY <1>2 DEF TypeOK, StoreSound
  <2>2. Returnable(t, Relay("cached", store[name]), <<"Cached">>)
    BY <1>1, <2>1 DEF Returnable, Relay, Result, StatusOf
  <2>3. <<"Cached">> \in Seq(LogStatus)
    BY DEF LogStatus
  <2> QED BY <1>0, <1>2, <2>2, <2>3, ReturnStep DEF TypeOK, StoreSound
<1>3. ASSUME StartAttempt(t, 1), UNCHANGED <<out, logged, spent, got>> PROVE IInv'
  <2>1. spent[t] \in 0..RequestTimeout /\ spent' = [spent EXCEPT ![t] = spent[t]]
    BY <1>3 DEF TypeOK
  <2>2. spent[t] = 0
    BY <1>0 DEF TaskInv, Staged
  <2>3. 1 \in 1..Upstreams /\ spent[t] + UpstreamTimeout <= 1 * UpstreamTimeout
    BY <2>2, ResolverAssumption
  <2> QED BY <1>0, <1>3, <2>1, <2>3, AttemptStep
<1> QED BY <1>2, <1>3 DEF Lookup

LEMMA TruncatedStep ==
    ASSUME IInv, NEW t \in Tasks, NEW d \in 0..UpstreamTimeout, Truncated(t, d)
    PROVE  IInv'
<1> USE DEF IInv
<1>0. /\ pc[t] = "udp_exchange" /\ TaskInv(t)
      /\ UNCHANGED <<ask, upstream, got, out, logged, permitVars, blocked, store, policy>>
  BY DEF Truncated
<1>1. PermitsAccounted'
  BY <1>0, SameBusy DEF Truncated, TypeOK
<1>2. spent[t] \in Nat /\ left[t] \in 0..UpstreamTimeout /\ upstream[t] \in Nat
  BY DEF TypeOK
<1>3. /\ spent'[t] = spent[t] + d /\ left'[t] = left[t] - d /\ pc'[t] = "tcp_exchange"
      /\ spent[t] + d \in 0..RequestTimeout /\ left[t] - d \in 0..UpstreamTimeout
  BY <1>2, ResolverAssumption DEF Truncated, Takes, TypeOK
<1>4. TypeOK'
  <2>1. pc' \in [Tasks -> PcValues]
    BY DEF Truncated, TypeOK, PcValues
  <2>2. spent' \in [Tasks -> 0..RequestTimeout] /\ left' \in [Tasks -> 0..UpstreamTimeout]
    BY <1>3 DEF Truncated, TypeOK
  <2> QED BY <1>0, <2>1, <2>2 DEF TypeOK, permitVars
<1>5. OnlyTask(t)
  BY DEF OnlyTask, Truncated, TypeOK
<1>6. StoreSound'
  BY <1>0 DEF StoreSound
<1>7. TaskInv(t)'
  <2>1. OnTime(t)'
    <3>1. spent'[t] + left'[t] = spent[t] + left[t]
      BY <1>2, <1>3
    <3> QED BY <1>0, <3>1 DEF TaskInv, OnTime, Forwarding
  <2> QED BY <1>0, <1>3, <2>1 DEF TaskInv, Staged, PolicyTrue, PolicyKept,
             OwnAnswer, LogTrue, AllTried, Forwarding
<1> QED BY <1>0, <1>1, <1>4, <1>5, <1>6, <1>7, TaskStep

LEMMA AnsweredStep ==
    ASSUME IInv, NEW t \in Tasks, NEW d \in 0..UpstreamTimeout, NEW reply \in Reply,
           Answered(t, reply, d)
    PROVE  IInv'
<1> USE DEF IInv
<1>0. /\ pc[t] \in Forwarding /\ TaskInv(t) /\ reply.name = ask[t].name
      /\ UNCHANGED <<ask, upstream, spent, left, out, logged, permitVars, blocked,
                     store, policy>>
  BY DEF Answered, Exchanging, Forwarding, AnswersRequest
<1>1. PermitsAccounted'
  BY <1>0, SameBusy DEF Answered, TypeOK, Forwarding
<1>2. TypeOK'
  <2>1. pc' \in [Tasks -> PcValues] /\ got' \in [Tasks -> Reply \cup {NoReply}]
    BY DEF Answered, TypeOK, PcValues
  <2> QED BY <1>0, <2>1 DEF TypeOK, permitVars
<1>3. OnlyTask(t)
  BY DEF OnlyTask, Answered, TypeOK
<1>4. StoreSound'
  BY <1>0 DEF StoreSound
<1>5. TaskInv(t)'
  <2>1. pc'[t] = "finish" /\ got'[t] = reply
    BY DEF Answered, TypeOK
  <2> QED BY <1>0, <2>1 DEF TaskInv, Staged, PolicyTrue, OnTime, PolicyKept,
             OwnAnswer, LogTrue, AllTried, Forwarding
<1> QED BY <1>0, <1>1, <1>2, <1>3, <1>4, <1>5, TaskStep

(* An attempt that took d and brought nothing: the next one, or SERVFAIL. *)
LEMMA NextUpstreamStep ==
    ASSUME IInv, NEW t \in Tasks, pc[t] \in Forwarding, NEW d \in 0..UpstreamTimeout,
           Takes(t, d), NextUpstream(t, d),
           UNCHANGED <<ask, permitVars, blocked, store, policy>>
    PROVE  IInv'
<1> USE DEF IInv
<1>0. TaskInv(t) /\ upstream[t] \in 1..Upstreams
  BY DEF TaskInv, Staged
<1>1. ASSUME upstream[t] < Upstreams, StartAttempt(t, upstream[t] + 1),
             spent' = [spent EXCEPT ![t] = @ + d], UNCHANGED <<out, logged, got>>
      PROVE  IInv'
  <2>1. spent[t] \in Nat /\ left[t] \in 0..UpstreamTimeout
    BY DEF TypeOK
  <2>2. d <= left[t] /\ spent[t] + d \in 0..RequestTimeout
    BY <2>1, ResolverAssumption DEF Takes
  <2>3. upstream[t] + 1 \in 1..Upstreams
    BY <1>0, <1>1, ResolverAssumption
  <2>4. spent[t] + left[t] <= upstream[t] * UpstreamTimeout
    BY <1>0 DEF TaskInv, OnTime
  <2>5. (upstream[t] + 1) * UpstreamTimeout = upstream[t] * UpstreamTimeout + UpstreamTimeout
    BY <1>0, ResolverAssumption
  <2>6. upstream[t] * UpstreamTimeout \in Nat
    BY <1>0, ResolverAssumption
  <2>7. spent[t] + d + UpstreamTimeout <= (upstream[t] + 1) * UpstreamTimeout
    BY <2>1, <2>2, <2>4, <2>5, <2>6, ResolverAssumption
  <2> QED BY <1>1, <2>2, <2>3, <2>7, AttemptStep
<1>2. ASSUME upstream[t] = Upstreams, Return(t, Local("servfail"), <<"ServFail">>),
             UNCHANGED upstream
      PROVE  IInv'
  <2>1. Returnable(t, Local("servfail"), <<"ServFail">>)
    BY <1>2 DEF Returnable, Local, Result, LocalKinds, StatusOf
  <2>2. <<"ServFail">> \in Seq(LogStatus)
    BY DEF LogStatus
  <2> QED BY <1>2, <2>1, <2>2, ReturnStep DEF TypeOK, StoreSound, Forwarding
<1> QED BY <1>1, <1>2 DEF NextUpstream

LEMMA AttemptEndsStep ==
    ASSUME IInv, NEW t \in Tasks,
           \/ \E d \in 0..UpstreamTimeout : AttemptFails(t, d)
           \/ AttemptTimesOut(t)
    PROVE  IInv'
<1>1. ASSUME NEW d \in 0..UpstreamTimeout, AttemptFails(t, d) PROVE IInv'
  BY <1>1, NextUpstreamStep DEF AttemptFails, Exchanging, Forwarding
<1>2. CASE AttemptTimesOut(t)
  <2>1. left[t] \in 0..UpstreamTimeout
    BY DEF IInv, TypeOK
  <2> QED BY <1>2, <2>1, NextUpstreamStep DEF AttemptTimesOut, Exchanging, Forwarding
<1> QED BY <1>1, <1>2

(* An ample budget does not expire during an attempt. *)
LEMMA BudgetExpiresStep ==
    ASSUME IInv, NEW t \in Tasks, BudgetExpires(t)
    PROVE  IInv'
<1> USE DEF IInv
<1>0. TaskInv(t) /\ pc[t] \in Forwarding /\ upstream[t] \in 1..Upstreams
  BY DEF TaskInv, Staged, BudgetExpires, Exchanging, Forwarding
<1>1. ~Ample
  <2>1. spent[t] + left[t] <= upstream[t] * UpstreamTimeout
    BY <1>0 DEF TaskInv, OnTime
  <2>2. spent[t] + left[t] >= RequestTimeout /\ spent[t] \in Nat /\ left[t] \in Nat
    BY DEF BudgetExpires, TypeOK
  <2>3. upstream[t] * UpstreamTimeout <= Upstreams * UpstreamTimeout
    <3>1. PICK k \in Nat : Upstreams = upstream[t] + k
      <4>1. Upstreams - upstream[t] \in Nat /\ Upstreams = upstream[t] + (Upstreams - upstream[t])
        BY <1>0, ResolverAssumption
      <4> QED BY <4>1
    <3>2. Upstreams * UpstreamTimeout = upstream[t] * UpstreamTimeout + k * UpstreamTimeout
      BY <1>0, <3>1, ResolverAssumption
    <3>3. k * UpstreamTimeout \in Nat /\ upstream[t] * UpstreamTimeout \in Nat
      BY <1>0, ResolverAssumption
    <3> QED BY <3>2, <3>3
  <2>4. upstream[t] * UpstreamTimeout \in Int /\ Upstreams * UpstreamTimeout \in Int
    BY <1>0, ResolverAssumption
  <2> QED BY <2>1, <2>2, <2>3, <2>4, ResolverAssumption DEF Ample
<1>2. Returnable(t, Local("timeout"), <<>>)
  BY <1>1 DEF Returnable, Local, Result, LocalKinds
<1>3. <<>> \in Seq(LogStatus)
  OBVIOUS
<1>4. /\ UNCHANGED <<ask, upstream, permitVars, blocked, store, policy>>
      /\ Return(t, Local("timeout"), <<>>)
  BY DEF BudgetExpires
<1> QED BY <1>0, <1>2, <1>3, <1>4, ReturnStep DEF TypeOK, StoreSound, Forwarding

LEMMA FinishStep ==
    ASSUME IInv, NEW t \in Tasks, Finish(t)
    PROVE  IInv'
<1> USE DEF IInv
<1>0. /\ pc[t] = "finish" /\ ask[t].shape = "query" /\ policy[t] # "blocked"
      /\ got[t] \in Reply /\ got[t].name = ask[t].name
  BY DEF Finish, TaskInv, Staged
<1>1. /\ DOMAIN store' \subseteq Names
      /\ store' \in [DOMAIN store' -> Reply]
      /\ StoreSound'
  <2>1. CASE UNCHANGED store
    BY <2>1 DEF TypeOK, StoreSound
  <2>2. CASE Cacheable(got[t]) /\ store' = Put(ask[t].name, got[t])
    <3>1. ask[t].name \in Names
      BY <1>0 DEF Reply
    <3>2. /\ DOMAIN store' = DOMAIN store \cup {ask[t].name}
          /\ \A n \in DOMAIN store' :
                store'[n] = IF n = ask[t].name THEN got[t] ELSE store[n]
          /\ store' = [n \in DOMAIN store' |-> store'[n]]
      BY <2>2 DEF Put
    <3>3. \A n \in DOMAIN store' : /\ store'[n] \in Reply
                                   /\ store'[n].name = n /\ Cacheable(store'[n])
      BY <1>0, <2>2, <3>2 DEF TypeOK, StoreSound
    <3>4. DOMAIN store' \subseteq Names /\ store' \in [DOMAIN store' -> Reply]
      BY <3>1, <3>2, <3>3 DEF TypeOK
    <3> QED BY <3>3, <3>4 DEF StoreSound, Cacheable
  <2> QED BY <2>1, <2>2 DEF Finish
<1>2. Returnable(t, Relay("forwarded", got[t]), <<Status(got[t].rcode)>>)
  BY <1>0 DEF Returnable, Relay, Result, StatusOf
<1>3. <<Status(got[t].rcode)>> \in Seq(LogStatus)
  <2>1. Status(got[t].rcode) \in LogStatus
    BY <1>0 DEF Reply, Status, LogStatus
  <2> QED BY <2>1
<1>4. /\ UNCHANGED <<ask, upstream, permitVars, blocked, policy>>
      /\ Return(t, Relay("forwarded", got[t]), <<Status(got[t].rcode)>>)
  BY DEF Finish
<1> QED BY <1>0, <1>1, <1>2, <1>3, <1>4, ReturnStep

(* A request that is over leaves nothing behind. *)
LEMMA ResetStep ==
    ASSUME IInv, NEW t \in Tasks, ResetRequest(t),
           NEW next \in {"idle", "reading"}, pc' = [pc EXCEPT ![t] = next],
           udpFree' \in 0..MaxUdp, tcpFree' \in 0..MaxTcp, PermitsAccounted',
           UNCHANGED <<blocked, store>>
    PROVE  IInv'
<1> USE DEF IInv
<1>1. TypeOK'
  <2>1. /\ pc' \in [Tasks -> PcValues]
        /\ ask' \in [Tasks -> Request \cup {NoRequest}]
        /\ got' \in [Tasks -> Reply \cup {NoReply}]
        /\ policy' \in [Tasks -> {"blocked", "clear", "changed"}]
    BY DEF ResetRequest, TypeOK, PcValues
  <2>2. /\ upstream' \in [Tasks -> 0..Upstreams]
        /\ spent' \in [Tasks -> 0..RequestTimeout]
        /\ left' \in [Tasks -> 0..UpstreamTimeout]
    BY ResolverAssumption DEF ResetRequest, TypeOK
  <2>3. out' \in [Tasks -> Result]
    BY DEF ResetRequest, TypeOK, Result, Nothing
  <2>4. logged' \in [Tasks -> Seq(LogStatus)]
    BY DEF ResetRequest, TypeOK
  <2> QED BY <2>1, <2>2, <2>3, <2>4 DEF TypeOK
<1>2. OnlyTask(t)
  BY DEF OnlyTask, ResetRequest, TypeOK
<1>3. StoreSound'
  BY DEF StoreSound
<1>4. TaskInv(t)'
  <2>1. /\ pc'[t] \in {"idle", "reading"} /\ ask'[t] = NoRequest /\ spent'[t] = 0
        /\ out'[t] = Nothing /\ logged'[t] = <<>> /\ policy'[t] = "clear"
    BY DEF ResetRequest, TypeOK
  <2>2. NoName \notin blocked
    BY ResolverAssumption DEF TypeOK
  <2> QED BY <2>1, <2>2 DEF TaskInv, Staged, PolicyTrue, OnTime, PolicyKept,
             OwnAnswer, LogTrue, AllTried, Forwarding, Nothing, NoRequest
<1> QED BY <1>1, <1>2, <1>3, <1>4, TaskStep

LEMMA UdpReplyStep ==
    ASSUME IInv, NEW t \in UdpTasks, UdpReply(t)
    PROVE  IInv'
<1>1. t \in Tasks /\ TypeOK /\ PermitsAccounted
  BY DEF Tasks, IInv
<1>2. \A u \in Tasks \ {t} : pc'[u] = pc[u]
  BY <1>1 DEF UdpReply, TypeOK
<1>3. pc[t] = "reply" /\ pc'[t] = "idle" /\ udpFree' = udpFree + 1 /\ tcpFree' = tcpFree
  BY <1>1 DEF UdpReply, TypeOK
<1>4. /\ Cardinality(Busy(UdpTasks)') = Cardinality(Busy(UdpTasks)) - 1
      /\ Cardinality(Busy(UdpTasks)') \in Nat
      /\ Cardinality(Busy(UdpTasks)) \in Nat
  BY <1>2, <1>3, OneEnds, ResolverAssumption DEF Tasks
<1>5. Busy(TcpTasks)' = Busy(TcpTasks)
  BY <1>2, ResolverAssumption DEF Tasks, Busy
<1>6. udpFree \in Nat /\ tcpFree \in 0..MaxTcp
  BY <1>1 DEF TypeOK
<1>7. PermitsAccounted'
  BY <1>1, <1>3, <1>4, <1>5, <1>6, PermitsByBusy
<1>8. udpFree' \in 0..MaxUdp
  BY <1>3, <1>4, <1>6, <1>7, PermitsByBusy, ResolverAssumption
<1> QED BY <1>1, <1>3, <1>6, <1>7, <1>8, ResetStep DEF UdpReply

LEMMA CloseStep ==
    ASSUME IInv, NEW t \in TcpTasks, pc[t] # "idle", Close(t)
    PROVE  IInv'
<1>1. t \in Tasks /\ TypeOK /\ PermitsAccounted
  BY DEF Tasks, IInv
<1>2. \A u \in Tasks \ {t} : pc'[u] = pc[u]
  BY <1>1 DEF Close, TypeOK
<1>3. pc'[t] = "idle" /\ tcpFree' = tcpFree + 1 /\ udpFree' = udpFree
  BY <1>1 DEF Close, TypeOK
<1>4. /\ Cardinality(Busy(TcpTasks)') = Cardinality(Busy(TcpTasks)) - 1
      /\ Cardinality(Busy(TcpTasks)') \in Nat
      /\ Cardinality(Busy(TcpTasks)) \in Nat
  BY <1>2, <1>3, OneEnds, ResolverAssumption DEF Tasks
<1>5. Busy(UdpTasks)' = Busy(UdpTasks)
  BY <1>2, ResolverAssumption DEF Tasks, Busy
<1>6. tcpFree \in Nat /\ udpFree \in 0..MaxUdp
  BY <1>1 DEF TypeOK
<1>7. PermitsAccounted'
  BY <1>1, <1>3, <1>4, <1>5, <1>6, PermitsByBusy
<1>8. tcpFree' \in 0..MaxTcp
  BY <1>3, <1>4, <1>6, <1>7, PermitsByBusy, ResolverAssumption
<1> QED BY <1>1, <1>3, <1>6, <1>7, <1>8, ResetStep DEF Close

LEMMA TcpReplyStep ==
    ASSUME IInv, NEW t \in TcpTasks, TcpReply(t)
    PROVE  IInv'
<1>1. t \in Tasks /\ TypeOK /\ PermitsAccounted
  BY DEF Tasks, IInv
<1>2. PermitsAccounted'
  BY <1>1, SameBusy DEF TcpReply, TypeOK
<1>3. udpFree' \in 0..MaxUdp /\ tcpFree' \in 0..MaxTcp
  BY <1>1 DEF TcpReply, permitVars, TypeOK
<1> QED BY <1>1, <1>2, <1>3, ResetStep DEF TcpReply

(* A swap moves the history of every request along with the list. *)
LEMMA SwapBlocklistStep ==
    ASSUME IInv, NEW names \in SUBSET (Names \ {Root}), SwapBlocklist(names)
    PROVE  IInv'
<1> USE DEF IInv
<1>1. UNCHANGED <<pc, ask, upstream, spent, left, got, out, logged, permitVars, store>>
  BY DEF SwapBlocklist, taskVars
<1>2. TypeOK'
  BY <1>1 DEF SwapBlocklist, TypeOK, permitVars
<1>3. PermitsAccounted' /\ StoreSound'
  BY <1>1, SameBusy DEF StoreSound
<1>4. ASSUME NEW t \in Tasks PROVE TaskInv(t)'
  <2>1. /\ policy'[t] = IF (policy[t] = "blocked") = (ask[t].name \in names)
                        THEN policy[t] ELSE "changed"
        /\ blocked' = names
        /\ policy[t] \in {"blocked", "clear", "changed"}
    BY DEF SwapBlocklist, TypeOK
  <2>2. PolicyTrue(t)'
    BY <1>1, <2>1 DEF PolicyTrue
  <2>3. policy'[t] \in {policy[t], "changed"} /\ TaskInv(t)
    BY <2>1
  <2> QED BY <1>1, <2>2, <2>3 DEF TaskInv, Staged, OnTime, PolicyKept, OwnAnswer,
             LogTrue, AllTried
<1>5. Root \notin blocked'
  BY DEF SwapBlocklist
<1> QED BY <1>2, <1>3, <1>4, <1>5

(* The cache may lose what it holds. *)
LEMMA ForgetStep ==
    ASSUME IInv, NEW keep \in SUBSET DOMAIN store, store' = [n \in keep |-> store[n]],
           UNCHANGED <<taskVars, permitVars, blocked, policy>>
    PROVE  IInv'
<1> USE DEF IInv
<1>1. UNCHANGED <<pc, ask, upstream, spent, left, got, out, logged, udpFree, tcpFree>>
  BY DEF taskVars, permitVars
<1>2. TypeOK' /\ StoreSound'
  BY <1>1 DEF TypeOK, StoreSound
<1>3. PermitsAccounted'
  BY <1>1, SameBusy DEF permitVars
<1>4. \A t \in Tasks : TaskInv(t)'
  BY <1>1, Frame
<1> QED BY <1>2, <1>3, <1>4

----------------------------------------------------------------------------
LEMMA InitIInv == Init => IInv
<1> SUFFICES ASSUME Init PROVE IInv
  OBVIOUS
<1>1. TypeOK
  BY ResolverAssumption DEF Init, TypeOK, PcValues, Result, Nothing
<1>2. PermitsAccounted
  <2>1. Busy(UdpTasks) = {} /\ Busy(TcpTasks) = {}
    BY DEF Init, Busy, Tasks
  <2> QED BY <2>1, PermitsByBusy, FS_EmptySet, ResolverAssumption DEF Init
<1>3. StoreSound /\ Root \notin blocked
  BY DEF Init, StoreSound
<1>4. NoName \notin blocked
  BY ResolverAssumption DEF Init
<1>5. \A t \in Tasks : TaskInv(t)
  BY <1>4 DEF Init, TaskInv, Staged, PolicyTrue, OnTime, PolicyKept, OwnAnswer,
             LogTrue, AllTried, Forwarding, Nothing, NoRequest
<1> QED BY <1>1, <1>2, <1>3, <1>5 DEF IInv

(* A step of a task with a request, of either kind. *)
LEMMA ProgressStep ==
    ASSUME IInv, NEW t \in Tasks, Progress(t)
    PROVE  IInv'
<1>1. CASE Check(t)
  BY <1>1, CheckStep
<1>2. CASE Lookup(t)
  BY <1>2, LookupStep
<1>3. CASE Exchange(t)
  BY <1>3, TruncatedStep, AnsweredStep, AttemptEndsStep, BudgetExpiresStep DEF Exchange
<1>4. CASE Finish(t)
  BY <1>4, FinishStep
<1> QED BY <1>1, <1>2, <1>3, <1>4 DEF Progress

LEMMA NextIInv == IInv /\ [Next]_vars => IInv'
<1> SUFFICES ASSUME IInv, [Next]_vars PROVE IInv'
  OBVIOUS
<1>1. ASSUME NEW t \in UdpTasks, UdpStep(t) PROVE IInv'
  BY <1>1, UdpReceiveStep, ProgressStep, UdpReplyStep DEF UdpStep, Tasks
<1>2. ASSUME NEW t \in TcpTasks, TcpStep(t) PROVE IInv'
  <2>1. CASE TcpClose(t) \/ TcpSessionExpires(t)
    BY <2>1, <1>2, CloseStep DEF TcpClose, TcpSessionExpires, Awaiting
  <2> QED BY <1>2, <2>1, TcpAcceptStep, TcpReadStep, ProgressStep, TcpReplyStep
          DEF TcpStep, Tasks
<1>3. ASSUME NEW names \in SUBSET (Names \ {Root}), SwapBlocklist(names) PROVE IInv'
  BY <1>3, SwapBlocklistStep
<1>4. CASE FlushCache
  <2>1. store' = [n \in {} |-> store[n]]
    BY <1>4 DEF FlushCache
  <2> QED BY <1>4, <2>1, ForgetStep DEF FlushCache
<1>5. ASSUME NEW name \in Names, CacheForgets(name) PROVE IInv'
  <2>1. DOMAIN store \ {name} \in SUBSET DOMAIN store
    OBVIOUS
  <2> QED BY <1>5, <2>1, ForgetStep DEF CacheForgets
<1>6. CASE UNCHANGED vars
  <2>1. UNCHANGED <<taskVars, permitVars, blocked, store, policy>>
    BY <1>6 DEF vars
  <2>2. store' = [n \in DOMAIN store |-> store[n]]
    BY <2>1 DEF IInv, TypeOK
  <2> QED BY <2>1, <2>2, ForgetStep
<1> QED BY <1>1, <1>2, <1>3, <1>4, <1>5, <1>6 DEF Next

(* IInv holds in every reachable state. *)
THEOREM Invariance == Spec => []IInv
BY InitIInv, NextIInv, PTL DEF Spec

(* The state of every handler is well formed at every point of serve_udp,  *)
(* serve_tcp and handle(): in particular no attempt is made beyond the     *)
(* last upstream and no time is used beyond the budget.                    *)
THEOREM TypeCorrect == Spec => []TypeOK
<1>1. IInv => TypeOK
  BY DEF IInv
<1> QED BY <1>1, Invariance, PTL

(* Every exit path of a handler returns its permit, and once only, for any *)
(* limits and any number of tasks.                                         *)
THEOREM PermitsNeverLost == Spec => []PermitsAccounted
<1>1. IInv => PermitsAccounted
  BY DEF IInv
<1> QED BY <1>1, Invariance, PTL

(* The blocklist decides, not the cache: no request is answered for a name *)
(* that was blocked all the while it was served, nor sinkholed for one     *)
(* that never was, however lists are swapped and the cache is filled.      *)
THEOREM BlocklistDecides == Spec => []PolicyRespected
<1>1. IInv => PolicyRespected
  BY DEF IInv, TaskInv, PolicyKept, PolicyRespected
<1> QED BY <1>1, Invariance, PTL

(* Replies and cache entries answer the question they are given for,       *)
(* whatever upstreams send and whoever asked first.                        *)
THEOREM RepliesMatch == Spec => []AnswersOwnQuestion
<1>1. IInv => AnswersOwnQuestion
  BY DEF IInv, TaskInv, OwnAnswer, StoreSound, AnswersOwnQuestion
<1> QED BY <1>1, Invariance, PTL

(* A query answered within its budget is logged once, as what it was, and  *)
(* one that runs out of it is not.                                         *)
THEOREM LogIsTrue == Spec => []LogTellsTheAnswer
<1>1. IInv => LogTellsTheAnswer
  BY DEF IInv, TaskInv, Staged, LogTrue, LogTellsTheAnswer
<1> QED BY <1>1, Invariance, PTL

(* With a budget above upstream_timeout_ms times the number of upstreams,  *)
(* whatever these are, failover is never cut short.                        *)
THEOREM FailoverCompletes == Spec => []FailoverNotCutShort
<1>1. IInv => FailoverNotCutShort
  BY DEF IInv, TaskInv, AllTried, Ample, FailoverNotCutShort
<1> QED BY <1>1, Invariance, PTL

----------------------------------------------------------------------------
(* The sizes of an exchange (Payload): the inductive invariant, for any    *)
(* limit an operator configures, any offers of clients and any sizes of    *)
(* answers.                                                                *)

PayloadTyped ==
    /\ limit \in Nat
    /\ client \in [transport : {"udp", "tcp"}, offer : Nat]
    /\ whole \in Nat
    /\ msg \in [form : {"none", "whole", "stub", "local"}, size : Nat, opt : Nat]

(* The message in hand after an upstream answered: never a clipped one. *)
RelayedWhole ==
    hop = "relay" =>
        \/ msg.form = "stub"
        \/ msg.form = "whole" /\ msg.size = whole /\ msg.opt = client.offer

(* The message in hand before it is sent. *)
ReadyToFit ==
    hop = "fit" =>
        /\ \/ msg.form = "whole" /\ msg.size = whole
           \/ msg.form = "local" /\ msg.size = StubSize
        /\ client.offer = 0 => msg.opt = 0

PayloadInv == PayloadTyped /\ RelayedWhole /\ ReadyToFit /\ NothingClipped

----------------------------------------------------------------------------
(* The three places that turn an offer into a number of bytes agree. *)

(* What clamp_upstream_payload lets a compliant upstream send fits into    *)
(* the buffer of udp_exchange.                                             *)
LEMMA PromiseFitsBuffer ==
    ASSUME limit \in Nat, NEW offer \in Nat
    PROVE  Classic(ClampUpstreamPayload(offer)) <= ReceiveBuffer
BY DEF Classic, Larger, ClampUpstreamPayload, ReceiveBuffer

(* fit_udp cuts exactly what client or operator do not take. *)
LEMMA FitLimitIsAcceptable ==
    ASSUME PayloadTyped, NEW size \in Nat
    PROVE  size <= FitLimit(client.offer) <=> Acceptable(size)
<1>1. client.offer \in Nat /\ limit \in Nat
  BY DEF PayloadTyped
<1> QED BY <1>1 DEF FitLimit, Acceptable, Classic, Larger, Smaller

(* A client that sent no OPT gets none. *)
LEMMA NoOptForNone ==
    ASSUME limit \in Nat, NEW offer \in Nat
    PROVE  ResponseEdns(offer) \in Nat /\ (offer = 0 => ResponseEdns(offer) = 0)
BY DEF ResponseEdns, Classic, Larger, Smaller

----------------------------------------------------------------------------
LEMMA PayloadInitInv == PayloadInit => PayloadInv
BY DEF PayloadInit, PayloadInv, PayloadTyped, RelayedWhole, ReadyToFit, NothingClipped, Nil

LEMMA PayloadNextInv == PayloadInv /\ [PayloadNext]_payloadVars => PayloadInv'
<1> SUFFICES ASSUME PayloadInv, [PayloadNext]_payloadVars PROVE PayloadInv'
  OBVIOUS
<1> USE DEF PayloadInv
<1>1. ASSUME NEW n \in Limits, SetLimit(n) PROVE PayloadInv'
  BY <1>1, PayloadAssumption DEF SetLimit, PayloadTyped, RelayedWhole, ReadyToFit, NothingClipped
<1>2. ASSUME NEW t \in {"udp", "tcp"}, NEW o \in Offers, AskAgain(t, o) PROVE PayloadInv'
  BY <1>2, PayloadAssumption
     DEF AskAgain, PayloadTyped, RelayedWhole, ReadyToFit, NothingClipped, Nil
<1>3. ASSUME NEW t \in {"udp", "tcp"}, NEW o \in Offers, NEW s \in Sizes, Receive(t, o, s)
      PROVE  PayloadInv'
  BY <1>3, PayloadAssumption
     DEF Receive, PayloadTyped, RelayedWhole, ReadyToFit, NothingClipped
<1>4. CASE AnswerFromCache
  <2>1. /\ ResponseEdns(client.offer) \in Nat
        /\ client.offer = 0 => ResponseEdns(client.offer) = 0
    BY NoOptForNone DEF PayloadTyped
  <2> QED BY <1>4, <2>1 DEF AnswerFromCache, PayloadTyped, RelayedWhole, ReadyToFit, NothingClipped
<1>5. CASE AnswerLocally
  <2>1. /\ ResponseEdns(client.offer) \in Nat
        /\ client.offer = 0 => ResponseEdns(client.offer) = 0
    BY NoOptForNone DEF PayloadTyped
  <2> QED BY <1>5, <2>1, PayloadAssumption DEF AnswerLocally, PayloadTyped, RelayedWhole, ReadyToFit, NothingClipped
<1>6. CASE UdpExchange
  <2>1. Classic(ClampUpstreamPayload(client.offer)) <= ReceiveBuffer
    BY PromiseFitsBuffer DEF PayloadTyped
  <2>2. /\ Classic(ClampUpstreamPayload(client.offer)) \in Int
        /\ ReceiveBuffer \in Int /\ whole \in Int
    BY DEF PayloadTyped, Classic, Larger, ClampUpstreamPayload, ReceiveBuffer
  <2>3. whole <= Classic(ClampUpstreamPayload(client.offer)) => whole <= ReceiveBuffer
    BY <2>1, <2>2
  <2>4. \/ msg' = [form |-> "stub", size |-> StubSize, opt |-> 0]
        \/ msg' = [form |-> "whole", size |-> whole, opt |-> client.offer]
    BY <1>6, <2>3 DEF UdpExchange
  <2> QED BY <1>6, <2>4, PayloadAssumption
          DEF UdpExchange, PayloadTyped, RelayedWhole, ReadyToFit, NothingClipped
<1>7. CASE TcpExchange
  BY <1>7 DEF TcpExchange, PayloadTyped, RelayedWhole, ReadyToFit, NothingClipped
<1>8. ASSUME NEW stored \in BOOLEAN, HandBack(stored) PROVE PayloadInv'
  BY <1>8 DEF HandBack, PayloadTyped, RelayedWhole, ReadyToFit, NothingClipped
<1>9. CASE FitUdp
  <2>1. msg.size \in Nat /\ StubSize \in Nat
    BY PayloadAssumption DEF PayloadTyped
  <2>2. Acceptable(StubSize)
    BY PayloadAssumption DEF Acceptable
  <2>3. CASE msg.size <= FitLimit(client.offer)
    <3>1. msg' = msg /\ Acceptable(msg.size)
      BY <1>9, <2>1, <2>3, FitLimitIsAcceptable DEF FitUdp
    <3>2. PayloadTyped'
      BY <1>9, <3>1 DEF FitUdp, PayloadTyped
    <3>3. RelayedWhole' /\ ReadyToFit'
      BY <1>9, <3>1 DEF FitUdp, RelayedWhole, ReadyToFit
    <3>4. NothingClipped'
      BY <1>9, <3>1 DEF FitUdp, ReadyToFit, NothingClipped, Acceptable
    <3> QED BY <3>2, <3>3, <3>4
  <2>4. CASE ~(msg.size <= FitLimit(client.offer))
    <3>1. /\ msg' = [msg EXCEPT !.form = "stub", !.size = StubSize]
          /\ ~Acceptable(msg.size)
      BY <1>9, <2>1, <2>4, FitLimitIsAcceptable DEF FitUdp
    <3>2. msg.size = whole
      BY <1>9, <2>2, <3>1 DEF FitUdp, ReadyToFit
    <3>3. msg'.form = "stub" /\ msg'.size = StubSize /\ msg'.opt = msg.opt
      BY <3>1
    <3> QED BY <1>9, <2>1, <2>2, <3>1, <3>2, <3>3
            DEF FitUdp, PayloadTyped, RelayedWhole, ReadyToFit, NothingClipped, Acceptable
  <2> QED BY <2>3, <2>4
<1>10. CASE SendTcp
  BY <1>10 DEF SendTcp, PayloadTyped, RelayedWhole, ReadyToFit, NothingClipped
<1>11. ASSUME NEW still \in BOOLEAN, RetryOverTcp(still) PROVE PayloadInv'
  BY <1>11 DEF RetryOverTcp, PayloadTyped, RelayedWhole, ReadyToFit, NothingClipped, Nil
<1>12. CASE UNCHANGED payloadVars
  BY <1>12 DEF payloadVars, PayloadTyped, RelayedWhole, ReadyToFit, NothingClipped, Acceptable
<1> QED BY <1>1, <1>2, <1>3, <1>4, <1>5, <1>6, <1>7, <1>8, <1>9, <1>10, <1>11, <1>12
        DEF PayloadNext

(* PayloadInv holds in every reachable state. *)
THEOREM PayloadInvariance == PayloadSpec => []PayloadInv
BY PayloadInitInv, PayloadNextInv, PTL DEF PayloadSpec

(* An answer reaches the client whole or as a TC stub that client and      *)
(* operator leave no alternative to, for every upstream_udp_payload, also  *)
(* below 512 or above 65535, every offer and every size of answer.         *)
THEOREM AnswersArriveWhole == PayloadSpec => []NothingClipped
<1>1. PayloadInv => NothingClipped
  BY DEF PayloadInv
<1> QED BY <1>1, PayloadInvariance, PTL

=============================================================================

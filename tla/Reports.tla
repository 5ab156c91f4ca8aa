------------------------------- MODULE Reports -------------------------------
(***************************************************************************)
(* What the dashboard reads: the queries of db.rs over the rows the writer *)
(* has committed, with the ranges and limits the handlers of api.rs give   *)
(* them.                                                                   *)
(*                                                                         *)
(* The writer numbers its events; Log gives the event of each number its   *)
(* columns.  Times are seconds.  The readers' connection is not the        *)
(* writer's, and each SELECT sees one commit: an operator here is one      *)
(* SELECT, and summary(), which runs several, is several operators.        *)
(* Devices' last_seen is the set of those seen in the window.              *)
(***************************************************************************)
EXTENDS Writer, SequencesExt

CONSTANTS
    Log,               \* per number: [kind, ts, client, domain, qtype, status]
    BypassThreshold,   \* BYPASS_QUERY_THRESHOLD, 5
    Nows               \* times at which the dashboard is looked at

(* The columns ts and client_ip of queries are NOT NULL. *)
ASSUME ReportsAssumption ==
    /\ DOMAIN Log = 1..MaxSent
    /\ \A i \in 1..MaxSent :
          Log[i].kind = "query" => Log[i].ts \in Nat /\ Log[i].client # NoIp

Hour == 3600

AtLeast(n, low) == IF n < low THEN low ELSE n
Clamp(n, low, high) == IF n > high THEN high ELSE AtLeast(n, low)

(* ts >= now - hours.max(1) * 3600 *)
Since(now, hours) == now - AtLeast(hours, 1) * Hour

Queries(base, since) ==
    {i \in Range(base.events) : Log[i].kind = "query" /\ Log[i].ts >= since}

Blocked(ids) == {i \in ids : Log[i].status = "blocked"}

Holders(base, ip) == {m \in DOMAIN base.devices : base.devices[m].ip = ip}

(* Faulty variant: a plain JOIN. *)
InnerJoin(base, ids) ==
    UNION {{[id |-> i, device |-> {m}] : m \in Holders(base, Log[i].client)} : i \in ids}

(* LEFT JOIN devices d ON d.ip = q.client_ip: a query comes once with each *)
(* device that has the address, or alone.                                  *)
LeftJoin(base, ids) ==
    UNION {LET found == Holders(base, Log[i].client)
           IN  IF found = {} THEN {[id |-> i, device |-> {}]}
               ELSE {[id |-> i, device |-> {m}] : m \in found} : i \in ids}

(* GROUP BY column, COUNT( * ), ORDER BY c DESC LIMIT limit; a column is a *)
(* function of the rows.                                                   *)
Counted(column, limit) ==
    LET labels == {column[r] : r \in DOMAIN column}
        count(label) == Cardinality({r \in DOMAIN column : column[r] = label})
        sorted == SetToSortSeq({[label |-> l, count |-> count(l)] : l \in labels},
                               LAMBDA a, b : a.count > b.count)
    IN  SubSeq(sorted, 1, Clamp(limit, 0, Len(sorted)))

----------------------------------------------------------------------------
(* The SELECTs *)

SummaryTotals(base, now) ==
    LET ids == Queries(base, now - 24 * Hour) IN
    [total   |-> Cardinality(ids),
     blocked |-> Cardinality(Blocked(ids)),
     cached  |-> Cardinality({i \in ids : Log[i].status = "cached"}),
     clients |-> Cardinality({Log[i].client : i \in ids}),
     domains |-> Cardinality({Log[i].domain : i \in ids})]

SummaryHour(base, now) == Cardinality(Queries(base, now - Hour))

(* ORDER BY q.ts DESC, q.id DESC *)
Newer(a, b) ==
    \/ Log[a.id].ts > Log[b.id].ts
    \/ Log[a.id].ts = Log[b.id].ts /\ a.id > b.id

(* recent_queries: LIMIT size OFFSET offset of the rows, newest first.  A  *)
(* row is on the page if as many rows precede it as the page takes; a      *)
(* filter is the set of queries it keeps.                                  *)
RecentQueries(base, filter, limit, offset) ==
    LET rows   == LeftJoin(base, Queries(base, 0) \cap filter)
        before(r) == Cardinality({q \in rows : Newer(q, r)})
        size   == Clamp(limit, 1, 1000)
    IN  {r \in rows : before(r) \in offset..(offset + size - 1)}

TopDomains(base, now, hours, limit, blocked) ==
    LET ids == Queries(base, Since(now, hours)) IN
    Counted([i \in IF blocked THEN Blocked(ids) ELSE ids \ Blocked(ids) |-> Log[i].domain],
            Clamp(limit, 1, 200))

TopClients(base, now, hours, limit) ==
    Counted([r \in LeftJoin(base, Queries(base, Since(now, hours))) |-> Log[r.id].client],
            Clamp(limit, 1, 200))

QueryTypes(base, now, hours) ==
    Counted([i \in Queries(base, Since(now, hours)) |-> Log[i].qtype], 12)

(* SELECT (ts / bucket) * bucket AS b, ... GROUP BY b *)
BucketOf(i, bucket) == (Log[i].ts \div bucket) * bucket

BucketRow(ids, bucket, b) ==
    LET mine == {i \in ids : BucketOf(i, bucket) = b} IN
    [ts |-> b, allowed |-> Cardinality(mine \ Blocked(mine)),
               blocked |-> Cardinality(Blocked(mine))]

(* Faulty variant: buckets are kept by their start. *)
TimeseriesByStart(base, now, hours, bucket) ==
    LET ids == Queries(base, 0) IN
    {BucketRow(ids, bucket, b) :
        b \in {c \in {BucketOf(i, bucket) : i \in ids} : c >= Since(now, hours)}}

Timeseries(base, now, hours, bucket) ==
    LET ids == Queries(base, Since(now, hours)) IN
    {BucketRow(ids, AtLeast(bucket, 60), b) :
        b \in {BucketOf(i, AtLeast(bucket, 60)) : i \in ids}}

(* devices: the queries are counted per address before the join. *)
DeviceRows(base, now) ==
    LET ids == Queries(base, now - 24 * Hour) IN
    {[mac     |-> m,
      queries |-> Cardinality({i \in ids : Log[i].client = base.devices[m].ip}),
      blocked |-> Cardinality({i \in Blocked(ids) : Log[i].client = base.devices[m].ip})] :
        m \in DOMAIN base.devices}

(* bypass_suspects, by a correlated subquery; seen are the devices last    *)
(* seen in the window.                                                     *)
BypassSuspects(base, now, hours, most, seen) ==
    LET count(m) == Cardinality({i \in Queries(base, now - hours * Hour) :
                                     Log[i].client = base.devices[m].ip})
    IN  {m \in DOMAIN base.devices \cap seen :
            base.devices[m].ip # NoIp /\ count(m) <= most}

NxdomainOffenders(base, now, mins, threshold) ==
    LET ids == {i \in Queries(base, now - mins * 60) : Log[i].status = "nxdomain"}
        all == Counted([i \in ids |-> Log[i].client], Cardinality(ids))
    IN  {c \in Range(all) : c.count >= threshold}

----------------------------------------------------------------------------
(* The handlers of api.rs *)

DefaultHours == 24
DefaultTop   == 15

(* timeseries: about 120 points, no bucket below a minute. *)
Chart(base, now, hours) ==
    LET h == Clamp(hours, 1, 24 * 30)
    IN  Timeseries(base, now, h, AtLeast((h * Hour) \div 120, 60))

----------------------------------------------------------------------------
(* Properties *)

(* Every database a reader can see is there between two batches, as the    *)
(* commit or the pruning that made it left it; collecting and executing    *)
(* the next batch change nothing of it.                                    *)
BetweenBatches == phase \in {"recv", "prune"}

Total(counted) == FoldLeft(LAMBDA n, c : n + c.count, 0, counted)

(* The query log shows every committed query exactly once, page by page    *)
(* and under a filter too, however addresses move between devices: the     *)
(* join that finds the client's name never multiplies a row.               *)
OneRowPerQuery ==
    BetweenBatches =>
    \A filter \in SUBSET (1..MaxSent) :
        LET wanted == Queries(db, 0) \cap filter
            page(k) == RecentQueries(db, filter, 1, k)
        IN  /\ \A k \in 0..(Cardinality(wanted) - 1) : Cardinality(page(k)) = 1
            /\ page(Cardinality(wanted)) = {}
            /\ UNION {{r.id : r \in page(k)} : k \in 0..(Cardinality(wanted) - 1)} = wanted

(* The panels, each with a SELECT of its own, tell the same story of the   *)
(* same rows at the same time: chart, top lists and query types add up to  *)
(* the totals of the summary; no query is attributed to two devices; and   *)
(* a device is suspected of bypassing exactly if the device table shows it *)
(* with few enough queries.                                                *)
PanelsAgree ==
    BetweenBatches =>
    \A now \in Nows :
        LET totals  == SummaryTotals(db, now)
            chart   == Chart(db, now, DefaultHours)
            blocked == TopDomains(db, now, DefaultHours, DefaultTop, TRUE)
            clients == TopClients(db, now, DefaultHours, DefaultTop)
            rows    == DeviceRows(db, now)
        IN  /\ totals.total = MapThenSumSet(LAMBDA b : b.allowed + b.blocked, chart)
            /\ totals.blocked = MapThenSumSet(LAMBDA b : b.blocked, chart)
            /\ totals.blocked = Total(blocked)
            /\ totals.total = Total(clients)
            /\ totals.clients = Len(clients)
            /\ totals.total = Total(QueryTypes(db, now, DefaultHours))
            /\ totals.total = Total(blocked)
                   + Total(TopDomains(db, now, DefaultHours, DefaultTop, FALSE))
            /\ SummaryHour(db, now) <= totals.total
            /\ MapThenSumSet(LAMBDA r : r.queries, rows) <= totals.total
            /\ BypassSuspects(db, now, DefaultHours, BypassThreshold, Macs)
                   = {r.mac : r \in {s \in rows : /\ db.devices[s.mac].ip # NoIp
                                                  /\ s.queries <= BypassThreshold}}
            /\ \A o \in NxdomainOffenders(db, now, DefaultHours * 60, 1) :
                   \E c \in Range(clients) : c.label = o.label /\ o.count <= c.count
=============================================================================

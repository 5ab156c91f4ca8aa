# netwatch: a TLA+ verification project

netwatch is a filtering DNS resolver for a home network with a device registry,
link monitoring, alerts and a dashboard, in one Rust process on tokio. This
directory holds TLA+ models of the parts of it that keep state, the TLC
configurations that check them on small instances, and proofs, checked by
TLAPS, of what holds for every value of the constants. `PROJECT.json` maps every
definition to the lines it models and lists runs, mutants, hazards, findings and
theorems.

## 1. The system

| Part | State | Operations | Talks to |
|---|---|---|---|
| answer cache (`dns/cache.rs`) | one map behind one mutex | get, insert with evict, sweep, clear | called by the DNS service; cleared by the API after an edit |
| DNS service (`dns/mod.rs`) | two semaphores; one task per datagram or connection | admission, canary, blocklist, cache, failover over upstreams, budget, log, reply | reads the blocklist through an `Arc<RwLock<Blocklist>>`; logs through the writer; tells the registry which address asked |
| source ACL (`dns/acl.rs`) | the rules, fixed at startup | parse, trust the LAN, is a source address allowed | DNS service |
| blocklist files (`blocklist.rs`) | `deny.list`, `allow.list` and one cached file per source on disk; health per source; a refresh lock | download, build, append, remove | called by API, scheduler and startup |
| matcher (`blocklist.rs`) | three tables and a list of sources, immutable once built | parse and ingest a list, lookup | DNS service, dashboard |
| HTTP API (`api.rs`) | none of its own | deny, allow, reload, flush-cache; many reads | lists, matcher, cache, database |
| configuration (`config.rs`) | none | load, validate, override by flags | startup, `--check-config` |
| startup (`main.rs`) | the process | check or load the configuration, open storage, find the LAN, load lists, hydrate, bind with retries, spawn tasks, shut down | everything, systemd |
| database writer (`db.rs`) | bounded queue, batch in hand, open transaction, tables | send, receive, flush, prune | every producer of rows |
| database readers (`db.rs`) | none | SQL for the dashboard | committed rows |
| device registry (`devices.rs`) | devices by MAC, index by address, names waiting for an address | observe, observe_named, observe_name_for_ip, touch_ip, hydrate, persist | writer, alert sink |
| discovery (`devices.rs`) | sockets | ARP poll, DHCP, mDNS, reverse DNS, sweep | registry |
| alerting (`alerts.rs`) | cooldown map, bounded queue | raise, drain, notify, store, storm watch | ntfy, writer |
| link monitor (`monitor.rs`) | the last counters read | throughput and latency samples | writer |
| network information (`netinfo.rs`) | none | routing table, subnets, system facts | startup, API |
| vendor table, dashboard page | none | lookup, drawing | registry, API |

What is hard in it is not any single function. Requests interleave with policy
changes and with each other; budgets and deadlines cancel work at an await;
queues overflow by design; transactions fail half way; the process dies and
comes back from what it had committed; the registry and the database each keep
a copy of the same facts. What makes each part correct:

* cache: bounded; a TTL counts down from what was granted; an answer only to the
  client whose terms it was given on; what is evicted is next to expire (a full
  map evicts before every insert, also one that replaces a key); expired entries
  go.
* DNS service: permits come back; what is blocked is not answered; a reply
  answers its own question; the log says what the client was told; failover
  reaches the last upstream; every task ends.
* sizes: an answer reaches the client whole, or as an honest truncation that
  leads it to TCP.
* matcher: it decides as the lines of the files do; each rule is counted once.
* startup: it serves whom the operator meant; a busy port is ridden out, and one
  that stays busy ends in a visible failure, not in half a service.
* lists: an edit that is answered is in force; refreshes exclude one another;
  health says the truth; a cached list is replaced by a whole one or stays.
* writer: readers see whole batches in order; one device per address; the queue
  moves again whatever fails.
* registry: index and devices agree; a device seen has its row written or on
  its way; a stored device is not announced as new.
* readers: a query is shown once, and panels that count the same rows agree.
* sampler: a rate never exceeds what was carried.
* alerts: one alert per subject and cooldown; a queued alert is stored or
  counted; the notified column is true.

## 2. The modules

Every module keeps the names of the code where TLA+ allows. A *faulty variant*
(commented as such) is a plausible slip of the code, used by a mutant in
`PROJECT.json` to show that a property notices it; no specification uses one.

**Cache.tla** models `dns/cache.rs`. `map`, `now`, and `result`, what the last
call returned. `Get`, `Insert`, `InsertDeclined` (what `insert` refuses to
store), `Sweep` and `Clear` are the methods, each one step because each holds
the mutex throughout; `Tick` is time. A TTL is in seconds and the clock in
fractions of one, because `get` rounds the elapsed time down. Each entry
remembers, for the properties only, when its message `arrived`. Records are reduced to TTL and
"is it OPT": the cache decides by nothing else.

**LossyStore.tla** is what the cache promises its callers: a lookup yields
nothing, or exactly the message last stored under the same terms; anything may
be forgotten. `ImplementsLossyStore` is the refinement: the terms are the
question, the DO bit and the CD bit; the mapping forgets keys and clock, undoes
the countdown of TTLs, and keeps for whom each answer was fetched.

**Resolver.tla** models `dns/mod.rs`, with the cache as such a store. A task
moves through `pc`: `UdpReceive` or `TcpAccept`/`TcpRead` (admission),
`Check` (checks on the request, canary, blocklist), `Lookup` (cache, then the
first upstream), an exchange that is `Answered`, `Truncated` (retried over
TCP), `AttemptFails` or `AttemptTimesOut`, each with the time it took, then
`Finish` (insert under the key of the request, log), and `UdpReply`/`TcpReply`/`TcpClose`/`TcpSessionExpires`.
`BudgetExpires` is the outer timeout that drops the inner future.
`SwapBlocklist` and `FlushCache` are the administrator. A step is the code
between two awaits or, where another thread's change may come between, between
two accesses to shared state.

**Lists.tla** models `blocklist.rs` (files, health, lock), the four endpoints of
`api.rs`, and in `main.rs` the scheduled refresh and the startup. A worker is a
handler, the scheduler or the startup; each file operation is a step:
`Append`; `StartRemove` (read), `Truncate`, `Write`; `Mkdir`; `BuildLists`,
`BuildDeny`, `BuildAllow`, `Swap`. `fetch_one` is `Download` (the whole body is
in memory), `CreateTmp` and `FillTmp` (the two halves of `fs::write` to a
temporary name) and `Rename`, which also sets the health; `FetchFails` is a
download that fails, `StoreFails` any of the file operations after it, and
`FetchEnds` the end of the loop. `Cut` is a file with part of a list. `Deadline`
cancels a handler at an await, of which there is none between a body and its
rename; `Restart` is a crash of the process at any point, and leaves temporary
files behind under names that nobody reads. A power failure is not modelled:
nothing is synced, so that the rename could reach the disk before the data. Nor
is a body that ends with its connection and without a length, which nobody can
tell from a whole one.

**Writer.tla** models the writer thread of `db.rs`: `Send` (drops when full),
`Recv`, `Drain`, `BeginFlush`, `ExecuteNext`, `Commit`, `FlushFails`, `Prune`,
`Crash`. `staged` is what the open transaction would commit, `db` what readers
see. `Upsert` is the SQL of the device upsert with the release of the address.
An event is kept under its row id; the last id given out is part of the
database, so that a rollback takes it back and a deletion does not
(AUTOINCREMENT).

**Devices.tla** models the registry together with the writer it feeds
(`W == INSTANCE Writer`). Each call changes the registry under its lock in one
step (`Observe`, `ObserveNamed`, `ObserveNameForIp`, `TouchIp`); sending the
row (`Persist`) and raising the alert (`Raise`) are later steps of the same
thread, as in the code. `Restart` loses memory and hydrates from `db`, or fails
to read it and starts empty, as `main.rs` does.

**Alerts.tla** models the sink (`TakeSlot`, then `TrySend` after the mutex is
released), the watcher (`Scan`, `RaiseStorm`) and the task (`Receive`,
`Notify`/`Store`). ntfy accepts or refuses, and its answer arrives or not.

**Matching.tla** models the parser and the matcher of `blocklist.rs`. `OpenList`
is `ingest` up to its loop (it interns the list and notes the size of the
tables), `ReadLine` one turn of the loop (`IngestLine`: Adblock rule, hosts line,
single field) through `normalize` into the tables, the first list to name a
domain keeping it, and `CloseList` counts what was added. A step per line is
finer than what others can see: the `Blocklist` is local to `build()`, so `Ask`,
which is `lookup`, comes only after the last list. `SkipList` is a file that
cannot be read, `BlockingDisabled` the empty matcher, `Rebuild` the next
`build()`. A domain is a sequence of labels; of the characters only "can a
hostname have this label" is kept. `read`, a history variable, is the set of
lines read, each with its list: the properties compare the tables with it.

**Payload.tla** models the sizes in `dns/mod.rs`: the EDNS offer of the client,
the clamped offer upstream, the receive buffer, the retry over TCP, the cache,
`response_edns` and `fit_udp`. It follows one answer through successive clients
with different offers, because the cache hands an answer fetched for one of them
to another. The upstream is external and compliant.

**Acl.tla** has the operators of `dns/acl.rs` and the part of `netinfo.rs` that
finds the LAN in the routing table. `Parsed` turns entries into rules: most stand
for themselves, `0.0.0.0/0` for "any" in both families. **Startup.tla** extends it with the life of
the process: `CheckConfig`; `LoadConfig`, `OpenStorage`, `FindNetwork` (subnet,
ACL, tasks); per DNS listener `Bind`, `BindBusy`, `BindFails`, which are
`bind_with_retry` and the exit after it; `AuxFails` of the tasks that may fail;
`Shutdown`. Other users of the ports, the clock and systemd's restart limit are
external. A launch, chosen first, fixes configuration file, flags, routing table
and ports.

**Reports.tla** extends `Writer` with the SELECTs of `db.rs` and the handlers of
`api.rs` that call them, as operators of the committed database: joins, clamped
limits, windows and buckets as in the SQL. A page of the query log is the set of
the rows that as many newer rows precede as `LIMIT` and `OFFSET` say. The event
with the number *i* that `Writer` commits is the query `Log[i]`.

**Sampler.tla** models `throughput_sampler` of `monitor.rs` over external kernel
counters that wrap, reset and disappear.

The `MC*` modules supply sets, symmetry and instances for TLC. Three of them also
check, in one run, components that share no variable: `MCResolver` (Resolver,
Matching, Payload), `MCStartup` (Startup, Resolver under a tight budget) and
`MCAlerts` (Alerts, Sampler). Their `MCSpec` lets a behaviour be one of one
component, with the others at their initial state throughout. The states of the
components are thereby added and not multiplied, and every behaviour of each
component is one of `MCSpec`. Nothing is lost, because the components have no
variable in common. The fairness of each stays as it is: none of its fair
actions is enabled in its initial state, so it demands nothing of a component at
rest.

`Devices` composes the registry with the writer, `Reports` the readers with the
writer; `Resolver` takes the cache as its abstract specification, and the
matcher and `Lists` as a set of blocked names that the administrator swaps.

## 3. The runs

| Run | Instance | Result |
|---|---|---|
| `cache` | 4 requests on 3 keys, 2 slots, TTLs 0-4 capped at 3, half-second clock up to 3 s | passes |
| `cache_glue` | the same, with an additional record of a shorter TTL than the answer | finding 1 |
| `resolver` | one UDP task, one TCP connection, one permit each, three names, two upstreams, budget above the sum of the attempts; matcher: four list files of seven contents, names of up to four labels; sizes: offers and limits below, at and above 512 | passes |
| `startup` | four-bit addresses; launches with every kind of `allow_from`, none and `0.0.0.0/0` among them, faulty and missing configuration, public and private LAN, ports free, taken, denied or contended; retry window 3, restart limit 2; and two UDP tasks on one permit, a TCP connection, a budget that runs out mid-failover; fairness | passes |
| `startup_check` | the same launches | finding 2 |
| `lists` | one handler, scheduler and startup, one domain (spelled two ways), two sources (symmetric) | passes |
| `lists_race` | two handlers | finding 3 |
| `writer` | two devices on one address, three queries of two clients, queue and batch of two, fairness; the reports at two times, either side of the end of a day and of an hour | passes |
| `devices` | two devices (symmetric), one address, one name, three threads, queue of one | passes |
| `devices_new` | two names, queue and batch of two | finding 4 |
| `devices_lease` | the same | finding 5 |
| `alerts` | a device and a client, queue of one, map limit of one, cooldown 2 of a clock of 3, fairness; sampler: two interfaces, counters that wrap at 3 | passes |

What the properties say:

* `cache`: `SizeBound`; `NeverExtendsTtl` (a TTL handed out is the time the
  record has left since it arrived, rounded up to a whole second: granted 3 s, it
  is 3 after half a second and 1 after 2.5; rounding is all that is added, and
  nothing is taken away);
  `LosesOnlyTheSoonest` (short of a flush, a live entry goes only when the map
  is full and nothing in it has expired, and then nothing that stays, the answer
  being inserted aside, would have expired sooner);
  `ExpiredEventuallyDropped`; `ImplementsLossyStore`.
* `resolver`: `PolicyRespected` (a name blocked ever since the request came is sinkholed,
  one never blocked since is not, whatever the cache holds);
  `AnswersOwnQuestion` (of replies and of what the cache holds under a name:
  whatever `forward` lets through is filed under the name that was asked);
  `FailoverNotCutShort` (a budget above the sum of the
  attempts never runs out while an upstream is untried). `LookupIsDecision`
  (the tables decide a name as a reading of the lines themselves does, allow
  rules first, and the list blamed has such a rule); `CountsAddUp` (the entry
  count of a list is the number of rules that blame it, with overlapping lists
  and two lists of one name); `NothingClipped` (an answer arrives whole, or over
  UDP as a TC stub when it is longer than client and operator allow; none is cut
  by our own buffer).
* `startup`: `ServesWhoWasMeant` (whoever `allow_from` means is served, beyond
  that only the LAN and only under "private", which no list at all means too;
  the one exception, an empty list on a LAN of public addresses, is in section
  5); `RidesOutConflict` (a listener ends the process
  only if a port was denied, or taken when the window was over);
  `ServesOrFails` (a start leads to all listeners bound, to the operator's
  shutdown or to systemd's failed state); and, of `Resolver` where budgets
  expire, `LogTellsTheAnswer` (one row per answered request, with the status of
  the answer, and none for an expired budget), `PermitsAccounted` (permits free
  and held add up) and `EveryTaskEnds`.
* `lists`: `AppliesWhenAlone` (an edit nobody interferes with is in the matcher
  when it is answered, and matcher and disk agree); `RefreshExclusive`;
  `HealthHonest` (a source shown as ok or stale has a whole copy on disk);
  `CachedListSurvives` (a cached copy changes only into a whole download, and no
  matcher in use has part of one, whatever fails or crashes on the way).
* `writer`: `UniqueIp`; `LogInOrder` (events are committed in the order
  submitted and none twice); `WholeBatches` (the events readers see
  grow by a whole batch or not at all, or are pruned); `QueueMoves` (a full queue gets room again); `OneRowPerQuery` (the
  pages of the query log hold every committed query once under any filter,
  although a device name is joined to it); `PanelsAgree` (summary, chart, top lists, query types,
  device table and bypass suspects count the same rows alike).
* `devices`: `IndexSound` (an indexed address leads to a device, a
  device's address is indexed, and no name waits for an address that is); `RowOnItsWay` (every device in the
  registry has a row in the database or on the way to it, as long as no row was
  dropped, rolled back or lost in a crash); `OnlyUnseenAnnounced` (a device with a committed row is
  not announced, unless the database could not be read at startup).
* `alerts`: `CooldownHolds`; `NotifiedHonest`; `RecordedOrCounted`;
  `NeverOverstates` (no sample shows more than was carried between two readings).

**Bounds.** Each is the least that makes the contested case happen: one key
more than slots for eviction, one permit and two tasks for refusal, two upstreams
for failover, two devices on one address for a moving lease, a queue that
fills after one or two entries, a map that passes its limit with the second
subject. Clocks stop at `MaxClock`, long enough for an entry to be stored, to
expire and to be replaced; a bound is a guard of `Tick` or of `SubmitEvent`
and of nothing else, so that it stops the world's inputs and not the code.
Durations in `Resolver` are small integers: only their order relative to the
budgets decides anything. In `Startup` the same holds of the retry window, the
pauses and the restart limit; addresses have four bits, so that every prefix
length from none to all bits occurs. `Reports` uses real seconds, because the
windows and buckets are constants of the SQL. A counter of `Sampler` wraps at 3
and may carry 4, so that it can pass its last reading after wrapping.

**Fairness.** `Cache`: weak fairness of `Sweep`, which a task runs on an
interval for ever. `Resolver`: weak fairness of the steps the runtime takes and
of its timers (a future that is ready, or whose timer fired, is polled) and of
sending a UDP reply; nothing is assumed of upstreams and clients. The TCP
session limit is strongly fair: it wraps the whole session, so that its timer
fires although the session is between awaits again and again. `Writer`: weak
fairness of the writer thread, which loops for ever; a flush may fail every
time. `Alerts`: weak fairness of the task, whose only wait, for ntfy, is
bounded by a timeout of 10 s. `Startup`: weak fairness of the next step of the
process, of systemd's reaction, of time passing, and of each listener's attempt
once its pause is over; nothing is assumed of the operator or of who else uses
the ports. Safety runs assume none.

## 4. What is proved

Every theorem is about the specification as TLC checks it, for arbitrary
constants under the named assumptions of the modules, and uses no bound of a
run. Each safety property of a passing run has one, except `PanelsAgree`. The
argument is the same throughout: an inductive invariant
(`IInv`, or named otherwise where a module has two), one lemma per action or
group of actions that it is kept, `Invariance`, and a theorem per property. What
is said here is why the property alone is not inductive.

**CacheProofs.tla**: `TypeCorrect`, `SizeBounded`, `TtlNeverExtended`,
`OnlyTheSoonestGo`, `CacheIsLossyStore`. `NeverExtendsTtl` speaks of the last
result only: `Get` needs from `EntriesSound` (an entry was stored in the past
and its lifetime is at most the TTL of every governing record) that a live entry
is younger than each of its TTLs, so that counting down in whole seconds
(`WholeSeconds`, a lemma on `\div`) stays at 1 or above and the floor never
adds; and that `inserted`, which `get` measures from, is when the message
arrived. `SizeBound` needs `FiniteMap` and `EvictFrees`: evicting from a full map
makes room for one. The refinement needs `KeysMatch` (an entry is under the key
of the request it answers); `KeysAreTerms` says that two requests have one key
exactly if they ask in the same terms, `GrantedIsStored` that the mapping undoes
the countdown. Then a hit is a `Find`, an insertion a `Store` and everything
else a `Forget`.

**ResolverProofs.tla**: `TypeCorrect`, `PermitsNeverLost`, `BlocklistDecides`,
`RepliesMatch`, `LogIsTrue`, `FailoverCompletes`. The invariant is a conjunction
over tasks, so that a step touches one conjunct (`Frame` covers the others):
`Staged` (what a task holds at each point of its path, in particular that nothing
is logged or answered before the reply), `PolicyTrue` (the history variable
behind `PolicyRespected` is right about the current list), `OnTime` (time used
up to and with this attempt is at most one timeout per upstream tried, from
which `FailoverNotCutShort` follows), and `StoreSound` of the cache. Permits are
counted by `OneBegins` and `OneEnds`, on finite sets of tasks.

The last part of the module is about `Payload`: `AnswersArriveWhole`. Its
invariant, `PayloadInv`, says what message is in hand at each hop; the lemmas say
that the three places that turn an offer into a number of bytes (the offer
upstream, the receive buffer, the cut for the client) agree for every configured
size, those below 512 too. `PayloadAssumption`: header, question and OPT fit in
512 bytes, since a name has at most 255.

**MatchingProofs.tla**: `LookupDecidesAsTheLines`, `CountsTellTheRules`, for any
lists and lines. Both properties speak of what a whole `build()` leaves behind,
so the invariant says what holds after each line. `TablesTell`: each of the four
tables holds exactly the domains that the lines read so far name for it;
`LineAddsItsEntries` is the lemma that every way of recognising a line comes to
adding the entries it lists. `Credited`: the list an entry is credited to has a
line with that entry, which no later list can change, as the first to name a
domain keeps it. Given these, `lookup()` is right whatever came before: a line
covers a name exactly if the name or one on the walk up is in the table
(`CoversByTables`), and the walk has a first hit if it has any
(`FirstHit`). `CountsKept`: the count of a list and what the file now being read
has added, which the code knows only as a difference of sizes, are together the
entries that blame it. Every insertion shows in the size of the tables and in
the entries of the list being read by the same number (`InsertBlames`), also
when that list had its slot from an earlier file of the same name.

**ListsProofs.tla**: `TypeCorrect`, `OneRefreshAtATime`, `HealthIsTrue`,
`EditInForce`, `CopiesSurvive`, for any number of concurrent handlers.
`AppliesWhenAlone` needs, for a worker that nobody has overlapped (`Solo`), that
each part built so far equals what is on disk (`Tracks`) and that an added line
is in its file from the append on (`Added`). A worker that is storing a download
has a body, and what it renames is the whole of it (`Downloads`). From this a
second invariant, `Stored`, follows: cached copies, matchers being built and the
one in use have no part of a list, and `last_success` is only ever set of a
source with a copy (`EverHonest`), which `HealthHonest` needs. `CopiesSurvive`
takes `IInv` before a step and `Stored` after it.

**WriterProofs.tla**: `TypeCorrect`, `OneHolderPerAddress`, `StoredOnceInOrder`,
`BatchesAreWhole`, `LogShowsEachQueryOnce`. Committed rows are what was staged: the invariant asks for
`OneHolder` of both, and by `FlushInv` the staged events are, in order, the
committed ones and the part of the batch executed so far. `ReleaseIpEffect` and
`UpsertEffect` carry the device table; `EventsOfAppend`, `EventsOfTail`,
`InsertEffect` and `PruneEffect` the events. Order also needs that no event has a
number that was not given out yet (`NumbersGiven`). `OneRowPerQuery` follows from
`OneHolder` in any one state: the join has one row per query (`JoinKeepsRows`),
the order is total on such rows (`NewerIsOrder`), so the number of newer rows is
an injection of *n* rows into *n* positions, and hence onto them
(`EachPositionOnce`).

**DevicesProofs.tla**: `TypeCorrect`, `IndexAgrees`, `NoDeviceForgotten`,
`AnnouncedOnlyUnseen`. `Devices` moves the writer by the writer's own actions, so
the module takes the invariant of `WriterProofs` by INSTANCE (`WriterKept`) and
does not prove it again. `Reach` is the set of devices with a row committed,
staged, in the batch, in the queue or still to be sent. `Covered` says that it
is within the registry if that was loaded, and the registry within it if no
write was lost: one half yields `OnlyUnseenAnnounced`, the other `RowOnItsWay`.
A commit keeps `Reach` because of `StagedRows` (what was executed is staged).

**AlertsProofs.tla**: `TypeCorrect`, `NoPushClaimedInVain`, `OncePerCooldown`, and
of the sampler `SamplesNeverOverstate`. `CooldownHolds` needs that an alert within
its cooldown, wherever it is by now, still has its slot in the map or a later one
(`Guarded`): thinning out takes only slots that guard nothing. The sampler needs
`NotAhead`: wrapping and replacement only ever set a counter back.

**StartupProofs.tla**: `ConflictsRiddenOut`, `ServedAsMeant`. A listener that is
about to fail is `Doomed` before it does, and `BindInv` says that this was noted.
For the ACL: while running, `acl` is what `trust_subnet` made of the entries
(`AclInv`), and the rest is arithmetic. `MaskIsRange` shows that comparing under
a mask is membership in a block, for every width and prefix, and
`RulesServeWhoWasMeant` puts the rules together.

Assumptions beyond types and distinct null values: `ReportsAssumption` has that a
query has a time and a client (both columns are NOT NULL); `AclAssumption` has that
powers of two are positive (TLAPS derives nothing about exponents; TLC evaluates
it); `StartupAssumption` that the retry window is not zero and outlasted by the
clock; `LanAssumption` that the LAN is a subnet, and one whose network address is
private or loopback lies wholly in those ranges. The code trusts the first
address of the LAN for all of it: a LAN of 10.0.0.0/7 would be such an exception,
and no host gets it assigned.

Only model-checked:

* liveness, which is beyond the prover: `ExpiredEventuallyDropped`,
  `EveryTaskEnds`, `ServesOrFails`, `QueueMoves`, `RecordedOrCounted`;
* `PanelsAgree`: it compares sums over sets and over sorted lists, and what a
  fold computes takes an induction over data. It is also true only while the
  groups of a top list fit within its `LIMIT` (15 domains or clients, 12 query
  types), as they do in the run; a longer list shows less than the total by
  design.

Proving found one property that was false as first stated: `LosesOnlyTheSoonest`
compared every entry that is the same before and after. With ten entries or more
an insertion evicts two or more of them, and may evict and put back at once the
very answer it inserts, beside one that would have lived longer. Two slots never
show this. The property now sets the inserted answer aside, and demands in return
that all others stay as they were.

## 5. Findings

1. **Additional records outlive their TTL** (`cache_glue`). An entry lives by
   the answer and authority sections, and the countdown is floored at 1: a
   shorter-lived additional record is handed out after it ran out, against
   "can only ever shorten a TTL".
2. **A configuration that passes the check may not start** (`startup_check`).
   `--check-config` validates, applies the flags and validates again
   (`main.rs:70-84`); a start validates before the flags only (`main.rs:148`)
   and parses `discovery.subnet` later (`main.rs:255`). A malformed subnet
   passes the check and stops the start, and a flag that puts the dashboard on
   the network without a token is rejected by the check and comes up.
3. **The later edit may not be the one in force** (`lists_race`). Two rebuilds
   overlap, the older is swapped in last, and matcher and disk disagree until
   the next rebuild, against "applies immediately".
4. **A device first heard of over DHCP is never announced** (`devices_new`):
   `observe_named` creates the entry without an alert.
5. **An address that moves away and back stays with the wrong row**
   (`devices_lease`): the registry lets two devices hold it and takes the first
   one's row for up to date; the row is put right at the next write of that
   device.

Met while modelling, without a run of their own:

* `remove_manual` compares spelling, the trailing dot included
  (`blocklist.rs:642-648`), while matching ignores the dot; a line added as
  `a.example.` is not removed as `a.example`.
* When the lists directory cannot be created no health is set
  (`blocklist.rs:408-418`), although the comment there means the dashboard to
  show it.
* An alert dropped at the full queue is in no counter (`alerts.rs:119`), and
  the operations of a failed flush are in none either; the cooldown map is
  thinned only of entries past their cooldown, so that it is not bounded by
  4096 within one (`alerts.rs:137-139`).
* A name that was waiting for an address replaces, in `observe`, the name a
  device gave over DHCP (`devices.rs:254-256`); the comment at 336-337 prefers
  the latter.
* A request whose budget runs out is not logged (`dns/mod.rs:199`), against
  "Every DNS query is logged" (`src/README.md:41`).
* `src/README.md:489-490` says that `*.doubleclick.net` does not match the apex;
  `blocklist.rs:77-87` and its test match it.
* With `allow_from` empty and a LAN of public addresses, the rule `trust_subnet`
  adds becomes the only one (`acl.rs:96-104`), and loopback and private sources
  are refused, against the comments at 58-59 and 95. `trust_subnet` also asks
  about the first address of the LAN only, so a narrower listed CIDR that begins
  there keeps the rest of the LAN out.
* `is_open_to_world` does not flag `::/0`.
* `bind_with_retry` may make its last attempt after the 30 s that its message
  names, by up to one pause.
* The reverse-DNS worker (`devices.rs:737-769`) asks for ever for a name that
  `sanitize_hostname` rejects, against the comment at 748-750.
* `summary()` runs four SELECTs outside a transaction (`db.rs:587-620`): a commit
  in between may show more queries in the last hour than in the last day.
  `PanelsAgree` is about one state of the database.
* `TDD.md:232` gives interface and latency samples the retention of the query
  log; `prune` keeps them for 3 days.

## 6. Not modelled

Of parts that are modelled: the rest of the wire format (hickory's), the attempt
limit of the reverse-DNS worker, `latency_sampler` (it sends what `ping` says,
and keeps nothing), the lists of alerts and samples the dashboard reads (plain
SELECTs over one table), the admin token and the headers of the API, and
`--rebuild-db`. Left out for good: parsing of ARP and DHCP packets and of
`/proc` apart from routes and counters, system information, the vendor table,
the page itself. They change no state that another part decides by. Hit and drop
counters are left out except the alert counter, which a property reads.

## 7. Plan

Done: Cache, LossyStore, CacheProofs; Resolver, Payload, ResolverProofs; Lists,
ListsProofs; Writer, Reports, WriterProofs; Devices with Writer, DevicesProofs;
Alerts, Sampler, AlertsProofs; Acl, Startup, StartupProofs; Matching,
MatchingProofs. A next step would be `PanelsAgree` with the sums written as
cardinalities of sets of rows, under the assumption that every top list fits its
limit.

## 8. Running

```
tlc -workers 2 -config MCCache.cfg MCCache
tlapm CacheProofs.tla
```

The longest runs take one to two minutes on two cores, the proofs
together a few minutes more.

------------------------------- MODULE Cache -------------------------------
(***************************************************************************)
(* The DNS answer cache of dns/cache.rs.                                   *)
(*                                                                         *)
(* The cache is one HashMap behind one mutex, so every method is a single  *)
(* step.  Time is an Instant, counted in ticks of which TicksPerSec make a *)
(* second: TTLs are whole seconds, but an entry is looked up at any tick,  *)
(* and get() rounds the time it has spent in the cache down to seconds.    *)
(*                                                                         *)
(* A section of a DNS message is a set of records, each reduced to its TTL *)
(* and to whether it is the OPT pseudo-record; names, types and contents   *)
(* of records play no part in any decision of the cache.  The counters     *)
(* hits and misses are written and never read, and are left out.           *)
(***************************************************************************)
EXTENDS Integers, FiniteSets

CONSTANTS
    Requests,      \* requests clients may send, see RequestShape
    Messages,      \* messages an upstream may return
    MaxEntries,    \* dns.cache_max_entries
    MinTtl,        \* dns.cache_min_ttl, seconds
    MaxTtl,        \* dns.cache_max_ttl, seconds
    TicksPerSec,   \* resolution of the clock
    MaxClock       \* bound on the clock, in ticks

(* What the cache looks at in a request: the question, whether it carries  *)
(* an OPT record and, if so, the DO bit in it, and the CD bit.             *)
RequestShape(r) ==
    /\ DOMAIN r = {"name", "qtype", "qclass", "edns", "cd"}
    /\ r.edns \in {"none", "plain", "dnssec_ok"}
    /\ r.cd \in BOOLEAN

Record == [opt : BOOLEAN, ttl : Nat]

Rcode == {"NOERROR", "NXDOMAIN", "SERVFAIL", "REFUSED"}

Message == [rcode       : Rcode,
            answers     : SUBSET Record,
            authorities : SUBSET Record,
            additionals : SUBSET Record]

ASSUME RequestsAssumption == \A r \in Requests : RequestShape(r)
ASSUME MessagesAssumption == Messages \subseteq Message
ASSUME ConfigAssumption ==
    /\ MaxEntries \in Nat
    /\ MinTtl \in Nat
    /\ MaxTtl \in Nat
    /\ TicksPerSec \in Nat \ {0}
    /\ MaxClock \in Nat

VARIABLES
    map,      \* the HashMap: a function from the keys present to entries
    now,      \* Instant::now(), in ticks
    result    \* what the call made in the last step returned to its caller

vars == <<map, now, result>>

----------------------------------------------------------------------------
(* Keys and entries *)

(* Faulty variant: the DO bit left out of the key. *)
KeyWithoutDo(req) == [name              |-> req.name,
                      qtype             |-> req.qtype,
                      qclass            |-> req.qclass,
                      dnssec_ok         |-> FALSE,
                      checking_disabled |-> req.cd]

(* Key::from_request: a request without OPT has the DO bit clear. *)
KeyOf(req) == [name              |-> req.name,
               qtype             |-> req.qtype,
               qclass            |-> req.qclass,
               dnssec_ok         |-> req.edns = "dnssec_ok",
               checking_disabled |-> req.cd]

Keys == {KeyOf(r) : r \in Requests}

(* Two history fields are not in the code and decide nothing: from, the    *)
(* request whose upstream answer was stored, and arrived, the time at      *)
(* which it was.                                                           *)
Entry == [from        : Requests,
          arrived     : Nat,
          rcode       : Rcode,
          answers     : SUBSET Record,
          authorities : SUBSET Record,
          additionals : SUBSET Record,
          inserted    : Nat,
          expires     : Nat]

Live(e) == e.expires > now

Only(keys) == [k \in keys |-> map[k]]

LiveKeys == {k \in DOMAIN map : Live(map[k])}

----------------------------------------------------------------------------
(* get *)

(* Faulty variant: operands swapped and no saturation. *)
CountDownSwapped(ttl, elapsed) == elapsed - ttl

(* r.ttl.saturating_sub(elapsed).max(1); granted remembers the TTL the     *)
(* upstream gave.                                                          *)
CountDown(ttl, elapsed) == IF ttl - elapsed >= 1 THEN ttl - elapsed ELSE 1

Age(records, elapsed) ==
    {[opt |-> r.opt, granted |-> r.ttl, ttl |-> CountDown(r.ttl, elapsed)] :
        r \in records}

NoAnswer == [hit |-> FALSE]

(* Faulty variant: measured from expires, where duration_since yields zero *)
(* for as long as the entry lives.                                         *)
ElapsedSinceExpiry(e) ==
    IF now <= e.expires THEN 0 ELSE (now - e.expires) \div TicksPerSec

(* now.duration_since(entry.inserted).as_secs() *)
Elapsed(e) == (now - e.inserted) \div TicksPerSec

CachedAnswer(req, e) ==
    [hit         |-> TRUE,
     to          |-> req,
     from        |-> e.from,
     arrived     |-> e.arrived,
     rcode       |-> e.rcode,
     answers     |-> Age(e.answers, Elapsed(e)),
     authorities |-> Age(e.authorities, Elapsed(e)),
     additionals |-> Age(e.additionals, Elapsed(e))]

(* An expired entry is removed by the lookup that finds it. *)
Get(req) ==
    LET key == KeyOf(req)
    IN  /\ \/ /\ key \notin DOMAIN map
              /\ result' = NoAnswer
              /\ UNCHANGED map
           \/ /\ key \in DOMAIN map
              /\ ~Live(map[key])
              /\ result' = NoAnswer
              /\ map' = Only(DOMAIN map \ {key})
           \/ /\ key \in DOMAIN map
              /\ Live(map[key])
              /\ result' = CachedAnswer(req, map[key])
              /\ UNCHANGED map
        /\ UNCHANGED now

----------------------------------------------------------------------------
(* insert and evict *)

(* The TTLs the lifetime of an entry is computed from. *)
GoverningTtls(msg) == {r.ttl : r \in msg.answers \cup msg.authorities}

IsShortest(ttl, msg) ==
    /\ ttl \in GoverningTtls(msg)
    /\ \A t \in GoverningTtls(msg) : ttl <= t

Cacheable(msg) ==
    /\ msg.rcode \in {"NOERROR", "NXDOMAIN"}
    /\ GoverningTtls(msg) # {}
    /\ \A t \in GoverningTtls(msg) : t # 0 /\ t >= MinTtl

Lifetime(shortest) == IF shortest <= MaxTtl THEN shortest ELSE MaxTtl

Capacity == IF MaxEntries = 0 THEN 1 ELSE MaxEntries

(* Faulty variant: evict only once the limit is exceeded. *)
FullOffByOne == Cardinality(DOMAIN map) > Capacity

Full == Cardinality(DOMAIN map) >= Capacity

(* Faulty variant: sorted the other way round. *)
LatestToExpire ==
    {gone \in SUBSET DOMAIN map :
        /\ Cardinality(gone) = Cardinality(DOMAIN map) \div 10 + 1
        /\ \A g \in gone, k \in DOMAIN map \ gone :
               map[g].expires >= map[k].expires}

(* The sets of keys evict() may remove when nothing has expired: the       *)
(* soonest to expire, ties falling to the HashMap's iteration order.       *)
SoonestToExpire ==
    LET target == Cardinality(DOMAIN map) \div 10 + 1
    IN  {gone \in SUBSET DOMAIN map :
            /\ Cardinality(gone) = target
            /\ \A g \in gone, k \in DOMAIN map \ gone :
                   map[g].expires <= map[k].expires}

(* The keys evict() may leave: the live ones if that drops any. *)
Evicted ==
    IF LiveKeys # DOMAIN map THEN {LiveKeys}
    ELSE {DOMAIN map \ gone : gone \in SoonestToExpire}

NewEntry(req, msg, shortest) ==
    [from        |-> req,
     arrived     |-> now,
     rcode       |-> msg.rcode,
     answers     |-> msg.answers,
     authorities |-> msg.authorities,
     additionals |-> {r \in msg.additionals : ~r.opt},
     inserted    |-> now,
     expires     |-> now + Lifetime(shortest) * TicksPerSec]

Put(kept, key, e) ==
    [k \in kept \cup {key} |-> IF k = key THEN e ELSE map[k]]

(* A full map is evicted from even when key is in it and will be replaced. *)
Insert(req, msg) ==
    /\ Cacheable(msg)
    /\ \E shortest \in GoverningTtls(msg) :
       \E kept \in IF Full THEN Evicted ELSE {DOMAIN map} :
          /\ IsShortest(shortest, msg)
          /\ map' = Put(kept, KeyOf(req), NewEntry(req, msg, shortest))
    /\ result' = NoAnswer
    /\ UNCHANGED now

(* The early returns of insert. *)
InsertDeclined(msg) ==
    /\ ~Cacheable(msg)
    /\ result' = NoAnswer
    /\ UNCHANGED <<map, now>>

----------------------------------------------------------------------------
(* sweep (every 60 s, cache_sweeper) and clear (flush_cache) *)

(* Faulty variant: the condition of retain() inverted. *)
SweepInverted ==
    /\ map' = Only(DOMAIN map \ LiveKeys)
    /\ result' = NoAnswer
    /\ UNCHANGED now

Sweep ==
    /\ map' = Only(LiveKeys)
    /\ result' = NoAnswer
    /\ UNCHANGED now

Clear ==
    /\ map' = Only({})
    /\ result' = NoAnswer
    /\ UNCHANGED now

Tick ==
    /\ now < MaxClock
    /\ now' = now + 1
    /\ result' = NoAnswer
    /\ UNCHANGED map

----------------------------------------------------------------------------
Init ==
    /\ map = <<>>
    /\ now = 0
    /\ result = NoAnswer

Next ==
    \/ \E req \in Requests : Get(req)
    \/ \E req \in Requests, msg \in Messages : Insert(req, msg)
    \/ \E msg \in Messages : InsertDeclined(msg)
    \/ Sweep
    \/ Clear
    \/ Tick

Spec == Init /\ [][Next]_vars

(* cache_sweeper runs for as long as the process does. *)
FairSpec == Spec /\ WF_vars(Sweep)

----------------------------------------------------------------------------
(* Properties *)

AgedRecord == [opt : BOOLEAN, granted : Nat, ttl : Nat]

Hit == [hit         : {TRUE},
        to          : Requests,
        from        : Requests,
        arrived     : Nat,
        rcode       : Rcode,
        answers     : SUBSET AgedRecord,
        authorities : SUBSET AgedRecord,
        additionals : SUBSET AgedRecord]

TypeOK ==
    /\ DOMAIN map \subseteq Keys
    /\ map \in [DOMAIN map -> Entry]
    /\ now \in Nat
    /\ result \in Hit \cup {NoAnswer}

(* The cache never holds more than max(cache_max_entries, 1) answers:      *)
(* evict() makes room before every insertion into a full map, whether or   *)
(* not anything in it has expired.                                         *)
SizeBound == Cardinality(DOMAIN map) <= Capacity

(* What upstream's grant has left when get() hands the record out, in      *)
(* ticks: the granted TTL less the real time since the answer arrived.     *)
TimeLeft(r) == r.granted * TicksPerSec - (now - result.arrived)

(* Rule 2 of the module's header for the answer and authority sections: a  *)
(* TTL handed out is the time the record has left, rounded up to a whole   *)
(* second.  It outlives the grant by less than the second that as_secs()   *)
(* drops, is not raised to min_ttl nor to the 1 that get() clamps to, and  *)
(* does not fall short of what is left.                                    *)
NeverExtendsTtl ==
    result.hit =>
        \A r \in result.answers \cup result.authorities :
            /\ (r.ttl - 1) * TicksPerSec < TimeLeft(r)
            /\ TimeLeft(r) <= r.ttl * TicksPerSec

(* The same rule for the additional section, whose TTLs insert() leaves    *)
(* out of the lifetime of the entry: a TTL handed out outlives the grant   *)
(* by less than a second.                                                  *)
NeverExtendsAdditionalTtl ==
    result.hit =>
        \A r \in result.additionals : (r.ttl - 1) * TicksPerSec < TimeLeft(r)

(* An answer that has not expired leaves the cache only when the whole     *)
(* cache is flushed, when a newer answer for its key replaces it, or when  *)
(* the map is full and nothing in it has expired; then, the answer being   *)
(* inserted aside, the others stay as they were and none of them would     *)
(* have expired sooner.                                                    *)
LosesOnlyTheSoonest ==
    [][\A k \in DOMAIN map :
         (k \notin DOMAIN map' /\ Live(map[k])) =>
            \/ DOMAIN map' = {}
            \/ /\ Full
               /\ \A j \in DOMAIN map : Live(map[j])
               /\ \E new \in DOMAIN map' :
                  \A j \in DOMAIN map' \ {new} :
                     /\ j \in DOMAIN map /\ map'[j] = map[j]
                     /\ map[k].expires <= map[j].expires]_vars

(* Expired answers do not pile up: the sweeper, or a lookup, removes each  *)
(* one even if nobody ever asks for its name again.                        *)
ExpiredEventuallyDropped ==
    \A k \in Keys :
        (k \in DOMAIN map /\ ~Live(map[k]))
            ~> (k \in DOMAIN map => Live(map[k]))

----------------------------------------------------------------------------
(* The cache as a LossyStore: forget the clock, the keys and the           *)
(* countdown, keep whose answer each entry is and what upstream granted.   *)

StoredAnswer(e) == [from        |-> e.from,
                    rcode       |-> e.rcode,
                    answers     |-> e.answers,
                    authorities |-> e.authorities,
                    additionals |-> e.additionals]

AsGranted(records) == {[opt |-> r.opt, ttl |-> r.granted] : r \in records}

FoundAnswer ==
    IF result.hit
    THEN [found |-> TRUE,
          to    |-> result.to,
          value |-> [from        |-> result.from,
                     rcode       |-> result.rcode,
                     answers     |-> AsGranted(result.answers),
                     authorities |-> AsGranted(result.authorities),
                     additionals |-> AsGranted(result.additionals)]]
    ELSE [found |-> FALSE]

Held == {StoredAnswer(map[k]) : k \in DOMAIN map}

(* What insert() may store: an answer less the OPT in its last section. *)
Stripped(req, msg) == [from        |-> req,
                       rcode       |-> msg.rcode,
                       answers     |-> msg.answers,
                       authorities |-> msg.authorities,
                       additionals |-> {r \in msg.additionals : ~r.opt}]

Storable == {Stripped(req, msg) : req \in Requests, msg \in Messages}

Lossy == INSTANCE LossyStore WITH
    Answers <- Storable, store <- Held, answer <- FoundAnswer

(* Rule 1 of the module's header: whatever is inserted, evicted, expired   *)
(* or flushed in between, an answer served from the cache is the last one  *)
(* stored for this very question in the same terms (class, DO and CD       *)
(* bits), free of the OPT record of the transaction that fetched it.       *)
ImplementsLossyStore == Lossy!Spec

============================================================================

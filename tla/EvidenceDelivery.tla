--------------------------- MODULE EvidenceDelivery ---------------------------
(***************************************************************************)
(* Evidence delivery: the endpoint generate_transaction_evidence,          *)
(* EvidenceService.generate with its cache, its generator, its             *)
(* deterministic fallback and its audit log.                               *)
(*                                                                         *)
(* A request asks for the evidence on one payment as of a minute.  The case*)
(* it is about is what the loaded data say as of that minute, so that the  *)
(* fingerprint of a case is the pair of the minute and the data.  The log  *)
(* is the one of EvidenceAudit seen from outside: an append adds its record*)
(* and goes on, or raises; once the files of the log disagree, it always   *)
(* raises.  (There is one log object: what a second one loses after a torn *)
(* line is EvidenceAudit's subject.)  A cache file is replaced in one step *)
(* (FileEvidenceCache.put writes a file of its own and renames it), the    *)
(* calls to the model, the log and the cache are steps apart from each     *)
(* other, and the process may be restarted, with another model or other    *)
(* data, between any two steps.                                            *)
(***************************************************************************)
EXTENDS Naturals, FiniteSets

CONSTANTS
    Requests,       \* numbered in the order they begin
    Deployments,    \* what a process may run with: OPENAI_MODEL and the data
    PaidAt,         \* the minute the payment was made
    Asked,          \* the minutes as of which evidence is asked for
    LiveTTL,        \* ttl_seconds of the cache, in minutes
    FallbackTTL,    \* fallback_cache_ttl_seconds, in minutes
    MaxTime,        \* bound on the clock, in minutes
    MaxMishaps,     \* bound on restarts, disk failures and damaged files
    None

ASSUME TimeAssumption ==
    /\ {PaidAt, MaxTime, MaxMishaps} \subseteq Nat /\ Asked \subseteq Nat
    /\ LiveTTL \in Nat \ {0} /\ FallbackTTL \in Nat \ {0}
ASSUME RequestsAssumption == Requests \subseteq Nat
ASSUME DeployedAssumption == Deployments # {}

VARIABLES
    clock,
    deployed,   \* the deployment of the running process
    cache,      \* the entries of the cache
    damaged,    \* the keys whose cache file cannot be read
    trail,      \* the complete records of the audit log
    intact,     \* the files of the audit log agree
    pc,
    key,        \* the case and the model a request is about
    found,      \* the entry a request has read, or the pack it has drafted
    answer,
    mishaps

vars == <<clock, deployed, cache, damaged, trail, intact, pc, key, found, answer, mishaps>>

store == <<cache, damaged>>
audit == <<trail, intact>>
world == <<clock, deployed, mishaps>>

Minutes == 0 .. MaxTime

\* Who drafts packs, and what entries and answers give as their provider.
Providers == {"openai", "deterministic_fallback"}

Key == [at : Asked, from : Deployments]

\* A pack does not say who drafted it: origin is there for the properties.
Pack == [key : Key, origin : Providers, by : Requests]

Entry == [pack : Pack, provider : Providers, created : Minutes, expires : Nat]

Events ==
    {"CACHE_HIT", "CACHE_READ_FAILED", "CACHE_WRITE_FAILED", "EVIDENCE_GENERATED",
     "GENERATION_FAILED", "FALLBACK_USED"}

Record == [event : Events, by : Requests, pack : Pack \cup {None}]

Answer ==
    [code : {200}, mode : {"LIVE_OPENAI", "CACHE", "DETERMINISTIC_FALLBACK"},
     provider : Providers, fallback_used : BOOLEAN, pack : Pack]
        \cup [code : {422, 500, 503}]

\* No answer is none.
ASSUME NoneAssumption == None \notin Answer

NotCached == {"live_not_cached", "fallback_not_cached"}

Recording == NotCached \cup {"cache_hit", "cache_read_failed", "generated", "failed", "fallback"}

Storing == {"storing_live", "storing_fallback"}

\* The steps between which a request has a pack in its hands that it drafted.
Drafting == Storing \cup NotCached \cup {"generated", "fallback"}

Busy == Recording \cup Storing \cup {"reading", "generating"}

TypeOK ==
    /\ clock \in Minutes
    /\ deployed \in Deployments
    /\ cache \subseteq [key : Key, entry : Entry]
    /\ \A c, d \in cache : c.key = d.key => c = d
    /\ damaged \subseteq Key
    /\ trail \subseteq Record
    /\ intact \in BOOLEAN
    /\ pc \in [Requests -> Busy \cup {"idle", "done", "lost"}]
    /\ key \in [Requests -> Key \cup {None}]
    /\ found \in [Requests -> Entry \cup Pack \cup {None}]
    /\ answer \in [Requests -> Answer \cup {None}]
    /\ mishaps \in 0 .. MaxMishaps
    /\ \A r \in Requests : pc[r] \in Busy => key[r] \in Key

Init ==
    /\ clock = 0
    /\ deployed = CHOOSE d \in Deployments : TRUE   \* which one makes no difference
    /\ cache = {}
    /\ damaged = {}
    /\ trail = {}
    /\ intact = TRUE
    /\ pc = [r \in Requests |-> "idle"]
    /\ key = [r \in Requests |-> None]
    /\ found = [r \in Requests |-> None]
    /\ answer = [r \in Requests |-> None]
    /\ mishaps = 0

Goto(r, step) == pc' = [pc EXCEPT ![r] = step]

Return(r, a) ==
    /\ Goto(r, "done")
    /\ answer' = [answer EXCEPT ![r] = a]
    /\ found' = [found EXCEPT ![r] = None]

Fail(r, code) == Return(r, [code |-> code])

Deliver(r, mode, provider, fallback_used, p) ==
    Return(r, [code |-> 200, mode |-> mode, provider |-> provider,
               fallback_used |-> fallback_used, pack |-> p])
-----------------------------------------------------------------------------
(* The request and its case.                                               *)

\* _safe_as_of and build_evidence_case: not in the future, not before the
\* payment.
Admissible(at) == PaidAt <= at /\ at <= clock

\* build_evidence_cache_key.  The fingerprint of a case covers its facts, hence
\* the data; the generation version names the model.
KeyOf(at) == [at |-> at, from |-> deployed]

IsNext(r) == pc[r] = "idle" /\ \A q \in Requests : q < r => pc[q] # "idle"

\* The case is built and safe.  A refresh does not read the cache.
Ask(r, at, refresh) ==
    /\ IsNext(r)
    /\ Admissible(at)
    /\ key' = [key EXCEPT ![r] = KeyOf(at)]
    /\ Goto(r, IF refresh THEN "generating" ELSE "reading")
    /\ UNCHANGED <<store, audit, world, found, answer>>

\* The case cannot be built; or validate_evidence_case_safety refuses it.
Refuse(r) ==
    /\ IsNext(r)
    /\ Fail(r, 422)
    /\ UNCHANGED <<store, audit, world, key>>
-----------------------------------------------------------------------------
(* _cache_result.                                                          *)

\* Mutant of Cached: the entry is found by the minute alone.
CachedByMinute(k) == {c \in cache : c.key.at = k.at}

Cached(k) == {c \in cache : c.key = k}

Unexpired(e) == e.expires > clock

ReadHit(r) ==
    /\ pc[r] = "reading"
    /\ key[r] \notin damaged
    /\ \E c \in Cached(key[r]) :
          /\ Unexpired(c.entry)
          /\ found' = [found EXCEPT ![r] = c.entry]
    /\ Goto(r, "cache_hit")
    /\ UNCHANGED <<store, audit, world, key, answer>>

ReadMiss(r) ==
    /\ pc[r] = "reading"
    /\ key[r] \notin damaged
    /\ \A c \in Cached(key[r]) : ~Unexpired(c.entry)
    /\ Goto(r, "generating")
    /\ UNCHANGED <<store, audit, world, key, found, answer>>

\* The file is unreadable, or is not the entry of this case.
ReadFails(r) ==
    /\ pc[r] = "reading"
    /\ key[r] \in damaged
    /\ Goto(r, "cache_read_failed")
    /\ UNCHANGED <<store, audit, world, key, found, answer>>
-----------------------------------------------------------------------------
(* The generator, and the fallback.                                        *)

Draft(r, origin) == [key |-> key[r], origin |-> origin, by |-> r]

\* Mutant of GenerateSucceeds: the pack is cached before it is recorded.
GenerateThenStore(r) ==
    /\ pc[r] = "generating"
    /\ found' = [found EXCEPT ![r] = Draft(r, "openai")]
    /\ Goto(r, "storing_live")
    /\ UNCHANGED <<store, audit, world, key, answer>>

\* OpenAIEvidenceGenerator.generate returns a pack that keeps to the case and
\* passes the guardrails.
GenerateSucceeds(r) ==
    /\ pc[r] = "generating"
    /\ found' = [found EXCEPT ![r] = Draft(r, "openai")]
    /\ Goto(r, "generated")
    /\ UNCHANGED <<store, audit, world, key, answer>>

\* It is disabled, without a key, times out, is refused, cut short, or returns
\* a pack that breaks the contract or a guardrail.
GenerateFails(r) ==
    /\ pc[r] = "generating"
    /\ Goto(r, "failed")
    /\ UNCHANGED <<store, audit, world, key, found, answer>>
-----------------------------------------------------------------------------
(* The audit log.                                                          *)

\* The record a request is about to append.
EventAt(step) ==
    CASE step = "cache_hit"         -> "CACHE_HIT"
      [] step = "cache_read_failed" -> "CACHE_READ_FAILED"
      [] step = "generated"         -> "EVIDENCE_GENERATED"
      [] step = "failed"            -> "GENERATION_FAILED"
      [] step = "fallback"          -> "FALLBACK_USED"
      [] OTHER                      -> "CACHE_WRITE_FAILED"

RecordOf(r) ==
    [event |-> EventAt(pc[r]), by |-> r,
     pack |-> CASE pc[r] = "cache_hit"   -> found[r].pack
                [] pc[r] \in Drafting    -> found[r]
                [] OTHER                 -> None]

\* Mutant of AppendFor: hits are not recorded.
AppendForGenerated(r) ==
    /\ intact
    /\ trail' = trail \cup {x \in {RecordOf(r)} : x.event # "CACHE_HIT"}
    /\ UNCHANGED <<store, intact, world, key>>

AppendFor(r) ==
    /\ intact
    /\ trail' = trail \cup {RecordOf(r)}
    /\ UNCHANGED <<store, intact, world, key>>

\* fallback_cached = entry.provider == "deterministic_fallback".
DeliverHit(r) ==
    LET e == found[r]
    IN  Deliver(r, "CACHE", e.provider, e.provider = "deterministic_fallback", e.pack)

RecordHit(r) ==
    /\ pc[r] = "cache_hit"
    /\ AppendFor(r)
    /\ DeliverHit(r)

\* Mutant of RecordReadFailure: the cache is tried again.
RecordReadFailureAndRetry(r) ==
    /\ pc[r] = "cache_read_failed"
    /\ AppendFor(r)
    /\ Goto(r, "reading")
    /\ UNCHANGED <<found, answer>>

RecordReadFailure(r) ==
    /\ pc[r] = "cache_read_failed"
    /\ AppendFor(r)
    /\ Goto(r, "generating")
    /\ UNCHANGED <<found, answer>>

RecordGenerated(r) ==
    /\ pc[r] = "generated"
    /\ AppendFor(r)
    /\ Goto(r, "storing_live")
    /\ UNCHANGED <<found, answer>>

\* After the failure is recorded, the fallback is drafted.
RecordFailure(r) ==
    /\ pc[r] = "failed"
    /\ AppendFor(r)
    /\ found' = [found EXCEPT ![r] = Draft(r, "deterministic_fallback")]
    /\ Goto(r, "fallback")
    /\ UNCHANGED answer

RecordFallback(r) ==
    /\ pc[r] = "fallback"
    /\ AppendFor(r)
    /\ Goto(r, "storing_fallback")
    /\ UNCHANGED <<found, answer>>

\* The live branch of generate ends.
DeliverLive(r) == Deliver(r, "LIVE_OPENAI", "openai", FALSE, found[r])

\* The fallback branch ends.
DeliverFallback(r) ==
    Deliver(r, "DETERMINISTIC_FALLBACK", "deterministic_fallback", TRUE, found[r])

\* Evidence remains usable when it could not be cached.
RecordWriteFailure(r) ==
    /\ AppendFor(r)
    /\ \/ pc[r] = "live_not_cached" /\ DeliverLive(r)
       \/ pc[r] = "fallback_not_cached" /\ DeliverFallback(r)

\* The log fails closed: AuditIntegrityError, answered with 503.
AppendRefused(r) ==
    /\ pc[r] \in Recording
    /\ ~intact
    /\ Fail(r, 503)
    /\ UNCHANGED <<store, audit, world, key>>

\* What the log is left as when an append is cut short: untouched, with a torn
\* line, or with the record and an outdated checkpoint.
CutShort(r) ==
    \/ UNCHANGED audit
    \/ intact' = FALSE /\ trail' \in {trail, trail \cup {RecordOf(r)}}

\* The disk fails: OSError, which no handler of the endpoint names.  After it has
\* failed the cache, failing the log as well is no mishap of its own.
AppendFails(r) ==
    /\ pc[r] \in Recording
    /\ intact
    /\ \/ mishaps < MaxMishaps /\ mishaps' = mishaps + 1
       \/ pc[r] \in NotCached /\ UNCHANGED mishaps
    /\ CutShort(r)
    /\ Fail(r, 500)
    /\ UNCHANGED <<store, clock, deployed, key>>
-----------------------------------------------------------------------------
(* _write_cache.                                                           *)

Stored(r, provider, ttl) ==
    [key |-> key[r],
     entry |-> [pack |-> found[r], provider |-> provider,
                created |-> clock, expires |-> clock + ttl]]

\* Mutant of CacheAfter: the entry replaced stays.
CacheWithBoth(r, provider, ttl) == cache \cup {Stored(r, provider, ttl)}

\* The last request to store wins, whatever it replaces.
CacheAfter(r, provider, ttl) == (cache \ Cached(key[r])) \cup {Stored(r, provider, ttl)}

Put(r, provider, ttl) ==
    /\ cache' = CacheAfter(r, provider, ttl)
    /\ damaged' = damaged \ {key[r]}
    /\ UNCHANGED <<audit, world, key>>

\* A live pack is kept for the time the cache is configured with.
StoreLive(r) ==
    /\ pc[r] = "storing_live"
    /\ Put(r, "openai", LiveTTL)
    /\ DeliverLive(r)

\* Mutant of StoreFallback: ttl_seconds is not given, and is the cache's own.
StoreFallbackAsLong(r) ==
    /\ pc[r] = "storing_fallback"
    /\ Put(r, "deterministic_fallback", LiveTTL)
    /\ DeliverFallback(r)

\* Mutant of StoreFallback: the entry names the live branch's provider.
StoreFallbackAsOpenAI(r) ==
    /\ pc[r] = "storing_fallback"
    /\ Put(r, "openai", FallbackTTL)
    /\ DeliverFallback(r)

StoreFallback(r) ==
    /\ pc[r] = "storing_fallback"
    /\ Put(r, "deterministic_fallback", FallbackTTL)
    /\ DeliverFallback(r)

StoreFails(r) ==
    /\ mishaps < MaxMishaps
    /\ mishaps' = mishaps + 1
    /\ \/ pc[r] = "storing_live" /\ Goto(r, "live_not_cached")
       \/ pc[r] = "storing_fallback" /\ Goto(r, "fallback_not_cached")
    /\ UNCHANGED <<store, audit, clock, deployed, key, found, answer>>
-----------------------------------------------------------------------------
(* The environment.                                                        *)

Tick ==
    /\ clock < MaxTime
    /\ clock' = clock + 1
    /\ UNCHANGED <<store, audit, deployed, pc, key, found, answer, mishaps>>

\* A cache file is damaged from outside.
Damage(k) ==
    /\ mishaps < MaxMishaps
    /\ mishaps' = mishaps + 1
    /\ Cached(k) # {} /\ k \notin damaged
    /\ damaged' = damaged \cup {k}
    /\ UNCHANGED <<cache, audit, clock, deployed, pc, key, found, answer>>

\* The process stops, in the middle of an append perhaps, and another starts.
Restart ==
    /\ mishaps < MaxMishaps
    /\ mishaps' = mishaps + 1
    /\ deployed' \in Deployments
    /\ pc' = [r \in Requests |-> IF pc[r] \in Busy THEN "lost" ELSE pc[r]]
    /\ found' = [r \in Requests |-> None]
    /\ \/ UNCHANGED audit
       \/ \E r \in Requests : pc[r] \in Recording /\ intact /\ CutShort(r)
    /\ UNCHANGED <<store, clock, key, answer>>

Step(r) ==
    \/ ReadHit(r) \/ ReadMiss(r) \/ ReadFails(r)
    \/ GenerateSucceeds(r) \/ GenerateFails(r)
    \/ RecordHit(r) \/ RecordReadFailure(r) \/ RecordGenerated(r)
    \/ RecordFailure(r) \/ RecordFallback(r) \/ RecordWriteFailure(r)
    \/ AppendRefused(r) \/ AppendFails(r)
    \/ StoreLive(r) \/ StoreFallback(r) \/ StoreFails(r)

Next ==
    \/ \E r \in Requests :
          Step(r) \/ Refuse(r) \/ \E at \in Asked, refresh \in BOOLEAN : Ask(r, at, refresh)
    \/ Tick
    \/ \E c \in cache : Damage(c.key)
    \/ Restart

Spec == Init /\ [][Next]_vars

\* A thread that has begun a request goes on with it.  The call to the model
\* ends too: the client has a timeout and a bounded number of retries.
FairSpec == Spec /\ \A r \in Requests : WF_vars(Step(r))
-----------------------------------------------------------------------------
(* Properties.                                                             *)

Delivered == {r \in Requests : answer[r] # None /\ answer[r].code = 200}

EventFor(mode) ==
    CASE mode = "CACHE"                  -> "CACHE_HIT"
      [] mode = "LIVE_OPENAI"            -> "EVIDENCE_GENERATED"
      [] mode = "DETERMINISTIC_FALLBACK" -> "FALLBACK_USED"

\* Evidence that was delivered is in the audit log, in the record of its own
\* delivery and with the very pack, however the log and the disk behaved.
DeliveredIsRecorded ==
    \A r \in Delivered :
        [event |-> EventFor(answer[r].mode), by |-> r, pack |-> answer[r].pack] \in trail

\* A pack is recorded before any other request can find it in the cache.
CachedIsRecorded ==
    \A c \in cache : \E x \in trail :
        x.pack = c.entry.pack /\ x.event \in {"EVIDENCE_GENERATED", "FALLBACK_USED"}

\* Evidence is about the case that was asked for, as the data of this process
\* have it, and was drafted by the model this process is to use: no restart
\* lets the cache answer for other data or for another model.
DeliveredForTheCase == \A r \in Delivered : answer[r].pack.key = key[r]

\* The client is told who drafted the evidence, and that it is a fallback, made
\* for it or cached: each branch of generate says so for itself, and a hit can
\* only say what the entry says that a request before it has written.
FallbackIsDeclared ==
    \A r \in Delivered :
        /\ answer[r].provider = answer[r].pack.origin
        /\ answer[r].fallback_used <=> answer[r].pack.origin = "deterministic_fallback"

\* How long packs are kept.
KeptFor(origin) == IF origin = "openai" THEN LiveTTL ELSE FallbackTTL

\* No request takes an entry from the cache that is older than the time packs
\* of its origin are kept: a fallback that has replaced the better pack of a
\* concurrent request hides it for FallbackTTL at most.
FreshWhenRead ==
    [][\A r \in Requests :
        pc[r] = "reading" /\ pc'[r] = "cache_hit" =>
            clock < found'[r].created + KeptFor(found'[r].pack.origin)]_vars

\* A request that has begun ends with an answer, or with the process.
EveryRequestEnds == \A r \in Requests : pc[r] \in Busy ~> pc[r] \notin Busy
=============================================================================

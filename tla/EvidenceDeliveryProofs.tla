------------------------ MODULE EvidenceDeliveryProofs ------------------------
(***************************************************************************)
(* Theorems about EvidenceDelivery, for every set of requests, deployments *)
(* and minutes, every lifetime of cached packs and any number of mishaps.  *)
(***************************************************************************)
EXTENDS EvidenceDelivery, TLAPS

LiveSteps == {"generated", "storing_live", "live_not_cached"}

FallbackSteps == {"fallback", "storing_fallback", "fallback_not_cached"}

\* What a request at a step has in its hands is about its case, from who drafts
\* packs in this branch, and, if it was read, filed under who drafted it.
Held(step, f, k) ==
    /\ step = "cache_hit" => f \in Entry /\ f.pack.key = k /\ f.provider = f.pack.origin
    /\ step \in Drafting => f \in Pack /\ f.key = k
    /\ step \in LiveSteps => f.origin = "openai"
    /\ step \in FallbackSteps => f.origin = "deterministic_fallback"

PacksFit == \A r \in Requests : Held(pc[r], found[r], key[r])

\* The record of a pack a request has drafted.
MadeRecord(r, p) ==
    [event |-> IF p.origin = "openai" THEN "EVIDENCE_GENERATED" ELSE "FALLBACK_USED",
     by |-> r, pack |-> p]

\* A pack that was drafted is recorded as what it is, before it is stored.
MadeIsRecorded ==
    \A r \in Requests : pc[r] \in Storing \cup NotCached => MadeRecord(r, found[r]) \in trail

\* An answer is the last of a request.
AnswersComeLast == \A r \in Requests : answer[r] # None => pc[r] = "done"

\* An entry is about the case it is filed under, names who drafted it, and expires
\* in its time.
EntriesFit ==
    \A c \in cache :
        /\ c.entry.pack.key = c.key
        /\ c.entry.provider = c.entry.pack.origin
        /\ c.entry.expires = c.entry.created + KeptFor(c.entry.pack.origin)

DeliveryInv ==
    /\ TypeOK
    /\ PacksFit
    /\ MadeIsRecorded
    /\ AnswersComeLast
    /\ EntriesFit
    /\ CachedIsRecorded
    /\ DeliveredIsRecorded
    /\ DeliveredForTheCase
    /\ FallbackIsDeclared
-----------------------------------------------------------------------------
(* What returning an answer does.                                          *)

\* Program counter and answer of a request that ends.
LEMMA Returned ==
    ASSUME TypeOK, NEW r \in Requests, NEW a \in Answer, Return(r, a)
    PROVE  /\ pc' \in [Requests -> Busy \cup {"idle", "done", "lost"}]
           /\ found' \in [Requests -> Entry \cup Pack \cup {None}]
           /\ answer' \in [Requests -> Answer \cup {None}]
           /\ \A q \in Requests :
                 IF q = r THEN pc'[q] = "done" /\ answer'[q] = a
                          ELSE pc'[q] = pc[q] /\ answer'[q] = answer[q] /\ found'[q] = found[q]
BY DEF TypeOK, Return, Goto

\* A request that fails delivers nothing.
LEMMA FailStep ==
    ASSUME DeliveryInv, NEW r \in Requests, NEW code \in {422, 500, 503}, Fail(r, code),
           UNCHANGED <<store, key, clock, deployed>>,
           trail \subseteq trail', trail' \subseteq Record, intact' \in BOOLEAN,
           mishaps' \in 0 .. MaxMishaps
    PROVE  DeliveryInv'
<1> DEFINE a == [code |-> code]
<1>1. a \in Answer /\ a.code # 200 /\ Return(r, a)
  BY DEF Answer, Fail
<1> HIDE DEF a
<1> USE <1>1, Returned DEF DeliveryInv, store
<1>2. TypeOK'
  BY DEF TypeOK, Minutes, Busy, Recording, Storing, NotCached
<1>3. PacksFit'
  BY DEF PacksFit, Held, Drafting, Storing, NotCached, LiveSteps, FallbackSteps
<1>4. MadeIsRecorded'
  BY DEF MadeIsRecorded, MadeRecord, Storing, NotCached
<1>5. EntriesFit' /\ AnswersComeLast'
  BY DEF EntriesFit, AnswersComeLast
<1>6. CachedIsRecorded'
  BY DEF CachedIsRecorded
<1>7. Delivered' = Delivered \ {r}
  BY DEF Delivered, TypeOK
<1>8. DeliveredIsRecorded' /\ DeliveredForTheCase' /\ FallbackIsDeclared'
  BY <1>7 DEF DeliveredIsRecorded, DeliveredForTheCase, FallbackIsDeclared, Delivered
<1> QED BY <1>2, <1>3, <1>4, <1>5, <1>6, <1>8

\* A request that delivers a recorded pack for its case, and says who drafted it.
LEMMA DeliverStep ==
    ASSUME DeliveryInv, NEW r \in Requests, pc[r] \in Busy,
           NEW mode \in {"LIVE_OPENAI", "CACHE", "DETERMINISTIC_FALLBACK"},
           NEW provider \in Providers, NEW fallback_used \in BOOLEAN, NEW p \in Pack,
           Deliver(r, mode, provider, fallback_used, p),
           p.key = key[r], provider = p.origin,
           fallback_used <=> p.origin = "deterministic_fallback",
           UNCHANGED <<key, world, intact>>,
           trail \subseteq trail', trail' \subseteq Record,
           [event |-> EventFor(mode), by |-> r, pack |-> p] \in trail',
           cache' \subseteq [key : Key, entry : Entry], damaged' \subseteq Key,
           \A c, d \in cache' : c.key = d.key => c = d
    PROVE  /\ TypeOK' /\ PacksFit' /\ MadeIsRecorded' /\ AnswersComeLast'
           /\ DeliveredIsRecorded' /\ DeliveredForTheCase' /\ FallbackIsDeclared'
<1> DEFINE a == [code |-> 200, mode |-> mode, provider |-> provider,
                 fallback_used |-> fallback_used, pack |-> p]
<1>1. p.key = key[r]
  OBVIOUS
<1>2. a \in Answer
  BY DEF Answer
<1>3. /\ Return(r, a) /\ a.code = 200 /\ a.mode = mode /\ a.pack = p
      /\ a.provider = provider /\ a.fallback_used = fallback_used
  BY DEF Deliver
<1> HIDE DEF a
<1> USE <1>2, <1>3, Returned DEF DeliveryInv, world
<1>4. TypeOK'
  BY DEF TypeOK, Busy, Recording, Storing, NotCached
<1>5. PacksFit'
  BY DEF PacksFit, Held, Drafting, Storing, NotCached, LiveSteps, FallbackSteps
<1>6. MadeIsRecorded' /\ AnswersComeLast'
  BY DEF MadeIsRecorded, AnswersComeLast, Storing, NotCached
<1>7. \A q \in Requests : q \in Delivered' <=> q = r \/ q \in Delivered
  <2>1. r \in Delivered'
    <3>1. a # None
      BY NoneAssumption
    <3> QED BY <3>1 DEF Delivered
  <2> QED BY <2>1 DEF Delivered
<1>8. DeliveredIsRecorded'
  <2>1. [event |-> EventFor(answer'[r].mode), by |-> r, pack |-> answer'[r].pack] \in trail'
    OBVIOUS
  <2>2. \A q \in Delivered : q # r =>
          [event |-> EventFor(answer'[q].mode), by |-> q, pack |-> answer'[q].pack] \in trail'
    BY DEF DeliveredIsRecorded, Delivered
  <2> QED BY <1>7, <2>1, <2>2 DEF DeliveredIsRecorded, Delivered, EventFor
<1>9. DeliveredForTheCase'
  BY <1>1, <1>7 DEF DeliveredForTheCase, Delivered
<1>10. FallbackIsDeclared'
  BY <1>7 DEF FallbackIsDeclared, Delivered
<1> QED BY <1>4, <1>5, <1>6, <1>8, <1>9, <1>10
-----------------------------------------------------------------------------
(* The steps.                                                              *)

\* Nothing is cached, recorded or answered at first.
LEMMA InitStep == Init => DeliveryInv
<1> SUFFICES ASSUME Init PROVE DeliveryInv
  OBVIOUS
<1> USE DEF Init
<1>1. TypeOK
  BY TimeAssumption, DeployedAssumption DEF TypeOK, Minutes, Busy, Recording, Storing, NotCached
<1>2. PacksFit /\ MadeIsRecorded /\ AnswersComeLast /\ EntriesFit /\ CachedIsRecorded
  BY DEF PacksFit, Held, Drafting, Storing, NotCached, LiveSteps, FallbackSteps, MadeIsRecorded,
      AnswersComeLast, EntriesFit, CachedIsRecorded
<1>3. DeliveredIsRecorded /\ DeliveredForTheCase /\ FallbackIsDeclared
  BY DEF DeliveredIsRecorded, DeliveredForTheCase, FallbackIsDeclared, Delivered
<1> QED BY <1>1, <1>2, <1>3 DEF DeliveryInv

\* What stays as it is when a request goes on without an answer, and without a
\* change of the cache.
LEMMA OnwardStep ==
    ASSUME DeliveryInv, NEW r \in Requests,
           NEW step \in Busy, Goto(r, step), key'[r] \in Key,
           key' \in [Requests -> Key \cup {None}],
           \A q \in Requests : q # r => key'[q] = key[q],
           pc[r] \in Busy \cup {"idle"},
           found' \in [Requests -> Entry \cup Pack \cup {None}],
           \A q \in Requests : q # r => found'[q] = found[q],
           Held(step, found'[r], key'[r]),
           step \in Storing \cup NotCached => MadeRecord(r, found'[r]) \in trail',
           UNCHANGED <<store, intact, answer, clock, deployed>>,
           trail \subseteq trail', trail' \subseteq Record, mishaps' \in 0 .. MaxMishaps
    PROVE  DeliveryInv'
<1> USE DEF DeliveryInv, store
<1>1. \A q \in Requests : pc'[q] = IF q = r THEN step ELSE pc[q]
  BY DEF TypeOK, Goto
<1>2. TypeOK'
  BY <1>1 DEF TypeOK, Goto, Busy
<1>3. PacksFit'
  BY <1>1 DEF PacksFit
<1>4. MadeIsRecorded'
  BY <1>1 DEF MadeIsRecorded
<1>5. EntriesFit' /\ CachedIsRecorded'
  BY DEF EntriesFit, CachedIsRecorded
<1>6. Delivered' = Delivered /\ r \notin Delivered /\ AnswersComeLast'
  BY <1>1 DEF Delivered, AnswersComeLast, Busy, Recording, Storing, NotCached
<1>7. DeliveredIsRecorded' /\ DeliveredForTheCase' /\ FallbackIsDeclared'
  BY <1>6 DEF DeliveredIsRecorded, DeliveredForTheCase, FallbackIsDeclared, Delivered
<1> QED BY <1>2, <1>3, <1>4, <1>5, <1>6, <1>7

\* A record is one, whatever step it is appended at.
LEMMA RecordType ==
    ASSUME DeliveryInv, NEW r \in Requests, pc[r] \in Recording
    PROVE  RecordOf(r) \in Record
<1>1. EventAt(pc[r]) \in Events
  BY DEF EventAt, Events, Recording
<1>2. pc[r] = "cache_hit" => found[r].pack \in Pack
  BY DEF DeliveryInv, PacksFit, Held, Entry
<1>3. pc[r] \in Drafting => found[r] \in Pack /\ pc[r] # "cache_hit"
  BY DEF DeliveryInv, PacksFit, Held, Drafting, Storing, NotCached
<1> QED BY <1>1, <1>2, <1>3 DEF RecordOf, Record

\* A request that begins is about a case of its own.
LEMMA AskStep ==
    ASSUME DeliveryInv, NEW r \in Requests, NEW at \in Asked, NEW refresh \in BOOLEAN,
           Ask(r, at, refresh)
    PROVE  DeliveryInv'
<1>1. /\ pc[r] = "idle" /\ key' = [key EXCEPT ![r] = KeyOf(at)]
      /\ UNCHANGED <<store, intact, answer, clock, deployed, trail, mishaps, found>>
  BY DEF Ask, IsNext, audit, world
<1>2. KeyOf(at) \in Key
  BY DEF DeliveryInv, TypeOK, KeyOf, Key
<1>3. /\ key' \in [Requests -> Key \cup {None}] /\ key'[r] \in Key
      /\ \A q \in Requests : q # r => key'[q] = key[q]
  BY <1>1, <1>2 DEF DeliveryInv, TypeOK
<1>4. /\ found' \in [Requests -> Entry \cup Pack \cup {None}] /\ trail' \subseteq Record
      /\ mishaps' \in 0 .. MaxMishaps
  BY <1>1 DEF DeliveryInv, TypeOK
<1>5. PICK step \in {"generating", "reading"} : Goto(r, step)
  BY DEF Ask
<1>6. /\ step \in Busy /\ Held(step, found'[r], key'[r])
      /\ step \notin Storing \cup NotCached
  BY DEF Busy, Held, Drafting, Storing, NotCached, LiveSteps, FallbackSteps
<1> QED BY <1>1, <1>3, <1>4, <1>5, <1>6, OnwardStep

\* The same for a request that knows its case.
LEMMA WorkStep ==
    ASSUME DeliveryInv, NEW r \in Requests, pc[r] \in Busy,
           NEW step \in Busy, Goto(r, step), UNCHANGED key,
           found' \in [Requests -> Entry \cup Pack \cup {None}],
           \A q \in Requests : q # r => found'[q] = found[q],
           Held(step, found'[r], key[r]),
           step \in Storing \cup NotCached => MadeRecord(r, found'[r]) \in trail',
           UNCHANGED <<store, intact, answer, clock, deployed>>,
           trail \subseteq trail', trail' \subseteq Record, mishaps' \in 0 .. MaxMishaps
    PROVE  DeliveryInv'
<1>1. key[r] \in Key /\ key \in [Requests -> Key \cup {None}]
  BY DEF DeliveryInv, TypeOK
<1> QED BY <1>1, OnwardStep

\* A read finds what is cached for the case.
LEMMA ReadStep ==
    ASSUME DeliveryInv, NEW r \in Requests, ReadHit(r) \/ ReadMiss(r) \/ ReadFails(r)
    PROVE  DeliveryInv'
<1> USE DEF audit, world
<1>1. pc[r] \in Busy
  BY DEF ReadHit, ReadMiss, ReadFails, Busy
<1>2. /\ UNCHANGED <<key, store, intact, answer, clock, deployed, trail, mishaps>>
      /\ trail' \subseteq Record /\ mishaps' \in 0 .. MaxMishaps
  BY DEF ReadHit, ReadMiss, ReadFails, DeliveryInv, TypeOK
<1>3. CASE ReadHit(r)
  <2>1. PICK c \in Cached(key[r]) : found' = [found EXCEPT ![r] = c.entry]
    BY <1>3 DEF ReadHit
  <2>2. /\ c.entry \in Entry /\ c.entry.pack.key = key[r]
        /\ c.entry.provider = c.entry.pack.origin
    BY <2>1 DEF Cached, DeliveryInv, TypeOK, EntriesFit
  <2>3. /\ found' \in [Requests -> Entry \cup Pack \cup {None}] /\ found'[r] = c.entry
        /\ \A q \in Requests : q # r => found'[q] = found[q]
    BY <2>1, <2>2 DEF DeliveryInv, TypeOK
  <2>4. /\ "cache_hit" \in Busy /\ Goto(r, "cache_hit")
        /\ "cache_hit" \notin Storing \cup NotCached
    BY <1>3 DEF ReadHit, Busy, Recording, Storing, NotCached
  <2>5. Held("cache_hit", found'[r], key[r])
    BY <2>2, <2>3 DEF Held, Drafting, Storing, NotCached, LiveSteps, FallbackSteps
  <2> QED BY <1>1, <1>2, <2>3, <2>4, <2>5, WorkStep
<1>4. CASE ReadMiss(r) \/ ReadFails(r)
  <2>1. /\ found' = found /\ found \in [Requests -> Entry \cup Pack \cup {None}]
    BY <1>4 DEF ReadMiss, ReadFails, DeliveryInv, TypeOK
  <2>2. PICK step \in {"generating", "cache_read_failed"} : Goto(r, step)
    BY <1>4 DEF ReadMiss, ReadFails
  <2>3. /\ step \in Busy /\ Held(step, found'[r], key[r])
        /\ step \notin Storing \cup NotCached
    BY DEF Busy, Recording, Held, Drafting, Storing, NotCached, LiveSteps, FallbackSteps
  <2> QED BY <1>1, <1>2, <2>1, <2>2, <2>3, WorkStep
<1> QED BY <1>3, <1>4

\* What is drafted is drafted for the case.
LEMMA DraftedPack ==
    ASSUME DeliveryInv, NEW r \in Requests, pc[r] \in Busy, NEW origin \in Providers
    PROVE  /\ Draft(r, origin) \in Pack
           /\ Draft(r, origin).key = key[r] /\ Draft(r, origin).origin = origin
BY DEF DeliveryInv, TypeOK, Draft, Pack

\* A pack that is drafted is not yet cached or delivered.
LEMMA GenerateStep ==
    ASSUME DeliveryInv, NEW r \in Requests, GenerateSucceeds(r) \/ GenerateFails(r)
    PROVE  DeliveryInv'
<1> USE DEF audit, world
<1>1. pc[r] \in Busy
  BY DEF GenerateSucceeds, GenerateFails, Busy
<1>2. /\ UNCHANGED <<key, store, intact, answer, clock, deployed, trail, mishaps>>
      /\ trail' \subseteq Record /\ mishaps' \in 0 .. MaxMishaps
  BY DEF GenerateSucceeds, GenerateFails, DeliveryInv, TypeOK
<1>3. CASE GenerateSucceeds(r)
  <2> DEFINE p == Draft(r, "openai")
  <2>1. found' = [found EXCEPT ![r] = p] /\ Goto(r, "generated")
    BY <1>3 DEF GenerateSucceeds
  <2>2. p \in Pack /\ p.key = key[r] /\ p.origin = "openai"
    BY <1>1, DraftedPack DEF Providers
  <2> HIDE DEF p
  <2>3. /\ found' \in [Requests -> Entry \cup Pack \cup {None}] /\ found'[r] = p
        /\ \A q \in Requests : q # r => found'[q] = found[q]
    BY <2>1, <2>2 DEF DeliveryInv, TypeOK
  <2>4. /\ "generated" \in Busy /\ "generated" \notin Storing \cup NotCached
        /\ Held("generated", found'[r], key[r])
    BY <2>2, <2>3 DEF Busy, Recording, Held, Drafting, Storing, NotCached, LiveSteps, FallbackSteps
  <2> QED BY <1>1, <1>2, <2>1, <2>3, <2>4, WorkStep
<1>4. CASE GenerateFails(r)
  <2>1. /\ found' = found /\ found \in [Requests -> Entry \cup Pack \cup {None}]
        /\ Goto(r, "failed")
    BY <1>4 DEF GenerateFails, DeliveryInv, TypeOK
  <2>2. /\ "failed" \in Busy /\ "failed" \notin Storing \cup NotCached
        /\ Held("failed", found'[r], key[r])
    BY DEF Busy, Recording, Held, Drafting, Storing, NotCached, LiveSteps, FallbackSteps
  <2> QED BY <1>1, <1>2, <2>1, <2>2, WorkStep
<1> QED BY <1>3, <1>4

\* What appending a record does.
LEMMA Appended ==
    ASSUME DeliveryInv, NEW r \in Requests, pc[r] \in Recording, AppendFor(r)
    PROVE  /\ trail \subseteq trail' /\ trail' \subseteq Record /\ RecordOf(r) \in trail'
           /\ UNCHANGED <<store, intact, clock, deployed, mishaps, key>>
           /\ mishaps' \in 0 .. MaxMishaps
           /\ pc[r] \in Busy
BY RecordType DEF AppendFor, DeliveryInv, TypeOK, world, Busy

\* A failed read is recorded, and the evidence is made anew.
LEMMA RecordReadFailureStep ==
    ASSUME DeliveryInv, NEW r \in Requests, RecordReadFailure(r)
    PROVE  DeliveryInv'
<1>1. AppendFor(r) /\ Goto(r, "generating") /\ UNCHANGED <<found, answer>> /\ pc[r] \in Recording
  BY DEF RecordReadFailure, Recording
<1>2. found \in [Requests -> Entry \cup Pack \cup {None}]
  BY DEF DeliveryInv, TypeOK
<1>3. /\ "generating" \in Busy /\ "generating" \notin Storing \cup NotCached
      /\ Held("generating", found'[r], key[r])
  BY DEF Busy, Recording, Held, Drafting, Storing, NotCached, LiveSteps, FallbackSteps
<1> QED BY <1>1, <1>2, <1>3, Appended, WorkStep

\* A pack that was drafted is recorded as what it is, and goes on to the cache.
LEMMA RecordMadeStep ==
    ASSUME DeliveryInv, NEW r \in Requests, RecordGenerated(r) \/ RecordFallback(r)
    PROVE  DeliveryInv'
<1>1. /\ AppendFor(r) /\ UNCHANGED <<found, answer>> /\ pc[r] \in Recording
      /\ \/ pc[r] = "generated" /\ Goto(r, "storing_live")
         \/ pc[r] = "fallback" /\ Goto(r, "storing_fallback")
  BY DEF RecordGenerated, RecordFallback, Recording
<1>2. /\ found \in [Requests -> Entry \cup Pack \cup {None}]
      /\ Held(pc[r], found[r], key[r])
  BY DEF DeliveryInv, TypeOK, PacksFit
<1>3. pc[r] \in Drafting
  BY <1>1 DEF Drafting
<1>4. RecordOf(r) = MadeRecord(r, found[r])
  BY <1>1, <1>2, <1>3 DEF RecordOf, EventAt, MadeRecord, Held, LiveSteps, FallbackSteps
<1>5. MadeRecord(r, found'[r]) \in trail'
  BY <1>1, <1>4, Appended
<1>6. CASE pc[r] = "generated" /\ Goto(r, "storing_live")
  <2>1. "storing_live" \in Busy /\ Held("storing_live", found'[r], key[r])
    BY <1>1, <1>2, <1>3, <1>6 DEF Busy, Held, Storing, LiveSteps, FallbackSteps
  <2> QED BY <1>1, <1>2, <1>5, <1>6, <2>1, Appended, WorkStep
<1>7. CASE pc[r] = "fallback" /\ Goto(r, "storing_fallback")
  <2>1. "storing_fallback" \in Busy /\ Held("storing_fallback", found'[r], key[r])
    BY <1>1, <1>2, <1>3, <1>7 DEF Busy, Held, Storing, LiveSteps, FallbackSteps
  <2> QED BY <1>1, <1>2, <1>5, <1>7, <2>1, Appended, WorkStep
<1> QED BY <1>1, <1>6, <1>7

\* After the failure is recorded, the fallback is drafted.
LEMMA RecordFailureStep ==
    ASSUME DeliveryInv, NEW r \in Requests, RecordFailure(r)
    PROVE  DeliveryInv'
<1> DEFINE p == Draft(r, "deterministic_fallback")
<1>1. /\ AppendFor(r) /\ Goto(r, "fallback") /\ UNCHANGED answer
      /\ found' = [found EXCEPT ![r] = p] /\ pc[r] \in Recording /\ pc[r] \in Busy
  BY DEF RecordFailure, Recording, Busy
<1>2. p \in Pack /\ p.key = key[r] /\ p.origin = "deterministic_fallback"
  BY <1>1, DraftedPack DEF Providers
<1> HIDE DEF p
<1>3. /\ found' \in [Requests -> Entry \cup Pack \cup {None}] /\ found'[r] = p
      /\ \A q \in Requests : q # r => found'[q] = found[q]
  BY <1>1, <1>2 DEF DeliveryInv, TypeOK
<1>4. /\ "fallback" \in Busy /\ "fallback" \notin Storing \cup NotCached
      /\ Held("fallback", found'[r], key[r])
  BY <1>2, <1>3 DEF Busy, Recording, Held, Drafting, Storing, NotCached, LiveSteps, FallbackSteps
<1> QED BY <1>1, <1>3, <1>4, Appended, WorkStep

\* A hit is recorded and delivered in one step, as what its entry says.
LEMMA RecordHitStep ==
    ASSUME DeliveryInv, NEW r \in Requests, RecordHit(r)
    PROVE  DeliveryInv'
<1> DEFINE e == found[r]
<1>1. AppendFor(r) /\ DeliverHit(r) /\ pc[r] = "cache_hit" /\ pc[r] \in Recording
  BY DEF RecordHit, Recording
<1>2. /\ e \in Entry /\ e.pack \in Pack /\ e.pack.key = key[r]
      /\ e.provider \in Providers /\ e.provider = e.pack.origin
  BY <1>1 DEF DeliveryInv, PacksFit, Held, Entry
<1>3. RecordOf(r) = [event |-> EventFor("CACHE"), by |-> r, pack |-> e.pack]
  BY <1>1 DEF RecordOf, EventAt, EventFor, Drafting, Storing, NotCached
<1>4. PICK told \in BOOLEAN :
        /\ told <=> e.provider = "deterministic_fallback"
        /\ Deliver(r, "CACHE", e.provider, told, e.pack)
  <2>1. Deliver(r, "CACHE", e.provider, e.provider = "deterministic_fallback", e.pack)
    BY <1>1 DEF DeliverHit
  <2>2. CASE e.provider = "deterministic_fallback"
    <3>1. (e.provider = "deterministic_fallback") = TRUE
      BY <2>2
    <3> QED BY <2>1, <2>2, <3>1
  <2>3. CASE e.provider # "deterministic_fallback"
    <3>1. (e.provider = "deterministic_fallback") = FALSE
      BY <2>3
    <3> QED BY <2>1, <2>3, <3>1
  <2> QED BY <2>2, <2>3
<1> HIDE DEF e
<1>5. UNCHANGED <<key, world, intact, cache, damaged>>
  BY <1>1 DEF AppendFor, store
<1>6. TypeOK' /\ PacksFit' /\ MadeIsRecorded' /\ AnswersComeLast'
      /\ DeliveredIsRecorded' /\ DeliveredForTheCase' /\ FallbackIsDeclared'
  <2>1. /\ cache' \subseteq [key : Key, entry : Entry] /\ damaged' \subseteq Key
        /\ \A c, d \in cache' : c.key = d.key => c = d
    BY <1>5 DEF DeliveryInv, TypeOK
  <2> QED BY <1>1, <1>2, <1>3, <1>4, <1>5, <2>1, Appended, DeliverStep
<1>7. EntriesFit' /\ CachedIsRecorded'
  BY <1>1, <1>5, Appended DEF DeliveryInv, EntriesFit, CachedIsRecorded
<1> QED BY <1>6, <1>7 DEF DeliveryInv

\* Each branch says who drafted the pack that it delivers.
LEMMA BranchEnds ==
    ASSUME DeliveryInv, NEW r \in Requests,
           \/ pc[r] \in {"storing_live", "live_not_cached"} /\ DeliverLive(r)
           \/ pc[r] \in {"storing_fallback", "fallback_not_cached"} /\ DeliverFallback(r),
           UNCHANGED <<key, world, intact>>,
           trail \subseteq trail', trail' \subseteq Record,
           cache' \subseteq [key : Key, entry : Entry], damaged' \subseteq Key,
           \A c, d \in cache' : c.key = d.key => c = d
    PROVE  /\ TypeOK' /\ PacksFit' /\ MadeIsRecorded' /\ AnswersComeLast'
           /\ DeliveredIsRecorded' /\ DeliveredForTheCase' /\ FallbackIsDeclared'
<1> DEFINE p == found[r]
<1>1. pc[r] \in Storing \cup NotCached /\ pc[r] \in Drafting /\ pc[r] \in Busy
  BY DEF Storing, NotCached, Drafting, Busy, Recording
<1>2. p \in Pack /\ p.key = key[r] /\ MadeRecord(r, p) \in trail'
  BY <1>1 DEF DeliveryInv, PacksFit, Held, MadeIsRecorded
<1>3. CASE pc[r] \in {"storing_live", "live_not_cached"} /\ DeliverLive(r)
  <2>1. p.origin = "openai"
    BY <1>3 DEF DeliveryInv, PacksFit, Held, LiveSteps
  <2>2. Deliver(r, "LIVE_OPENAI", "openai", FALSE, p)
    BY <1>3 DEF DeliverLive
  <2>3. MadeRecord(r, p) = [event |-> EventFor("LIVE_OPENAI"), by |-> r, pack |-> p]
    BY <2>1 DEF MadeRecord, EventFor
  <2> HIDE DEF p
  <2> QED BY <1>1, <1>2, <2>1, <2>2, <2>3, DeliverStep DEF Providers
<1>4. CASE pc[r] \in {"storing_fallback", "fallback_not_cached"} /\ DeliverFallback(r)
  <2>1. p.origin = "deterministic_fallback"
    BY <1>4 DEF DeliveryInv, PacksFit, Held, FallbackSteps
  <2>2. Deliver(r, "DETERMINISTIC_FALLBACK", "deterministic_fallback", TRUE, p)
    BY <1>4 DEF DeliverFallback
  <2>3. MadeRecord(r, p) = [event |-> EventFor("DETERMINISTIC_FALLBACK"), by |-> r, pack |-> p]
    BY <2>1 DEF MadeRecord, EventFor
  <2> HIDE DEF p
  <2> QED BY <1>1, <1>2, <2>1, <2>2, <2>3, DeliverStep DEF Providers
<1> QED BY <1>3, <1>4

\* A pack that could not be cached was recorded before it is delivered.
LEMMA RecordWriteFailureStep ==
    ASSUME DeliveryInv, NEW r \in Requests, RecordWriteFailure(r)
    PROVE  DeliveryInv'
<1>1. /\ AppendFor(r) /\ pc[r] \in Recording
      /\ \/ pc[r] = "live_not_cached" /\ DeliverLive(r)
         \/ pc[r] = "fallback_not_cached" /\ DeliverFallback(r)
  BY DEF RecordWriteFailure, Recording, NotCached
<1>2. UNCHANGED <<key, world, intact, cache, damaged>>
  BY <1>1 DEF AppendFor, store
<1>3. /\ cache' \subseteq [key : Key, entry : Entry] /\ damaged' \subseteq Key
      /\ \A c, d \in cache' : c.key = d.key => c = d
  BY <1>2 DEF DeliveryInv, TypeOK
<1>4. TypeOK' /\ PacksFit' /\ MadeIsRecorded' /\ AnswersComeLast'
      /\ DeliveredIsRecorded' /\ DeliveredForTheCase' /\ FallbackIsDeclared'
  BY <1>1, <1>2, <1>3, Appended, BranchEnds
<1>5. EntriesFit' /\ CachedIsRecorded'
  BY <1>1, <1>2, Appended DEF DeliveryInv, EntriesFit, CachedIsRecorded
<1> QED BY <1>4, <1>5 DEF DeliveryInv

\* What is stored is an entry of its key.
LEMMA StoredEntry ==
    ASSUME DeliveryInv, NEW r \in Requests, pc[r] \in Storing,
           NEW provider \in Providers, NEW ttl \in Nat
    PROVE  LET e == Stored(r, provider, ttl).entry
           IN  /\ Stored(r, provider, ttl).key = key[r] /\ key[r] \in Key
               /\ Stored(r, provider, ttl) \in [key : Key, entry : Entry]
               /\ e.pack = found[r] /\ e.pack.key = key[r]
               /\ e.provider = provider /\ e.expires = e.created + ttl
<1>1. found[r] \in Pack /\ found[r].key = key[r] /\ key[r] \in Key
  BY DEF DeliveryInv, PacksFit, Held, Drafting, TypeOK, Busy
<1>2. clock \in Minutes /\ clock \in Nat
  BY TimeAssumption DEF DeliveryInv, TypeOK, Minutes
<1> QED BY <1>1, <1>2 DEF Stored, Entry

\* An entry replaces the one of its case, and no other.
LEMMA StoreStep ==
    ASSUME DeliveryInv, NEW r \in Requests, StoreLive(r) \/ StoreFallback(r)
    PROVE  DeliveryInv'
<1>1. PICK provider \in Providers, ttl \in Nat :
        /\ Put(r, provider, ttl) /\ pc[r] \in Storing
        /\ provider = found[r].origin /\ ttl = KeptFor(found[r].origin)
        /\ \/ pc[r] = "storing_live" /\ DeliverLive(r)
           \/ pc[r] = "storing_fallback" /\ DeliverFallback(r)
  <2>1. CASE StoreLive(r)
    <3>1. found[r].origin = "openai"
      BY <2>1 DEF StoreLive, DeliveryInv, PacksFit, Held, LiveSteps
    <3> QED BY <2>1, <3>1, TimeAssumption DEF StoreLive, Storing, KeptFor, Providers
  <2>2. CASE StoreFallback(r)
    <3>1. found[r].origin = "deterministic_fallback"
      BY <2>2 DEF StoreFallback, DeliveryInv, PacksFit, Held, FallbackSteps
    <3> QED BY <2>2, <3>1, TimeAssumption DEF StoreFallback, Storing, KeptFor, Providers
  <2> QED BY <2>1, <2>2
<1> DEFINE new == Stored(r, provider, ttl)
<1>2. /\ cache' = (cache \ Cached(key[r])) \cup {new}
      /\ damaged' = damaged \ {key[r]} /\ UNCHANGED <<key, world, trail, intact>>
  BY <1>1 DEF Put, CacheAfter, audit
<1>3. /\ new.key = key[r] /\ new \in [key : Key, entry : Entry]
      /\ new.entry.pack = found[r] /\ new.entry.pack.key = key[r]
      /\ new.entry.provider = provider /\ new.entry.expires = new.entry.created + ttl
  BY <1>1, StoredEntry
<1> HIDE DEF new
<1>4. \A c \in cache' : c = new \/ (c \in cache /\ c.key # key[r])
  BY <1>2 DEF Cached
<1>5. /\ cache' \subseteq [key : Key, entry : Entry] /\ damaged' \subseteq Key
      /\ \A c, d \in cache' : c.key = d.key => c = d
      /\ trail \subseteq trail' /\ trail' \subseteq Record
  BY <1>2, <1>3, <1>4 DEF DeliveryInv, TypeOK
<1>6. TypeOK' /\ PacksFit' /\ MadeIsRecorded' /\ AnswersComeLast'
      /\ DeliveredIsRecorded' /\ DeliveredForTheCase' /\ FallbackIsDeclared'
  BY <1>1, <1>2, <1>5, BranchEnds
<1>7. EntriesFit'
  BY <1>1, <1>3, <1>4 DEF DeliveryInv, EntriesFit, KeptFor
<1>8. CachedIsRecorded'
  <2>1. MadeRecord(r, found[r]) \in trail'
    BY <1>1, <1>2 DEF DeliveryInv, MadeIsRecorded
  <2>2. MadeRecord(r, found[r]).pack = new.entry.pack
    BY <1>3 DEF MadeRecord
  <2>3. MadeRecord(r, found[r]).event \in {"EVIDENCE_GENERATED", "FALLBACK_USED"}
    BY DEF MadeRecord
  <2> QED BY <1>2, <1>4, <2>1, <2>2, <2>3 DEF DeliveryInv, CachedIsRecorded
<1> QED BY <1>6, <1>7, <1>8 DEF DeliveryInv

\* A pack that could not be cached stays in the request's hands.
LEMMA StoreFailsStep ==
    ASSUME DeliveryInv, NEW r \in Requests, StoreFails(r)
    PROVE  DeliveryInv'
<1>1. /\ mishaps < MaxMishaps /\ mishaps' = mishaps + 1
      /\ UNCHANGED <<store, trail, intact, clock, deployed, key, found, answer>>
  BY DEF StoreFails, audit
<1>2. PICK step \in NotCached :
        /\ Goto(r, step)
        /\ \/ pc[r] = "storing_live" /\ step = "live_not_cached"
           \/ pc[r] = "storing_fallback" /\ step = "fallback_not_cached"
  BY DEF StoreFails, NotCached
<1>3. pc[r] \in Busy /\ pc[r] \in Storing /\ pc[r] \in Drafting /\ step \in Busy
  BY <1>2 DEF Busy, Storing, Drafting, Recording
<1>4. /\ found \in [Requests -> Entry \cup Pack \cup {None}] /\ trail' \subseteq Record
      /\ mishaps' \in 0 .. MaxMishaps
  BY <1>1, TimeAssumption DEF DeliveryInv, TypeOK
<1>5. Held(step, found'[r], key[r])
  <2>1. Held(pc[r], found[r], key[r])
    BY DEF DeliveryInv, PacksFit
  <2> QED BY <1>1, <1>2, <1>3, <2>1 DEF Held, LiveSteps, FallbackSteps
<1>6. MadeRecord(r, found'[r]) \in trail'
  BY <1>1, <1>3 DEF DeliveryInv, MadeIsRecorded
<1> QED BY <1>1, <1>2, <1>3, <1>4, <1>5, <1>6, WorkStep

\* A request that is refused, or whose record cannot be appended, fails; what a
\* cut append leaves behind are records.
LEMMA FailingSteps ==
    ASSUME DeliveryInv, NEW r \in Requests, Refuse(r) \/ AppendRefused(r) \/ AppendFails(r)
    PROVE  DeliveryInv'
<1>1. CASE Refuse(r) \/ AppendRefused(r)
  <2>1. PICK code \in {422, 500, 503} : Fail(r, code)
    BY <1>1 DEF Refuse, AppendRefused
  <2>2. UNCHANGED <<store, key, clock, deployed, trail, intact, mishaps>>
    BY <1>1 DEF Refuse, AppendRefused, audit, world
  <2>3. trail' \subseteq Record /\ intact' \in BOOLEAN /\ mishaps' \in 0 .. MaxMishaps
    BY <2>2 DEF DeliveryInv, TypeOK
  <2> QED BY <2>1, <2>2, <2>3, FailStep
<1>2. CASE AppendFails(r)
  <2>1. /\ Fail(r, 500) /\ CutShort(r) /\ pc[r] \in Recording
        /\ \/ mishaps < MaxMishaps /\ mishaps' = mishaps + 1
           \/ UNCHANGED mishaps
        /\ UNCHANGED <<store, key, clock, deployed>>
    BY <1>2 DEF AppendFails
  <2>2. trail \subseteq trail' /\ trail' \subseteq Record /\ intact' \in BOOLEAN
    BY <2>1, RecordType DEF CutShort, audit, DeliveryInv, TypeOK
  <2>3. mishaps' \in 0 .. MaxMishaps
    BY <2>1, TimeAssumption DEF DeliveryInv, TypeOK
  <2>4. 500 \in {422, 500, 503}
    OBVIOUS
  <2> QED BY <2>1, <2>2, <2>3, <2>4, FailStep
<1> QED BY <1>1, <1>2

\* The environment changes neither what is cached nor what was answered, and
\* takes no record back.
LEMMA EnvironmentStep ==
    ASSUME DeliveryInv, Tick \/ (\E c \in cache : Damage(c.key)) \/ Restart
    PROVE  DeliveryInv'
<1> USE DEF DeliveryInv, store, audit
<1>1. UNCHANGED <<cache, key, answer>>
  BY DEF Tick, Damage, Restart
<1>2. \A r \in Requests : pc'[r] = pc[r] \/ (pc'[r] = "lost" /\ pc[r] \in Busy)
  BY DEF Tick, Damage, Restart, TypeOK
<1>3. /\ trail \subseteq trail' /\ trail' \subseteq Record /\ intact' \in BOOLEAN
  <2>1. CASE Tick \/ \E c \in cache : Damage(c.key)
    BY <2>1 DEF Tick, Damage, TypeOK
  <2>2. CASE Restart
    BY <2>2, RecordType DEF Restart, CutShort, TypeOK
  <2> QED BY <2>1, <2>2
<1>4. \A r \in Requests : pc'[r] \in Busy => found'[r] = found[r] /\ pc'[r] = pc[r]
  BY DEF Tick, Damage, Restart, TypeOK, Busy, Recording, Storing, NotCached
<1>5. TypeOK'
  <2>1. clock' \in Minutes
    BY TimeAssumption DEF Tick, Damage, Restart, TypeOK, Minutes
  <2>2. mishaps' \in 0 .. MaxMishaps
    BY TimeAssumption DEF Tick, Damage, Restart, TypeOK
  <2>3. deployed' \in Deployments /\ damaged' \subseteq Key
    BY DEF Tick, Damage, Restart, TypeOK
  <2>4. found' \in [Requests -> Entry \cup Pack \cup {None}]
    BY DEF Tick, Damage, Restart, TypeOK
  <2>5. pc' \in [Requests -> Busy \cup {"idle", "done", "lost"}]
    BY DEF Tick, Damage, Restart, TypeOK
  <2>6. \A r \in Requests : pc'[r] \in Busy => key'[r] \in Key
    BY <1>1, <1>4 DEF TypeOK
  <2> QED BY <1>1, <1>3, <2>1, <2>2, <2>3, <2>4, <2>5, <2>6 DEF TypeOK
<1>6. PacksFit' /\ MadeIsRecorded'
  <2>1. \A r \in Requests : pc'[r] \notin Busy => Held(pc'[r], found'[r], key'[r])
    BY DEF Held, Drafting, Storing, NotCached, LiveSteps, FallbackSteps, Busy, Recording
  <2>2. \A r \in Requests : pc'[r] \in Storing \cup NotCached => pc'[r] \in Busy
    BY DEF Busy, Recording
  <2> QED BY <1>1, <1>3, <1>4, <2>1, <2>2 DEF PacksFit, MadeIsRecorded
<1>7. AnswersComeLast'
  BY <1>1, <1>2 DEF AnswersComeLast, Busy, Recording, Storing, NotCached
<1>8. EntriesFit' /\ CachedIsRecorded'
  BY <1>1, <1>3 DEF EntriesFit, CachedIsRecorded
<1>9. DeliveredIsRecorded' /\ DeliveredForTheCase' /\ FallbackIsDeclared'
  BY <1>1, <1>3 DEF DeliveredIsRecorded, DeliveredForTheCase, FallbackIsDeclared, Delivered, EventFor
<1> QED BY <1>5, <1>6, <1>7, <1>8, <1>9

\* Nothing happens.
LEMMA StutterStep == ASSUME DeliveryInv, UNCHANGED vars PROVE DeliveryInv'
<1> USE DEF vars, DeliveryInv
<1>1. TypeOK'
  BY DEF TypeOK, Minutes
<1>2. PacksFit' /\ MadeIsRecorded' /\ AnswersComeLast' /\ EntriesFit' /\ CachedIsRecorded'
  BY DEF PacksFit, MadeIsRecorded, AnswersComeLast, EntriesFit, CachedIsRecorded
<1>3. DeliveredIsRecorded' /\ DeliveredForTheCase' /\ FallbackIsDeclared'
  BY DEF DeliveredIsRecorded, DeliveredForTheCase, FallbackIsDeclared, Delivered
<1> QED BY <1>1, <1>2, <1>3
-----------------------------------------------------------------------------
(* The theorems.                                                           *)

\* Whatever the order of the steps of the requests, the restarts, the disk
\* failures and the damaged files: the state is typed, a pack in a request's
\* hands is about its case and recorded before it is stored, and what is cached
\* or delivered is recorded, about its case, and declared.
THEOREM Inductive == Spec => []DeliveryInv
<1>1. DeliveryInv /\ [Next]_vars => DeliveryInv'
  <2> SUFFICES ASSUME DeliveryInv, [Next]_vars PROVE DeliveryInv'
    OBVIOUS
  <2>1. ASSUME NEW r \in Requests, Step(r) PROVE DeliveryInv'
    BY <2>1, ReadStep, GenerateStep, RecordHitStep, RecordReadFailureStep, RecordMadeStep,
       RecordFailureStep, RecordWriteFailureStep, FailingSteps, StoreStep, StoreFailsStep
       DEF Step
  <2>2. ASSUME NEW r \in Requests, Refuse(r) PROVE DeliveryInv'
    BY <2>2, FailingSteps
  <2>3. ASSUME NEW r \in Requests, NEW at \in Asked, NEW refresh \in BOOLEAN,
               Ask(r, at, refresh)
        PROVE  DeliveryInv'
    BY <2>3, AskStep
  <2>4. CASE Tick \/ (\E c \in cache : Damage(c.key)) \/ Restart
    BY <2>4, EnvironmentStep
  <2>5. CASE UNCHANGED vars
    BY <2>5, StutterStep
  <2> QED BY <2>1, <2>2, <2>3, <2>4, <2>5 DEF Next
<1> QED BY InitStep, <1>1, PTL DEF Spec

\* The state of the service is typed.
THEOREM TypeCorrect == Spec => []TypeOK
<1>1. DeliveryInv => TypeOK
  BY DEF DeliveryInv
<1> QED BY Inductive, <1>1, PTL

\* No evidence is delivered that the audit log does not hold, in the record of
\* its own delivery, whatever failed on the way.
THEOREM DeliveredIsRecordedAlways == Spec => []DeliveredIsRecorded
<1>1. DeliveryInv => DeliveredIsRecorded
  BY DEF DeliveryInv
<1> QED BY Inductive, <1>1, PTL

\* No pack is in the cache that was not recorded before.
THEOREM CachedIsRecordedAlways == Spec => []CachedIsRecorded
<1>1. DeliveryInv => CachedIsRecorded
  BY DEF DeliveryInv
<1> QED BY Inductive, <1>1, PTL

\* The cache never answers for other data, another minute or another model than
\* those of the request.
THEOREM DeliveredForTheCaseAlways == Spec => []DeliveredForTheCase
<1>1. DeliveryInv => DeliveredForTheCase
  BY DEF DeliveryInv
<1> QED BY Inductive, <1>1, PTL

\* A fallback is declared, also when it comes from the cache.
THEOREM FallbackIsDeclaredAlways == Spec => []FallbackIsDeclared
<1>1. DeliveryInv => FallbackIsDeclared
  BY DEF DeliveryInv
<1> QED BY Inductive, <1>1, PTL

\* A request that takes an entry takes one within the time its origin is kept.
THEOREM FreshAlways == Spec => FreshWhenRead
<1> DEFINE Kept(e) == e.created + KeptFor(e.pack.origin)
           Fresh == \A r \in Requests :
                       pc[r] = "reading" /\ pc'[r] = "cache_hit" => clock < Kept(found'[r])
<1>1. DeliveryInv /\ [Next]_vars => [Fresh]_vars
  <2> SUFFICES ASSUME DeliveryInv, Next, NEW r \in Requests,
                      pc[r] = "reading", pc'[r] = "cache_hit"
               PROVE  clock < Kept(found'[r])
    OBVIOUS
  <2>1. ReadHit(r)
    <3>1. ASSUME NEW q \in Requests, NEW step, Goto(q, step) PROVE q = r /\ step = "cache_hit"
      BY <3>1 DEF Goto, DeliveryInv, TypeOK
    <3>2. ~ Tick /\ ~ Restart /\ ~ \E c \in cache : Damage(c.key)
      BY DEF Tick, Restart, Damage, Busy
    <3>3. ASSUME NEW q \in Requests PROVE ~ Refuse(q)
      BY <3>1 DEF Refuse, Fail, Return
    <3>4. ASSUME NEW q \in Requests, NEW at \in Asked, NEW refresh \in BOOLEAN
          PROVE  ~ Ask(q, at, refresh)
      BY <3>1 DEF Ask
    <3>5. PICK q \in Requests : Step(q)
      BY <3>2, <3>3, <3>4 DEF Next
    <3>6. ReadHit(q) /\ q = r
      BY <3>1, <3>5 DEF Step, ReadHit, ReadMiss, ReadFails, GenerateSucceeds, GenerateFails,
         RecordHit, RecordReadFailure, RecordGenerated, RecordFailure, RecordFallback,
         RecordWriteFailure, AppendRefused, AppendFails, StoreLive, StoreFallback, StoreFails,
         DeliverHit, DeliverLive, DeliverFallback, Deliver, Fail, Return
    <3> QED BY <3>6
  <2>2. PICK c \in cache : Unexpired(c.entry) /\ found' = [found EXCEPT ![r] = c.entry]
    BY <2>1 DEF ReadHit, Cached
  <2>3. found'[r] = c.entry /\ clock < c.entry.created + KeptFor(c.entry.pack.origin)
    BY <2>2 DEF Unexpired, DeliveryInv, TypeOK, EntriesFit, Entry, Minutes
  <2> QED BY <2>3
<1> QED BY Inductive, <1>1, PTL DEF Spec, FreshWhenRead
=============================================================================

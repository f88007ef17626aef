---------------------------- MODULE SupportSignals ----------------------------
(***************************************************************************)
(* Support signals: the report generate_support_signal_report over         *)
(* SupportSignalService.generate and its cache of files.                   *)
(*                                                                         *)
(* Reports are processes that may run at the same time over one cache      *)
(* directory.  put writes a temporary file and renames it, and the name of *)
(* the temporary file follows from the key alone: two writers of a key open*)
(* one file.  A file is what its name leads to, so that a writer's handle  *)
(* goes along when another writer renames the file under it.  A text that  *)
(* is written over a longer one leaves the end of the longer one behind.   *)
(***************************************************************************)
EXTENDS SupportText, FiniteSetsExt

CONSTANTS
    Reports,        \* numbered in the order they begin
    Versions,   \* the values cache_generation_version may have
    Datasets,   \* pairs of the two tables, as [scoring, events]
    Answers,    \* the sets of signals the model may answer with
    MaxMishaps, \* bound on crashes and disk failures
    None

ASSUME BoundAssumption == MaxMishaps \in Nat
ASSUME ReportsAssumption == Reports \subseteq Nat

\* No payment is scored twice and no two events have one id:
\* _load_support_tables raises otherwise.
ASSUME DatasetsAssumption ==
    \A t \in Datasets :
        /\ t.scoring \in Seq([payment : {t.scoring[i].payment : i \in DOMAIN t.scoring}, at : Nat])
        /\ \A i, j \in DOMAIN t.scoring : t.scoring[i].payment = t.scoring[j].payment => i = j
        /\ IsFiniteSet(t.events)
        /\ \A e \in t.events :
              /\ e.at \in Nat /\ e.id \in Nat
              /\ e.text \in [says : {e.text.says}, injected : BOOLEAN, private : BOOLEAN,
                              blank : BOOLEAN]
        /\ \A d, e \in t.events : d.id = e.id => d = e

VARIABLES
    tables,
    version,    \* the version each report runs with
    temp,       \* the temporary file of each key, or None
    file,       \* the cache file of each key, or None
    handle,     \* where the file is that each report has open for writing
    pc,
    rows,       \* the rows each report has so far
    made,       \* what a report is about to cache, and the mode of its branch
    offered,    \* every put that was begun
    output,     \* the report file
    mishaps

vars == <<tables, version, temp, file, handle, pc, rows, made, offered, output, mishaps>>

disk == <<temp, file, handle>>
constants == <<tables, version>>

Providers == {"openai", "deterministic_fallback"}

Modes == {"LIVE_OPENAI", "CACHE", "DETERMINISTIC_FALLBACK"}

\* What compile_support_text makes of the rows of two tables, whether it does,
\* and whether validate_model_boundary lets it pass.
Compilations ==
    [t \in Datasets |-> [i \in DOMAIN t.scoring |->
        LET c == Compiled(t.scoring[i].payment, t.scoring[i].at, t.events)
        IN  [payload  |-> Payload(c),
             compiles |-> CanCompile(t.scoring[i].payment, t.scoring[i].at, t.events),
             passes   |-> PassesBoundary(c)]]]

Inputs == UNION {{Compilations[t][i].payload : i \in DOMAIN t.scoring} : t \in Datasets}

\* _cache_path.
Keys == [version : Versions, input : Inputs]

Signals == Answers \cup {Extracted(i) : i \in Inputs}

\* A generation, and the entry it becomes in the cache.  The origin is where the
\* signals really come from: no step of the code reads it.
Made == [input : Inputs, signals : Signals, provider : Providers, origin : {"model", "rules"}]

\* Only what a model made has the name of a model and of a response.
Size(entry) == IF entry.provider = "openai" THEN 2 ELSE 1

\* The text of a file: whose entry it begins with, and how long it is.
Content == [entry : Made \cup {None}, size : 0 .. 2]

Blank == [entry |-> None, size |-> 0]

Delivery == [generation : Made, mode : {"LIVE_OPENAI", "DETERMINISTIC_FALLBACK"}]

\* No generation, no delivery and no text of a file is none.
ASSUME NoneAssumption == None \notin Made \cup Delivery \cup Content

Row ==
    [payment : {tables.scoring[i].payment : i \in DOMAIN tables.scoring}, made : Made,
     mode : Modes, provider : Providers, fallback_used : BOOLEAN]

Running == {"row", "extracting", "opening", "writing", "renaming"}

TypeOK ==
    /\ tables \in Datasets
    /\ version \in [Reports -> Versions]
    /\ temp \in [Keys -> Content \cup {None}]
    /\ file \in [Keys -> Content \cup {None}]
    /\ handle \in [Reports -> {"none", "temp", "file", "gone"}]
    /\ pc \in [Reports -> Running \cup {"idle", "done", "failed", "dead"}]
    /\ rows \in [Reports -> Seq(Row)]
    /\ \A r \in Reports : Len(rows[r]) <= Len(tables.scoring)
    /\ made \in [Reports -> Delivery \cup {None}]
    /\ offered \subseteq [key : Keys, value : Made]
    /\ \A r \in Reports : handle[r] # "none" => pc[r] \in {"writing", "renaming"}
    /\ output = <<>> \/ Len(output) = Len(tables.scoring)
    /\ mishaps \in 0 .. MaxMishaps

Init ==
    /\ tables \in Datasets
    /\ version \in [Reports -> Versions]
    /\ version[Min(Reports)] = CHOOSE v \in Versions : TRUE   \* makes no difference
    /\ temp = [k \in Keys |-> None]
    /\ file = [k \in Keys |-> None]
    /\ handle = [r \in Reports |-> "none"]
    /\ pc = [r \in Reports |-> "idle"]
    /\ rows = [r \in Reports |-> <<>>]
    /\ made = [r \in Reports |-> None]
    /\ offered = {}
    /\ output = <<>>
    /\ mishaps = 0

Goto(r, step) == pc' = [pc EXCEPT ![r] = step]

\* The row of the scoring table a report is at, and its input.
Scored(r) == tables.scoring[Len(rows[r]) + 1]

Compilation(r) == Compilations[tables][Len(rows[r]) + 1]

Input(r) == Compilation(r).payload

KeyOf(r) == [version |-> version[r], input |-> Input(r)]

AtRow(r) == pc[r] = "row" /\ Len(rows[r]) < Len(tables.scoring)

Compiles(r) == Compilation(r).compiles

Passes(r) == Compilation(r).passes

\* The generation a report is about to cache.
Generation(r) == made[r].generation

AddRow(r, m, mode, provider, fallback_used) ==
    /\ rows' = [rows EXCEPT ![r] = Append(rows[r],
           [payment |-> Scored(r).payment, made |-> m, mode |-> mode,
            provider |-> provider, fallback_used |-> fallback_used])]
    /\ Goto(r, "row")
-----------------------------------------------------------------------------
(* The report.                                                             *)

\* _load_support_tables.
Begin(r) ==
    /\ pc[r] = "idle"
    /\ \A q \in Reports : q < r => pc[q] # "idle"
    /\ Goto(r, "row")
    /\ UNCHANGED <<constants, disk, rows, made, offered, output, mishaps>>

\* Mutant of Prior: only live deliveries are kept for reuse.
PriorLive(r) == {i \in DOMAIN rows[r] : rows[r][i].made.input = Input(r)
                                          /\ rows[r][i].mode = "LIVE_OPENAI"}

\* delivery_by_input_hash: the rows with the input of this one.
Prior(r) == {i \in DOMAIN rows[r] : rows[r][i].made.input = Input(r)}

\* Mutant of Reused: what was made as a fallback is declared, what was cached as
\* one is not.
ReusedByMode(r, row) ==
    AddRow(r, row.made, "CACHE", row.provider, row.mode = "DETERMINISTIC_FALLBACK")

\* _reuse_delivery copies a delivery for another payment.
Reused(r, row) ==
    AddRow(r, row.made, "CACHE", row.provider, row.provider = "deterministic_fallback")

\* The text was answered before in this report.
Reuse(r) ==
    /\ AtRow(r)
    /\ Compiles(r)
    /\ \E i \in Prior(r) : i = Min(Prior(r)) /\ Reused(r, rows[r][i])
    /\ UNCHANGED <<constants, disk, made, offered, output, mishaps>>

\* A blank text, or one that may not reach a model: the report fails as a whole.
RowFails(r) ==
    /\ AtRow(r)
    /\ ~Compiles(r) \/ (Prior(r) = {} /\ ~Passes(r))
    /\ Goto(r, "failed")
    /\ UNCHANGED <<constants, disk, rows, made, offered, output, mishaps>>

\* Every row is there: the report is written.
Finish(r) ==
    /\ pc[r] = "row"
    /\ Len(rows[r]) = Len(tables.scoring)
    /\ output' = rows[r]
    /\ Goto(r, "done")
    /\ UNCHANGED <<constants, disk, rows, made, offered, mishaps>>
-----------------------------------------------------------------------------
(* generate.                                                               *)

\* A text is an entry when nothing is missing and nothing follows.
Readable(c) == c # None /\ c.entry # None /\ c.size = Size(c.entry)

AtService(r) ==
    /\ AtRow(r)
    /\ Compiles(r)
    /\ Prior(r) = {}
    /\ Passes(r)

\* _cached_result.
ReadHit(r) ==
    LET entry == file[KeyOf(r)].entry
    IN  /\ AtService(r)
        /\ Readable(file[KeyOf(r)])
        /\ entry.input = Input(r)
        /\ AddRow(r, entry, "CACHE", entry.provider, entry.provider = "deterministic_fallback")
        /\ UNCHANGED <<constants, disk, made, offered, output, mishaps>>

\* What deterministic_extract_support_signals returns.
Fallback(r) ==
    [input |-> Input(r), signals |-> Extracted(Input(r)),
     provider |-> "deterministic_fallback", origin |-> "rules"]

\* What the extractor returns when the model answered.
Live(r, signals) ==
    [input |-> Input(r), signals |-> signals, provider |-> "openai", origin |-> "model"]

Make(r, m, mode) ==
    /\ made' = [made EXCEPT ![r] = [generation |-> m, mode |-> mode]]
    /\ Goto(r, "opening")

\* Mutant of ReadMiss: what cannot be used is removed.
ReadMissEvicts(r) ==
    /\ AtService(r)
    /\ IF Input(r) = <<>>
         THEN Make(r, Fallback(r), "DETERMINISTIC_FALLBACK")
         ELSE Goto(r, "extracting") /\ UNCHANGED made
    /\ file' = [file EXCEPT ![KeyOf(r)] = None]
    /\ UNCHANGED <<constants, temp, handle, rows, offered, output, mishaps>>

\* Nothing is cached, or what is cannot be read, or has expired.  Without any
\* event the model is not asked.
ReadMiss(r) ==
    /\ AtService(r)
    /\ IF Input(r) = <<>>
         THEN Make(r, Fallback(r), "DETERMINISTIC_FALLBACK")
         ELSE Goto(r, "extracting") /\ UNCHANGED made
    /\ UNCHANGED <<constants, disk, rows, offered, output, mishaps>>

\* The model answers, in any way.
ExtractSucceeds(r) ==
    /\ pc[r] = "extracting"
    /\ \E s \in Answers : Make(r, Live(r, s), "LIVE_OPENAI")
    /\ UNCHANGED <<constants, disk, rows, offered, output, mishaps>>

\* One of RECOVERABLE_EXTRACTION_ERRORS.
ExtractFails(r) ==
    /\ pc[r] = "extracting"
    /\ Make(r, Fallback(r), "DETERMINISTIC_FALLBACK")
    /\ UNCHANGED <<constants, disk, rows, offered, output, mishaps>>
-----------------------------------------------------------------------------
(* put.  The delivery is made whatever comes of it.                        *)

\* _delivery_from_generation.
DeliverMade(r) ==
    LET mode == made[r].mode
    IN  /\ AddRow(r, Generation(r), mode, Generation(r).provider,
                  mode = "DETERMINISTIC_FALLBACK")
        /\ made' = [made EXCEPT ![r] = None]

\* The temporary file is created, or emptied.
OpenTemp(r) ==
    /\ pc[r] = "opening"
    /\ temp' = [temp EXCEPT ![KeyOf(r)] = Blank]
    /\ handle' = [handle EXCEPT ![r] = "temp"]
    /\ offered' = offered \cup {[key |-> KeyOf(r), value |-> Generation(r)]}
    /\ Goto(r, "writing")
    /\ UNCHANGED <<constants, file, rows, made, output, mishaps>>

Over(old, entry) ==
    [entry |-> entry, size |-> IF old.size > Size(entry) THEN old.size ELSE Size(entry)]

\* The text is written from the start of the file the handle is on.
WriteTemp(r) ==
    LET k == KeyOf(r)
    IN  /\ pc[r] = "writing"
        /\ temp' = IF handle[r] = "temp"
                     THEN [temp EXCEPT ![k] = Over(temp[k], Generation(r))] ELSE temp
        /\ file' = IF handle[r] = "file"
                     THEN [file EXCEPT ![k] = Over(file[k], Generation(r))] ELSE file
        /\ Goto(r, "renaming")
        /\ UNCHANGED <<constants, handle, rows, made, offered, output, mishaps>>

\* Handles on the file that is renamed go along, handles on the file it
\* replaces are left with a file without a name.
Renamed(r) ==
    [q \in Reports |->
        CASE q = r -> "none"
          [] q # r /\ handle[q] # "none" /\ KeyOf(q) = KeyOf(r) ->
                IF handle[q] = "temp" THEN "file" ELSE "gone"
          [] OTHER -> handle[q]]

RenameTemp(r) ==
    LET k == KeyOf(r)
    IN  /\ pc[r] = "renaming"
        /\ temp[k] # None
        /\ file' = [file EXCEPT ![k] = temp[k]]
        /\ temp' = [temp EXCEPT ![k] = None]
        /\ handle' = Renamed(r)
        /\ DeliverMade(r)
        /\ UNCHANGED <<constants, offered, output, mishaps>>


\* Another writer has renamed the file away: OSError, which is swallowed.
RenameFails(r) ==
    /\ pc[r] = "renaming"
    /\ temp[KeyOf(r)] = None
    /\ handle' = [handle EXCEPT ![r] = "none"]
    /\ DeliverMade(r)
    /\ UNCHANGED <<constants, temp, file, offered, output, mishaps>>

\* Mutant of PutFails: the file is left open.
PutFailsOpen(r) ==
    /\ pc[r] \in {"opening", "writing"}
    /\ mishaps < MaxMishaps
    /\ mishaps' = mishaps + 1
    /\ DeliverMade(r)
    /\ UNCHANGED <<constants, disk, offered, output>>

\* The disk fails while the file is opened or written: swallowed too.
PutFails(r) ==
    /\ pc[r] \in {"opening", "writing"}
    /\ mishaps < MaxMishaps
    /\ mishaps' = mishaps + 1
    /\ handle' = [handle EXCEPT ![r] = "none"]
    /\ DeliverMade(r)
    /\ UNCHANGED <<constants, temp, file, offered, output>>

\* A report is stopped.
Crash(r) ==
    /\ pc[r] \in Running
    /\ mishaps < MaxMishaps
    /\ mishaps' = mishaps + 1
    /\ Goto(r, "dead")
    /\ handle' = [handle EXCEPT ![r] = "none"]
    /\ made' = [made EXCEPT ![r] = None]
    /\ UNCHANGED <<constants, temp, file, rows, offered, output>>

Step(r) ==
    \/ Reuse(r) \/ RowFails(r) \/ Finish(r)
    \/ ReadHit(r) \/ ReadMiss(r) \/ ExtractSucceeds(r) \/ ExtractFails(r)
    \/ OpenTemp(r) \/ WriteTemp(r) \/ RenameTemp(r) \/ RenameFails(r)

Next == \E r \in Reports : Begin(r) \/ Step(r) \/ PutFails(r) \/ Crash(r)

Spec == Init /\ [][Next]_vars

\* Some report goes on as long as any can: nothing stops all of them for ever.
\* The call to the model ends: the client has a timeout and bounded retries.
FairSpec == Spec /\ WF_vars(\E r \in Reports : Step(r))
-----------------------------------------------------------------------------
(* Properties.                                                             *)

AllRows == UNION {{rows[r][i] : i \in DOMAIN rows[r]} : r \in Reports}

ScoringAt(payment) ==
    (CHOOSE s \in {tables.scoring[i] : i \in DOMAIN tables.scoring} : s.payment = payment).at

\* Whatever way its signals came - drafted now, by another process, for another
\* payment - a row rests on texts of its own payment that were there when the
\* payment was scored, without injected and without personal text.
RowsRestOnObservedText ==
    \A row \in AllRows : \A i \in DOMAIN row.made.input :
        \E e \in tables.events :
            /\ e.payment = row.payment
            /\ e.at <= ScoringAt(row.payment)
            /\ ~e.text.injected
            /\ row.made.input[i] = [channel |-> e.channel,
                                    text |-> [e.text EXCEPT !.private = FALSE]]

Observed(payment) ==
    {e \in tables.events : e.payment = payment /\ e.at <= ScoringAt(payment) /\ ~e.text.injected}

\* The events fewer than MaxEvents others are newer than.
Newest(events) ==
    {e \in events : Cardinality({d \in events :
                         d.at > e.at \/ (d.at = e.at /\ d.id > e.id)}) < MaxEvents}

\* The texts of events without personal data: the k-th has k that are not newer
\* than itself.
TextsInTurn(events) ==
    LET NotNewer(e) == {d \in events : d.at < e.at \/ (d.at = e.at /\ d.id <= e.id)}
        At(k) == CHOOSE e \in events : Cardinality(NotNewer(e)) = k
    IN  [k \in 1 .. Cardinality(events) |-> [At(k).text EXCEPT !.private = FALSE]]

Told(payment) == TextsInTurn(Newest(Observed(payment)))

\* Deterministic signals are those that match in the newest texts of the very
\* payment taken together in their order, however often the cache files were
\* written over in between.
FallbackSaysWhatTheTextSays ==
    \A row \in AllRows :
        row.made.origin = "rules" => row.made.signals = Matched(Told(row.payment))

\* Two payments with one text get one answer in a report, although the model
\* may answer differently each time and others write the cache meanwhile.
OneTextOneAnswer ==
    \A r \in Reports : \A i, j \in DOMAIN rows[r] :
        rows[r][i].made.input = rows[r][j].made.input => rows[r][i].made = rows[r][j].made

\* A row names the provider its signals really come from, and says that they are
\* a fallback just when they are: as made, as read from a file that others write
\* over, and as copied from a row of any of these ways.
FallbackIsDeclared ==
    \A row \in AllRows :
        /\ row.provider = "deterministic_fallback" <=> row.made.origin = "rules"
        /\ row.fallback_used <=> row.made.origin = "rules"

\* What a reader finds under a key: the refinement mapping to AtomicCache.
entries == [k \in Keys |-> IF Readable(file[k]) THEN file[k].entry ELSE None]

busy == {KeyOf(r) : r \in {q \in Reports : pc[q] \in {"writing", "renaming"}}}

Cache == INSTANCE AtomicCache WITH Nothing <- None

\* Although writers share their temporary file, and crash, a reader finds under
\* a key nothing or a whole entry that was put there, and an entry is replaced
\* or lost only while a put of its key is under way.
CacheIsAtomic == Cache!Spec

=============================================================================

---------------------------- MODULE EvidenceAudit ----------------------------
(***************************************************************************)
(* The evidence audit log: append and verify of EvidenceAuditLog over its  *)
(* two files, the JSON-lines log and the checkpoint of its head, and       *)
(* get_evidence_service, which gives each request the log object it uses.  *)
(*                                                                         *)
(* A request is one call of append or verify by a thread of the web        *)
(* server.  Each EvidenceAuditLog object has a lock, but lru_cache does not*)
(* make a constructor run once: requests that find the cache empty at the  *)
(* same time get an object, hence a lock, each.  The log is written first  *)
(* and the checkpoint after it; the process may die, the disk may fail and *)
(* files may be lost at any point.                                         *)
(*                                                                         *)
(* The hash of a record stands for the record, and is the name of the      *)
(* request that wrote it.  What a write that was cut short leaves has no   *)
(* newline at its end, so that the next append, in mode "a", goes on in    *)
(* the same line.                                                          *)
(***************************************************************************)
EXTENDS Naturals, Sequences

CONSTANTS
    Requests,
    MaxMishaps,     \* bound on crashes, disk failures and lost files
    Torn,           \* a line that was not written completely
    Missing,        \* the content of a file that does not exist
    None

ASSUME NoneAssumption == None \notin Requests
ASSUME BoundAssumption == MaxMishaps \in Nat

VARIABLES
    log,        \* the lines of the log file, or Missing
    ended,      \* whether what is in the log file ends with a newline
    checkpoint, \* the checkpoint file, or Missing
    service,    \* the object lru_cache holds, named after its creator, or None
    mine,       \* the object each request uses
    lock,       \* who holds the lock of each object
    pc,
    view,       \* the records each request has read and verified
    answer,
    damage,     \* what has happened that can set the two files at odds
    mishaps

vars == <<log, ended, checkpoint, service, mine, lock, pc, view, answer, damage, mishaps>>

files == <<log, ended, checkpoint>>
objects == <<service, mine, lock>>
history == <<damage, mishaps>>

Line == [sequence : Nat \ {0}, previous : Requests \cup {None}, hash : Requests]

Checkpoint == [records : Nat, last : Requests]

\* A torn line is no record, and an absent file has no content.
ASSUME ContentAssumption ==
    /\ Torn \notin Line
    /\ Missing \notin Seq(Line \cup {Torn})
    /\ Missing \notin Checkpoint

Operations == {"append", "verify"}

\* The steps a request takes under the lock, as <<operation, step>>.
Locked == Operations \X {"reading", "comparing", "writing", "checkpointing"}

Running == Locked \cup (Operations \X {"constructing", "acquiring"})

Resting == {<<"idle", "idle">>, <<"done", "done">>, <<"lost", "lost">>}

Answers ==
    [kind : {"none", "appended", "verified", "integrity", "error"}, records : Nat]

Say(kind, n) == [kind |-> kind, records |-> n]

TypeOK ==
    /\ \/ log = Missing
       \/ log \in Seq(Line \cup {Torn})
    /\ ended \in BOOLEAN
    /\ ~ended => log \notin {Missing, <<>>}
    /\ checkpoint \in Checkpoint \cup {Missing}
    /\ service \in Requests \cup {None}
    /\ mine \in [Requests -> Requests \cup {None}]
    /\ lock \in [Requests -> Requests \cup {None}]
    /\ \A r \in Requests : pc[r] \in Locked => mine[r] # None /\ lock[mine[r]] = r
    /\ pc \in [Requests -> Running \cup Resting]
    /\ view \in [Requests -> Seq(Line)]
    /\ answer \in [Requests -> Answers]
    /\ damage \subseteq {"crash", "disk", "torn", "lost", "race"}
    /\ mishaps \in 0 .. MaxMishaps

Init ==
    /\ log = Missing
    /\ ended = TRUE
    /\ checkpoint = Missing
    /\ service = None
    /\ mine = [r \in Requests |-> None]
    /\ lock = [r \in Requests |-> None]
    /\ pc = [r \in Requests |-> <<"idle", "idle">>]
    /\ view = [r \in Requests |-> <<>>]
    /\ answer = [r \in Requests |-> Say("none", 0)]
    /\ damage = {}
    /\ mishaps = 0

At(r, step) == pc[r] \in Operations \X {step}

Goto(r, step) ==
    /\ pc' = [pc EXCEPT ![r] = <<pc[r][1], step>>]
    /\ UNCHANGED answer

\* Mutant of Released: the lock is given back on success only.
ReleasedOnSuccess(r, a) ==
    IF a.kind \in {"appended", "verified"} THEN [lock EXCEPT ![mine[r]] = None] ELSE lock

\* Leaving the with statement gives the lock back, whatever the outcome.
Released(r, a) == [lock EXCEPT ![mine[r]] = None]

Finish(r, a) ==
    /\ pc' = [pc EXCEPT ![r] = <<"done", "done">>]
    /\ answer' = [answer EXCEPT ![r] = a]
    /\ lock' = Released(r, a)
    /\ UNCHANGED <<service, mine>>
-----------------------------------------------------------------------------
(* get_evidence_service.                                                   *)

\* The cache holds an object: the request uses it.
UseService(r, op) ==
    /\ pc[r] = <<"idle", "idle">>
    /\ service # None
    /\ pc' = [pc EXCEPT ![r] = <<op, "acquiring">>]
    /\ mine' = [mine EXCEPT ![r] = service]
    /\ UNCHANGED <<files, service, lock, view, answer, history>>

\* The cache is empty: the request constructs an object.
MissService(r, op) ==
    /\ pc[r] = <<"idle", "idle">>
    /\ service = None
    /\ pc' = [pc EXCEPT ![r] = <<op, "constructing">>]
    /\ UNCHANGED <<files, objects, view, answer, history>>

\* The object is kept unless another request was faster, and its creator uses
\* it in either case.
Construct(r) ==
    /\ At(r, "constructing")
    /\ Goto(r, "acquiring")
    /\ mine' = [mine EXCEPT ![r] = r]
    /\ IF service = None
         THEN service' = r /\ UNCHANGED damage
         ELSE damage' = damage \cup {"race"} /\ UNCHANGED service
    /\ UNCHANGED <<files, lock, view, mishaps>>
-----------------------------------------------------------------------------
(* _read_and_verify.                                                       *)

\* Mutant of LockFree: the lock is not taken into account.
LockIgnored(r) == TRUE

LockFree(r) == lock[mine[r]] = None

Acquire(r) ==
    /\ At(r, "acquiring")
    /\ LockFree(r)
    /\ lock' = [lock EXCEPT ![mine[r]] = r]
    /\ Goto(r, "reading")
    /\ UNCHANGED <<files, service, mine, view, history>>

\* Every line is complete, has its number and the hash of the line before.
Chained(lines) ==
    \A i \in DOMAIN lines :
        /\ lines[i] # Torn
        /\ lines[i].sequence = i
        /\ lines[i].previous = IF i = 1 THEN None ELSE lines[i - 1].hash

\* The verified records are accepted: append goes on to write, verify answers.
Accept(r, records) ==
    IF pc[r][1] = "append"
      THEN Goto(r, "writing") /\ UNCHANGED objects
      ELSE Finish(r, Say("verified", Len(records)))

\* A log that does not exist has no records, and no checkpoint is looked for.
ReadLog(r) ==
    /\ At(r, "reading")
    /\ \/ /\ log = Missing
          /\ view' = [view EXCEPT ![r] = <<>>]
          /\ Accept(r, <<>>)
       \/ /\ log # Missing
          /\ ~Chained(log)
          /\ Finish(r, Say("integrity", 0))
          /\ UNCHANGED view
       \/ /\ log # Missing
          /\ Chained(log)
          /\ view' = [view EXCEPT ![r] = log]
          /\ Goto(r, "comparing")
          /\ UNCHANGED objects
    /\ UNCHANGED <<files, history>>

\* What a checkpoint of these records says.
HeadOf(lines) ==
    IF lines = <<>> THEN Missing
                    ELSE [records |-> Len(lines), last |-> lines[Len(lines)].hash]

CompareCheckpoint(r) ==
    /\ At(r, "comparing")
    /\ IF checkpoint = HeadOf(view[r])
         THEN Accept(r, view[r])
         ELSE Finish(r, Say("integrity", 0))
    /\ UNCHANGED <<files, view, history>>
-----------------------------------------------------------------------------
(* The rest of append.                                                     *)

\* Mutant of NextLine: records are numbered from zero.
NextLineFromZero(r) ==
    [sequence |-> Len(view[r]),
     previous |-> IF view[r] = <<>> THEN None ELSE view[r][Len(view[r])].hash,
     hash |-> r]

NextLine(r) ==
    [sequence |-> Len(view[r]) + 1,
     previous |-> IF view[r] = <<>> THEN None ELSE view[r][Len(view[r])].hash,
     hash |-> r]

\* Mutant of WithLine: the file is opened with mode "w" instead of "a".
OverwrittenWithLine(lines, line) == <<line>>

\* Mode "a" creates the file, or goes on where it ends: two records in one line
\* are no record.
WithLine(lines, line) ==
    IF lines = Missing THEN <<line>>
    ELSE IF ended THEN Append(lines, line)
    ELSE [lines EXCEPT ![Len(lines)] = Torn]

WriteLine(r) ==
    /\ At(r, "writing")
    /\ log' = WithLine(log, NextLine(r))
    /\ ended' = TRUE
    /\ Goto(r, "checkpointing")
    /\ UNCHANGED <<checkpoint, objects, view, history>>

\* Mutant of HeadAfter: the checkpoint counts the records before the new one.
HeadBefore(r) == [records |-> Len(view[r]), last |-> r]

HeadAfter(r) == [records |-> Len(view[r]) + 1, last |-> r]

\* _write_checkpoint: a temporary file and os.replace.
WriteCheckpoint(r) ==
    /\ At(r, "checkpointing")
    /\ checkpoint' = HeadAfter(r)
    /\ Finish(r, Say("appended", Len(view[r]) + 1))
    /\ UNCHANGED <<log, ended, view, history>>
-----------------------------------------------------------------------------
(* Mishaps.                                                                *)

Mishap(kind) ==
    /\ mishaps < MaxMishaps
    /\ mishaps' = mishaps + 1
    /\ damage' = damage \cup kind
    /\ UNCHANGED view

\* A file that exists cannot be read: reported as an integrity failure, too.
ReadFails(r) ==
    /\ Mishap({"disk"})
    /\ (At(r, "reading") /\ log # Missing) \/ (At(r, "comparing") /\ checkpoint # Missing)
    /\ Finish(r, Say("integrity", 0))
    /\ UNCHANGED files

\* The write of a record ends early: part of it is in the file, or all but its
\* newline.
CutShort(r) ==
    /\ At(r, "writing")
    /\ log' \in {WithLine(log, Torn), WithLine(log, NextLine(r))}
    /\ ended' = FALSE

TornIf(cut) == IF cut THEN {"torn"} ELSE {}

\* A write fails with an OSError: nothing of the line is in the file, or a part,
\* or it is and was not synced; or the checkpoint is still the old one.
WriteFails(r) ==
    /\ \/ At(r, "writing") /\ UNCHANGED <<log, ended>>
       \/ CutShort(r)
       \/ At(r, "writing") /\ log' = WithLine(log, NextLine(r)) /\ ended' = TRUE
       \/ At(r, "checkpointing") /\ UNCHANGED <<log, ended>>
    /\ Mishap({"disk"} \cup TornIf(~ended'))
    /\ Finish(r, Say("error", 0))
    /\ UNCHANGED checkpoint

\* The process dies, with or without an append cut short, and starts again.
Crash ==
    /\ \E r \in Requests : pc[r] \in Running
    /\ UNCHANGED <<log, ended>> \/ \E r \in Requests : CutShort(r)
    /\ Mishap((IF \E r \in Requests : At(r, "writing") \/ At(r, "checkpointing")
                 THEN {"crash"} ELSE {}) \cup TornIf(~ended'))
    /\ pc' = [r \in Requests |-> IF pc[r] \in Running THEN <<"lost", "lost">> ELSE pc[r]]
    /\ lock' = [r \in Requests |-> None]
    /\ service' = None
    /\ UNCHANGED <<checkpoint, mine, answer>>

\* From outside, the log file is deleted or emptied, or the checkpoint deleted.
LoseFile ==
    /\ Mishap({"lost"})
    /\ \/ log # Missing /\ log' \in {Missing, <<>>} /\ ended' = TRUE /\ UNCHANGED checkpoint
       \/ checkpoint # Missing /\ checkpoint' = Missing /\ UNCHANGED <<log, ended>>
    /\ UNCHANGED <<objects, pc, answer>>
-----------------------------------------------------------------------------
ThreadStep(r) ==
    \/ Construct(r)
    \/ Acquire(r)
    \/ ReadLog(r)
    \/ CompareCheckpoint(r)
    \/ WriteLine(r)
    \/ WriteCheckpoint(r)

Next ==
    \/ \E r \in Requests :
         \/ \E op \in Operations : UseService(r, op) \/ MissService(r, op)
         \/ ThreadStep(r)
         \/ ReadFails(r)
         \/ WriteFails(r)
    \/ Crash
    \/ LoseFile

\* A thread that runs goes on.  Each request takes the lock once, so that weak
\* fairness suffices for the requests that wait for it.
Spec == Init /\ [][Next]_vars /\ \A r \in Requests : WF_vars(ThreadStep(r))
-----------------------------------------------------------------------------
(* Properties.                                                             *)

\* The two files are never at odds of the log's own doing: as long as no append
\* was cut short, no file was lost and no second object came to be, the lines
\* form one chain whose head is the checkpoint, but for the one append that is
\* between its two writes.
FilesAgree ==
    damage = {} =>
        LET lines == IF log = Missing THEN <<>> ELSE log
            between == {r \in Requests : At(r, "checkpointing")}
        IN  /\ Chained(lines)
            /\ IF between = {}
                 THEN checkpoint = HeadOf(lines)
                 ELSE \E r \in between :
                        /\ between = {r}
                        /\ lines = Append(view[r], NextLine(r))
                        /\ checkpoint = HeadOf(view[r])

\* An integrity alarm always has a cause outside the log's own operation; the
\* interleavings of appends and verifications, and crashes that interrupt no
\* append, raise none (the router answers an alarm with 503).
AlarmsHaveACause ==
    (\E r \in Requests : answer[r].kind = "integrity") => damage # {}

\* An append that was reported has its line in the log, even when later appends
\* fail, are cut short, crash or race, unless somebody lost the file.  A log that
\* ends in a torn line takes no more records: the one object reads it again before
\* it writes and refuses.  Only with several objects (a race for the constructor)
\* and a torn line between the reading and the writing of one of them is a
\* reported record lost, glued to what is torn: nothing is claimed then.
AppendedIsLogged ==
    "lost" \notin damage /\ ~({"race", "torn"} \subseteq damage) =>
        \A r \in Requests :
            answer[r].kind = "appended" => \E i \in DOMAIN log : log[i] # Torn /\ log[i].hash = r

\* Everybody who waits for the log gets it or dies with the process: no failure
\* leaves the lock behind.
EveryRequestEnds ==
    \A r \in Requests : (pc[r] \in Running) ~> (pc[r] \in Resting)

\* evidence_store.py:471, "The audit checkpoint exists without audit records.":
\* the log is not verified as holding fewer records than its checkpoint counts.
ShorterLogIsNoticed ==
    [][\A r \in Requests :
         answer'[r].kind = "verified" /\ answer[r].kind = "none" =>
             checkpoint = Missing \/ checkpoint.records <= answer'[r].records]_vars
=============================================================================

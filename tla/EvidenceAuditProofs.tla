------------------------- MODULE EvidenceAuditProofs -------------------------
(***************************************************************************)
(* Theorems about EvidenceAudit, for every set of requests and any number  *)
(* of mishaps.                                                             *)
(***************************************************************************)
EXTENDS EvidenceAudit, SequenceTheorems, TLAPS

Text == Seq(Line \cup {Torn})

\* The lines of the log file, whether it exists or not.
LogLines == IF log = Missing THEN <<>> ELSE log

\* The line of the request is in the log.
Logged(r) ==
    log # Missing /\ \E i \in DOMAIN log : log[i] # Torn /\ log[i].hash = r

Steps == {"acquiring", "reading", "comparing", "writing", "checkpointing"}

\* Who waits for the log, or has it, has an object.
UsersHaveObjects ==
    \A r \in Requests : At(r, "acquiring") => mine[r] \in Requests

\* What is compared, and what append goes on from, has been verified.
ViewsAreChained ==
    \A r \in Requests :
        At(r, "comparing") \/ At(r, "writing") \/ At(r, "checkpointing") => Chained(view[r])

\* Without a race for the constructor everybody uses the one object.
OneObject ==
    "race" \notin damage =>
        \A r \in Requests :
            At(r, "acquiring") \/ pc[r] \in Locked => service # None /\ mine[r] = service

\* What a request has read is what is there, for as long as it has the lock.
ViewsAreCurrent ==
    damage = {} =>
        \A r \in Requests :
            /\ At(r, "comparing") => log # Missing /\ view[r] = log
            /\ At(r, "writing") => view[r] = LogLines

\* The checkpoint is that of the lines, or of those before the last one while
\* the append that wrote it is at its checkpoint.
HeadIsKnown ==
    damage = {} =>
        /\ Chained(LogLines)
        /\ (\A r \in Requests : ~At(r, "checkpointing")) => checkpoint = HeadOf(LogLines)
        /\ \A r \in Requests : At(r, "checkpointing") =>
              LogLines = Append(view[r], NextLine(r)) /\ checkpoint = HeadOf(view[r])

\* Until a file is lost, or a torn line meets a second object, the line of an
\* append stays from its first write on.
LinesStay ==
    "lost" \notin damage /\ ~({"race", "torn"} \subseteq damage) =>
        \A r \in Requests :
            At(r, "checkpointing") \/ answer[r].kind = "appended" => Logged(r)

\* Only who is done has an answer.
AnswersAreLast == \A r \in Requests : pc[r] # <<"done", "done">> => answer[r].kind = "none"

\* The last of these lines is torn, or of an append that was not reported.
EndsUnreported(lines) ==
    /\ lines # <<>>
    /\ LET last == lines[Len(lines)]
       IN  last = Torn \/ answer[last.hash].kind # "appended"

\* A checkpoint is of an append that was reported, so that no log which ends
\* unreported agrees with it; what ends without a newline was cut short, and
\* nobody who uses the one object writes after it.
CutsAreRefused ==
    /\ ~ended => "torn" \in damage
    /\ checkpoint # Missing => answer[checkpoint.last].kind = "appended"
    /\ ~ended /\ "race" \notin damage /\ "lost" \notin damage =>
          /\ EndsUnreported(log)
          /\ \A r \in Requests :
                /\ ~At(r, "writing") /\ ~At(r, "checkpointing")
                /\ At(r, "comparing") => EndsUnreported(view[r])

AuditInv ==
    /\ TypeOK
    /\ UsersHaveObjects
    /\ ViewsAreChained
    /\ OneObject
    /\ ViewsAreCurrent
    /\ HeadIsKnown
    /\ LinesStay
    /\ AlarmsHaveACause
    /\ AnswersAreLast
    /\ CutsAreRefused
-----------------------------------------------------------------------------
(* Lines, and the records read from them.                                  *)

\* A line that is written comes after the lines that are there, unless the last of
\* them was cut short and takes the new one in.
LEMMA WrittenLine ==
    ASSUME NEW lines \in Text \cup {Missing}, NEW x \in Line \cup {Torn},
           ended \in BOOLEAN, ~ended => lines \notin {Missing, <<>>}
    PROVE  /\ WithLine(lines, x) \in Text
           /\ WithLine(lines, x) \notin {Missing, <<>>}
           /\ WithLine(lines, x)[Len(WithLine(lines, x))] \in {x, Torn}
           /\ ended /\ lines # Missing =>
                 /\ Len(WithLine(lines, x)) = Len(lines) + 1
                 /\ \A i \in 1 .. Len(lines) : WithLine(lines, x)[i] = lines[i]
                 /\ WithLine(lines, x)[Len(lines) + 1] = x
           /\ lines = Missing => WithLine(lines, x) = <<x>>
<1>1. \A text \in Text : text # Missing
  BY ContentAssumption DEF Text
<1>2. CASE lines = Missing
  <2>1. /\ <<x>> \in Seq(Line \cup {Torn}) /\ <<x>> # <<>>
        /\ Len(<<x>>) = 1 /\ <<x>>[1] = x
    OBVIOUS
  <2> QED BY <1>1, <1>2, <2>1 DEF WithLine, Text
<1>3. CASE lines # Missing /\ ended
  <2>1. lines \in Seq(Line \cup {Torn}) /\ WithLine(lines, x) = Append(lines, x)
    BY <1>3 DEF WithLine, Text
  <2>2. /\ Append(lines, x) \in Seq(Line \cup {Torn})
        /\ Len(Append(lines, x)) = Len(lines) + 1 /\ Len(lines) \in Nat
        /\ Append(lines, x)[Len(lines) + 1] = x
        /\ \A i \in 1 .. Len(lines) : Append(lines, x)[i] = lines[i]
    BY <2>1
  <2>3. Append(lines, x) # <<>>
    BY <2>2
  <2> QED BY <1>1, <1>3, <2>1, <2>2, <2>3 DEF Text
<1>4. CASE lines # Missing /\ ~ended
  <2> DEFINE glued == [lines EXCEPT ![Len(lines)] = Torn]
  <2>1. lines \in Seq(Line \cup {Torn}) /\ lines # <<>> /\ WithLine(lines, x) = glued
    BY <1>4 DEF WithLine, Text
  <2>2. Len(lines) \in 1 .. Len(lines)
    BY <2>1
  <2>3. glued \in Seq(Line \cup {Torn}) /\ Len(glued) = Len(lines)
    BY <2>1, <2>2, ExceptSeq
  <2>4. glued[Len(lines)] = Torn
    BY <2>1, <2>2
  <2>5. glued # <<>>
    BY <2>2, <2>3
  <2> QED BY <1>1, <1>4, <2>1, <2>3, <2>4, <2>5 DEF Text
<1> QED BY <1>2, <1>3, <1>4

\* What is chained has no torn line.
LEMMA ChainedRecords ==
    ASSUME NEW lines \in Text, Chained(lines)
    PROVE  lines \in Seq(Line)
<1>1. \A i \in 1 .. Len(lines) : lines[i] \in Line
  BY DEF Chained, Text
<1>2. lines \in [1 .. Len(lines) -> Line] /\ Len(lines) \in Nat
  BY <1>1 DEF Text
<1> QED BY <1>2, SeqDef

\* The next line of records has a line's type.
LEMMA NextLineType ==
    ASSUME NEW r \in Requests, view[r] \in Seq(Line)
    PROVE  NextLine(r) \in Line /\ NextLine(r) # Torn
<1>1. view[r] # <<>> => view[r][Len(view[r])] \in Line
  OBVIOUS
<1>2. NextLine(r) \in Line
  BY <1>1 DEF NextLine, Line
<1> QED BY <1>2, ContentAssumption

\* The next line of chained records goes on with the chain, and the checkpoint
\* that append writes is that of the longer chain.
LEMMA ChainGrows ==
    ASSUME NEW r \in Requests, view[r] \in Seq(Line), Chained(view[r])
    PROVE  /\ Append(view[r], NextLine(r)) \in Seq(Line)
           /\ Chained(Append(view[r], NextLine(r)))
           /\ HeadOf(Append(view[r], NextLine(r))) = HeadAfter(r)
<1> DEFINE longer == Append(view[r], NextLine(r))
<1>1. longer \in Seq(Line) /\ Len(longer) = Len(view[r]) + 1 /\ Len(view[r]) \in Nat
  BY NextLineType
<1>2. longer[Len(view[r]) + 1] = NextLine(r)
  BY <1>1
<1>3. \A i \in 1 .. Len(view[r]) : longer[i] = view[r][i]
  BY <1>1
<1>4. Chained(longer)
  <2> SUFFICES ASSUME NEW i \in 1 .. Len(view[r]) + 1
               PROVE  /\ longer[i] # Torn
                      /\ longer[i].sequence = i
                      /\ longer[i].previous = IF i = 1 THEN None ELSE longer[i - 1].hash
    BY <1>1 DEF Chained
  <2>1. CASE i \in 1 .. Len(view[r])
    <3>1. longer[i] = view[r][i] /\ (i # 1 => longer[i - 1] = view[r][i - 1])
      BY <2>1, <1>3, <1>1
    <3> QED BY <2>1, <3>1 DEF Chained
  <2>2. CASE i = Len(view[r]) + 1
    <3>1. longer[i] = NextLine(r)
      BY <2>2, <1>2
    <3>2. NextLine(r).sequence = i
      BY <2>2 DEF NextLine
    <3>3. i = 1 <=> view[r] = <<>>
      BY <2>2, <1>1
    <3>4. i # 1 => longer[i - 1] = view[r][Len(view[r])]
      BY <2>2, <1>3, <1>1
    <3>5. NextLine(r).previous = IF i = 1 THEN None ELSE longer[i - 1].hash
      BY <3>3, <3>4 DEF NextLine
    <3> QED BY <3>1, <3>2, <3>5, NextLineType
  <2> QED BY <2>1, <2>2, <1>1
<1>5. longer # <<>>
  BY <1>1
<1>6. longer[Len(longer)].hash = r
  BY <1>1, <1>2 DEF NextLine
<1>7. HeadOf(longer) = HeadAfter(r)
  BY <1>1, <1>5, <1>6 DEF HeadOf, HeadAfter
<1> QED BY <1>1, <1>4, <1>7
-----------------------------------------------------------------------------
(* The steps.                                                              *)

\* Nobody else has the lock of the one object.
LEMMA OneAtATime ==
    ASSUME AuditInv, "race" \notin damage,
           NEW r \in Requests, NEW q \in Requests, pc[r] \in Locked, pc[q] \in Locked
    PROVE  r = q
BY DEF AuditInv, TypeOK, OneObject

\* Who is about to write, with one object or no torn line, finds the end of a line.
LEMMA WritersFindTheEnd ==
    ASSUME AuditInv, "lost" \notin damage, ~({"race", "torn"} \subseteq damage),
           NEW r \in Requests, At(r, "writing")
    PROVE  ended
BY DEF AuditInv, TypeOK, CutsAreRefused

\* A step that writes nothing lets nobody go on after a line that was cut short.
LEMMA CutsStay ==
    ASSUME AuditInv, UNCHANGED <<log, ended, checkpoint>>, damage \subseteq damage',
           \A q \in Requests : answer'[q].kind = "appended" <=> answer[q].kind = "appended",
           \A q \in Requests : At(q, "comparing")' =>
               \/ At(q, "comparing") /\ view'[q] = view[q]
               \/ log # Missing /\ view'[q] = log,
           \A q \in Requests : At(q, "writing")' =>
               \/ At(q, "writing")
               \/ log = Missing
               \/ At(q, "comparing") /\ checkpoint = HeadOf(view[q]),
           \A q \in Requests : At(q, "checkpointing")' => At(q, "checkpointing")
    PROVE  CutsAreRefused'
<1>1. checkpoint # Missing => checkpoint.last \in Requests
  BY DEF AuditInv, TypeOK, Checkpoint
<1>2. ASSUME NEW lines \in Text, EndsUnreported(lines)
      PROVE  EndsUnreported(lines)'
  <2>1. lines # <<>> /\ lines[Len(lines)] \in Line \cup {Torn}
    BY <1>2 DEF EndsUnreported, Text
  <2>2. lines[Len(lines)] = Torn \/ lines[Len(lines)].hash \in Requests
    BY <2>1 DEF Line
  <2> QED BY <1>2, <2>1, <2>2 DEF EndsUnreported
<1>3. \A q \in Requests : view[q] \in Text
  <2>1. Seq(Line) \subseteq Text
    BY DEF Text
  <2> QED BY <2>1 DEF AuditInv, TypeOK
<1>4. log # Missing => log \in Text
  BY DEF AuditInv, TypeOK, Text
<1>5. ASSUME ~ended', "race" \notin damage', "lost" \notin damage'
      PROVE  /\ EndsUnreported(log)'
             /\ \A q \in Requests :
                   /\ ~At(q, "writing")' /\ ~At(q, "checkpointing")'
                   /\ At(q, "comparing")' => EndsUnreported(view[q])'
  <2>1. ~ended /\ "race" \notin damage /\ "lost" \notin damage /\ log # Missing
    BY <1>5 DEF AuditInv, TypeOK
  <2>2. EndsUnreported(log)
    BY <2>1 DEF AuditInv, CutsAreRefused
  <2>3. EndsUnreported(log)'
    BY <1>2, <1>4, <2>1, <2>2 DEF EndsUnreported
  <2>4. ASSUME NEW q \in Requests PROVE ~At(q, "checkpointing")'
    BY <2>1 DEF AuditInv, CutsAreRefused
  <2>5. ASSUME NEW q \in Requests, At(q, "writing")' PROVE FALSE
    <3>1. At(q, "comparing") /\ checkpoint = HeadOf(view[q])
      BY <2>1, <2>5 DEF AuditInv, CutsAreRefused
    <3>2. EndsUnreported(view[q]) /\ view[q] \in Seq(Line)
      BY <2>1, <3>1 DEF AuditInv, CutsAreRefused, TypeOK
    <3>3. view[q][Len(view[q])] \in Line
      BY <3>2 DEF EndsUnreported
    <3>4. answer[view[q][Len(view[q])].hash].kind # "appended"
      BY <3>2, <3>3, ContentAssumption DEF EndsUnreported
    <3>5. checkpoint = [records |-> Len(view[q]), last |-> view[q][Len(view[q])].hash]
      BY <3>1, <3>2 DEF HeadOf, EndsUnreported
    <3>6. checkpoint # Missing
      BY <3>2, <3>3, <3>5, ContentAssumption DEF Checkpoint, Line
    <3> QED BY <3>4, <3>5, <3>6 DEF AuditInv, CutsAreRefused
  <2>6. ASSUME NEW q \in Requests, At(q, "comparing")' PROVE EndsUnreported(view[q])'
    <3>1. CASE At(q, "comparing") /\ view'[q] = view[q]
      <4>1. EndsUnreported(view[q])
        BY <2>1, <3>1 DEF AuditInv, CutsAreRefused
      <4> QED BY <1>2, <1>3, <3>1, <4>1 DEF EndsUnreported
    <3>2. CASE view'[q] = log
      BY <2>3, <3>2 DEF EndsUnreported
    <3> QED BY <2>6, <3>1, <3>2
  <2> QED BY <2>3, <2>4, <2>5, <2>6
<1> QED BY <1>1, <1>5 DEF AuditInv, CutsAreRefused

\* A write that is cut short leaves its line unreported.
LEMMA CutShortStep ==
    ASSUME AuditInv, NEW r \in Requests, CutShort(r), UNCHANGED checkpoint,
           damage \subseteq damage', "torn" \in damage',
           \A q \in Requests : answer'[q].kind = "appended" <=> answer[q].kind = "appended",
           "race" \notin damage =>
               \A q \in Requests, s \in {"comparing", "writing", "checkpointing"} : ~At(q, s)'
    PROVE  CutsAreRefused'
<1>1. checkpoint # Missing => checkpoint.last \in Requests
  BY DEF AuditInv, TypeOK, Checkpoint
<1>2. answer[r].kind = "none"
  BY DEF AuditInv, AnswersAreLast, CutShort, At, Operations
<1>3. NextLine(r) \in Line /\ NextLine(r).hash = r
  BY NextLineType DEF AuditInv, TypeOK, NextLine
<1>4. PICK x \in {Torn, NextLine(r)} : log' = WithLine(log, x)
  BY DEF CutShort
<1>5. log \in Text \cup {Missing} /\ ended \in BOOLEAN /\ (~ended => log \notin {Missing, <<>>})
  BY DEF AuditInv, TypeOK, Text
<1>6. log' # <<>> /\ log'[Len(log')] \in {Torn, NextLine(r)}
  BY <1>3, <1>4, <1>5, WrittenLine
<1>7. EndsUnreported(log)'
  BY <1>2, <1>3, <1>6 DEF EndsUnreported
<1> QED BY <1>1, <1>7 DEF AuditInv, CutsAreRefused

LEMMA InitStep == Init => AuditInv
<1> SUFFICES ASSUME Init PROVE AuditInv
  OBVIOUS
<1> USE DEF Init
<1>1. TypeOK
  BY BoundAssumption DEF TypeOK, Locked, Resting, Answers, Say, Operations
<1>2. \A r \in Requests, step \in {"acquiring", "comparing", "writing", "checkpointing"} :
          ~At(r, step)
  BY DEF At, Operations
<1>3. UsersHaveObjects /\ ViewsAreChained /\ ViewsAreCurrent
  BY <1>2 DEF UsersHaveObjects, ViewsAreChained, ViewsAreCurrent
<1>4. OneObject
  BY <1>2 DEF OneObject, Locked, Operations
<1>5. HeadIsKnown
  BY <1>2 DEF HeadIsKnown, LogLines, HeadOf, Chained
<1>6. LinesStay /\ AlarmsHaveACause /\ AnswersAreLast /\ CutsAreRefused
  BY <1>2 DEF LinesStay, AlarmsHaveACause, Say, AnswersAreLast, CutsAreRefused
<1> QED BY <1>1, <1>3, <1>4, <1>5, <1>6 DEF AuditInv

LEMMA UseServiceStep ==
    ASSUME AuditInv, NEW r \in Requests, NEW op \in Operations, UseService(r, op)
    PROVE  AuditInv'
<1> USE DEF AuditInv, UseService, files, history
<1>1. \A q \in Requests, step \in {"reading", "comparing", "writing", "checkpointing"} :
          At(q, step)' <=> At(q, step)
  BY DEF At, TypeOK, Operations
<1>2. \A q \in Requests : pc'[q] \in Locked <=> pc[q] \in Locked
  BY DEF Locked, TypeOK, Operations
<1>3. TypeOK'
  BY <1>2 DEF TypeOK, Running, Operations, Locked
<1>4. UsersHaveObjects'
  BY DEF UsersHaveObjects, TypeOK, At
<1>5. ViewsAreChained'
  BY <1>1 DEF ViewsAreChained, TypeOK, At, Operations, Chained
<1>6. OneObject'
  BY <1>2, <1>4 DEF OneObject, TypeOK, At
<1>7. ViewsAreCurrent'
  BY <1>1 DEF ViewsAreCurrent, LogLines
<1>8. HeadIsKnown'
  BY <1>1 DEF HeadIsKnown, LogLines, HeadOf, Chained, NextLine
<1>9. LinesStay'
  BY <1>1 DEF LinesStay, Logged
<1>10. AlarmsHaveACause'
  BY DEF AlarmsHaveACause
<1>11. AnswersAreLast'
  BY DEF AnswersAreLast, TypeOK
<1>12. CutsAreRefused'
  BY <1>1, CutsStay
<1> QED BY <1>3, <1>4, <1>5, <1>6, <1>7, <1>8, <1>9, <1>10, <1>11, <1>12

LEMMA MissServiceStep ==
    ASSUME AuditInv, NEW r \in Requests, NEW op \in Operations, MissService(r, op)
    PROVE  AuditInv'
<1> USE DEF AuditInv, MissService, files, objects, history
<1>1. \A q \in Requests,
         step \in {"acquiring", "reading", "comparing", "writing", "checkpointing"} :
          At(q, step)' <=> At(q, step)
  BY DEF At, TypeOK, Operations
<1>2. \A q \in Requests : pc'[q] \in Locked <=> pc[q] \in Locked
  BY DEF Locked, TypeOK, Operations
<1>3. TypeOK'
  BY <1>2 DEF TypeOK, Running, Operations, Locked
<1>4. UsersHaveObjects'
  BY <1>1 DEF UsersHaveObjects
<1>5. ViewsAreChained'
  BY <1>1 DEF ViewsAreChained, TypeOK, At, Operations, Chained
<1>6. OneObject'
  BY <1>1, <1>2 DEF OneObject
<1>7. ViewsAreCurrent'
  BY <1>1 DEF ViewsAreCurrent, LogLines
<1>8. HeadIsKnown'
  BY <1>1 DEF HeadIsKnown, LogLines, HeadOf, Chained, NextLine
<1>9. LinesStay'
  BY <1>1 DEF LinesStay, Logged
<1>10. AlarmsHaveACause'
  BY DEF AlarmsHaveACause
<1>11. AnswersAreLast'
  BY DEF AnswersAreLast, TypeOK
<1>12. CutsAreRefused'
  BY <1>1, CutsStay
<1> QED BY <1>3, <1>4, <1>5, <1>6, <1>7, <1>8, <1>9, <1>10, <1>11, <1>12

\* The second object that comes to be is a race.
LEMMA ConstructStep ==
    ASSUME AuditInv, NEW r \in Requests, Construct(r)
    PROVE  AuditInv'
<1> USE DEF AuditInv, Construct, Goto, files
<1>1. \A q \in Requests, step \in {"reading", "comparing", "writing", "checkpointing"} :
          At(q, step)' <=> At(q, step)
  BY DEF At, TypeOK, Operations
<1>2. \A q \in Requests : pc'[q] \in Locked <=> pc[q] \in Locked
  BY DEF At, Locked, TypeOK, Operations
<1>3. pc[r] \notin Locked
  BY DEF At, Locked, Operations
<1>4. TypeOK'
  <2>1. pc' \in [Requests -> Running \cup Resting]
    BY DEF TypeOK, At, Running, Operations
  <2>2. \A q \in Requests : pc'[q] \in Locked => mine'[q] # None /\ lock'[mine'[q]] = q
    BY <1>2, <1>3 DEF TypeOK
  <2>3. service' \in Requests \cup {None} /\ damage' \subseteq {"crash", "disk", "torn", "lost", "race"}
    BY DEF TypeOK
  <2> QED BY <2>1, <2>2, <2>3 DEF TypeOK
<1>5. UsersHaveObjects'
  BY DEF UsersHaveObjects, TypeOK, At
<1>6. ViewsAreChained'
  BY <1>1 DEF ViewsAreChained, TypeOK, At, Operations, Chained
<1>7. /\ damage \subseteq damage'
      /\ "race" \notin damage' => "race" \notin damage /\ service = None /\ service' = r
  OBVIOUS
<1>8. \A q \in Requests : q # r => (At(q, "acquiring")' <=> At(q, "acquiring"))
  BY DEF At, TypeOK
<1>9. OneObject'
  BY <1>2, <1>3, <1>7, <1>8, NoneAssumption DEF OneObject, TypeOK
<1>10. ViewsAreCurrent'
  BY <1>1, <1>7 DEF ViewsAreCurrent, LogLines
<1>11. HeadIsKnown'
  BY <1>1, <1>7 DEF HeadIsKnown, LogLines, HeadOf, Chained, NextLine
<1>12. LinesStay'
  BY <1>1 DEF LinesStay, Logged
<1>13. AlarmsHaveACause'
  BY <1>7 DEF AlarmsHaveACause
<1>14. AnswersAreLast'
  BY DEF AnswersAreLast, TypeOK, At, Operations
<1>15. CutsAreRefused'
  BY <1>1, <1>7, CutsStay
<1> QED BY <1>4, <1>5, <1>6, <1>9, <1>10, <1>11, <1>12, <1>13, <1>14, <1>15

LEMMA AcquireStep ==
    ASSUME AuditInv, NEW r \in Requests, Acquire(r)
    PROVE  AuditInv'
<1> USE DEF AuditInv, Acquire, LockFree, Goto, files, history
<1>1. \A q \in Requests, step \in {"comparing", "writing", "checkpointing"} :
          At(q, step)' <=> At(q, step)
  BY DEF At, TypeOK, Operations
<1>2. \A q \in Requests : q # r => pc'[q] = pc[q]
  BY DEF TypeOK
<1>3. mine[r] \in Requests
  BY DEF UsersHaveObjects
<1>4. TypeOK'
  BY <1>2, <1>3, NoneAssumption DEF TypeOK, At, Running, Operations, Locked
<1>5. UsersHaveObjects'
  BY <1>2, <1>3 DEF UsersHaveObjects, At
<1>6. ViewsAreChained'
  BY <1>1 DEF ViewsAreChained, TypeOK, At, Operations, Chained
<1>7. OneObject'
  BY <1>2 DEF OneObject, At
<1>8. ViewsAreCurrent'
  BY <1>1 DEF ViewsAreCurrent, LogLines
<1>9. HeadIsKnown'
  BY <1>1 DEF HeadIsKnown, LogLines, HeadOf, Chained, NextLine
<1>10. LinesStay'
  BY <1>1 DEF LinesStay, Logged
<1>11. AlarmsHaveACause'
  BY DEF AlarmsHaveACause
<1>12. AnswersAreLast'
  BY DEF AnswersAreLast, TypeOK, At, Operations
<1>13. CutsAreRefused'
  BY <1>1, CutsStay
<1> QED BY <1>4, <1>5, <1>6, <1>7, <1>8, <1>9, <1>10, <1>11, <1>12, <1>13

\* What holds of program counters, locks and answers when a request gives the
\* lock back.
LEMMA Finished ==
    ASSUME AuditInv, NEW r \in Requests, pc[r] \in Locked,
           NEW a \in Answers, Finish(r, a), damage \subseteq damage'
    PROVE  /\ pc' \in [Requests -> Running \cup Resting]
           /\ lock' \in [Requests -> Requests \cup {None}]
           /\ answer' \in [Requests -> Answers]
           /\ \A q \in Requests : answer'[q] = IF q = r THEN a ELSE answer[q]
           /\ \A q \in Requests, s \in Steps : At(q, s)' <=> q # r /\ At(q, s)
           /\ \A q \in Requests : q # r => pc'[q] = pc[q]
           /\ \A q \in Requests : pc'[q] \in Locked =>
                 q # r /\ pc[q] \in Locked /\ mine'[q] # None /\ lock'[mine'[q]] = q
           /\ UsersHaveObjects'
           /\ OneObject'
<1> USE DEF AuditInv, Finish, Released
<1>1. /\ pc' \in [Requests -> Running \cup Resting]
      /\ lock' \in [Requests -> Requests \cup {None}]
      /\ answer' \in [Requests -> Answers]
  BY DEF TypeOK, Resting
<1>2. \A q \in Requests : answer'[q] = IF q = r THEN a ELSE answer[q]
  BY DEF TypeOK
<1>3. \A q \in Requests : q # r => pc'[q] = pc[q]
  BY DEF TypeOK
<1>4. pc'[r] = <<"done", "done">>
  BY DEF TypeOK
<1>5. \A q \in Requests, s \in Steps : At(q, s)' <=> q # r /\ At(q, s)
  BY <1>3, <1>4 DEF At, Operations
<1>6. \A q \in Requests : pc'[q] \in Locked =>
          q # r /\ pc[q] \in Locked /\ mine'[q] # None /\ lock'[mine'[q]] = q
  BY <1>3, <1>4 DEF TypeOK, Locked, Operations
<1>7. UsersHaveObjects'
  BY <1>5 DEF UsersHaveObjects, Steps
<1>8. OneObject'
  BY <1>5, <1>6 DEF OneObject, Steps
<1> QED BY <1>1, <1>2, <1>3, <1>5, <1>6, <1>7, <1>8

\* The same when a request goes from one step under the lock to another.
LEMMA Moved ==
    ASSUME AuditInv, NEW r \in Requests, pc[r] \in Locked,
           NEW step \in {"comparing", "writing", "checkpointing"}, Goto(r, step),
           UNCHANGED objects, UNCHANGED damage
    PROVE  /\ pc' \in [Requests -> Running \cup Resting]
           /\ answer' = answer
           /\ pc'[r] = <<pc[r][1], step>>
           /\ \A q \in Requests : q # r => pc'[q] = pc[q]
           /\ \A q \in Requests, s \in Steps :
                 At(q, s)' <=> IF q = r THEN s = step ELSE At(q, s)
           /\ \A q \in Requests : pc'[q] \in Locked =>
                 pc[q] \in Locked /\ mine'[q] # None /\ lock'[mine'[q]] = q
           /\ UsersHaveObjects'
           /\ OneObject'
<1> USE DEF AuditInv, Goto, objects
<1>1. pc' \in [Requests -> Running \cup Resting]
  BY DEF TypeOK, Running, Locked
<1>2. \A q \in Requests : q # r => pc'[q] = pc[q]
  BY DEF TypeOK
<1>3. pc'[r] = <<pc[r][1], step>>
  BY DEF TypeOK
<1>4. pc[r][1] \in Operations
  BY DEF Locked
<1>5. \A q \in Requests, s \in Steps :
          At(q, s)' <=> IF q = r THEN s = step ELSE At(q, s)
  BY <1>2, <1>3, <1>4 DEF At
<1>6. \A q \in Requests : pc'[q] \in Locked =>
          pc[q] \in Locked /\ mine'[q] # None /\ lock'[mine'[q]] = q
  BY <1>2 DEF TypeOK
<1>7. UsersHaveObjects'
  BY <1>5 DEF UsersHaveObjects, Steps
<1>8. OneObject'
  BY <1>5, <1>6 DEF OneObject, Steps
<1> QED BY <1>1, <1>2, <1>3, <1>5, <1>6, <1>7, <1>8

\* A request at one of these steps has the lock.
LEMMA AtLocked ==
    ASSUME NEW r \in Requests,
           NEW s \in {"reading", "comparing", "writing", "checkpointing"}, At(r, s)
    PROVE  pc[r] \in Locked
BY DEF At, Locked

\* Who finishes without having appended reports no append.
LEMMA FinishedAnswers ==
    ASSUME AuditInv, NEW r \in Requests, pc[r] \in Locked,
           NEW a \in Answers, Finish(r, a)
    PROVE  /\ a.kind # "appended" =>
                 \A q \in Requests : answer'[q].kind = "appended" <=> answer[q].kind = "appended"
           /\ answer[r].kind = "none"
           /\ AnswersAreLast'
<1>1. pc[r] # <<"done", "done">>
  BY DEF Locked, Operations
<1>2. answer[r].kind = "none"
  BY <1>1 DEF AuditInv, AnswersAreLast
<1>3. \A q \in Requests : answer'[q] = IF q = r THEN a ELSE answer[q]
  BY DEF Finish, AuditInv, TypeOK
<1>4. pc'[r] = <<"done", "done">> /\ \A q \in Requests : q # r => pc'[q] = pc[q]
  BY DEF Finish, AuditInv, TypeOK
<1> QED BY <1>2, <1>3, <1>4 DEF AuditInv, AnswersAreLast

\* The records that are accepted are those that append goes on with.
LEMMA AcceptStep ==
    ASSUME AuditInv, NEW r \in Requests, pc[r] \in Locked,
           NEW records \in Seq(Line), Chained(records), Accept(r, records),
           view' = [view EXCEPT ![r] = records],
           damage = {} => records = LogLines /\ checkpoint = HeadOf(LogLines),
           log = Missing \/ (At(r, "comparing") /\ checkpoint = HeadOf(view[r])),
           UNCHANGED files, UNCHANGED history
    PROVE  AuditInv'
<1> USE DEF AuditInv, Accept, files, history
<1>1. view'[r] = records /\ \A q \in Requests : q # r => view'[q] = view[q]
  BY DEF TypeOK
<1>2. Len(records) \in Nat
  OBVIOUS
<1>3. damage = {} => \A q \in Requests : pc[q] \in Locked => q = r
  BY OneAtATime
<1>4. CASE pc[r][1] = "append"
  <2>1. Goto(r, "writing") /\ UNCHANGED objects
    BY <1>4
  <2> USE <1>4, <2>1, Moved DEF objects
  <2>2. TypeOK'
    BY <1>1 DEF TypeOK
  <2>3. \A q \in Requests, s \in {"comparing", "writing", "checkpointing"} :
            q # r => (At(q, s)' <=> At(q, s))
    BY DEF Steps
  <2>4. ViewsAreChained'
    BY <1>1, <2>3 DEF ViewsAreChained, Chained
  <2>5. damage' = {} => \A q \in Requests, s \in {"comparing", "writing", "checkpointing"} :
            At(q, s)' => q = r /\ s = "writing"
    BY <1>3, AtLocked DEF Steps
  <2>6. ViewsAreCurrent'
    BY <1>1, <2>5 DEF ViewsAreCurrent, LogLines
  <2>7. HeadIsKnown'
    BY <2>5 DEF HeadIsKnown, LogLines, HeadOf, Chained
  <2>8. LinesStay'
    BY DEF LinesStay, Logged, Steps
  <2>9. AlarmsHaveACause' /\ AnswersAreLast'
    BY DEF AlarmsHaveACause, AnswersAreLast, Locked
  <2>10. CutsAreRefused'
    BY <1>1, CutsStay DEF Steps
  <2> QED BY <2>2, <2>4, <2>6, <2>7, <2>8, <2>9, <2>10
<1>5. CASE pc[r][1] # "append"
  <2> DEFINE a == Say("verified", Len(records))
  <2>1. Finish(r, a) /\ a \in Answers /\ a.kind = "verified"
    BY <1>2, <1>5 DEF Say, Answers
  <2> HIDE DEF a
  <2> USE <2>1, Finished
  <2>2. TypeOK'
    BY <1>1 DEF TypeOK, Finish
  <2>3. \A q \in Requests, s \in {"comparing", "writing", "checkpointing"} :
            At(q, s)' <=> q # r /\ At(q, s)
    BY DEF Steps
  <2>4. ViewsAreChained'
    BY <1>1, <2>3 DEF ViewsAreChained, Chained
  <2>5. damage' = {} => \A q \in Requests, s \in {"comparing", "writing", "checkpointing"} :
            ~At(q, s)'
    BY <1>3, <2>3, AtLocked
  <2>6. ViewsAreCurrent'
    BY <2>5 DEF ViewsAreCurrent
  <2>7. HeadIsKnown'
    BY <2>5 DEF HeadIsKnown, LogLines, HeadOf, Chained
  <2>8. LinesStay'
    BY <2>3 DEF LinesStay, Logged
  <2>9. AlarmsHaveACause' /\ AnswersAreLast'
    BY FinishedAnswers DEF AlarmsHaveACause
  <2>10. CutsAreRefused'
    BY <1>1, <2>3, FinishedAnswers, CutsStay
  <2> QED BY <2>2, <2>4, <2>6, <2>7, <2>8, <2>9, <2>10
<1> QED BY <1>4, <1>5

\* Nothing that is written after the end of a line takes a line away.
LEMMA LoggedStays ==
    ASSUME TypeOK, ended, NEW x \in Line \cup {Torn},
           log' = WithLine(log, x), NEW q, Logged(q)
    PROVE  Logged(q)'
<1>1. log \in Text /\ log # Missing
  BY DEF TypeOK, Text, Logged
<1>2. PICK i \in 1 .. Len(log) : log[i] # Torn /\ log[i].hash = q
  BY <1>1 DEF Logged, Text
<1>3. /\ log' \in Text /\ log' # Missing /\ Len(log') = Len(log) + 1
      /\ log'[i] = log[i]
  BY <1>1, WrittenLine
<1>4. i \in DOMAIN log'
  BY <1>1, <1>3 DEF Text
<1> QED BY <1>2, <1>3, <1>4 DEF Logged

\* A request gives up for a cause; it may have written a line.
LEMMA GiveUpStep ==
    ASSUME AuditInv, NEW r \in Requests, pc[r] \in Locked,
           NEW a \in Answers, a.kind # "appended", Finish(r, a),
           NEW x \in Line \cup {Torn},
           \/ UNCHANGED <<log, ended>>
           \/ At(r, "writing") /\ log' = WithLine(log, x) /\ ended' \in BOOLEAN,
           UNCHANGED checkpoint, UNCHANGED view,
           damage \subseteq damage', damage' # {},
           damage' \subseteq {"crash", "disk", "torn", "lost", "race"}, mishaps' \in 0 .. MaxMishaps,
           CutsAreRefused'
    PROVE  AuditInv'
<1> USE Finished DEF AuditInv
<1>1. /\ log \in Text \cup {Missing} /\ ended \in BOOLEAN
      /\ ~ended => log \notin {Missing, <<>>}
  BY DEF TypeOK, Text
<1>2. /\ log' = Missing \/ log' \in Text
      /\ ended' \in BOOLEAN /\ (~ended' => log' \notin {Missing, <<>>})
  BY <1>1, WrittenLine
<1>3. TypeOK'
  BY <1>2 DEF TypeOK, Finish, Text
<1>4. \A q \in Requests, s \in {"comparing", "writing", "checkpointing"} :
          At(q, s)' <=> q # r /\ At(q, s)
  BY DEF Steps
<1>5. ViewsAreChained'
  BY <1>4 DEF ViewsAreChained, Chained
<1>6. ViewsAreCurrent' /\ HeadIsKnown' /\ AlarmsHaveACause'
  BY DEF ViewsAreCurrent, HeadIsKnown, AlarmsHaveACause
<1>7. LinesStay'
  <2> SUFFICES ASSUME "lost" \notin damage', ~({"race", "torn"} \subseteq damage')
               PROVE  \A q \in Requests :
                          At(q, "checkpointing")' \/ answer'[q].kind = "appended" => Logged(q)'
    BY DEF LinesStay
  <2>1. \A q \in Requests : Logged(q) => Logged(q)'
    <3>1. CASE UNCHANGED log
      BY <3>1 DEF Logged
    <3>2. CASE At(r, "writing") /\ log' = WithLine(log, x)
      BY <3>2, WritersFindTheEnd, LoggedStays
    <3> QED BY <3>1, <3>2
  <2> QED BY <1>4, <2>1 DEF LinesStay
<1>8. AnswersAreLast'
  BY FinishedAnswers
<1> QED BY <1>3, <1>5, <1>6, <1>7, <1>8

LEMMA ReadLogStep ==
    ASSUME AuditInv, NEW r \in Requests, ReadLog(r)
    PROVE  AuditInv'
<1> USE DEF ReadLog
<1>1. pc[r] \in Locked
  BY AtLocked
<1>2. damage = {} => \A q \in Requests : pc[q] \in Locked => q = r
  BY <1>1, OneAtATime
<1>3. \A s \in {"comparing", "writing", "checkpointing"} : ~At(r, s)
  BY DEF At
<1>4. damage = {} => \A q \in Requests, s \in {"comparing", "writing", "checkpointing"} : ~At(q, s)
  BY <1>2, <1>3, AtLocked
<1>5. CASE log = Missing
  <2>1. <<>> \in Seq(Line) /\ Chained(<<>>)
    BY DEF Chained
  <2>2. damage = {} => <<>> = LogLines /\ checkpoint = HeadOf(LogLines)
    BY <1>4, <1>5 DEF AuditInv, HeadIsKnown, LogLines
  <2> QED BY <1>1, <1>5, <2>1, <2>2, AcceptStep
<1>6. CASE log # Missing /\ ~Chained(log)
  <2>1. damage # {}
    BY <1>6 DEF AuditInv, HeadIsKnown, LogLines
  <2>2. Say("integrity", 0) \in Answers /\ Say("integrity", 0).kind # "appended"
    BY DEF Say, Answers
  <2>3. /\ Finish(r, Say("integrity", 0))
        /\ UNCHANGED <<log, ended, checkpoint, view, damage, mishaps>>
    BY <1>6 DEF files, history
  <2>4. /\ damage' \subseteq {"crash", "disk", "torn", "lost", "race"}
        /\ mishaps' \in 0 .. MaxMishaps
    BY <2>3 DEF AuditInv, TypeOK
  <2>5. \A q \in Requests, s \in {"comparing", "writing", "checkpointing"} :
            At(q, s)' <=> q # r /\ At(q, s)
    BY <1>1, <2>2, <2>3, Finished DEF Steps
  <2>6. CutsAreRefused'
    BY <1>1, <2>2, <2>3, <2>5, FinishedAnswers, CutsStay
  <2>7. PICK x : x \in Line \cup {Torn}
    OBVIOUS
  <2> QED BY <1>1, <2>1, <2>2, <2>3, <2>4, <2>6, <2>7, GiveUpStep
<1>7. CASE log # Missing /\ Chained(log)
  <2>1. /\ view' = [view EXCEPT ![r] = log] /\ Goto(r, "comparing")
        /\ UNCHANGED objects /\ UNCHANGED damage
        /\ UNCHANGED <<log, ended, checkpoint, service, mine, lock, damage, mishaps>>
    BY <1>7 DEF files, history, objects
  <2> USE <1>1, <2>1, Moved DEF AuditInv
  <2>2. log \in Seq(Line)
    BY <1>7, ChainedRecords DEF TypeOK, Text
  <2>3. view'[r] = log /\ \A q \in Requests : q # r => view'[q] = view[q]
    BY DEF TypeOK
  <2>4. TypeOK'
    BY <2>2 DEF TypeOK
  <2>5. \A q \in Requests, s \in {"comparing", "writing", "checkpointing"} :
            At(q, s)' <=> IF q = r THEN s = "comparing" ELSE At(q, s)
    BY DEF Steps
  <2>6. ViewsAreChained'
    BY <1>7, <2>3, <2>5 DEF ViewsAreChained, Chained
  <2>7. ViewsAreCurrent'
    BY <1>4, <1>7, <2>3, <2>5 DEF ViewsAreCurrent
  <2>8. HeadIsKnown'
    BY <1>4, <2>5 DEF HeadIsKnown, LogLines, HeadOf, Chained
  <2>9. LinesStay'
    BY <2>5 DEF LinesStay, Logged
  <2>10. AlarmsHaveACause' /\ AnswersAreLast'
    BY DEF AlarmsHaveACause, AnswersAreLast, Locked
  <2>11. CutsAreRefused'
    BY <1>7, <2>3, <2>5, CutsStay
  <2> QED BY <2>4, <2>6, <2>7, <2>8, <2>9, <2>10, <2>11
<1> QED BY <1>5, <1>6, <1>7

LEMMA CompareCheckpointStep ==
    ASSUME AuditInv, NEW r \in Requests, CompareCheckpoint(r)
    PROVE  AuditInv'
<1> USE DEF CompareCheckpoint
<1>1. pc[r] \in Locked
  BY AtLocked
<1>2. damage = {} => view[r] = LogLines /\ checkpoint = HeadOf(LogLines)
  <2> SUFFICES ASSUME damage = {}
               PROVE  view[r] = LogLines /\ checkpoint = HeadOf(LogLines)
    OBVIOUS
  <2>1. \A q \in Requests : ~At(q, "checkpointing")
    BY <1>1, OneAtATime, AtLocked DEF At
  <2> QED BY <2>1 DEF AuditInv, ViewsAreCurrent, HeadIsKnown, LogLines
<1>3. view[r] \in Seq(Line)
  BY DEF AuditInv, TypeOK
<1>4. CASE checkpoint = HeadOf(view[r])
  <2>1. Chained(view[r])
    BY DEF AuditInv, ViewsAreChained
  <2>2. view' = [view EXCEPT ![r] = view[r]]
    BY DEF AuditInv, TypeOK
  <2> QED BY <1>1, <1>2, <1>3, <1>4, <2>1, <2>2, AcceptStep
<1>5. CASE checkpoint # HeadOf(view[r])
  <2>1. damage # {}
    BY <1>2, <1>5
  <2>2. Say("integrity", 0) \in Answers /\ Say("integrity", 0).kind # "appended"
    BY DEF Say, Answers
  <2>3. /\ Finish(r, Say("integrity", 0))
        /\ UNCHANGED <<log, ended, checkpoint, view, damage, mishaps>>
    BY <1>5 DEF files, history
  <2>4. /\ damage' \subseteq {"crash", "disk", "torn", "lost", "race"}
        /\ mishaps' \in 0 .. MaxMishaps
    BY <2>3 DEF AuditInv, TypeOK
  <2>5. PICK x : x \in Line \cup {Torn}
    OBVIOUS
  <2>6. \A q \in Requests, s \in {"comparing", "writing", "checkpointing"} :
            At(q, s)' <=> q # r /\ At(q, s)
    BY <1>1, <2>2, <2>3, Finished DEF Steps
  <2>7. CutsAreRefused'
    BY <1>1, <2>2, <2>3, <2>6, FinishedAnswers, CutsStay
  <2> QED BY <1>1, <2>1, <2>2, <2>3, <2>4, <2>5, <2>7, GiveUpStep
<1> QED BY <1>4, <1>5

\* The line goes after the records the request has read.
LEMMA WriteLineStep ==
    ASSUME AuditInv, NEW r \in Requests, WriteLine(r)
    PROVE  AuditInv'
<1> DEFINE line == NextLine(r)
<1>1. /\ At(r, "writing") /\ pc[r] \in Locked
      /\ log' = WithLine(log, line) /\ ended'
      /\ Goto(r, "checkpointing") /\ UNCHANGED objects /\ UNCHANGED damage
      /\ UNCHANGED <<checkpoint, service, mine, lock, view, damage, mishaps>>
  BY AtLocked DEF WriteLine, objects, history
<1>2. line \in Line /\ line # Torn /\ line.hash = r
  BY NextLineType DEF AuditInv, TypeOK, NextLine
<1>3. /\ log \in Text \cup {Missing} /\ ended \in BOOLEAN
      /\ ~ended => log \notin {Missing, <<>>}
  BY DEF AuditInv, TypeOK, Text
<1>4. log' \in Text /\ log' # Missing
  BY <1>1, <1>2, <1>3, WrittenLine
<1>5. ended => Logged(r)'
  <2>1. CASE log = Missing
    <3>1. log' = <<line>>
      BY <1>1, <2>1 DEF WithLine
    <3> QED BY <1>2, <1>4, <3>1 DEF Logged
  <2>2. CASE ended /\ log # Missing
    <3>1. Len(log') = Len(log) + 1 /\ log'[Len(log) + 1] = line
      BY <1>1, <1>2, <1>3, <2>2, WrittenLine
    <3>2. Len(log) + 1 \in DOMAIN log'
      BY <1>3, <1>4, <2>2, <3>1 DEF Text
    <3> QED BY <1>2, <1>4, <3>1, <3>2 DEF Logged
  <2> QED BY <2>1, <2>2
<1>6. damage = {} => LogLines' = Append(view[r], line)
  <2> SUFFICES ASSUME damage = {} PROVE LogLines' = Append(view[r], line)
    OBVIOUS
  <2>1. view[r] = LogLines
    BY <1>1 DEF AuditInv, ViewsAreCurrent
  <2>2. Append(<<>>, line) = <<line>>
    OBVIOUS
  <2>3. WithLine(log, line) = Append(LogLines, line)
    BY <2>2 DEF WithLine, LogLines, AuditInv, CutsAreRefused
  <2> QED BY <1>1, <1>4, <2>1, <2>3 DEF LogLines
<1>7. damage = {} => \A q \in Requests : pc[q] \in Locked => q = r
  BY <1>1, OneAtATime
<1> HIDE DEF line
<1>8. \A q \in Requests, s \in {"comparing", "writing", "checkpointing"} :
          At(q, s)' <=> IF q = r THEN s = "checkpointing" ELSE At(q, s)
  BY <1>1, Moved DEF Steps
<1>9. damage = {} => \A q \in Requests, s \in {"comparing", "writing", "checkpointing"} :
          At(q, s)' => q = r /\ s = "checkpointing"
  BY <1>7, <1>8, AtLocked
<1>10. TypeOK'
  BY <1>1, <1>4, Moved DEF AuditInv, TypeOK, Text
<1>11. ViewsAreChained'
  BY <1>1, <1>8 DEF AuditInv, ViewsAreChained, Chained
<1>12. ViewsAreCurrent'
  BY <1>1, <1>9 DEF ViewsAreCurrent
<1>13. HeadIsKnown'
  <2> SUFFICES ASSUME damage = {} PROVE HeadIsKnown'
    BY <1>1 DEF HeadIsKnown
  <2>1. view[r] \in Seq(Line) /\ Chained(view[r])
    BY <1>1 DEF AuditInv, TypeOK, ViewsAreChained
  <2>2. Chained(LogLines')
    BY <1>6, <2>1, ChainGrows DEF line
  <2>3. Chained(LogLines)'
    BY <2>2 DEF Chained
  <2>4. checkpoint = HeadOf(view[r])
    <3>1. \A q \in Requests : ~At(q, "checkpointing")
      BY <1>1, <1>7, AtLocked DEF At
    <3> QED BY <1>1, <3>1 DEF AuditInv, ViewsAreCurrent, HeadIsKnown
  <2>5. At(r, "checkpointing")'
    BY <1>8
  <2>6. LogLines' = Append(view[r], NextLine(r))' /\ (checkpoint = HeadOf(view[r]))'
    BY <1>1, <1>6, <2>4 DEF line, NextLine, HeadOf
  <2> QED BY <1>9, <2>3, <2>5, <2>6 DEF HeadIsKnown
<1>14. LinesStay'
  <2> SUFFICES ASSUME "lost" \notin damage, ~({"race", "torn"} \subseteq damage)
               PROVE  \A q \in Requests :
                          At(q, "checkpointing")' \/ answer'[q].kind = "appended" => Logged(q)'
    BY <1>1 DEF LinesStay
  <2>1. ended
    BY <1>1, WritersFindTheEnd
  <2>2. \A q \in Requests : Logged(q) => Logged(q)'
    BY <1>1, <1>2, <2>1, LoggedStays DEF AuditInv
  <2>3. answer' = answer
    BY <1>1 DEF Goto
  <2> QED BY <1>1, <1>5, <1>8, <2>2, <2>3, <2>1 DEF AuditInv, LinesStay
<1>15. AlarmsHaveACause'
  BY <1>1 DEF AuditInv, AlarmsHaveACause, Goto
<1>16. UsersHaveObjects' /\ OneObject'
  BY <1>1, Moved
<1>17. AnswersAreLast'
  BY <1>1 DEF AuditInv, AnswersAreLast, Goto, TypeOK, Locked
<1>18. CutsAreRefused'
  BY <1>1 DEF AuditInv, CutsAreRefused, Goto
<1> QED BY <1>10, <1>11, <1>12, <1>13, <1>14, <1>15, <1>16, <1>17, <1>18
  DEF AuditInv

\* The checkpoint follows the line.
LEMMA WriteCheckpointStep ==
    ASSUME AuditInv, NEW r \in Requests, WriteCheckpoint(r)
    PROVE  AuditInv'
<1> DEFINE a == Say("appended", Len(view[r]) + 1)
<1>1. /\ At(r, "checkpointing") /\ pc[r] \in Locked
      /\ checkpoint' = HeadAfter(r) /\ Finish(r, a)
      /\ UNCHANGED <<log, ended, view, damage, mishaps>>
  BY AtLocked DEF WriteCheckpoint, history
<1>2. view[r] \in Seq(Line) /\ Len(view[r]) \in Nat
  BY DEF AuditInv, TypeOK
<1>3. a \in Answers /\ a.kind = "appended"
  BY <1>2 DEF Say, Answers
<1> HIDE DEF a
<1> USE <1>1, <1>3, Finished
<1>4. TypeOK'
  <2>1. HeadAfter(r) \in Checkpoint
    BY <1>2 DEF HeadAfter, Checkpoint
  <2> QED BY <2>1 DEF AuditInv, TypeOK, Finish
<1>5. \A q \in Requests, s \in {"comparing", "writing", "checkpointing"} :
          At(q, s)' <=> q # r /\ At(q, s)
  BY DEF Steps
<1>6. damage = {} => \A q \in Requests, s \in {"comparing", "writing", "checkpointing"} :
          ~At(q, s)'
  BY <1>5, OneAtATime, AtLocked
<1>7. ViewsAreChained'
  BY <1>5 DEF AuditInv, ViewsAreChained, Chained
<1>8. ViewsAreCurrent'
  BY <1>6 DEF ViewsAreCurrent
<1>9. HeadIsKnown'
  <2> SUFFICES ASSUME damage = {} PROVE HeadIsKnown'
    BY DEF HeadIsKnown
  <2>1. Chained(view[r])
    BY DEF AuditInv, ViewsAreChained
  <2>2. LogLines = Append(view[r], NextLine(r)) /\ Chained(LogLines)
    BY DEF AuditInv, HeadIsKnown
  <2>3. checkpoint' = HeadOf(LogLines)
    BY <1>2, <2>1, <2>2, ChainGrows
  <2> QED BY <1>6, <2>2, <2>3 DEF HeadIsKnown, LogLines, HeadOf, Chained
<1>10. LinesStay'
  BY <1>5 DEF AuditInv, LinesStay, Logged
<1>11. AlarmsHaveACause'
  BY DEF AuditInv, AlarmsHaveACause
<1>12. AnswersAreLast'
  BY FinishedAnswers
<1>13. CutsAreRefused'
  <2>1. checkpoint' # Missing => answer'[checkpoint'.last].kind = "appended"
    BY DEF HeadAfter
  <2>2. ~(~ended /\ "race" \notin damage /\ "lost" \notin damage)
    BY DEF AuditInv, CutsAreRefused
  <2> QED BY <2>1, <2>2 DEF AuditInv, CutsAreRefused
<1> QED BY <1>4, <1>7, <1>8, <1>9, <1>10, <1>11, <1>12, <1>13 DEF AuditInv

LEMMA MishapType ==
    ASSUME AuditInv, NEW kind \in SUBSET {"crash", "disk", "torn", "lost"}, Mishap(kind)
    PROVE  /\ UNCHANGED view
           /\ damage \subseteq damage' /\ kind \subseteq damage'
           /\ damage' \subseteq {"crash", "disk", "torn", "lost", "race"}
           /\ mishaps' \in 0 .. MaxMishaps
BY BoundAssumption DEF AuditInv, TypeOK, Mishap

LEMMA ReadFailsStep ==
    ASSUME AuditInv, NEW r \in Requests, ReadFails(r)
    PROVE  AuditInv'
<1> DEFINE a == Say("integrity", 0)
<1>1. pc[r] \in Locked
  BY AtLocked DEF ReadFails
<1>2. a \in Answers /\ a.kind # "appended"
  BY DEF Say, Answers
<1>3. Finish(r, a) /\ Mishap({"disk"}) /\ UNCHANGED <<log, ended, checkpoint>>
  BY DEF ReadFails, files
<1>4. /\ UNCHANGED view /\ damage \subseteq damage' /\ damage' # {}
      /\ damage' \subseteq {"crash", "disk", "torn", "lost", "race"} /\ mishaps' \in 0 .. MaxMishaps
  BY <1>3, MishapType
<1> HIDE DEF a
<1>5. \A q \in Requests, s \in {"comparing", "writing", "checkpointing"} :
          At(q, s)' <=> q # r /\ At(q, s)
  BY <1>1, <1>2, <1>3, <1>4, Finished DEF Steps
<1>6. CutsAreRefused'
  BY <1>1, <1>2, <1>3, <1>4, <1>5, FinishedAnswers, CutsStay
<1>7. PICK x : x \in Line \cup {Torn}
  OBVIOUS
<1> QED BY <1>1, <1>2, <1>3, <1>4, <1>6, <1>7, GiveUpStep

LEMMA WriteFailsStep ==
    ASSUME AuditInv, NEW r \in Requests, WriteFails(r)
    PROVE  AuditInv'
<1> DEFINE a == Say("error", 0)
<1>1. pc[r] \in Locked
  BY AtLocked DEF WriteFails, CutShort
<1>2. a \in Answers /\ a.kind # "appended"
  BY DEF Say, Answers
<1>3. Finish(r, a) /\ Mishap({"disk"} \cup TornIf(~ended')) /\ UNCHANGED checkpoint
  BY DEF WriteFails
<1>4. /\ UNCHANGED view /\ damage \subseteq damage' /\ damage' # {}
      /\ ~ended' => "torn" \in damage'
      /\ damage' \subseteq {"crash", "disk", "torn", "lost", "race"} /\ mishaps' \in 0 .. MaxMishaps
  <2>1. {"disk"} \cup TornIf(~ended') \in SUBSET {"crash", "disk", "torn", "lost"}
    BY DEF TornIf
  <2>2. {"disk"} \cup TornIf(~ended') \subseteq damage'
    BY <1>3, <2>1, MishapType
  <2>3. ~ended' => "torn" \in damage'
    BY <2>2 DEF TornIf
  <2> QED BY <1>3, <2>1, <2>2, <2>3, MishapType
<1> HIDE DEF a
<1>5. /\ \A q \in Requests, s \in {"comparing", "writing", "checkpointing"} :
            At(q, s)' <=> q # r /\ At(q, s)
      /\ \A q \in Requests : answer'[q].kind = "appended" <=> answer[q].kind = "appended"
  BY <1>1, <1>2, <1>3, <1>4, Finished, FinishedAnswers DEF Steps
<1>6. NextLine(r) \in Line \cup {Torn} /\ Torn \in Line \cup {Torn}
  BY NextLineType DEF AuditInv, TypeOK
<1>7. CASE UNCHANGED <<log, ended>>
  <2>1. CutsAreRefused'
    BY <1>3, <1>4, <1>5, <1>7, CutsStay
  <2> QED BY <1>1, <1>2, <1>3, <1>4, <1>6, <1>7, <2>1, GiveUpStep
<1>8. CASE CutShort(r)
  <2>1. "race" \notin damage =>
            \A q \in Requests, s \in {"comparing", "writing", "checkpointing"} : ~At(q, s)'
    BY <1>1, <1>5, OneAtATime, AtLocked
  <2>2. CutsAreRefused'
    BY <1>3, <1>4, <1>5, <1>8, <2>1, CutShortStep DEF CutShort
  <2>3. PICK x \in Line \cup {Torn} : log' = WithLine(log, x)
    BY <1>6, <1>8 DEF CutShort
  <2>4. At(r, "writing") /\ ended' \in BOOLEAN
    BY <1>8 DEF CutShort
  <2> QED BY <1>1, <1>2, <1>3, <1>4, <2>2, <2>3, <2>4, GiveUpStep
<1>9. CASE At(r, "writing") /\ log' = WithLine(log, NextLine(r)) /\ ended' = TRUE
  <2>1. CutsAreRefused'
    <3>1. checkpoint # Missing => checkpoint.last \in Requests
      BY DEF AuditInv, TypeOK, Checkpoint
    <3> QED BY <1>3, <1>5, <1>9, <3>1 DEF AuditInv, CutsAreRefused
  <2> QED BY <1>1, <1>2, <1>3, <1>4, <1>6, <1>9, <2>1, GiveUpStep
<1> QED BY <1>7, <1>8, <1>9 DEF WriteFails

\* A crash leaves nobody at work, and the two files as they are unless it cuts
\* an append short.
LEMMA CrashStep ==
    ASSUME AuditInv, Crash
    PROVE  AuditInv'
<1> DEFINE kind == (IF \E r \in Requests : At(r, "writing") \/ At(r, "checkpointing")
                      THEN {"crash"} ELSE {}) \cup TornIf(~ended')
<1>1. /\ UNCHANGED view
      /\ damage \subseteq damage' /\ damage' \subseteq {"crash", "disk", "torn", "lost", "race"}
      /\ mishaps' \in 0 .. MaxMishaps
      /\ (\E r \in Requests : At(r, "writing") \/ At(r, "checkpointing")) => damage' # {}
      /\ ~ended' => "torn" \in damage'
  <2>1. kind \in SUBSET {"crash", "disk", "torn", "lost"} /\ Mishap(kind)
    BY DEF TornIf, Crash
  <2>2. kind \subseteq damage'
    BY <2>1, MishapType
  <2>3. (\E r \in Requests : At(r, "writing") \/ At(r, "checkpointing")) => "crash" \in damage'
    BY <2>2
  <2>4. ~ended' => "torn" \in damage'
    BY <2>2 DEF TornIf
  <2> HIDE DEF kind
  <2> QED BY <2>1, <2>3, <2>4, MishapType
<1>2. UNCHANGED <<checkpoint, mine, answer>>
  BY DEF Crash
<1>3. \A r \in Requests : pc'[r] \in Resting
  BY DEF AuditInv, TypeOK, Crash, Resting
<1>4. \A r \in Requests : pc'[r] \notin Locked /\ \A s \in Steps : ~At(r, s)'
  BY <1>3 DEF Resting, Locked, At, Operations
<1>5. AnswersAreLast'
  BY <1>2 DEF AuditInv, AnswersAreLast, TypeOK, Crash, Running, Locked, Operations
<1>6. UsersHaveObjects' /\ ViewsAreChained' /\ OneObject' /\ ViewsAreCurrent'
  BY <1>4 DEF UsersHaveObjects, ViewsAreChained, OneObject, ViewsAreCurrent, Steps
<1>7. AlarmsHaveACause'
  BY <1>1, <1>2 DEF AuditInv, AlarmsHaveACause
<1>8. /\ log \in Text \cup {Missing} /\ ended \in BOOLEAN
      /\ ~ended => log \notin {Missing, <<>>}
  BY DEF AuditInv, TypeOK, Text
<1>9. ASSUME /\ log' = Missing \/ log' \in Text
             /\ ended' \in BOOLEAN /\ (~ended' => log' \notin {Missing, <<>>})
      PROVE  TypeOK'
  <2>1. pc' \in [Requests -> Running \cup Resting]
    BY <1>3 DEF Crash
  <2>2. /\ lock' \in [Requests -> Requests \cup {None}] /\ service' = None
    BY DEF Crash
  <2> QED BY <1>1, <1>2, <1>4, <1>9, <2>1, <2>2 DEF AuditInv, TypeOK, Text
<1>10. CASE UNCHANGED <<log, ended>>
  <2>1. TypeOK'
    BY <1>8, <1>9, <1>10
  <2>2. HeadIsKnown'
    <3> SUFFICES ASSUME damage' = {} PROVE HeadIsKnown'
      BY DEF HeadIsKnown
    <3>1. /\ damage = {} /\ LogLines' = LogLines /\ checkpoint' = checkpoint
          /\ \A r \in Requests : ~At(r, "checkpointing")
      BY <1>1, <1>2, <1>10 DEF LogLines
    <3>2. Chained(LogLines) /\ checkpoint = HeadOf(LogLines)
      BY <3>1 DEF AuditInv, HeadIsKnown
    <3> QED BY <1>4, <3>1, <3>2 DEF HeadIsKnown, HeadOf, Chained, Steps
  <2>3. LinesStay'
    BY <1>1, <1>2, <1>4, <1>10 DEF AuditInv, LinesStay, Logged, Steps
  <2>4. CutsAreRefused'
    BY <1>1, <1>2, <1>4, <1>10, CutsStay DEF Steps
  <2> QED BY <1>5, <1>6, <1>7, <2>1, <2>2, <2>3, <2>4 DEF AuditInv
<1>11. ASSUME NEW r \in Requests, CutShort(r)
       PROVE  AuditInv'
  <2>1. At(r, "writing") /\ ended' = FALSE /\ "torn" \in damage'
    BY <1>1, <1>11 DEF CutShort
  <2>2. NextLine(r) \in Line
    BY NextLineType DEF AuditInv, TypeOK
  <2>3. PICK x \in Line \cup {Torn} : log' = WithLine(log, x)
    BY <1>11, <2>2 DEF CutShort
  <2>4. TypeOK'
    BY <1>8, <1>9, <2>1, <2>3, WrittenLine
  <2>5. HeadIsKnown'
    BY <2>1 DEF HeadIsKnown
  <2>6. LinesStay'
    <3> SUFFICES ASSUME "lost" \notin damage', ~({"race", "torn"} \subseteq damage')
                 PROVE  \A q \in Requests :
                            At(q, "checkpointing")' \/ answer'[q].kind = "appended" => Logged(q)'
      BY DEF LinesStay
    <3>1. "lost" \notin damage /\ ~({"race", "torn"} \subseteq damage)
      BY <1>1
    <3>2. ended
      BY <2>1, <3>1, WritersFindTheEnd
    <3>3. \A q \in Requests : Logged(q) => Logged(q)'
      BY <2>3, <3>2, LoggedStays DEF AuditInv
    <3> QED BY <1>2, <1>4, <3>1, <3>3 DEF AuditInv, LinesStay, Steps
  <2>7. CutsAreRefused'
    BY <1>1, <1>2, <1>4, <1>11, <2>1, CutShortStep DEF Steps
  <2> QED BY <1>5, <1>6, <1>7, <2>4, <2>5, <2>6, <2>7 DEF AuditInv
<1> QED BY <1>10, <1>11 DEF Crash

LEMMA LoseFileStep ==
    ASSUME AuditInv, LoseFile
    PROVE  AuditInv'
<1>1. /\ UNCHANGED view /\ "lost" \in damage'
      /\ damage \subseteq damage' /\ damage' \subseteq {"crash", "disk", "torn", "lost", "race"}
      /\ mishaps' \in 0 .. MaxMishaps
  BY MishapType DEF LoseFile
<1>2. UNCHANGED <<service, mine, lock, pc, answer>>
  BY DEF LoseFile, objects
<1>3. /\ log' \in Text \cup {Missing} /\ checkpoint' \in {checkpoint, Missing}
      /\ ended' \in BOOLEAN /\ (~ended' => ~ended /\ log' \notin {Missing, <<>>})
  <2>1. <<>> \in Text
    BY DEF Text
  <2>2. log \in Text \cup {Missing} /\ ended \in BOOLEAN /\ (~ended => log \notin {Missing, <<>>})
    BY DEF AuditInv, TypeOK, Text
  <2> QED BY <2>1, <2>2 DEF LoseFile
<1>4. TypeOK'
  BY <1>1, <1>2, <1>3 DEF AuditInv, TypeOK, Text
<1>5. UsersHaveObjects' /\ ViewsAreChained' /\ OneObject' /\ AnswersAreLast'
  BY <1>1, <1>2 DEF AuditInv, UsersHaveObjects, ViewsAreChained, OneObject, AnswersAreLast, At,
     Chained
<1>6. ViewsAreCurrent' /\ HeadIsKnown' /\ LinesStay' /\ AlarmsHaveACause'
  BY <1>1 DEF ViewsAreCurrent, HeadIsKnown, LinesStay, AlarmsHaveACause
<1>7. CutsAreRefused'
  BY <1>1, <1>2, <1>3 DEF AuditInv, CutsAreRefused
<1> QED BY <1>4, <1>5, <1>6, <1>7 DEF AuditInv

LEMMA StutterStep ==
    ASSUME AuditInv, UNCHANGED vars
    PROVE  AuditInv'
<1> USE DEF AuditInv, vars
<1>1. TypeOK'
  BY DEF TypeOK
<1>2. UsersHaveObjects' /\ ViewsAreChained' /\ OneObject' /\ ViewsAreCurrent'
  BY DEF UsersHaveObjects, ViewsAreChained, OneObject, ViewsAreCurrent, At, Chained, LogLines
<1>3. HeadIsKnown'
  BY DEF HeadIsKnown, At, LogLines, HeadOf, Chained, NextLine
<1>4. LinesStay' /\ AlarmsHaveACause' /\ AnswersAreLast'
  BY DEF LinesStay, AlarmsHaveACause, AnswersAreLast, At, Logged
<1>5. CutsAreRefused'
  BY CutsStay DEF At
<1> QED BY <1>1, <1>2, <1>3, <1>4, <1>5
-----------------------------------------------------------------------------
(* The theorems.                                                           *)

\* The inductive invariant holds in every reachable state.
THEOREM Inductive == Spec => []AuditInv
<1>1. AuditInv /\ [Next]_vars => AuditInv'
  <2> SUFFICES ASSUME AuditInv, [Next]_vars PROVE AuditInv'
    OBVIOUS
  <2>1. CASE UNCHANGED vars
    BY <2>1, StutterStep
  <2>2. CASE Crash
    BY <2>2, CrashStep
  <2>3. CASE LoseFile
    BY <2>3, LoseFileStep
  <2>4. ASSUME NEW r \in Requests, NEW op \in Operations,
               UseService(r, op) \/ MissService(r, op)
        PROVE  AuditInv'
    BY <2>4, UseServiceStep, MissServiceStep
  <2>5. ASSUME NEW r \in Requests, ThreadStep(r)
        PROVE  AuditInv'
    BY <2>5, ConstructStep, AcquireStep, ReadLogStep, CompareCheckpointStep,
       WriteLineStep, WriteCheckpointStep DEF ThreadStep
  <2>6. ASSUME NEW r \in Requests, ReadFails(r) \/ WriteFails(r)
        PROVE  AuditInv'
    BY <2>6, ReadFailsStep, WriteFailsStep
  <2> QED BY <2>1, <2>2, <2>3, <2>4, <2>5, <2>6 DEF Next
<1> QED BY <1>1, InitStep, PTL DEF Spec

\* The log, the checkpoint, the objects and the requests keep their types, and
\* whoever is in a locked step holds the lock of the object it uses.
THEOREM TypeCorrect == Spec => []TypeOK
BY Inductive, PTL DEF AuditInv

\* As long as nothing has happened to the files and no second object has come to
\* be, they agree but for the one append between its two writes: the lock of
\* EvidenceAuditLog, the order of append's writes and the service factory.
THEOREM FilesAgreeAlways == Spec => []FilesAgree
<1>1. AuditInv => FilesAgree
  <2> SUFFICES ASSUME AuditInv, damage = {}
               PROVE  /\ Chained(LogLines)
                      /\ IF {r \in Requests : At(r, "checkpointing")} = {}
                           THEN checkpoint = HeadOf(LogLines)
                           ELSE \E r \in {s \in Requests : At(s, "checkpointing")} :
                                  /\ {s \in Requests : At(s, "checkpointing")} = {r}
                                  /\ LogLines = Append(view[r], NextLine(r))
                                  /\ checkpoint = HeadOf(view[r])
    BY DEF FilesAgree, LogLines
  <2>1. \A r, s \in Requests : At(r, "checkpointing") /\ At(s, "checkpointing") => r = s
    BY OneAtATime, AtLocked
  <2> QED BY <2>1 DEF AuditInv, HeadIsKnown
<1> QED BY <1>1, Inductive, PTL

\* No interleaving of appends and verifications, and no crash that cuts no append
\* short, makes the log raise AuditIntegrityError.
THEOREM NoFalseAlarm == Spec => []AlarmsHaveACause
BY Inductive, PTL DEF AuditInv

\* A reported append has its line in the log, through failed, cut short, interrupted
\* and racing appends, until a file is lost or a torn line meets a second object.
THEOREM ReportedIsLogged == Spec => []AppendedIsLogged
<1>1. AuditInv => AppendedIsLogged
  BY DEF AuditInv, LinesStay, AppendedIsLogged, Logged
<1> QED BY <1>1, Inductive, PTL
-----------------------------------------------------------------------------
(* The safety part of EveryRequestEnds.                                    *)

\* The lock of an object is held by a request at work under it.
NoLockIsLeft ==
    \A object \in Requests : lock[object] # None =>
        /\ lock[object] \in Requests
        /\ pc[lock[object]] \in Locked
        /\ mine[lock[object]] = object

\* How far a request has come.
Progress(r) ==
    CASE At(r, "constructing")  -> 1
      [] At(r, "acquiring")     -> 2
      [] At(r, "reading")       -> 3
      [] At(r, "comparing")     -> 4
      [] At(r, "writing")       -> 5
      [] At(r, "checkpointing") -> 6
      [] OTHER                  -> 7
EveryStepAdvances ==
    [][\A r \in Requests : ThreadStep(r) => Progress(r)' > Progress(r)]_vars

\* A failure, a crash and the end of a request give the lock back: whoever waits,
\* waits for a request that is at work.
THEOREM LockIsReturned == Spec => []NoLockIsLeft
<1>1. Init => NoLockIsLeft
  BY DEF Init, NoLockIsLeft
<1>2. ASSUME AuditInv, AuditInv', NoLockIsLeft, [Next]_vars PROVE NoLockIsLeft'
  <2>1. ASSUME NEW r \in Requests, UNCHANGED <<lock, mine>>,
               pc' = [pc EXCEPT ![r] = pc'[r]], pc[r] \in Locked => pc'[r] \in Locked
        PROVE  NoLockIsLeft'
    BY <1>2, <2>1 DEF NoLockIsLeft, AuditInv, TypeOK
  <2>2. ASSUME NEW r \in Requests, NEW a, pc[r] \in Locked, Finish(r, a)
        PROVE  NoLockIsLeft'
    BY <1>2, <2>2 DEF NoLockIsLeft, AuditInv, TypeOK, Finish, Released
  <2>3. CASE UNCHANGED vars
    BY <1>2, <2>3 DEF vars, objects, NoLockIsLeft
  <2>4. CASE Crash \/ LoseFile
    BY <1>2, <2>4 DEF Crash, LoseFile, objects, NoLockIsLeft
  <2>5. ASSUME NEW r \in Requests, NEW op \in Operations,
               UseService(r, op) \/ MissService(r, op)
        PROVE  NoLockIsLeft'
    <3>1. /\ pc[r] \notin Locked /\ UNCHANGED lock
          /\ \A q \in Requests : q # r => pc'[q] = pc[q] /\ mine'[q] = mine[q]
      BY <1>2, <2>5 DEF UseService, MissService, objects, AuditInv, TypeOK, Locked, Operations
    <3> QED BY <1>2, <3>1 DEF NoLockIsLeft
  <2>6. ASSUME NEW r \in Requests, Construct(r) PROVE NoLockIsLeft'
    BY <1>2, <2>6 DEF Construct, Goto, At, NoLockIsLeft, AuditInv, TypeOK, Locked, Operations
  <2>7. ASSUME NEW r \in Requests, Acquire(r) PROVE NoLockIsLeft'
    <3>1. pc'[r] \in Locked /\ mine[r] \in Requests
      BY <1>2, <2>7 DEF Acquire, Goto, At, AuditInv, TypeOK, UsersHaveObjects, Locked,
         Operations
    <3> QED BY <1>2, <2>7, <3>1 DEF Acquire, LockFree, Goto, NoLockIsLeft, AuditInv, TypeOK
  <2>8. ASSUME NEW r \in Requests,
               \/ ReadLog(r) \/ CompareCheckpoint(r) \/ WriteLine(r) \/ WriteCheckpoint(r)
               \/ ReadFails(r) \/ WriteFails(r)
        PROVE  NoLockIsLeft'
    <3>1. pc[r] \in Locked
      BY <2>8, AtLocked DEF ReadLog, CompareCheckpoint, WriteLine, WriteCheckpoint,
         ReadFails, WriteFails, CutShort
    <3>2. \/ \E a : Finish(r, a)
          \/ UNCHANGED objects /\ \E step : Goto(r, step) /\ <<pc[r][1], step>> \in Locked
      BY <2>8, <3>1 DEF ReadLog, CompareCheckpoint, WriteLine, WriteCheckpoint, ReadFails,
         WriteFails, Accept, Locked, Operations
    <3>3. CASE \E a : Finish(r, a)
      BY <2>2, <3>1, <3>3
    <3>4. CASE UNCHANGED objects /\ \E step : Goto(r, step) /\ <<pc[r][1], step>> \in Locked
      <4>1. pc'[r] \in Locked /\ pc' = [pc EXCEPT ![r] = pc'[r]]
        BY <1>2, <3>4 DEF Goto, AuditInv, TypeOK
      <4> QED BY <2>1, <3>4, <4>1 DEF objects
    <3> QED BY <3>2, <3>3, <3>4
  <2> QED BY <1>2, <2>3, <2>4, <2>5, <2>6, <2>7, <2>8 DEF Next, ThreadStep
<1> QED BY <1>1, <1>2, Inductive, PTL DEF Spec

\* Every step of a thread brings its request further, so that it takes six at
\* most: what is left of EveryRequestEnds is fairness.
THEOREM StepsAdvance == Spec => EveryStepAdvances
<1>1. ASSUME AuditInv, NEW r \in Requests, ThreadStep(r)
      PROVE  Progress(r)' > Progress(r)
  <2>1. pc \in [Requests -> Running \cup Resting]
    BY <1>1 DEF AuditInv, TypeOK
  <2>2. ASSUME NEW step, Goto(r, step), pc[r] \in Running
        PROVE  pc'[r] \in Operations \X {step}
    BY <2>1, <2>2 DEF Goto, Running, Locked
  <2>3. ASSUME NEW a, Finish(r, a)
        PROVE  pc'[r] = <<"done", "done">>
    BY <2>1, <2>3 DEF Finish
  <2>4. CASE Construct(r)
    BY <2>2, <2>4 DEF Construct, At, Progress, Running, Operations
  <2>5. CASE Acquire(r)
    BY <2>2, <2>5 DEF Acquire, At, Progress, Running, Locked, Operations
  <2>6. CASE ReadLog(r)
    <3>1. At(r, "reading") /\ pc[r] \in Running
      BY <2>6 DEF ReadLog, At, Running, Locked
    <3>2. \/ At(r, "comparing")' \/ At(r, "writing")' \/ pc'[r] = <<"done", "done">>
      BY <2>2, <2>3, <2>6, <3>1 DEF ReadLog, Accept, At
    <3> QED BY <3>1, <3>2 DEF At, Progress, Operations
  <2>7. CASE CompareCheckpoint(r)
    <3>1. At(r, "comparing") /\ pc[r] \in Running
      BY <2>7 DEF CompareCheckpoint, At, Running, Locked
    <3>2. At(r, "writing")' \/ pc'[r] = <<"done", "done">>
      BY <2>2, <2>3, <2>7, <3>1 DEF CompareCheckpoint, Accept, At
    <3> QED BY <3>1, <3>2 DEF At, Progress, Operations
  <2>8. CASE WriteLine(r)
    BY <2>2, <2>8 DEF WriteLine, At, Progress, Running, Locked, Operations
  <2>9. CASE WriteCheckpoint(r)
    BY <2>3, <2>9 DEF WriteCheckpoint, At, Progress, Operations
  <2> QED BY <1>1, <2>4, <2>5, <2>6, <2>7, <2>8, <2>9 DEF ThreadStep
<1>2. AuditInv /\ [Next]_vars => [\A r \in Requests : ThreadStep(r) => Progress(r)' > Progress(r)]_vars
  BY <1>1
<1> QED BY <1>2, Inductive, PTL DEF Spec, EveryStepAdvances
=============================================================================

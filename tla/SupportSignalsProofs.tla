------------------------- MODULE SupportSignalsProofs -------------------------
(***************************************************************************)
(* Theorems about SupportText and SupportSignals, for every set of reports,*)
(* versions, tables and answers, any number of events a model is given and *)
(* any number of mishaps.                                                  *)
(***************************************************************************)
EXTENDS SupportSignals, FiniteSetTheorems, SequenceTheorems, TLAPS

\* The steps between which a report has a row of its own under way.
Working == {"extracting", "opening", "writing", "renaming"}

\* The signals of a fallback are those of the text, and the provider is the one
\* they come from.
Honest(m) ==
    /\ m.origin = "rules" => m.signals = Extracted(m.input)
    /\ m.provider = "deterministic_fallback" <=> m.origin = "rules"

\* What a row says of the signals in it.
Tells(m, provider, fallback_used) ==
    /\ provider = "deterministic_fallback" <=> m.origin = "rules"
    /\ fallback_used <=> m.origin = "rules"

\* A delivery is about the text of a report's row, in the mode of its origin.
Fits(r, d) ==
    /\ d \in Delivery
    /\ d.generation.input = Input(r)
    /\ Honest(d.generation)
    /\ d.mode = "DETERMINISTIC_FALLBACK" <=> d.generation.origin = "rules"

\* A report works on a row that is missing, with a text that is new to it.
WorkIsNew ==
    \A r \in Reports :
        pc[r] \in Working => Len(rows[r]) < Len(tables.scoring) /\ Prior(r) = {}

\* What a report is about to cache and to deliver is about the text of its row.
MadeFits ==
    \A r \in Reports :
        pc[r] \in {"opening", "writing", "renaming"} => Fits(r, made[r])

\* A handle is on a file that is there.
HandlesLead ==
    \A r \in Reports :
        /\ handle[r] = "temp" => temp[KeyOf(r)] # None
        /\ handle[r] = "file" => file[KeyOf(r)] # None

\* What is being written was offered.
PutsAreOffered ==
    \A r \in Reports :
        pc[r] \in {"writing", "renaming"} => [key |-> KeyOf(r), value |-> Generation(r)] \in offered

IsOffered(k, c) == c # None /\ c.entry # None => [key |-> k, value |-> c.entry] \in offered

\* What a file begins with was offered under its key.
FilesAreOffered == \A k \in Keys : IsOffered(k, temp[k]) /\ IsOffered(k, file[k])

OfferedIsHonest == \A o \in offered : Honest(o.value)

\* A row is about its payment, with the text of that payment.
RowsFit ==
    \A r \in Reports : \A i \in DOMAIN rows[r] :
        /\ rows[r][i].payment = tables.scoring[i].payment
        /\ rows[r][i].made.input = Compilations[tables][i].payload
        /\ Honest(rows[r][i].made)
        /\ Tells(rows[r][i].made, rows[r][i].provider, rows[r][i].fallback_used)

SignalInv ==
    /\ TypeOK
    /\ WorkIsNew
    /\ MadeFits
    /\ HandlesLead
    /\ PutsAreOffered
    /\ FilesAreOffered
    /\ OfferedIsHonest
    /\ RowsFit
    /\ OneTextOneAnswer
-----------------------------------------------------------------------------
(* The text of a payment.                                                  *)

\* Events of the tables: finitely many, ordered by time and then by their ids.
AreEvents(S) ==
    /\ IsFiniteSet(S)
    /\ \A e \in S : e.at \in Nat /\ e.id \in Nat
    /\ \A d, e \in S : d.id = e.id => d = e

\* Earlier orders events totally.
LEMMA EarlierOrders ==
    ASSUME NEW S, AreEvents(S)
    PROVE  /\ \A e \in S : ~ Earlier(e, e)
           /\ \A c, d, e \in S : Earlier(c, d) /\ Earlier(d, e) => Earlier(c, e)
           /\ \A d, e \in S : d # e => Earlier(d, e) \/ Earlier(e, d)
BY DEF AreEvents, Earlier

\* Ranked by how many events are earlier, events can be put in order.
LEMMA OrderExists ==
    ASSUME NEW S, AreEvents(S)
    PROVE  \E s \in [1 .. Cardinality(S) -> S] :
              \A i, j \in 1 .. Cardinality(S) : i < j => Earlier(s[i], s[j])
<1> DEFINE n == Cardinality(S)
           Before(e) == {d \in S : Earlier(d, e)}
           rank == [e \in S |-> Cardinality(Before(e)) + 1]
<1>1. IsFiniteSet(S) /\ n \in Nat
  BY FS_CardinalityType DEF AreEvents
<1>2. \A e \in S : IsFiniteSet(Before(e)) /\ Cardinality(Before(e)) \in Nat
  <2> SUFFICES ASSUME NEW e \in S
               PROVE  IsFiniteSet(Before(e)) /\ Cardinality(Before(e)) \in Nat
    OBVIOUS
  <2>1. Before(e) \in SUBSET S
    OBVIOUS
  <2> QED BY <1>1, <2>1, FS_Subset, FS_CardinalityType
<1>3. \A T \in SUBSET S : \A U \in SUBSET T : U # T => Cardinality(U) < Cardinality(T)
  <2> SUFFICES ASSUME NEW T \in SUBSET S, NEW U \in SUBSET T, U # T
               PROVE  Cardinality(U) < Cardinality(T)
    OBVIOUS
  <2>1. IsFiniteSet(T) /\ Cardinality(T) \in Nat
    BY <1>1, FS_Subset, FS_CardinalityType
  <2>2. IsFiniteSet(U) /\ Cardinality(U) <= Cardinality(T) /\ Cardinality(T) # Cardinality(U)
    BY <2>1, FS_Subset
  <2>3. Cardinality(U) \in Nat
    BY <2>2, FS_CardinalityType
  <2> QED BY <2>1, <2>2, <2>3
<1>4. \A d, e \in S : Earlier(d, e) => Cardinality(Before(d)) < Cardinality(Before(e))
  <2> SUFFICES ASSUME NEW d \in S, NEW e \in S, Earlier(d, e)
               PROVE  Cardinality(Before(d)) < Cardinality(Before(e))
    OBVIOUS
  <2>1. Before(d) \in SUBSET Before(e) /\ d \in Before(e) /\ d \notin Before(d)
    BY EarlierOrders
  <2> QED BY <1>3, <2>1
<1>5. \A e \in S : Cardinality(Before(e)) < n
  <2> SUFFICES ASSUME NEW e \in S PROVE Cardinality(Before(e)) < n
    OBVIOUS
  <2>1. Before(e) \in SUBSET S /\ e \notin Before(e)
    BY EarlierOrders
  <2> QED BY <1>3, <2>1
<1> HIDE DEF Before
<1>6. \A e \in S : rank[e] \in 1 .. n
  BY <1>1, <1>2, <1>5
<1>7. \A d, e \in S : Earlier(d, e) => rank[d] < rank[e]
  BY <1>2, <1>4
<1>8. rank \in [S -> 1 .. n]
  BY <1>6
<1> HIDE DEF rank
<1>9. \A d, e \in S : rank[d] = rank[e] => d = e
  BY <1>7, <1>8, EarlierOrders
<1>10. rank \in Injection(S, 1 .. n)
  BY <1>8, <1>9 DEF Injection, IsInjective
<1>11. IsFiniteSet(1 .. n) /\ Cardinality(1 .. n) = n
  BY <1>1, FS_Interval
<1>12. \A i \in 1 .. n : \E e \in S : rank[e] = i
  <2>1. rank \in Surjection(S, 1 .. n)
    BY <1>10, <1>11, FS_Injection
  <2> QED BY <2>1 DEF Surjection
<1> DEFINE s == [i \in 1 .. n |-> CHOOSE e \in S : rank[e] = i]
<1>13. \A i \in 1 .. n : s[i] \in S /\ rank[s[i]] = i
  BY <1>12
<1>14. s \in [1 .. n -> S]
  BY <1>13
<1> HIDE DEF s
<1>15. \A i, j \in 1 .. n : i < j => Earlier(s[i], s[j])
  <2> SUFFICES ASSUME NEW i \in 1 .. n, NEW j \in 1 .. n, i < j PROVE Earlier(s[i], s[j])
    OBVIOUS
  <2>1. s[i] # s[j]
    BY <1>13
  <2>2. ~ Earlier(s[j], s[i])
    BY <1>13, <1>7
  <2> QED BY <1>13, <2>1, <2>2, EarlierOrders
<1> QED BY <1>14, <1>15

\* The events in order are all of them, each once, the earlier ones first.
LEMMA InOrderSorts ==
    ASSUME NEW S, AreEvents(S)
    PROVE  LET n == Cardinality(S)
               s == InOrder(S)
           IN  /\ n \in Nat
               /\ s \in [1 .. n -> S]
               /\ \A i, j \in 1 .. n : i < j => Earlier(s[i], s[j])
               /\ \A i, j \in 1 .. n : s[i] = s[j] => i = j
               /\ \A e \in S : \E i \in 1 .. n : s[i] = e
<1> DEFINE n == Cardinality(S)
           s == InOrder(S)
<1>1. IsFiniteSet(S) /\ n \in Nat
  BY FS_CardinalityType DEF AreEvents
<1>2. s \in [1 .. n -> S] /\ \A i, j \in 1 .. n : i < j => Earlier(s[i], s[j])
  <2>1. \E t \in [1 .. n -> S] : \A i, j \in DOMAIN t : i < j => Earlier(t[i], t[j])
    BY OrderExists
  <2>2. s \in [1 .. n -> S] /\ \A i, j \in DOMAIN s : i < j => Earlier(s[i], s[j])
    BY <2>1 DEF InOrder
  <2> QED BY <2>2
<1> HIDE DEF s
<1>3. \A i, j \in 1 .. n : s[i] = s[j] => i = j
  <2> SUFFICES ASSUME NEW i \in 1 .. n, NEW j \in 1 .. n, i < j PROVE s[i] # s[j]
    BY <1>1
  <2> QED BY <1>2, EarlierOrders
<1>4. \A e \in S : \E i \in 1 .. n : s[i] = e
  <2>1. IsFiniteSet(1 .. n) /\ Cardinality(1 .. n) = n
    BY <1>1, FS_Interval
  <2>2. s \in Injection(1 .. n, S)
    BY <1>2, <1>3 DEF Injection, IsInjective
  <2>3. s \in Surjection(1 .. n, S)
    BY <1>1, <2>1, <2>2, FS_Injection
  <2> QED BY <2>3 DEF Surjection
<1> QED BY <1>1, <1>2, <1>3, <1>4 DEF s

\* Fewer than MaxEvents events are newer than one of the last ones.
LEMMA LastAreNewest ==
    ASSUME NEW S, AreEvents(S)
    PROVE  LET last == LastEvents(InOrder(S))
           IN  /\ \A i \in DOMAIN last : last[i] \in Newest(S)
               /\ \A e \in Newest(S) : \E i \in DOMAIN last : last[i] = e
               /\ \E m \in Nat : DOMAIN last = 1 .. m
               /\ \A i, j \in DOMAIN last : i < j => Earlier(last[i], last[j])
<1> DEFINE n == Cardinality(S)
           s == InOrder(S)
           first == IF n <= MaxEvents THEN 1 ELSE n - MaxEvents + 1
           last == LastEvents(s)
           Newer(e) == {d \in S : d.at > e.at \/ (d.at = e.at /\ d.id > e.id)}
<1>1. /\ n \in Nat /\ s \in [1 .. n -> S]
      /\ \A i, j \in 1 .. n : i < j => Earlier(s[i], s[j])
      /\ \A i, j \in 1 .. n : s[i] = s[j] => i = j
      /\ \A e \in S : \E i \in 1 .. n : s[i] = e
  BY InOrderSorts
<1> HIDE DEF s
<1>2. MaxEvents \in Nat /\ MaxEvents > 0 /\ first \in 1 .. n + 1
  BY <1>1, MaxEventsAssumption
<1>3. \A i \in 1 .. n : Newer(s[i]) = {s[j] : j \in i + 1 .. n}
  <2> SUFFICES ASSUME NEW i \in 1 .. n PROVE Newer(s[i]) = {s[j] : j \in i + 1 .. n}
    OBVIOUS
  <2>1. \A d, e \in S : d \in Newer(e) <=> Earlier(e, d)
    BY DEF AreEvents, Earlier
  <2> HIDE DEF Newer
  <2>2. \A j \in i + 1 .. n : s[j] \in Newer(s[i])
    BY <1>1, <2>1
  <2>3. ASSUME NEW d \in Newer(s[i]) PROVE \E j \in i + 1 .. n : s[j] = d
    <3>1. d \in S
      BY DEF Newer
    <3>2. PICK j \in 1 .. n : s[j] = d
      BY <1>1, <3>1
    <3>3. Earlier(s[i], s[j])
      BY <1>1, <2>1, <3>1, <3>2
    <3>4. j # i /\ ~ j < i
      BY <1>1, <3>3, EarlierOrders
    <3> QED BY <3>2, <3>4, <1>1
  <2> QED BY <2>2, <2>3
<1>4. \A i \in 1 .. n : Cardinality(Newer(s[i])) = n - i
  <2> SUFFICES ASSUME NEW i \in 1 .. n PROVE Cardinality(Newer(s[i])) = n - i
    OBVIOUS
  <2> DEFINE f == [j \in i + 1 .. n |-> s[j]]
             T == {s[j] : j \in i + 1 .. n}
  <2>1. f \in Bijection(i + 1 .. n, T)
    BY <1>1 DEF Bijection, Injection, Surjection, IsInjective
  <2>2. IsFiniteSet(i + 1 .. n) /\ Cardinality(i + 1 .. n) = n - i
    BY <1>1, FS_Interval
  <2>3. ExistsBijection(i + 1 .. n, T)
    BY <2>1 DEF ExistsBijection
  <2>4. Cardinality(T) = n - i
    BY <2>2, <2>3, FS_Bijection
  <2> QED BY <1>3, <2>4
<1>5. \A i \in 1 .. n : s[i] \in Newest(S) <=> i >= first
  <2>1. \A i \in 1 .. n : s[i] \in Newest(S) <=> Cardinality(Newer(s[i])) < MaxEvents
    BY <1>1 DEF Newest
  <2> HIDE DEF Newer
  <2> QED BY <1>1, <1>2, <1>4, <2>1
<1>6. Len(s) = n /\ s \in Seq(S)
  BY <1>1
<1>7. /\ DOMAIN last = 1 .. (n - first + 1)
      /\ \A i \in DOMAIN last : last[i] = s[first + i - 1]
  <2>1. last = SubSeq(s, first, n)
    BY <1>6 DEF LastEvents
  <2> HIDE DEF last, first
  <2>2. SubSeq(s, first, n) = [i \in 1 .. (n - first + 1) |-> s[first + i - 1]]
    BY <1>1, <1>2, <1>6
  <2> QED BY <2>1, <2>2
<1> HIDE DEF last, first, Newer
<1>8. ASSUME NEW i \in DOMAIN last PROVE last[i] \in Newest(S)
  <2>1. first + i - 1 \in 1 .. n /\ first + i - 1 >= first
    BY <1>1, <1>2, <1>7
  <2> QED BY <1>5, <1>7, <2>1
<1>9. ASSUME NEW e \in Newest(S) PROVE \E i \in DOMAIN last : last[i] = e
  <2>1. PICK j \in 1 .. n : s[j] = e
    BY <1>1 DEF Newest
  <2>2. j >= first
    BY <1>5, <2>1
  <2>3. j - first + 1 \in DOMAIN last /\ first + (j - first + 1) - 1 = j
    BY <1>1, <1>2, <1>7, <2>2
  <2> QED BY <1>7, <2>1, <2>3
<1>10. n - first + 1 \in Nat
  BY <1>1, <1>2
<1>11. ASSUME NEW i \in DOMAIN last, NEW j \in DOMAIN last, i < j
       PROVE  Earlier(last[i], last[j])
  <2>1. /\ first + i - 1 \in 1 .. n /\ first + j - 1 \in 1 .. n
        /\ first + i - 1 < first + j - 1
    BY <1>1, <1>2, <1>7, <1>11
  <2> QED BY <1>1, <1>7, <2>1
<1> QED BY <1>7, <1>8, <1>9, <1>10, <1>11 DEF last, s

\* Texts in turn are those of the events in their order, without personal data.
LEMMA TextsInOrder ==
    ASSUME NEW S, AreEvents(S), NEW N \in SUBSET S, NEW m \in Nat, NEW last,
           DOMAIN last = 1 .. m,
           \A i \in 1 .. m : last[i] \in N,
           \A e \in N : \E i \in 1 .. m : last[i] = e,
           \A i, j \in 1 .. m : i < j => Earlier(last[i], last[j])
    PROVE  TextsInTurn(N) = [i \in 1 .. m |-> [last[i].text EXCEPT !.private = FALSE]]
<1> DEFINE NotNewer(e) == {d \in N : d.at < e.at \/ (d.at = e.at /\ d.id <= e.id)}
           At(k) == CHOOSE e \in N : Cardinality(NotNewer(e)) = k
<1>1. \A i, j \in 1 .. m : last[i] = last[j] => i = j
  <2> SUFFICES ASSUME NEW i \in 1 .. m, NEW j \in 1 .. m, i < j PROVE last[i] # last[j]
    OBVIOUS
  <2> QED BY EarlierOrders
<1>2. ASSUME NEW k \in 0 .. m
      PROVE  Cardinality({last[j] : j \in 1 .. k}) = k
  <2> DEFINE f == [j \in 1 .. k |-> last[j]]
             T == {last[j] : j \in 1 .. k}
  <2>1. f \in Bijection(1 .. k, T)
    BY <1>1 DEF Bijection, Injection, Surjection, IsInjective
  <2>2. IsFiniteSet(1 .. k) /\ Cardinality(1 .. k) = k
    BY FS_Interval
  <2>3. ExistsBijection(1 .. k, T)
    BY <2>1 DEF ExistsBijection
  <2> QED BY <2>2, <2>3, FS_Bijection
<1>3. Cardinality(N) = m
  <2>1. N = {last[j] : j \in 1 .. m}
    OBVIOUS
  <2> QED BY <1>2, <2>1
<1>4. \A i \in 1 .. m : NotNewer(last[i]) = {last[j] : j \in 1 .. i}
  <2> SUFFICES ASSUME NEW i \in 1 .. m PROVE NotNewer(last[i]) = {last[j] : j \in 1 .. i}
    OBVIOUS
  <2>1. \A d, e \in N : d \in NotNewer(e) <=> d = e \/ Earlier(d, e)
    BY DEF AreEvents, Earlier
  <2> HIDE DEF NotNewer
  <2>2. \A j \in 1 .. i : last[j] \in NotNewer(last[i])
    BY <2>1
  <2>3. ASSUME NEW d \in NotNewer(last[i]) PROVE \E j \in 1 .. i : last[j] = d
    <3>1. d \in N
      BY DEF NotNewer
    <3>2. PICK j \in 1 .. m : last[j] = d
      BY <3>1
    <3>3. last[j] = last[i] \/ Earlier(last[j], last[i])
      BY <2>1, <3>1, <3>2
    <3>4. ~ i < j
      BY <3>3, EarlierOrders
    <3> QED BY <3>2, <3>4
  <2> QED BY <2>2, <2>3
<1>5. \A i \in 1 .. m : Cardinality(NotNewer(last[i])) = i
  BY <1>2, <1>4
<1> HIDE DEF NotNewer
<1>6. \A k \in 1 .. m : At(k) = last[k]
  <2> SUFFICES ASSUME NEW k \in 1 .. m PROVE At(k) = last[k]
    OBVIOUS
  <2>1. \A e \in N : Cardinality(NotNewer(e)) = k <=> e = last[k]
    BY <1>5
  <2> QED BY <2>1
<1> HIDE DEF At
<1>7. TextsInTurn(N) = [k \in 1 .. Cardinality(N) |-> [At(k).text EXCEPT !.private = FALSE]]
  BY DEF TextsInTurn, At, NotNewer
<1> QED BY <1>3, <1>6, <1>7

\* What a payment's text becomes: the newest events, without personal data.
ShownAs(e) == [channel |-> e.channel, text |-> [e.text EXCEPT !.private = FALSE]]

\* The payload holds the newest of the events that were there, and not injected,
\* when the payment was scored, and the fallback says what they say in turn.
LEMMA CompiledText ==
    ASSUME NEW t \in Datasets, NEW i \in DOMAIN t.scoring
    PROVE  LET S == SafeEvents(t.scoring[i].payment, t.scoring[i].at, t.events)
               payload == Compilations[t][i].payload
           IN  /\ \A j \in DOMAIN payload : \E e \in S : payload[j] = ShownAs(e)
               /\ Extracted(payload) = Matched(TextsInTurn(Newest(S)))
<1> DEFINE S == SafeEvents(t.scoring[i].payment, t.scoring[i].at, t.events)
           payload == Compilations[t][i].payload
           last == LastEvents(InOrder(S))
<1>1. S \subseteq t.events
  BY DEF SafeEvents, SelectedEvents
<1>2. AreEvents(S)
  <2>1. IsFiniteSet(t.events) /\ S \in SUBSET t.events
    BY <1>1, DatasetsAssumption
  <2>2. IsFiniteSet(S)
    BY <2>1, FS_Subset
  <2> HIDE DEF S
  <2> QED BY <1>1, <2>2, DatasetsAssumption DEF AreEvents
<1>3. /\ \A j \in DOMAIN last : last[j] \in Newest(S)
      /\ \A e \in Newest(S) : \E j \in DOMAIN last : last[j] = e
      /\ \E m \in Nat : DOMAIN last = 1 .. m
      /\ \A j, k \in DOMAIN last : j < k => Earlier(last[j], last[k])
  BY <1>2, LastAreNewest
<1>4. DOMAIN payload = DOMAIN last /\ \A j \in DOMAIN last : payload[j] = ShownAs(last[j])
  <2> DEFINE c == Compiled(t.scoring[i].payment, t.scoring[i].at, t.events)
  <2>1. payload = Payload(c)
    BY DEF Compilations
  <2>2. c.events = [j \in DOMAIN last |->
                      [at |-> last[j].at, channel |-> last[j].channel,
                       text |-> Sanitised(last[j].text)]]
    BY DEF Compiled
  <2> HIDE DEF c, last, payload
  <2> QED BY <2>1, <2>2 DEF Payload, ShownAs, Sanitised
<1> HIDE DEF S, payload, last
<1>5. Newest(S) \subseteq S
  BY DEF Newest
<1>6. \A j \in DOMAIN payload : \E e \in S : payload[j] = ShownAs(e)
  BY <1>3, <1>4, <1>5
<1>7. Extracted(payload) = Matched(TextsInTurn(Newest(S)))
  <2>1. PICK m \in Nat : DOMAIN last = 1 .. m
    BY <1>3
  <2>2. /\ \A j \in 1 .. m : last[j] \in Newest(S)
        /\ \A e \in Newest(S) : \E j \in 1 .. m : last[j] = e
        /\ \A j, k \in 1 .. m : j < k => Earlier(last[j], last[k])
    BY <1>3, <2>1
  <2>3. TextsInTurn(Newest(S)) = [j \in 1 .. m |-> [last[j].text EXCEPT !.private = FALSE]]
    BY <1>2, <1>5, <2>1, <2>2, TextsInOrder
  <2>4. \A j \in 1 .. m : payload[j].text = [last[j].text EXCEPT !.private = FALSE]
    <3> SUFFICES ASSUME NEW j \in 1 .. m
                 PROVE  payload[j].text = [last[j].text EXCEPT !.private = FALSE]
      OBVIOUS
    <3>1. payload[j] = ShownAs(last[j])
      BY <1>4, <2>1
    <3>2. ShownAs(last[j]).text = [last[j].text EXCEPT !.private = FALSE]
      BY DEF ShownAs
    <3> QED BY <3>1, <3>2
  <2>5. [j \in DOMAIN payload |-> payload[j].text] = TextsInTurn(Newest(S))
    BY <1>4, <2>1, <2>3, <2>4
  <2> QED BY <2>5 DEF Extracted
<1> QED BY <1>6, <1>7 DEF S, payload
-----------------------------------------------------------------------------
(* Rows and keys.                                                          *)

\* A report that has rows to go has a text and a key.
LEMMA HasInput ==
    ASSUME TypeOK, NEW r \in Reports, Len(rows[r]) < Len(tables.scoring)
    PROVE  /\ Len(rows[r]) \in Nat /\ Len(rows[r]) + 1 \in DOMAIN tables.scoring
           /\ Input(r) = Compilations[tables][Len(rows[r]) + 1].payload
           /\ Input(r) \in Inputs
           /\ KeyOf(r) \in Keys
<1>1. tables \in Datasets /\ rows[r] \in Seq(Row) /\ version[r] \in Versions
  BY DEF TypeOK
<1>2. Len(rows[r]) \in Nat /\ Len(rows[r]) + 1 \in DOMAIN tables.scoring
  <2>1. PICK P : tables.scoring \in Seq(P)
    BY <1>1, DatasetsAssumption
  <2>2. Len(tables.scoring) \in Nat /\ DOMAIN tables.scoring = 1 .. Len(tables.scoring)
    BY <2>1
  <2>3. Len(rows[r]) \in Nat
    BY <1>1
  <2> QED BY <2>2, <2>3
<1>3. Input(r) = Compilations[tables][Len(rows[r]) + 1].payload
  BY DEF Input, Compilation
<1>4. Input(r) \in Inputs
  BY <1>1, <1>2, <1>3 DEF Inputs
<1>5. KeyOf(r) \in Keys
  BY <1>1, <1>4 DEF KeyOf, Keys
<1> QED BY <1>2, <1>3, <1>4, <1>5

\* What a fallback makes of a text is honest.
LEMMA FallbackIsHonest ==
    ASSUME TypeOK, NEW r \in Reports, Len(rows[r]) < Len(tables.scoring)
    PROVE  Fallback(r) \in Made /\ Fallback(r).input = Input(r) /\ Honest(Fallback(r))
<1>1. Input(r) \in Inputs
  BY HasInput
<1>2. Extracted(Input(r)) \in Signals
  BY <1>1 DEF Signals
<1> QED BY <1>1, <1>2 DEF Fallback, Made, Providers, Honest

\* A report whose rows stay keeps its text and its key.
LEMMA SameRows ==
    ASSUME NEW q \in Reports, rows'[q] = rows[q], UNCHANGED constants
    PROVE  Input(q)' = Input(q) /\ KeyOf(q)' = KeyOf(q) /\ Prior(q)' = Prior(q)
<1>1. Input(q)' = Input(q)
  BY DEF constants, Input, Compilation
<1>2. KeyOf(q)' = KeyOf(q)
  BY <1>1 DEF KeyOf, constants
<1> QED BY <1>1, <1>2 DEF Prior

\* A row that is added is about its payment and says what an equal text said.
LEMMA RowAdded ==
    ASSUME SignalInv, NEW r \in Reports, Len(rows[r]) < Len(tables.scoring),
           UNCHANGED constants, NEW m \in Made, m.input = Input(r), Honest(m),
           NEW mode \in Modes, NEW provider \in Providers, NEW fallback_used \in BOOLEAN,
           AddRow(r, m, mode, provider, fallback_used), Tells(m, provider, fallback_used),
           Prior(r) = {} \/ \E i \in Prior(r) : m = rows[r][i].made
    PROVE  /\ rows' \in [Reports -> Seq(Row)]'
           /\ \A q \in Reports : Len(rows'[q]) <= Len(tables.scoring)
           /\ \A q \in Reports : q # r => rows'[q] = rows[q]
           /\ RowsFit'
           /\ OneTextOneAnswer'
<1> DEFINE row == [payment |-> Scored(r).payment, made |-> m, mode |-> mode,
                   provider |-> provider, fallback_used |-> fallback_used]
           n == Len(rows[r]) + 1
<1>1. /\ n \in DOMAIN tables.scoring /\ Len(rows[r]) \in Nat
      /\ Input(r) = Compilations[tables][n].payload
  BY HasInput DEF SignalInv
<1>2. row \in Row
  <2>1. Scored(r).payment \in {tables.scoring[i].payment : i \in DOMAIN tables.scoring}
    BY <1>1 DEF Scored
  <2> QED BY <2>1 DEF Row
<1>3. /\ row.payment = tables.scoring[n].payment /\ row.made = m
      /\ Tells(m, row.provider, row.fallback_used)
  BY DEF Scored
<1>4. rows' = [rows EXCEPT ![r] = Append(rows[r], row)] /\ tables' = tables
  BY DEF AddRow, constants
<1> HIDE DEF row
<1>5. rows \in [Reports -> Seq(Row)] /\ \A q \in Reports : Len(rows[q]) <= Len(tables.scoring)
  BY DEF SignalInv, TypeOK
<1>6. /\ rows'[r] \in Seq(Row) /\ Len(rows'[r]) = n /\ DOMAIN rows'[r] = 1 .. n
      /\ rows'[r][n] = row
      /\ \A i \in 1 .. n - 1 : rows'[r][i] = rows[r][i]
      /\ DOMAIN rows[r] = 1 .. n - 1
  BY <1>2, <1>4, <1>5
<1>7. \A q \in Reports : q # r => rows'[q] = rows[q]
  BY <1>4, <1>5
<1>8. Len(rows'[r]) <= Len(tables.scoring)
  <2>1. PICK P : tables.scoring \in Seq(P)
    BY DatasetsAssumption DEF SignalInv, TypeOK
  <2> QED BY <1>1, <1>6, <2>1
<1>9. rows' \in [Reports -> Seq(Row)]'
  <2>1. Row' = Row
    BY <1>4 DEF Row
  <2> QED BY <1>2, <1>4, <1>5, <2>1
<1>10. RowsFit'
  <2> SUFFICES ASSUME NEW q \in Reports, NEW i \in DOMAIN rows'[q]
               PROVE  /\ rows'[q][i].payment = tables.scoring[i].payment
                      /\ rows'[q][i].made.input = Compilations[tables][i].payload
                      /\ Honest(rows'[q][i].made)
                      /\ Tells(rows'[q][i].made, rows'[q][i].provider,
                               rows'[q][i].fallback_used)
    BY <1>4 DEF RowsFit
  <2>1. ASSUME q # r \/ i # n PROVE i \in DOMAIN rows[q] /\ rows'[q][i] = rows[q][i]
    BY <1>1, <1>6, <1>7, <2>1
  <2>2. CASE q = r /\ i = n
    BY <1>1, <1>3, <1>6, <2>2
  <2> QED BY <2>1, <2>2 DEF SignalInv, RowsFit
<1>11. OneTextOneAnswer'
  <2>1. \A q \in Reports : \A i, j \in DOMAIN rows[q] :
          rows[q][i].made.input = rows[q][j].made.input => rows[q][i].made = rows[q][j].made
    BY DEF SignalInv, OneTextOneAnswer
  <2>2. \A i \in 1 .. n - 1 : rows[r][i].made.input = m.input => rows[r][i].made = m
    BY <1>6, <2>1 DEF Prior
  <2>3. ASSUME NEW i \in 1 .. n, NEW j \in 1 .. n,
               rows'[r][i].made.input = rows'[r][j].made.input
        PROVE  rows'[r][i].made = rows'[r][j].made
    <3>1. (i = n \/ i \in 1 .. n - 1) /\ (j = n \/ j \in 1 .. n - 1)
      BY <1>1
    <3>2. CASE i = n \/ j = n
      BY <1>3, <1>6, <2>2, <2>3, <3>1, <3>2
    <3>3. CASE i \in 1 .. n - 1 /\ j \in 1 .. n - 1
      BY <1>6, <2>1, <2>3, <3>3
    <3> QED BY <3>1, <3>2, <3>3
  <2>4. \A q \in Reports : \A i, j \in DOMAIN rows'[q] :
          rows'[q][i].made.input = rows'[q][j].made.input
             => rows'[q][i].made = rows'[q][j].made
    <3> SUFFICES ASSUME NEW q \in Reports, NEW i \in DOMAIN rows'[q],
                        NEW j \in DOMAIN rows'[q],
                        rows'[q][i].made.input = rows'[q][j].made.input
                 PROVE  rows'[q][i].made = rows'[q][j].made
      OBVIOUS
    <3>1. CASE q = r
      <4>1. i \in 1 .. n /\ j \in 1 .. n
        BY <1>6, <3>1
      <4> QED BY <2>3, <3>1, <4>1
    <3>2. CASE q # r
      BY <1>7, <2>1, <3>2
    <3> QED BY <3>1, <3>2
  <2> QED BY <2>4 DEF OneTextOneAnswer
<1> QED BY <1>5, <1>7, <1>8, <1>9, <1>10, <1>11
-----------------------------------------------------------------------------
(* What a step that adds no row, or one, has to respect.                   *)

\* Files hold what was offered, and handles lead to files.
DiskFits ==
    /\ temp \in [Keys -> Content \cup {None}]
    /\ file \in [Keys -> Content \cup {None}]
    /\ handle \in [Reports -> {"none", "temp", "file", "gone"}]
    /\ offered \subseteq [key : Keys, value : Made]
    /\ FilesAreOffered
    /\ OfferedIsHonest

\* The rest of the state.
RestFits ==
    /\ made \in [Reports -> Delivery \cup {None}]
    /\ output = <<>> \/ Len(output) = Len(tables.scoring)
    /\ mishaps \in 0 .. MaxMishaps

LEMMA Fitting == ASSUME SignalInv PROVE DiskFits /\ RestFits
BY DEF SignalInv, TypeOK, DiskFits, RestFits

LEMMA OnwardStep ==
    ASSUME SignalInv, NEW r \in Reports, UNCHANGED <<constants, rows>>,
           NEW step \in Running \cup {"done", "failed", "dead"}, Goto(r, step),
           DiskFits', RestFits', offered \subseteq offered',
           \A q \in Reports : q # r => made'[q] = made[q] /\ handle'[q] = handle[q],
           \A q \in Reports :
              /\ handle'[q] = "temp" => temp'[KeyOf(q)] # None
              /\ handle'[q] = "file" => file'[KeyOf(q)] # None,
           handle'[r] # "none" => step \in {"writing", "renaming"},
           step \in Working => Len(rows[r]) < Len(tables.scoring) /\ Prior(r) = {},
           step \in {"opening", "writing", "renaming"} =>
              Fits(r, made'[r]),
           step \in {"writing", "renaming"} =>
              [key |-> KeyOf(r), value |-> made'[r].generation] \in offered'
    PROVE  SignalInv'
<1> USE DEF SignalInv
<1>1. \A q \in Reports : pc'[q] = IF q = r THEN step ELSE pc[q]
  BY DEF TypeOK, Goto
<1>2. \A q \in Reports : Input(q)' = Input(q) /\ KeyOf(q)' = KeyOf(q) /\ Prior(q)' = Prior(q)
  BY SameRows
<1>3. TypeOK'
  <2>1. tables' \in Datasets /\ version' \in [Reports -> Versions]
    BY DEF TypeOK, constants
  <2>2. pc' \in [Reports -> Running \cup {"idle", "done", "failed", "dead"}]
    BY DEF TypeOK, Goto
  <2>3. /\ rows' \in [Reports -> Seq(Row)]'
        /\ \A q \in Reports : Len(rows'[q]) <= Len(tables'.scoring)
    <3>1. Row' = Row /\ tables' = tables
      BY DEF Row, constants
    <3> QED BY <3>1 DEF TypeOK
  <2>4. \A q \in Reports : handle'[q] # "none" => pc'[q] \in {"writing", "renaming"}
    BY <1>1 DEF TypeOK
  <2> QED BY <2>1, <2>2, <2>3, <2>4 DEF TypeOK, DiskFits, RestFits
<1>4. WorkIsNew'
  BY <1>1, <1>2 DEF WorkIsNew, constants
<1>5. MadeFits'
  BY <1>1, <1>2 DEF MadeFits, Fits
<1>6. HandlesLead'
  BY <1>2 DEF HandlesLead
<1>7. PutsAreOffered'
  BY <1>1, <1>2 DEF PutsAreOffered, Generation
<1>8. FilesAreOffered' /\ OfferedIsHonest'
  BY DEF DiskFits
<1>9. RowsFit' /\ OneTextOneAnswer'
  BY DEF RowsFit, OneTextOneAnswer, constants
<1> QED BY <1>3, <1>4, <1>5, <1>6, <1>7, <1>8, <1>9

LEMMA RowStep ==
    ASSUME SignalInv, NEW r \in Reports, Len(rows[r]) < Len(tables.scoring),
           UNCHANGED <<constants, offered>>, NEW m \in Made, m.input = Input(r), Honest(m),
           NEW mode \in Modes, NEW provider \in Providers, NEW fallback_used \in BOOLEAN,
           AddRow(r, m, mode, provider, fallback_used), Tells(m, provider, fallback_used),
           Prior(r) = {} \/ \E i \in Prior(r) : m = rows[r][i].made,
           DiskFits', RestFits',
           \A q \in Reports : q # r => made'[q] = made[q],
           \A q \in Reports : handle'[q] # "none" => q # r /\ handle[q] # "none",
           \A q \in Reports :
              /\ handle'[q] = "temp" => temp'[KeyOf(q)] # None
              /\ handle'[q] = "file" => file'[KeyOf(q)] # None
    PROVE  SignalInv'
<1>1. /\ rows' \in [Reports -> Seq(Row)]'
      /\ \A q \in Reports : Len(rows'[q]) <= Len(tables.scoring)
      /\ \A q \in Reports : q # r => rows'[q] = rows[q]
      /\ RowsFit'
      /\ OneTextOneAnswer'
  BY RowAdded
<1> USE DEF SignalInv
<1>2. \A q \in Reports : pc'[q] = IF q = r THEN "row" ELSE pc[q]
  BY DEF TypeOK, AddRow, Goto
<1>3. \A q \in Reports : q # r =>
         Input(q)' = Input(q) /\ KeyOf(q)' = KeyOf(q) /\ Prior(q)' = Prior(q)
  BY <1>1, SameRows
<1>4. TypeOK'
  <2>1. tables' \in Datasets /\ version' \in [Reports -> Versions] /\ tables' = tables
    BY DEF TypeOK, constants
  <2>2. pc' \in [Reports -> Running \cup {"idle", "done", "failed", "dead"}]
    BY DEF TypeOK, AddRow, Goto, Running
  <2>3. \A q \in Reports : handle'[q] # "none" => pc'[q] \in {"writing", "renaming"}
    BY <1>2 DEF TypeOK
  <2> QED BY <1>1, <2>1, <2>2, <2>3 DEF TypeOK, DiskFits, RestFits
<1>5. WorkIsNew'
  BY <1>1, <1>2, <1>3 DEF WorkIsNew, constants, Working
<1>6. MadeFits'
  BY <1>2, <1>3 DEF MadeFits, Fits
<1>7. HandlesLead'
  BY <1>3 DEF HandlesLead
<1>8. PutsAreOffered'
  BY <1>2, <1>3 DEF PutsAreOffered, Generation
<1>9. FilesAreOffered' /\ OfferedIsHonest'
  BY DEF DiskFits
<1> QED BY <1>1, <1>4, <1>5, <1>6, <1>7, <1>8, <1>9
-----------------------------------------------------------------------------
(* The steps.                                                              *)

\* Nothing is read, made or cached at first.
LEMMA InitStep == Init => SignalInv
<1> SUFFICES ASSUME Init PROVE SignalInv
  OBVIOUS
<1> USE DEF Init
<1>1. \A r \in Reports : rows[r] = <<>> /\ Len(rows[r]) = 0 /\ DOMAIN rows[r] = {}
  OBVIOUS
<1>2. TypeOK
  <2>1. PICK P : tables.scoring \in Seq(P)
    BY DatasetsAssumption
  <2>2. \A r \in Reports : Len(rows[r]) <= Len(tables.scoring)
    BY <1>1, <2>1
  <2>3. rows \in [Reports -> Seq(Row)]
    OBVIOUS
  <2> QED BY <2>2, <2>3, BoundAssumption DEF TypeOK
<1>3. WorkIsNew /\ MadeFits /\ HandlesLead /\ PutsAreOffered
  BY DEF WorkIsNew, Working, MadeFits, HandlesLead, PutsAreOffered
<1>4. FilesAreOffered /\ OfferedIsHonest
  BY DEF FilesAreOffered, IsOffered, OfferedIsHonest
<1>5. RowsFit /\ OneTextOneAnswer
  BY <1>1 DEF RowsFit, OneTextOneAnswer
<1> QED BY <1>2, <1>3, <1>4, <1>5 DEF SignalInv

\* A report keeps its handle only while it writes.
LEMMA NoHandle ==
    ASSUME SignalInv, NEW r \in Reports, pc[r] \notin {"writing", "renaming"}
    PROVE  handle[r] = "none"
BY DEF SignalInv, TypeOK

\* A report that begins, fails or ends leaves the cache alone.
LEMMA ReportStep ==
    ASSUME SignalInv, NEW r \in Reports, Begin(r) \/ RowFails(r) \/ Finish(r)
    PROVE  SignalInv'
<1>1. /\ UNCHANGED <<constants, disk, rows, made, offered, mishaps>>
      /\ pc[r] \in {"idle", "row"}
      /\ output' = output \/ (output' = rows[r] /\ Len(rows[r]) = Len(tables.scoring))
  BY DEF Begin, RowFails, Finish, AtRow
<1>2. PICK step \in {"row", "failed", "done"} : Goto(r, step)
  BY DEF Begin, RowFails, Finish
<1>3. step \in Running \cup {"done", "failed", "dead"} /\ step \notin Working
  BY DEF Running, Working
<1>4. handle[r] = "none"
  BY <1>1, NoHandle
<1>5. DiskFits' /\ RestFits'
  BY <1>1, Fitting DEF DiskFits, RestFits, FilesAreOffered, IsOffered, OfferedIsHonest,
     disk, constants
<1>6. \A q \in Reports :
        /\ handle'[q] = "temp" => temp'[KeyOf(q)] # None
        /\ handle'[q] = "file" => file'[KeyOf(q)] # None
  BY <1>1 DEF SignalInv, HandlesLead, disk
<1> QED BY <1>1, <1>2, <1>3, <1>4, <1>5, <1>6, OnwardStep DEF Working, disk

\* An equal text is answered by the row that had it first.
LEMMA ReuseStep ==
    ASSUME SignalInv, NEW r \in Reports, Reuse(r)
    PROVE  SignalInv'
<1>1. /\ UNCHANGED <<constants, disk, made, offered, output, mishaps>>
      /\ pc[r] = "row" /\ Len(rows[r]) < Len(tables.scoring)
  BY DEF Reuse, AtRow
<1> DEFINE Same(row) ==
             AddRow(r, row.made, "CACHE", row.provider, row.provider = "deterministic_fallback")
<1>2. PICK i \in Prior(r) : Same(rows[r][i])
  BY DEF Reuse, Reused
<1>3. /\ rows[r][i].made \in Made /\ rows[r][i].made.input = Input(r)
      /\ Honest(rows[r][i].made) /\ rows[r][i].provider \in Providers
      /\ Tells(rows[r][i].made, rows[r][i].provider,
               rows[r][i].provider = "deterministic_fallback")
  <2>1. rows[r] \in Seq(Row) /\ i \in DOMAIN rows[r] /\ rows[r][i].made.input = Input(r)
    BY DEF SignalInv, TypeOK, Prior
  <2>2. rows[r][i] \in Row
    BY <2>1
  <2>3. /\ Honest(rows[r][i].made)
        /\ Tells(rows[r][i].made, rows[r][i].provider, rows[r][i].fallback_used)
    BY <2>1 DEF SignalInv, RowsFit
  <2> QED BY <2>1, <2>2, <2>3 DEF Row, Tells
<1>4. DiskFits' /\ RestFits'
  BY <1>1, Fitting DEF DiskFits, RestFits, FilesAreOffered, IsOffered, OfferedIsHonest,
     disk, constants
<1>5. \A q \in Reports :
        /\ handle'[q] # "none" => q # r /\ handle[q] # "none"
        /\ handle'[q] = "temp" => temp'[KeyOf(q)] # None
        /\ handle'[q] = "file" => file'[KeyOf(q)] # None
  BY <1>1, NoHandle DEF SignalInv, HandlesLead, disk
<1> QED BY <1>1, <1>2, <1>3, <1>4, <1>5, RowStep DEF Modes

\* A hit answers with an entry that was offered for the very text.
LEMMA ReadHitStep ==
    ASSUME SignalInv, NEW r \in Reports, ReadHit(r)
    PROVE  SignalInv'
<1> DEFINE m == file[KeyOf(r)].entry
<1>1. /\ UNCHANGED <<constants, disk, made, offered, output, mishaps>>
      /\ pc[r] = "row" /\ Len(rows[r]) < Len(tables.scoring) /\ Prior(r) = {}
      /\ AddRow(r, m, "CACHE", m.provider, m.provider = "deterministic_fallback")
      /\ m.input = Input(r)
      /\ file[KeyOf(r)] # None /\ m # None
  BY DEF ReadHit, AtService, AtRow, Readable
<1>2. [key |-> KeyOf(r), value |-> m] \in offered
  <2>1. KeyOf(r) \in Keys
    BY <1>1, HasInput DEF SignalInv
  <2> QED BY <1>1, <2>1 DEF SignalInv, FilesAreOffered, IsOffered
<1>3. /\ m \in Made /\ Honest(m) /\ m.provider \in Providers
      /\ Tells(m, m.provider, m.provider = "deterministic_fallback")
  <2>1. \A o \in offered : o.value \in Made /\ Honest(o.value)
    BY DEF SignalInv, OfferedIsHonest, TypeOK
  <2>2. m \in Made /\ Honest(m)
    BY <1>2, <2>1
  <2> QED BY <2>2 DEF Made, Honest, Tells
<1>4. DiskFits' /\ RestFits'
  BY <1>1, Fitting DEF DiskFits, RestFits, FilesAreOffered, IsOffered, OfferedIsHonest,
     disk, constants
<1>5. \A q \in Reports :
        /\ handle'[q] # "none" => q # r /\ handle[q] # "none"
        /\ handle'[q] = "temp" => temp'[KeyOf(q)] # None
        /\ handle'[q] = "file" => file'[KeyOf(q)] # None
  BY <1>1, NoHandle DEF SignalInv, HandlesLead, disk
<1> QED BY <1>1, <1>3, <1>4, <1>5, RowStep DEF Modes

\* A report whose text is not cached asks the model, or makes a fallback.
LEMMA ReadMissStep ==
    ASSUME SignalInv, NEW r \in Reports, ReadMiss(r)
    PROVE  SignalInv'
<1>1. /\ UNCHANGED <<constants, disk, rows, offered, output, mishaps>>
      /\ pc[r] = "row" /\ Len(rows[r]) < Len(tables.scoring) /\ Prior(r) = {}
  BY DEF ReadMiss, AtService, AtRow
<1>2. Fallback(r) \in Made /\ Fallback(r).input = Input(r) /\ Honest(Fallback(r))
  BY <1>1, FallbackIsHonest DEF SignalInv
<1>3. made \in [Reports -> Delivery \cup {None}]
  BY DEF SignalInv, TypeOK
<1>4. PICK step \in {"opening", "extracting"} :
        /\ Goto(r, step)
        /\ made' \in [Reports -> Delivery \cup {None}]
        /\ \A q \in Reports : q # r => made'[q] = made[q]
        /\ step = "opening" => Fits(r, made'[r])
  BY <1>2, <1>3 DEF ReadMiss, Make, Fits, Delivery, Fallback
<1>5. step \in Running \cup {"done", "failed", "dead"}
  BY DEF Running
<1>6. DiskFits' /\ RestFits'
  BY <1>1, <1>4, Fitting DEF DiskFits, RestFits, FilesAreOffered, IsOffered, OfferedIsHonest,
     disk, constants
<1>7. \A q \in Reports :
        /\ handle'[q] = handle[q]
        /\ handle'[q] = "temp" => temp'[KeyOf(q)] # None
        /\ handle'[q] = "file" => file'[KeyOf(q)] # None
  BY <1>1 DEF SignalInv, HandlesLead, disk
<1>8. handle'[r] = "none"
  BY <1>1, <1>7, NoHandle
<1> QED BY <1>1, <1>4, <1>5, <1>6, <1>7, <1>8, OnwardStep

\* The model's answer, or the fallback, is about the text it was asked about.
LEMMA ExtractStep ==
    ASSUME SignalInv, NEW r \in Reports, ExtractSucceeds(r) \/ ExtractFails(r)
    PROVE  SignalInv'
<1>1. /\ UNCHANGED <<constants, disk, rows, offered, output, mishaps>>
      /\ pc[r] = "extracting"
  BY DEF ExtractSucceeds, ExtractFails
<1>2. Len(rows[r]) < Len(tables.scoring) /\ Prior(r) = {}
  BY <1>1 DEF SignalInv, WorkIsNew, Working
<1>3. PICK d \in Delivery : Make(r, d.generation, d.mode) /\ Fits(r, d)
  <2>1. CASE ExtractSucceeds(r)
    <3>1. PICK s \in Answers : Make(r, Live(r, s), "LIVE_OPENAI")
      BY <2>1 DEF ExtractSucceeds
    <3>2. Input(r) \in Inputs /\ s \in Signals
      BY <1>2, HasInput DEF SignalInv, Signals
    <3> DEFINE d == [generation |-> Live(r, s), mode |-> "LIVE_OPENAI"]
    <3>3. d \in Delivery /\ Fits(r, d)
      BY <3>2 DEF Live, Made, Providers, Honest, Delivery, Fits
    <3> QED BY <3>1, <3>3
  <2>2. CASE ExtractFails(r)
    <3> DEFINE d == [generation |-> Fallback(r), mode |-> "DETERMINISTIC_FALLBACK"]
    <3>1. Fallback(r) \in Made /\ Fallback(r).input = Input(r) /\ Honest(Fallback(r))
      BY <1>2, FallbackIsHonest DEF SignalInv
    <3>2. d \in Delivery /\ Fits(r, d)
      BY <3>1 DEF Delivery, Fits, Fallback
    <3> QED BY <2>2, <3>2 DEF ExtractFails
  <2> QED BY <1>1, <2>1, <2>2 DEF ExtractSucceeds, ExtractFails
<1>4. /\ Goto(r, "opening") /\ made' \in [Reports -> Delivery \cup {None}] /\ made'[r] = d
      /\ \A q \in Reports : q # r => made'[q] = made[q]
  <2>1. d = [generation |-> d.generation, mode |-> d.mode]
    BY DEF Delivery
  <2> QED BY <1>3, <2>1 DEF Make, SignalInv, TypeOK
<1>5. "opening" \in Running \cup {"done", "failed", "dead"}
  BY DEF Running
<1>6. DiskFits' /\ RestFits'
  BY <1>1, <1>4, Fitting DEF DiskFits, RestFits, FilesAreOffered, IsOffered, OfferedIsHonest,
     disk, constants
<1>7. \A q \in Reports :
        /\ handle'[q] = handle[q]
        /\ handle'[q] = "temp" => temp'[KeyOf(q)] # None
        /\ handle'[q] = "file" => file'[KeyOf(q)] # None
  BY <1>1 DEF SignalInv, HandlesLead, disk
<1>8. handle'[r] = "none"
  BY <1>1, <1>7, NoHandle
<1> QED BY <1>1, <1>2, <1>3, <1>4, <1>5, <1>6, <1>7, <1>8, OnwardStep

\* A report that puts has made what it puts.
LEMMA Putting ==
    ASSUME SignalInv, NEW r \in Reports, pc[r] \in {"opening", "writing", "renaming"}
    PROVE  /\ Len(rows[r]) < Len(tables.scoring) /\ Prior(r) = {}
           /\ Fits(r, made[r])
           /\ Generation(r) \in Made /\ Generation(r) # None
           /\ Generation(r).input = Input(r) /\ Honest(Generation(r))
           /\ KeyOf(r) \in Keys
           /\ pc[r] # "opening" => [key |-> KeyOf(r), value |-> Generation(r)] \in offered
<1>1. Len(rows[r]) < Len(tables.scoring) /\ Prior(r) = {}
  BY DEF SignalInv, WorkIsNew, Working
<1>2. KeyOf(r) \in Keys
  BY <1>1, HasInput DEF SignalInv
<1>3. /\ Fits(r, made[r])
      /\ Generation(r) \in Made /\ Generation(r).input = Input(r) /\ Honest(Generation(r))
  BY DEF SignalInv, MadeFits, Fits, Delivery, Generation
<1>4. Generation(r) # None
  BY <1>3, NoneAssumption
<1>5. pc[r] # "opening" => [key |-> KeyOf(r), value |-> Generation(r)] \in offered
  BY DEF SignalInv, PutsAreOffered
<1> QED BY <1>1, <1>2, <1>3, <1>4, <1>5

\* A put begins by offering its value, in an empty file.
LEMMA OpenTempStep ==
    ASSUME SignalInv, NEW r \in Reports, OpenTemp(r)
    PROVE  SignalInv'
<1> DEFINE k == KeyOf(r)
           o == [key |-> k, value |-> Generation(r)]
<1>1. /\ UNCHANGED <<constants, file, rows, made, output, mishaps>>
      /\ pc[r] = "opening" /\ Goto(r, "writing") /\ temp' = [temp EXCEPT ![k] = Blank]
      /\ handle' = [handle EXCEPT ![r] = "temp"] /\ offered' = offered \cup {o}
  BY DEF OpenTemp
<1>2. /\ Len(rows[r]) < Len(tables.scoring) /\ Prior(r) = {}
      /\ Fits(r, made[r]) /\ Generation(r) \in Made
      /\ Generation(r).input = Input(r) /\ Honest(Generation(r)) /\ k \in Keys
  BY <1>1, Putting
<1>3. Blank \in Content /\ Blank # None /\ Blank.entry = None
  BY NoneAssumption DEF Blank, Content
<1>4. DiskFits /\ RestFits
  BY Fitting
<1>5. /\ temp' \in [Keys -> Content \cup {None}] /\ file' \in [Keys -> Content \cup {None}]
      /\ handle' \in [Reports -> {"none", "temp", "file", "gone"}]
      /\ \A j \in Keys : temp'[j] = IF j = k THEN Blank ELSE temp[j]
      /\ \A q \in Reports : handle'[q] = IF q = r THEN "temp" ELSE handle[q]
  BY <1>1, <1>3, <1>4 DEF DiskFits
<1> HIDE DEF k
<1>6. offered' \subseteq [key : Keys, value : Made] /\ OfferedIsHonest'
  BY <1>1, <1>2, <1>4 DEF DiskFits, OfferedIsHonest, Honest
<1>7. FilesAreOffered'
  BY <1>1, <1>3, <1>4, <1>5 DEF DiskFits, FilesAreOffered, IsOffered
<1>8. DiskFits' /\ RestFits'
  BY <1>1, <1>4, <1>5, <1>6, <1>7 DEF DiskFits, RestFits, constants
<1>9. \A q \in Reports :
        /\ handle'[q] = "temp" => temp'[KeyOf(q)] # None
        /\ handle'[q] = "file" => file'[KeyOf(q)] # None
  <2> SUFFICES ASSUME NEW q \in Reports
               PROVE  /\ handle'[q] = "temp" => temp'[KeyOf(q)] # None
                      /\ handle'[q] = "file" => file'[KeyOf(q)] # None
    OBVIOUS
  <2>1. CASE q = r
    BY <1>2, <1>3, <1>5, <2>1 DEF k
  <2>2. CASE q # r /\ handle[q] # "none"
    <3>1. KeyOf(q) \in Keys /\ HandlesLead
      BY <2>2, Putting DEF SignalInv, TypeOK
    <3> QED BY <1>1, <1>3, <1>5, <2>2, <3>1 DEF HandlesLead
  <2> QED BY <1>5, <2>1, <2>2
<1>10. "writing" \in Running \cup {"done", "failed", "dead"} /\ o \in offered'
  BY <1>1 DEF Running
<1> QED BY <1>1, <1>2, <1>5, <1>8, <1>9, <1>10, OnwardStep DEF k, Generation

\* A handle of a put is on a file of its key.
LEMMA HandleKey ==
    ASSUME SignalInv, NEW q \in Reports, handle[q] # "none"
    PROVE  /\ KeyOf(q) \in Keys
           /\ handle[q] = "temp" => temp[KeyOf(q)] # None
           /\ handle[q] = "file" => file[KeyOf(q)] # None
<1>1. pc[q] \in {"writing", "renaming"}
  BY DEF SignalInv, TypeOK
<1> QED BY <1>1, Putting DEF SignalInv, HandlesLead

\* A text that is written over another begins with its own entry.
LEMMA WrittenOver ==
    ASSUME NEW c \in Content, NEW m \in Made
    PROVE  Over(c, m) \in Content /\ Over(c, m).entry = m
<1>1. c.size \in 0 .. 2 /\ Size(m) \in 0 .. 2
  BY DEF Content, Size
<1> QED BY <1>1 DEF Over, Content

\* A write leaves a text that begins with what was offered, wherever the handle
\* has gone.
LEMMA WriteTempStep ==
    ASSUME SignalInv, NEW r \in Reports, WriteTemp(r)
    PROVE  SignalInv'
<1> DEFINE k == KeyOf(r)
<1>1. /\ UNCHANGED <<constants, handle, rows, made, offered, output, mishaps>>
      /\ pc[r] = "writing" /\ Goto(r, "renaming")
      /\ temp' = IF handle[r] = "temp"
                   THEN [temp EXCEPT ![k] = Over(temp[k], Generation(r))] ELSE temp
      /\ file' = IF handle[r] = "file"
                   THEN [file EXCEPT ![k] = Over(file[k], Generation(r))] ELSE file
  BY DEF WriteTemp
<1>2. /\ Len(rows[r]) < Len(tables.scoring) /\ Prior(r) = {}
      /\ Fits(r, made[r]) /\ Generation(r) \in Made
      /\ Generation(r).input = Input(r) /\ Honest(Generation(r))
      /\ k \in Keys /\ [key |-> k, value |-> Generation(r)] \in offered
  BY <1>1, Putting
<1>3. DiskFits /\ RestFits
  BY Fitting
<1> HIDE DEF k
<1>4. ASSUME NEW c \in Content
      PROVE  /\ Over(c, Generation(r)) \in Content /\ Over(c, Generation(r)) # None
             /\ IsOffered(k, Over(c, Generation(r)))
  <2>1. Over(c, Generation(r)) \in Content /\ Over(c, Generation(r)).entry = Generation(r)
    BY <1>2, WrittenOver
  <2> QED BY <1>2, <2>1, NoneAssumption DEF IsOffered
<1>5. /\ handle[r] = "temp" => temp[k] \in Content
      /\ handle[r] = "file" => file[k] \in Content
  BY <1>2, <1>3, HandleKey DEF DiskFits, k
<1>6. /\ temp' \in [Keys -> Content \cup {None}] /\ file' \in [Keys -> Content \cup {None}]
      /\ \A j \in Keys : (temp[j] # None => temp'[j] # None) /\ (file[j] # None => file'[j] # None)
  BY <1>1, <1>2, <1>3, <1>4, <1>5 DEF DiskFits
<1>7. \A j \in Keys : IsOffered(j, temp'[j]) /\ IsOffered(j, file'[j])
  BY <1>1, <1>2, <1>3, <1>4, <1>5 DEF DiskFits, FilesAreOffered
<1>8. FilesAreOffered' /\ OfferedIsHonest'
  BY <1>1, <1>3, <1>7 DEF DiskFits, FilesAreOffered, IsOffered, OfferedIsHonest
<1>9. DiskFits' /\ RestFits'
  BY <1>1, <1>3, <1>6, <1>8 DEF DiskFits, RestFits, constants
<1>10. \A q \in Reports :
        /\ handle'[q] = "temp" => temp'[KeyOf(q)] # None
        /\ handle'[q] = "file" => file'[KeyOf(q)] # None
  BY <1>1, <1>6, HandleKey
<1>11. "renaming" \in Running \cup {"done", "failed", "dead"}
  BY DEF Running
<1> QED BY <1>1, <1>2, <1>9, <1>10, <1>11, OnwardStep DEF k, Generation

\* What was made is delivered, and declared by the mode of its branch.
LEMMA Delivering ==
    ASSUME SignalInv, NEW r \in Reports, DeliverMade(r), Fits(r, made[r])
    PROVE  /\ \E mode \in Modes, provider \in Providers, fallback_used \in BOOLEAN :
                 /\ AddRow(r, Generation(r), mode, provider, fallback_used)
                 /\ Tells(Generation(r), provider, fallback_used)
           /\ made' \in [Reports -> Delivery \cup {None}]
           /\ \A q \in Reports : q # r => made'[q] = made[q]
<1>1. made[r].mode \in Modes /\ Generation(r).provider \in Providers
  BY DEF Fits, Delivery, Modes, Made, Generation
<1>2. Tells(Generation(r), Generation(r).provider, made[r].mode = "DETERMINISTIC_FALLBACK")
  BY DEF Fits, Honest, Tells, Generation
<1>3. AddRow(r, Generation(r), made[r].mode, Generation(r).provider,
             made[r].mode = "DETERMINISTIC_FALLBACK")
  BY DEF DeliverMade
<1>4. (made[r].mode = "DETERMINISTIC_FALLBACK") \in BOOLEAN
  OBVIOUS
<1>5. /\ made' \in [Reports -> Delivery \cup {None}]
      /\ \A q \in Reports : q # r => made'[q] = made[q]
  BY DEF DeliverMade, SignalInv, TypeOK
<1> QED BY <1>1, <1>2, <1>3, <1>4, <1>5

\* Where the handles are after a rename.
LEMMA HandlesRenamed ==
    ASSUME SignalInv, NEW r \in Reports, NEW q \in Reports
    PROVE  Renamed(r)[q] =
             IF q = r THEN "none"
             ELSE IF handle[q] # "none" /\ KeyOf(q) = KeyOf(r)
                    THEN IF handle[q] = "temp" THEN "file" ELSE "gone"
                    ELSE handle[q]
BY DEF Renamed

\* A rename puts a file that was offered in the place of the entry, and takes
\* the handles of other writers along.
LEMMA RenameTempStep ==
    ASSUME SignalInv, NEW r \in Reports, RenameTemp(r)
    PROVE  SignalInv'
<1> DEFINE k == KeyOf(r)
<1>1. /\ UNCHANGED <<constants, offered, output, mishaps>>
      /\ pc[r] = "renaming" /\ temp[k] # None
      /\ file' = [file EXCEPT ![k] = temp[k]] /\ temp' = [temp EXCEPT ![k] = None]
      /\ handle' = Renamed(r) /\ DeliverMade(r)
  BY DEF RenameTemp
<1>2. /\ Len(rows[r]) < Len(tables.scoring) /\ Prior(r) = {}
      /\ Fits(r, made[r]) /\ Generation(r) \in Made
      /\ Generation(r).input = Input(r) /\ Honest(Generation(r)) /\ k \in Keys
  BY <1>1, Putting
<1>3. DiskFits /\ RestFits
  BY Fitting
<1>4. PICK mode \in Modes, provider \in Providers, fallback_used \in BOOLEAN :
        /\ AddRow(r, Generation(r), mode, provider, fallback_used)
        /\ Tells(Generation(r), provider, fallback_used)
  BY <1>1, <1>2, Delivering
<1>5. /\ made' \in [Reports -> Delivery \cup {None}]
      /\ \A q \in Reports : q # r => made'[q] = made[q]
  BY <1>1, <1>2, Delivering
<1>6. \A q \in Reports :
        handle'[q] = IF q = r THEN "none"
                     ELSE IF handle[q] # "none" /\ KeyOf(q) = k
                            THEN IF handle[q] = "temp" THEN "file" ELSE "gone"
                            ELSE handle[q]
  BY <1>1, HandlesRenamed
<1> HIDE DEF k
<1>7. handle' \in [Reports -> {"none", "temp", "file", "gone"}]
  <2>1. handle' = [q \in Reports |-> handle'[q]]
    BY <1>1 DEF Renamed
  <2>2. \A q \in Reports : handle'[q] \in {"none", "temp", "file", "gone"}
    BY <1>3, <1>6 DEF DiskFits
  <2> QED BY <2>1, <2>2
<1>8. /\ temp' \in [Keys -> Content \cup {None}] /\ file' \in [Keys -> Content \cup {None}]
      /\ \A j \in Keys : temp'[j] = IF j = k THEN None ELSE temp[j]
      /\ \A j \in Keys : file'[j] = IF j = k THEN temp[k] ELSE file[j]
  BY <1>1, <1>2, <1>3 DEF DiskFits
<1>9. \A j \in Keys : IsOffered(j, temp'[j]) /\ IsOffered(j, file'[j])
  <2>1. IsOffered(k, None)
    BY DEF IsOffered
  <2> QED BY <1>2, <1>3, <1>8, <2>1 DEF DiskFits, FilesAreOffered
<1>10. FilesAreOffered' /\ OfferedIsHonest'
  BY <1>1, <1>3, <1>9 DEF DiskFits, FilesAreOffered, IsOffered, OfferedIsHonest
<1>11. DiskFits' /\ RestFits'
  BY <1>1, <1>3, <1>5, <1>7, <1>8, <1>10 DEF DiskFits, RestFits, constants
<1>12. \A q \in Reports :
        /\ handle'[q] # "none" => q # r /\ handle[q] # "none"
        /\ handle'[q] = "temp" => temp'[KeyOf(q)] # None
        /\ handle'[q] = "file" => file'[KeyOf(q)] # None
  <2> SUFFICES ASSUME NEW q \in Reports, handle[q] # "none", q # r
               PROVE  /\ handle'[q] = "temp" => temp'[KeyOf(q)] # None
                      /\ handle'[q] = "file" => file'[KeyOf(q)] # None
    BY <1>6
  <2>1. KeyOf(q) \in Keys
    BY HandleKey
  <2> QED BY <1>1, <1>6, <1>8, <2>1, HandleKey DEF k
<1> QED BY <1>1, <1>2, <1>4, <1>5, <1>11, <1>12, RowStep

\* A put that fails delivers all the same, and gives up its handle.
LEMMA PutFailsStep ==
    ASSUME SignalInv, NEW r \in Reports, RenameFails(r) \/ PutFails(r)
    PROVE  SignalInv'
<1>1. /\ UNCHANGED <<constants, temp, file, offered, output>> /\ DeliverMade(r)
      /\ pc[r] \in {"opening", "writing", "renaming"}
      /\ handle' = [handle EXCEPT ![r] = "none"]
      /\ mishaps' = mishaps \/ (mishaps < MaxMishaps /\ mishaps' = mishaps + 1)
  BY DEF RenameFails, PutFails
<1>2. /\ Len(rows[r]) < Len(tables.scoring) /\ Prior(r) = {}
      /\ Fits(r, made[r]) /\ Generation(r) \in Made
      /\ Generation(r).input = Input(r) /\ Honest(Generation(r))
  BY <1>1, Putting
<1>3. PICK mode \in Modes, provider \in Providers, fallback_used \in BOOLEAN :
        /\ AddRow(r, Generation(r), mode, provider, fallback_used)
        /\ Tells(Generation(r), provider, fallback_used)
  BY <1>1, <1>2, Delivering
<1>4. /\ made' \in [Reports -> Delivery \cup {None}]
      /\ \A q \in Reports : q # r => made'[q] = made[q]
  BY <1>1, <1>2, Delivering
<1>5. DiskFits' /\ RestFits'
  BY <1>1, <1>4, Fitting, BoundAssumption DEF DiskFits, RestFits, FilesAreOffered, IsOffered,
     OfferedIsHonest, constants
<1>6. \A q \in Reports :
        /\ handle'[q] # "none" => q # r /\ handle[q] # "none"
        /\ handle'[q] = "temp" => temp'[KeyOf(q)] # None
        /\ handle'[q] = "file" => file'[KeyOf(q)] # None
  <2>1. \A q \in Reports : handle'[q] = IF q = r THEN "none" ELSE handle[q]
    BY <1>1, Fitting DEF DiskFits
  <2> QED BY <1>1, <2>1 DEF SignalInv, HandlesLead
<1> QED BY <1>1, <1>2, <1>3, <1>4, <1>5, <1>6, RowStep

\* A report that is stopped leaves its file behind.
LEMMA CrashStep ==
    ASSUME SignalInv, NEW r \in Reports, Crash(r)
    PROVE  SignalInv'
<1>1. /\ UNCHANGED <<constants, temp, file, rows, offered, output>> /\ Goto(r, "dead")
      /\ handle' = [handle EXCEPT ![r] = "none"] /\ made' = [made EXCEPT ![r] = None]
      /\ mishaps < MaxMishaps /\ mishaps' = mishaps + 1
  BY DEF Crash
<1>2. /\ made' \in [Reports -> Delivery \cup {None}]
      /\ \A q \in Reports : q # r => made'[q] = made[q]
      /\ \A q \in Reports : handle'[q] = IF q = r THEN "none" ELSE handle[q]
  BY <1>1, Fitting DEF DiskFits, RestFits
<1>3. DiskFits' /\ RestFits'
  BY <1>1, <1>2, Fitting, BoundAssumption DEF DiskFits, RestFits, FilesAreOffered, IsOffered,
     OfferedIsHonest, constants
<1>4. \A q \in Reports :
        /\ handle'[q] = "temp" => temp'[KeyOf(q)] # None
        /\ handle'[q] = "file" => file'[KeyOf(q)] # None
  BY <1>1, <1>2 DEF SignalInv, HandlesLead
<1>5. "dead" \in Running \cup {"done", "failed", "dead"} /\ "dead" \notin Working
  BY DEF Working
<1> QED BY <1>1, <1>2, <1>3, <1>4, <1>5, OnwardStep DEF Working

\* Nothing happens.
LEMMA StutterStep == ASSUME SignalInv, UNCHANGED vars PROVE SignalInv'
<1>1. UNCHANGED constants /\ \A q \in Reports : rows'[q] = rows[q]
  BY DEF vars, constants
<1>2. \A q \in Reports : Input(q)' = Input(q) /\ KeyOf(q)' = KeyOf(q) /\ Prior(q)' = Prior(q)
  BY <1>1, SameRows
<1> USE DEF vars, SignalInv
<1>3. TypeOK'
  <2>1. Row' = Row
    BY DEF Row
  <2> QED BY <2>1 DEF TypeOK
<1>4. WorkIsNew' /\ MadeFits' /\ HandlesLead' /\ PutsAreOffered'
  BY <1>2 DEF WorkIsNew, MadeFits, Fits, HandlesLead, PutsAreOffered, Generation
<1>5. FilesAreOffered' /\ OfferedIsHonest' /\ RowsFit' /\ OneTextOneAnswer'
  BY DEF FilesAreOffered, IsOffered, OfferedIsHonest, RowsFit, OneTextOneAnswer
<1> QED BY <1>3, <1>4, <1>5
-----------------------------------------------------------------------------
(* The theorems.                                                           *)

\* However the reports, the writers of one temporary file, the failures and the
\* crashes interleave: the state is typed, rows are about their payments' texts,
\* one text has one answer, and files hold what was offered under their key.
THEOREM Inductive == Spec => []SignalInv
<1>1. SignalInv /\ [Next]_vars => SignalInv'
  <2> SUFFICES ASSUME SignalInv, [Next]_vars PROVE SignalInv'
    OBVIOUS
  <2>1. ASSUME NEW r \in Reports, Begin(r) \/ Step(r) \/ PutFails(r) \/ Crash(r)
        PROVE  SignalInv'
    BY <2>1, ReportStep, ReuseStep, ReadHitStep, ReadMissStep, ExtractStep, OpenTempStep,
       WriteTempStep, RenameTempStep, PutFailsStep, CrashStep DEF Step
  <2>2. CASE UNCHANGED vars
    BY <2>2, StutterStep
  <2> QED BY <2>1, <2>2 DEF Next
<1> QED BY InitStep, <1>1, PTL DEF Spec

\* The state of the service is typed.
THEOREM TypeCorrect == Spec => []TypeOK
<1>1. SignalInv => TypeOK
  BY DEF SignalInv
<1> QED BY Inductive, <1>1, PTL

\* Two payments with one text get one answer in a report.
THEOREM OneTextOneAnswerAlways == Spec => []OneTextOneAnswer
<1>1. SignalInv => OneTextOneAnswer
  BY DEF SignalInv
<1> QED BY Inductive, <1>1, PTL

\* A row of a report, its position in the scoring table, and its payment.
LEMMA RowOf ==
    ASSUME SignalInv, NEW row \in AllRows
    PROVE  \E i \in DOMAIN tables.scoring :
              /\ row.payment = tables.scoring[i].payment
              /\ ScoringAt(row.payment) = tables.scoring[i].at
              /\ tables.scoring[i].at \in Nat
              /\ row.made.input = Compilations[tables][i].payload
              /\ Honest(row.made)
              /\ Tells(row.made, row.provider, row.fallback_used)
<1>1. PICK r \in Reports : \E i \in DOMAIN rows[r] : row = rows[r][i]
  BY DEF AllRows
<1>2. PICK i \in DOMAIN rows[r] : row = rows[r][i]
  BY <1>1
<1> DEFINE s == tables.scoring
<1>3. PICK P : s \in Seq([payment : P, at : Nat])
  BY DatasetsAssumption DEF SignalInv, TypeOK
<1>4. i \in DOMAIN s
  <2>1. rows[r] \in Seq(Row) /\ Len(rows[r]) <= Len(s)
    BY DEF SignalInv, TypeOK
  <2>2. DOMAIN rows[r] = 1 .. Len(rows[r]) /\ Len(rows[r]) \in Nat
    BY <2>1
  <2>3. DOMAIN s = 1 .. Len(s) /\ Len(s) \in Nat
    BY <1>3
  <2> HIDE DEF s
  <2> QED BY <2>1, <2>2, <2>3
<1>5. s[i] \in [payment : P, at : Nat]
  <2> DEFINE Entry == [payment : P, at : Nat]
  <2> HIDE DEF Entry, s
  <2>1. s \in Seq(Entry)
    BY <1>3 DEF Entry
  <2>2. s[i] \in Entry
    BY <1>4, <2>1
  <2> QED BY <2>2 DEF Entry
<1>6. \A j \in DOMAIN s : s[i].payment = s[j].payment => i = j
  BY <1>4, DatasetsAssumption DEF SignalInv, TypeOK
<1>7. row.payment = s[i].payment
  BY <1>2 DEF SignalInv, RowsFit
<1>8. ScoringAt(row.payment) = s[i].at
  <2>1. \A x \in {s[j] : j \in DOMAIN s} : x.payment = s[i].payment <=> x = s[i]
    BY <1>4, <1>6
  <2>2. (CHOOSE x \in {s[j] : j \in DOMAIN s} : x.payment = s[i].payment) = s[i]
    BY <1>4, <2>1
  <2> QED BY <1>7, <2>2 DEF ScoringAt
<1> QED BY <1>2, <1>4, <1>5, <1>7, <1>8 DEF SignalInv, RowsFit

\* Rows rest on texts of their own payment that were there when it was scored,
\* without injected and without personal text.
THEOREM RowsRestOnObservedTextAlways == Spec => []RowsRestOnObservedText
<1>1. SignalInv => RowsRestOnObservedText
  <2> SUFFICES ASSUME SignalInv, NEW row \in AllRows, NEW j \in DOMAIN row.made.input
               PROVE  \E e \in tables.events :
                         /\ e.payment = row.payment
                         /\ e.at <= ScoringAt(row.payment)
                         /\ ~ e.text.injected
                         /\ row.made.input[j] = ShownAs(e)
    BY DEF RowsRestOnObservedText, ShownAs
  <2>1. PICK i \in DOMAIN tables.scoring :
          /\ row.payment = tables.scoring[i].payment
          /\ ScoringAt(row.payment) = tables.scoring[i].at
          /\ tables.scoring[i].at \in Nat
          /\ row.made.input = Compilations[tables][i].payload
    BY RowOf
  <2>2. tables \in Datasets
    BY DEF SignalInv, TypeOK
  <2>3. PICK e \in SafeEvents(tables.scoring[i].payment, tables.scoring[i].at, tables.events) :
          row.made.input[j] = ShownAs(e)
    BY <2>1, <2>2, CompiledText
  <2>4. /\ e \in tables.events /\ e.payment = tables.scoring[i].payment
        /\ ~ (e.at > tables.scoring[i].at) /\ ~ e.text.injected
    BY <2>3 DEF SafeEvents, SelectedEvents, Future, Injected
  <2>5. e.at \in Nat
    BY <2>2, <2>4, DatasetsAssumption
  <2> QED BY <2>1, <2>3, <2>4, <2>5
<1> QED BY Inductive, <1>1, PTL

\* Deterministic signals are those that match in the newest texts of the payment
\* taken together in their order, also when they come from a file that was
\* written over, or from another payment's row.
THEOREM FallbackSaysWhatTheTextSaysAlways == Spec => []FallbackSaysWhatTheTextSays
<1>1. SignalInv => FallbackSaysWhatTheTextSays
  <2> SUFFICES ASSUME SignalInv, NEW row \in AllRows,
                      row.made.origin = "rules"
               PROVE  row.made.signals = Matched(TextsInTurn(Newest(Observed(row.payment))))
    BY DEF FallbackSaysWhatTheTextSays, Told
  <2>1. PICK i \in DOMAIN tables.scoring :
          /\ row.payment = tables.scoring[i].payment
          /\ ScoringAt(row.payment) = tables.scoring[i].at
          /\ tables.scoring[i].at \in Nat
          /\ row.made.input = Compilations[tables][i].payload
          /\ Honest(row.made)
    BY RowOf
  <2>2. tables \in Datasets
    BY DEF SignalInv, TypeOK
  <2> DEFINE S == SafeEvents(tables.scoring[i].payment, tables.scoring[i].at, tables.events)
  <2>3. Extracted(row.made.input) = Matched(TextsInTurn(Newest(S)))
    BY <2>1, <2>2, CompiledText
  <2>4. S = Observed(row.payment)
    <3>1. \A e \in tables.events : e.at \in Nat
      BY <2>2, DatasetsAssumption
    <3>2. \A e \in tables.events :
            ~ (e.at > tables.scoring[i].at) <=> e.at <= ScoringAt(row.payment)
      BY <2>1, <3>1
    <3> QED BY <2>1, <3>2 DEF SafeEvents, SelectedEvents, Future, Injected, Observed
  <2> QED BY <2>1, <2>3, <2>4 DEF Honest
<1> QED BY Inductive, <1>1, PTL

\* A row names the provider its signals come from and says whether they are a
\* fallback, made for it, read from the cache or copied from another row.
THEOREM FallbackIsDeclaredAlways == Spec => []FallbackIsDeclared
<1>1. SignalInv => FallbackIsDeclared
  BY RowOf DEF FallbackIsDeclared, Tells
<1> QED BY Inductive, <1>1, PTL
-----------------------------------------------------------------------------
(* The cache is an AtomicCache to its readers.                             *)

Writing == {"writing", "renaming"}

\* A step of one report changes only its own part of the puts under way.
LEMMA BusyAfter ==
    ASSUME NEW r \in Reports, UNCHANGED constants,
           \A q \in Reports : q # r => rows'[q] = rows[q] /\ pc'[q] = pc[q]
    PROVE  \E others :
              /\ busy = others \cup {k \in {KeyOf(r)} : pc[r] \in Writing}
              /\ busy' = others \cup {k \in {KeyOf(r)'} : pc'[r] \in Writing}
<1> DEFINE others == {KeyOf(q) : q \in {q \in Reports \ {r} : pc[q] \in Writing}}
<1>1. \A q \in Reports : q # r => KeyOf(q)' = KeyOf(q)
  BY SameRows
<1>2. busy = others \cup {k \in {KeyOf(r)} : pc[r] \in Writing}
  BY DEF busy, Writing
<1>3. busy' = others \cup {k \in {KeyOf(r)'} : pc'[r] \in Writing}
  <2>1. busy' = {KeyOf(q)' : q \in {q \in Reports : pc'[q] \in Writing}}
    BY DEF busy, Writing
  <2> QED BY <1>1, <2>1
<1> QED BY <1>2, <1>3

\* What a reader finds changes only with the files.
LEMMA SameEntries == ASSUME UNCHANGED file PROVE entries' = entries
BY DEF entries, Readable, Size

\* A step that begins or ends no put, and leaves the files alone, is none of the
\* cache.
LEMMA QuietRefines ==
    ASSUME SignalInv, NEW r \in Reports,
           Begin(r) \/ Reuse(r) \/ RowFails(r) \/ Finish(r) \/ ReadHit(r) \/ ReadMiss(r)
              \/ ExtractSucceeds(r) \/ ExtractFails(r)
    PROVE  UNCHANGED Cache!vars
<1> USE DEF Begin, Reuse, Reused, RowFails, Finish, ReadHit, ReadMiss, ExtractSucceeds, ExtractFails
<1>1. UNCHANGED <<constants, file, offered>>
  BY DEF disk
<1>2. pc[r] \notin Writing
  BY DEF Writing, AtService, AtRow
<1>3. \E step \in {"row", "failed", "done", "opening", "extracting"} :
         pc' = [pc EXCEPT ![r] = step]
  BY DEF Goto, Make, AddRow
<1>4. \A q \in Reports : q # r => rows'[q] = rows[q]
  BY DEF AddRow, SignalInv, TypeOK
<1>5. pc'[r] \notin Writing /\ \A q \in Reports : q # r => pc'[q] = pc[q]
  BY <1>3 DEF Writing, SignalInv, TypeOK
<1>6. busy' = busy
  <2>1. PICK others : /\ busy = others \cup {k \in {KeyOf(r)} : pc[r] \in Writing}
                      /\ busy' = others \cup {k \in {KeyOf(r)'} : pc'[r] \in Writing}
    BY <1>1, <1>4, <1>5, BusyAfter
  <2> QED BY <1>2, <1>5, <2>1
<1> QED BY <1>1, <1>6, SameEntries DEF Cache!vars

\* An opened file begins a put.
LEMMA OpenTempRefines ==
    ASSUME SignalInv, NEW r \in Reports, OpenTemp(r)
    PROVE  Cache!Next
<1> DEFINE k == KeyOf(r)
           o == [key |-> k, value |-> Generation(r)]
<1>1. /\ UNCHANGED <<constants, file, rows>> /\ pc[r] = "opening"
      /\ pc' = [pc EXCEPT ![r] = "writing"] /\ offered' = offered \cup {o}
  BY DEF OpenTemp, Goto
<1>2. pc'[r] = "writing" /\ \A q \in Reports : q # r => pc'[q] = pc[q]
  BY <1>1 DEF SignalInv, TypeOK
<1>3. KeyOf(r)' = k
  BY <1>1, SameRows
<1>4. busy' = busy \cup {k}
  <2>1. PICK others : /\ busy = others \cup {j \in {KeyOf(r)} : pc[r] \in Writing}
                      /\ busy' = others \cup {j \in {KeyOf(r)'} : pc'[r] \in Writing}
    BY <1>1, <1>2, BusyAfter
  <2> QED BY <1>1, <1>2, <1>3, <2>1 DEF Writing
<1> HIDE DEF k
<1>5. Cache!BeginPut(o.key, o.value)
  BY <1>1, <1>4, SameEntries DEF Cache!BeginPut
<1>6. o \in offered'
  BY <1>1
<1> QED BY <1>5, <1>6 DEF Cache!Next

\* A text of a file that was offered is an entry that was put, or none.
LEMMA OfferedValue ==
    ASSUME SignalInv, NEW k \in Keys, NEW c, IsOffered(k, c)
    PROVE  (IF Readable(c) THEN c.entry ELSE None)
              \in {o.value : o \in {p \in offered : p.key = k}} \cup {None}
<1>1. CASE Readable(c)
  <2>1. [key |-> k, value |-> c.entry] \in {p \in offered : p.key = k}
    BY <1>1 DEF IsOffered, Readable
  <2> QED BY <1>1, <2>1
<1> QED BY <1>1

\* What replaces the text of one file settles a put of its key.
LEMMA FileReplaced ==
    ASSUME SignalInv, NEW k \in Keys, NEW c, IsOffered(k, c),
           file' = [file EXCEPT ![k] = c], k \in busy, busy' \in {busy, busy \ {k}},
           UNCHANGED offered
    PROVE  Cache!Next
<1> DEFINE v == IF Readable(c) THEN c.entry ELSE None
<1>1. entries' = [entries EXCEPT ![k] = v]
  <2>1. entries' = [j \in Keys |-> IF Readable(file'[j]) THEN file'[j].entry ELSE None]
    BY DEF entries, Readable, Size
  <2>2. \A j \in Keys : file'[j] = IF j = k THEN c ELSE file[j]
    BY DEF SignalInv, TypeOK
  <2>3. \A j \in Keys : entries'[j] = IF j = k THEN v ELSE entries[j]
    BY <2>1, <2>2 DEF entries
  <2>4. entries = [j \in Keys |-> entries[j]] /\ entries' = [j \in Keys |-> entries'[j]]
    BY <2>1 DEF entries
  <2> HIDE DEF v
  <2> QED BY <2>3, <2>4
<1>2. v \in {o.value : o \in {p \in offered : p.key = k}} \cup {None}
  BY OfferedValue
<1> HIDE DEF v
<1>3. Cache!Settle(k)
  BY <1>1, <1>2 DEF Cache!Settle
<1> QED BY <1>3 DEF Cache!Next

\* A write through a handle that has gone to the entry settles a put; any other
\* is none of the cache.
LEMMA WriteTempRefines ==
    ASSUME SignalInv, NEW r \in Reports, WriteTemp(r)
    PROVE  [Cache!Next]_(Cache!vars)
<1> DEFINE k == KeyOf(r)
<1>1. /\ UNCHANGED <<constants, rows, offered>> /\ pc[r] = "writing"
      /\ pc' = [pc EXCEPT ![r] = "renaming"]
      /\ file' = IF handle[r] = "file"
                   THEN [file EXCEPT ![k] = Over(file[k], Generation(r))] ELSE file
  BY DEF WriteTemp, Goto
<1>2. pc'[r] = "renaming" /\ \A q \in Reports : q # r => pc'[q] = pc[q]
  BY <1>1 DEF SignalInv, TypeOK
<1>3. KeyOf(r)' = k
  BY <1>1, SameRows
<1>4. busy' = busy /\ k \in busy
  <2>1. PICK others : /\ busy = others \cup {j \in {KeyOf(r)} : pc[r] \in Writing}
                      /\ busy' = others \cup {j \in {KeyOf(r)'} : pc'[r] \in Writing}
    BY <1>1, <1>2, BusyAfter
  <2> QED BY <1>1, <1>2, <1>3, <2>1 DEF Writing
<1>5. k \in Keys /\ [key |-> k, value |-> Generation(r)] \in offered
  BY <1>1, Putting
<1>6. IsOffered(k, Over(file[k], Generation(r)))
  <2>1. Over(file[k], Generation(r)).entry = Generation(r)
    BY DEF Over
  <2> QED BY <1>5, <2>1 DEF IsOffered
<1> HIDE DEF k
<1>7. CASE handle[r] = "file"
  BY <1>1, <1>4, <1>5, <1>6, <1>7, FileReplaced
<1>8. CASE handle[r] # "file"
  BY <1>1, <1>4, <1>8, SameEntries DEF Cache!vars
<1> QED BY <1>7, <1>8

\* A rename settles a put of its key, and ends it unless another is under way.
LEMMA RenameTempRefines ==
    ASSUME SignalInv, NEW r \in Reports, RenameTemp(r)
    PROVE  Cache!Next
<1> DEFINE k == KeyOf(r)
<1>1. /\ UNCHANGED <<constants, offered>> /\ pc[r] = "renaming"
      /\ file' = [file EXCEPT ![k] = temp[k]] /\ DeliverMade(r)
  BY DEF RenameTemp
<1>2. /\ \A q \in Reports : q # r => rows'[q] = rows[q] /\ pc'[q] = pc[q]
      /\ pc'[r] = "row"
  BY <1>1 DEF DeliverMade, AddRow, Goto, SignalInv, TypeOK
<1>3. k \in busy /\ busy' \in {busy, busy \ {k}}
  <2>1. PICK others : /\ busy = others \cup {j \in {KeyOf(r)} : pc[r] \in Writing}
                      /\ busy' = others \cup {j \in {KeyOf(r)'} : pc'[r] \in Writing}
    BY <1>1, <1>2, BusyAfter
  <2> HIDE DEF k
  <2>2. busy = others \cup {k} /\ busy' = others
    BY <1>1, <1>2, <2>1 DEF Writing, k
  <2> QED BY <2>2
<1>4. k \in Keys /\ IsOffered(k, temp[k])
  BY <1>1, Putting DEF SignalInv, FilesAreOffered
<1> HIDE DEF k
<1> QED BY <1>1, <1>3, <1>4, FileReplaced

\* A put that fails, or is stopped, ends without an effect.
LEMMA PutEndsRefines ==
    ASSUME SignalInv, NEW r \in Reports, RenameFails(r) \/ PutFails(r) \/ Crash(r)
    PROVE  Cache!Next
<1>1. UNCHANGED <<constants, file, offered>>
  BY DEF RenameFails, PutFails, Crash
<1>2. /\ \A q \in Reports : q # r => rows'[q] = rows[q] /\ pc'[q] = pc[q]
      /\ pc'[r] \in {"row", "dead"}
  BY DEF RenameFails, PutFails, Crash, DeliverMade, AddRow, Goto, SignalInv, TypeOK
<1>3. busy' \in SUBSET busy
  <2>1. PICK others : /\ busy = others \cup {j \in {KeyOf(r)} : pc[r] \in Writing}
                      /\ busy' = others \cup {j \in {KeyOf(r)'} : pc'[r] \in Writing}
    BY <1>1, <1>2, BusyAfter
  <2> QED BY <1>2, <2>1 DEF Writing
<1> QED BY <1>1, <1>3, SameEntries DEF Cache!Next, Cache!EndPuts

\* Although writers of a key share a temporary file, and fail and crash, a
\* reader finds nothing or a whole entry that was put under the key, and finds
\* another one only while a put of the key is under way.
THEOREM CacheIsAtomicAlways == Spec => CacheIsAtomic
<1>1. Init => Cache!Init
  <2> SUFFICES ASSUME Init PROVE Cache!Init
    OBVIOUS
  <2>1. entries = [k \in Keys |-> None]
    BY DEF Init, entries, Readable
  <2>2. busy = {} /\ offered = {}
    BY DEF Init, busy
  <2> QED BY <2>1, <2>2 DEF Cache!Init
<1>2. SignalInv /\ [Next]_vars => [Cache!Next]_(Cache!vars)
  <2> SUFFICES ASSUME SignalInv, [Next]_vars PROVE [Cache!Next]_(Cache!vars)
    OBVIOUS
  <2>1. ASSUME NEW r \in Reports, Begin(r) \/ Step(r) \/ PutFails(r) \/ Crash(r)
        PROVE  [Cache!Next]_(Cache!vars)
    BY <2>1, QuietRefines, OpenTempRefines, WriteTempRefines, RenameTempRefines,
       PutEndsRefines DEF Step
  <2>2. CASE UNCHANGED vars
    <3>1. busy' = busy
      <4>1. UNCHANGED <<constants, rows, pc>>
        BY <2>2 DEF vars, constants
      <4>2. \A q \in Reports : KeyOf(q)' = KeyOf(q)
        BY <4>1, SameRows
      <4> QED BY <4>1, <4>2 DEF busy
    <3> QED BY <2>2, <3>1, SameEntries DEF vars, Cache!vars
  <2> QED BY <2>1, <2>2 DEF Next
<1> QED BY <1>1, <1>2, Inductive, PTL DEF Spec, CacheIsAtomic, Cache!Spec
=============================================================================

---------------------------- MODULE StoreProofs -----------------------------
(****************************************************************************)
(* The SQL store implements the point-in-time store it promises to be, for  *)
(* any number of concurrent writers and readers and any observations, and   *)
(* so does the whole way into it: sweeps, gateway and transactions. That    *)
(* the collapse of a result row by row ends at the latest revisions needs   *)
(* no induction over the rows: what is kept so far outranks all that has    *)
(* been seen.                                                               *)
(****************************************************************************)
EXTENDS Ingest, CountingLemmas

\* The rows a reader has been through, of those its query returned.
Seen(r) == rows[r] \ todo[r]

\* b is the correction of c that counts, or c itself.
Outranks(b, c) == b.fact = c.fact /\ (b = c \/ Newer(b, c))

\* Of a set of rows, one row per fact that outranks every row of that fact.
Kept(B, F) ==
  /\ B \subseteq F
  /\ \A b, c \in B : b.fact = c.fact => b = c
  /\ \A c \in F : \E b \in B : Outranks(b, c)

\* What it has kept is the latest revision of each fact it has seen.
KeptSoFar(r) == Kept(best[r], Seen(r))

\* What one more row makes of the rows kept.
With(B, o) == IF \E c \in B : Supersedes(o, c) THEN B
              ELSE {c \in B : c.fact # o.fact} \cup {o}

\* A reader holds one row per id, and has kept what outranks all it has been through.
ReaderInv ==
  \A r \in Reader :
    /\ todo[r] \subseteq rows[r] /\ OneRowPerId(rows[r])
    /\ KeptSoFar(r)
    /\ ~reading[r] => rows[r] = {} /\ best[r] = {}

\* A writer without a session holds no rows.
Idle == \A w \in Writer : ~open[w] => batch[w] = {} /\ merged[w] = {} /\ fresh[w] = {}

\* The inductive invariant of the store.
StoreInv == StoreTypeOK /\ Idle /\ ReaderInv

-----------------------------------------------------------------------------
(* The order of revisions                                                   *)

\* Newer orders the rows of one fact.
LEMMA NewerOrder ==
  ASSUME NEW a \in Feed, NEW b \in Feed
  PROVE  /\ ~Newer(a, a)
         /\ ~(Newer(a, b) /\ Newer(b, a))
         /\ a.fact = b.fact /\ ~SameId(a, b) => Newer(a, b) \/ Newer(b, a)
         /\ SameId(a, b) => ~Newer(a, b)
  BY FactsAssumption DEF Newer, SameId

\* And transitively.
LEMMA NewerTransitive ==
  ASSUME NEW a \in Feed, NEW b \in Feed, NEW c \in Feed, Newer(a, b), Newer(b, c)
  PROVE  Newer(a, c)
  BY FactsAssumption DEF Newer

\* What outranks everything of a set, and is of it, is its latest revisions.
LEMMA KeptIsLatest ==
  ASSUME NEW F \in SUBSET Feed, NEW B, Kept(B, F)
  PROVE  B = Latest(F)
<1> USE DEF Kept
<1>1. ASSUME NEW b \in B
      PROVE  b \in Latest(F)
  <2>1. ASSUME NEW c \in F, c.fact = b.fact, Newer(c, b)
        PROVE  FALSE
    <3>1. PICK a \in B : Outranks(a, c)
      OBVIOUS
    <3>2. a = b
      BY <2>1, <3>1 DEF Outranks
    <3>3. QED
      BY <2>1, <3>1, <3>2, NewerOrder DEF Outranks
  <2>2. QED
    BY <2>1 DEF Latest
<1>2. ASSUME NEW c \in Latest(F)
      PROVE  c \in B
  <2>1. c \in F
    BY DEF Latest
  <2>2. PICK b \in B : Outranks(b, c)
    BY <2>1
  <2>3. QED
    BY <2>2 DEF Latest, Outranks
<1>3. QED
  BY <1>1, <1>2

\* One row more of the result keeps that up.
LEMMA CollapseOne ==
  ASSUME NEW F \in SUBSET Feed, NEW B, NEW o \in Feed,
         OneRowPerId(F \cup {o}), Kept(B, F)
  PROVE  Kept(With(B, o), F \cup {o})
<1> DEFINE D == With(B, o)
<1> USE DEF Kept, With
<1>1. CASE \E c \in B : Supersedes(o, c)
  <2>1. PICK c \in B : Supersedes(o, c)
    BY <1>1
  <2>2. Outranks(c, o)
    <3>1. c \in Feed /\ c.fact = o.fact /\ ~Newer(o, c)
      BY <2>1 DEF Supersedes
    <3>2. c = o \/ ~SameId(c, o)
      BY DEF OneRowPerId
    <3>3. QED
      BY <3>1, <3>2, NewerOrder DEF Outranks
  <2>3. QED
    BY <1>1, <2>1, <2>2
<1>2. CASE \A c \in B : ~Supersedes(o, c)
  <2>1. D = {c \in B : c.fact # o.fact} \cup {o}
    BY <1>2
  <2>2. ASSUME NEW c \in F
        PROVE  \E b \in D : Outranks(b, c)
    <3>1. PICK b \in B : Outranks(b, c)
      OBVIOUS
    <3>2. CASE b.fact # o.fact
      BY <2>1, <3>1, <3>2
    <3>3. CASE b.fact = o.fact
      <4>1. Newer(o, b)
        BY <1>2, <3>3 DEF Supersedes
      <4>2. Newer(o, c)
        BY <3>1, <4>1, NewerTransitive DEF Outranks
      <4>3. QED
        BY <2>1, <3>1, <3>3, <4>2 DEF Outranks
    <3>4. QED
      BY <3>2, <3>3
  <2>3. Outranks(o, o)
    BY DEF Outranks
  <2>4. QED
    BY <2>1, <2>2, <2>3
<1>3. QED
  BY <1>1, <1>2

\* A batch merged into the table leaves one row per id.
LEMMA ReplaceKeepsIds ==
  ASSUME NEW F, NEW B, OneRowPerId(F), OneRowPerId(B)
  PROVE  OneRowPerId(Replace(F, B))
  BY DEF OneRowPerId, Replace, SameId

-----------------------------------------------------------------------------
(* The invariant                                                            *)

\* Initially the table is empty and nobody writes or reads.
LEMMA StoreInitInv == StoreInit => StoreInv
  BY DEF StoreInit, StoreInv, StoreTypeOK, Idle, ReaderInv, OneRowPerId, KeptSoFar, Kept, Seen

\* A session ends without touching the table.
LEMMA CloseTypes ==
  ASSUME StoreTypeOK, NEW w \in Writer, Close(w), UNCHANGED reader,
         table' \subseteq Feed, OneRowPerId(table')
  PROVE  StoreTypeOK'
<1>1. \A v \in Writer : batch'[v] \subseteq batch[v] /\ merged'[v] \subseteq merged[v]
  BY DEF StoreTypeOK, Close
<1>2. \A v \in Writer : fresh'[v] \subseteq merged'[v]
  BY DEF StoreTypeOK, Close
<1>3. \A v \in Writer : OneRowPerId(batch'[v] \cup merged'[v])
  BY <1>1 DEF StoreTypeOK, OneRowPerId
<1>4. /\ open' \in [Writer -> BOOLEAN] /\ batch' \in [Writer -> SUBSET Feed]
      /\ merged' \in [Writer -> SUBSET Feed] /\ fresh' \in [Writer -> SUBSET Feed]
  BY DEF StoreTypeOK, Close
<1>5. \A v \in Writer : batch'[v] \cap merged'[v] = {}
  BY <1>1 DEF StoreTypeOK
<1>6. QED
  BY <1>2, <1>3, <1>4, <1>5 DEF StoreTypeOK, reader

\* A writer's step keeps the types; the readers keep what they selected.
LEMMA WriterStep ==
  ASSUME StoreInv, NEW w \in Writer,
         \/ \E B \in SUBSET Feed : Begin(w, B)
         \/ Merge(w) \/ Commit(w) \/ Refuse(w) \/ Abort(w)
  PROVE  StoreInv' /\ UNCHANGED reader
<1>1. UNCHANGED reader
  BY DEF Begin, Merge, Commit, Refuse, Abort
<1>2. StoreTypeOK'
  <2>1. ASSUME NEW B \in SUBSET Feed, Begin(w, B)
        PROVE  StoreTypeOK'
    <3>1. OneRowPerId(B) /\ batch' = [batch EXCEPT ![w] = B]
          /\ UNCHANGED <<table, merged, fresh, reader>> /\ open' = [open EXCEPT ![w] = TRUE]
      BY <2>1 DEF Begin
    <3>2. merged[w] = {} /\ fresh[w] = {}
      BY <2>1 DEF StoreInv, Idle, Begin
    <3>3. /\ batch' \in [Writer -> SUBSET Feed] /\ open' \in [Writer -> BOOLEAN]
          /\ batch'[w] = B /\ \A v \in Writer \ {w} : batch'[v] = batch[v]
      BY <3>1 DEF StoreInv, StoreTypeOK
    <3>4. ASSUME NEW v \in Writer
          PROVE  /\ OneRowPerId(batch'[v] \cup merged'[v])
                 /\ batch'[v] \cap merged'[v] = {} /\ fresh'[v] \subseteq merged'[v]
      <4>1. CASE v = w
        BY <3>1, <3>2, <3>3, <4>1
      <4>2. CASE v # w
        BY <3>1, <3>3, <4>2 DEF StoreInv, StoreTypeOK
      <4>3. QED
        BY <4>1, <4>2
    <3>5. QED
      BY <3>1, <3>3, <3>4 DEF StoreInv, StoreTypeOK, reader
  <2>2. CASE Merge(w)
    <3>1. PICK o \in batch[w] :
            /\ batch' = [batch EXCEPT ![w] = @ \ {o}]
            /\ merged' = [merged EXCEPT ![w] = @ \cup {o}]
            /\ fresh' = IF \E c \in table : SameId(o, c) THEN fresh
                        ELSE [fresh EXCEPT ![w] = @ \cup {o}]
      BY <2>2 DEF Merge
    <3>2. /\ batch \in [Writer -> SUBSET Feed] /\ merged \in [Writer -> SUBSET Feed]
          /\ fresh \in [Writer -> SUBSET Feed] /\ o \in Feed
      BY DEF StoreInv, StoreTypeOK
    <3>3. /\ batch' \in [Writer -> SUBSET Feed] /\ merged' \in [Writer -> SUBSET Feed]
          /\ fresh' \in [Writer -> SUBSET Feed]
      BY <3>1, <3>2
    <3>4. ASSUME NEW v \in Writer
          PROVE  /\ OneRowPerId(batch'[v] \cup merged'[v])
                 /\ batch'[v] \cap merged'[v] = {} /\ fresh'[v] \subseteq merged'[v]
      <4>1. /\ OneRowPerId(batch[v] \cup merged[v])
            /\ batch[v] \cap merged[v] = {} /\ fresh[v] \subseteq merged[v]
        BY DEF StoreInv, StoreTypeOK
      <4>2. CASE v = w
        <5>1. batch'[v] = batch[v] \ {o} /\ merged'[v] = merged[v] \cup {o}
              /\ fresh'[v] \subseteq fresh[v] \cup {o}
          BY <3>1, <3>2, <4>2
        <5>2. batch'[v] \cup merged'[v] = batch[v] \cup merged[v]
          BY <4>2, <5>1
        <5>3. QED
          BY <4>1, <5>1, <5>2
      <4>3. CASE v # w
        BY <3>1, <3>2, <4>1, <4>3
      <4>4. QED
        BY <4>2, <4>3
    <3>5. QED
      BY <2>2, <3>3, <3>4 DEF StoreInv, StoreTypeOK, Merge, reader
  <2>3. CASE Commit(w)
    <3>1. table' \subseteq Feed /\ OneRowPerId(table')
      <4>1. OneRowPerId(merged[w]) /\ merged[w] \subseteq Feed
        BY DEF StoreInv, StoreTypeOK, OneRowPerId
      <4>2. QED
        BY <2>3, <4>1, ReplaceKeepsIds DEF StoreInv, StoreTypeOK, Commit, Replace
    <3>2. QED
      BY <1>1, <2>3, <3>1, CloseTypes DEF StoreInv, Commit
  <2>4. CASE Refuse(w) \/ Abort(w)
    BY <1>1, <2>4, CloseTypes DEF StoreInv, StoreTypeOK, Refuse, Abort
  <2>5. QED
    BY <2>1, <2>2, <2>3, <2>4
<1>3. ReaderInv'
  BY <1>1 DEF StoreInv, ReaderInv, reader, KeptSoFar, Kept, Seen
<1>4. Idle'
  BY DEF StoreInv, StoreTypeOK, Idle, Begin, Merge, Commit, Refuse, Abort, Close
<1>5. QED
  BY <1>1, <1>2, <1>3, <1>4 DEF StoreInv

\* A reader's selection is of one instant.
LEMMA SelectStep ==
  ASSUME StoreInv, NEW r \in Reader, Select(r)
  PROVE  StoreInv'
<1>1. PICK k \in Instant : /\ rows' = [rows EXCEPT ![r] = Readable(table, k)]
                           /\ todo' = [todo EXCEPT ![r] = Readable(table, k)]
  BY DEF Select
<1>2. Readable(table, k) \subseteq table /\ table \subseteq Feed /\ OneRowPerId(table)
  BY DEF Readable, StoreInv, StoreTypeOK
<1>3. StoreTypeOK'
  BY <1>1, <1>2 DEF StoreInv, StoreTypeOK, Select, session
<1>4. ASSUME NEW q \in Reader
      PROVE  /\ todo'[q] \subseteq rows'[q] /\ OneRowPerId(rows'[q])
             /\ KeptSoFar(q)'
             /\ ~reading'[q] => rows'[q] = {} /\ best'[q] = {}
  <2>1. CASE q = r
    <3>1. best'[r] = {} /\ todo'[r] = rows'[r] /\ reading'[r] /\ rows'[r] \subseteq table
      BY <1>1, <1>2 DEF StoreInv, StoreTypeOK, ReaderInv, Select
    <3>2. QED
      BY <1>2, <2>1, <3>1 DEF KeptSoFar, Kept, Seen, OneRowPerId
  <2>2. CASE q # r
    BY <1>1, <2>2 DEF StoreInv, StoreTypeOK, ReaderInv, Select, KeptSoFar, Kept, Seen
  <2>3. QED
    BY <2>1, <2>2
<1>5. Idle'
  BY DEF StoreInv, Idle, Select, session
<1>6. QED
  BY <1>3, <1>4, <1>5 DEF StoreInv, ReaderInv

\* A row is collapsed.
LEMMA CollapseStep ==
  ASSUME StoreInv, NEW r \in Reader, Collapse(r)
  PROVE  StoreInv'
<1>1. PICK o \in todo[r] :
        /\ todo' = [todo EXCEPT ![r] = @ \ {o}]
        /\ best' = [best EXCEPT ![r] =
             IF \E c \in @ : Supersedes(o, c) THEN @
             ELSE {c \in @ : c.fact # o.fact} \cup {o}]
  BY DEF Collapse
<1>2. UNCHANGED <<table, session, reading, rows, answer>> /\ reading[r]
  BY DEF Collapse
<1>3. /\ todo[r] \subseteq rows[r] /\ rows[r] \subseteq Feed /\ OneRowPerId(rows[r])
      /\ KeptSoFar(r)
  BY DEF StoreInv, StoreTypeOK, ReaderInv
<1>4. /\ best'[r] = IF \E c \in best[r] : Supersedes(o, c) THEN best[r]
                    ELSE {c \in best[r] : c.fact # o.fact} \cup {o}
      /\ Seen(r)' = Seen(r) \cup {o}
  BY <1>1, <1>2, <1>3 DEF StoreInv, StoreTypeOK, Seen
<1>5. KeptSoFar(r)'
  <2>1. OneRowPerId(Seen(r) \cup {o}) /\ Seen(r) \subseteq Feed
    BY <1>3 DEF Seen, OneRowPerId
  <2>2. Seen(r) \in SUBSET Feed /\ o \in Feed /\ Kept(best[r], Seen(r))
    BY <1>3, <2>1 DEF KeptSoFar
  <2>3. Kept(With(best[r], o), Seen(r) \cup {o})
    BY <2>1, <2>2, CollapseOne
  <2>4. QED
    BY <1>4, <2>3 DEF KeptSoFar, With
<1>6. StoreTypeOK'
  <2>1. best'[r] \subseteq Feed
    BY <1>3, <1>5 DEF KeptSoFar, Kept, Seen, Collapse
  <2>2. best' \in [Reader -> SUBSET Feed] /\ todo' \in [Reader -> SUBSET Feed]
    BY <1>1, <2>1 DEF StoreInv, StoreTypeOK
  <2>3. QED
    BY <1>2, <2>2 DEF StoreInv, StoreTypeOK, session
<1>7. ASSUME NEW q \in Reader
      PROVE  /\ todo'[q] \subseteq rows'[q] /\ OneRowPerId(rows'[q])
             /\ KeptSoFar(q)'
             /\ ~reading'[q] => rows'[q] = {} /\ best'[q] = {}
  <2>1. CASE q = r
    BY <1>1, <1>2, <1>3, <1>5, <2>1 DEF StoreInv, StoreTypeOK
  <2>2. CASE q # r
    BY <1>1, <1>2, <2>2 DEF StoreInv, StoreTypeOK, ReaderInv, KeptSoFar, Kept, Seen
  <2>3. QED
    BY <2>1, <2>2
<1>8. Idle'
  BY <1>2 DEF StoreInv, Idle, session
<1>9. QED
  BY <1>6, <1>7, <1>8 DEF StoreInv, ReaderInv

\* The answer is given.
LEMMA DeliverStep ==
  ASSUME StoreInv, NEW r \in Reader, Deliver(r)
  PROVE  StoreInv' /\ best[r] = Latest(rows[r])
<1>1. Seen(r) = rows[r]
  BY DEF Deliver, Seen
<1>2. best[r] = Latest(rows[r])
  <2>1. rows[r] \in SUBSET Feed /\ KeptSoFar(r)
    BY DEF StoreInv, StoreTypeOK, ReaderInv
  <2>2. QED
    BY <1>1, <2>1, KeptIsLatest DEF KeptSoFar
<1>3. StoreTypeOK'
  BY DEF StoreInv, StoreTypeOK, Deliver, session
<1>4. ASSUME NEW q \in Reader
      PROVE  /\ todo'[q] \subseteq rows'[q] /\ OneRowPerId(rows'[q])
             /\ KeptSoFar(q)'
             /\ ~reading'[q] => rows'[q] = {} /\ best'[q] = {}
  <2>1. CASE q = r
    BY <2>1 DEF StoreInv, StoreTypeOK, Deliver, KeptSoFar, Kept, Seen, OneRowPerId
  <2>2. CASE q # r
    BY <2>2 DEF StoreInv, StoreTypeOK, ReaderInv, Deliver, KeptSoFar, Kept, Seen
  <2>3. QED
    BY <2>1, <2>2
<1>5. Idle'
  BY DEF StoreInv, Idle, Deliver, session
<1>6. QED
  BY <1>2, <1>3, <1>4, <1>5 DEF StoreInv, ReaderInv

\* The invariant is inductive.
LEMMA StoreStep == StoreInv /\ [StoreNext]_storeVars => StoreInv'
<1> SUFFICES ASSUME StoreInv, [StoreNext]_storeVars PROVE StoreInv'
  OBVIOUS
<1>1. CASE UNCHANGED storeVars
  BY <1>1 DEF StoreInv, StoreTypeOK, Idle, ReaderInv, storeVars, session, reader, KeptSoFar, Kept, Seen,
              OneRowPerId
<1>2. QED
  BY <1>1, WriterStep, SelectStep, CollapseStep, DeliverStep DEF StoreNext, Read

\* In every behaviour of the store the invariant holds.
LEMMA StoreInvariant == StoreSpec => []StoreInv
  BY StoreInitInv, StoreStep, PTL DEF StoreSpec

-----------------------------------------------------------------------------
\* The variables keep their types; in particular the table has one row per id.
THEOREM StoreTypeCorrect == StoreSpec => []StoreTypeOK
  BY StoreInvariant, PTL DEF StoreInv
-----------------------------------------------------------------------------
(* The refinement                                                           *)

\* What each reader would be shown of the rows it was given.
View == [r \in Reader |-> Latest(rows[r])]

\* The promise speaks of the same facts.
LEMMA SameFacts ==
  /\ \A F, k : PIT!Latest(PIT!Readable(F, k)) = Latest(Readable(F, k))
  /\ \A F, B : PIT!Replace(F, B) = Replace(F, B)
  /\ \A F : PIT!OneRowPerId(F) <=> OneRowPerId(F)
  BY DEF PIT!Latest, PIT!Readable, PIT!Newer, PIT!Replace, PIT!OneRowPerId, PIT!SameId,
         Latest, Readable, Newer, Replace, OneRowPerId, SameId

\* What is not selected or answered is not looked at.
LEMMA ViewElsewhere ==
  ASSUME StoreTypeOK, NEW r \in Reader, NEW R, rows' = [rows EXCEPT ![r] = R]
  PROVE  View' = [View EXCEPT ![r] = Latest(R)]
  BY DEF View, StoreTypeOK

\* A writer's step publishes a batch or shows the readers nothing.
LEMMA WriterPublishes ==
  ASSUME StoreInv, NEW w \in Writer,
         \/ \E B \in SUBSET Feed : Begin(w, B)
         \/ Merge(w) \/ Commit(w) \/ Refuse(w) \/ Abort(w)
  PROVE  PIT!Publish \/ UNCHANGED <<table, reading, View, answer>>
<1>1. UNCHANGED <<reading, View, answer>>
  BY WriterStep DEF reader, View
<1>2. CASE Commit(w)
  <2>1. merged[w] \in SUBSET Feed /\ OneRowPerId(merged[w])
    BY DEF StoreInv, StoreTypeOK, OneRowPerId
  <2>2. table' = PIT!Replace(table, merged[w]) /\ PIT!OneRowPerId(merged[w])
    BY <1>2, <2>1, SameFacts DEF Commit
  <2>3. QED
    BY <1>1, <2>1, <2>2 DEF PIT!Publish, View
<1>3. CASE ~Commit(w)
  BY <1>1, <1>3 DEF Begin, Merge, Refuse, Abort
<1>4. QED
  BY <1>2, <1>3

\* Every step of the store is a step of the promise, or is not seen.
LEMMA StoreStepRefines ==
  ASSUME StoreInv, [StoreNext]_storeVars
  PROVE  [PIT!Next]_<<table, reading, View, answer>>
<1>1. ASSUME NEW r \in Reader, Select(r)
      PROVE  PIT!Look(r)
  <2>1. PICK k \in Instant : rows' = [rows EXCEPT ![r] = Readable(table, k)]
    BY <1>1 DEF Select
  <2>2. View' = [View EXCEPT ![r] = Latest(Readable(table, k))]
    BY <2>1, ViewElsewhere DEF StoreInv
  <2>3. QED
    BY <1>1, <2>2, SameFacts DEF Select, session, PIT!Look, View
<1>2. ASSUME NEW r \in Reader, Collapse(r)
      PROVE  UNCHANGED <<table, reading, View, answer>>
  BY <1>2 DEF Collapse, View
<1>3. ASSUME NEW r \in Reader, Deliver(r)
      PROVE  PIT!Answer(r)
  <2>1. best[r] = Latest(rows[r])
    BY <1>3, DeliverStep
  <2>2. View' = [View EXCEPT ![r] = Latest({})]
    BY <1>3, ViewElsewhere DEF StoreInv, Deliver
  <2>3. Latest({}) = {} /\ View[r] = Latest(rows[r])
    BY DEF Latest, View
  <2>4. QED
    BY <1>3, <2>1, <2>2, <2>3 DEF Deliver, PIT!Answer, View
<1>4. CASE UNCHANGED storeVars
  BY <1>4 DEF storeVars, reader, View
<1>5. QED
  BY <1>1, <1>2, <1>3, <1>4, WriterPublishes DEF StoreNext, Read, PIT!Next

\* Whoever commits while a result is collapsed, a reader sees of every fact the latest
\* revision of one instant, and batches appear whole (bitemporal.py:50-75).
THEOREM StoreImplementsPointInTime == StoreSpec => ImplementsPointInTime
<1>1. StoreInit => PIT!Init
  BY DEF StoreInit, PIT!Init, Latest
<1>2. StoreInv /\ [StoreNext]_storeVars => [PIT!Next]_<<table, reading, View, answer>>
  BY StoreStepRefines
<1>3. QED
  BY <1>1, <1>2, StoreInvariant, PTL
  DEF StoreSpec, ImplementsPointInTime, PIT!Spec, PIT!vars, View

-----------------------------------------------------------------------------
(* The ways in                                                              *)

\* A sweep works on names of the watchlist, outside any session, and what it has fetched is what
\* the sources present, one row of each identity.
SweepInv ==
  /\ sweeping \in [Writer -> BOOLEAN] /\ tried \in [Writer -> BOOLEAN]
  /\ queue \in [Writer -> Seq(ToSet(Watchlist))]
  /\ got \in [Writer -> SUBSET Feed]
  /\ \A w \in Writer : OneRowPerId(got[w]) /\ (sweeping[w] => ~open[w])

\* Nothing is fetched at first.
LEMMA SweepInit == Init => SweepInv
  BY DEF Init, StoreInit, SweepInv, OneRowPerId

\* Any list of names to fetch is of the watchlist.
LEMMA FetchedAreListed ==
  ASSUME NEW w
  PROVE  ToFetch(w) \in Seq(ToSet(Watchlist))
<1>1. Watchlist \in Seq(ToSet(Watchlist))
  BY IngestAssumption
<1>2. Among(Watchlist, ToSet(Watchlist) \ Covered) \in Seq(ToSet(Watchlist))
  BY <1>1, AmongOrder
<1> QED BY <1>1, <1>2 DEF ToFetch

\* A name fewer: the rest of the queue.
LEMMA AdvanceKeeps ==
  ASSUME SweepInv, StoreInv, NEW w \in Writer, Advance(w), got' \in [Writer -> SUBSET Feed],
         \A x \in Writer : OneRowPerId(got'[x])
  PROVE  SweepInv'
<1>1. /\ sweeping[w] /\ queue[w] # <<>> /\ queue' = [queue EXCEPT ![w] = Tail(@)]
      /\ tried' = [tried EXCEPT ![w] = TRUE] /\ sweeping' = sweeping /\ open' = open
  BY DEF Advance, storeVars, session
<1>2. Tail(queue[w]) \in Seq(ToSet(Watchlist))
  BY <1>1 DEF SweepInv
<1>3. queue' \in [Writer -> Seq(ToSet(Watchlist))] /\ tried' \in [Writer -> BOOLEAN]
  BY <1>1, <1>2 DEF SweepInv
<1>4. \A u \in Writer : OneRowPerId(got[u])'
  BY DEF OneRowPerId, SameId
<1> QED BY <1>1, <1>3, <1>4 DEF SweepInv

\* A step of the program keeps that, and is a step of the store or leaves it alone.
LEMMA IngestStep ==
  ASSUME SweepInv, StoreInv, [Next]_vars
  PROVE  SweepInv' /\ [StoreNext]_storeVars
<1>1. ASSUME NEW w \in Writer, StartSweep(w)
      PROVE  SweepInv' /\ UNCHANGED storeVars
  <2>1. /\ ~open[w] /\ sweeping' = [sweeping EXCEPT ![w] = TRUE]
        /\ queue' = [queue EXCEPT ![w] = ToFetch(w)]
        /\ tried' = [tried EXCEPT ![w] = FALSE]
        /\ got' = got /\ open' = open /\ UNCHANGED storeVars
    BY <1>1 DEF StartSweep, storeVars, session
  <2>2. queue' \in [Writer -> Seq(ToSet(Watchlist))]
    BY <2>1, FetchedAreListed DEF SweepInv
  <2>3. \A u \in Writer : OneRowPerId(got[u])'
    BY <2>1 DEF SweepInv, OneRowPerId, SameId
  <2> QED BY <2>1, <2>2, <2>3 DEF SweepInv
<1>2. ASSUME NEW w \in Writer, Fetch(w)
      PROVE  SweepInv' /\ UNCHANGED storeVars
  <2>1. PICK B \in Dedup(Served(w, Head(queue[w]))) : got' = [got EXCEPT ![w] = Replace(@, B)]
    BY <1>2 DEF Fetch
  <2>2. B \in SUBSET Feed /\ OneRowPerId(B)
    BY <2>1, IngestAssumption DEF Dedup, Served
  <2>3. Replace(got[w], B) \in SUBSET Feed /\ OneRowPerId(Replace(got[w], B))
    <3>1. got[w] \in SUBSET Feed /\ OneRowPerId(got[w])
      BY DEF SweepInv
    <3>2. Replace(got[w], B) \in SUBSET Feed
      BY <2>2, <3>1 DEF Replace
    <3> QED BY <2>2, <3>1, <3>2, ReplaceKeepsIds
  <2>4. /\ got' \in [Writer -> SUBSET Feed]
        /\ \A u \in Writer : got'[u] \in {got[u], Replace(got[w], B)}
    BY <2>1, <2>3 DEF SweepInv
  <2>5. \A u \in Writer : OneRowPerId(got'[u])
    <3>1. \A u \in Writer : OneRowPerId(got[u])
      BY DEF SweepInv
    <3> QED BY <2>3, <2>4, <3>1
  <2>6. Advance(w)
    BY <1>2 DEF Fetch
  <2> QED BY <2>4, <2>5, <2>6, AdvanceKeeps DEF Advance
<1>3. ASSUME NEW w \in Writer, FetchFails(w)
      PROVE  SweepInv' /\ UNCHANGED storeVars
  <2>1. got' = got /\ Advance(w)
    BY <1>3 DEF FetchFails
  <2>2. got' \in [Writer -> SUBSET Feed] /\ \A u \in Writer : OneRowPerId(got'[u])
    BY <2>1 DEF SweepInv
  <2> QED BY <2>1, <2>2, AdvanceKeeps DEF Advance
<1>4. ASSUME NEW w \in Writer, OutOfBudget(w)
      PROVE  SweepInv' /\ UNCHANGED storeVars
  <2>1. queue' = [queue EXCEPT ![w] = <<>>] /\ UNCHANGED <<sweeping, tried, got, storeVars>>
    BY <1>4 DEF OutOfBudget
  <2>2. <<>> \in Seq(ToSet(Watchlist)) /\ open' = open
    BY <2>1 DEF storeVars, session
  <2>3. queue' \in [Writer -> Seq(ToSet(Watchlist))]
    BY <2>1, <2>2 DEF SweepInv
  <2> QED BY <2>1, <2>2, <2>3 DEF SweepInv, OneRowPerId, SameId
<1>5. ASSUME NEW w \in Writer, Submit(w)
      PROVE  SweepInv' /\ [StoreNext]_storeVars
  <2>1. /\ sweeping' = [sweeping EXCEPT ![w] = FALSE] /\ got' = [got EXCEPT ![w] = {}]
        /\ UNCHANGED <<queue, tried>>
        /\ UNCHANGED storeVars \/ Begin(w, got[w])
    BY <1>5 DEF Submit
  <2>2. got[w] \in SUBSET Feed
    BY DEF SweepInv
  <2>3. \A u \in Writer \ {w} : open'[u] = open[u]
    BY <2>1 DEF Begin, StoreInv, StoreTypeOK, storeVars, session
  <2>4. /\ sweeping' \in [Writer -> BOOLEAN] /\ got' \in [Writer -> SUBSET Feed]
        /\ ~sweeping'[w] /\ got'[w] = {}
        /\ \A u \in Writer \ {w} : sweeping'[u] = sweeping[u] /\ got'[u] = got[u]
    BY <2>1 DEF SweepInv
  <2>5. SweepInv'
    <3>1. ASSUME NEW u \in Writer
          PROVE  OneRowPerId(got[u])' /\ (sweeping'[u] => ~open'[u])
      BY <2>3, <2>4 DEF SweepInv, OneRowPerId, SameId
    <3> QED BY <2>1, <2>4, <3>1 DEF SweepInv
  <2> QED BY <2>1, <2>2, <2>5 DEF StoreNext
<1>6. ASSUME NEW w \in Writer, (Merge(w) \/ Commit(w) \/ Refuse(w) \/ Abort(w)), UNCHANGED sweep
      PROVE  SweepInv' /\ StoreNext
  <2>1. UNCHANGED <<sweeping, queue, tried, got>>
    BY <1>6 DEF sweep
  <2>2. \A u \in Writer : open'[u] => open[u]
    BY <1>6 DEF StoreInv, StoreTypeOK, Merge, Commit, Refuse, Abort, Close
  <2> QED BY <1>6, <2>1, <2>2 DEF SweepInv, OneRowPerId, SameId, StoreNext
<1>7. ASSUME NEW r \in Reader, Read(r), UNCHANGED sweep
      PROVE  SweepInv' /\ StoreNext
  <2>1. UNCHANGED <<sweeping, queue, tried, got>>
    BY <1>7 DEF sweep
  <2>2. open' = open
    BY <1>7 DEF Read, Select, Collapse, Deliver, session
  <2> QED BY <1>7, <2>1, <2>2 DEF SweepInv, OneRowPerId, SameId, StoreNext
<1>8. CASE UNCHANGED vars
  <2>1. UNCHANGED <<sweeping, queue, tried, got, open, storeVars>>
    BY <1>8 DEF vars, sweep, storeVars, session
  <2> QED BY <2>1 DEF SweepInv, OneRowPerId, SameId
<1>9. QED
  BY <1>1, <1>2, <1>3, <1>4, <1>5, <1>6, <1>7, <1>8 DEF Next, Store

\* The ingest only acts on the store through its sessions.
LEMMA IngestUsesStore == Spec => StoreSpec
<1>1. Init => StoreInit
  BY DEF Init
<1>2. SweepInv /\ StoreInv /\ [Next]_vars => SweepInv' /\ [StoreNext]_storeVars
  BY IngestStep
<1>3. StoreInv /\ [StoreNext]_storeVars => StoreInv'
  BY StoreStep
<1>4. StoreInit => StoreInv
  BY StoreInitInv
<1>5. QED
  BY <1>1, <1>2, <1>3, <1>4, SweepInit, PTL DEF Spec, StoreSpec

\* Whatever loops and backfills are under way, however they fail, a reader sees of every
\* fact the latest revision of one instant (bitemporal.py:50-75, gateway.py, gdelt.py).
THEOREM IngestImplementsPointInTime == Spec => ImplementsPointInTime
  BY IngestUsesStore, StoreImplementsPointInTime, PTL

\* Sweeps, sessions and readers keep their types, whatever was listed twice: what a sweep
\* submits has one row of an identity (gdelt.py:110, gateway.py:42).
THEOREM IngestTyped == Spec => []TypeOK
<1>1. Init => SweepInv /\ StoreInv
  BY SweepInit, StoreInitInv DEF Init
<1>2. SweepInv /\ StoreInv /\ [Next]_vars => (SweepInv /\ StoreInv)'
  BY IngestStep, StoreStep
<1>3. SweepInv /\ StoreInv => TypeOK
  <2> SUFFICES ASSUME SweepInv, StoreInv PROVE TypeOK
    OBVIOUS
  <2>1. \A w \in Writer : ToSet(queue[w]) \subseteq ToSet(Watchlist)
    <3> SUFFICES ASSUME NEW w \in Writer, NEW i \in DOMAIN queue[w]
                 PROVE  queue[w][i] \in ToSet(Watchlist)
      BY DEF ToSet
    <3>1. queue[w] \in Seq(ToSet(Watchlist))
      BY DEF SweepInv
    <3>2. \A R : \A s \in Seq(R) : \A k \in DOMAIN s : s[k] \in R
      OBVIOUS
    <3> QED BY <3>1, <3>2
  <2> QED BY <2>1 DEF SweepInv, StoreInv, TypeOK
<1>4. QED
  BY <1>1, <1>2, <1>3, PTL DEF Spec
=============================================================================

----------------------------- MODULE Bitemporal -----------------------------
(***************************************************************************)
(* The SQL store (storage/sqlalchemy_store.py) under concurrent sessions:  *)
(* the serve process has a thread per loop, each with its own store on one *)
(* database.  A writer merges its rows one by one (a SELECT each) and      *)
(* commits; the primary key refuses a row somebody else inserted since.    *)
(* A reader takes the filtered rows in one SELECT and collapses them in    *)
(* Python, row by row, in whatever order they came.                        *)
(***************************************************************************)
EXTENDS Facts

CONSTANTS Writer, Reader, Instant

VARIABLES
  table,   \* the committed rows
  open,    \* a session is open and has rows to merge or to commit
  batch,   \* its rows still to merge
  merged,  \* its rows merged so far, not committed
  fresh,   \* those whose SELECT found nothing: INSERTs
  reading, rows, todo, best, answer  \* one as_of call per reader

session == <<open, batch, merged, fresh>>
reader == <<reading, rows, todo, best, answer>>
storeVars == <<table, session, reader>>

-----------------------------------------------------------------------------
StoreInit ==
  /\ table = {}
  /\ open = [w \in Writer |-> FALSE]
  /\ batch = [w \in Writer |-> {}]
  /\ merged = [w \in Writer |-> {}]
  /\ fresh = [w \in Writer |-> {}]
  /\ reading = [r \in Reader |-> FALSE]
  /\ rows = [r \in Reader |-> {}]
  /\ todo = [r \in Reader |-> {}]
  /\ best = [r \in Reader |-> {}]
  /\ answer = [r \in Reader |-> {}]

\* The gateway has left one observation per id; an empty batch opens no session.
Begin(w, B) ==
  /\ ~open[w] /\ B # {} /\ OneRowPerId(B)
  /\ open' = [open EXCEPT ![w] = TRUE]
  /\ batch' = [batch EXCEPT ![w] = B]
  /\ UNCHANGED <<table, merged, fresh, reader>>

\* session.merge: SELECT by primary key, then an INSERT or an UPDATE is pending.
Merge(w) ==
  /\ open[w]
  /\ \E o \in batch[w] :
       /\ batch' = [batch EXCEPT ![w] = @ \ {o}]
       /\ merged' = [merged EXCEPT ![w] = @ \cup {o}]
       /\ fresh' = IF \E c \in table : SameId(o, c) THEN fresh
                   ELSE [fresh EXCEPT ![w] = @ \cup {o}]
  /\ UNCHANGED <<table, open, reader>>

Close(w) ==
  /\ open' = [open EXCEPT ![w] = FALSE]
  /\ batch' = [batch EXCEPT ![w] = {}]
  /\ merged' = [merged EXCEPT ![w] = {}]
  /\ fresh' = [fresh EXCEPT ![w] = {}]

Conflict(w) == \E o \in fresh[w], c \in table : SameId(o, c)

\* Mutant: rows are added, never replaced.
CommitAppends(w) ==
  /\ open[w] /\ batch[w] = {} /\ ~Conflict(w)
  /\ table' = table \cup merged[w]
  /\ Close(w)
  /\ UNCHANGED reader

Commit(w) ==
  /\ open[w] /\ batch[w] = {} /\ ~Conflict(w)
  /\ table' = Replace(table, merged[w])
  /\ Close(w)
  /\ UNCHANGED reader

\* IntegrityError: nothing of the batch is stored, and the exception leaves the ingest.
Refuse(w) ==
  /\ open[w] /\ batch[w] = {} /\ Conflict(w)
  /\ Close(w)
  /\ UNCHANGED <<table, reader>>

\* A deadlock victim, a lost connection, the death of the process.
Abort(w) ==
  /\ open[w]
  /\ Close(w)
  /\ UNCHANGED <<table, reader>>

-----------------------------------------------------------------------------
\* as_of(k): knowledge_time <= k in SQL.
Select(r) ==
  /\ ~reading[r]
  /\ reading' = [reading EXCEPT ![r] = TRUE]
  /\ \E k \in Instant :
       /\ rows' = [rows EXCEPT ![r] = Readable(table, k)]
       /\ todo' = [todo EXCEPT ![r] = Readable(table, k)]
  /\ UNCHANGED <<table, session, best, answer>>

Supersedes(o, c) == c.fact = o.fact /\ ~Newer(o, c)

\* Mutant: corrections are ordered by their revision alone.
CollapseByRevision(r) ==
  /\ reading[r]
  /\ \E o \in todo[r] :
       /\ todo' = [todo EXCEPT ![r] = @ \ {o}]
       /\ best' = [best EXCEPT ![r] =
            IF \E c \in @ : c.fact = o.fact /\ c.rev >= o.rev THEN @
            ELSE {c \in @ : c.fact # o.fact} \cup {o}]
  /\ UNCHANGED <<table, session, reading, rows, answer>>

\* One row of collapse_latest_revisions.
Collapse(r) ==
  /\ reading[r]
  /\ \E o \in todo[r] :
       /\ todo' = [todo EXCEPT ![r] = @ \ {o}]
       /\ best' = [best EXCEPT ![r] =
            IF \E c \in @ : Supersedes(o, c) THEN @
            ELSE {c \in @ : c.fact # o.fact} \cup {o}]
  /\ UNCHANGED <<table, session, reading, rows, answer>>

Deliver(r) ==
  /\ reading[r] /\ todo[r] = {}
  /\ reading' = [reading EXCEPT ![r] = FALSE]
  /\ answer' = [answer EXCEPT ![r] = best[r]]
  /\ rows' = [rows EXCEPT ![r] = {}]
  /\ best' = [best EXCEPT ![r] = {}]
  /\ UNCHANGED <<table, session, todo>>

Read(r) == Select(r) \/ Collapse(r) \/ Deliver(r)

StoreNext ==
  \/ \E w \in Writer : \/ \E B \in SUBSET Feed : Begin(w, B)
                       \/ Merge(w) \/ Commit(w) \/ Refuse(w) \/ Abort(w)
  \/ \E r \in Reader : Read(r)

StoreSpec == StoreInit /\ [][StoreNext]_storeVars

-----------------------------------------------------------------------------
StoreTypeOK ==
  /\ table \subseteq Feed /\ OneRowPerId(table)
  /\ open \in [Writer -> BOOLEAN]
  /\ batch \in [Writer -> SUBSET Feed]
  /\ merged \in [Writer -> SUBSET Feed]
  /\ fresh \in [Writer -> SUBSET Feed]
  /\ \A w \in Writer : /\ OneRowPerId(batch[w] \cup merged[w])
                       /\ batch[w] \cap merged[w] = {} /\ fresh[w] \subseteq merged[w]
  /\ reading \in [Reader -> BOOLEAN]
  /\ rows \in [Reader -> SUBSET Feed]
  /\ todo \in [Reader -> SUBSET Feed]
  /\ best \in [Reader -> SUBSET Feed]
  /\ answer \in [Reader -> SUBSET Feed]

\* The reader's half of the strengthening: what has been collapsed is the latest of
\* what has been seen.
Collapsed ==
  \A r \in Reader :
    /\ todo[r] \subseteq rows[r] /\ OneRowPerId(rows[r])
    /\ best[r] = Latest(rows[r] \ todo[r])
    /\ ~reading[r] => rows[r] = {} /\ best[r] = {}

PIT == INSTANCE PointInTime WITH
  facts <- table, asking <- reading, view <- [r \in Reader |-> Latest(rows[r])]

\* "as_of never returns an observation whose knowledge_time is after the requested
\* knowledge_time", and of each fact exactly the latest revision of one committed
\* instant, whoever commits while the rows are collapsed (bitemporal.py:20-32 and 54-55).
ImplementsPointInTime == PIT!Spec
=============================================================================

------------------------------- MODULE Ingest -------------------------------
(***************************************************************************)
(* The ways into the store: a sweep over a watchlist under a wall-clock    *)
(* budget (collectors/gdelt.py, edgar.py, fundamentals.py, stooq.py), the  *)
(* ingestion gateway (collectors/gateway.py), and one transaction of the   *)
(* store.  The loops and the daily cycle sweep the whole watchlist for     *)
(* what is recent; a backfill command (cli.py, ingest-filings and          *)
(* ingest-fundamentals) sweeps the names the store has nothing of, for all *)
(* of their history.                                                       *)
(***************************************************************************)
EXTENDS Bitemporal, Sublists, SequencesExt

CONSTANTS
  Watchlist,    \* the sequence of names
  Name(_),      \* the entity of a fact
  Loop,         \* the writers that sweep for what is recent; the others backfill
  Recent        \* the observations inside the lookback of a loop

ASSUME IngestAssumption ==
  Loop \subseteq Writer /\ Recent \subseteq Feed /\ Watchlist \in Seq(ToSet(Watchlist))

VARIABLES
  sweeping,  \* a fetch_for_symbols call is under way
  queue,     \* the names it has still to try
  tried,     \* it has tried one: the budget is looked at between names
  got        \* the records so far

sweep == <<sweeping, queue, tried, got>>
vars == <<storeVars, sweep>>

-----------------------------------------------------------------------------
Init ==
  /\ StoreInit
  /\ sweeping = [w \in Writer |-> FALSE]
  /\ queue = [w \in Writer |-> <<>>]
  /\ tried = [w \in Writer |-> FALSE]
  /\ got = [w \in Writer |-> {}]

\* as_of(DISTANT_FUTURE): the names with any row.
Covered == {Name(o.fact) : o \in table}

\* Mutant: a backfill starts over.
WholeWatchlist(w) == Watchlist

\* _symbols_to_fetch.
ToFetch(w) ==
  IF w \in Loop THEN Watchlist
  ELSE Among(Watchlist, ToSet(Watchlist) \ Covered)

StartSweep(w) ==
  /\ ~sweeping[w] /\ ~open[w]
  /\ sweeping' = [sweeping EXCEPT ![w] = TRUE]
  /\ queue' = [queue EXCEPT ![w] = ToFetch(w)]
  /\ tried' = [tried EXCEPT ![w] = FALSE]
  /\ UNCHANGED <<got, storeVars>>

Served(w, n) == {o \in (IF w \in Loop THEN Recent ELSE Feed) : Name(o.fact) = n}

\* One way to keep one observation per id: the last one of the list.
Dedup(S) == {B \in SUBSET S : /\ OneRowPerId(B)
                              /\ \A o \in S : \E c \in B : SameId(o, c)}

Advance(w) ==
  /\ sweeping[w] /\ queue[w] # <<>>
  /\ queue' = [queue EXCEPT ![w] = Tail(@)]
  /\ tried' = [tried EXCEPT ![w] = TRUE]
  /\ UNCHANGED <<sweeping, storeVars>>

\* The records of one name, normalised and stamped; of a name listed twice the later ones
\* will be kept.
Fetch(w) ==
  /\ Advance(w)
  /\ \E B \in Dedup(Served(w, Head(queue[w]))) : got' = [got EXCEPT ![w] = Replace(@, B)]

\* "One bad symbol never aborts the batch."
FetchFails(w) == Advance(w) /\ UNCHANGED got

OutOfBudget(w) ==
  /\ sweeping[w] /\ tried[w] /\ queue[w] # <<>>
  /\ queue' = [queue EXCEPT ![w] = <<>>]
  /\ UNCHANGED <<sweeping, tried, got, storeVars>>

\* IngestionGateway.ingest: what fails its checks is reported, and stored.
Submit(w) ==
  /\ sweeping[w] /\ queue[w] = <<>>
  /\ sweeping' = [sweeping EXCEPT ![w] = FALSE]
  /\ got' = [got EXCEPT ![w] = {}]
  /\ IF got[w] = {} THEN UNCHANGED storeVars ELSE Begin(w, got[w])
  /\ UNCHANGED <<queue, tried>>

Store(w) == (Merge(w) \/ Commit(w) \/ Refuse(w)) /\ UNCHANGED sweep

Next ==
  \/ \E w \in Writer : \/ StartSweep(w) \/ Fetch(w) \/ FetchFails(w) \/ OutOfBudget(w)
                       \/ Submit(w) \/ Store(w) \/ (Abort(w) /\ UNCHANGED sweep)
  \/ \E r \in Reader : Read(r) /\ UNCHANGED sweep

\* A backfill is run again and again, its process is scheduled, and a source that is
\* asked for a name again and again answers in the end.
Fairness ==
  \A w \in Writer \ Loop :
    /\ WF_vars(StartSweep(w) \/ FetchFails(w) \/ Submit(w) \/ Store(w))
    /\ SF_vars(Fetch(w))

Spec == Init /\ [][Next]_vars /\ Fairness

-----------------------------------------------------------------------------
(* Properties.                                                               *)

TypeOK ==
  /\ StoreTypeOK
  /\ sweeping \in [Writer -> BOOLEAN] /\ tried \in [Writer -> BOOLEAN]
  /\ \A w \in Writer : /\ ToSet(queue[w]) \subseteq ToSet(Watchlist)
                       /\ got[w] \subseteq Feed /\ OneRowPerId(got[w])
                       /\ sweeping[w] => ~open[w]

\* A session that ends was either committed or refused by a primary key.
EndsProperly(w) ==
  open[w] /\ ~open'[w] =>
    batch[w] = {} /\ (Conflict(w) \/ table' = Replace(table, merged[w]))

\* "Resumable: a fetch cut short by the wall-clock budget is finished by re-running (each
\* pass extends coverage)" (cli.py:707-709): so it is when every name has something to
\* fetch and sessions stop being lost, whatever the loops insert under its feet.
BackfillCompletes ==
  <>[][\A w \in Writer \ Loop : EndsProperly(w)]_vars
    => <>[](ToSet(Watchlist) \subseteq Covered)

\* "A symbol with any stored filings was fully fetched, never cut off mid-way"
\* (cli.py:698-699): what a backfill skips as covered has all of its history.
CoveredIsComplete ==
  \A o \in Feed : Name(o.fact) \in Covered => \E c \in table : SameId(o, c)
=============================================================================

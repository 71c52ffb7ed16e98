--------------------------- MODULE CommandsProofs ---------------------------
(****************************************************************************)
(* What the commands may know and may do: each of them keeps the promises   *)
(* of its component in every behaviour of the command line, for any         *)
(* universe, horizon, windows and invocations.                              *)
(****************************************************************************)
EXTENDS Commands, ResearchProofs

-----------------------------------------------------------------------------
(* The holdout                                                              *)

\* A row is written after it was decided, and both have happened.
RowsInOrder == \A r \in ledger : r.at <= r.written /\ r.written <= now

\* A command started in the past.
StartsArePast == \A c \in Command : at[c] <= now

\* Who looked and found nothing will add a row: none had been written when it started.
NoneBefore ==
  \A c \in Command : stage[c] = "looked" => \A r \in ledger : at[c] <= r.written

\* Nobody is told a verdict before the command is done.
Untold == \A c \in Command : stage[c] # "done" => told[c] = {}

\* What the ledger keeps.
HoldoutInv ==
  /\ HoldoutTypeOK /\ RowsInOrder /\ StartsArePast /\ NoneBefore /\ Untold
  /\ SingleLook /\ ToldTheSealed

\* A command that was told a row was told the first it could know of.
LEMMA ToldFirst ==
  ASSUME HoldoutTypeOK, RowsInOrder, NEW c \in Command,
         NEW r \in FirstLook(Knowable(c)), NEW q \in ledger, q.written < at[c]
  PROVE  r.at <= q.at
<1>1. q \in Row /\ r \in Row /\ at[c] \in Nat
  BY DEF HoldoutTypeOK, FirstLook, Knowable
<1>2. q.at <= at[c]
  BY <1>1 DEF RowsInOrder, Row
<1>3. QED
  BY <1>2 DEF FirstLook, Knowable

\* Initially nothing is recorded, told or begun.
LEMMA HoldoutInitInv == HoldoutInit => HoldoutInv
  BY DEF HoldoutInit, HoldoutInv, HoldoutTypeOK, RowsInOrder, StartsArePast, NoneBefore, Untold,
         SingleLook, ToldTheSealed

\* A step that leaves the ledger, the clock and what was told alone, and looks at nothing.
LEMMA QuietStep ==
  ASSUME HoldoutInv, UNCHANGED <<now, ledger, told, at>>, HoldoutTypeOK',
         \A c \in Command : stage'[c] = "looked" => stage[c] = "looked",
         \A c \in Command : stage'[c] # "done" => stage[c] # "done"
  PROVE  HoldoutInv'
  BY DEF HoldoutInv, RowsInOrder, StartsArePast, NoneBefore, Untold, SingleLook, ToldTheSealed

\* A command reads the clock.
LEMMA StartStep ==
  ASSUME HoldoutInv, NEW c \in Command, Start(c)
  PROVE  HoldoutInv'
<1>1. HoldoutTypeOK'
  BY DEF HoldoutInv, Start, HoldoutTypeOK
<1>2. told[c] = {}
  BY DEF HoldoutInv, Start, Untold
<1>3. (RowsInOrder /\ SingleLook /\ Untold)'
  BY DEF HoldoutInv, HoldoutTypeOK, Start, RowsInOrder, SingleLook, Untold
<1>4. StartsArePast'
  BY DEF HoldoutInv, HoldoutTypeOK, Start, StartsArePast
<1>5. NoneBefore'
  BY DEF HoldoutInv, HoldoutTypeOK, Start, NoneBefore
<1>6. ToldTheSealed'
  BY <1>2 DEF HoldoutInv, HoldoutTypeOK, Start, ToldTheSealed
<1>7. QED
  BY <1>1, <1>3, <1>4, <1>5, <1>6 DEF HoldoutInv

\* A command finds a verdict and repeats it.
LEMMA RepeatStep ==
  ASSUME HoldoutInv, NEW c \in Command, LookAndRepeat(c)
  PROVE  HoldoutInv'
<1>1. FirstLook(Knowable(c)) \subseteq ledger
  BY DEF FirstLook, Knowable
<1>2. HoldoutTypeOK'
  BY <1>1 DEF HoldoutInv, LookAndRepeat, HoldoutTypeOK
<1>3. (RowsInOrder /\ SingleLook /\ StartsArePast)'
  BY DEF HoldoutInv, LookAndRepeat, RowsInOrder, SingleLook, StartsArePast
<1>4. (NoneBefore /\ Untold)'
  BY DEF HoldoutInv, HoldoutTypeOK, LookAndRepeat, NoneBefore, Untold
<1>5. ASSUME NEW d \in Command, NEW r \in told'[d], NEW q \in ledger', q.written < at'[d]
      PROVE  r.at <= q.at
  <2>1. CASE d = c
    <3>1. r \in FirstLook(Knowable(c)) /\ q \in ledger /\ q.written < at[c]
      BY <1>5, <2>1 DEF HoldoutInv, HoldoutTypeOK, LookAndRepeat
    <3>2. QED
      BY <3>1, ToldFirst DEF HoldoutInv
  <2>2. CASE d # c
    BY <1>5, <2>2 DEF HoldoutInv, HoldoutTypeOK, LookAndRepeat, ToldTheSealed
  <2>3. QED
    BY <2>1, <2>2
<1>6. QED
  BY <1>2, <1>3, <1>4, <1>5 DEF HoldoutInv, ToldTheSealed

\* A command finds none: whatever is in the ledger was decided, so written, after it started.
LEMMA NoneStep ==
  ASSUME HoldoutInv, NEW c \in Command, LookFindsNone(c)
  PROVE  HoldoutInv'
<1>1. HoldoutTypeOK'
  BY DEF HoldoutInv, LookFindsNone, HoldoutTypeOK
<1>2. ASSUME NEW r \in ledger
      PROVE  at[c] <= r.written
  <2>1. r \in Row /\ at[c] \in Nat /\ r.at <= r.written
    BY DEF HoldoutInv, HoldoutTypeOK, RowsInOrder
  <2>2. ~(r.at <= at[c])
    BY DEF LookFindsNone, Knowable
  <2>3. QED
    BY <2>1, <2>2 DEF Row
<1>3. NoneBefore'
  BY <1>2 DEF HoldoutInv, HoldoutTypeOK, LookFindsNone, NoneBefore
<1>4. (RowsInOrder /\ SingleLook /\ StartsArePast /\ ToldTheSealed /\ Untold)'
  BY DEF HoldoutInv, HoldoutTypeOK, LookFindsNone, RowsInOrder, SingleLook, StartsArePast,
         ToldTheSealed, Untold
<1>5. QED
  BY <1>1, <1>3, <1>4 DEF HoldoutInv

\* A command records: its row is the newest written, and those before it were written
\* after it started.
LEMMA RecordStep ==
  ASSUME HoldoutInv, NEW c \in Command, Record(c)
  PROVE  HoldoutInv'
<1> DEFINE row == [at |-> at[c], written |-> now, passed |-> verdict[c]]
<1>1. row \in Row /\ row.at = at[c] /\ row.written = now
  BY DEF HoldoutInv, HoldoutTypeOK, Row
<1>2. /\ stage[c] = "looked"
      /\ ledger' \subseteq ledger \cup {row}
      /\ told' = [told EXCEPT ![c] = {row}]
      /\ stage' = [stage EXCEPT ![c] = "done"]
      /\ UNCHANGED <<now, at, verdict>>
  BY DEF Record
<1> HIDE DEF row
<1>3. /\ now \in Nat /\ ledger \subseteq Row /\ at \in [Command -> Nat]
      /\ told \in [Command -> SUBSET Row]
  BY DEF HoldoutInv, HoldoutTypeOK
<1>4. at[c] <= now
  BY DEF HoldoutInv, StartsArePast
<1>5. \A r \in ledger : at[c] <= r.written
  BY <1>2 DEF HoldoutInv, NoneBefore
<1>6. HoldoutTypeOK'
  BY <1>1, <1>2 DEF HoldoutInv, HoldoutTypeOK
<1>7. RowsInOrder'
  BY <1>1, <1>2, <1>3, <1>4 DEF HoldoutInv, RowsInOrder
<1>8. (StartsArePast /\ Untold)'
  BY <1>2, <1>3 DEF HoldoutInv, HoldoutTypeOK, StartsArePast, Untold
<1>9. NoneBefore'
  BY <1>1, <1>2, <1>3 DEF HoldoutInv, HoldoutTypeOK, NoneBefore, StartsArePast
<1>10. SingleLook'
  <2>1. \A r \in ledger : r.at <= now
    BY <1>3 DEF HoldoutInv, RowsInOrder, Row
  <2>2. QED
    BY <1>1, <1>2, <1>4, <1>5, <2>1 DEF HoldoutInv, SingleLook
<1>11. ASSUME NEW d \in Command, NEW r \in told'[d], NEW q \in ledger', q.written < at'[d]
       PROVE  r.at <= q.at
  <2>1. q \in ledger
    BY <1>1, <1>2, <1>3, <1>11 DEF HoldoutInv, StartsArePast
  <2>2. d # c
    BY <1>2, <1>3, <1>5, <1>11, <2>1 DEF Row
  <2>3. QED
    BY <1>2, <1>3, <1>11, <2>1, <2>2 DEF HoldoutInv, ToldTheSealed
<1>12. QED
  BY <1>6, <1>7, <1>8, <1>9, <1>10, <1>11 DEF HoldoutInv, ToldTheSealed

\* The invariant is inductive: one step per action.
LEMMA HoldoutStep == HoldoutInv /\ [HoldoutNext]_holdoutVars => HoldoutInv'
<1> SUFFICES ASSUME HoldoutInv, [HoldoutNext]_holdoutVars
             PROVE  HoldoutInv'
  OBVIOUS
<1>1. CASE Wait
  <2>1. HoldoutTypeOK'
    BY <1>1 DEF HoldoutInv, HoldoutTypeOK, Wait
  <2>2. (RowsInOrder /\ StartsArePast)'
    BY <1>1 DEF HoldoutInv, HoldoutTypeOK, Row, Wait, RowsInOrder, StartsArePast
  <2>3. (NoneBefore /\ Untold /\ SingleLook /\ ToldTheSealed)'
    BY <1>1 DEF HoldoutInv, Wait, NoneBefore, Untold, SingleLook, ToldTheSealed
  <2>4. QED
    BY <2>1, <2>2, <2>3 DEF HoldoutInv
<1>2. ASSUME NEW c \in Command, Abandon(c)
      PROVE  HoldoutInv'
  BY <1>2, QuietStep DEF HoldoutInv, HoldoutTypeOK, Abandon
<1>3. CASE UNCHANGED holdoutVars
  BY <1>3, QuietStep DEF HoldoutInv, HoldoutTypeOK, holdoutVars
<1>4. QED
  BY <1>1, <1>2, <1>3, StartStep, RepeatStep, NoneStep, RecordStep DEF HoldoutNext

\* In every behaviour of the commands the invariant holds.
LEMMA HoldoutInvariant == HoldoutSpec => []HoldoutInv
  BY HoldoutInitInv, HoldoutStep, PTL DEF HoldoutSpec

-----------------------------------------------------------------------------
\* The variables keep their types.
THEOREM HoldoutTypeCorrect == HoldoutSpec => []HoldoutTypeOK
  BY HoldoutInvariant, PTL DEF HoldoutInv

\* A signal is looked at once: no verdict is recorded by a command that started after another
\* was written (holdout.py:97, confirm_on_holdout).
THEOREM LookedAtOnce == HoldoutSpec => []SingleLook
  BY HoldoutInvariant, PTL DEF HoldoutInv

\* A re-run is told the sealed verdict, never a later one (holdout.py:61, prior_look).
THEOREM NoShopping == HoldoutSpec => []ToldTheSealed
  BY HoldoutInvariant, PTL DEF HoldoutInv

-----------------------------------------------------------------------------
(* The paper broker                                                         *)

\* What a paper account keeps.
PaperInv == PaperTypeOK /\ FillsExplainAccount

\* A new account has no fills to explain.
LEMMA PaperInitInv == PaperInit => PaperInv
<1> SUFFICES ASSUME PaperInit PROVE PaperInv
  OBVIOUS
<1>1. DOMAIN book = {} /\ IsFiniteSet({})
  BY FS_EmptySet DEF PaperInit
<1>2. Filled = {} /\ \A s : FilledOf(s) = {}
  BY <1>1 DEF Filled, FilledOf
<1>3. FillsExplainAccount
  <2>1. \A s \in Listed : SumFunctionOnSet(Moved, FilledOf(s)) = 0
    BY <1>2, SumEmpty
  <2>2. SumFunctionOnSet(Paid, Filled) = 0
    BY <1>2, SumEmpty
  <2> QED BY <2>1, <2>2, PaperAssumption DEF FillsExplainAccount, PaperInit, Flat
<1>4. PaperTypeOK
  <2>1. book \in [DOMAIN book -> Entry]
    BY DEF PaperInit
  <2>2. lots \in [Listed -> [qty : Int, n : Int, d : Int \ {0}]]
    BY DEF PaperInit, Flat
  <2>3. quote \in [Listed -> Prices] /\ funds \in Int
    BY PaperAssumption DEF PaperInit
  <2> QED BY <1>1, <2>1, <2>2, <2>3 DEF PaperTypeOK
<1> QED
  BY <1>1, <1>3, <1>4 DEF PaperInv

\* What the orders of the book moved, and what was paid for it, are whole numbers.
LEMMA PaperInts ==
  ASSUME PaperInv
  PROVE  /\ IsFiniteSet(Filled) /\ \A s : IsFiniteSet(FilledOf(s))
         /\ Ints(Moved, Filled) /\ Ints(Paid, Filled)
<1>1. ASSUME NEW o \in Orders
      PROVE  Signed(o) \in Int
  <2>1. o.qty \in Nat
    BY PaperAssumption DEF Orders
  <2> QED BY <2>1 DEF Signed
<1>2. Ints(Moved, DOMAIN book)
  BY <1>1 DEF PaperInv, PaperTypeOK, Entry, Moved, Ints
<1>3. Ints(Paid, DOMAIN book)
  <2>1. \A i \in DOMAIN book : Moved[i] \in Int /\ book[i].price \in Int
    BY <1>2 DEF PaperInv, PaperTypeOK, Entry, Ints
  <2>2. \A i \in DOMAIN book : Moved[i] * book[i].price \in Int
    BY <2>1
  <2> HIDE DEF PaperInv
  <2> QED BY <2>2 DEF Paid, Ints
<1>4. Filled \subseteq DOMAIN book /\ \A s : FilledOf(s) \subseteq DOMAIN book
  BY DEF Filled, FilledOf
<1> QED
  BY <1>2, <1>3, <1>4, FS_Subset DEF PaperInv, PaperTypeOK, Ints

\* Averages stay fractions.
LEMMA AverageType ==
  ASSUME NEW lot, lot.qty \in Int, lot.n \in Int, lot.d \in Int, lot.d # 0,
         NEW q \in Int, NEW paid \in Int
  PROVE  LET new == ApplyFill(lot, q, paid)
         IN  /\ new = [qty |-> lot.qty + q, n |-> new.n, d |-> new.d]
             /\ new.n \in Int /\ new.d \in Int /\ new.d # 0
<1> DEFINE rest == lot.qty + q
           new == ApplyFill(lot, q, paid)
<1>1. CASE rest = 0
  BY <1>1 DEF ApplyFill, Flat
<1>2. CASE rest # 0 /\ lot.qty * q >= 0
  <2>1. new = [qty |-> rest, n |-> lot.n * lot.qty + paid * q * lot.d, d |-> lot.d * rest]
    BY <1>2 DEF ApplyFill
  <2>2. lot.n * lot.qty + paid * q * lot.d \in Int /\ lot.d * rest \in Int
    OBVIOUS
  <2>3. \A a, b \in Int : a # 0 /\ b # 0 => a * b # 0
    OBVIOUS
  <2>4. lot.d * rest # 0
    <3> HIDE DEF rest
    <3>1. rest \in Int /\ rest # 0
      BY <1>2 DEF rest
    <3> QED BY <2>3, <3>1
  <2> QED BY <2>1, <2>2, <2>4
<1>3. CASE rest # 0 /\ ~(lot.qty * q >= 0) /\ rest * lot.qty < 0
  BY <1>3 DEF ApplyFill
<1>4. CASE rest # 0 /\ ~(lot.qty * q >= 0) /\ ~(rest * lot.qty < 0)
  BY <1>4 DEF ApplyFill
<1> QED BY <1>1, <1>2, <1>3, <1>4

\* Quotes, orders and cancels keep it.
LEMMA PaperStep ==
  ASSUME PaperInv, PaperNext \/ UNCHANGED paperVars
  PROVE  PaperInv'
<1>1. CASE SetPrice
  <2>1. UNCHANGED <<funds, lots, book>>
    BY <1>1 DEF SetPrice
  <2>2. quote' \in [Listed -> Prices]
    BY <1>1 DEF SetPrice, PaperInv, PaperTypeOK
  <2>3. FillsExplainAccount'
    BY <2>1 DEF PaperInv, FillsExplainAccount, FilledOf, Filled, Moved, Paid
  <2> QED BY <2>1, <2>2, <2>3 DEF PaperInv, PaperTypeOK
<1>2. CASE CancelOrder
  <2>1. PICK i \in DOMAIN book : /\ book[i].status = "accepted"
                                 /\ book' = [book EXCEPT ![i].status = "cancelled"]
    BY <1>2 DEF CancelOrder
  <2>2. UNCHANGED <<quote, funds, lots>>
    BY <1>2 DEF CancelOrder
  <2>3. book' = [j \in DOMAIN book |->
                   IF j = i THEN [order |-> book[i].order, status |-> "cancelled", price |-> book[i].price]
                   ELSE book[j]]
    <3>1. book[i] = [order |-> book[i].order, status |-> book[i].status, price |-> book[i].price]
      BY DEF PaperInv, PaperTypeOK, Entry
    <3>2. [book[i] EXCEPT !.status = "cancelled"] = [order |-> book[i].order, status |-> "cancelled", price |-> book[i].price]
      BY <3>1
    <3>3. book = [j \in DOMAIN book |-> book[j]]
      BY DEF PaperInv, PaperTypeOK
    <3> QED BY <2>1, <3>2, <3>3
  <2>4. /\ DOMAIN book' = DOMAIN book
        /\ \A j \in DOMAIN book : book'[j].order = book[j].order /\ book'[j].price = book[j].price
        /\ \A j \in DOMAIN book : book'[j].status = "filled" <=> book[j].status = "filled"
    BY <2>1, <2>3
  <2>5. Filled' = Filled /\ Moved' = Moved /\ Paid' = Paid /\ \A s : FilledOf(s)' = FilledOf(s)
    BY <2>4 DEF Filled, Moved, Paid, FilledOf
  <2>6. FillsExplainAccount'
    BY <2>2, <2>5 DEF PaperInv, FillsExplainAccount
  <2>7. PaperTypeOK'
    <3>1. book' \in [DOMAIN book -> Entry]
      BY <2>3 DEF PaperInv, PaperTypeOK, Entry, Status
    <3> QED BY <2>2, <2>4, <3>1 DEF PaperInv, PaperTypeOK
  <2> QED BY <2>6, <2>7 DEF PaperInv
<1>3. CASE Submit
  <2>1. PICK o \in Orders : o.id \notin DOMAIN book /\ Remember(o) /\ Settle(o) /\ UNCHANGED quote
    BY <1>3 DEF Submit
  <2> DEFINE i == o.id
             r == [order |-> o, status |-> Outcome(o), price |-> FillPrice(o)]
  <2>2. /\ o.sym \in Listed /\ o.qty \in Nat /\ o.limit \in Nat
        /\ Signed(o) \in Int /\ FillPrice(o) \in Int
    BY PaperAssumption DEF Orders, Signed, FillPrice, PaperInv, PaperTypeOK
  <2>3. book' = [j \in DOMAIN book \cup {i} |-> IF j = i THEN r ELSE book[j]]
    BY <2>1 DEF Remember
  <2>4. /\ DOMAIN book' = DOMAIN book \cup {i} /\ book'[i] = r
        /\ \A j \in DOMAIN book : book'[j] = book[j]
    BY <2>1, <2>3
  <2>5. IsFiniteSet(DOMAIN book')
    BY <2>4, FS_AddElement DEF PaperInv, PaperTypeOK
  <2>6. Outcome(o) \in {"rejected", "accepted", "filled"}
    BY DEF Outcome
  <2> HIDE DEF r
  <2>7. book' \in [DOMAIN book' -> Entry] /\ \A j \in DOMAIN book' : book'[j].order.id = j
    <3>1. r \in Entry /\ r.order.id = i
      BY <2>2, <2>6 DEF Entry, Status, r
    <3> QED BY <2>3, <3>1 DEF PaperInv, PaperTypeOK
  <2>8. CASE Outcome(o) = "filled"
    <3>1. lots' = [lots EXCEPT ![o.sym] = ApplyFill(@, Signed(o), FillPrice(o))]
          /\ funds' = funds - Signed(o) * FillPrice(o)
      BY <2>1, <2>8 DEF Settle
    <3> DEFINE new == ApplyFill(lots[o.sym], Signed(o), FillPrice(o))
    <3>2. /\ new = [qty |-> lots[o.sym].qty + Signed(o), n |-> new.n, d |-> new.d]
          /\ new.n \in Int /\ new.d \in Int /\ new.d # 0
      BY <2>2, AverageType DEF PaperInv, PaperTypeOK
    <3> HIDE DEF new
    <3>3. lots' = [s \in Listed |-> IF s = o.sym THEN new ELSE lots[s]]
      BY <3>1 DEF PaperInv, PaperTypeOK, new
    <3>4. /\ lots' \in [Listed -> [qty : Int, n : Int, d : Int \ {0}]]
          /\ lots'[o.sym].qty = lots[o.sym].qty + Signed(o)
          /\ \A s \in Listed : s # o.sym => lots'[s] = lots[s]
      <4>1. new \in [qty : Int, n : Int, d : Int \ {0}] /\ new.qty = lots[o.sym].qty + Signed(o)
        BY <2>2, <3>2 DEF PaperInv, PaperTypeOK
      <4> QED BY <2>2, <3>3, <4>1 DEF PaperInv, PaperTypeOK
    <3>5. /\ Filled' = Filled \cup {i} /\ FilledOf(o.sym)' = FilledOf(o.sym) \cup {i}
          /\ \A s : s # o.sym => FilledOf(s)' = FilledOf(s)
          /\ i \notin Filled /\ i \notin FilledOf(o.sym)
      BY <2>1, <2>4, <2>8 DEF Filled, FilledOf, r
    <3>6. /\ \A j \in DOMAIN book : Moved'[j] = Moved[j] /\ Paid'[j] = Paid[j]
          /\ Moved'[i] = Signed(o) /\ Paid'[i] = Signed(o) * FillPrice(o)
      BY <2>1, <2>4 DEF Moved, Paid, r
    <3>7. /\ IsFiniteSet(Filled) /\ \A s : IsFiniteSet(FilledOf(s)) /\ FilledOf(s) \subseteq Filled
          /\ Filled \subseteq DOMAIN book
          /\ Ints(Moved, Filled) /\ Ints(Paid, Filled)
      BY PaperInts DEF Filled, FilledOf
    <3>8. Ints(Moved', Filled \cup {i}) /\ Ints(Paid', Filled \cup {i})
      BY <2>2, <3>6, <3>7 DEF Ints
    <3>9. /\ \A s : SumFunctionOnSet(Moved', FilledOf(s)) = SumFunctionOnSet(Moved, FilledOf(s))
          /\ SumFunctionOnSet(Paid', Filled) = SumFunctionOnSet(Paid, Filled)
      <4>1. \A j \in Filled : Moved'[j] = Moved[j] /\ Paid'[j] = Paid[j]
        BY <3>6, <3>7
      <4>2. \A s : \A j \in FilledOf(s) : Moved'[j] = Moved[j]
        BY <4>1, <3>7
      <4> QED BY <4>1, <4>2, <3>7, SumAgree
    <3>10. SumFunctionOnSet(Moved', FilledOf(o.sym) \cup {i}) = Signed(o) + SumFunctionOnSet(Moved, FilledOf(o.sym))
      <4>1. Ints(Moved', FilledOf(o.sym) \cup {i})
        BY <3>7, <3>8 DEF Ints
      <4>2. SumFunctionOnSet(Moved', FilledOf(o.sym) \cup {i}) = Moved'[i] + SumFunctionOnSet(Moved', FilledOf(o.sym))
        BY <4>1, <3>5, <3>7, SumAdd
      <4> QED BY <4>2, <3>6, <3>9
    <3>11. SumFunctionOnSet(Paid', Filled \cup {i}) = Signed(o) * FillPrice(o) + SumFunctionOnSet(Paid, Filled)
      <4>1. SumFunctionOnSet(Paid', Filled \cup {i}) = Paid'[i] + SumFunctionOnSet(Paid', Filled)
        BY <3>5, <3>7, <3>8, SumAdd
      <4> QED BY <4>1, <3>6, <3>9
    <3>12. funds' = Opening - SumFunctionOnSet(Paid, Filled)'
      <4>1. SumFunctionOnSet(Paid, Filled) \in Int /\ Signed(o) * FillPrice(o) \in Int
        BY <2>2, <3>7, SumType
      <4>2. funds = Opening - SumFunctionOnSet(Paid, Filled)
        BY DEF PaperInv, FillsExplainAccount
      <4> QED BY <4>1, <4>2, <3>1, <3>5, <3>11, PaperAssumption
    <3>13. \A s \in Listed : lots'[s].qty = SumFunctionOnSet(Moved, FilledOf(s))'
      <4>1. ASSUME NEW s \in Listed, s # o.sym
            PROVE  lots'[s].qty = SumFunctionOnSet(Moved, FilledOf(s))'
        BY <4>1, <3>4, <3>5, <3>9 DEF PaperInv, FillsExplainAccount
      <4>2. lots'[o.sym].qty = SumFunctionOnSet(Moved, FilledOf(o.sym))'
        <5>1. SumFunctionOnSet(Moved, FilledOf(o.sym)) = lots[o.sym].qty /\ lots[o.sym].qty \in Int
          BY <2>2 DEF PaperInv, PaperTypeOK, FillsExplainAccount
        <5> QED BY <5>1, <2>2, <3>4, <3>5, <3>10
      <4> QED BY <4>1, <4>2
    <3>14. FillsExplainAccount'
      BY <3>12, <3>13 DEF FillsExplainAccount
    <3>15. funds' \in Int
      BY <2>2, <3>1 DEF PaperInv, PaperTypeOK
    <3>16. PaperTypeOK'
      BY <2>1, <2>5, <2>7, <3>4, <3>15 DEF PaperInv, PaperTypeOK
    <3> QED BY <3>14, <3>16 DEF PaperInv
  <2>9. CASE Outcome(o) # "filled"
    <3>1. UNCHANGED <<funds, lots>>
      BY <2>1, <2>9 DEF Settle
    <3>2. Filled' = Filled /\ \A s : FilledOf(s)' = FilledOf(s)
      BY <2>1, <2>4, <2>9 DEF Filled, FilledOf, r
    <3>3. \A j \in DOMAIN book : Moved'[j] = Moved[j] /\ Paid'[j] = Paid[j]
      BY <2>4 DEF Moved, Paid
    <3>4. /\ IsFiniteSet(Filled) /\ \A s : IsFiniteSet(FilledOf(s)) /\ FilledOf(s) \subseteq DOMAIN book
          /\ Filled \subseteq DOMAIN book
      BY PaperInts DEF Filled, FilledOf
    <3>5. /\ \A s : SumFunctionOnSet(Moved', FilledOf(s)) = SumFunctionOnSet(Moved, FilledOf(s))
          /\ SumFunctionOnSet(Paid', Filled) = SumFunctionOnSet(Paid, Filled)
      <4>1. \A j \in Filled : Paid'[j] = Paid[j]
        BY <3>3, <3>4
      <4>2. \A s : \A j \in FilledOf(s) : Moved'[j] = Moved[j]
        BY <3>3, <3>4
      <4> QED BY <4>1, <4>2, <3>4, SumAgree
    <3>6. FillsExplainAccount'
      BY <3>1, <3>2, <3>5 DEF PaperInv, FillsExplainAccount
    <3>7. PaperTypeOK'
      BY <2>1, <2>5, <2>7, <3>1 DEF PaperInv, PaperTypeOK
    <3> QED BY <3>6, <3>7 DEF PaperInv
  <2> QED BY <2>8, <2>9
<1>4. CASE UNCHANGED paperVars
  BY <1>4 DEF paperVars, PaperInv, PaperTypeOK, FillsExplainAccount, FilledOf, Filled, Moved, Paid
<1> QED BY <1>1, <1>2, <1>3, <1>4 DEF PaperNext

\* The balance of a fill, given the shares it closes.
Balanced(old, new, paid, closed) ==
  LET q == new.qty - old.qty
  IN  (new.qty * new.n * old.d - old.qty * old.n * new.d - paid * old.d * new.d) * q
        = closed * (paid * old.d - old.n * q) * new.d

\* A position is averaged in, reduced, closed or turned with the books in balance.
LEMMA FillKeepsBooks ==
  ASSUME NEW lot \in [qty : Int, n : Int, d : Int \ {0}], NEW q \in Int, NEW paid \in Int
  PROVE  FillBalances(lot, ApplyFill(lot, q, paid), q * paid)
<1> DEFINE rest == lot.qty + q
           new == ApplyFill(lot, q, paid)
<1>1. /\ lot.qty \in Int /\ lot.n \in Int /\ lot.d \in Int /\ rest \in Int
      /\ new.qty = rest /\ rest - lot.qty = q
  BY AverageType
<1>2. CASE rest = 0
  <2>1. new = [qty |-> 0, n |-> 0, d |-> 1]
    BY <1>2 DEF ApplyFill, Flat
  <2>2. new.qty = 0 /\ new.n = 0 /\ new.d = 1 /\ q = -lot.qty
    BY <1>1, <1>2, <2>1
  <2> HIDE DEF new
  <2>3. Balanced(lot, new, q * paid, lot.qty)
    BY <1>1, <2>2 DEF Balanced
  <2>4. CASE lot.qty = 0
    <3>1. lot.qty * q >= 0
      BY <1>1, <2>4
    <3>2. Balanced(lot, new, q * paid, 0)
      BY <1>1, <2>2, <2>4 DEF Balanced
    <3> QED BY <1>1, <3>1, <3>2 DEF Balanced, FillBalances, new
  <2>5. CASE lot.qty # 0
    <3>1. lot.qty * q < 0 /\ ~(Abs(q) < Abs(lot.qty))
      BY <1>1, <2>2, <2>5 DEF Abs
    <3> QED BY <1>1, <3>1, <2>3 DEF Balanced, FillBalances, new
  <2> QED BY <2>4, <2>5
<1>3. CASE rest # 0 /\ lot.qty * q >= 0
  <2>1. new = [qty |-> rest, n |-> lot.n * lot.qty + paid * q * lot.d, d |-> lot.d * rest]
    BY <1>3 DEF ApplyFill
  <2>2. new.n = lot.n * lot.qty + paid * q * lot.d /\ new.d = lot.d * rest
    BY <2>1
  <2>3. Balanced(lot, new, q * paid, 0)
    <3> HIDE DEF new
    <3> QED BY <1>1, <2>2 DEF Balanced
  <2> QED BY <1>1, <1>3, <2>3 DEF Balanced, FillBalances
<1>4. CASE rest # 0 /\ ~(lot.qty * q >= 0) /\ rest * lot.qty < 0
  <2>1. new = [qty |-> rest, n |-> paid, d |-> 1]
    BY <1>4 DEF ApplyFill
  <2>2. new.n = paid /\ new.d = 1
    BY <2>1
  <2> HIDE DEF new
  <2>3. Balanced(lot, new, q * paid, lot.qty)
    BY <1>1, <2>2 DEF Balanced
  <2>4. lot.qty * q < 0 /\ ~(Abs(q) < Abs(lot.qty))
    <3>1. lot.qty * q < 0
      BY <1>1, <1>4
    <3>2. (lot.qty > 0 /\ q < 0 /\ rest < 0) \/ (lot.qty < 0 /\ q > 0 /\ rest > 0)
      BY <1>1, <1>4, <3>1
    <3> QED BY <1>1, <3>1, <3>2 DEF Abs
  <2> QED BY <1>1, <2>3, <2>4 DEF Balanced, FillBalances, new
<1>5. CASE rest # 0 /\ ~(lot.qty * q >= 0) /\ ~(rest * lot.qty < 0)
  <2>1. new = [qty |-> rest, n |-> lot.n, d |-> lot.d]
    BY <1>5 DEF ApplyFill
  <2>2. new.n = lot.n /\ new.d = lot.d
    BY <2>1
  <2> HIDE DEF new
  <2>3. Balanced(lot, new, q * paid, -q)
    BY <1>1, <2>2 DEF Balanced
  <2>4. lot.qty * q < 0 /\ Abs(q) < Abs(lot.qty)
    <3>1. lot.qty * q < 0
      BY <1>1, <1>5
    <3>2. (lot.qty > 0 /\ q < 0 /\ rest > 0) \/ (lot.qty < 0 /\ q > 0 /\ rest < 0)
      BY <1>1, <1>5, <3>1
    <3> QED BY <1>1, <3>1, <3>2 DEF Abs
  <2> QED BY <1>1, <2>3, <2>4 DEF Balanced, FillBalances, new
<1> QED BY <1>2, <1>3, <1>4, <1>5


\* A position no order of the step is about.
LEMMA NothingBalances ==
  ASSUME NEW lot \in [qty : Int, n : Int, d : Int \ {0}], NEW paid \in Int
  PROVE  FillBalances(lot, lot, paid)
<1>1. lot.qty - lot.qty = 0 /\ lot.qty * 0 >= 0 /\ lot.n * 0 = 0
  OBVIOUS
<1>2. \A x \in Int : x * 0 = 0 /\ 0 * x = 0
  OBVIOUS
<1>3. /\ lot.qty * lot.n * lot.d - lot.qty * lot.n * lot.d - paid * lot.d * lot.d \in Int
      /\ paid * lot.d - lot.n * 0 \in Int
  OBVIOUS
<1> QED BY <1>1, <1>2, <1>3 DEF FillBalances

\* Every step of the broker keeps the books: the one that fills, and the others that move nothing.
LEMMA PaperStepBalances ==
  ASSUME PaperInv, PaperNext \/ UNCHANGED paperVars
  PROVE  \A s \in Listed : FillBalances(lots[s], lots'[s], funds - funds')
<1>1. \A s \in Listed : lots[s] \in [qty : Int, n : Int, d : Int \ {0}]
  BY DEF PaperInv, PaperTypeOK
<1>0. funds - funds' \in Int
  BY PaperStep DEF PaperInv, PaperTypeOK
<1>2. ASSUME UNCHANGED lots
      PROVE  \A s \in Listed : FillBalances(lots[s], lots'[s], funds - funds')
  BY <1>0, <1>1, <1>2, NothingBalances
<1>3. CASE UNCHANGED paperVars \/ SetPrice \/ CancelOrder
  BY <1>2, <1>3 DEF paperVars, SetPrice, CancelOrder
<1>4. CASE Submit
  <2>1. PICK o \in Orders : Settle(o)
    BY <1>4 DEF Submit
  <2>2. CASE Outcome(o) # "filled"
    BY <1>2, <2>1, <2>2 DEF Settle
  <2>3. CASE Outcome(o) = "filled"
    <3>1. /\ lots' = [lots EXCEPT ![o.sym] = ApplyFill(@, Signed(o), FillPrice(o))]
          /\ funds' = funds - Signed(o) * FillPrice(o)
      BY <2>1, <2>3 DEF Settle
    <3>2. o.sym \in Listed /\ o.qty \in Nat /\ o.limit \in Nat
      BY PaperAssumption DEF Orders
    <3>3. Signed(o) \in Int /\ FillPrice(o) \in Int
      BY <3>2, PaperAssumption DEF Signed, FillPrice, PaperInv, PaperTypeOK
    <3>4. funds - funds' = Signed(o) * FillPrice(o)
      BY <3>1, <3>3 DEF PaperInv, PaperTypeOK
    <3>5. FillBalances(lots[o.sym], lots'[o.sym], funds - funds')
      BY <1>1, <3>1, <3>2, <3>3, <3>4, FillKeepsBooks DEF PaperInv, PaperTypeOK
    <3>6. \A s \in Listed : s # o.sym => lots'[s] = lots[s]
      BY <3>1 DEF PaperInv, PaperTypeOK
    <3>7. \A s \in Listed : s # o.sym => FillBalances(lots[s], lots'[s], funds - funds')
      BY <1>0, <1>1, <3>6, NothingBalances
    <3> QED BY <3>5, <3>7
  <2> QED BY <2>2, <2>3
<1> QED BY <1>3, <1>4 DEF PaperNext

-----------------------------------------------------------------------------
(* The panel of analysts                                                    *)

\* What a panel may have said.
Panels == UNION {[asked -> View] : asked \in SUBSET Roles}

\* At most two analysts vote: a sum over the voters has at most two terms.
LEMMA TwoVoters ==
  ASSUME NEW v, NEW f, \A r \in Voters(v) : f[r] \in Int
  PROVE  LET sum == SumFunctionOnSet(f, Voters(v))
         IN  /\ Voters(v) = {} => sum = 0
             /\ \A a \in {"news", "technical"} : Voters(v) = {a} => sum = f[a]
             /\ Voters(v) = {"news", "technical"} => sum = f["news"] + f["technical"]
<1>1. IsFiniteSet({}) /\ \A a : IsFiniteSet({a})
  BY FS_EmptySet, FS_Singleton
<1>2. Voters(v) = {} => SumFunctionOnSet(f, Voters(v)) = 0
  BY SumEmpty
<1>3. ASSUME NEW a, a \in Voters(v)
      PROVE  SumFunctionOnSet(f, {a}) = f[a]
  <2>1. SumFunctionOnSet(f, {} \cup {a}) = f[a] + SumFunctionOnSet(f, {})
    <3>1. Ints(f, {} \cup {a}) /\ a \notin {}
      BY <1>3 DEF Ints
    <3> QED BY <1>1, <3>1, SumAdd
  <2>2. {} \cup {a} = {a} /\ SumFunctionOnSet(f, {}) = 0 /\ f[a] \in Int
    BY <1>3, SumEmpty
  <2> QED BY <2>1, <2>2
<1>4. Voters(v) = {"news", "technical"} => SumFunctionOnSet(f, Voters(v)) = f["news"] + f["technical"]
  <2> SUFFICES ASSUME Voters(v) = {"news", "technical"}
               PROVE  SumFunctionOnSet(f, {"news", "technical"}) = f["news"] + f["technical"]
    OBVIOUS
  <2>1. SumFunctionOnSet(f, {"news"} \cup {"technical"}) = f["technical"] + SumFunctionOnSet(f, {"news"})
    <3>1. Ints(f, {"news"} \cup {"technical"}) /\ "technical" \notin {"news"}
      BY DEF Ints
    <3> QED BY <1>1, <3>1, SumAdd
  <2>2. {"news"} \cup {"technical"} = {"news", "technical"} /\ SumFunctionOnSet(f, {"news"}) = f["news"]
    BY <1>3
  <2>3. f["news"] \in Int /\ f["technical"] \in Int
    OBVIOUS
  <2> QED BY <2>1, <2>2, <2>3
<1> QED BY <1>2, <1>3, <1>4

\* The three sizes of a set of voters.
LEMMA VotersAre ==
  ASSUME NEW v \in Panels
  PROVE  /\ \/ Voters(v) = {}
            \/ \E a \in {"news", "technical"} : Voters(v) = {a} /\ Cardinality(Voters(v)) = 1
            \/ Voters(v) = {"news", "technical"} /\ Cardinality(Voters(v)) = 2
         /\ \A r \in Voters(v) : /\ r \in DOMAIN v /\ v[r].confidence \in 1 .. Grid
                                 /\ v[r].score \in (-Grid) .. Grid
<1>1. PICK asked \in SUBSET Roles : v \in [asked -> View]
  BY DEF Panels
<1>2. \A r \in asked : v[r].confidence \in 0 .. Grid /\ v[r].score \in (-Grid) .. Grid
  BY <1>1 DEF View
<1>3. Voters(v) \subseteq asked /\ Voters(v) \subseteq {"news", "technical"}
      /\ \A r \in Voters(v) : v[r].confidence > 0
  BY <1>1 DEF Voters, Directional
<1>4. \/ Voters(v) = {} \/ Voters(v) = {"news"} \/ Voters(v) = {"technical"}
      \/ Voters(v) = {"news", "technical"}
  BY <1>3
<1>5. Cardinality({"news"}) = 1 /\ Cardinality({"technical"}) = 1 /\ Cardinality({"news", "technical"}) = 2
  <2>1. Cardinality({"news"}) = 1 /\ Cardinality({"technical"}) = 1
    BY FS_Singleton
  <2>2. IsFiniteSet({"news"}) /\ "technical" \notin {"news"}
    BY FS_Singleton
  <2>3. Cardinality({"news"} \cup {"technical"}) = 1 + 1
    BY <2>1, <2>2, FS_AddElement
  <2>4. {"news"} \cup {"technical"} = {"news", "technical"}
    OBVIOUS
  <2> QED BY <2>1, <2>3, <2>4
<1>6. Grid \in Nat
  BY FactoryAssumption
<1>7. \A r \in Voters(v) : /\ r \in DOMAIN v /\ v[r].confidence \in 1 .. Grid
                          /\ v[r].score \in (-Grid) .. Grid
  BY <1>1, <1>2, <1>3, <1>6
<1>8. Voters(v) = {"news"} \/ Voters(v) = {"technical"}
        => \E a \in {"news", "technical"} : Voters(v) = {a} /\ Cardinality(Voters(v)) = 1
  BY <1>5
<1> QED BY <1>4, <1>5, <1>7, <1>8

\* A factor that is not negative keeps the order.
LEMMA Times ==
  ASSUME NEW x \in Int, NEW y \in Int, NEW z \in Int, 0 <= x, x <= y, 0 <= z
  PROVE  0 <= x * z /\ x * z <= y * z /\ x * z \in Int /\ y * z \in Int
  OBVIOUS

\* The deviation of an analyst from the score of two.
LEMMA Deviation ==
  ASSUME NEW s \in (-Grid) .. Grid, NEW q \in (-Grid) .. Grid, NEW c \in Nat, NEW d \in Nat
  PROVE  /\ Far(s * (c + d) - (s * c + q * d)) \in Nat
         /\ Far(s * (c + d) - (s * c + q * d)) <= 2 * Grid * d
<1>1. Grid \in Nat /\ s \in Int /\ q \in Int /\ s - q <= 2 * Grid /\ q - s <= 2 * Grid
  BY FactoryAssumption
<1>2. s * (c + d) - (s * c + q * d) = (s - q) * d
  BY <1>1
<1>3. CASE s >= q
  <2>1. 0 <= (s - q) * d /\ (s - q) * d <= (2 * Grid) * d /\ (s - q) * d \in Int
    BY <1>1, <1>3, Times
  <2>2. Far((s - q) * d) = (s - q) * d
    BY <2>1 DEF Far
  <2> QED BY <1>2, <2>1, <2>2
<1>4. CASE s < q
  <2>1. 0 <= (q - s) * d /\ (q - s) * d <= (2 * Grid) * d /\ (q - s) * d \in Int
    BY <1>1, <1>4, Times
  <2>2. (s - q) * d = -((q - s) * d)
    BY <1>1
  <2>3. Far((s - q) * d) = (q - s) * d
    BY <2>1, <2>2 DEF Far
  <2> QED BY <1>2, <2>1, <2>3
<1> QED BY <1>1, <1>3, <1>4

\* Somebody votes: the mean confidence and the agreement are between none and whole.
LEMMA SumsAre ==
  ASSUME NEW v \in Panels, Voters(v) # {}
  PROVE  LET spread == SumFunctionOnSet(Deviations(v), Voters(v))
         IN  /\ Weight(v) \in Nat \ {0} /\ Votes(v) \in Int /\ Cardinality(Voters(v)) \in Nat \ {0}
             /\ Weight(v) <= Grid * Cardinality(Voters(v))
             /\ spread \in Nat /\ spread <= 2 * Weight(v) * Weight(v) * Grid
<1> DEFINE conf == [r \in Voters(v) |-> v[r].confidence]
           vote == [r \in Voters(v) |-> v[r].score * v[r].confidence]
           dev == Deviations(v)
           spread == SumFunctionOnSet(dev, Voters(v))
<1>0. Grid \in Nat
  BY FactoryAssumption
<1>1. \A r \in Voters(v) : /\ v[r].confidence \in 1 .. Grid /\ v[r].score \in (-Grid) .. Grid
                           /\ v[r].confidence \in Nat /\ v[r].score \in Int
                           /\ conf[r] = v[r].confidence /\ vote[r] = v[r].score * v[r].confidence
                           /\ vote[r] \in Int
  BY <1>0, VotersAre
<1>2. Weight(v) = SumFunctionOnSet(conf, Voters(v)) /\ Votes(v) = SumFunctionOnSet(vote, Voters(v))
  BY DEF Weight, Votes
<1>3. \A r \in Voters(v) : dev[r] = Far(v[r].score * Weight(v) - Votes(v)) * v[r].confidence
  BY DEF Deviations
<1> HIDE DEF conf, vote, dev
<1>4. ASSUME NEW a \in {"news", "technical"}, Voters(v) = {a}
      PROVE  /\ Weight(v) \in 1 .. Grid /\ Votes(v) \in Int /\ spread = 0
  <2>1. Weight(v) = v[a].confidence /\ Votes(v) = v[a].score * v[a].confidence
    <3>1. \A r \in Voters(v) : conf[r] \in Int /\ vote[r] \in Int
      BY <1>1
    <3>2. SumFunctionOnSet(conf, Voters(v)) = conf[a] /\ SumFunctionOnSet(vote, Voters(v)) = vote[a]
      BY <1>4, <3>1, TwoVoters
    <3>3. conf[a] = v[a].confidence /\ vote[a] = v[a].score * v[a].confidence
      BY <1>1, <1>4
    <3> QED BY <1>2, <3>2, <3>3
  <2>2. dev[a] = 0
    <3>1. Far(v[a].score * Weight(v) - Votes(v)) = 0
      BY <1>1, <1>4, <2>1 DEF Far
    <3> QED BY <1>1, <1>3, <1>4, <3>1
  <2>3. spread = dev[a]
    BY <1>4, <2>2, TwoVoters
  <2> QED BY <1>1, <1>4, <2>1, <2>2, <2>3
<1>5. CASE \E a \in {"news", "technical"} : Voters(v) = {a} /\ Cardinality(Voters(v)) = 1
  <2>1. Cardinality(Voters(v)) = 1 /\ Weight(v) \in 1 .. Grid /\ Votes(v) \in Int /\ spread = 0
    BY <1>4, <1>5
  <2>2. Weight(v) \in Nat \ {0} /\ Weight(v) <= Grid * 1
    BY <1>0, <2>1
  <2>3. 0 <= 2 * Weight(v) * Weight(v) * Grid
    <3>1. 0 <= 2 * Weight(v) * Weight(v) /\ 2 * Weight(v) * Weight(v) \in Int
      BY <2>2
    <3> QED BY <1>0, <3>1
  <2> QED BY <2>1, <2>2, <2>3 DEF dev
<1>6. CASE Voters(v) = {"news", "technical"} /\ Cardinality(Voters(v)) = 2
  <2> DEFINE c == v["news"].confidence
             d == v["technical"].confidence
             s == v["news"].score
             q == v["technical"].score
  <2>1. c \in 1 .. Grid /\ d \in 1 .. Grid /\ s \in (-Grid) .. Grid /\ q \in (-Grid) .. Grid
    BY <1>1, <1>6
  <2>2. Weight(v) = c + d /\ Votes(v) = s * c + q * d
    <3>1. \A r \in Voters(v) : conf[r] \in Int /\ vote[r] \in Int
      BY <1>1
    <3>2. /\ SumFunctionOnSet(conf, Voters(v)) = conf["news"] + conf["technical"]
          /\ SumFunctionOnSet(vote, Voters(v)) = vote["news"] + vote["technical"]
      BY <1>6, <3>1, TwoVoters
    <3>3. /\ conf["news"] = c /\ vote["news"] = s * c
          /\ conf["technical"] = d /\ vote["technical"] = q * d
      BY <1>1, <1>6
    <3> QED BY <1>2, <3>2, <3>3
  <2>3. dev["news"] = Far(s * (c + d) - (s * c + q * d)) * c
        /\ dev["technical"] = Far(q * (c + d) - (s * c + q * d)) * d
    BY <1>3, <1>6, <2>2
  <2> HIDE DEF c, d, s, q
  <2>4. c \in Nat /\ d \in Nat /\ s \in Int /\ q \in Int
    BY <1>0, <2>1
  <2> DEFINE x == Far(s * (c + d) - (s * c + q * d))
             y == Far(q * (c + d) - (s * c + q * d))
  <2>5. x \in Nat /\ x <= 2 * Grid * d
    BY <2>1, <2>4, Deviation
  <2>6. y \in Nat /\ y <= 2 * Grid * c
    <3>1. q * (d + c) - (q * d + s * c) = q * (c + d) - (s * c + q * d)
      BY <2>4
    <3>2. Far(q * (d + c) - (q * d + s * c)) \in Nat /\ Far(q * (d + c) - (q * d + s * c)) <= 2 * Grid * c
      BY <2>1, <2>4, Deviation
    <3> QED BY <3>1, <3>2
  <2> HIDE DEF x, y
  <2>7. 0 <= x * c /\ x * c <= (2 * Grid * d) * c /\ x * c \in Int
    BY <1>0, <2>4, <2>5, Times
  <2>8. 0 <= y * d /\ y * d <= (2 * Grid * c) * d /\ y * d \in Int
    BY <1>0, <2>4, <2>6, Times
  <2>9. spread = x * c + y * d
    <3>1. dev["news"] = x * c /\ dev["technical"] = y * d
      BY <2>3 DEF x, y
    <3>2. \A r \in Voters(v) : dev[r] \in Int
      BY <1>6, <2>7, <2>8, <3>1
    <3> QED BY <1>6, <3>1, <3>2, TwoVoters
  <2>10. (2 * Grid * d) * c + (2 * Grid * c) * d <= 2 * (c + d) * (c + d) * Grid
    <3>1. 0 <= c * c /\ 0 <= d * d /\ 0 <= c * d /\ c * c \in Int /\ d * d \in Int /\ c * d \in Int
      BY <2>4
    <3>2. 2 * (c * d) <= (c + d) * (c + d) /\ (c + d) * (c + d) \in Int
      <4>1. (c + d) * (c + d) = c * c + 2 * (c * d) + d * d
        BY <2>4
      <4> QED BY <3>1, <4>1
    <3>3. (2 * (c * d)) * Grid <= ((c + d) * (c + d)) * Grid
      BY <1>0, <3>1, <3>2, Times
    <3>4. (2 * Grid * d) * c + (2 * Grid * c) * d = 2 * ((2 * (c * d)) * Grid)
      BY <1>0, <2>4
    <3>5. 2 * (c + d) * (c + d) * Grid = 2 * (((c + d) * (c + d)) * Grid)
      BY <1>0, <2>4
    <3>6. (2 * (c * d)) * Grid \in Int /\ ((c + d) * (c + d)) * Grid \in Int
      BY <1>0, <3>1, <3>2
    <3> QED BY <3>3, <3>4, <3>5, <3>6
  <2>11. spread \in Nat /\ spread <= 2 * (c + d) * (c + d) * Grid
    <3>1. (2 * Grid * d) * c \in Int /\ (2 * Grid * c) * d \in Int /\ 2 * (c + d) * (c + d) * Grid \in Int
      BY <1>0, <2>4
    <3> HIDE DEF spread
    <3> QED BY <2>7, <2>8, <2>9, <2>10, <3>1
  <2>12. c + d \in Nat \ {0} /\ s * c + q * d \in Int /\ c + d <= Grid * 2
    BY <1>0, <2>1, <2>4
  <2> QED BY <1>6, <2>2, <2>11, <2>12 DEF dev
<1> QED BY <1>5, <1>6, VotersAre

\* The risk analyst's factor is a fraction.
LEMMA DampingIs ==
  ASSUME NEW v \in Panels
  PROVE  /\ Damping(v) = <<Damping(v)[1], Damping(v)[2]>>
         /\ Damping(v)[1] \in Nat /\ Damping(v)[2] \in Nat \ {0} /\ Damping(v)[1] <= Damping(v)[2]
<1>1. CASE ~("risk" \in DOMAIN v /\ v["risk"].confidence > 0)
  BY <1>1 DEF Damping
<1>2. CASE "risk" \in DOMAIN v /\ v["risk"].confidence > 0
  <2> DEFINE c == v["risk"].confidence
             d == Grid - v["risk"].score
             m == RiskWeight[1]
             n == RiskWeight[2]
             whole == n * 2 * Grid * Grid
  <2>1. Grid \in Nat \ {0} /\ m \in Nat /\ n \in Nat \ {0} /\ m <= n
    BY FactoryAssumption
  <2>2. v["risk"] \in View
    <3>1. PICK asked \in SUBSET Roles : v \in [asked -> View]
      BY DEF Panels
    <3> QED BY <1>2, <3>1
  <2>3. c \in 0 .. Grid /\ v["risk"].score \in (-Grid) .. Grid
    BY <2>2 DEF View
  <2>4. c \in Nat /\ c <= Grid /\ d \in Nat /\ d <= 2 * Grid
    BY <2>1, <2>3
  <2>5. Damping(v) = <<whole - c * m * d, whole>>
    BY <1>2 DEF Damping
  <2> HIDE DEF c, d, m, n
  <2>6. 0 <= c * m /\ c * m <= Grid * n /\ c * m \in Int /\ Grid * n \in Int
    <3>1. 0 <= c * m /\ c * m <= Grid * m /\ c * m \in Int /\ Grid * m \in Int
      BY <2>1, <2>4, Times
    <3>2. m * Grid <= n * Grid /\ m * Grid = Grid * m /\ n * Grid = Grid * n /\ Grid * n \in Int
      BY <2>1, Times
    <3> QED BY <3>1, <3>2
  <2>7. 0 <= (c * m) * d /\ (c * m) * d <= (Grid * n) * d /\ (c * m) * d \in Int /\ (Grid * n) * d \in Int
    BY <2>4, <2>6, Times
  <2>8. d * (Grid * n) <= (2 * Grid) * (Grid * n) /\ (2 * Grid) * (Grid * n) \in Int
    <3>1. 0 <= Grid * n /\ 0 <= d /\ 2 * Grid \in Int
      BY <2>1, <2>4
    <3> QED BY <2>4, <2>6, <3>1, Times
  <2>9. d * (Grid * n) = (Grid * n) * d /\ (2 * Grid) * (Grid * n) = whole
    BY <2>1, <2>4
  <2>10. whole \in Nat \ {0}
    <3>1. n * 2 \in Nat \ {0}
      BY <2>1
    <3>2. n * 2 * Grid \in Nat \ {0}
      BY <2>1, <3>1
    <3> QED BY <2>1, <3>2
  <2> HIDE DEF whole
  <2>11. whole - c * m * d \in Nat /\ whole - c * m * d <= whole
    BY <2>7, <2>8, <2>9, <2>10
  <2> QED BY <2>5, <2>10, <2>11
<1> QED BY <1>1, <1>2

\* Who votes alike, agrees alike.
LEMMA SameVotes ==
  ASSUME NEW v, NEW w, Voters(w) = Voters(v), \A r \in Voters(v) : w[r] = v[r]
  PROVE  /\ Weight(w) = Weight(v) /\ Votes(w) = Votes(v)
         /\ MeanConfidence(w) = MeanConfidence(v) /\ Agreement(w) = Agreement(v)
<1>1. Weight(w) = Weight(v) /\ Votes(w) = Votes(v)
  <2>1. [r \in Voters(w) |-> w[r].confidence] = [r \in Voters(v) |-> v[r].confidence]
    OBVIOUS
  <2>2. [r \in Voters(w) |-> w[r].score * w[r].confidence] = [r \in Voters(v) |-> v[r].score * v[r].confidence]
    OBVIOUS
  <2> QED BY <2>1, <2>2 DEF Weight, Votes
<1>2. Deviations(w) = Deviations(v)
  BY <1>1 DEF Deviations
<1> QED BY <1>1, <1>2 DEF MeanConfidence, Agreement

\* What a panel says is between nothing and certainty, and its risk analyst only lowers it.
LEMMA Damped ==
  ASSUME NEW v \in Panels
  PROVE  LET sane == {r \in DOMAIN v : v[r].confidence > 0}
             full == Synthesize(v)
             spoke == Synthesize(Restrict(v, sane))
             calm == Synthesize(Restrict(v, DOMAIN v \ {"risk"}))
         IN  /\ AtMost(full.confidence, spoke.confidence) /\ AtMost(spoke.confidence, full.confidence)
             /\ full.score = spoke.score /\ full.score = calm.score
             /\ AtMost(<<0, 1>>, full.confidence) /\ AtMost(full.confidence, calm.confidence)
             /\ AtMost(calm.confidence, <<1, 1>>)
<1> DEFINE sane == {r \in DOMAIN v : v[r].confidence > 0}
           heard == Restrict(v, sane)
           bold == Restrict(v, DOMAIN v \ {"risk"})
<1>1. /\ DOMAIN heard = sane /\ DOMAIN bold = DOMAIN v \ {"risk"}
      /\ \A r \in sane : heard[r] = v[r]
      /\ \A r \in DOMAIN v \ {"risk"} : bold[r] = v[r]
  BY DEF Restrict
<1>2. Voters(heard) = Voters(v) /\ \A r \in Voters(v) : heard[r] = v[r]
  BY <1>1 DEF Voters
<1>3. Voters(bold) = Voters(v) /\ \A r \in Voters(v) : bold[r] = v[r]
  <2>1. Directional \cap DOMAIN bold = Directional \cap DOMAIN v
    BY <1>1 DEF Directional
  <2>2. \A r \in Directional \cap DOMAIN v : bold[r] = v[r]
    BY <1>1 DEF Directional
  <2> HIDE DEF bold
  <2> QED BY <2>1, <2>2 DEF Voters
<1>4. Damping(heard) = Damping(v)
  BY <1>1 DEF Damping
<1>5. Damping(bold) = <<1, 1>>
  BY <1>1 DEF Damping
<1> HIDE DEF heard, bold
<1>6. Synthesize(heard) = Synthesize(v)
  BY <1>2, <1>4, SameVotes DEF Synthesize
<1>7. CASE Voters(v) = {}
  <2>1. /\ Synthesize(v) = [score |-> <<0, 1>>, confidence |-> <<0, 1>>]
        /\ Synthesize(bold) = [score |-> <<0, 1>>, confidence |-> <<0, 1>>]
    BY <1>3, <1>7 DEF Synthesize
  <2>2. \A a \in {<<0, 1>>} : AtMost(a, a) /\ AtMost(<<0, 1>>, a) /\ AtMost(a, <<1, 1>>)
    BY DEF AtMost
  <2>3. Synthesize(v).confidence = <<0, 1>> /\ Synthesize(bold).confidence = <<0, 1>>
        /\ Synthesize(v).score = Synthesize(bold).score
    BY <2>1
  <2> QED BY <1>6, <2>2, <2>3 DEF heard, bold
<1>8. CASE Voters(v) # {}
  <2> DEFINE M == MeanConfidence(v)
             A == Agreement(v)
             D == Damping(v)
  <2>1. M[1] \in Nat /\ M[2] \in Nat /\ M[1] <= M[2]
    BY <1>8, SumsAre, FactoryAssumption DEF MeanConfidence
  <2>2. A[1] \in Nat /\ A[2] \in Nat /\ A[1] <= A[2]
    <3> DEFINE spread == SumFunctionOnSet(Deviations(v), Voters(v))
               whole == 2 * Weight(v) * Weight(v) * Grid
    <3>1. spread \in Nat /\ spread <= whole /\ Weight(v) \in Nat
      BY <1>8, SumsAre
    <3>2. whole \in Nat
      <4>1. Grid \in Nat
        BY FactoryAssumption
      <4>2. 2 * Weight(v) * Weight(v) \in Nat
        BY <3>1
      <4> QED BY <4>1, <4>2
    <3>3. A = <<whole - spread, whole>>
      BY DEF Agreement
    <3> HIDE DEF spread, whole, A
    <3> QED BY <3>1, <3>2, <3>3
  <2>3. D[1] \in Nat /\ D[2] \in Nat /\ D[1] <= D[2]
    BY DampingIs
  <2>4. /\ Synthesize(v) = [score |-> <<Votes(v), Weight(v) * Grid>>,
                            confidence |-> <<M[1] * A[1] * D[1], M[2] * A[2] * D[2]>>]
        /\ Synthesize(bold) = [score |-> <<Votes(v), Weight(v) * Grid>>,
                               confidence |-> <<M[1] * A[1] * 1, M[2] * A[2] * 1>>]
    BY <1>3, <1>5, <1>8, SameVotes DEF Synthesize
  <2> HIDE DEF M, A, D
  <2> DEFINE x == M[1] * A[1]
             y == M[2] * A[2]
  <2>5. x \in Nat /\ y \in Nat /\ x <= y
    <3>1. 0 <= M[1] * A[1] /\ M[1] * A[1] <= M[2] * A[1] /\ M[1] * A[1] \in Int
      BY <2>1, <2>2, Times
    <3>2. A[1] * M[2] <= A[2] * M[2] /\ A[1] * M[2] = M[2] * A[1] /\ A[2] * M[2] = M[2] * A[2]
          /\ M[2] * A[2] \in Nat
      BY <2>1, <2>2, Times
    <3>3. M[2] * A[1] \in Int
      BY <2>1, <2>2
    <3> QED BY <3>1, <3>2, <3>3
  <2> HIDE DEF x, y
  <2>6. x * D[1] \in Nat /\ y * D[2] \in Nat
    BY <2>3, <2>5
  <2>7. (x * D[1]) * (y * 1) <= (x * 1) * (y * D[2])
    <3>1. x * y \in Int /\ 0 <= x * y
      BY <2>5
    <3>2. D[1] * (x * y) <= D[2] * (x * y)
      BY <2>3, <3>1, Times
    <3>3. D[1] * (x * y) = (x * D[1]) * (y * 1) /\ D[2] * (x * y) = (x * 1) * (y * D[2])
      BY <2>3, <2>5
    <3> QED BY <3>2, <3>3
  <2>8. /\ Synthesize(v).confidence = <<x * D[1], y * D[2]>>
        /\ Synthesize(bold).confidence = <<x * 1, y * 1>>
        /\ Synthesize(v).score = Synthesize(bold).score
    BY <2>4 DEF x, y
  <2>9. AtMost(Synthesize(v).confidence, Synthesize(v).confidence)
    BY <2>6, <2>8 DEF AtMost
  <2>10. AtMost(<<0, 1>>, Synthesize(v).confidence)
    BY <2>6, <2>8 DEF AtMost
  <2>11. AtMost(Synthesize(v).confidence, Synthesize(bold).confidence)
    BY <2>7, <2>8 DEF AtMost
  <2>12. AtMost(Synthesize(bold).confidence, <<1, 1>>)
    BY <2>5, <2>8 DEF AtMost
  <2> QED BY <1>6, <2>8, <2>9, <2>10, <2>11, <2>12 DEF heard, bold
<1> QED BY <1>7, <1>8

-----------------------------------------------------------------------------
\* What a sweep has is about the names it sweeps and no younger than the clock; a panel is one.
FactoryTyped ==
  /\ hour \in 0 .. MaxHour /\ asOf \in Int /\ asOf <= hour
  /\ sweep \in {"idle", "asking", "storing"} /\ calls \in 0 .. Budget
  /\ left \in Seq(Swept)
  /\ \A e \in extracted : e.who \in Swept /\ e.known \in Int /\ e.known <= hour
  /\ \A g \in signals : /\ g.who \in Swept /\ {g.known, g.written} \subseteq Int
                        /\ g.known <= g.written /\ g.written <= hour
  /\ views \in Panels \cup {NoPanel}

\* At first nothing is known.
LEMMA FactoryInitTyped == FactoryInit => FactoryTyped
  BY FactoryAssumption DEF FactoryInit, FactoryTyped

\* No reply is younger than the clock, and no more are asked for than the budget allows.
LEMMA FactoryTypedStep ==
  ASSUME FactoryTyped, FactoryNext \/ UNCHANGED factoryVars
  PROVE  FactoryTyped'
<1>1. Swept' = Swept /\ Panels' = Panels /\ NoPanel' = NoPanel
  BY DEF Swept, Panels, View, NoPanel, Neutral
<1>2. CASE Hour
  <2>1. hour \in Int /\ hour' = hour + 1 /\ hour' \in 0 .. MaxHour
    BY <1>2, FactoryAssumption DEF Hour, FactoryTyped
  <2>2. UNCHANGED <<headlines, sweep, asOf, heads, left, calls, extracted, signals, sweeps, views>>
    BY <1>2 DEF Hour
  <2>3. /\ asOf <= hour' /\ \A e \in extracted : e.known <= hour'
        /\ \A g \in signals : g.written <= hour'
    BY <2>1 DEF FactoryTyped
  <2> QED BY <1>1, <2>1, <2>2, <2>3 DEF FactoryTyped
<1>3. CASE \E s \in Swept : Publish(s)
  BY <1>1, <1>3 DEF Publish, FactoryTyped
<1>4. CASE BeginSweep
  <2>1. Symbols \in Seq(Swept) /\ 0 \in 0 .. Budget /\ hour \in Int /\ hour <= hour
    BY FactoryAssumption DEF Swept, FactoryTyped
  <2> QED BY <1>1, <1>4, <2>1 DEF BeginSweep, FactoryTyped
<1>5. CASE Skip
  <2>1. Tail(left) \in Seq(Swept)
    BY <1>5 DEF Skip, FactoryTyped
  <2> QED BY <1>1, <1>5, <2>1 DEF Skip, FactoryTyped
<1>6. CASE Ask
  <2>1. Tail(left) \in Seq(Swept) /\ Head(left) \in Swept
    BY <1>6 DEF Ask, FactoryTyped
  <2>2. calls + 1 \in 0 .. Budget
    BY <1>6, FactoryAssumption DEF Ask, Affordable, FactoryTyped
  <2>3. extracted' \subseteq extracted \cup {[who |-> Head(left), known |-> asOf, from |-> Read(Head(left))]}
    BY <1>6 DEF Ask
  <2>4. \A e \in extracted' : e.who \in Swept /\ e.known \in Int /\ e.known <= hour
    BY <2>1, <2>3 DEF FactoryTyped
  <2> QED BY <1>1, <1>6, <2>1, <2>2, <2>4 DEF Ask, FactoryTyped
<1>7. CASE Stop \/ Lose
  BY <1>1, <1>7 DEF Stop, Lose, FactoryTyped
<1>8. CASE Store
  <2>1. \A g \in signals' : /\ g.who \in Swept /\ {g.known, g.written} \subseteq Int
                            /\ g.known <= g.written /\ g.written <= hour
    BY <1>8, FactoryAssumption DEF Store, FactoryTyped
  <2> QED BY <1>1, <1>8, <2>1 DEF Store, FactoryTyped
<1>9. CASE RunPanel
  <2>1. views' \in Panels
    BY <1>9 DEF RunPanel, Panels
  <2> QED BY <1>1, <1>9, <2>1 DEF RunPanel, FactoryTyped
<1>10. CASE UNCHANGED factoryVars
  BY <1>1, <1>10 DEF factoryVars, FactoryTyped
<1> QED BY <1>2, <1>3, <1>4, <1>5, <1>6, <1>7, <1>8, <1>9, <1>10 DEF FactoryNext

\* That is the types, and what a panel may say.
LEMMA FactoryTypedImplies ==
  ASSUME FactoryTyped
  PROVE  FactoryTypeOK /\ PanelOnlyDamps
<1>1. DOMAIN views \subseteq Roles
  BY DEF FactoryTyped, Panels, NoPanel
<1>2. PanelOnlyDamps
  BY Damped DEF FactoryTyped, PanelOnlyDamps
<1> QED BY <1>1, <1>2 DEF FactoryTyped, FactoryTypeOK

-----------------------------------------------------------------------------
(* The learning loop                                                        *)

\* A final bar is of a day that is over, and a replay sees no other.
LearnInv ==
  /\ clock \in Int
  /\ DOMAIN bar = Bars
  /\ \A b \in Bars : bar[b] \in {"none", "forming", "final"}
  /\ \A b \in Bars : bar[b] = "final" => Stamp(b[2]) <= clock
  /\ \A b \in Bars : bar[b] = "forming" => mode = "live"

\* Days are numbers.
LEMMA Stamps == \A b \in Bars : Stamp(b[2]) \in Int
  BY DEF Bars, Days, Stamp

\* At first there are no bars.
LEMMA LearnInitInv == LearnInit => LearnInv
  BY DEF LearnInit, LearnInv

\* The daily feed delivers what is over, and the session in progress while live.
LEMMA IngestedBars ==
  ASSUME LearnInv, NEW today \in BOOLEAN, mode = "live", bar' = Ingested(today),
         UNCHANGED <<clock, mode>>
  PROVE  LearnInv'
<1>1. ASSUME NEW b \in Bars
      PROVE  /\ bar'[b] \in {"none", "forming", "final"}
             /\ bar'[b] = "final" => Stamp(b[2]) <= clock
  BY DEF Ingested, LearnInv
<1>2. DOMAIN bar' = Bars
  BY DEF Ingested
<1>3. QED
  BY <1>1, <1>2 DEF LearnInv

\* Every step of the loop keeps that.
LEMMA LearnStep ==
  ASSUME LearnInv, LearnNext \/ UNCHANGED learnVars
  PROVE  LearnInv'
<1>1. CASE Tick
  <2>1. clock' = clock + 1 /\ bar' = bar /\ mode' = mode
    BY <1>1 DEF Tick
  <2>2. QED
    BY <2>1, Stamps DEF LearnInv
<1>2. CASE DailyCycle \/ GradingCommand
  BY <1>2, IngestedBars DEF DailyCycle, GradingCommand
<1>3. CASE Backfill
  <2>1. PICK c \in Absent : Stamp(c[2]) <= clock /\ bar' = [bar EXCEPT ![c] = "final"]
    BY <1>3 DEF Backfill
  <2>2. QED
    BY <1>3, <2>1 DEF Backfill, LearnInv
<1>4. CASE ReplayStep
  <2>1. PICK d \in Days : clock' = Stamp(d) /\ bar' = Reveal(Stamp(d))
    BY <1>4 DEF ReplayStep
  <2>2. Stamp(d) \in Int
    BY DEF Days, Stamp
  <2>3. ASSUME NEW b \in Bars
        PROVE  bar'[b] \in {"none", "final"} /\ (bar'[b] = "final" => Stamp(b[2]) <= clock')
    BY <2>1, <2>2, Stamps DEF Reveal
  <2>4. DOMAIN bar' = Bars
    BY <2>1 DEF Reveal
  <2>5. QED
    BY <2>1, <2>2, <2>3, <2>4 DEF LearnInv
<1>5. CASE UNCHANGED learnVars
  BY <1>5 DEF learnVars, LearnInv
<1>6. QED
  BY <1>1, <1>2, <1>3, <1>4, <1>5 DEF LearnNext

\* The rows a prediction is graded over have bars that are final or forming.
LEMMA GradedInTime == LearnInv => NoFutureGrades
<1> SUFFICES ASSUME LearnInv, NEW p \in Graded(Scorers, preds), NEW d \in Window(p.at)
             PROVE  Stamp(d) <= clock \/ (mode = "live" /\ \E n \in Universe : bar[<<n, d>>] = "forming")
  BY DEF NoFutureGrades
<1>1. d \in Index
  BY DEF Window
<1>2. PICK n \in Universe : bar[<<n, d>>] # "none"
  BY <1>1 DEF Index
<1>3. <<n, d>> \in Bars /\ <<n, d>>[2] = d
  BY <1>1 DEF Bars, Index
<1>4. QED
  BY <1>2, <1>3 DEF LearnInv

-----------------------------------------------------------------------------
(* The signal factory                                                       *)

\* What rests on headlines that were out, and fresh, when they were read.
Founded(known, from) ==
  /\ known \in Int /\ from # {}
  /\ \A h \in from : h \in Int /\ h <= known /\ h > known - NewsWindow

\* All that is extracted or stored is founded.
FactoryInv ==
  /\ hour \in Int /\ asOf \in Int
  /\ \A h \in headlines : h[2] \in Int /\ h[2] <= hour
  /\ \A h \in heads : h[2] \in Int /\ h[2] <= asOf /\ h[2] > asOf - NewsWindow
  /\ \A e \in extracted : Founded(e.known, e.from)
  /\ \A g \in signals : Founded(g.known, g.from)

\* At first nothing is published or read.
LEMMA FactoryInitInv == FactoryInit => FactoryInv
  BY DEF FactoryInit, FactoryInv

\* Every step of a sweep, and of the world, keeps that.
LEMMA FactoryStep ==
  ASSUME FactoryInv, FactoryNext \/ UNCHANGED factoryVars
  PROVE  FactoryInv'
<1>1. CASE Hour
  BY <1>1 DEF Hour, FactoryInv
<1>2. ASSUME NEW s \in Swept, Publish(s)
      PROVE  FactoryInv'
  <2>1. headlines' = headlines \cup {<<s, hour>>} /\ <<s, hour>>[2] = hour
    BY <1>2 DEF Publish
  <2>2. \A h \in headlines' : h[2] \in Int /\ h[2] <= hour
    BY <2>1 DEF FactoryInv
  <2>3. QED
    BY <1>2, <2>2 DEF Publish, FactoryInv
<1>3. CASE BeginSweep
  <2>1. \A h \in heads' : h \in headlines /\ h[2] > hour - NewsWindow
    BY <1>3 DEF BeginSweep
  <2>2. QED
    BY <1>3, <2>1 DEF BeginSweep, FactoryInv
<1>4. CASE Ask
  <2>1. PICK parsed \in BOOLEAN :
          extracted' = IF parsed THEN extracted \cup {[who |-> Head(left), known |-> asOf, from |-> Read(Head(left))]}
                       ELSE extracted
    BY <1>4 DEF Ask
  <2>2. Founded(asOf, Read(Head(left)))
    BY <1>4 DEF Ask, Read, FactoryInv, Founded
  <2>3. \A e \in extracted' : Founded(e.known, e.from)
    BY <2>1, <2>2 DEF FactoryInv
  <2>4. QED
    BY <1>4, <2>3 DEF Ask, FactoryInv
<1>5. CASE Store
  <2>1. \A g \in signals' : Founded(g.known, g.from)
    BY <1>5 DEF Store, FactoryInv
  <2>2. QED
    BY <1>5, <2>1 DEF Store, FactoryInv
<1>6. CASE Skip \/ Stop \/ Lose \/ RunPanel
  BY <1>6 DEF Skip, Stop, Lose, RunPanel, FactoryInv
<1>7. CASE UNCHANGED factoryVars
  BY <1>7 DEF factoryVars, FactoryInv
<1>8. QED
  BY <1>1, <1>2, <1>3, <1>4, <1>5, <1>6, <1>7 DEF FactoryNext

\* A read of the window is of a signal in it.
LEMMA ReadInTime == FactoryInv => NoHindsight
<1> SUFFICES ASSUME FactoryInv, NEW s \in Swept, NEW t \in 0 .. MaxHour, NEW g \in Used(s, t, signals)
             PROVE  /\ g.from # {}
                    /\ \A h \in g.from : h <= t /\ h > t - NewsWindow - ReadWindow /\ h <= g.known
  BY DEF NoHindsight
<1>1. g \in signals /\ g.known <= t /\ g.known > t - ReadWindow
  BY DEF Used
<1>2. Founded(g.known, g.from)
  BY <1>1 DEF FactoryInv
<1>3. QED
  BY <1>1, <1>2, FactoryAssumption DEF Founded

-----------------------------------------------------------------------------
\* Live, a day is graded before its end only by the bar of its session; in a replay never
\* (learning.py:61, replay.py:12).
THEOREM NothingGradedEarly == Spec => []NoFutureGrades
<1>1. Init => LearnInv
  BY LearnInitInv DEF Init
<1>2. LearnInv /\ [Next]_commandVars => LearnInv'
  BY LearnStep DEF Next, commandVars
<1>3. QED
  BY <1>1, <1>2, GradedInTime, PTL DEF Spec

\* Whenever a stored signal is replayed, all it rests on had been published
\* (llm_features.py:95, features/llm.py:33).
THEOREM SignalsAreFounded == Spec => []NoHindsight
<1>1. Init => FactoryInv
  BY FactoryInitInv DEF Init
<1>2. FactoryInv /\ [Next]_commandVars => FactoryInv'
  BY FactoryStep DEF Next, commandVars
<1>3. QED
  BY <1>1, <1>2, ReadInTime, PTL DEF Spec

\* The command line uses the ledger of the holdout in no other way.
LEMMA CommandsUseHoldout == Spec => HoldoutSpec
<1>1. Init => HoldoutInit
  BY DEF Init
<1>2. [Next]_commandVars => [HoldoutNext]_holdoutVars
  BY DEF Next, commandVars
<1>3. QED
  BY <1>1, <1>2, PTL DEF Spec, HoldoutSpec

\* No verdict is recorded by a command that started after another was written
\* (holdout.py:97).
THEOREM CommandsLookOnce == Spec => []SingleLook
  BY CommandsUseHoldout, LookedAtOnce, PTL

\* Nor is anybody told a later one (holdout.py:61).
THEOREM CommandsTellTheSealed == Spec => []ToldTheSealed
  BY CommandsUseHoldout, NoShopping, PTL

\* A book is rebalanced by no command but its own.
LEMMA BookInvariant == Spec => []BookInv
<1>1. Init => BookInv
  BY BookInitInv DEF Init
<1>2. BookInv /\ [Next]_commandVars => BookInv'
  BY BookStep DEF Next, commandVars
<1>3. QED
  BY <1>1, <1>2, PTL DEF Spec

\* Nor a paper account.
LEMMA PaperInvariant == Spec => []PaperInv
<1>1. Init => PaperInv
  BY PaperInitInv DEF Init
<1>2. PaperInv /\ [Next]_commandVars => PaperInv'
  BY PaperStep DEF Next, commandVars
<1>3. QED
  BY <1>1, <1>2, PTL DEF Spec

\* Nor the record of the learning loop.
LEMMA RecordInvariant == Spec => []LearnRecord
<1>1. Init => LearnRecord
  BY LearnInitRecord DEF Init
<1>2. LearnRecord /\ [Next]_commandVars => LearnRecord'
  BY LearnRecordStep DEF Next, commandVars
<1>3. QED
  BY <1>1, <1>2, PTL DEF Spec

\* Nor a simulation.
LEMMA BacktestInvariant == Spec => []BacktestInv
<1>1. Init => BacktestInv
  BY BacktestInitInv DEF Init
<1>2. BacktestInv /\ [Next]_commandVars => BacktestInv'
  BY BacktestStep DEF Next, commandVars
<1>3. QED
  BY <1>1, <1>2, PTL DEF Spec

\* Nor a validation.
LEMMA ValidationInvariant == Spec => []ValidationInv
<1>1. Init => ValidationInv
  BY ValidationInitInv DEF Init
<1>2. ValidationInv /\ [Next]_commandVars => ValidationInv'
  BY ValidationStep DEF Next, commandVars
<1>3. QED
  BY <1>1, <1>2, PTL DEF Spec

\* Nor an event study.
LEMMA StudyInvariant == Spec => []StudyInv
<1>1. Init => StudyInv
  BY StudyInitInv DEF Init
<1>2. StudyInv /\ [Next]_commandVars => StudyInv'
  BY StudyStep DEF Next, commandVars
<1>3. QED
  BY <1>1, <1>2, PTL DEF Spec

\* Nor a sweep or a panel.
LEMMA SweepInvariant == Spec => []FactoryTyped
<1>1. Init => FactoryTyped
  BY FactoryInitTyped DEF Init
<1>2. FactoryTyped /\ [Next]_commandVars => FactoryTyped'
  BY FactoryTypedStep DEF Next, commandVars
<1>3. QED
  BY <1>1, <1>2, PTL DEF Spec

-----------------------------------------------------------------------------
\* However a book is sized and whatever wraps it, the pre-trade check refuses none, and no
\* sector outgrows its cap (risk.py: apply_risk_limits against check_order).
THEOREM BooksPassTheCheck == Spec => []NeverRefused
  BY BookInvariant, BookNeverRefused, PTL

\* A held name leaves the ranked book only because it fell out of the exit band, a stop
\* fired or better held names fill the book (cycle.py:117, _select_with_hysteresis).
THEOREM SalesHaveReasons == Spec => []SoldForAReason
  BY BookInvariant, BookSoldForAReason, PTL

\* After a completed day nothing the book dropped lingers on the account, but what is worth
\* less than the dollar below which no order is sent, and the names whose sell was not placed
\* that day (cycle.py:397, engine.py:155, 168-199).
THEOREM DropsAreSold == Spec => []NothingLingers
  BY BookInvariant, BookNothingLingers, PTL

\* At a completed day's end the book holds, orders that were not placed apart, no more than
\* its target allots on the capital it was sized on, but for the crumb a floored or a dusty
\* sell leaves of each held name, and the no-trade band (engine.py:129-156).
THEOREM BudgetsHold == Spec => []WithinBudget
  BY BookInvariant, BookWithinBudget, PTL

\* The paper account is what the filled orders make it, each counted once
\* (paper_broker.py:32).
THEOREM EachFillCountsOnce == Spec => []FillsExplainAccount
<1>1. PaperInv => FillsExplainAccount
  BY DEF PaperInv
<1>2. QED
  BY <1>1, PaperInvariant, PTL

\* Averaging in, reducing, closing and going through zero change cash plus cost only by the
\* profit on the shares closed (paper_broker.py:62, _apply_fill).
THEOREM FillsKeepTheBooks == Spec => BooksBalance
<1>1. PaperInv /\ [Next]_commandVars
        => [\A s \in Listed : FillBalances(lots[s], lots'[s], funds - funds')]_paperVars
  BY PaperStepBalances DEF Next, commandVars
<1>2. QED
  BY <1>1, PaperInvariant, PTL DEF Spec, BooksBalance

\* The composite is weighted by graded predictions of its own (cycle.py:43,
\* _measured_signal_ic).
THEOREM WeightedByOwnRecord == Spec => []OwnTrackRecord
<1>1. LearnRecord => OwnTrackRecord
  BY DEF LearnRecord
<1>2. QED
  BY <1>1, RecordInvariant, PTL

\* A step that only appends new days to the panel changes no grade already given
\* (learning.py:61, evaluation.py:60).
THEOREM AppendedBarsKeepGrades == Spec => GradesAreFinal
<1>1. LearnRecord /\ [Next]_commandVars
        => [bar' # bar /\ Appended => \A model \in Scorers : Journal(model) \subseteq Journal(model)']_learnVars
  <2>1. [Next]_commandVars => LearnNext \/ UNCHANGED learnVars
    BY DEF Next, commandVars
  <2>2. QED
    BY <2>1, JournalKept, PredictionsKept DEF LearnRecord
<1>2. QED
  BY <1>1, RecordInvariant, PTL DEF Spec, GradesAreFinal

\* A simulated return is earned by a book decided at an earlier close, on names that had a
\* price by then (engine.py:99, pit.py:106).
THEOREM NoLookahead == Spec => []DecidedBefore
<1>1. BacktestInv => DecidedBefore
  BY DEF BacktestInv
<1>2. QED
  BY <1>1, BacktestInvariant, PTL

\* Whatever book earned a day had been paid for by then, from cash to it and without a gap
\* (engine.py:92-106, costs.py:62).
THEOREM EarningsWerePaidFor == Spec => []PaidFor
  BY BacktestInvariant, AllPaid, PTL

\* No row is in the returns of two looks that are counted apart: purging and embargo keep
\* train and test apart, and the sampling grid its horizons (splitters.py:82,
\* dataset.py:79, signal_ic.py:76).
THEOREM LooksAreApart == Spec => []NoLeak
  BY ValidationInvariant, NothingLeaks, PTL

\* What the step-up procedure passes is the largest set in which each p-value bears a false
\* share of Alpha, however ties were ordered (multiple_testing.py:38).
THEOREM StepUpIsLargest == Spec => []LargestRejection
<1>1. ValidationInv => LargestRejection
  BY DEF ValidationInv
<1>2. QED
  BY <1>1, ValidationInvariant, PTL

\* An event is counted once, anchored when the whole of it was known, and none is missed for
\* having loaded the recent history alone (study_runner.py:75, 46, taxonomy.py:71).
THEOREM EventsAnchoredWhenKnown == Spec => []AnchoredWhenKnowable
  BY StudyInvariant, StudyInvImplies, PTL

\* What the null re-anchors can be measured, and whatever is measured has its full window,
\* none of it but the anchor's row known by then, and a model that never saw it
\* (event_study.py:181, 56).
THEOREM NullIsFair == Spec => []FairNull
  BY StudyInvariant, StudyInvImplies, PTL

\* The risk analyst lowers the conviction and never the score, an analyst that failed is as
\* good as one not asked, and no conviction leaves [0, 1] (agents.py:241, 221).
THEOREM RiskOnlyDamps == Spec => []PanelOnlyDamps
  BY SweepInvariant, FactoryTypedImplies, PTL

\* Every variable of every command has its type, in every behaviour of any of them (cli.py).
THEOREM CommandsTyped == Spec => []TypeOK
<1>1. BookInv => BookTypeOK
  BY DEF BookInv
<1>2. PaperInv => PaperTypeOK
  BY DEF PaperInv
<1>3. LearnRecord => LearnTypeOK
  BY DEF LearnRecord
<1>4. BacktestInv => BacktestTypeOK
  BY DEF BacktestInv
<1>5. BookTypeOK /\ PaperTypeOK /\ LearnTypeOK /\ HoldoutTypeOK /\ BacktestTypeOK
        /\ ValidationTypeOK /\ StudyTypeOK /\ FactoryTypeOK => TypeOK
  BY DEF TypeOK
<1>6. QED
  BY <1>1, <1>2, <1>3, <1>4, <1>5, BookInvariant, PaperInvariant, RecordInvariant,
     CommandsUseHoldout, HoldoutTypeCorrect, BacktestInvariant, ValidationInvariant, ValidationTypes, StudyInvariant, StudyInvImplies,
     SweepInvariant, FactoryTypedImplies, PTL
=============================================================================

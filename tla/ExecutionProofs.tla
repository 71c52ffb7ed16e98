-------------------------- MODULE ExecutionProofs ---------------------------
(***************************************************************************)
(* Proofs about Execution, for every set of desks, names, books, quotes    *)
(* and equities, and any number of passes.                                 *)
(***************************************************************************)
EXTENDS Execution, CountingLemmas

-----------------------------------------------------------------------------
(* Types.  TypeOK splits into what the venue keeps, what the store keeps and *)
(* what the desks keep; a step disturbs one or two of the three.             *)

DeskTypeOK ==
  /\ pc \in [Desk -> Stage]
  /\ asOf \in [Desk -> Nat]
  /\ reading \in [Desk -> Reading]
  /\ peak \in [Desk -> Nat \cup {NoPeak}]
  /\ tripped \in [Desk -> BOOLEAN] /\ engaged \in [Desk -> BOOLEAN]
  /\ seen \in [Desk -> [Symbol -> Int]]
  /\ plan \in [Desk -> SUBSET [sym : Symbol, side : Side, qty : Quantity]]
  /\ sent \in [Desk -> Nat] /\ skipped \in [Desk -> BOOLEAN]
  /\ moved \in [Desk -> SUBSET Symbol]
  /\ todo \in [Desk -> SUBSET TodoItem]
  /\ \A d \in Desk :
       /\ pc[d] = "sent" => todo[d] \subseteq Symbol
       /\ pc[d] = "flattening" => todo[d] \subseteq Symbol \X (Int \ {0})
       /\ pc[d] = "account" => peak[d] \in Nat

StoreTypeOK ==
  /\ ddRows \subseteq Row
  /\ audit \subseteq [asOf : Nat, sym : Symbol \cup {Portfolio}, event : Event]

WorldTypeOK ==
  account \in Reading /\ armed \in BOOLEAN /\ clock \in Nat

\* The type invariant is the conjunction of its four parts.
LEMMA TypeParts ==
  TypeOK <=> BrokerTypeOK /\ WorldTypeOK /\ StoreTypeOK /\ DeskTypeOK
  BY DEF TypeOK, WorldTypeOK, StoreTypeOK, DeskTypeOK

\* Ending a pass leaves every desk well typed.
LEMMA EndPassType ==
  ASSUME DeskTypeOK, NEW d \in Desk, EndPass(d)
  PROVE  DeskTypeOK'
  BY DEF DeskTypeOK, EndPass, Stage, Reading, NoPeak, Flat

\* The id of an order (engine.py:158, 225) is a prefix, a second and a symbol.
LEMMA ClientOrderIdType ==
  ASSUME NEW o \in Order
  PROVE  ClientOrderId(o) \in Kind \X Nat \X Symbol
  BY BrokerAssumption DEF ClientOrderId, Order

\* Taking a new order, and recording an audit row, keep the types.
LEMMA TakeType ==
  ASSUME BrokerTypeOK, NEW d \in Desk, NEW t \in Nat, NEW s \in Symbol,
         NEW side \in Side, NEW n \in Quantity,
         NEW kind \in Kind,
         Take(NewOrder(kind, d, t, s, side, n)), UNCHANGED position
  PROVE  BrokerTypeOK'
  BY BrokerAssumption DEF BrokerTypeOK, Take, NewOrder, Order, Kind, OrderStatus, Quantity

\* An audit row (engine.py:256-260) keeps the store well typed.
LEMMA RecordType ==
  ASSUME StoreTypeOK, DeskTypeOK, NEW d \in Desk,
         NEW s \in Symbol \cup {Portfolio}, NEW event \in Event,
         Record(d, s, event), UNCHANGED ddRows
  PROVE  StoreTypeOK'
  BY DEF StoreTypeOK, DeskTypeOK, Record, AuditRow

\* Every variable keeps its shape through every step of every desk, and a plan
\* only ever holds whole-share orders a broker can be sent (engine.py:129-164).
THEOREM TypeCorrect == Spec => []TypeOK
<1>1. Init => TypeOK
  BY ExecutionAssumption, BrokerAssumption
  DEF Init, BrokerInit, TypeOK, BrokerTypeOK, Reading, Stage, NoPeak, Flat
<1>2. TypeOK /\ [Next]_vars => TypeOK'
  <2> SUFFICES ASSUME TypeOK, [Next]_vars
               PROVE  BrokerTypeOK' /\ WorldTypeOK' /\ StoreTypeOK' /\ DeskTypeOK'
    BY DEF TypeOK, WorldTypeOK, StoreTypeOK, DeskTypeOK
  <2>0. BrokerTypeOK /\ WorldTypeOK /\ StoreTypeOK /\ DeskTypeOK
    BY TypeParts
  <2>1. ASSUME NEW d \in Desk, Start(d)
        PROVE  BrokerTypeOK' /\ WorldTypeOK' /\ StoreTypeOK' /\ DeskTypeOK'
    <3>1. BrokerTypeOK' /\ WorldTypeOK' /\ StoreTypeOK'
      BY <2>0, <2>1 DEF Start, BeginPass, broker, store, BrokerTypeOK, WorldTypeOK, StoreTypeOK
    <3>2. pc' = [pc EXCEPT ![d] = "cancelling"] \/ pc' = [pc EXCEPT ![d] = "scoring"]
      BY <2>1 DEF Start, BeginPass, Goto
    <3>3. /\ \A e \in Desk : e # d => todo'[e] = todo[e]
          /\ todo' \in [Desk -> SUBSET TodoItem]
      <4>1. \A o \in orders : ClientOrderId(o) \in TodoItem
        BY <2>0, ClientOrderIdType DEF BrokerTypeOK, TodoItem
      <4>2. {ClientOrderId(o) : o \in {p \in OpenOrders : p.sym \notin Reserved[d]}}
              \subseteq TodoItem
        BY <4>1 DEF OpenOrders
      <4>3. QED
        BY <2>0, <4>2, <2>1 DEF Start, BeginPass, DeskTypeOK
    <3>4. /\ asOf' \in [Desk -> Nat] /\ pc' \in [Desk -> Stage]
          /\ UNCHANGED <<governor, working, moved>>
      BY <2>0, <3>2, <2>1 DEF Start, BeginPass, WorldTypeOK, DeskTypeOK, Stage
    <3>5. QED
      BY <2>0, <3>1, <3>2, <3>3, <3>4 DEF DeskTypeOK, governor, working
  <2>2. ASSUME NEW d \in Desk, CancelStale(d)
        PROVE  BrokerTypeOK' /\ WorldTypeOK' /\ StoreTypeOK' /\ DeskTypeOK'
    <3>1. WorldTypeOK' /\ StoreTypeOK'
      BY <2>0, <2>2 DEF CancelStale, world, store, WorldTypeOK, StoreTypeOK
    <3>2. PICK id \in todo[d], o \in orders : 
            \/ /\ RequestCancel(o) 
               /\ todo' = [todo EXCEPT ![d] = @ \ {id}]
               /\ UNCHANGED <<pc, input, governor, working, moved>>
            \/ EndPass(d) /\ UNCHANGED orders
      BY <2>2 DEF CancelStale
    <3>3. BrokerTypeOK'
      BY <2>0, <3>2, <2>2 DEF CancelStale, RequestCancel, BrokerTypeOK, Order, OrderStatus
    <3>4. DeskTypeOK'
      <4>1. CASE EndPass(d)
        BY <2>0, <4>1, EndPassType
      <4>2. CASE UNCHANGED <<pc, input, governor, working, moved>>
        <5>1. todo' = [todo EXCEPT ![d] = @ \ {id}]
          BY <2>0, <3>2, <4>2, <2>2 DEF CancelStale, EndPass, Goto, DeskTypeOK
        <5>2. QED
          BY <2>0, <4>2, <5>1 DEF DeskTypeOK, input, governor, working
      <4>3. QED
        BY <3>2, <4>1, <4>2
    <3>5. QED
      BY <3>1, <3>3, <3>4
  <2>3. ASSUME NEW d \in Desk, Score(d)
        PROVE  BrokerTypeOK' /\ WorldTypeOK' /\ StoreTypeOK' /\ DeskTypeOK'
    <3>1. BrokerTypeOK' /\ WorldTypeOK' /\ StoreTypeOK'
      BY <2>0, <2>3 DEF Score, broker, world, store, BrokerTypeOK, WorldTypeOK, StoreTypeOK
    <3>2. DeskTypeOK'
      <4>1. CASE EndPass(d)
        BY <2>0, <4>1, EndPassType
      <4>2. CASE Goto(d, "building") /\ UNCHANGED <<asOf, quote, todo, governor, working, moved>>
        BY <2>0, <4>2 DEF Goto, DeskTypeOK, governor, working, Stage
      <4>3. QED
        BY <4>1, <4>2, <2>3 DEF Score
    <3>3. QED
      BY <3>1, <3>2
  <2>4. ASSUME NEW d \in Desk, Build(d)
        PROVE  BrokerTypeOK' /\ WorldTypeOK' /\ StoreTypeOK' /\ DeskTypeOK'
    BY <2>0, <2>4 DEF Build, broker, world, store, input, governor, working, Goto,
       BrokerTypeOK, WorldTypeOK, StoreTypeOK, DeskTypeOK, Stage, Row, NoPeak
  <2>5. ASSUME NEW d \in Desk, Refuse(d)
        PROVE  BrokerTypeOK' /\ WorldTypeOK' /\ StoreTypeOK' /\ DeskTypeOK'
    <3>1. DeskTypeOK'
      BY <2>0, <2>5, EndPassType DEF Refuse
    <3>2. QED
      BY <2>0, <3>1, <2>5 DEF Refuse, broker, world, store, BrokerTypeOK, WorldTypeOK, StoreTypeOK
  <2>6. ASSUME NEW d \in Desk, ReadAccount(d)
        PROVE  BrokerTypeOK' /\ WorldTypeOK' /\ StoreTypeOK' /\ DeskTypeOK'
    BY <2>0, <2>6 DEF ReadAccount, broker, world, store, input, governor, working, Goto,
       BrokerTypeOK, WorldTypeOK, StoreTypeOK, DeskTypeOK, Stage, Reading, NoPeak, Larger
  <2>7. ASSUME NEW d \in Desk, SaveState(d)
        PROVE  BrokerTypeOK' /\ WorldTypeOK' /\ StoreTypeOK' /\ DeskTypeOK'
    BY <2>0, <2>7 DEF SaveState, broker, world, store, input, governor, working, Goto,
       BrokerTypeOK, WorldTypeOK, StoreTypeOK, DeskTypeOK, Stage, Row, NoPeak, Reading
  <2>8. ASSUME NEW d \in Desk, HaltDrawdown(d)
        PROVE  BrokerTypeOK' /\ WorldTypeOK' /\ StoreTypeOK' /\ DeskTypeOK'
    <3>1. DeskTypeOK'
      BY <2>0, <2>8, EndPassType DEF HaltDrawdown, Halt
    <3>2. QED
      BY <2>0, <3>1, <2>8 DEF HaltDrawdown, Halt, broker, world, BrokerTypeOK, WorldTypeOK,
         StoreTypeOK, DeskTypeOK, AuditRow, Event
  <2>9. ASSUME NEW d \in Desk, HaltDailyLoss(d)
        PROVE  BrokerTypeOK' /\ WorldTypeOK' /\ StoreTypeOK' /\ DeskTypeOK'
    <3>1. DeskTypeOK'
      BY <2>0, <2>9, EndPassType DEF HaltDailyLoss, Halt
    <3>2. QED
      BY <2>0, <3>1, <2>9 DEF HaltDailyLoss, Halt, broker, world, BrokerTypeOK, WorldTypeOK,
         StoreTypeOK, DeskTypeOK, AuditRow, Event
  <2>10. ASSUME NEW d \in Desk, RefuseBook(d)
        PROVE  BrokerTypeOK' /\ WorldTypeOK' /\ StoreTypeOK' /\ DeskTypeOK'
    <3>1. DeskTypeOK'
      BY <2>0, <2>10, EndPassType DEF RefuseBook
    <3>2. QED
      BY <2>0, <3>1, <2>10 DEF RefuseBook, broker, world, store, BrokerTypeOK, WorldTypeOK, StoreTypeOK
  <2>11. ASSUME NEW d \in Desk, ReadPositions(d)
        PROVE  BrokerTypeOK' /\ WorldTypeOK' /\ StoreTypeOK' /\ DeskTypeOK'
    BY <2>0, <2>11 DEF ReadPositions, broker, world, store, input, governor, working, Goto,
       BrokerTypeOK, WorldTypeOK, StoreTypeOK, DeskTypeOK, Stage
  <2>12. ASSUME NEW d \in Desk, ReadOpenOrders(d)
        PROVE  BrokerTypeOK' /\ WorldTypeOK' /\ StoreTypeOK' /\ DeskTypeOK'
    <3>1. \A cur : Planned(d, cur) \subseteq [sym : Symbol, side : Side, qty : Quantity]
      BY DEF Planned
    <3>2. QED
      BY <2>0, <3>1, <2>12 DEF ReadOpenOrders, broker, world, store, input, governor, working,
         Goto, BrokerTypeOK, WorldTypeOK, StoreTypeOK, DeskTypeOK, Stage, Flat
  <2>13. ASSUME NEW d \in Desk, SkipInsane(d)
        PROVE  BrokerTypeOK' /\ WorldTypeOK' /\ StoreTypeOK' /\ DeskTypeOK'
    <3>1. PICK p \in plan[d] : Unplan(d, p) /\ Record(d, p.sym, "order_skipped")
      BY <2>13 DEF SkipInsane, NextPlanned
    <3>2. p.sym \in Symbol
      BY <2>0, <3>1 DEF DeskTypeOK
    <3>3. StoreTypeOK'
      BY <2>0, <3>1, <3>2, <2>13, RecordType DEF SkipInsane, Event
    <3>4. QED
      BY <2>0, <3>1, <3>3, <2>13 DEF SkipInsane, broker, world, input, governor, Unplan, Spend,
         BrokerTypeOK, WorldTypeOK, DeskTypeOK
  <2>14. ASSUME NEW d \in Desk, RateCapped(d)
        PROVE  BrokerTypeOK' /\ WorldTypeOK' /\ StoreTypeOK' /\ DeskTypeOK'
    <3>1. StoreTypeOK'
      BY <2>0, <2>14, RecordType DEF RateCapped, Event
    <3>2. QED
      BY <2>0, <3>1, <2>14 DEF RateCapped, broker, world, input, governor,
         BrokerTypeOK, WorldTypeOK, DeskTypeOK
  <2>15. ASSUME NEW d \in Desk, SubmitRejected(d)
        PROVE  BrokerTypeOK' /\ WorldTypeOK' /\ StoreTypeOK' /\ DeskTypeOK'
    <3>1. PICK p \in plan[d] : Unplan(d, p) /\ Record(d, p.sym, "order_rejected")
      BY <2>15 DEF SubmitRejected, NextPlanned
    <3>2. p.sym \in Symbol
      BY <2>0, <3>1 DEF DeskTypeOK
    <3>3. StoreTypeOK'
      BY <2>0, <3>1, <3>2, <2>15, RecordType DEF SubmitRejected, Event
    <3>4. QED
      BY <2>0, <3>1, <3>3, <2>15 DEF SubmitRejected, broker, world, input, governor, Unplan, Spend,
         BrokerTypeOK, WorldTypeOK, DeskTypeOK
  <2>16. ASSUME NEW d \in Desk, SubmitAccepted(d)
        PROVE  BrokerTypeOK' /\ WorldTypeOK' /\ StoreTypeOK' /\ DeskTypeOK'
    <3>1. PICK p \in plan[d] : /\ Take(AsOrder(d, p)) /\ Unplan(d, p)
                               /\ todo' = [todo EXCEPT ![d] = {p.sym}]
      BY <2>16 DEF SubmitAccepted, NextPlanned
    <3>2. p.sym \in Symbol /\ p.side \in Side /\ p.qty \in Quantity /\ asOf[d] \in Nat
      BY <2>0, <3>1 DEF DeskTypeOK
    <3>3. BrokerTypeOK'
      BY <2>0, <3>1, <3>2, <2>16, TakeType DEF SubmitAccepted, AsOrder, Kind
    <3>4. QED
      <4>1. WorldTypeOK' /\ StoreTypeOK'
        BY <2>0, <2>16 DEF SubmitAccepted, world, store, WorldTypeOK, StoreTypeOK
      <4>2. /\ plan' \in [Desk -> SUBSET [sym : Symbol, side : Side, qty : Quantity]]
            /\ sent' \in [Desk -> Nat]
        BY <2>0, <3>1, <2>16 DEF SubmitAccepted, Unplan, Spend, DeskTypeOK
      <4>3. pc' = [pc EXCEPT ![d] = "sent"]
        BY <2>16 DEF SubmitAccepted, Goto
      <4>4. DeskTypeOK'
        BY <2>0, <3>1, <3>2, <4>2, <4>3, <2>16 DEF SubmitAccepted, input, governor,
           DeskTypeOK, Stage, TodoItem
      <4>5. QED
        BY <3>3, <4>1, <4>4
  <2>17. ASSUME NEW d \in Desk, AuditOrder(d)
        PROVE  BrokerTypeOK' /\ WorldTypeOK' /\ StoreTypeOK' /\ DeskTypeOK'
    <3>1. PICK s \in todo[d] : Record(d, s, "order")
      BY <2>17 DEF AuditOrder
    <3>2. s \in Symbol
      BY <2>0, <3>1, <2>17 DEF AuditOrder, DeskTypeOK
    <3>3. StoreTypeOK'
      BY <2>0, <3>1, <3>2, <2>17, RecordType DEF AuditOrder, Event
    <3>4. QED
      BY <2>0, <3>3, <2>17 DEF AuditOrder, broker, world, input, governor, working, Goto,
         BrokerTypeOK, WorldTypeOK, DeskTypeOK, Stage
  <2>18. ASSUME NEW d \in Desk, SubmitLost(d)
        PROVE  BrokerTypeOK' /\ WorldTypeOK' /\ StoreTypeOK' /\ DeskTypeOK'
    <3>1. PICK p \in plan[d] : Take(AsOrder(d, p))
      BY <2>18 DEF SubmitLost, NextPlanned
    <3>2. p.sym \in Symbol /\ p.side \in Side /\ p.qty \in Quantity /\ asOf[d] \in Nat
      BY <2>0, <3>1 DEF DeskTypeOK
    <3>3. BrokerTypeOK'
      BY <2>0, <3>1, <3>2, <2>18, TakeType DEF SubmitLost, AsOrder, Kind
    <3>4. DeskTypeOK'
      BY <2>0, <2>18, EndPassType DEF SubmitLost
    <3>5. QED
      BY <2>0, <3>3, <3>4, <2>18 DEF SubmitLost, world, store, WorldTypeOK, StoreTypeOK
  <2>19. ASSUME NEW d \in Desk, Finish(d)
        PROVE  BrokerTypeOK' /\ WorldTypeOK' /\ StoreTypeOK' /\ DeskTypeOK'
    <3>1. DeskTypeOK'
      BY <2>0, <2>19, EndPassType DEF Finish
    <3>2. StoreTypeOK'
      <4>1. CASE skipped[d]
        BY <2>0, <4>1, <2>19, RecordType DEF Finish, Event
      <4>2. CASE ~skipped[d]
        BY <2>0, <4>2, <2>19 DEF Finish, StoreTypeOK
      <4>3. QED
        BY <4>1, <4>2
    <3>3. QED
      BY <2>0, <3>1, <3>2, <2>19 DEF Finish, broker, world, BrokerTypeOK, WorldTypeOK
  <2>20. ASSUME NEW d \in Desk, Flatten(d)
        PROVE  BrokerTypeOK' /\ WorldTypeOK' /\ StoreTypeOK' /\ DeskTypeOK'
    <3>1. \A s \in Symbol : position[s] \in Int
      BY <2>0 DEF BrokerTypeOK
    <3>2. {<<s, position[s]>> : s \in {x \in Symbol : position[x] # 0}}
            \subseteq (Symbol \X (Int \ {0})) \cap TodoItem
      BY <3>1 DEF TodoItem
    <3>3. BrokerTypeOK' /\ WorldTypeOK' /\ StoreTypeOK'
      BY <2>0, <2>20 DEF Flatten, broker, world, store, BrokerTypeOK, WorldTypeOK, StoreTypeOK
    <3>4. /\ pc' = [pc EXCEPT ![d] = "flattening"]
          /\ todo' = [todo EXCEPT ![d] =
                {<<s, position[s]>> : s \in {x \in Symbol : position[x] # 0}}]
          /\ engaged' \in [Desk -> BOOLEAN]
      BY <2>0, <2>20 DEF Flatten, Goto, DeskTypeOK
    <3>5. QED
      BY <2>0, <3>2, <3>3, <3>4, <2>20 DEF Flatten, input, working, DeskTypeOK, Stage
  <2>21. ASSUME NEW d \in Desk, FlattenNext(d)
        PROVE  BrokerTypeOK' /\ WorldTypeOK' /\ StoreTypeOK' /\ DeskTypeOK'
    <3>1. PICK h \in todo[d] :
            /\ Abs(h[2]) <= MaxShares
            /\ Take(NewOrder("flatten", d, asOf[d], h[1],
                             IF h[2] > 0 THEN "sell" ELSE "buy", Abs(h[2])))
            /\ Record(d, h[1], "flatten")
            /\ todo' = [todo EXCEPT ![d] = @ \ {h}]
      BY <2>21 DEF FlattenNext
    <3>2. h[1] \in Symbol /\ h[2] \in Int \ {0} /\ asOf[d] \in Nat
      BY <2>0, <3>1, <2>21 DEF FlattenNext, DeskTypeOK
    <3>3. Abs(h[2]) \in Quantity
      BY <3>1, <3>2, BrokerAssumption DEF Abs, Quantity
    <3>4. (IF h[2] > 0 THEN "sell" ELSE "buy") \in Side
      BY DEF Side
    <3>5. BrokerTypeOK'
      BY <2>0, <3>1, <3>2, <3>3, <3>4, <2>21, TakeType DEF FlattenNext, Kind
    <3>6. StoreTypeOK'
      BY <2>0, <3>1, <3>2, <2>21, RecordType DEF FlattenNext, Event
    <3>7. QED
      BY <2>0, <3>1, <3>5, <3>6, <2>21 DEF FlattenNext, world, input, governor, working,
         WorldTypeOK, DeskTypeOK
  <2>22. ASSUME NEW d \in Desk, FlattenDone(d)
        PROVE  BrokerTypeOK' /\ WorldTypeOK' /\ StoreTypeOK' /\ DeskTypeOK'
    BY <2>0, <2>22 DEF FlattenDone, broker, world, store, input, governor, working, Goto,
       BrokerTypeOK, WorldTypeOK, StoreTypeOK, DeskTypeOK, Stage
  <2>23. ASSUME NEW d \in Desk, Abort(d)
        PROVE  BrokerTypeOK' /\ WorldTypeOK' /\ StoreTypeOK' /\ DeskTypeOK'
    <3>1. DeskTypeOK'
      BY <2>0, <2>23, EndPassType DEF Abort
    <3>2. QED
      BY <2>0, <3>1, <2>23 DEF Abort, broker, world, store, BrokerTypeOK, WorldTypeOK, StoreTypeOK
  <2>24. ASSUME VenueFill
        PROVE  BrokerTypeOK' /\ WorldTypeOK' /\ StoreTypeOK' /\ DeskTypeOK'
    <3>1. WorldTypeOK' /\ StoreTypeOK' /\ DeskTypeOK'
      BY <2>0, <2>24 DEF VenueFill, world, store, input, governor, working, WorldTypeOK,
         StoreTypeOK, DeskTypeOK, OpenOrders, BrokerTypeOK, Order
    <3>0. PICK o \in orders : \E k \in 1 .. Remaining(o) : Fill(o, k)
      BY <2>24 DEF VenueFill, OpenOrders
    <3>2. PICK k \in 1 .. Remaining(o) : Fill(o, k)
      BY <3>0
    <3>3. o \in Order
      BY <2>0, <3>2 DEF BrokerTypeOK
    <3>4. o.sym \in Symbol /\ Signed(o.side, k) \in Int
      BY <3>2, <3>3 DEF Order, Signed, Remaining
    <3>5. position' \in [Symbol -> Int]
      BY <2>0, <3>2, <3>4 DEF Fill, BrokerTypeOK
    <3>6. o.filled + k \in 0 .. MaxShares
      BY <3>2, <3>3, BrokerAssumption DEF Order, Remaining, Quantity, Fill
    <3>7. [o EXCEPT !.filled = @ + k,
                    !.status = IF o.filled + k = o.qty THEN "done" ELSE @] \in Order
      BY <3>3, <3>6 DEF Order, OrderStatus
    <3>8. QED
      BY <2>0, <3>1, <3>2, <3>5, <3>7 DEF Fill, BrokerTypeOK
  <2>25. ASSUME VenueDrop
        PROVE  BrokerTypeOK' /\ WorldTypeOK' /\ StoreTypeOK' /\ DeskTypeOK'
    <3>1. WorldTypeOK' /\ StoreTypeOK' /\ DeskTypeOK'
      BY <2>0, <2>25 DEF VenueDrop, world, store, input, governor, working, WorldTypeOK,
         StoreTypeOK, DeskTypeOK, OpenOrders, BrokerTypeOK, Order
    <3>2. PICK o \in orders : Drop(o)
      BY <2>25 DEF VenueDrop, OpenOrders
    <3>3. BrokerTypeOK'
      BY <2>0, <3>2 DEF Drop, BrokerTypeOK, Order, OrderStatus
    <3>4. QED
      BY <3>1, <3>3
  <2>26. ASSUME EquityMoves
        PROVE  BrokerTypeOK' /\ WorldTypeOK' /\ StoreTypeOK' /\ DeskTypeOK'
    BY <2>0, <2>26, ExecutionAssumption DEF EquityMoves, broker, store, input, governor, working,
       BrokerTypeOK, WorldTypeOK, StoreTypeOK, DeskTypeOK, Reading
  <2>27. ASSUME NewSession
        PROVE  BrokerTypeOK' /\ WorldTypeOK' /\ StoreTypeOK' /\ DeskTypeOK'
    BY <2>0, <2>27, ExecutionAssumption DEF NewSession, broker, store, input, governor, working,
       BrokerTypeOK, WorldTypeOK, StoreTypeOK, DeskTypeOK, Reading
  <2>28. ASSUME Crash
        PROVE  BrokerTypeOK' /\ WorldTypeOK' /\ StoreTypeOK' /\ DeskTypeOK'
    BY <2>0, <2>28 DEF Crash, broker, world, store, BrokerTypeOK, WorldTypeOK,
       StoreTypeOK, DeskTypeOK, Stage, Reading, NoPeak, Flat
  <2>29. CASE UNCHANGED vars
    BY <2>0, <2>29 DEF vars, broker, world, store, input, governor, working,
       BrokerTypeOK, WorldTypeOK, StoreTypeOK, DeskTypeOK
  <2>30. QED
    BY <2>1, <2>2, <2>3, <2>4, <2>5, <2>6, <2>7, <2>8, <2>9, <2>10, <2>11,
       <2>12, <2>13, <2>14, <2>15, <2>16, <2>17, <2>18, <2>19, <2>20, <2>21,
       <2>22, <2>23, <2>24, <2>25, <2>26, <2>27, <2>28, <2>29
    DEF Next, Cycle, Gates, Trade, Kill, Environment
<1>3. QED
  BY <1>1, <1>2, PTL DEF Spec

-----------------------------------------------------------------------------
(* The governor.  GovernorInv is inductive when one desk owns the rows: what *)
(* matters is that between an engine's seeding and its save nobody else adds *)
(* a row, and that the row it adds is the newest.                            *)

\* A pass that ends leaves nothing for the invariant to say about its desk.
LEMMA GovernorEnds ==
  ASSUME TypeOK, GovernorInv, NEW d \in Desk, EndPass(d), UNCHANGED <<clock, ddRows>>
  PROVE  GovernorInv'
  BY ExecutionAssumption
  DEF TypeOK, GovernorInv, RowsAreOld, PeaksRise, EngineKnows, TripIsFinal, Trading,
      TripRecorded, EndPass, BeforeSave

\* Nor does a step that moves a desk between stages of which it says the same.
SameKnowledge(d, to) ==
  \/ pc[d] \in {"cancelling", "scoring"} /\ to = "building"
  \/ {pc[d], to} \subseteq {"built", "flattening"}
  \/ pc[d] = "saved" /\ ~tripped[d] /\ to = "positions"
  \/ Trading(d) /\ to \in {"positions", "submit", "sent"}

\* A desk that moves on without new knowledge of the rows keeps the invariant.
LEMMA GovernorMoves ==
  ASSUME TypeOK, GovernorInv, NEW d \in Desk, NEW to, SameKnowledge(d, to), Goto(d, to),
         UNCHANGED <<clock, ddRows, asOf, peak, tripped>>
  PROVE  GovernorInv'
<1>1. \A e \in Desk \ {d} : pc'[e] = pc[e]
  BY DEF Goto, TypeOK
<1>2. pc'[d] = to
  BY DEF Goto, TypeOK
<1>3. RowsAreOld' /\ PeaksRise'
  BY <1>1, <1>2, ExecutionAssumption
  DEF GovernorInv, RowsAreOld, PeaksRise, BeforeSave, SameKnowledge, Trading
<1>4. TripIsFinal'
  BY <1>1, <1>2, ExecutionAssumption
  DEF GovernorInv, TripIsFinal, Trading, TripRecorded, SameKnowledge
<1>5. QED
  BY <1>1, <1>2, <1>3, <1>4, ExecutionAssumption
  DEF GovernorInv, EngineKnows, TripRecorded, SameKnowledge, Trading

\* So does a step that touches neither desks nor rows: an order, a fill, a price.
LEMMA GovernorStays ==
  ASSUME GovernorInv, UNCHANGED <<clock, ddRows, asOf, peak, tripped, pc>>
  PROVE  GovernorInv'
  BY DEF GovernorInv, RowsAreOld, PeaksRise, EngineKnows, TripIsFinal, Trading,
         TripRecorded

\* A pass that starts is given an as_of newer than every row.
LEMMA GovernorStart ==
  ASSUME TypeOK, GovernorInv, NEW d \in Desk, Start(d)
  PROVE  GovernorInv'
<1>1. /\ ddRows' = ddRows /\ clock' = clock + 1 /\ clock \in Nat
      /\ asOf'[d] = clock + 1 /\ pc'[d] \in {"cancelling", "scoring"}
      /\ peak' = peak /\ tripped' = tripped
      /\ \A e \in Desk \ {d} : pc'[e] = pc[e] /\ asOf'[e] = asOf[e]
  BY DEF Start, BeginPass, Goto, TypeOK, store, governor
<1>2. \A r \in ddRows : r.asOf \in Nat
  BY DEF TypeOK, Row
<1>3. \A e \in Desk : asOf[e] \in Nat
  BY DEF TypeOK
<1>4. RowsAreOld' /\ PeaksRise'
  BY <1>1, <1>2, <1>3, ExecutionAssumption DEF GovernorInv, RowsAreOld, PeaksRise, BeforeSave
<1>5. QED
  BY <1>1, <1>4, ExecutionAssumption
  DEF GovernorInv, EngineKnows, TripRecorded, TripIsFinal, Trading

\* Seeding from the newest row (engine.py:74-77) tells the engine what all the
\* rows know, since a trip and the mark only ever rise along them.
LEMMA GovernorBuild ==
  ASSUME TypeOK, GovernorInv, NEW d \in Desk, Build(d)
  PROVE  GovernorInv'
<1>1. /\ ddRows' = ddRows /\ clock' = clock /\ asOf' = asOf
      /\ pc[d] = "building" /\ pc'[d] = "built"
      /\ \A e \in Desk \ {d} : /\ pc'[e] = pc[e] /\ peak'[e] = peak[e]
                               /\ tripped'[e] = tripped[e]
  BY DEF Build, Goto, TypeOK, store, world, input
<1>2. ASSUME d \in Audited PROVE EngineKnows(d)'
  <2>1. CASE ddRows = {}
    BY <2>1, <1>1 DEF Build, EngineKnows, TypeOK
  <2>2. CASE ddRows # {}
    <3>1. PICK r \in ddRows :
            /\ \A q \in ddRows : q.asOf <= r.asOf
            /\ peak'[d] = IF r.peak = 0 THEN NoPeak ELSE r.peak
            /\ tripped'[d] = (r.peak # 0 /\ r.tripped)
      BY <1>2, <2>2 DEF Build, TypeOK
    <3>2. r \in Row /\ \A q \in ddRows : q \in Row
      BY DEF TypeOK
    <3>3. \A q \in ddRows : q.asOf < r.asOf \/ q.asOf = r.asOf
      BY <3>1, <3>2 DEF Row
    <3>4. QED
      BY <1>1, <3>1, <3>2, <3>3
      DEF EngineKnows, GovernorInv, PeaksRise, RowsAreOld, Row, NoPeak
  <2>3. QED
    BY <2>1, <2>2
<1>3. RowsAreOld' /\ PeaksRise'
  BY <1>1, ExecutionAssumption DEF GovernorInv, RowsAreOld, PeaksRise, BeforeSave
<1>4. QED
  BY <1>1, <1>2, <1>3, ExecutionAssumption
  DEF GovernorInv, EngineKnows, TripRecorded, TripIsFinal, Trading

\* breaker.update (risk.py:99-103) only raises the mark and latches the trip.
LEMMA GovernorReads ==
  ASSUME TypeOK, GovernorInv, NEW d \in Desk, ReadAccount(d)
  PROVE  GovernorInv'
<1>1. /\ ddRows' = ddRows /\ clock' = clock /\ asOf' = asOf
      /\ pc[d] = "built" /\ pc'[d] = "account"
      /\ \A e \in Desk \ {d} : /\ pc'[e] = pc[e] /\ peak'[e] = peak[e]
                               /\ tripped'[e] = tripped[e]
  BY DEF ReadAccount, Goto, TypeOK, store, world, input
<1>2. ASSUME d \in Audited PROVE EngineKnows(d)'
  <2> DEFINE top == IF peak[d] = NoPeak THEN account.equity
                    ELSE Larger(peak[d], account.equity)
  <2>1. /\ peak'[d] = top /\ tripped'[d] \in BOOLEAN
        /\ tripped'[d] <=> tripped[d] \/ Breaches(top, account.equity)
    BY DEF ReadAccount, TypeOK, Breaches
  <2>2. /\ account.equity \in Nat /\ peak[d] \in Nat \cup {NoPeak}
        /\ \A r \in ddRows : r.peak \in Nat
    BY DEF TypeOK, Reading, Row
  <2>3. top \in Nat /\ (peak[d] # NoPeak => peak[d] <= top)
    BY <2>2 DEF Larger, NoPeak
  <2>4. EngineKnows(d)
    BY <1>1, <1>2 DEF GovernorInv
  <2>5. Breaches(top, account.equity) => top > 0
    BY DEF Breaches
  <2> HIDE DEF top
  <2>6. tripped'[d] => peak'[d] > 0
    <3>1. tripped[d] => top > 0
      BY <2>2, <2>3, <2>4 DEF EngineKnows, NoPeak
    <3>2. QED
      BY <2>1, <2>5, <3>1
  <2>7. ASSUME NEW r \in ddRows
        PROVE  (r.tripped => tripped'[d]) /\ (r.peak > 0 => r.peak <= peak'[d])
    <3>1. (r.tripped => tripped[d]) /\ (r.peak > 0 => r.peak <= top)
      BY <2>2, <2>3, <2>4 DEF EngineKnows, NoPeak
    <3>2. QED
      BY <2>1, <3>1
  <2>8. QED
    BY <1>1, <2>6, <2>7 DEF EngineKnows
<1>3. RowsAreOld' /\ PeaksRise'
  BY <1>1, ExecutionAssumption DEF GovernorInv, RowsAreOld, PeaksRise, BeforeSave
<1>4. QED
  BY <1>1, <1>2, <1>3, ExecutionAssumption
  DEF GovernorInv, EngineKnows, TripRecorded, TripIsFinal, Trading

\* The saved row (engine.py:234-254) is the newest and knows at least as much.
LEMMA GovernorSaves ==
  ASSUME SingleWriter, TypeOK, GovernorInv, NEW d \in Desk, SaveState(d)
  PROVE  GovernorInv'
<1>1. /\ clock' = clock /\ asOf' = asOf /\ peak' = peak /\ tripped' = tripped
      /\ pc[d] = "account" /\ pc'[d] = "saved"
      /\ \A e \in Desk \ {d} : pc'[e] = pc[e]
  BY DEF SaveState, Goto, TypeOK, world, input, governor
<1>2. CASE d \notin Audited
  <2>1. ddRows' = ddRows
    BY <1>2 DEF SaveState
  <2>2. RowsAreOld' /\ PeaksRise'
    BY <1>1, <1>2, <2>1, ExecutionAssumption
    DEF GovernorInv, RowsAreOld, PeaksRise, BeforeSave
  <2>3. \A e \in Audited : pc'[e] = pc[e]
    BY <1>1, <1>2, ExecutionAssumption
  <2>4. QED
    BY <1>1, <2>1, <2>2, <2>3
    DEF GovernorInv, EngineKnows, TripRecorded, TripIsFinal, Trading
<1>3. CASE d \in Audited
  <2> DEFINE new == [asOf |-> asOf[d], peak |-> peak[d], tripped |-> tripped[d]]
  <2>1. \A r \in ddRows : r.asOf < asOf[d] /\ r \in Row
    BY <1>1, <1>3 DEF GovernorInv, RowsAreOld, BeforeSave, TypeOK
  <2>2. asOf[d] \in Nat /\ peak[d] \in Nat /\ tripped[d] \in BOOLEAN
    BY <1>1 DEF TypeOK
  <2>3. \A r \in ddRows : r.asOf # asOf[d]
    BY <2>1, <2>2 DEF Row
  <2>4. ddRows' = ddRows \cup {new}
    BY <1>3, <2>3 DEF SaveState
  <2>5. EngineKnows(d) /\ asOf[d] <= clock
    BY <1>1, <1>3 DEF GovernorInv, RowsAreOld, BeforeSave
  <2>6. \A e \in Audited : e = d
    BY <1>3 DEF SingleWriter
  <2>7. RowsAreOld'
    BY <1>1, <2>1, <2>2, <2>4, <2>5, <2>6
    DEF GovernorInv, RowsAreOld, EngineKnows, BeforeSave, Row
  <2>8. PeaksRise'
    <3>1. \A r \in ddRows : r.peak <= new.peak /\ (r.tripped => new.tripped)
      BY <2>1, <2>2, <2>5 DEF EngineKnows, Row
    <3>2. QED
      BY <2>1, <2>2, <2>4, <3>1 DEF GovernorInv, PeaksRise, Row
  <2>9. TripRecorded' => tripped'[d]
    BY <1>1, <2>4, <2>5 DEF TripRecorded, EngineKnows
  <2>10. QED
    BY <1>1, <2>6, <2>7, <2>8, <2>9 DEF GovernorInv, TripIsFinal, Trading
<1>4. QED
  BY <1>2, <1>3

\* A crash forgets every engine and no row.
LEMMA GovernorCrash ==
  ASSUME TypeOK, GovernorInv, Crash
  PROVE  GovernorInv'
  BY ExecutionAssumption
  DEF Crash, GovernorInv, RowsAreOld, PeaksRise, EngineKnows, TripIsFinal, Trading,
      TripRecorded, BeforeSave, world, store

\* Every step of the engines and of the world preserves the invariant.
LEMMA GovernorStep ==
  ASSUME SingleWriter, TypeOK, GovernorInv, [Next]_vars
  PROVE  GovernorInv'
<1>1. ASSUME NEW d \in Desk, Start(d)
      PROVE  GovernorInv'
  BY <1>1, GovernorStart
<1>2. ASSUME NEW d \in Desk, CancelStale(d)
      PROVE  GovernorInv'
  <2>1. UNCHANGED <<clock, ddRows>>
    BY <1>2 DEF CancelStale, world, store
  <2>2. EndPass(d) \/ UNCHANGED <<pc, input, governor>>
    BY <1>2 DEF CancelStale
  <2>3. CASE EndPass(d)
    BY <2>1, <2>3, GovernorEnds
  <2>4. CASE UNCHANGED <<pc, input, governor>>
    BY <2>1, <2>4, GovernorStays DEF input, governor
  <2>5. QED
    BY <2>2, <2>3, <2>4
<1>3. ASSUME NEW d \in Desk, Score(d)
      PROVE  GovernorInv'
  <2>1. UNCHANGED <<clock, ddRows>>
    BY <1>3 DEF Score, world, store
  <2>2. \/ EndPass(d)
        \/ Goto(d, "building") /\ UNCHANGED <<asOf, governor>>
    BY <1>3 DEF Score
  <2>3. CASE EndPass(d)
    BY <2>1, <2>3, GovernorEnds
  <2>4. CASE Goto(d, "building") /\ UNCHANGED <<asOf, governor>>
    <3>1. SameKnowledge(d, "building")
      BY <1>3 DEF Score, SameKnowledge
    <3>2. QED
      BY <2>1, <2>4, <3>1, GovernorMoves DEF governor
  <2>5. QED
    BY <2>2, <2>3, <2>4
<1>4. ASSUME NEW d \in Desk, Build(d)
      PROVE  GovernorInv'
  BY <1>4, GovernorBuild
<1>5. ASSUME NEW d \in Desk, Refuse(d)
      PROVE  GovernorInv'
  BY <1>5, GovernorEnds DEF Refuse, world, store
<1>6. ASSUME NEW d \in Desk, ReadAccount(d)
      PROVE  GovernorInv'
  BY <1>6, GovernorReads
<1>7. ASSUME NEW d \in Desk, SaveState(d)
      PROVE  GovernorInv'
  BY <1>7, GovernorSaves
<1>8. ASSUME NEW d \in Desk, HaltDrawdown(d)
      PROVE  GovernorInv'
  BY <1>8, GovernorEnds DEF HaltDrawdown, Halt, world, store
<1>9. ASSUME NEW d \in Desk, HaltDailyLoss(d)
      PROVE  GovernorInv'
  BY <1>9, GovernorEnds DEF HaltDailyLoss, Halt, world, store
<1>10. ASSUME NEW d \in Desk, RefuseBook(d)
      PROVE  GovernorInv'
  BY <1>10, GovernorEnds DEF RefuseBook, world, store
<1>11. ASSUME NEW d \in Desk, ReadPositions(d)
      PROVE  GovernorInv'
  <2>1. SameKnowledge(d, "positions") /\ Goto(d, "positions")
    BY <1>11 DEF ReadPositions, SameKnowledge, Trading
  <2>2. UNCHANGED <<clock, ddRows, asOf, peak, tripped>>
    BY <1>11 DEF ReadPositions, world, store, input, governor
  <2>3. QED
    BY <2>1, <2>2, GovernorMoves
<1>12. ASSUME NEW d \in Desk, ReadOpenOrders(d)
      PROVE  GovernorInv'
  <2>1. SameKnowledge(d, "submit") /\ Goto(d, "submit")
    BY <1>12 DEF ReadOpenOrders, SameKnowledge, Trading
  <2>2. UNCHANGED <<clock, ddRows, asOf, peak, tripped>>
    BY <1>12 DEF ReadOpenOrders, world, store, input, governor
  <2>3. QED
    BY <2>1, <2>2, GovernorMoves
<1>13. ASSUME NEW d \in Desk, SkipInsane(d)
      PROVE  GovernorInv'
  BY <1>13, GovernorStays DEF SkipInsane, world, store, input, governor
<1>14. ASSUME NEW d \in Desk, RateCapped(d)
      PROVE  GovernorInv'
  BY <1>14, GovernorStays DEF RateCapped, world, store, input, governor
<1>15. ASSUME NEW d \in Desk, SubmitRejected(d)
      PROVE  GovernorInv'
  BY <1>15, GovernorStays DEF SubmitRejected, world, store, input, governor
<1>16. ASSUME NEW d \in Desk, SubmitAccepted(d)
      PROVE  GovernorInv'
  <2>1. SameKnowledge(d, "sent") /\ Goto(d, "sent")
    BY <1>16 DEF SubmitAccepted, SameKnowledge, Trading
  <2>2. UNCHANGED <<clock, ddRows, asOf, peak, tripped>>
    BY <1>16 DEF SubmitAccepted, world, store, input, governor
  <2>3. QED
    BY <2>1, <2>2, GovernorMoves
<1>17. ASSUME NEW d \in Desk, AuditOrder(d)
      PROVE  GovernorInv'
  <2>1. SameKnowledge(d, "submit") /\ Goto(d, "submit")
    BY <1>17 DEF AuditOrder, SameKnowledge, Trading
  <2>2. UNCHANGED <<clock, ddRows, asOf, peak, tripped>>
    BY <1>17 DEF AuditOrder, world, store, input, governor
  <2>3. QED
    BY <2>1, <2>2, GovernorMoves
<1>18. ASSUME NEW d \in Desk, SubmitLost(d)
      PROVE  GovernorInv'
  BY <1>18, GovernorEnds DEF SubmitLost, world, store
<1>19. ASSUME NEW d \in Desk, Finish(d)
      PROVE  GovernorInv'
  BY <1>19, GovernorEnds DEF Finish, world, store
<1>20. ASSUME NEW d \in Desk, Flatten(d)
      PROVE  GovernorInv'
  <2>1. SameKnowledge(d, "flattening") /\ Goto(d, "flattening")
    BY <1>20 DEF Flatten, SameKnowledge, Trading
  <2>2. UNCHANGED <<clock, ddRows, asOf, peak, tripped>>
    BY <1>20 DEF Flatten, world, store, input, governor
  <2>3. QED
    BY <2>1, <2>2, GovernorMoves
<1>21. ASSUME NEW d \in Desk, FlattenNext(d)
      PROVE  GovernorInv'
  BY <1>21, GovernorStays DEF FlattenNext, world, store, input, governor
<1>22. ASSUME NEW d \in Desk, FlattenDone(d)
      PROVE  GovernorInv'
  <2>1. SameKnowledge(d, "built") /\ Goto(d, "built")
    BY <1>22 DEF FlattenDone, SameKnowledge, Trading
  <2>2. UNCHANGED <<clock, ddRows, asOf, peak, tripped>>
    BY <1>22 DEF FlattenDone, world, store, input, governor
  <2>3. QED
    BY <2>1, <2>2, GovernorMoves
<1>23. ASSUME NEW d \in Desk, Abort(d)
      PROVE  GovernorInv'
  BY <1>23, GovernorEnds DEF Abort, world, store
<1>24. ASSUME VenueFill
      PROVE  GovernorInv'
  BY <1>24, GovernorStays DEF VenueFill, world, store, input, governor
<1>25. ASSUME VenueDrop
      PROVE  GovernorInv'
  BY <1>25, GovernorStays DEF VenueDrop, world, store, input, governor
<1>26. ASSUME EquityMoves
      PROVE  GovernorInv'
  BY <1>26, GovernorStays DEF EquityMoves, world, store, input, governor
<1>27. ASSUME NewSession
      PROVE  GovernorInv'
  BY <1>27, GovernorStays DEF NewSession, world, store, input, governor
<1>28. ASSUME Crash
      PROVE  GovernorInv'
  BY <1>28, GovernorCrash
<1>29. CASE UNCHANGED vars
  BY <1>29, GovernorStays DEF vars, world, store, input, governor
<1>30. QED
  BY <1>1, <1>2, <1>3, <1>4, <1>5, <1>6, <1>7, <1>8, <1>9, <1>10, <1>11,
     <1>12, <1>13, <1>14, <1>15, <1>16, <1>17, <1>18, <1>19, <1>20, <1>21,
     <1>22, <1>23, <1>24, <1>25, <1>26, <1>27, <1>28, <1>29
  DEF Next, Cycle, Gates, Trade, Kill, Environment

\* It holds of an empty store.
LEMMA GovernorStarts == Init => GovernorInv
  BY ExecutionAssumption
  DEF Init, GovernorInv, RowsAreOld, PeaksRise, TripIsFinal, Trading, BeforeSave

\* So it holds always, for a single audited desk.
LEMMA GovernorHolds ==
  ASSUME SingleWriter
  PROVE  Spec => []GovernorInv
<1>1. Init => GovernorInv
  BY GovernorStarts
<1>2. TypeOK /\ GovernorInv /\ [Next]_vars => GovernorInv'
  BY GovernorStep
<1>3. Spec => []TypeOK
  BY TypeCorrect
<1>4. QED
  BY <1>1, <1>2, <1>3, PTL DEF Spec

\* A drawdown trip stops every later engine of the desk that persists it, across
\* cycles, crashes and restarts, if that desk is alone in persisting it
\* (engine.py:72-77 and 88-96, risk.py:82).
THEOREM TripStopsTrading ==
  ASSUME SingleWriter
  PROVE  Spec => []TripIsFinal
<1>1. GovernorInv => TripIsFinal
  BY DEF GovernorInv
<1>2. QED
  BY <1>1, GovernorHolds, PTL

\* Under the same hypothesis the persisted high-water mark never falls, and the
\* row of a trip is followed only by rows of a trip (engine.py:234-254).
THEOREM HighWaterMarkRises ==
  ASSUME SingleWriter
  PROVE  Spec => []PeaksRise
<1>1. GovernorInv => PeaksRise
  BY DEF GovernorInv
<1>2. QED
  BY <1>1, GovernorHolds, PTL

-----------------------------------------------------------------------------
(* The refinement.  Every step of the engines sends one order, halts, or is  *)
(* a stutter of HaltGate.                                                    *)

GateSent == {ClientOrderId(o) : o \in AuditedOrders}
StampsFit == clock <= MaxPass /\ \A d \in Desk : asOf[d] <= clock
OrdersKept == UNCHANGED <<GateSent, TripRecorded>>

\* as_of never runs ahead of the clock that hands it out.
LEMMA StampsHold == Spec => []StampsFit
<1>1. Init => StampsFit
  BY ExecutionAssumption DEF Init, StampsFit
<1>2. TypeOK /\ StampsFit /\ [Next]_vars => StampsFit'
  <2> SUFFICES ASSUME TypeOK, StampsFit, [Next]_vars PROVE StampsFit'
    OBVIOUS
  <2>1. ASSUME NEW d \in Desk, EndPass(d), UNCHANGED clock PROVE StampsFit'
    BY <2>1 DEF StampsFit, EndPass, TypeOK
  <2>2. ASSUME NEW d \in Desk, Start(d) PROVE StampsFit'
    <3>1. clock' = clock + 1 /\ asOf' = [asOf EXCEPT ![d] = clock + 1] /\ clock < MaxPass
      BY <2>2 DEF Start, BeginPass
    <3>2. QED
      BY <3>1, ExecutionAssumption DEF StampsFit, TypeOK
  <2>3. ASSUME UNCHANGED <<clock, asOf>> PROVE StampsFit'
    BY <2>3 DEF StampsFit
  <2>4. ASSUME NEW d \in Desk, Cycle(d) \/ Gates(d) \/ Trade(d) \/ Kill(d) \/ Abort(d)
        PROVE  StampsFit'
    <3>1. Start(d) \/ (EndPass(d) /\ UNCHANGED clock) \/ UNCHANGED <<clock, asOf>>
      <4>1. CASE Cycle(d)
        BY <4>1 DEF Cycle, CancelStale, Score, world, input
      <4>2. CASE Gates(d)
        BY <4>2 DEF Gates, Build, Refuse, ReadAccount, SaveState, HaltDrawdown,
           HaltDailyLoss, Halt, RefuseBook, world, input
      <4>3. CASE Trade(d)
        BY <4>3 DEF Trade, ReadPositions, ReadOpenOrders, SkipInsane, RateCapped,
           SubmitRejected, SubmitAccepted, AuditOrder, SubmitLost, Finish, world, input
      <4>4. CASE Kill(d)
        BY <4>4 DEF Kill, Flatten, FlattenNext, FlattenDone, world, input
      <4>5. CASE Abort(d)
        BY <4>5 DEF Abort, world
      <4>6. QED
        BY <2>4, <4>1, <4>2, <4>3, <4>4, <4>5
    <3>2. QED
      BY <3>1, <2>1, <2>2, <2>3
  <2>5. ASSUME Crash PROVE StampsFit'
    BY <2>5 DEF Crash, StampsFit, world, TypeOK
  <2>6. CASE Environment /\ ~Crash
    BY <2>6, <2>3 DEF Environment, VenueFill, VenueDrop, EquityMoves, NewSession, world, input
  <2>7. CASE UNCHANGED vars
    BY <2>7, <2>3 DEF vars, world, input
  <2>8. QED
    BY <2>4, <2>5, <2>6, <2>7 DEF Next, Environment
<1>3. QED
  BY <1>1, <1>2, TypeCorrect, PTL DEF Spec

\* Fills, drops and cancels change an order, never its id or its sender.
LEMMA ProgressKeepsIds ==
  ASSUME BrokerTypeOK, NEW o \in orders, NEW p,
         orders' = (orders \ {o}) \cup {p},
         p.by = o.by, p.kind = o.kind, p.asOf = o.asOf, p.sym = o.sym
  PROVE  GateSent' = GateSent
<1>1. ClientOrderId(p) = ClientOrderId(o)
  BY DEF ClientOrderId
<1>2. p \in AuditedOrders' <=> o \in AuditedOrders
  BY DEF AuditedOrders
<1>3. AuditedOrders' \ {p} \subseteq AuditedOrders /\ AuditedOrders \ {o} \subseteq AuditedOrders'
  BY DEF AuditedOrders
<1>4. \A x : x \in GateSent' => x \in GateSent
  BY <1>1, <1>2, <1>3 DEF GateSent, ClientOrderId
<1>5. \A x : x \in GateSent => x \in GateSent'
  BY <1>1, <1>2, <1>3 DEF GateSent, ClientOrderId
<1>6. QED
  BY <1>4, <1>5

\* An accepted order is one Send of the gate, or nothing if its desk is unaudited.
LEMMA TakeSends ==
  ASSUME TypeOK, StampsFit, TripIsFinal, NEW d \in Desk, pc[d] = "submit",
         NEW p \in plan[d], ~IsDuplicate(AsOrder(d, p)), Take(AsOrder(d, p)),
         UNCHANGED ddRows
  PROVE  Gate!Next \/ OrdersKept
<1> DEFINE o == AsOrder(d, p)
<1>1. o.by = d /\ o.kind = "rebalance" /\ o.asOf = asOf[d] /\ o.sym = p.sym
  BY DEF AsOrder, NewOrder
<1>2. TripRecorded' = TripRecorded
  BY DEF TripRecorded
<1>3. orders' = orders \cup {o}
  BY DEF Take
<1> HIDE DEF o
<1>4. CASE d \notin Audited
  <2>1. AuditedOrders' = AuditedOrders
    BY <1>1, <1>3, <1>4 DEF AuditedOrders
  <2>2. QED
    BY <1>2, <2>1 DEF OrdersKept, GateSent, ClientOrderId
<1>5. CASE d \in Audited
  <2>1. AuditedOrders' = AuditedOrders \cup {o}
    BY <1>1, <1>3, <1>5 DEF AuditedOrders
  <2>2. GateSent' = GateSent \cup {ClientOrderId(o)}
    BY <2>1 DEF GateSent, ClientOrderId
  <2>3. ClientOrderId(o) \notin GateSent
    BY DEF GateSent, AuditedOrders, IsDuplicate, o
  <2>4. ClientOrderId(o) \in {"rebalance"} \X (0 .. MaxPass) \X Symbol
    <3>1. asOf[d] \in Nat /\ asOf[d] <= MaxPass /\ p.sym \in Symbol
      BY ExecutionAssumption DEF TypeOK, StampsFit
    <3>2. (asOf[d] \div StampsPerSecond) \in 0 .. MaxPass
      BY <3>1, BrokerAssumption, ExecutionAssumption
    <3>3. QED
      BY <1>1, <3>1, <3>2 DEF ClientOrderId
  <2>5. ~TripRecorded
    BY <1>5 DEF TripIsFinal, Trading
  <2>6. QED
    BY <1>2, <2>2, <2>3, <2>4, <2>5 DEF Gate!Next, Gate!Send, GateSent
<1>6. QED
  BY <1>4, <1>5

\* Saving a row keeps the gate as it is or halts it.
LEMMA SaveHalts ==
  ASSUME TypeOK, GovernorInv, NEW d \in Desk, SaveState(d)
  PROVE  Gate!Next \/ OrdersKept
<1>1. orders' = orders /\ GateSent' = GateSent
  BY DEF SaveState, broker, GateSent, AuditedOrders, ClientOrderId
<1>2. TripRecorded => TripRecorded'
  <2>1. CASE d \notin Audited
    BY <2>1 DEF SaveState, TripRecorded
  <2>2. CASE d \in Audited
    <3>1. \A r \in ddRows : r.asOf < asOf[d] /\ r.asOf \in Nat /\ asOf[d] \in Nat
      BY <2>2 DEF SaveState, GovernorInv, RowsAreOld, BeforeSave, TypeOK, Row
    <3>2. \A r \in ddRows : r.asOf # asOf[d]
      BY <3>1
    <3>3. ddRows \subseteq ddRows'
      BY <2>2, <3>2 DEF SaveState
    <3>4. QED
      BY <3>3 DEF TripRecorded
  <2>3. QED
    BY <2>1, <2>2
<1>3. TripRecorded \in BOOLEAN /\ TripRecorded' \in BOOLEAN
  BY DEF TripRecorded
<1>4. CASE ~TripRecorded /\ TripRecorded'
  BY <1>1, <1>3, <1>4 DEF Gate!Next, Gate!Halt, GateSent
<1>5. CASE TripRecorded' = TripRecorded
  BY <1>1, <1>5 DEF OrdersKept
<1>6. QED
  BY <1>2, <1>3, <1>4, <1>5

\* Every step of the engines is a step of the gate or leaves it alone.
LEMMA GateStep ==
  ASSUME TypeOK, StampsFit, GovernorInv, [Next]_vars
  PROVE  Gate!Next \/ OrdersKept
<1> USE DEF GovernorInv
<1>1. ASSUME UNCHANGED <<orders, ddRows>> PROVE OrdersKept
  BY <1>1 DEF OrdersKept, GateSent, AuditedOrders, ClientOrderId, TripRecorded
<1>2. ASSUME NEW o \in orders, NEW p, UNCHANGED ddRows,
             orders' = (orders \ {o}) \cup {p},
             p.by = o.by, p.kind = o.kind, p.asOf = o.asOf, p.sym = o.sym
      PROVE  OrdersKept
  BY <1>2, ProgressKeepsIds DEF OrdersKept, TripRecorded, TypeOK
<1>3. ASSUME NEW d \in Desk, CancelStale(d) PROVE OrdersKept
  <2>1. UNCHANGED ddRows
    BY <1>3 DEF CancelStale, store
  <2>2. UNCHANGED orders \/ \E o \in orders : RequestCancel(o)
    BY <1>3 DEF CancelStale
  <2>3. ASSUME NEW o \in orders, RequestCancel(o) PROVE OrdersKept
    <3>1. o \in Order
      BY DEF TypeOK, BrokerTypeOK
    <3> DEFINE p == [o EXCEPT !.status = "cancelling"]
    <3>2. p.by = o.by /\ p.kind = o.kind /\ p.asOf = o.asOf /\ p.sym = o.sym
      BY <3>1 DEF Order
    <3>3. orders' = (orders \ {o}) \cup {p}
      BY <2>3 DEF RequestCancel
    <3> HIDE DEF p
    <3>4. QED
      BY <2>1, <3>2, <3>3, <1>2
  <2>4. QED
    BY <1>1, <2>1, <2>2, <2>3
<1>4. ASSUME VenueFill PROVE OrdersKept
  <2>1. PICK o \in orders : \E n \in 1 .. Remaining(o) : Fill(o, n)
    BY <1>4 DEF VenueFill, OpenOrders
  <2>2. PICK n : Fill(o, n)
    BY <2>1
  <2>3. o \in Order
    BY DEF TypeOK, BrokerTypeOK
  <2> DEFINE p == [o EXCEPT !.filled = @ + n,
                           !.status = IF o.filled + n = o.qty THEN "done" ELSE @]
  <2>4. p.by = o.by /\ p.kind = o.kind /\ p.asOf = o.asOf /\ p.sym = o.sym
    BY <2>3 DEF Order
  <2>5. orders' = (orders \ {o}) \cup {p} /\ UNCHANGED ddRows
    BY <1>4, <2>2 DEF Fill, VenueFill, store
  <2> HIDE DEF p
  <2>6. QED
    BY <2>4, <2>5, <1>2
<1>5. ASSUME VenueDrop PROVE OrdersKept
  <2>1. PICK o \in orders : Drop(o)
    BY <1>5 DEF VenueDrop, OpenOrders
  <2>2. o \in Order
    BY DEF TypeOK, BrokerTypeOK
  <2> DEFINE p == [o EXCEPT !.status = "done"]
  <2>3. p.by = o.by /\ p.kind = o.kind /\ p.asOf = o.asOf /\ p.sym = o.sym
    BY <2>2 DEF Order
  <2>4. orders' = (orders \ {o}) \cup {p} /\ UNCHANGED ddRows
    BY <1>5, <2>1 DEF Drop, VenueDrop, store
  <2> HIDE DEF p
  <2>5. QED
    BY <2>3, <2>4, <1>2
<1>6. ASSUME NEW d \in Desk, SubmitAccepted(d) \/ SubmitLost(d)
      PROVE  Gate!Next \/ OrdersKept
  <2>1. PICK p \in plan[d] : ~IsDuplicate(AsOrder(d, p)) /\ Take(AsOrder(d, p))
    BY <1>6 DEF SubmitAccepted, SubmitLost, NextPlanned
  <2>2. pc[d] = "submit" /\ UNCHANGED ddRows
    BY <1>6 DEF SubmitAccepted, SubmitLost, store
  <2>3. QED
    BY <2>1, <2>2, TakeSends
<1>7. ASSUME NEW d \in Desk, FlattenNext(d) PROVE OrdersKept
  <2>1. PICK o : orders' = orders \cup {o} /\ o.kind = "flatten"
    BY <1>7 DEF FlattenNext, Take, NewOrder
  <2>2. AuditedOrders' = AuditedOrders /\ UNCHANGED ddRows
    BY <1>7, <2>1 DEF AuditedOrders, FlattenNext
  <2>3. QED
    BY <2>2 DEF OrdersKept, GateSent, ClientOrderId, TripRecorded
<1>8. ASSUME NEW d \in Desk, Cycle(d) \/ Gates(d) \/ Trade(d) \/ Kill(d) \/ Abort(d)
      PROVE  Gate!Next \/ OrdersKept
  <2>1. CASE Start(d) \/ Score(d) \/ Abort(d)
    BY <2>1, <1>1 DEF Start, BeginPass, Score, Abort, broker, store
  <2>2. CASE Gates(d) /\ ~SaveState(d)
    BY <2>2, <1>1 DEF Gates, Build, Refuse, ReadAccount, HaltDrawdown, HaltDailyLoss, Halt,
       RefuseBook, broker, store
  <2>3. CASE Trade(d) /\ ~SubmitAccepted(d) /\ ~SubmitLost(d)
    BY <2>3, <1>1 DEF Trade, ReadPositions, ReadOpenOrders, SkipInsane, RateCapped,
       SubmitRejected, AuditOrder, Finish, broker, store
  <2>4. CASE Kill(d) /\ ~FlattenNext(d)
    BY <2>4, <1>1 DEF Kill, Flatten, FlattenDone, broker, store
  <2>5. QED
    BY <1>3, <1>6, <1>7, <1>8, <2>1, <2>2, <2>3, <2>4, SaveHalts
    DEF Cycle, Gates, Trade, Kill
<1>9. CASE EquityMoves \/ NewSession \/ Crash \/ UNCHANGED vars
  BY <1>9, <1>1 DEF EquityMoves, NewSession, Crash, vars, broker, store
<1>10. QED
  BY <1>4, <1>5, <1>8, <1>9 DEF Next, Environment

\* Seen from outside, the desk that persists its high-water mark trades order by
\* order until the governor halts it for good (engine.py:80-217).
THEOREM EnginesImplementHaltGate ==
  ASSUME SingleWriter
  PROVE  Spec => ImplementsHaltGate
<1>1. Init => Gate!Init
  BY DEF Init, Gate!Init, BrokerInit, TripRecorded, AuditedOrders
<1>2. TypeOK /\ StampsFit /\ GovernorInv /\ [Next]_vars
        => [Gate!Next]_<<TripRecorded, {ClientOrderId(o) : o \in AuditedOrders}>>
  BY GateStep DEF OrdersKept, GateSent
<1>3. QED
  BY <1>1, <1>2, TypeCorrect, StampsHold, GovernorHolds, PTL
  DEF Spec, ImplementsHaltGate, Gate!Spec

-----------------------------------------------------------------------------
(* The audit log can be believed, whatever the number of desks that write it,
      the stamps they share a second of, and wherever a pass dies. *)

\* What a tripped breaker writes.
HaltEvent == {"halt:drawdown", "halt:daily_loss"}

\* An as_of is handed out once: nothing carries a stamp of the future, and no two
\* running passes carry the same.
StampsFresh ==
  /\ \A d \in Desk : asOf[d] <= clock
  /\ \A o \in orders : o.asOf <= clock
  /\ \A a \in audit : a.asOf <= clock
  /\ \A d, e \in Desk : pc[d] # "idle" /\ pc[e] # "idle" /\ asOf[d] = asOf[e] => d = e

\* Before its submit loop a pass has sent nothing; while it runs it is not halted.
NothingSent(d) == \A o \in orders : o.kind = "rebalance" => o.asOf # asOf[d]
NotHalted(d) == \A a \in audit : a.event \in HaltEvent => a.asOf # asOf[d]
Sent(d, s) == \E o \in orders : o.asOf = asOf[d] /\ o.sym = s

\* What the audit log rests on: fresh stamps, and what each pass has and has not yet sent.
AuditInv ==
  /\ StampsFresh
  /\ \A d \in Desk :
       /\ pc[d] \notin {"idle", "submit", "sent"} => NothingSent(d)
       /\ pc[d] # "idle" => NotHalted(d)
       /\ pc[d] = "sent" => \A s \in todo[d] : Sent(d, s)
  /\ AuditIsTrue

-----------------------------------------------------------------------------
\* A step that sends no order of a rebalance, logs no order and no halt, starts no
\* pass, and takes no pass out of its submit loop but to end it.
SameOrder(o, p) == p.kind = o.kind /\ p.asOf = o.asOf /\ p.sym = o.sym

\* No step but a submission adds a rebalance order, and none forgets one.
QuietOrders ==
  /\ \A p \in orders' : \/ \E o \in orders : SameOrder(o, p)
                        \/ p.kind = "flatten" /\ p.asOf <= clock
  /\ \A o \in orders : \E p \in orders' : SameOrder(o, p)

\* No step but a halt or the end of a pass writes of halts and orders.
QuietAudit ==
  \A a \in audit' : \/ a \in audit
                    \/ a.event \notin HaltEvent \cup {"order"} /\ a.asOf <= clock

\* No step but its own moves a desk towards its submissions.
QuietDesk(d) ==
  /\ pc[d] = "idle" => pc'[d] = "idle"
  /\ pc[d] \in {"submit", "sent"} => pc'[d] \in {"submit", "sent", "idle"}
  /\ pc'[d] = "sent" => pc[d] = "sent" /\ todo'[d] \subseteq todo[d]
  /\ pc'[d] # "idle" => asOf'[d] = asOf[d]
  /\ asOf'[d] \in {asOf[d], 0}

\* Such a step keeps the log true and the passes apart.
LEMMA QuietStep ==
  ASSUME TypeOK, AuditInv, QuietOrders, QuietAudit, UNCHANGED clock,
         \A d \in Desk : QuietDesk(d)
  PROVE  AuditInv'
<1>1. clock \in Nat
  BY DEF TypeOK
<1>2. StampsFresh'
  BY <1>1 DEF AuditInv, StampsFresh, QuietOrders, QuietAudit, QuietDesk, SameOrder
<1>3. ASSUME NEW d \in Desk, pc'[d] \notin {"idle", "submit", "sent"}
      PROVE  NothingSent(d)'
  BY <1>3 DEF AuditInv, NothingSent, QuietOrders, QuietDesk, SameOrder
<1>4. ASSUME NEW d \in Desk, pc'[d] # "idle"
      PROVE  NotHalted(d)'
  BY <1>4 DEF AuditInv, NotHalted, QuietAudit, QuietDesk
<1>5. ASSUME NEW d \in Desk, pc'[d] = "sent", NEW s \in todo'[d]
      PROVE  Sent(d, s)'
  BY <1>5 DEF AuditInv, Sent, QuietOrders, QuietDesk, SameOrder
<1>6. AuditIsTrue'
  BY DEF AuditInv, AuditIsTrue, QuietOrders, QuietAudit, SameOrder, HaltEvent
<1>7. QED
  BY <1>2, <1>3, <1>4, <1>5, <1>6 DEF AuditInv

\* Fills, drops and cancels are quiet: they change an order, never whose it is.
LEMMA ProgressIsQuiet ==
  ASSUME NEW o \in orders, NEW p, SameOrder(o, p),
         orders' = (orders \ {o}) \cup {p}
  PROVE  QuietOrders
  BY DEF QuietOrders, SameOrder

\* Ending a pass is quiet for every desk.
LEMMA EndPassIsQuiet ==
  ASSUME TypeOK, NEW d \in Desk, EndPass(d), NEW e \in Desk
  PROVE  QuietDesk(e)
  BY DEF TypeOK, EndPass, QuietDesk

\* So is moving on, except to log an order or out of the submit loop.
LEMMA MoveIsQuiet ==
  ASSUME TypeOK, NEW d \in Desk, NEW to \in Stage \ {"sent"}, pc[d] # "idle",
         pc[d] \in {"submit", "sent"} => to \in {"submit", "idle"},
         Goto(d, to), UNCHANGED asOf,
         \A e \in Desk : e # d => todo'[e] \subseteq todo[e],
         NEW e \in Desk
  PROVE  QuietDesk(e)
  BY DEF TypeOK, Goto, QuietDesk, Stage

\* A cancel request leaves an order's kind, stamp and symbol alone, so it is quiet.
LEMMA CancelIsQuiet ==
  ASSUME TypeOK, NEW o \in orders, RequestCancel(o)
  PROVE  QuietOrders
<1>1. o \in Order
  BY DEF TypeOK, BrokerTypeOK
<1> DEFINE p == [o EXCEPT !.status = "cancelling"]
<1>2. SameOrder(o, p)
  BY <1>1 DEF Order, SameOrder
<1>3. orders' = (orders \ {o}) \cup {p}
  BY DEF RequestCancel
<1> HIDE DEF p
<1>4. QED
  BY <1>2, <1>3, ProgressIsQuiet

\* So is an order the venue cancels, expires or otherwise drops.
LEMMA DropIsQuiet ==
  ASSUME TypeOK, NEW o \in orders, Drop(o)
  PROVE  QuietOrders
<1>1. o \in Order
  BY DEF TypeOK, BrokerTypeOK
<1> DEFINE p == [o EXCEPT !.status = "done"]
<1>2. SameOrder(o, p)
  BY <1>1 DEF Order, SameOrder
<1>3. orders' = (orders \ {o}) \cup {p}
  BY DEF Drop
<1> HIDE DEF p
<1>4. QED
  BY <1>2, <1>3, ProgressIsQuiet

\* And one it fills, in part or whole.
LEMMA FillIsQuiet ==
  ASSUME TypeOK, NEW o \in orders, NEW n, Fill(o, n)
  PROVE  QuietOrders
<1>1. o \in Order
  BY DEF TypeOK, BrokerTypeOK
<1> DEFINE p == [o EXCEPT !.filled = @ + n,
                                      !.status = IF o.filled + n = o.qty THEN "done" ELSE @]
<1>2. SameOrder(o, p)
  BY <1>1 DEF Order, SameOrder
<1>3. orders' = (orders \ {o}) \cup {p}
  BY DEF Fill
<1> HIDE DEF p
<1>4. QED
  BY <1>2, <1>3, ProgressIsQuiet

\* A pass whose step neither sends, logs nor moves the clock and ends is quiet.
LEMMA EndsQuietly ==
  ASSUME TypeOK, AuditInv, NEW d \in Desk, EndPass(d), QuietOrders, QuietAudit,
         UNCHANGED clock
  PROVE  AuditInv'
  BY QuietStep, EndPassIsQuiet

\* An unchanged book of orders is quiet.
LEMMA SameBookIsQuiet ==
  ASSUME UNCHANGED orders
  PROVE  QuietOrders
  BY DEF QuietOrders, SameOrder

\* Every other row of the pass (skips, refusals, summaries, flattens) is quiet too.
LEMMA RecordIsQuiet ==
  ASSUME TypeOK, AuditInv, NEW d \in Desk, NEW s, NEW event,
         event \notin HaltEvent \cup {"order"}, Record(d, s, event)
  PROVE  QuietAudit
  BY DEF QuietAudit, Record, AuditRow, AuditInv, StampsFresh

-----------------------------------------------------------------------------
(* The steps that are not quiet.                                            *)

\* A new pass is given a stamp that nothing carries yet.
LEMMA AuditStart ==
  ASSUME TypeOK, AuditInv, NEW d \in Desk, Start(d)
  PROVE  AuditInv'
<1>1. /\ clock \in Nat /\ clock' = clock + 1 /\ UNCHANGED <<orders, audit>>
      /\ asOf' = [asOf EXCEPT ![d] = clock + 1]
      /\ pc[d] = "idle" /\ pc' \in [Desk -> Stage]
      /\ pc'[d] \in {"cancelling", "scoring"}
      /\ \A e \in Desk : e # d => pc'[e] = pc[e] /\ todo'[e] = todo[e]
  BY DEF TypeOK, Start, BeginPass, Goto, Stage, broker, store
<1>2. asOf \in [Desk -> Nat]
  BY DEF TypeOK
<1>3. StampsFresh'
  <2>1. asOf'[d] = clock + 1 /\ \A e \in Desk : e # d => asOf'[e] = asOf[e]
    BY <1>1, <1>2
  <2>2. /\ \A e \in Desk : asOf[e] \in Nat /\ asOf[e] <= clock
        /\ \A o \in orders : o.asOf <= clock /\ o.asOf \in Nat
        /\ \A a \in audit : a.asOf <= clock /\ a.asOf \in Nat
    BY <1>2 DEF AuditInv, StampsFresh, TypeOK, BrokerTypeOK, Order
  <2>3. ASSUME NEW e \in Desk, NEW f \in Desk, pc'[e] # "idle", pc'[f] # "idle",
               asOf'[e] = asOf'[f]
        PROVE  e = f
    <3>1. CASE e # d /\ f # d
      BY <1>1, <2>1, <2>3, <3>1 DEF AuditInv, StampsFresh
    <3>2. CASE e = d \/ f = d
      BY <1>1, <2>1, <2>2, <2>3, <3>2
    <3>3. QED
      BY <3>1, <3>2
  <2>4. \A e \in Desk : asOf'[e] <= clock'
    BY <1>1, <2>1, <2>2
  <2>5. QED
    BY <1>1, <2>2, <2>3, <2>4 DEF StampsFresh
<1>4. NothingSent(d)' /\ NotHalted(d)'
  BY <1>1, <1>2 DEF AuditInv, StampsFresh, NothingSent, NotHalted
<1>5. AuditIsTrue'
  BY <1>1 DEF AuditInv, AuditIsTrue
<1>6. ASSUME NEW e \in Desk, e # d
      PROVE  /\ pc'[e] = pc[e] /\ todo'[e] = todo[e] /\ asOf'[e] = asOf[e]
             /\ NothingSent(e) => NothingSent(e)'
             /\ NotHalted(e) => NotHalted(e)'
             /\ \A s : Sent(e, s) => Sent(e, s)'
  BY <1>1, <1>2, <1>6 DEF NothingSent, NotHalted, Sent
<1>7. QED
  BY <1>1, <1>3, <1>4, <1>5, <1>6 DEF AuditInv

\* An order goes out under the stamp of a pass that has not been halted and, being
\* the only one with that stamp, hides in nobody else's book.
LEMMA AuditTakes ==
  ASSUME TypeOK, AuditInv, NEW d \in Desk, pc[d] = "submit", NEW q \in Order,
         q.kind = "rebalance", q.asOf = asOf[d], Take(q),
         UNCHANGED <<clock, audit>>,
         \/ EndPass(d)
         \/ Goto(d, "sent") /\ UNCHANGED asOf /\ todo' = [todo EXCEPT ![d] = {q.sym}]
  PROVE  AuditInv'
<1>1. /\ orders' = orders \cup {q} /\ UNCHANGED <<clock, audit>>
      /\ clock \in Nat /\ asOf \in [Desk -> Nat] /\ pc' \in [Desk -> Stage]
      /\ pc'[d] \in {"idle", "sent"} /\ asOf'[d] \in {asOf[d], 0}
      /\ pc'[d] # "idle" => asOf'[d] = asOf[d] /\ todo'[d] = {q.sym}
      /\ \A e \in Desk : e # d => /\ pc'[e] = pc[e] /\ todo'[e] = todo[e]
                                  /\ asOf'[e] = asOf[e]
  BY DEF TypeOK, Take, EndPass, Goto, Stage
<1>2. StampsFresh'
  BY <1>1 DEF AuditInv, StampsFresh
<1>3. ASSUME NEW e \in Desk, pc'[e] \notin {"idle", "submit", "sent"}
      PROVE  NothingSent(e)'
  <2>1. e # d /\ pc[e] \notin {"idle", "submit", "sent"} /\ asOf'[e] = asOf[e]
    BY <1>1, <1>3
  <2>2. asOf[e] # asOf[d]
    BY <2>1 DEF AuditInv, StampsFresh
  <2>3. QED
    BY <1>1, <2>1, <2>2 DEF AuditInv, NothingSent
<1>4. ASSUME NEW e \in Desk, pc'[e] # "idle"
      PROVE  NotHalted(e)'
  BY <1>1, <1>4 DEF AuditInv, NotHalted
<1>5. ASSUME NEW e \in Desk, pc'[e] = "sent", NEW s \in todo'[e]
      PROVE  Sent(e, s)'
  BY <1>1, <1>5 DEF AuditInv, Sent
<1>6. AuditIsTrue'
  <2>1. NotHalted(d)
    BY DEF AuditInv
  <2>2. QED
    BY <1>1, <2>1 DEF AuditInv, AuditIsTrue, NotHalted, HaltEvent
<1>7. QED
  BY <1>2, <1>3, <1>4, <1>5, <1>6 DEF AuditInv

\* The row of an order is written while its pass remembers which symbol it sent.
LEMMA AuditLogs ==
  ASSUME TypeOK, AuditInv, NEW d \in Desk, AuditOrder(d)
  PROVE  AuditInv'
<1>1. PICK s \in todo[d] : Record(d, s, "order")
  BY DEF AuditOrder
<1>2. /\ UNCHANGED <<orders, clock, asOf>> /\ clock \in Nat
      /\ pc[d] = "sent" /\ pc'[d] = "submit"
      /\ \A e \in Desk : e # d => pc'[e] = pc[e] /\ todo'[e] = todo[e]
  BY DEF TypeOK, AuditOrder, Goto, broker, world, input, Stage
<1>3. \A a \in audit' : a \in audit \/ a = AuditRow(d, s, "order")
  BY <1>1 DEF Record
<1>4. Sent(d, s) /\ asOf[d] <= clock
  BY <1>2 DEF AuditInv, StampsFresh
<1>5. StampsFresh'
  BY <1>2, <1>3, <1>4 DEF AuditInv, StampsFresh, AuditRow
<1>6. ASSUME NEW e \in Desk, pc'[e] # "idle"
      PROVE  NotHalted(e)'
  BY <1>2, <1>3, <1>6 DEF AuditInv, NotHalted, HaltEvent, AuditRow
<1>7. AuditIsTrue'
  BY <1>2, <1>3, <1>4 DEF AuditInv, AuditIsTrue, AuditRow, Sent
<1>8. QED
  BY <1>2, <1>5, <1>6, <1>7 DEF AuditInv, NothingSent, Sent

\* A pass is halted before it has sent anything, and ends there.
LEMMA AuditHalts ==
  ASSUME TypeOK, AuditInv, NEW d \in Desk, pc[d] = "saved",
         NEW reason \in HaltEvent, Halt(d, reason)
  PROVE  AuditInv'
<1>1. /\ UNCHANGED <<orders, clock>> /\ clock \in Nat /\ asOf \in [Desk -> Nat]
      /\ pc'[d] = "idle" /\ asOf'[d] = 0
      /\ \A e \in Desk : e # d => /\ pc'[e] = pc[e] /\ todo'[e] = todo[e]
                                  /\ asOf'[e] = asOf[e]
  BY DEF TypeOK, Halt, EndPass, broker, world
<1>2. \A a \in audit' : a \in audit \/ a = AuditRow(d, Portfolio, reason)
  BY DEF Halt
<1>3. NothingSent(d) /\ asOf[d] <= clock
  BY DEF AuditInv, StampsFresh
<1>4. StampsFresh'
  BY <1>1, <1>2, <1>3 DEF AuditInv, StampsFresh, AuditRow
<1>5. ASSUME NEW e \in Desk, pc'[e] # "idle"
      PROVE  NotHalted(e)'
  <2>1. e # d /\ pc[e] # "idle"
    BY <1>1, <1>5
  <2>2. asOf[e] # asOf[d]
    BY <2>1 DEF AuditInv, StampsFresh
  <2>3. QED
    BY <1>1, <1>2, <2>1, <2>2 DEF AuditInv, NotHalted, AuditRow
<1>6. AuditIsTrue'
  BY <1>1, <1>2, <1>3 DEF AuditInv, AuditIsTrue, AuditRow, HaltEvent, NothingSent
<1>7. QED
  BY <1>1, <1>4, <1>5, <1>6 DEF AuditInv, NothingSent, Sent

-----------------------------------------------------------------------------
\* A step that leaves every desk where it is.
LEMMA StayIsQuiet ==
  ASSUME UNCHANGED <<pc, asOf>>,
         \A e \in Desk : pc[e] = "sent" => todo'[e] \subseteq todo[e],
         NEW e \in Desk
  PROVE  QuietDesk(e)
  BY DEF QuietDesk

\* Every step of the desks and of the world keeps the log true.
LEMMA AuditStep ==
  TypeOK /\ TypeOK' /\ AuditInv /\ [Next]_vars => AuditInv'
<1> SUFFICES ASSUME TypeOK, TypeOK', AuditInv, [Next]_vars
             PROVE  AuditInv'
  OBVIOUS
<1> USE DEF broker, world, store
<1>1. ASSUME UNCHANGED vars
      PROVE  AuditInv'
  BY <1>1 DEF vars, input, AuditInv, StampsFresh, NothingSent, NotHalted, Sent,
              AuditIsTrue
<1>2. ASSUME NEW d \in Desk, CancelStale(d)
      PROVE  AuditInv'
  <2>1. QuietAudit /\ UNCHANGED clock
    BY <1>2 DEF CancelStale, QuietAudit
  <2>2. CASE EndPass(d) /\ UNCHANGED orders
    BY <2>1, <2>2, EndsQuietly, SameBookIsQuiet
  <2>3. CASE \E id \in todo[d], o \in orders :
               /\ RequestCancel(o)
               /\ todo' = [todo EXCEPT ![d] = @ \ {id}]
               /\ UNCHANGED <<pc, input>>
    <3>1. PICK o \in orders : RequestCancel(o)
      BY <2>3
    <3>2. QuietOrders
      BY <3>1, CancelIsQuiet
    <3>3. \A e \in Desk : QuietDesk(e)
      BY <2>3, StayIsQuiet DEF TypeOK, input
    <3>4. QED
      BY <2>1, <3>2, <3>3, QuietStep
  <2>4. QED
    BY <1>2, <2>2, <2>3 DEF CancelStale
<1>3. ASSUME NEW d \in Desk, Score(d)
      PROVE  AuditInv'
  <2>1. QuietAudit /\ QuietOrders /\ UNCHANGED clock
    BY <1>3, SameBookIsQuiet DEF Score, QuietAudit
  <2>2. CASE EndPass(d)
    BY <2>1, <2>2, EndsQuietly
  <2>3. CASE Goto(d, "building") /\ UNCHANGED <<asOf, todo>>
    <3>1. pc[d] \in {"scoring", "cancelling"}
      BY <1>3 DEF Score
    <3>2. \A e \in Desk : QuietDesk(e)
      BY <2>3, <3>1, MoveIsQuiet DEF Stage
    <3>3. QED
      BY <2>1, <3>2, QuietStep
  <2>4. QED
    BY <1>3, <2>2, <2>3 DEF Score
<1>4. ASSUME NEW d \in Desk,
             \/ Build(d) \/ ReadAccount(d) \/ SaveState(d) \/ ReadPositions(d)
             \/ ReadOpenOrders(d) \/ Flatten(d) \/ FlattenDone(d)
      PROVE  AuditInv'
  <2>1. QuietAudit /\ QuietOrders /\ UNCHANGED <<clock, asOf>>
    BY <1>4, SameBookIsQuiet
    DEF QuietAudit, Build, ReadAccount, SaveState, ReadPositions, ReadOpenOrders,
        Flatten, FlattenDone, input
  <2>2. pc[d] \notin {"idle", "submit", "sent"}
    BY <1>4 DEF Build, ReadAccount, SaveState, ReadPositions, ReadOpenOrders, Flatten,
                FlattenDone
  <2>3. \E to \in Stage \ {"sent"} : Goto(d, to)
    BY <1>4 DEF Build, ReadAccount, SaveState, ReadPositions, ReadOpenOrders, Flatten,
                FlattenDone, Stage
  <2>4. \A e \in Desk : e # d => todo'[e] \subseteq todo[e]
    BY <1>4 DEF Build, ReadAccount, SaveState, ReadPositions, ReadOpenOrders, Flatten,
                FlattenDone, TypeOK
  <2>5. \A e \in Desk : QuietDesk(e)
    BY <2>1, <2>2, <2>3, <2>4, MoveIsQuiet
  <2>6. QED
    BY <2>1, <2>5, QuietStep
<1>5. ASSUME NEW d \in Desk, Refuse(d) \/ RefuseBook(d) \/ Abort(d)
      PROVE  AuditInv'
  <2>1. EndPass(d) /\ QuietAudit /\ QuietOrders /\ UNCHANGED clock
    BY <1>5, SameBookIsQuiet DEF Refuse, RefuseBook, Abort, QuietAudit
  <2>2. QED
    BY <2>1, EndsQuietly
<1>6. ASSUME NEW d \in Desk, HaltDrawdown(d) \/ HaltDailyLoss(d)
      PROVE  AuditInv'
  BY <1>6, AuditHalts DEF HaltDrawdown, HaltDailyLoss, HaltEvent
<1>7. ASSUME NEW d \in Desk, SkipInsane(d) \/ RateCapped(d) \/ SubmitRejected(d)
      PROVE  AuditInv'
  <2>1. /\ UNCHANGED <<pc, asOf, todo, clock, orders>>
        /\ \E s : \E event \in {"order_skipped", "order_rate_capped", "order_rejected"} :
             Record(d, s, event)
    BY <1>7 DEF SkipInsane, RateCapped, SubmitRejected, input
  <2>2. QuietAudit
    BY <2>1, RecordIsQuiet DEF HaltEvent
  <2>3. \A e \in Desk : QuietDesk(e)
    BY <2>1, StayIsQuiet
  <2>4. QED
    BY <2>1, <2>2, <2>3, SameBookIsQuiet, QuietStep
<1>8. ASSUME NEW d \in Desk, SubmitAccepted(d)
      PROVE  AuditInv'
  <2>1. PICK p \in NextPlanned(d) :
          Take(AsOrder(d, p)) /\ todo' = [todo EXCEPT ![d] = {p.sym}]
    BY <1>8 DEF SubmitAccepted
  <2>2. /\ AsOrder(d, p).kind = "rebalance" /\ AsOrder(d, p).asOf = asOf[d]
        /\ AsOrder(d, p).sym = p.sym
    BY DEF AsOrder, NewOrder
  <2>3. AsOrder(d, p) \in Order
    BY <2>1 DEF Take, TypeOK, BrokerTypeOK
  <2>4. /\ pc[d] = "submit" /\ Goto(d, "sent")
        /\ UNCHANGED <<clock, audit, asOf>>
    BY <1>8 DEF SubmitAccepted, input
  <2>5. QED
    BY <2>1, <2>2, <2>3, <2>4, AuditTakes
<1>9. ASSUME NEW d \in Desk, SubmitLost(d)
      PROVE  AuditInv'
  <2>1. PICK p \in NextPlanned(d) : Take(AsOrder(d, p))
    BY <1>9 DEF SubmitLost
  <2>2. AsOrder(d, p).kind = "rebalance" /\ AsOrder(d, p).asOf = asOf[d]
    BY DEF AsOrder, NewOrder
  <2>3. AsOrder(d, p) \in Order
    BY <2>1 DEF Take, TypeOK, BrokerTypeOK
  <2>4. pc[d] = "submit" /\ EndPass(d) /\ UNCHANGED <<clock, audit>>
    BY <1>9 DEF SubmitLost
  <2>5. QED
    BY <2>1, <2>2, <2>3, <2>4, AuditTakes
<1>10. ASSUME NEW d \in Desk, Finish(d)
       PROVE  AuditInv'
  <2>1. EndPass(d) /\ UNCHANGED <<clock, orders>>
    BY <1>10 DEF Finish
  <2>2. QuietAudit
    <3>1. CASE Record(d, Portfolio, "rebalance_summary")
      BY <3>1, RecordIsQuiet DEF HaltEvent
    <3>2. CASE UNCHANGED audit
      BY <3>2 DEF QuietAudit
    <3>3. QED
      BY <1>10, <3>1, <3>2 DEF Finish
  <2>3. QED
    BY <2>1, <2>2, SameBookIsQuiet, EndsQuietly
<1>11. ASSUME NEW d \in Desk, FlattenNext(d)
       PROVE  AuditInv'
  <2>1. PICK h \in todo[d] :
          LET o == NewOrder("flatten", d, asOf[d], h[1],
                            IF h[2] > 0 THEN "sell" ELSE "buy", Abs(h[2]))
          IN  /\ Take(o)
              /\ Record(d, h[1], "flatten")
              /\ todo' = [todo EXCEPT ![d] = @ \ {h}]
    BY <1>11 DEF FlattenNext
  <2>2. UNCHANGED <<pc, asOf, clock>>
    BY <1>11 DEF FlattenNext, input
  <2>3. QuietOrders
    BY <2>1 DEF QuietOrders, SameOrder, Take, NewOrder, AuditInv, StampsFresh
  <2>4. QuietAudit
    BY <2>1, RecordIsQuiet DEF HaltEvent
  <2>5. \A e \in Desk : QuietDesk(e)
    BY <2>1, <2>2, StayIsQuiet DEF TypeOK
  <2>6. QED
    BY <2>2, <2>3, <2>4, <2>5, QuietStep
<1>12. ASSUME VenueFill \/ VenueDrop
       PROVE  AuditInv'
  <2>1. UNCHANGED <<pc, asOf, todo, clock, audit>>
    BY <1>12 DEF VenueFill, VenueDrop, input
  <2>2. QuietOrders
    <3>1. CASE VenueFill
      BY <3>1, FillIsQuiet DEF VenueFill, OpenOrders
    <3>2. CASE VenueDrop
      BY <3>2, DropIsQuiet DEF VenueDrop, OpenOrders
    <3>3. QED
      BY <1>12, <3>1, <3>2
  <2>3. \A e \in Desk : QuietDesk(e)
    BY <2>1, StayIsQuiet
  <2>4. QED
    BY <2>1, <2>2, <2>3, QuietStep DEF QuietAudit
<1>13. ASSUME EquityMoves \/ NewSession
       PROVE  AuditInv'
  <2>1. UNCHANGED <<pc, asOf, todo, clock, audit, orders>>
    BY <1>13 DEF EquityMoves, NewSession, input
  <2>2. QED
    BY <2>1, StayIsQuiet, SameBookIsQuiet, QuietStep DEF QuietAudit
<1>14. ASSUME Crash
       PROVE  AuditInv'
  <2>1. UNCHANGED <<clock, audit, orders>>
    BY <1>14 DEF Crash
  <2>2. \A e \in Desk : QuietDesk(e)
    BY <1>14 DEF Crash, QuietDesk
  <2>3. QED
    BY <2>1, <2>2, SameBookIsQuiet, QuietStep DEF QuietAudit
<1>15. QED
  BY <1>1, <1>2, <1>3, <1>4, <1>5, <1>6, <1>7, <1>8, <1>9, <1>10, <1>11, <1>12,
     <1>13, <1>14, AuditStart, AuditLogs
  DEF Next, Cycle, Gates, Trade, Kill, Environment

\* The audit log can be believed, for any number of desks, across lost answers,
\* refusals, halts and crashes: an "order" row names an order the venue took, and a
\* pass with a halt row sent nothing (engine.py:91-110 and 186-212).
THEOREM AuditLogIsTrue == Spec => []AuditIsTrue
<1>1. Init => AuditInv
  BY DEF Init, BrokerInit, AuditInv, StampsFresh, NothingSent, NotHalted, Sent,
         AuditIsTrue
<1>2. AuditInv => AuditIsTrue
  BY DEF AuditInv
<1>3. QED
  BY <1>1, <1>2, AuditStep, TypeCorrect, PTL DEF Spec

-----------------------------------------------------------------------------
(* Where an order leaves its name: held and working shares. *)

\* Orders have ids of their own.
OrdersApart ==
  /\ IsFiniteSet(orders)
  /\ \A o, p \in orders : ClientOrderId(o) = ClientOrderId(p) => o = p

\* A set of orders works a whole number of shares.
LEMMA SharesType ==
  ASSUME NEW S \in SUBSET Order, IsFiniteSet(S)
  PROVE  Shares(S) \in Int
<1> DEFINE f == [o \in S |-> Signed(o.side, Remaining(o))]
<1>1. \A o \in S : f[o] \in Int
  BY BrokerAssumption DEF Order, Signed, Remaining, Quantity
<1> HIDE DEF f
<1>2. SumFunctionOnSet(f, S) \in Int
  BY <1>1, SumType DEF Ints
<1> QED BY <1>2 DEF Shares, f

\* One more order adds the shares it still works.
LEMMA SharesAdd ==
  ASSUME NEW S \in SUBSET Order, IsFiniteSet(S), NEW o \in Order, o \notin S
  PROVE  Shares(S \cup {o}) = Signed(o.side, Remaining(o)) + Shares(S)
<1> DEFINE f == [x \in S |-> Signed(x.side, Remaining(x))]
           g == [x \in S \cup {o} |-> Signed(x.side, Remaining(x))]
<1>1. \A x \in S \cup {o} : g[x] \in Int
  BY BrokerAssumption DEF Order, Signed, Remaining, Quantity
<1>2. \A x \in S : f[x] = g[x]
  OBVIOUS
<1>3. g[o] = Signed(o.side, Remaining(o))
  OBVIOUS
<1>4. Shares(S) = SumFunctionOnSet(f, S) /\ Shares(S \cup {o}) = SumFunctionOnSet(g, S \cup {o})
  BY DEF Shares
<1> HIDE DEF f, g
<1>5. SumFunctionOnSet(f, S) = SumFunctionOnSet(g, S)
  BY <1>2, SumAgree
<1>6. SumFunctionOnSet(g, S \cup {o}) = g[o] + SumFunctionOnSet(g, S)
  BY <1>1, SumAdd DEF Ints
<1> QED BY <1>3, <1>4, <1>5, <1>6

\* The open orders of a name.
OpenIn(s) == {o \in OpenOrders : o.sym = s}

\* What works in a name is the sum over its open orders.
LEMMA OpenTyped ==
  ASSUME BrokerTypeOK, OrdersApart, NEW s
  PROVE  /\ OpenIn(s) \in SUBSET Order /\ IsFiniteSet(OpenIn(s)) /\ Working(s) = Shares(OpenIn(s))
         /\ Working(s) \in Int
<1>1. OpenIn(s) \subseteq orders /\ OpenIn(s) \in SUBSET Order
  BY DEF OpenIn, OpenOrders, BrokerTypeOK
<1>2. IsFiniteSet(OpenIn(s))
  BY <1>1, FS_Subset DEF OrdersApart
<1>3. Working(s) = Shares(OpenIn(s))
  BY DEF Working, OpenIn
<1> QED BY <1>1, <1>2, <1>3, SharesType

\* An order that is taken works in its name alone.
LEMMA TakeWorks ==
  ASSUME BrokerTypeOK, OrdersApart, NEW o \in Order, o.status = "working", o.filled = 0,
         Take(o), ~IsDuplicate(o)
  PROVE  /\ OrdersApart'
         /\ \A s : s # o.sym => Working(s)' = Working(s)
         /\ Working(o.sym)' = Working(o.sym) + Signed(o.side, o.qty)
<1>1. orders' = orders \cup {o} /\ o \notin orders
  BY DEF Take, IsDuplicate
<1>2. OrdersApart'
  <2>1. IsFiniteSet(orders \cup {o})
    BY FS_AddElement DEF OrdersApart
  <2>2. \A p, q \in orders \cup {o} : ClientOrderId(p) = ClientOrderId(q) => p = q
    BY DEF OrdersApart, IsDuplicate
  <2> QED BY <1>1, <2>1, <2>2 DEF OrdersApart, ClientOrderId
<1>3. ASSUME NEW s, s # o.sym PROVE Working(s)' = Working(s)
  <2>1. OpenIn(s)' = OpenIn(s)
    BY <1>1, <1>3 DEF OpenIn, OpenOrders, IsOpen
  <2> QED BY <2>1 DEF Working, OpenIn, Shares, Remaining
<1>4. OpenIn(o.sym)' = OpenIn(o.sym) \cup {o} /\ o \notin OpenIn(o.sym)
  BY <1>1 DEF OpenIn, OpenOrders, IsOpen
<1>5. Shares(OpenIn(o.sym) \cup {o}) = Signed(o.side, Remaining(o)) + Shares(OpenIn(o.sym))
  BY <1>4, OpenTyped, SharesAdd
<1>6. Remaining(o) = o.qty /\ Signed(o.side, o.qty) \in Int
  BY BrokerAssumption DEF Remaining, Signed, Order, Quantity
<1>7. Working(o.sym)' = Shares(OpenIn(o.sym) \cup {o})
  BY <1>4 DEF Working, OpenIn, Shares, Remaining
<1> QED BY <1>2, <1>3, <1>5, <1>6, <1>7, OpenTyped

\* Replacing an open order by what became of it moves only what works in its name.
LEMMA ReplaceWorks ==
  ASSUME BrokerTypeOK, OrdersApart, NEW o \in orders, IsOpen(o), NEW p \in Order,
         ClientOrderId(p) = ClientOrderId(o), p.sym = o.sym,
         orders' = (orders \ {o}) \cup {p}
  PROVE  /\ OrdersApart' /\ Placed = {}
         /\ \A s : s # o.sym => Working(s)' = Working(s)
         /\ Working(o.sym)' = (Working(o.sym) - Signed(o.side, Remaining(o)))
                              + (IF IsOpen(p) THEN Signed(p.side, Remaining(p)) ELSE 0)
<1>0. o \in Order
  BY DEF BrokerTypeOK
<1>1. p \notin orders \ {o}
  BY DEF OrdersApart
<1>2. OrdersApart'
  <2>1. IsFiniteSet((orders \ {o}) \cup {p})
    BY FS_AddElement, FS_RemoveElement DEF OrdersApart
  <2>2. \A q, r \in (orders \ {o}) \cup {p} : ClientOrderId(q) = ClientOrderId(r) => q = r
    BY DEF OrdersApart
  <2> QED BY <2>1, <2>2 DEF OrdersApart, ClientOrderId
<1>3. Placed = {}
  BY DEF Placed
<1>4. ASSUME NEW s, s # o.sym PROVE Working(s)' = Working(s)
  <2>1. OpenIn(s)' = OpenIn(s)
    BY <1>4 DEF OpenIn, OpenOrders, IsOpen
  <2> QED BY <2>1 DEF Working, OpenIn, Shares, Remaining
<1> DEFINE R == OpenIn(o.sym) \ {o}
<1>5. o \in OpenIn(o.sym) /\ o \notin R /\ OpenIn(o.sym) = R \cup {o} /\ p \notin R
  BY <1>1 DEF OpenIn, OpenOrders
<1>6. R \in SUBSET Order /\ IsFiniteSet(R)
  BY OpenTyped, FS_RemoveElement
<1>7. Shares(R) \in Int /\ Working(o.sym) = Signed(o.side, Remaining(o)) + Shares(R)
  BY <1>0, <1>5, <1>6, SharesAdd, SharesType, OpenTyped
<1>8. OpenIn(o.sym)' = IF IsOpen(p) THEN R \cup {p} ELSE R
  BY DEF OpenIn, OpenOrders, IsOpen
<1>9. Working(o.sym)' = Shares(OpenIn(o.sym)')
  BY DEF Working, OpenIn, Shares, Remaining
<1>10. Signed(o.side, Remaining(o)) \in Int /\ Signed(p.side, Remaining(p)) \in Int
  BY <1>0, BrokerAssumption DEF Order, Signed, Remaining, Quantity
<1>11. Shares(R \cup {p}) = Signed(p.side, Remaining(p)) + Shares(R)
  BY <1>5, <1>6, SharesAdd
<1> HIDE DEF R
<1>12. Working(o.sym)' = Shares(R) + (IF IsOpen(p) THEN Signed(p.side, Remaining(p)) ELSE 0)
  <2>1. CASE IsOpen(p)
    BY <1>7, <1>8, <1>9, <1>10, <1>11, <2>1
  <2>2. CASE ~IsOpen(p)
    BY <1>7, <1>8, <1>9, <2>2
  <2> QED BY <2>1, <2>2
<1>13. (IF IsOpen(p) THEN Signed(p.side, Remaining(p)) ELSE 0) \in Int
  BY <1>10
<1>14. Working(o.sym)' = (Working(o.sym) - Signed(o.side, Remaining(o)))
                              + (IF IsOpen(p) THEN Signed(p.side, Remaining(p)) ELSE 0)
  BY <1>7, <1>10, <1>12, <1>13
<1> QED BY <1>2, <1>3, <1>4, <1>14

\* A fill moves shares from working to held.
LEMMA FillKeepsEffective ==
  ASSUME BrokerTypeOK, OrdersApart, NEW o \in orders, NEW n \in 1 .. Remaining(o), Fill(o, n)
  PROVE  /\ OrdersApart' /\ Placed = {}
         /\ \A s \in Symbol : /\ Effective(s)' = Effective(s)
                              /\ s # o.sym => position'[s] = position[s]
<1> DEFINE p == [o EXCEPT !.filled = @ + n,
                          !.status = IF o.filled + n = o.qty THEN "done" ELSE @]
<1>1. o \in Order /\ o.sym \in Symbol
  BY DEF BrokerTypeOK, Order
<1>2. p \in Order /\ ClientOrderId(p) = ClientOrderId(o) /\ p.sym = o.sym /\ p.side = o.side
      /\ p.qty = o.qty /\ p.filled = o.filled + n
      /\ (IsOpen(p) <=> o.filled + n # o.qty)
  <2>1. o.qty \in 1 .. MaxShares /\ o.filled \in 0 .. MaxShares /\ n \in 1 .. (o.qty - o.filled)
    BY <1>1 DEF Order, Quantity, Remaining
  <2>2. o.filled + n \in 0 .. MaxShares
    BY <2>1, BrokerAssumption
  <2>3. p.filled = o.filled + n /\ p.status = IF o.filled + n = o.qty THEN "done" ELSE o.status
    BY <1>1 DEF Order
  <2>4. /\ p.kind = o.kind /\ p.by = o.by /\ p.asOf = o.asOf /\ p.sym = o.sym /\ p.side = o.side
        /\ p.qty = o.qty
    BY <1>1 DEF Order
  <2>5. p \in Order
    BY <1>1, <2>2 DEF Order, OrderStatus
  <2>6. IsOpen(p) <=> o.filled + n # o.qty
    BY <2>3 DEF IsOpen, Fill
  <2> QED BY <2>3, <2>4, <2>5, <2>6 DEF ClientOrderId
<1>3. orders' = (orders \ {o}) \cup {p} /\ IsOpen(o)
      /\ position' = [position EXCEPT ![o.sym] = @ + Signed(o.side, n)]
  BY DEF Fill
<1> HIDE DEF p
<1>4. /\ OrdersApart' /\ Placed = {}
      /\ \A s : s # o.sym => Working(s)' = Working(s)
      /\ Working(o.sym)' = (Working(o.sym) - Signed(o.side, Remaining(o)))
                           + (IF IsOpen(p) THEN Signed(p.side, Remaining(p)) ELSE 0)
  BY <1>2, <1>3, ReplaceWorks
<1>5. Working(o.sym)' = Working(o.sym) - Signed(o.side, n)
  <2>1. Working(o.sym) \in Int
    BY OpenTyped
  <2>2. o.qty \in Nat /\ o.filled \in Nat /\ n \in Nat
    BY <1>1, BrokerAssumption DEF Order, Quantity, Remaining
  <2>3. (IF IsOpen(p) THEN Signed(p.side, Remaining(p)) ELSE 0)
           = Signed(o.side, Remaining(o)) - Signed(o.side, n)
    BY <1>2, <2>2 DEF Signed, Remaining
  <2>4. Signed(o.side, Remaining(o)) \in Int /\ Signed(o.side, n) \in Int
    BY <2>2 DEF Signed, Remaining
  <2> QED BY <1>4, <2>1, <2>3, <2>4
<1>6. ASSUME NEW s \in Symbol
      PROVE  Effective(s)' = Effective(s) /\ (s # o.sym => position'[s] = position[s])
  <2>1. CASE s = o.sym
    <3>1. position[s] \in Int /\ position'[s] = position[s] + Signed(o.side, n)
      BY <1>3, <2>1 DEF BrokerTypeOK
    <3>2. Working(s) \in Int /\ Signed(o.side, n) \in Int
      BY <1>1, BrokerAssumption, OpenTyped DEF Signed, Order, Quantity, Remaining
    <3>3. Working(s)' = Working(s) - Signed(o.side, n)
      BY <1>5, <2>1
    <3>4. Effective(s)' = position'[s] + Working(s)'
      BY DEF Effective
    <3> QED BY <2>1, <3>1, <3>2, <3>3, <3>4 DEF Effective
  <2>2. CASE s # o.sym
    <3>1. position'[s] = position[s] /\ Working(s)' = Working(s)
      BY <1>3, <1>4, <2>2 DEF BrokerTypeOK
    <3> QED BY <2>2, <3>1 DEF Effective
  <2> QED BY <2>1, <2>2
<1> QED BY <1>4, <1>6

\* Asking for a cancel leaves the order open under the id it has.
LEMMA CancelKeepsEffective ==
  ASSUME BrokerTypeOK, OrdersApart, NEW o \in orders, o.status = "working", RequestCancel(o)
  PROVE  OrdersApart' /\ Placed = {}
<1> DEFINE p == [o EXCEPT !.status = "cancelling"]
<1>1. p \in Order /\ ClientOrderId(p) = ClientOrderId(o) /\ p.sym = o.sym /\ IsOpen(o)
  BY DEF BrokerTypeOK, Order, ClientOrderId, IsOpen, OrderStatus
<1>2. orders' = (orders \ {o}) \cup {p}
  BY DEF RequestCancel
<1> HIDE DEF p
<1> QED BY <1>1, <1>2, ReplaceWorks

\* A drop changes the count of its own name alone.
LEMMA DropKeepsOthers ==
  ASSUME BrokerTypeOK, OrdersApart, NEW o \in orders, Drop(o)
  PROVE  /\ OrdersApart' /\ Placed = {} /\ position' = position
         /\ \A s : s # o.sym => Effective(s)' = Effective(s)
<1> DEFINE p == [o EXCEPT !.status = "done"]
<1>1. p \in Order /\ ClientOrderId(p) = ClientOrderId(o) /\ p.sym = o.sym /\ IsOpen(o)
  BY DEF BrokerTypeOK, Order, ClientOrderId, IsOpen, OrderStatus, Drop
<1>2. orders' = (orders \ {o}) \cup {p} /\ position' = position
  BY DEF Drop
<1> HIDE DEF p
<1>3. /\ OrdersApart' /\ Placed = {}
      /\ \A s : s # o.sym => Working(s)' = Working(s)
  BY <1>1, <1>2, ReplaceWorks
<1> QED BY <1>2, <1>3 DEF Effective

-----------------------------------------------------------------------------
(* Orders against their target, for the one desk that trades the account. *)

\* Order p of desk d leaves what will be held on the near side of the target.
Aimed(d, p) ==
  LET after == Effective(p.sym) + Signed(p.side, p.qty)
  IN  IF p.side = "buy" THEN after * TargetDen(d, p.sym) <= TargetNum(d, p.sym)
                        ELSE after * TargetDen(d, p.sym) >= TargetNum(d, p.sym)

\* The stages at which a desk counts on what it read.
Informed == {"positions", "submit", "sent"}

\* What a desk that read positions, or holds a plan, knows of the account.
Knows(d) ==
  /\ pc[d] = "positions" => \A s \in Symbol \ moved[d] : seen[d][s] = position[s]
  /\ pc[d] \in {"submit", "sent"} =>
       /\ \A p, q \in plan[d] : p.sym = q.sym => p = q
       /\ \A p \in plan[d] : p.sym \notin moved[d] => Aimed(d, p)

\* Books are in weights and quotes in prices.
Priced ==
  /\ DOMAIN want = Desk /\ DOMAIN quote = Desk
  /\ \A d \in Desk : /\ \A s \in DOMAIN want[d] : want[d][s] \in Int
                     /\ \A s \in DOMAIN quote[d] : quote[d][s] \in Nat

\* The inductive strengthening of NeverPastTarget.
AimInv == /\ OrdersApart /\ Priced
          /\ \A d \in Desk : Knows(d)

\* One desk trades the account.
OneDesk == \A d, e \in Desk : d = e

\* What NeverPastTarget says of a step.
Kept == \A o \in Placed : (o.kind = "rebalance" /\ o.sym \notin moved[o.by]) => Aimed(o.by, o)

\* The property, in the words of this proof.
LEMMA SameDesk ==
  NeverPastTarget <=> [][Kept]_vars
BY DEF NeverPastTarget, Kept, Aimed

\* A desk that ends its pass knows nothing.
LEMMA EndKnows ==
  ASSUME TypeOK, OneDesk, Priced, NEW d \in Desk, EndPass(d)
  PROVE  Priced' /\ \A e \in Desk : Knows(e)'
<1>1. pc'[d] = "idle" /\ \A e \in Desk : e = d
  BY DEF TypeOK, EndPass, OneDesk
<1>2. Priced'
  BY DEF Priced, EndPass, NoBook
<1> QED BY <1>1, <1>2 DEF Knows

\* Neither does one that has not read the positions.
LEMMA EarlyKnows ==
  ASSUME OneDesk, NEW d \in Desk, pc'[d] \notin Informed
  PROVE  \A e \in Desk : Knows(e)'
BY DEF Knows, OneDesk, Informed

\* Without an order placed there is nothing to keep.
LEMMA NonePlaced ==
  ASSUME OrdersApart, UNCHANGED orders
  PROVE  OrdersApart' /\ Placed = {} /\ \A s : Working(s)' = Working(s)
<1>1. OrdersApart'
  BY DEF OrdersApart, ClientOrderId
<1>2. \A s : Working(s)' = Working(s)
  BY DEF Working, Shares, OpenOrders, IsOpen, Remaining
<1> QED BY <1>1, <1>2 DEF Placed

\* Whole shares short of a gap never cross it.
LEMMA WholeShares ==
  ASSUME NEW g \in Nat, NEW u \in Nat \ {0}
  PROVE  g \div u \in Nat /\ (g \div u) * u <= g
<1>1. g = u * (g \div u) + (g % u) /\ g % u \in 0 .. (u - 1) /\ g \div u \in Int
  BY SMT
<1>2. g \div u >= 0
  BY SMT
<1>3. (g \div u) * u = u * (g \div u)
  BY <1>1
<1> QED BY <1>1, <1>2, <1>3

\* The plan made of a holding aims: one order a name, none past the target.
LEMMA PlanAims ==
  ASSUME TypeOK, Priced, NEW d \in Desk, NEW cur \in [Symbol -> Int]
  PROVE  /\ \A p, q \in Planned(d, cur) : p.sym = q.sym => p = q
         /\ \A p \in Planned(d, cur) :
              LET after == cur[p.sym] + Signed(p.side, p.qty)
              IN  IF p.side = "buy" THEN after * TargetDen(d, p.sym) <= TargetNum(d, p.sym)
                                    ELSE after * TargetDen(d, p.sym) >= TargetNum(d, p.sym)
<1>1. \A p, q \in Planned(d, cur) : p.sym = q.sym => p = q
  BY DEF Planned
<1>2. ASSUME NEW p \in Planned(d, cur)
      PROVE  LET after == cur[p.sym] + Signed(p.side, p.qty)
              IN  IF p.side = "buy" THEN after * TargetDen(d, p.sym) <= TargetNum(d, p.sym)
                                    ELSE after * TargetDen(d, p.sym) >= TargetNum(d, p.sym)
  <2> DEFINE s == p.sym
             u == TargetDen(d, s)
             goal == TargetNum(d, s)
             c == cur[s]
             g == Gap(d, s, c)
             n == Abs(g) \div u
  <2>1. /\ s \in Symbol /\ s \in DOMAIN want[d] /\ s \in DOMAIN quote[d] /\ quote[d][s] > 0
        /\ p.side = (IF g > 0 THEN "buy" ELSE "sell") /\ p.qty = n /\ p.side \in Side
    BY DEF Planned, Tradable
  <2>2. Deployable(d) \in Nat
    BY ExecutionAssumption DEF Deployable, Smaller, TypeOK, Reading
  <2>3. want[d][s] \in Int /\ quote[d][s] \in Nat \ {0} /\ c \in Int
    BY <2>1 DEF Priced
  <2>4. u \in Nat \ {0}
    BY <2>3, ExecutionAssumption DEF TargetDen
  <2>5. goal \in Int
    BY <2>2, <2>3 DEF TargetNum
  <2>6. g = goal - c * u
    BY DEF Gap
  <2>7. goal = TargetNum(d, p.sym) /\ u = TargetDen(d, p.sym) /\ c = cur[p.sym]
    OBVIOUS
  <2> HIDE DEF u, goal, c, g, n
  <2>8. c * u \in Int /\ g \in Int /\ Abs(g) \in Nat
    BY <2>3, <2>4, <2>5, <2>6 DEF Abs
  <2>9. n \in Nat /\ n * u <= Abs(g)
    BY <2>4, <2>8, WholeShares DEF n
  <2>10. n * u \in Int /\ (c + n) * u = c * u + n * u /\ (c + (-n)) * u = c * u - n * u
    BY <2>3, <2>4, <2>9
  <2>11. CASE g > 0
    <3>1. n * u <= g
      BY <2>8, <2>9, <2>11 DEF Abs
    <3>2. (c + n) * u <= goal
      BY <2>5, <2>6, <2>8, <2>10, <3>1
    <3>3. p.side = "buy" /\ Signed(p.side, p.qty) = n
      BY <2>1, <2>11 DEF Signed
    <3> QED BY <2>7, <3>2, <3>3
  <2>12. CASE ~(g > 0)
    <3>1. n * u <= -g
      BY <2>8, <2>9, <2>12 DEF Abs
    <3>2. (c + (-n)) * u >= goal
      BY <2>5, <2>6, <2>8, <2>10, <3>1
    <3>3. p.side = "sell" /\ Signed(p.side, p.qty) = -n
      BY <2>1, <2>12 DEF Signed
    <3> QED BY <2>7, <3>2, <3>3
  <2> QED BY <2>11, <2>12
<1> QED BY <1>1, <1>2

\* Sending an order of the plan: it aims, and the rest of the plan still does.
LEMMA SendAims ==
  ASSUME TypeOK, AimInv, OneDesk, NEW d \in Desk, pc[d] = "submit", NEW p \in plan[d],
         ~IsDuplicate(AsOrder(d, p)), Take(AsOrder(d, p))
  PROVE  /\ OrdersApart' /\ Kept
         /\ \A s : s # p.sym => Working(s)' = Working(s)
<1> DEFINE o == AsOrder(d, p)
<1>1. /\ o \in Order /\ o.status = "working" /\ o.filled = 0 /\ o.sym = p.sym
      /\ o.side = p.side /\ o.qty = p.qty /\ o.by = d
  <2>1. p.sym \in Symbol /\ p.side \in Side /\ p.qty \in Quantity /\ asOf[d] \in Nat
    BY DEF TypeOK
  <2> QED BY <2>1, BrokerAssumption DEF AsOrder, NewOrder, Order, Kind, OrderStatus, Quantity
<1>2. ~IsDuplicate(o) /\ Take(o) /\ BrokerTypeOK /\ OrdersApart
  BY DEF TypeOK, AimInv
<1>3. p.sym \notin moved[d] => Aimed(d, p)
  BY DEF AimInv, Knows
<1> HIDE DEF o
<1>4. OrdersApart' /\ \A s : s # p.sym => Working(s)' = Working(s)
  BY <1>1, <1>2, TakeWorks
<1>5. Placed \subseteq {o}
  BY <1>2 DEF Placed, Take
<1>6. Aimed(d, p) => Aimed(o.by, o)
  BY <1>1 DEF Aimed
<1>7. Kept
  BY <1>1, <1>3, <1>5, <1>6 DEF Kept
<1> QED BY <1>4, <1>7

\* What a step has to show.
Aims == AimInv' /\ Kept

\* Before the engine: stamps, prices, cancels and the book.
LEMMA CycleAims ==
  ASSUME TypeOK, AimInv, OneDesk, NEW d \in Desk, Cycle(d)
  PROVE  Aims
<1>0. OrdersApart /\ Priced
  BY DEF AimInv
<1>1. CASE Start(d)
  <2>1. OrdersApart' /\ Placed = {}
    BY <1>0, <1>1, NonePlaced DEF Start, broker
  <2>2. Priced'
    BY <1>0, <1>1, ExecutionAssumption DEF Start, BeginPass, Priced
  <2>3. pc'[d] \notin Informed
    BY <1>1 DEF Start, BeginPass, Goto, TypeOK, Informed
  <2> QED BY <2>1, <2>2, <2>3, EarlyKnows DEF Aims, AimInv, Kept
<1>2. CASE CancelStale(d)
  <2>1. PICK id \in todo[d], o \in orders :
           \/ o.status = "working" /\ RequestCancel(o)
              /\ UNCHANGED <<pc, input, governor, working, moved>>
           \/ EndPass(d) /\ UNCHANGED orders
    BY <1>2 DEF CancelStale
  <2>2. pc[d] = "cancelling"
    BY <1>2 DEF CancelStale
  <2>3. CASE o.status = "working" /\ RequestCancel(o)
             /\ UNCHANGED <<pc, input, governor, working, moved>>
    <3>1. OrdersApart' /\ Placed = {}
      BY <1>0, <2>3, CancelKeepsEffective DEF TypeOK
    <3>2. Priced'
      BY <1>0, <2>3 DEF Priced, input
    <3>3. pc'[d] \notin Informed
      BY <2>2, <2>3 DEF Informed
    <3> QED BY <3>1, <3>2, <3>3, EarlyKnows DEF Aims, AimInv, Kept
  <2>4. CASE EndPass(d) /\ UNCHANGED orders
    <3>1. OrdersApart' /\ Placed = {}
      BY <1>0, <2>4, NonePlaced
    <3> QED BY <1>0, <2>4, <3>1, EndKnows DEF Aims, AimInv, Kept
  <2> QED BY <2>1, <2>3, <2>4
<1>3. CASE Score(d)
  <2>1. OrdersApart' /\ Placed = {}
    BY <1>0, <1>3, NonePlaced DEF Score, broker
  <2>2. CASE EndPass(d)
    BY <1>0, <2>1, <2>2, EndKnows DEF Aims, AimInv, Kept
  <2>3. CASE ~EndPass(d)
    <3>1. PICK b \in Book[d] : \E names \in SUBSET Symbol :
             /\ want' = [want EXCEPT ![d] = [s \in names |-> IF s \in DOMAIN b THEN b[s] ELSE 0]]
             /\ Goto(d, "building") /\ UNCHANGED quote
      <4>1. PICK b \in Book[d] :
              LET held == IF d \in ManagesHeld
                          THEN {s \in Symbol \ Reserved[d] : position[s] # 0}
                          ELSE {}
                  names == DOMAIN b \cup (held \cap DOMAIN quote[d])
              IN  /\ want' = [want EXCEPT ![d] =
                         [s \in names |-> IF s \in DOMAIN b THEN b[s] ELSE 0]]
                  /\ Goto(d, "building") /\ UNCHANGED quote
        BY <1>3, <2>3 DEF Score
      <4>2. DOMAIN b \subseteq Symbol
        BY ExecutionAssumption
      <4> QED BY <4>1, <4>2
    <3>2. \A s \in DOMAIN b : b[s] \in Int
      BY ExecutionAssumption
    <3>3. Priced'
      BY <1>0, <3>1, <3>2 DEF Priced
    <3>4. pc'[d] \notin Informed
      BY <3>1 DEF Goto, TypeOK, Informed
    <3> QED BY <2>1, <3>3, <3>4, EarlyKnows DEF Aims, AimInv, Kept
  <2> QED BY <2>2, <2>3
<1> QED BY <1>1, <1>2, <1>3 DEF Cycle

\* The gates read no positions.
LEMMA GatesAim ==
  ASSUME TypeOK, AimInv, OneDesk, NEW d \in Desk, Gates(d)
  PROVE  Aims
<1>0. OrdersApart /\ Priced
  BY DEF AimInv
<1>1. OrdersApart' /\ Placed = {}
  BY <1>0, NonePlaced DEF Gates, Build, Refuse, ReadAccount, SaveState, HaltDrawdown, HaltDailyLoss,
     Halt, RefuseBook, broker
<1>2. \/ EndPass(d)
      \/ pc'[d] \notin Informed /\ UNCHANGED <<want, quote>>
  BY DEF Gates, Build, Refuse, ReadAccount, SaveState, HaltDrawdown, HaltDailyLoss,
     Halt, RefuseBook, Goto, input, TypeOK, Informed
<1>3. CASE EndPass(d)
  BY <1>0, <1>1, <1>3, EndKnows DEF Aims, AimInv, Kept
<1>4. CASE pc'[d] \notin Informed /\ UNCHANGED <<want, quote>>
  BY <1>0, <1>1, <1>4, EarlyKnows DEF Aims, AimInv, Kept, Priced
<1> QED BY <1>2, <1>3, <1>4

\* The orders of a flattening are not of a rebalance.
LEMMA KillAims ==
  ASSUME TypeOK, AimInv, OneDesk, NEW d \in Desk, Kill(d)
  PROVE  Aims
<1>0. OrdersApart /\ Priced
  BY DEF AimInv
<1>1. Priced' /\ pc'[d] \notin Informed
  BY <1>0 DEF Kill, Flatten, FlattenNext, FlattenDone, Goto, input, TypeOK, Informed, Priced
<1>2. OrdersApart' /\ Kept
  <2>1. CASE UNCHANGED orders
    BY <1>0, <2>1, NonePlaced DEF Kept
  <2>2. CASE FlattenNext(d)
    <3>1. PICK h \in todo[d] :
            LET o == NewOrder("flatten", d, asOf[d], h[1],
                              IF h[2] > 0 THEN "sell" ELSE "buy", Abs(h[2]))
            IN  Abs(h[2]) <= MaxShares /\ ~IsDuplicate(o) /\ Take(o)
      BY <2>2 DEF FlattenNext
    <3>2. h[1] \in Symbol /\ h[2] \in Int \ {0} /\ asOf[d] \in Nat
      BY <3>1, <2>2 DEF FlattenNext, TypeOK
    <3> DEFINE o == NewOrder("flatten", d, asOf[d], h[1],
                             IF h[2] > 0 THEN "sell" ELSE "buy", Abs(h[2]))
    <3>3. Abs(h[2]) \in Quantity
      BY <3>1, <3>2, BrokerAssumption DEF Abs, Quantity
    <3>4. o \in Order /\ o.status = "working" /\ o.filled = 0 /\ o.kind = "flatten"
      BY <3>2, <3>3, BrokerAssumption DEF NewOrder, Order, Kind, OrderStatus, Side
    <3>5. ~IsDuplicate(o) /\ Take(o)
      BY <3>1
    <3> HIDE DEF o
    <3>6. OrdersApart'
      BY <1>0, <3>4, <3>5, TakeWorks DEF TypeOK
    <3>7. Placed \subseteq {o}
      BY <3>5 DEF Placed, Take
    <3> QED BY <3>4, <3>6, <3>7 DEF Kept
  <2> QED BY <2>1, <2>2 DEF Kill, Flatten, FlattenDone, broker
<1> QED BY <1>1, <1>2, EarlyKnows DEF Aims, AimInv

\* The reads: positions, then open orders, and the plan made of the two.
LEMMA ReadsAim ==
  ASSUME TypeOK, AimInv, OneDesk, NEW d \in Desk, ReadPositions(d) \/ ReadOpenOrders(d)
  PROVE  Aims
<1>0. OrdersApart /\ Priced /\ \A e \in Desk : e = d
  BY DEF AimInv, OneDesk
<1>1. OrdersApart' /\ Placed = {} /\ position' = position /\ \A s : Working(s)' = Working(s)
  BY <1>0, NonePlaced DEF ReadPositions, ReadOpenOrders, broker
<1>2. Priced'
  BY <1>0 DEF Priced, ReadPositions, ReadOpenOrders, input
<1>3. CASE ReadPositions(d)
  <2>1. pc'[d] = "positions" /\ seen'[d] = position
    BY <1>3 DEF ReadPositions, Goto, TypeOK
  <2>2. Knows(d)'
    BY <1>1, <2>1 DEF Knows
  <2> QED BY <1>0, <1>1, <1>2, <2>2 DEF Aims, AimInv, Kept
<1>4. CASE ReadOpenOrders(d)
  <2> DEFINE cur == [s \in Symbol |-> seen[d][s] + Working(s)]
  <2>1. /\ pc[d] = "positions" /\ pc'[d] = "submit" /\ plan'[d] = Planned(d, cur)
        /\ UNCHANGED <<want, quote, reading, moved, orders, position>>
    BY <1>4 DEF ReadOpenOrders, Goto, TypeOK, input, governor, broker
  <2>2. cur \in [Symbol -> Int] /\ seen[d] \in [Symbol -> Int]
    <3>1. \A s \in Symbol : Working(s) \in Int /\ seen[d][s] \in Int
      BY <1>0, OpenTyped DEF TypeOK
    <3> QED BY <3>1 DEF TypeOK
  <2>3. \A s \in Symbol \ moved[d] : cur[s] = Effective(s)
    BY <2>1 DEF AimInv, Knows, Effective
  <2> HIDE DEF cur
  <2>4. \A s : Effective(s)' = Effective(s)
    BY <1>1 DEF Effective
  <2>5. \A p, q \in plan'[d] : p.sym = q.sym => p = q
    BY <1>0, <2>1, <2>2, PlanAims
  <2>6. ASSUME NEW p \in plan'[d], p.sym \notin moved'[d] PROVE Aimed(d, p)'
    <3>1. p \in Planned(d, cur) /\ p.sym \in Symbol
      BY <2>1, <2>6 DEF Planned
    <3>2. cur[p.sym] = Effective(p.sym)
      BY <2>1, <2>3, <2>6, <3>1
    <3>3. Aimed(d, p)
      BY <1>0, <2>2, <3>1, <3>2, PlanAims DEF Aimed
    <3> QED BY <2>1, <2>4, <3>3 DEF Aimed, TargetDen, TargetNum, Deployable
  <2>7. Knows(d)'
    BY <2>1, <2>5, <2>6 DEF Knows
  <2> QED BY <1>0, <1>1, <1>2, <2>7 DEF Aims, AimInv, Kept
<1> QED BY <1>3, <1>4

\* A desk keeps what it knows while its plan shrinks and nothing else moves.
LEMMA StillKnows ==
  ASSUME TypeOK, AimInv, OneDesk, NEW d \in Desk, pc[d] \in {"submit", "sent"},
         pc'[d] \in {"submit", "sent"}, plan'[d] \subseteq plan[d],
         UNCHANGED <<want, quote, reading, moved>>,
         \A p \in plan'[d] : Effective(p.sym)' = Effective(p.sym)
  PROVE  Priced' /\ \A e \in Desk : Knows(e)'
<1>1. Priced' /\ \A e \in Desk : e = d
  BY DEF AimInv, Priced, OneDesk
<1>2. Knows(d)
  BY DEF AimInv
<1>3. \A p \in plan'[d] : Aimed(d, p) => Aimed(d, p)'
  BY DEF Aimed, TargetDen, TargetNum, Deployable
<1>4. Knows(d)'
  BY <1>2, <1>3 DEF Knows
<1> QED BY <1>1, <1>4

\* The submit loop, order by order.
LEMMA SubmitsAim ==
  ASSUME TypeOK, AimInv, OneDesk, NEW d \in Desk,
         \/ SkipInsane(d) \/ RateCapped(d) \/ SubmitRejected(d)
         \/ SubmitAccepted(d) \/ AuditOrder(d) \/ SubmitLost(d) \/ Finish(d)
  PROVE  Aims
<1>0. OrdersApart /\ Priced
  BY DEF AimInv
<1>1. CASE SkipInsane(d) \/ RateCapped(d) \/ SubmitRejected(d) \/ AuditOrder(d)
  <2>1. OrdersApart' /\ Placed = {} /\ \A s : Effective(s)' = Effective(s)
    BY <1>0, <1>1, NonePlaced DEF SkipInsane, RateCapped, SubmitRejected, AuditOrder, broker, Effective
  <2>2. pc[d] \in {"submit", "sent"} /\ pc'[d] \in {"submit", "sent"}
    BY <1>1 DEF SkipInsane, RateCapped, SubmitRejected, AuditOrder, Goto, TypeOK
  <2>3. plan'[d] \subseteq plan[d]
    BY <1>1 DEF SkipInsane, RateCapped, SubmitRejected, AuditOrder, Unplan, working, TypeOK
  <2>4. UNCHANGED <<want, quote, reading, moved>>
    BY <1>1 DEF SkipInsane, RateCapped, SubmitRejected, AuditOrder, input, governor
  <2> QED BY <2>1, <2>2, <2>3, <2>4, StillKnows DEF Aims, AimInv, Kept
<1>2. CASE SubmitAccepted(d)
  <2>1. PICK p \in plan[d] : /\ ~IsDuplicate(AsOrder(d, p)) /\ Take(AsOrder(d, p))
                             /\ Unplan(d, p)
    BY <1>2 DEF SubmitAccepted, NextPlanned
  <2>2. pc[d] = "submit" /\ pc'[d] = "sent" /\ UNCHANGED <<want, quote, reading, moved, position>>
    BY <1>2 DEF SubmitAccepted, Goto, TypeOK, input, governor
  <2>3. OrdersApart' /\ Kept /\ \A s : s # p.sym => Working(s)' = Working(s)
    BY <2>1, <2>2, SendAims
  <2>4. plan'[d] = plan[d] \ {p}
    BY <2>1 DEF Unplan, TypeOK
  <2>5. \A q \in plan'[d] : q.sym # p.sym
    BY <2>2, <2>4 DEF AimInv, Knows
  <2>6. \A q \in plan'[d] : Effective(q.sym)' = Effective(q.sym)
    BY <2>2, <2>3, <2>5 DEF Effective
  <2> QED BY <2>2, <2>3, <2>4, <2>6, StillKnows DEF Aims, AimInv
<1>3. CASE SubmitLost(d)
  <2>1. PICK p \in plan[d] : ~IsDuplicate(AsOrder(d, p)) /\ Take(AsOrder(d, p))
    BY <1>3 DEF SubmitLost, NextPlanned
  <2>2. pc[d] = "submit" /\ EndPass(d)
    BY <1>3 DEF SubmitLost
  <2>3. OrdersApart' /\ Kept
    BY <2>1, <2>2, SendAims
  <2> QED BY <1>0, <2>2, <2>3, EndKnows DEF Aims, AimInv
<1>4. CASE Finish(d)
  <2>1. OrdersApart' /\ Placed = {} /\ EndPass(d)
    BY <1>0, <1>4, NonePlaced DEF Finish, broker
  <2> QED BY <1>0, <2>1, EndKnows DEF Aims, AimInv, Kept
<1> QED BY <1>1, <1>2, <1>3, <1>4

\* The venue: a fill moves nothing a desk knows but a name it marks as moved.
LEMMA VenueAims ==
  ASSUME TypeOK, AimInv, OneDesk, NEW d \in Desk, VenueFill \/ VenueDrop
  PROVE  Aims
<1>0. OrdersApart /\ Priced /\ Knows(d) /\ BrokerTypeOK /\ \A e \in Desk : e = d
  BY DEF AimInv, OneDesk, TypeOK
<1>1. Priced' /\ UNCHANGED <<pc, want, quote, reading, seen, plan>>
  BY <1>0 DEF VenueFill, VenueDrop, input, governor, working, Priced
<1>2. \A s \in Symbol, p \in plan[d] : (s = p.sym /\ Effective(s)' = Effective(s)) =>
         (Aimed(d, p) <=> Aimed(d, p)')
  BY <1>1 DEF Aimed, TargetDen, TargetNum, Deployable
<1>3. \A p \in plan[d] : p.sym \in Symbol
  BY DEF TypeOK
<1>4. CASE VenueFill
  <2>1. PICK o \in orders :
           /\ \E n \in 1 .. Remaining(o) : Fill(o, n)
           /\ moved' = [e \in Desk |-> IF pc[e] = "positions"
                                      THEN moved[e] \cup {o.sym} ELSE moved[e]]
    BY <1>4 DEF VenueFill, OpenOrders
  <2>2. /\ OrdersApart' /\ Placed = {}
        /\ \A s \in Symbol : /\ Effective(s)' = Effective(s)
                             /\ s # o.sym => position'[s] = position[s]
    BY <1>0, <2>1, FillKeepsEffective
  <2>3. Knows(d)'
    BY <1>0, <1>1, <1>2, <1>3, <2>1, <2>2 DEF Knows
  <2> QED BY <1>0, <1>1, <2>2, <2>3 DEF Aims, AimInv, Kept
<1>5. CASE VenueDrop
  <2>1. PICK o \in orders :
           /\ Drop(o)
           /\ moved' = [e \in Desk |-> IF pc[e] \in {"submit", "sent"}
                                      THEN moved[e] \cup {o.sym} ELSE moved[e]]
    BY <1>5 DEF VenueDrop, OpenOrders
  <2>2. /\ OrdersApart' /\ Placed = {} /\ position' = position
        /\ \A s : s # o.sym => Effective(s)' = Effective(s)
    BY <1>0, <2>1, DropKeepsOthers
  <2>3. Knows(d)'
    BY <1>0, <1>1, <1>2, <1>3, <2>1, <2>2 DEF Knows
  <2> QED BY <1>0, <1>1, <2>2, <2>3 DEF Aims, AimInv, Kept
<1> QED BY <1>4, <1>5

\* Nothing else touches what the desks count with.
LEMMA QuietAims ==
  ASSUME TypeOK, AimInv, UNCHANGED <<broker, pc, input, governor, working, moved>>
  PROVE  Aims
<1>0. OrdersApart
  BY DEF AimInv
<1>1. OrdersApart' /\ Placed = {} /\ \A s : Effective(s)' = Effective(s)
  BY <1>0, NonePlaced DEF broker, Effective
<1>2. Priced'
  BY DEF AimInv, Priced, input
<1>3. \A d \in Desk : \A p \in plan[d] : Aimed(d, p) <=> Aimed(d, p)'
  BY <1>1 DEF Aimed, TargetDen, TargetNum, Deployable, input, governor
<1>4. \A d \in Desk : Knows(d)'
  BY <1>1, <1>3 DEF AimInv, Knows, working, broker
<1> QED BY <1>1, <1>2, <1>4 DEF Aims, AimInv, Kept

\* A crash leaves no desk knowing anything.
LEMMA CrashAims ==
  ASSUME TypeOK, AimInv, Crash
  PROVE  Aims
<1>0. OrdersApart /\ UNCHANGED orders
  BY DEF AimInv, Crash, broker
<1>1. OrdersApart' /\ Placed = {}
  BY <1>0, NonePlaced
<1>2. Priced' /\ \A d \in Desk : Knows(d)'
  BY DEF Crash, Priced, Knows, NoBook
<1> QED BY <1>1, <1>2 DEF Aims, AimInv, Kept

\* For one desk, whatever the books, prices, fills, drops, aborts and crashes,
\* an order never carries its symbol past the target (engine.py:117-138).
THEOREM OrdersStopAtTarget ==
  ASSUME OneDesk
  PROVE  Spec => NeverPastTarget
<1>1. Init => AimInv
  <2>1. Init => OrdersApart
    BY FS_EmptySet DEF Init, BrokerInit, OrdersApart
  <2> QED BY <2>1 DEF Init, AimInv, Priced, Knows, NoBook
<1>2. TypeOK /\ AimInv /\ [Next]_vars => AimInv' /\ Kept
  <2> SUFFICES ASSUME TypeOK, AimInv, [Next]_vars PROVE Aims
    BY DEF Aims
  <2>1. ASSUME NEW d \in Desk, Cycle(d) \/ Gates(d) \/ Trade(d) \/ Kill(d) \/ Abort(d) PROVE Aims
    <3>1. CASE Trade(d)
      BY <3>1, ReadsAim, SubmitsAim DEF Trade
    <3>2. CASE Abort(d)
      <4>1. OrdersApart' /\ Placed = {} /\ EndPass(d)
        BY <3>2, NonePlaced DEF AimInv, Abort, broker
      <4> QED BY <4>1, EndKnows DEF Aims, AimInv, Kept
    <3> QED BY <2>1, <3>1, <3>2, CycleAims, GatesAim, KillAims
  <2>2. CASE Environment
    <3>1. CASE VenueFill \/ VenueDrop
      <4>1. PICK o \in orders : o.by \in Desk
        BY <3>1 DEF VenueFill, VenueDrop, OpenOrders, TypeOK, BrokerTypeOK, Order
      <4> QED BY <3>1, <4>1, VenueAims
    <3>2. CASE EquityMoves \/ NewSession
      BY <3>2, QuietAims DEF EquityMoves, NewSession
    <3>3. CASE Crash
      BY <3>3, CrashAims
    <3> QED BY <2>2, <3>1, <3>2, <3>3 DEF Environment
  <2>3. CASE UNCHANGED vars
    BY <2>3, QuietAims DEF vars
  <2> QED BY <2>1, <2>2, <2>3 DEF Next
<1> QED BY <1>1, <1>2, TypeCorrect, SameDesk, PTL DEF Spec
==============================================================================

------------------------ MODULE MatchingEngineProofs ------------------------
(***************************************************************************)
(* Proofs about MatchingEngine for any set of ids, prices and lots and any *)
(* capacities: the book is never crossed, every trade is at the best       *)
(* price, and an order refused with an error has traded nothing.           *)
(***************************************************************************)
EXTENDS MatchingBookProofs

(* The part of SlotsInv that counts: pool counters and resting orders.     *)
OfSide(s) == {i \in DOMAIN orders : orders[i].side = s}
PoolPart ==
  /\ IsFiniteSet(DOMAIN orders)
  /\ ordersUsed = Cardinality(DOMAIN orders)
  /\ \A s \in Sides : listUsed[s] = Cardinality(OfSide(s))

(* Each book holds at most as many orders as the engine.                   *)
LEMMA PoolBounds ==
  ASSUME PoolPart
  PROVE  /\ ordersUsed \in Nat
         /\ \A s \in Sides : /\ IsFiniteSet(OfSide(s))
                              /\ listUsed[s] \in Nat /\ listUsed[s] <= ordersUsed
  <1>1. IsFiniteSet(DOMAIN orders) /\ ordersUsed = Cardinality(DOMAIN orders)
    BY DEF PoolPart
  <1>2. ordersUsed \in Nat
    BY <1>1, FS_CardinalityType
  <1> SUFFICES ASSUME NEW s \in Sides
               PROVE  /\ IsFiniteSet(OfSide(s))
                      /\ listUsed[s] \in Nat /\ listUsed[s] <= ordersUsed
    BY <1>2
  <1>3. OfSide(s) \in SUBSET DOMAIN orders
    BY DEF OfSide
  <1>4. IsFiniteSet(OfSide(s)) /\ Cardinality(OfSide(s)) <= Cardinality(DOMAIN orders)
    BY <1>1, <1>3, FS_Subset
  <1>5. Cardinality(OfSide(s)) \in Nat
    BY <1>4, FS_CardinalityType
  <1> QED
    BY <1>1, <1>4, <1>5 DEF PoolPart

(* add_to_book takes one order slot and one list node, or nothing.         *)
LEMMA AddToBookKeepsPools ==
  ASSUME BookTypes, PoolPart,
         NEW o \in Requests, o.id \notin DOMAIN orders,
         NEW f, NEW b, NEW st, AddToBook(o, f, b, st)
  PROVE  PoolPart'
  <1>1. o.side \in Sides /\ listUsed[o.side] \in Int /\ QueueCapacity \in Int
    BY RequestFields, CapacityAssumption DEF BookTypes
  <1>2. CASE listUsed[o.side] >= QueueCapacity
    <2>1. UNCHANGED <<orders, ordersUsed, listUsed>>
      BY <1>1, <1>2 DEF AddToBook, bookVars, PushBack, CacheOnRest, UndoLevel
    <2> QED
      BY <2>1 DEF PoolPart, OfSide
  <1>3. CASE listUsed[o.side] < QueueCapacity
    <2>1. /\ DOMAIN orders' = DOMAIN orders \cup {o.id}
          /\ orders'[o.id].side = o.side
          /\ \A i \in DOMAIN orders : orders'[i] = orders[i]
          /\ ordersUsed' = ordersUsed + 1
          /\ listUsed' = [listUsed EXCEPT ![o.side] = @ + 1]
      BY <1>3 DEF AddToBook, PushBack, CacheOnRest, UndoLevel
    <2>2. IsFiniteSet(DOMAIN orders') /\ ordersUsed' = Cardinality(DOMAIN orders')
      BY <2>1, FS_AddElement DEF PoolPart
    <2>3. ASSUME NEW s \in Sides
          PROVE  listUsed'[s] = Cardinality(OfSide(s)')
      <3>1. IsFiniteSet(OfSide(s)) /\ listUsed[s] = Cardinality(OfSide(s))
        BY PoolBounds DEF PoolPart
      <3>2. CASE s = o.side
        <4>1. OfSide(s)' = OfSide(s) \cup {o.id} /\ o.id \notin OfSide(s)
          BY <2>1, <3>2 DEF OfSide
        <4>2. Cardinality(OfSide(s) \cup {o.id}) = Cardinality(OfSide(s)) + 1
          BY <3>1, <4>1, FS_AddElement
        <4>3. listUsed'[s] = listUsed[s] + 1
          BY <2>1, <3>2, <1>1 DEF BookTypes
        <4> QED
          BY <3>1, <4>1, <4>2, <4>3
      <3>3. CASE s # o.side
        <4>1. OfSide(s)' = OfSide(s)
          BY <2>1, <3>3 DEF OfSide
        <4> QED
          BY <2>1, <3>1, <3>3, <4>1 DEF BookTypes
      <3> QED
        BY <3>2, <3>3
    <2> QED
      BY <2>2, <2>3 DEF PoolPart
  <1> QED
    BY <1>1, <1>2, <1>3

(* Removing an order gives its slot and its list node back.                *)
LEMMA RemoveFromLevelKeepsPools ==
  ASSUME BookTypes, PoolPart,
         NEW id \in DOMAIN orders, NEW k, RemoveFromLevel(id, k)
  PROVE  PoolPart'
  <1>1. orders[id].side \in Sides
    BY DEF BookTypes, RestingOrder
  <1>2. /\ DOMAIN orders' = DOMAIN orders \ {id}
        /\ \A i \in DOMAIN orders \ {id} : orders'[i] = orders[i]
        /\ ordersUsed' = ordersUsed - 1
        /\ listUsed' = [listUsed EXCEPT ![orders[id].side] = @ - 1]
    BY DEF RemoveFromLevel, DropEmpty
  <1>3. IsFiniteSet(DOMAIN orders') /\ ordersUsed' = Cardinality(DOMAIN orders')
    BY <1>2, FS_RemoveElement DEF PoolPart
  <1>4. ASSUME NEW s \in Sides
        PROVE  listUsed'[s] = Cardinality(OfSide(s)')
    <2>1. IsFiniteSet(OfSide(s)) /\ listUsed[s] = Cardinality(OfSide(s))
      BY PoolBounds DEF PoolPart
    <2>2. CASE s = orders[id].side
      <3>1. OfSide(s)' = OfSide(s) \ {id} /\ id \in OfSide(s)
        BY <1>2, <2>2 DEF OfSide
      <3> QED
        BY <1>2, <2>1, <2>2, <3>1, FS_RemoveElement DEF BookTypes
    <2>3. CASE s # orders[id].side
      <3>1. OfSide(s)' = OfSide(s)
        BY <1>2, <2>3 DEF OfSide
      <3> QED
        BY <1>2, <2>1, <2>3, <3>1 DEF BookTypes
    <2> QED
      BY <2>2, <2>3
  <1> QED
    BY <1>3, <1>4 DEF PoolPart

(* A partial fill changes no slot.                                         *)
LEMMA ReduceFrontKeepsPools ==
  ASSUME PoolPart, NEW s, NEW p, NEW lots,
         ReduceFront(s, p, lots)
  PROVE  PoolPart' /\ DOMAIN orders' = DOMAIN orders
  <1>1. /\ DOMAIN orders' = DOMAIN orders
        /\ \A i \in DOMAIN orders : orders'[i].side = orders[i].side
    BY DEF ReduceFront
  <1>2. \A t : OfSide(t)' = OfSide(t)
    BY <1>1 DEF OfSide
  <1>3. UNCHANGED <<ordersUsed, listUsed>>
    BY DEF ReduceFront
  <1> QED
    BY <1>1, <1>2, <1>3 DEF PoolPart

-----------------------------------------------------------------------------
(* The part of TypeOK that is not about the book.                          *)
RequestTypes ==
  /\ tradesUsed \in Nat
  /\ phase \in {"idle", "matching"} /\ filled \in Nat
  /\ Busy => taker \in Requests
  /\ fills \in Seq(Fill)
  /\ outcome.status \in Statuses \cup Errors \cup {"None"}

(* The inductive invariant, cut into the parts the lemmas above are about. *)
SlotPart ==
  /\ ~Busy => tradesUsed = 0
  /\ Busy => outcome = Idle
  /\ Busy /\ filled < taker.qty => tradesUsed + ordersUsed < OrderCapacity
Inv == BookPart /\ RequestTypes /\ TakerSound /\ PoolPart /\ SlotPart

LEMMA InvParts == Inv <=> BookInv /\ SlotsInv
  <1>1. TypeOK <=> BookTypes /\ RequestTypes
    BY DEF TypeOK, BookTypes, RequestTypes
  <1>2. SlotsInv <=> PoolPart /\ SlotPart
    BY DEF SlotsInv, PoolsBalanced, PoolPart, SlotPart, OfSide
  <1> QED
    BY <1>1, <1>2 DEF Inv, BookInv, BookPart

(* A new engine has an empty book.                                         *)
LEMMA InitInv == Init => Inv
  <1> SUFFICES ASSUME Init PROVE Inv
    OBVIOUS
  <1>1. DOMAIN orders = {} /\ ~Busy
    BY DEF Init, Busy
  <1>2. BookTypes
    BY <1>1 DEF Init, BookTypes, NoPrice, Sides
  <1>3. BookConsistent
    BY <1>1 DEF Init, BookConsistent, NodesAreOrders, NodesAreDistinct,
       OrdersHaveNodes, LevelsHaveOrders
  <1>4. CacheSound /\ NotCrossed
    BY <1>1 DEF Init, CacheSound, NotCrossed
  <1>5. RequestTypes /\ TakerSound /\ SlotPart
    BY <1>1 DEF Init, RequestTypes, TakerSound, SlotPart, Idle, Statuses, Errors
  <1>6. PoolPart
    <2>1. \A s : OfSide(s) = {}
      BY <1>1 DEF OfSide
    <2> QED
      BY <1>1, <2>1, FS_EmptySet DEF Init, PoolPart
  <1> QED
    BY <1>2, <1>3, <1>4, <1>5, <1>6 DEF Inv, BookPart

(* The statuses and errors a result may carry.                             *)
LEMMA ResultStatus ==
  ASSUME NEW o, NEW st, NEW f
  PROVE  /\ Result(o, st, f).status = st
         /\ StatusOf(o, f) \in Statuses
         /\ Result(o, st, f).filled = f
  BY DEF Result, StatusOf, Statuses

(* The checks of place_order, read off the refusal.                        *)
LEMMA NotRefused ==
  ASSUME BookTypes, NEW o \in Requests, RefusalOf(o) = "None"
  PROVE  /\ o.kind = "limit" => o.price \in Prices
         /\ o.qty \in Lots /\ o.qty > 0
         /\ o.id \notin DOMAIN orders
         /\ ordersUsed < OrderCapacity
  <1>1. /\ o.price \in Prices \cup {0} /\ o.qty \in Lots \cup {0}
        /\ Prices \subseteq Nat /\ Lots \subseteq Nat
    BY PricesAssumption, LotsAssumption DEF Requests
  <1>2. /\ ~(o.kind = "limit" /\ o.price <= 0)
        /\ ~(o.qty <= 0)
        /\ o.id \notin DOMAIN orders
        /\ ~(ordersUsed >= OrderCapacity)
    BY DEF RefusalOf
  <1>3. ordersUsed \in Int /\ OrderCapacity \in Int
    BY CapacityAssumption DEF BookTypes
  <1> QED
    BY <1>1, <1>2, <1>3

(* best() looks only at the first level; when the post-only order accepts  *)
(* any level of the other book, it accepts that one.                       *)
LEMMA PostOnlySeesBest ==
  ASSUME BookPart, NEW o \in Requests, o.price \in Prices,
         NEW u \in levels[Opposite(o.side)], Accepts(o, u)
  PROVE  WouldMatch(o)
  <1> DEFINE s == Opposite(o.side)
  <1>1. o.side \in Sides /\ s \in Sides /\ levels[s] \subseteq Prices /\ Prices \subseteq Nat
    BY RequestFields, PricesAssumption, SMTT(40) DEF BookPart, BookTypes, Opposite, Sides
  <1> SUFFICES ASSUME NEW p \in levels[s], \A v \in levels[s] : NoWorse(s, p, v)
               PROVE  Accepts(o, p)
    BY DEF WouldMatch
  <1>2. NoWorse(s, p, u) /\ p \in Nat /\ u \in Nat /\ o.price \in Nat
    BY <1>1
  <1> QED
    BY <1>1, <1>2 DEF Accepts, NoWorse, Opposite, Sides

(* Steps that leave the book alone, but may refresh a cache.               *)
LEMMA SameBook ==
  ASSUME BookPart, PoolPart, UNCHANGED bookVars, SoundFor(best')
  PROVE  BookPart' /\ PoolPart'
  <1>1. BookTypes' /\ CacheSound' /\ NotCrossed'
    BY DEF BookPart, BookTypes, CacheSound, NotCrossed, bookVars, SoundFor
  <1>2. BookConsistent'
    BY DEF BookPart, BookConsistent, bookVars, NodesAreOrders,
       NodeIsOrder, NodesAreDistinct, OrdersHaveNodes, LevelsHaveOrders
  <1>3. PoolPart'
    BY DEF PoolPart, OfSide, bookVars
  <1> QED
    BY <1>1, <1>2, <1>3 DEF BookPart

LEMMA CacheIsSound == BookPart => SoundFor(best)
  BY DEF BookPart, BookTypes, CacheSound, SoundFor

(* A cache refreshed by get_best_price_cached is sound.                    *)
LEMMA RefreshedCache ==
  ASSUME BookPart, NEW s \in Sides, NEW p \in Prices \cup {NoPrice},
         BestPriceIs(s, p)
  PROVE  SoundFor([best EXCEPT ![s] = p])
  <1> DEFINE b == [best EXCEPT ![s] = p]
  <1>1. \A u \in levels[s] : NoWorse(s, p, u)
    BY BestPriceIsBest
  <1>2. /\ b \in [Sides -> Prices \cup {NoPrice}] /\ b[s] = p
        /\ \A t \in Sides : t # s => b[t] = best[t]
    BY DEF BookPart, BookTypes
  <1> HIDE DEF b
  <1>3. SoundFor(b)
    BY <1>1, <1>2 DEF SoundFor, BookPart, CacheSound
  <1> QED
    BY <1>3 DEF b

(* An order refused before the book is touched.                            *)
LEMMA RefuseKeepsInv ==
  ASSUME Inv, NEW o \in Requests, RefuseOrder(o) \/ KillFok(o)
  PROVE  Inv'
  <1>1. /\ UNCHANGED <<bookVars, best, tradesUsed, phase, taker, filled>>
        /\ fills' = << >> /\ ~Busy
        /\ \E st \in Statuses \cup Errors : outcome' = Result(o, st, 0)
    BY DEF RefuseOrder, KillFok, RefusalOf, Statuses, Errors
  <1>2. BookPart' /\ PoolPart'
    BY <1>1, SameBook, CacheIsSound DEF Inv
  <1>3. RequestTypes'
    BY <1>1, ResultStatus DEF Inv, RequestTypes, Busy
  <1>4. TakerSound' /\ SlotPart'
    BY <1>1 DEF Inv, TakerSound, SlotPart, Busy
  <1> QED
    BY <1>2, <1>3, <1>4 DEF Inv

(* A post-only order rests only when nothing on the other side accepts it. *)
LEMMA PostOnlyKeepsInv ==
  ASSUME Inv, NEW o \in Requests, PlacePostOnly(o)
  PROVE  Inv'
  <1>1. /\ UNCHANGED <<tradesUsed, phase, taker, filled>>
        /\ fills' = << >> /\ ~Busy
        /\ RefusalOf(o) = "None" /\ o.kind = "limit"
    BY DEF PlacePostOnly
  <1>2. /\ o.price \in Prices /\ o.qty \in Lots /\ o.qty > 0
        /\ o.id \notin DOMAIN orders
    BY <1>1, NotRefused DEF Inv, BookPart
  <1>3. CASE WouldMatch(o)
    <2>1. UNCHANGED <<bookVars, best>> /\ outcome' = Result(o, "Rejected", 0)
      BY <1>3 DEF PlacePostOnly
    <2>2. BookPart' /\ PoolPart'
      BY <2>1, SameBook, CacheIsSound DEF Inv
    <2> QED
      BY <1>1, <2>1, <2>2, ResultStatus
      DEF Inv, RequestTypes, TakerSound, SlotPart, Busy, Statuses
  <1>4. CASE ~WouldMatch(o)
    <2>1. AddToBook(o, 0, best, "Accepted")
      BY <1>4 DEF PlacePostOnly
    <2>2. \A i \in DOMAIN orders : orders[i].side = Opposite(o.side) =>
             ~Accepts(o, orders[i].price)
      <3> SUFFICES ASSUME NEW i \in DOMAIN orders,
                          orders[i].side = Opposite(o.side),
                          Accepts(o, orders[i].price)
                   PROVE  FALSE
        OBVIOUS
      <3>1. orders[i].price \in levels[Opposite(o.side)]
        BY OrderPricesAreLevels DEF Inv
      <3> QED
        BY <3>1, <1>2, <1>4, PostOnlySeesBest DEF Inv
    <2>3. BookPart' /\ PoolPart'
      <3>1. PoolPart'
        BY <1>2, <2>1, AddToBookKeepsPools DEF Inv, BookPart
      <3>2. SoundFor(best) /\ 0 \in Nat /\ 0 < o.qty
        BY <1>2, CacheIsSound DEF Inv
      <3> QED
        BY <1>1, <1>2, <2>1, <2>2, <3>1, <3>2, AddToBookKeepsBook DEF Inv
    <2>4. outcome'.status \in Statuses \cup Errors
      BY <2>1, ResultStatus DEF AddToBook, Statuses, Errors, PushBack, CacheOnRest, UndoLevel
    <2> QED
      BY <1>1, <2>3, <2>4 DEF Inv, RequestTypes, TakerSound, SlotPart, Busy
  <1> QED
    BY <1>3, <1>4

(* place_order enters match_order with a validated order.                  *)
LEMMA BeginMatchKeepsInv ==
  ASSUME Inv, NEW o \in Requests, BeginMatch(o)
  PROVE  Inv'
  <1>1. /\ UNCHANGED <<bookVars, best, tradesUsed>>
        /\ phase' = "matching" /\ taker' = o /\ filled' = 0
        /\ fills' = << >> /\ outcome' = Idle /\ ~Busy /\ RefusalOf(o) = "None"
    BY DEF BeginMatch
  <1>2. /\ o.kind = "limit" => o.price \in Prices
        /\ o.qty \in Lots /\ o.qty > 0
        /\ o.id \notin DOMAIN orders /\ ordersUsed < OrderCapacity
    BY <1>1, NotRefused DEF Inv, BookPart
  <1>3. BookPart' /\ PoolPart'
    BY <1>1, SameBook, CacheIsSound DEF Inv
  <1>4. RequestTypes'
    BY <1>1 DEF Inv, RequestTypes, Idle
  <1>5. TakerSound'
    <2>1. o.kind \in Kinds /\ DOMAIN orders' = DOMAIN orders
      BY <1>1 DEF Requests, bookVars
    <2>a. o.qty \in Nat
      BY <1>2, LotsAssumption
    <2>b. o.kind = "market" \/ o.price \in Prices
      BY <1>2, <2>1 DEF Kinds
    <2>2. o.qty \in Nat /\ 0 <= o.qty /\ (o.kind = "market" \/ o.price \in Prices)
      BY <2>a, <2>b
    <2>3. taker'.qty = o.qty /\ taker'.kind = o.kind /\ taker'.price = o.price /\ taker'.id = o.id
      BY <1>1
    <2> QED
      BY <1>1, <1>2, <2>1, <2>2, <2>3 DEF TakerSound
  <1>6. SlotPart'
    <2>1. tradesUsed' = 0 /\ ordersUsed' = ordersUsed /\ ordersUsed \in Int
      BY <1>1 DEF Inv, SlotPart, bookVars, BookPart, BookTypes
    <2> QED
      BY <1>1, <1>2, <2>1 DEF SlotPart, Busy
  <1> QED
    BY <1>3, <1>4, <1>5, <1>6 DEF Inv

(* Cancelling a resting order.                                             *)
LEMMA CancelKeepsInv ==
  ASSUME Inv, NEW id \in OrderIds, CancelOrder(id)
  PROVE  Inv'
  <1> DEFINE q == queue[orders[id].side][orders[id].price]
  <1>1. /\ id \in DOMAIN orders /\ ~Busy /\ outcome' = Idle /\ fills' = << >>
        /\ UNCHANGED <<best, tradesUsed, phase, taker, filled>>
    BY DEF CancelOrder
  <1>2. PICK k \in 1 .. Len(q) :
          /\ q[k].id = id /\ RemoveFromLevel(id, k)
          /\ total' = [total EXCEPT ![orders[id].side][orders[id].price] = @ - q[k].lots]
    BY DEF CancelOrder
  <1>3. orders[id].side \in Sides /\ orders[id].price \in Prices
    BY <1>1, OrderPricesAreLevels DEF Inv
  <1>4. q \in Seq(Node) /\ q[k] \in Node
    <2>1. queue \in [Sides -> [Prices -> Seq(Node)]]
      BY DEF Inv, BookPart, BookTypes
    <2>2. q \in Seq(Node)
      BY <1>3, <2>1
    <2> QED
      BY <1>2, <2>2
  <1>5. total' \in [Sides -> [Prices -> Int]]
    <2>1. total \in [Sides -> [Prices -> Int]] /\ q[k].lots \in Nat
      BY <1>4, SMTT(40) DEF Inv, BookPart, BookTypes, Node
    <2> QED
      BY <1>2, <1>3, <2>1
  <1>6. SoundFor(best')
    BY <1>1, CacheIsSound DEF Inv, SoundFor
  <1>7. BookPart'
    BY <1>1, <1>2, <1>5, <1>6, RemoveFromLevelKeepsBook DEF Inv
  <1>8. PoolPart'
    BY <1>1, <1>2, RemoveFromLevelKeepsPools DEF Inv, BookPart
  <1> QED
    BY <1>1, <1>7, <1>8 DEF Inv, RequestTypes, TakerSound, SlotPart, Busy, Idle

(* One trade of the matching loop, and what it says of its price.          *)
LEMMA TradeKeepsInv ==
  ASSUME Inv, Trade
  PROVE  /\ Inv' /\ outcome' = outcome
         /\ LET p == fills'[Len(fills')].price
                s == Opposite(taker.side)
            IN  /\ Accepts(taker, p)
                /\ \A i \in DOMAIN orders :
                     orders[i].side = s => NoWorse(s, p, orders[i].price)
  <1> DEFINE s == Opposite(taker.side)
  <1>1. PICK p \in Prices : BestPriceIs(s, p) /\ TradeAt(p)
    BY DEF Trade
  <1> DEFINE q == queue[s][p]
             node == q[1]
             m == orders[node.id]
             lots == IF taker.qty - filled <= Remaining(m)
                     THEN taker.qty - filled ELSE Remaining(m)
  <1>2. Busy /\ filled < taker.qty
    BY DEF Trade
  <1>3. /\ taker \in Requests /\ taker.qty \in Nat /\ s \in Sides /\ filled \in Nat
        /\ BookPart /\ BookTypes /\ PoolPart /\ tradesUsed \in Nat
    BY <1>2, RequestFields DEF Inv, RequestTypes, BookPart, Opposite, Sides
  <1>4. /\ p \in levels[s] /\ q # << >> /\ \A u \in levels[s] : NoWorse(s, p, u)
    BY <1>1, <1>3, BestPriceIsBest, PricesAssumption DEF NoPrice
  <1>5. q \in Seq(Node) /\ 1 \in 1 .. Len(q) /\ node \in Node
    BY <1>3, <1>4 DEF BookTypes
  <1>6. /\ node.id \in DOMAIN orders /\ node.id \in OrderIds /\ m.side = s /\ m.price = p
        /\ m \in RestingOrder /\ Remaining(m) \in Nat /\ Remaining(m) > 0
        /\ node.lots = Remaining(m)
    <2>1. NodeIsOrder(node, s, p)
      BY <1>3, <1>5 DEF BookPart, BookConsistent, NodesAreOrders
    <2> QED
      BY <2>1, <1>3, <1>5 DEF NodeIsOrder, BookTypes, Node
  <1>7. /\ lots \in Nat /\ lots > 0 /\ lots <= Remaining(m) /\ filled + lots <= taker.qty
        /\ lots # Remaining(m) => filled + lots = taker.qty
    BY <1>2, <1>3, <1>6
  <1>8. ordersUsed \in Nat /\ tradesUsed + ordersUsed < OrderCapacity
    BY <1>2, <1>3, PoolBounds DEF Inv, SlotPart
  <1>9. tradesUsed < OrderCapacity /\ OrderCapacity \in Nat
    BY <1>3, <1>8, CapacityAssumption, SMTT(40)
  <1>10. /\ Accepts(taker, p)
         /\ best' = [best EXCEPT ![s] = p]
         /\ fills' = Append(fills, [maker |-> node.id, price |-> p, lots |-> lots])
         /\ filled' = filled + lots /\ tradesUsed' = tradesUsed + 1
         /\ phase' = "matching" /\ outcome' = outcome /\ taker' = taker
    BY <1>1, <1>9, ZenonT(60) DEF TradeAt, LessFilled
  <1>11. \/ /\ lots = Remaining(m) /\ RemoveFromLevel(node.id, 1)
            /\ total' = [total EXCEPT ![s][p] = ClampedMinus(@, lots) -
                                               ClampedMinus(node.lots, lots)]
         \/ /\ lots # Remaining(m) /\ ReduceFront(s, p, lots)
            /\ total' = [total EXCEPT ![s][p] = ClampedMinus(@, lots)]
    BY <1>1, <1>9 DEF TradeAt, LessFilled
  <1> HIDE DEF lots, m, node, q, s
  <1>12. SoundFor(best')
    BY <1>1, <1>3, <1>10, RefreshedCache
  <1>13. total' \in [Sides -> [Prices -> Int]]
    <2>1. /\ total[s][p] \in Int
          /\ ClampedMinus(total[s][p], lots) \in Int
          /\ ClampedMinus(node.lots, lots) \in Int
      BY <1>3, <1>6, <1>7 DEF BookTypes, ClampedMinus
    <2>2. ClampedMinus(total[s][p], lots) - ClampedMinus(node.lots, lots) \in Int
      BY <2>1
    <2>3. PICK x \in Int : total' = [total EXCEPT ![s][p] = x]
      BY <2>1, <2>2, <1>11
    <2> QED
      BY <2>3, <1>3 DEF BookTypes
  <1>14. /\ BookPart' /\ PoolPart' /\ DOMAIN orders' \subseteq DOMAIN orders
         /\ filled + lots < taker.qty => ordersUsed' = ordersUsed - 1
    <2>1. CASE lots = Remaining(m) /\ RemoveFromLevel(node.id, 1)
      <3>1. BookPart'
        BY <1>3, <1>5, <1>6, <1>12, <1>13, <2>1, RemoveFromLevelKeepsBook DEF m, q, node
      <3>2. PoolPart'
        BY <1>3, <1>6, <2>1, RemoveFromLevelKeepsPools
      <3>3. DOMAIN orders' \subseteq DOMAIN orders /\ ordersUsed' = ordersUsed - 1
        BY <2>1 DEF RemoveFromLevel, DropEmpty
      <3> QED
        BY <3>1, <3>2, <3>3
    <2>2. CASE lots # Remaining(m) /\ ReduceFront(s, p, lots)
      <3>1. BookPart'
        <4>1. lots < Remaining(m)
          BY <2>2, <1>6, <1>7
        <4> QED
          BY <1>3, <1>4, <1>7, <1>12, <1>13, <2>2, <4>1, ReduceFrontKeepsBook
          DEF m, q, node
      <3>2. PoolPart' /\ DOMAIN orders' = DOMAIN orders
        BY <1>3, <2>2, ReduceFrontKeepsPools
      <3> QED
        BY <2>2, <1>3, <1>7, <3>1, <3>2
    <2> QED
      BY <1>11, <2>1, <2>2
  <1>15. RequestTypes'
    <2>1. [maker |-> node.id, price |-> p, lots |-> lots] \in Fill
      BY <1>6, <1>7 DEF Fill
    <2>2. fills' \in Seq(Fill)
      BY <2>1, <1>10 DEF Inv, RequestTypes
    <2>3. filled' \in Nat /\ tradesUsed' \in Nat
      BY <1>3, <1>7, <1>10
    <2> QED
      BY <1>3, <1>10, <2>2, <2>3 DEF Inv, RequestTypes, Busy
  <1>16. TakerSound'
    <2>1. /\ taker.id \notin DOMAIN orders
          /\ taker.kind = "market" \/ taker.price \in Prices
          /\ taker.qty \in Lots
      BY <1>2 DEF Inv, TakerSound
    <2> QED
      BY <1>7, <1>10, <1>14, <2>1 DEF TakerSound
  <1>17. SlotPart'
    <2>1. outcome' = Idle
      BY <1>2, <1>10 DEF Inv, SlotPart
    <2>2. filled' < taker'.qty => tradesUsed' + ordersUsed' < OrderCapacity
      BY <1>3, <1>8, <1>9, <1>10, <1>14
    <2> QED
      BY <1>10, <2>1, <2>2 DEF SlotPart, Busy
  <1>18. fills'[Len(fills')].price = p
    BY <1>10 DEF Inv, RequestTypes
  <1>19. \A i \in DOMAIN orders : orders[i].side = s => NoWorse(s, p, orders[i].price)
    BY <1>3, <1>4, OrderPricesAreLevels
  <1> QED
    BY <1>10, <1>14, <1>15, <1>16, <1>17, <1>18, <1>19 DEF Inv, s

(* match_order returns with a sound cache b, and, when the order is not    *)
(* filled, with nothing acceptable left on the other side.                 *)
LEMMA FinishKeepsInv ==
  ASSUME Inv, Busy, NEW b, SoundFor(b), FinishMatch(b),
         filled < taker.qty => \A i \in DOMAIN orders :
            orders[i].side = Opposite(taker.side) => ~Accepts(taker, orders[i].price)
  PROVE  /\ Inv'
         /\ OrderCapacity <= QueueCapacity => outcome'.status \in Statuses
  <1>1. /\ tradesUsed' = 0 /\ phase' = "idle" /\ taker' = NoTaker /\ filled' = 0
        /\ fills' = fills
    BY DEF FinishMatch, LeaveMatch
  <1>2. /\ BookPart /\ BookTypes /\ PoolPart /\ taker \in Requests
        /\ filled \in Nat /\ fills \in Seq(Fill) /\ taker.id \notin DOMAIN orders
        /\ taker.kind = "market" \/ taker.price \in Prices
        /\ taker.side \in Sides /\ tradesUsed \in Nat
    BY RequestFields DEF Inv, RequestTypes, TakerSound, BookPart
  <1>3. /\ BookPart' /\ PoolPart' /\ outcome'.status \in Statuses \cup Errors
        /\ OrderCapacity <= QueueCapacity => outcome'.status \in Statuses
    <2>1. CASE filled < taker.qty /\ taker.tif = "GTC" /\ taker.kind = "limit"
      <3>1. AddToBook(taker, filled, b, StatusOf(taker, filled))
        BY <2>1 DEF FinishMatch, LeaveMatch
      <3>2. taker.price \in Prices
        BY <1>2, <2>1
      <3>3. BookPart'
        BY <1>2, <2>1, <3>1, <3>2, AddToBookKeepsBook
      <3>4. PoolPart'
        BY <1>2, <3>1, AddToBookKeepsPools
      <3>5. outcome'.status \in Statuses \cup Errors
        BY <3>1, ResultStatus DEF AddToBook, Errors, PushBack, CacheOnRest, UndoLevel
      <3>6. ASSUME OrderCapacity <= QueueCapacity
            PROVE  outcome'.status \in Statuses
        <4>1. /\ listUsed[taker.side] \in Nat /\ ordersUsed \in Nat
              /\ listUsed[taker.side] <= ordersUsed
          BY <1>2, PoolBounds
        <4>2. tradesUsed + ordersUsed < OrderCapacity
          BY <2>1 DEF Inv, SlotPart
        <4>3. listUsed[taker.side] < QueueCapacity
          BY <1>2, <3>6, <4>1, <4>2, CapacityAssumption
        <4> QED
          BY <3>1, <4>3, ResultStatus DEF AddToBook, PushBack, CacheOnRest, UndoLevel
      <3> QED
        BY <3>3, <3>4, <3>5, <3>6
    <2>2. CASE ~(filled < taker.qty /\ taker.tif = "GTC" /\ taker.kind = "limit")
      <3>1. /\ outcome' = Result(taker, StatusOf(taker, filled), filled)
            /\ best' = b /\ UNCHANGED bookVars
        BY <2>2 DEF FinishMatch, LeaveMatch
      <3>2. BookPart' /\ PoolPart'
        BY <1>2, <3>1, SameBook
      <3> QED
        BY <3>1, <3>2, ResultStatus
    <2> QED
      BY <2>1, <2>2
  <1>4. RequestTypes'
    BY <1>1, <1>2, <1>3 DEF RequestTypes, Busy
  <1>5. TakerSound' /\ SlotPart'
    BY <1>1 DEF TakerSound, SlotPart, Busy
  <1> QED
    BY <1>3, <1>4, <1>5 DEF Inv

(* match_order returns, filled or not.                                     *)
LEMMA EndOfMatchKeepsInv ==
  ASSUME Inv, MatchFilled \/ MatchExhausted
  PROVE  /\ Inv'
         /\ OrderCapacity <= QueueCapacity => outcome'.status \in Statuses
  <1>1. Busy /\ BookPart /\ taker \in Requests /\ taker.qty \in Nat /\ filled \in Nat
    BY RequestFields DEF Inv, RequestTypes, MatchFilled, MatchExhausted
  <1>2. CASE MatchFilled
    <2>1. FinishMatch(best) /\ ~(filled < taker.qty)
      BY <1>1, <1>2 DEF MatchFilled
    <2> QED
      BY <1>1, <2>1, CacheIsSound, FinishKeepsInv
  <1>3. CASE MatchExhausted
    <2> DEFINE s == Opposite(taker.side)
    <2>1. PICK p \in Prices \cup {NoPrice} :
            /\ BestPriceIs(s, p) /\ (p = NoPrice \/ ~Accepts(taker, p))
            /\ FinishMatch([best EXCEPT ![s] = p])
      BY <1>3 DEF MatchExhausted
    <2>2. s \in Sides /\ taker.side \in Sides /\ Prices \subseteq Nat
      BY <1>1, RequestFields, PricesAssumption DEF Opposite, Sides
    <2>3. SoundFor([best EXCEPT ![s] = p])
      BY <1>1, <2>1, <2>2, RefreshedCache
    <2>4. /\ p = NoPrice => levels[s] = {}
          /\ p # NoPrice => p \in levels[s]
          /\ \A u \in levels[s] : NoWorse(s, p, u)
      BY <1>1, <2>1, <2>2, BestPriceIsBest
    <2>5. ASSUME NEW i \in DOMAIN orders, orders[i].side = s
          PROVE  ~Accepts(taker, orders[i].price)
      <3>1. orders[i].price \in levels[s] /\ orders[i].price \in Nat
        BY <1>1, <2>2, <2>5, OrderPricesAreLevels
      <3>2. p # NoPrice /\ ~Accepts(taker, p) /\ NoWorse(s, p, orders[i].price)
        BY <2>1, <2>4, <3>1
      <3>3. p \in Nat /\ taker.price \in Nat
        BY <1>1, <2>2, <3>2, RequestFields
      <3> QED
        BY <2>2, <3>1, <3>2, <3>3 DEF Accepts, NoWorse, Opposite, Sides
    <2> QED
      BY <1>1, <2>1, <2>3, <2>5, FinishKeepsInv
  <1> QED
    BY <1>2, <1>3

-----------------------------------------------------------------------------
(* Every step of the engine preserves the invariant.                       *)
LEMMA StepInv == Inv /\ [Next]_vars => Inv'
  <1> SUFFICES ASSUME Inv, [Next]_vars PROVE Inv'
    OBVIOUS
  <1>1. ASSUME NEW o \in Requests, RefuseOrder(o) \/ KillFok(o) PROVE Inv'
    BY <1>1, RefuseKeepsInv
  <1>2. ASSUME NEW o \in Requests, PlacePostOnly(o) PROVE Inv'
    BY <1>2, PostOnlyKeepsInv
  <1>3. ASSUME NEW o \in Requests, BeginMatch(o) PROVE Inv'
    BY <1>3, BeginMatchKeepsInv
  <1>4. CASE Trade
    BY <1>4, TradeKeepsInv
  <1>5. CASE MatchFilled \/ MatchExhausted
    BY <1>5, EndOfMatchKeepsInv
  <1>6. ASSUME NEW id \in OrderIds, CancelOrder(id) PROVE Inv'
    BY <1>6, CancelKeepsInv
  <1>7. CASE UNCHANGED vars
    <2>1. /\ UNCHANGED bookVars /\ SoundFor(best')
          /\ UNCHANGED <<tradesUsed, phase, taker, filled, fills, outcome, ordersUsed, orders>>
      BY <1>7, CacheIsSound DEF Inv, vars, bookVars, SoundFor
    <2>2. BookPart' /\ PoolPart'
      BY <2>1, SameBook DEF Inv
    <2> QED
      BY <2>1, <2>2 DEF Inv, RequestTypes, TakerSound, SlotPart, Busy
  <1> QED
    BY <1>1, <1>2, <1>3, <1>4, <1>5, <1>6, <1>7 DEF Next

LEMMA InvAlways == Spec => []Inv
  BY InitInv, StepInv, PTL DEF Spec

(* The variables of the engine keep their types.                           *)
THEOREM EngineTypes == Spec => []TypeOK
  <1>1. Inv => TypeOK
    BY InvParts DEF BookInv
  <1> QED
    BY <1>1, InvAlways, PTL

(* The list nodes, the order index and the levels describe the same        *)
(* resting orders in every reachable state, whatever the ids, prices,      *)
(* quantities and pool sizes: match_order never meets a stale list node.   *)
THEOREM BookAlwaysConsistent == Spec => []BookConsistent
  <1>1. Inv => BookConsistent
    BY DEF Inv, BookPart
  <1> QED
    BY <1>1, InvAlways, PTL

(* get_best_price_cached never answers with a price that is not the best.  *)
THEOREM CacheAlwaysSound == Spec => []CacheSound
  <1>1. Inv => CacheSound
    BY DEF Inv, BookPart
  <1> QED
    BY <1>1, InvAlways, PTL

(* The resting book is never crossed, not even inside match_order.         *)
THEOREM NeverCrossed == Spec => []NotCrossed
  <1>1. Inv => NotCrossed
    BY DEF Inv, BookPart
  <1> QED
    BY <1>1, InvAlways, PTL

(* The pools never leak, and a match always finds a trade slot.            *)
THEOREM SlotsAlwaysBalanced == Spec => []SlotsInv
  BY InvAlways, InvParts, PTL

(* Every trade of the engine is at the best resting price of the other     *)
(* side.                                                                   *)
THEOREM AllTradesAtBestPrice == Spec => TradesAtBestPrice
  <1> DEFINE P == Busy /\ Len(fills') > Len(fills) =>
                    LET p == fills'[Len(fills')].price
                        s == Opposite(taker.side)
                    IN  /\ Accepts(taker, p)
                        /\ \A i \in DOMAIN orders :
                             orders[i].side = s => NoWorse(s, p, orders[i].price)
  <1>1. Inv /\ [Next]_vars => [P]_vars
    <2> SUFFICES ASSUME Inv, Next, Busy, Len(fills') > Len(fills) PROVE P
      OBVIOUS
    <2>1. CASE Trade
      BY <2>1, TradeKeepsInv
    <2>2. CASE ~Trade
      <3>1. MatchFilled \/ MatchExhausted
        BY <2>2 DEF Next, RefuseOrder, PlacePostOnly, KillFok, BeginMatch, CancelOrder
      <3>2. PICK b : FinishMatch(b)
        BY <3>1 DEF MatchFilled, MatchExhausted
      <3>3. fills' = fills
        BY <3>2 DEF FinishMatch, LeaveMatch
      <3>4. Len(fills) \in Nat
        BY DEF Inv, RequestTypes
      <3> QED
        BY <3>3, <3>4
    <2> QED
      BY <2>1, <2>2
  <1> QED
    BY <1>1, InvAlways, PTL DEF Spec, TradesAtBestPrice

(* An error result hides no trade, unless it is the lack of a list node in *)
(* an engine with fewer list nodes than order slots.                       *)
THEOREM ErrorsAlwaysClean == Spec => []ErrorsAreClean
  <1>1. Init => ErrorsAreClean
    BY DEF Init, ErrorsAreClean, Idle, Errors
  <1>2. Inv /\ ErrorsAreClean /\ [Next]_vars => ErrorsAreClean'
    <2> DEFINE Clean == fills = << >> /\ outcome.filled = 0
               Short == outcome.status = "NodePoolExhausted" /\ QueueCapacity < OrderCapacity
    <2> SUFFICES ASSUME Inv, ErrorsAreClean, [Next]_vars, outcome'.status \in Errors
                 PROVE  Clean' \/ Short'
      BY DEF ErrorsAreClean
    <2>1. Statuses \cap Errors = {} /\ Idle.status \notin Errors
      BY DEF Statuses, Errors, Idle
    <2>2. ASSUME NEW o \in Requests, RefuseOrder(o) \/ KillFok(o)
          PROVE  Clean'
      BY <2>2, ResultStatus DEF RefuseOrder, KillFok
    <2>3. ASSUME NEW o \in Requests, PlacePostOnly(o)
          PROVE  Clean'
      BY <2>3, ResultStatus DEF PlacePostOnly, AddToBook, PushBack, CacheOnRest, UndoLevel
    <2>4. ASSUME NEW o \in Requests, BeginMatch(o) PROVE FALSE
      BY <2>4, <2>1 DEF BeginMatch
    <2>5. CASE Trade
      <3>1. outcome' = outcome /\ Busy
        BY <2>5, TradeKeepsInv DEF Trade
      <3>2. outcome = Idle
        BY <3>1 DEF Inv, SlotPart
      <3>3. outcome'.status \notin Errors
        BY <2>1, <3>1, <3>2
      <3> QED
        BY <3>3
    <2>6. CASE MatchFilled \/ MatchExhausted
      <3>1. OrderCapacity <= QueueCapacity => outcome'.status \in Statuses
        BY <2>6, EndOfMatchKeepsInv
      <3>2. outcome'.status \in Statuses \/ outcome'.status = "NodePoolExhausted"
        <4>1. PICK b : FinishMatch(b)
          BY <2>6 DEF MatchFilled, MatchExhausted
        <4>2. \/ outcome' = Result(taker, StatusOf(taker, filled), filled)
              \/ outcome' = Result(taker, "NodePoolExhausted", filled)
          BY <4>1 DEF FinishMatch, AddToBook
        <4> QED
          BY <4>2, ResultStatus
      <3> QED
        BY <2>1, <3>1, <3>2, CapacityAssumption
    <2>7. ASSUME NEW id \in OrderIds, CancelOrder(id) PROVE FALSE
      BY <2>7, <2>1 DEF CancelOrder
    <2>8. CASE UNCHANGED vars
      BY <2>8 DEF vars, ErrorsAreClean
    <2> QED
      BY <2>2, <2>3, <2>4, <2>5, <2>6, <2>7, <2>8 DEF Next
  <1> QED
    BY <1>1, <1>2, InvAlways, PTL DEF Spec

=============================================================================

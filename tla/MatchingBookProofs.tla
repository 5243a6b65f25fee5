------------------------- MODULE MatchingBookProofs -------------------------
(***************************************************************************)
(* What the operations of MatchingEngine do to the book: resting an order, *)
(* taking one out and reducing the oldest of a level keep list nodes,      *)
(* order index, levels and best-price cache consistent and the book        *)
(* uncrossed.                                                              *)
(***************************************************************************)
EXTENDS MatchingEngine, FiniteSetTheorems, SequenceTheorems, TLAPS

(* A request has the fields of an order.                                   *)
LEMMA RequestFields ==
  ASSUME NEW o \in Requests
  PROVE  /\ o.id \in OrderIds /\ o.side \in Sides
         /\ o.price \in Prices \cup {0} /\ o.price \in Nat
         /\ o.qty \in Lots \cup {0} /\ o.qty \in Nat
         /\ o.tif \in TimeInForce /\ o.kind \in Kinds
  <1>1. o \in [id : OrderIds, side : Sides, price : Prices \cup {0},
              qty : Lots \cup {0}, tif : TimeInForce, kind : Kinds]
    BY DEF Requests
  <1>2. /\ o.price \in Prices \cup {0} /\ o.qty \in Lots \cup {0}
        /\ o.id \in OrderIds /\ o.side \in Sides
        /\ o.tif \in TimeInForce /\ o.kind \in Kinds
    BY <1>1
  <1>3. Prices \cup {0} \subseteq Nat
    BY PricesAssumption
  <1>4. Lots \cup {0} \subseteq Nat
    BY LotsAssumption
  <1> QED
    BY <1>2, <1>3, <1>4

(* PooledList::push_back adds one node at the back.                        *)
LEMMA AppendNodes ==
  ASSUME NEW S, NEW q \in Seq(S), NEW n \in S
  PROVE  /\ Len(q) \in Nat
         /\ Append(q, n) \in Seq(S) /\ Append(q, n) # << >>
         /\ Len(Append(q, n)) = Len(q) + 1
         /\ \A k \in 1 .. Len(q) : Append(q, n)[k] = q[k]
         /\ Append(q, n)[Len(q) + 1] = n
  OBVIOUS

(* PooledList::remove keeps every node but the removed one, in order.      *)
LEMMA UnlinkNodes ==
  ASSUME NEW S, NEW q \in Seq(S), NEW i \in 1 .. Len(q)
  PROVE  /\ Unlink(q, i) \in Seq(S)
         /\ Len(Unlink(q, i)) = Len(q) - 1
         /\ \A j \in 1 .. Len(q) - 1 :
              Unlink(q, i)[j] = IF j < i THEN q[j] ELSE q[j + 1]
  <1>1. Len(q) \in Nat /\ Len(q) - 1 \in Nat
    OBVIOUS
  <1>2. \A j \in 1 .. Len(q) - 1 : Unlink(q, i)[j] \in S
    BY <1>1 DEF Unlink
  <1>3. Unlink(q, i) = [j \in 1 .. (Len(q) - 1) |-> Unlink(q, i)[j]]
    BY <1>1 DEF Unlink
  <1>4. Unlink(q, i) \in Seq(S)
    BY <1>1, <1>2, <1>3
  <1>5. Len(Unlink(q, i)) = Len(q) - 1
    BY <1>1, <1>4, LenProperties DEF Unlink
  <1> QED
    BY <1>1, <1>4, <1>5 DEF Unlink

-----------------------------------------------------------------------------
(* The part of the inductive invariant that is about the book and its      *)
(* cache, as the steps that change the book preserve it.                   *)
BookTypes ==
  /\ DOMAIN orders \subseteq OrderIds
  /\ \A i \in DOMAIN orders : orders[i] \in RestingOrder
  /\ levels \in [Sides -> SUBSET Prices]
  /\ queue \in [Sides -> [Prices -> Seq(Node)]]
  /\ total \in [Sides -> [Prices -> Int]]
  /\ best \in [Sides -> Prices \cup {NoPrice}]
  /\ ordersUsed \in Int /\ listUsed \in [Sides -> Int]
BookPart == BookTypes /\ BookConsistent /\ CacheSound /\ NotCrossed

(* Cache b is sound for the current levels.                                *)
SoundFor(b) ==
  /\ b \in [Sides -> Prices \cup {NoPrice}]
  /\ \A s \in Sides : b[s] \in levels[s] =>
       \A p \in levels[s] : NoWorse(s, b[s], p)

(* add_to_book keeps the book sound when no resting order on the other     *)
(* side is acceptable to the order it adds.                                *)
LEMMA AddToBookKeepsBook ==
  ASSUME BookPart,
         NEW o \in Requests, o.price \in Prices, o.kind = "limit",
         o.id \notin DOMAIN orders,
         NEW f \in Nat, f < o.qty,
         NEW b, SoundFor(b),
         \A i \in DOMAIN orders : orders[i].side = Opposite(o.side) =>
            ~Accepts(o, orders[i].price),
         NEW st, AddToBook(o, f, b, st)
  PROVE  BookPart'
  <1> DEFINE n == [id |-> o.id, lots |-> o.qty - f]
             r == [side |-> o.side, price |-> o.price, qty |-> o.qty, filled |-> f]
  <1>1. /\ o.id \in OrderIds /\ o.side \in Sides /\ o.price \in Nat
        /\ o.qty \in Nat /\ Prices \subseteq Nat
    BY RequestFields, PricesAssumption
  <1>2. CASE listUsed[o.side] >= QueueCapacity
    <2>1. listUsed[o.side] \in Int /\ QueueCapacity \in Int
      BY <1>1, CapacityAssumption DEF BookPart, BookTypes
    <2>a. /\ UndoLevel(o) /\ best' = b
          /\ UNCHANGED <<orders, queue, total, ordersUsed, listUsed>>
      BY <1>2, <2>1 DEF AddToBook
    <2>b. queue[o.side][o.price] = << >> => o.price \notin levels[o.side]
      BY <1>1 DEF BookPart, BookConsistent, LevelsHaveOrders
    <2>c. levels' = levels
      <3>1. PICK S : levels' = [levels EXCEPT ![o.side] = S] /\ S = levels[o.side]
        BY <2>a, <2>b DEF UndoLevel
      <3> QED
        BY <3>1, <1>1 DEF BookPart, BookTypes
    <2>2. UNCHANGED bookVars /\ best' = b
      BY <2>a, <2>c DEF bookVars
    <2> QED
      <3>1. BookTypes' /\ CacheSound'
        BY <2>2 DEF BookPart, BookTypes, CacheSound, SoundFor, bookVars
      <3>2. BookConsistent'
        BY <2>2 DEF BookPart, BookConsistent, bookVars, NodesAreOrders,
           NodeIsOrder, NodesAreDistinct, OrdersHaveNodes, LevelsHaveOrders
      <3>3. NotCrossed'
        BY <2>2 DEF BookPart, NotCrossed, bookVars
      <3> QED
        BY <3>1, <3>2, <3>3 DEF BookPart
  <1>3. CASE ~(listUsed[o.side] >= QueueCapacity)
    <2>0. listUsed[o.side] < QueueCapacity
      BY <1>1, <1>3, CapacityAssumption DEF BookPart, BookTypes
    <2>1. /\ n \in Node /\ r \in RestingOrder /\ n.lots > 0
          /\ n.lots = Remaining(r)
      BY <1>1 DEF Node, RestingOrder, Remaining
    <2>2. /\ orders' = [i \in DOMAIN orders \cup {o.id} |->
                         IF i = o.id THEN r ELSE orders[i]]
          /\ levels' = [levels EXCEPT ![o.side] = @ \cup {o.price}]
          /\ queue' = [queue EXCEPT ![o.side][o.price] = Append(@, n)]
          /\ total' = [total EXCEPT ![o.side][o.price] = @ + (o.qty - f)]
          /\ ordersUsed' = ordersUsed + 1
          /\ listUsed' = [listUsed EXCEPT ![o.side] = @ + 1]
          /\ best' = [b EXCEPT ![o.side] = NoPrice]
      BY <2>0 DEF AddToBook, PushBack, CacheOnRest, UndoLevel
    <2> HIDE DEF n, r
    <2>3. BookTypes'
      BY <1>1, <2>1, <2>2, SMTT(40) DEF BookPart, BookTypes, SoundFor, NoPrice
    <2> DEFINE q == queue[o.side][o.price]
               nq == Append(q, n)
    <2>4. /\ \A s \in Sides, p \in Prices : ~(s = o.side /\ p = o.price) =>
               queue'[s][p] = queue[s][p]
          /\ queue'[o.side][o.price] = nq
      BY <1>1, <2>2 DEF BookPart, BookTypes
    <2>5. /\ q \in Seq(Node) /\ Len(q) \in Nat
          /\ Len(nq) = Len(q) + 1
          /\ \A k \in 1 .. Len(q) : nq[k] = q[k]
          /\ nq[Len(q) + 1] = n
          /\ nq # << >>
      <3>1. q \in Seq(Node)
        BY <1>1 DEF BookPart, BookTypes
      <3> HIDE DEF q
      <3> QED
        BY <3>1, <2>1, AppendNodes
    <2> HIDE DEF nq
    <2>5a. \A k \in 1 .. Len(nq) : k \in 1 .. Len(q) \/ k = Len(q) + 1
      BY <2>5
    <2>5b. Len(q) + 1 \in 1 .. Len(nq) /\ \A k \in 1 .. Len(q) : k \in 1 .. Len(nq)
      BY <2>5
    <2>6. n.id = o.id /\ r.side = o.side /\ r.price = o.price
      BY DEF n, r
    <2>7. /\ \A i \in DOMAIN orders : i # o.id /\ orders'[i] = orders[i]
          /\ orders'[o.id] = r
          /\ DOMAIN orders' = DOMAIN orders \cup {o.id}
      BY <2>2
    <2>8. NodesAreOrders'
      <3> SUFFICES ASSUME NEW s \in Sides, NEW p \in Prices,
                          NEW k \in 1 .. Len(queue'[s][p])
                   PROVE  NodeIsOrder(queue[s][p][k], s, p)'
        BY DEF NodesAreOrders
      <3>1. CASE s = o.side /\ p = o.price /\ k = Len(q) + 1
        BY <3>1, <2>1, <2>4, <2>5, <2>6, <2>7 DEF NodeIsOrder
      <3>2. CASE s = o.side /\ p = o.price /\ k # Len(q) + 1
        <4>1. k \in 1 .. Len(q) /\ queue'[s][p][k] = queue[s][p][k]
          BY <3>2, <2>4, <2>5, <2>5a
        <4>2. NodeIsOrder(queue[s][p][k], s, p)
          BY <4>1, <3>2, <1>1 DEF BookPart, BookConsistent, NodesAreOrders
        <4> QED
          BY <4>1, <4>2, <2>7 DEF NodeIsOrder
      <3>3. CASE ~(s = o.side /\ p = o.price)
        BY <3>3, <2>4, <2>7 DEF BookPart, BookConsistent, NodesAreOrders, NodeIsOrder
      <3> QED
        BY <3>1, <3>2, <3>3
    <2>9. NodesAreDistinct'
      <3> SUFFICES ASSUME NEW s \in Sides, NEW p \in Prices,
                          NEW k \in 1 .. Len(queue'[s][p]),
                          NEW l \in 1 .. Len(queue'[s][p]),
                          queue'[s][p][k].id = queue'[s][p][l].id
                   PROVE  k = l
        BY DEF NodesAreDistinct
      <3>1. \A j \in 1 .. Len(q) : q[j].id # o.id
        BY <1>1 DEF BookPart, BookConsistent, NodesAreOrders, NodeIsOrder
      <3>2. CASE s = o.side /\ p = o.price
        <4>1. /\ k \in 1 .. Len(q) \/ k = Len(q) + 1
              /\ l \in 1 .. Len(q) \/ l = Len(q) + 1
          BY <3>2, <2>4, <2>5a
        <4>2. /\ queue'[s][p] = nq
              /\ \A j, m \in 1 .. Len(q) : q[j].id = q[m].id => j = m
          BY <3>2, <2>4, <1>1, SMTT(40) DEF BookPart, BookConsistent, NodesAreDistinct
        <4> HIDE DEF q
        <4> QED
          BY <4>1, <4>2, <3>1, <2>5, <2>6
      <3>3. CASE ~(s = o.side /\ p = o.price)
        BY <3>3, <2>4 DEF BookPart, BookConsistent, NodesAreDistinct
      <3> QED
        BY <3>2, <3>3
    <2>10. OrdersHaveNodes'
      <3> SUFFICES ASSUME NEW i \in DOMAIN orders'
                   PROVE  \E k \in 1 .. Len(queue'[orders'[i].side][orders'[i].price]) :
                            queue'[orders'[i].side][orders'[i].price][k].id = i
        BY DEF OrdersHaveNodes
      <3>1. CASE i = o.id
        <4>1. queue'[orders'[i].side][orders'[i].price] = nq
          BY <3>1, <2>4, <2>6, <2>7
        <4> QED
          BY <3>1, <4>1, <2>5, <2>5b, <2>6
      <3>2. CASE i # o.id
        <4>1. i \in DOMAIN orders /\ orders'[i] = orders[i]
          BY <3>2, <2>7
        <4>2. PICK k \in 1 .. Len(queue[orders[i].side][orders[i].price]) :
                queue[orders[i].side][orders[i].price][k].id = i
          BY <4>1 DEF BookPart, BookConsistent, OrdersHaveNodes
        <4>3. orders[i].side \in Sides /\ orders[i].price \in Prices
          BY <4>1 DEF BookPart, BookTypes, RestingOrder
        <4>4. CASE orders[i].side = o.side /\ orders[i].price = o.price
          <5>1. queue'[orders'[i].side][orders'[i].price] = nq /\ k \in 1 .. Len(q)
            BY <4>1, <4>2, <4>4, <2>4
          <5> QED
            BY <5>1, <4>2, <4>4, <2>5, <2>5b
        <4>5. CASE ~(orders[i].side = o.side /\ orders[i].price = o.price)
          BY <4>1, <4>2, <4>3, <4>5, <2>4
        <4> QED
          BY <4>4, <4>5
      <3> QED
        BY <3>1, <3>2
    <2>11. LevelsHaveOrders'
      <3>1. \A s \in Sides, p \in Prices : p \in levels'[s] <=>
               p \in levels[s] \/ (s = o.side /\ p = o.price)
        BY <1>1, <2>2, SMTT(40) DEF BookPart, BookTypes
      <3> QED
        BY <3>1, <2>4, <2>5 DEF BookPart, BookConsistent, LevelsHaveOrders
    <2>12. CacheSound'
      <3> SUFFICES ASSUME NEW s \in Sides, best'[s] \in levels'[s],
                          NEW p \in levels'[s]
                   PROVE  NoWorse(s, best'[s], p)
        BY DEF CacheSound
      <3>1. s # o.side
        BY <1>1, <2>2, <2>3, PricesAssumption DEF BookTypes, SoundFor, NoPrice
      <3>2. best'[s] = b[s] /\ levels'[s] = levels[s]
        BY <1>1, <2>2, <3>1 DEF BookPart, BookTypes, SoundFor
      <3> QED
        BY <3>2 DEF SoundFor
    <2>13. NotCrossed'
      <3>1. ASSUME NEW i \in DOMAIN orders,
                   orders[i].side = Opposite(o.side)
            PROVE  IF o.side = "buy" THEN o.price < orders[i].price
                   ELSE orders[i].price < o.price
        <4>1. orders[i].price \in Nat
          BY <1>1 DEF BookPart, BookTypes, RestingOrder
        <4> QED
          BY <3>1, <4>1, <1>1 DEF Accepts
      <3> QED
        BY <3>1, <2>6, <2>7, <1>1 DEF NotCrossed, BookPart, Opposite
    <2> QED
      BY <2>3, <2>8, <2>9, <2>10, <2>11, <2>12, <2>13 DEF BookPart, BookConsistent
  <1> QED
    BY <1>2, <1>3

(* remove_order_at_level keeps the book sound, whichever node it removes.  *)
LEMMA RemoveFromLevelKeepsBook ==
  ASSUME BookPart,
         NEW id \in DOMAIN orders,
         NEW k \in 1 .. Len(queue[orders[id].side][orders[id].price]),
         queue[orders[id].side][orders[id].price][k].id = id,
         RemoveFromLevel(id, k),
         SoundFor(best'),
         total' \in [Sides -> [Prices -> Int]]
  PROVE  BookPart'
  <1> DEFINE s == orders[id].side
             p == orders[id].price
             q == queue[s][p]
             nq == Unlink(q, k)
  <1>1. /\ s \in Sides /\ p \in Prices /\ q \in Seq(Node)
        /\ k \in 1 .. Len(q) /\ q[k].id = id
        /\ id \in OrderIds
    BY DEF BookPart, BookTypes, RestingOrder
  <1>2. /\ orders' = [i \in DOMAIN orders \ {id} |-> orders[i]]
        /\ queue' = [queue EXCEPT ![s][p] = nq]
        /\ levels' = [levels EXCEPT ![s] = IF Len(q) = 1 THEN @ \ {p} ELSE @]
        /\ ordersUsed' = ordersUsed - 1
        /\ listUsed' = [listUsed EXCEPT ![s] = @ - 1]
    BY <1>1 DEF RemoveFromLevel, BookPart, BookTypes, DropEmpty
  <1>3. s = orders[id].side /\ p = orders[id].price /\ q = queue[s][p]
    OBVIOUS
  <1> HIDE DEF s, p, q
  <1>4. /\ nq \in Seq(Node) /\ Len(nq) = Len(q) - 1 /\ Len(q) \in Nat
        /\ \A j \in 1 .. Len(q) - 1 : nq[j] = IF j < k THEN q[j] ELSE q[j + 1]
    BY <1>1, UnlinkNodes, SMTT(40)
  <1> HIDE DEF nq
  <1>5. \A j \in 1 .. Len(nq) :
           \E l \in 1 .. Len(q) : /\ nq[j] = q[l] /\ l # k
                                 /\ l = IF j < k THEN j ELSE j + 1
    BY <1>1, <1>4
  <1>6. \A l \in 1 .. Len(q) : l # k => \E j \in 1 .. Len(nq) : nq[j] = q[l]
    <2> SUFFICES ASSUME NEW l \in 1 .. Len(q), l # k
                 PROVE  \E j \in 1 .. Len(nq) : nq[j] = q[l]
      OBVIOUS
    <2>1. CASE l < k
      <3>1. l \in 1 .. Len(nq) /\ nq[l] = q[l]
        BY <2>1, <1>1, <1>4
      <3> QED
        BY <3>1
    <2>2. CASE l > k
      <3>1. l - 1 \in 1 .. Len(nq) /\ nq[l - 1] = q[l]
        BY <2>2, <1>1, <1>4
      <3> QED
        BY <3>1
    <2> QED
      BY <2>1, <2>2, <1>1
  <1>7. nq = << >> <=> Len(q) = 1
    BY <1>1, <1>4
  <1>8. /\ \A t \in Sides, r \in Prices : ~(t = s /\ r = p) =>
             queue'[t][r] = queue[t][r]
        /\ queue'[s][p] = nq
        /\ \A t \in Sides, r \in Prices : r \in levels'[t] <=>
             r \in levels[t] /\ ~(t = s /\ r = p /\ Len(q) = 1)
        /\ \A t \in Sides : levels'[t] \subseteq levels[t]
    BY <1>1, <1>2 DEF BookPart, BookTypes
  <1>9. /\ DOMAIN orders' = DOMAIN orders \ {id}
        /\ \A i \in DOMAIN orders' : i # id /\ orders'[i] = orders[i]
    BY <1>2
  <1>10. \A t \in Sides, r \in Prices : \A j \in 1 .. Len(queue[t][r]) :
            NodeIsOrder(queue[t][r][j], t, r)
    BY DEF BookPart, BookConsistent, NodesAreOrders
  <1>10a. \A j, l \in 1 .. Len(q) : q[j].id = q[l].id => j = l
    BY <1>1, <1>3 DEF BookPart, BookConsistent, NodesAreDistinct
  <1>11. BookTypes'
    <2>1. queue' \in [Sides -> [Prices -> Seq(Node)]]
      BY <1>1, <1>2, <1>4, SMTT(40) DEF BookPart, BookTypes
    <2>2. levels' \in [Sides -> SUBSET Prices]
      BY <1>1, <1>2, SMTT(40) DEF BookPart, BookTypes
    <2>3. DOMAIN orders' \subseteq OrderIds
      BY <1>9 DEF BookPart, BookTypes
    <2>4. \A i \in DOMAIN orders' : orders'[i] \in RestingOrder
      BY <1>9 DEF BookPart, BookTypes
    <2>5. ordersUsed' \in Int /\ listUsed' \in [Sides -> Int]
      BY <1>1, <1>2, SMTT(40) DEF BookPart, BookTypes
    <2> QED
      BY <2>1, <2>2, <2>3, <2>4, <2>5 DEF BookTypes, SoundFor
  <1>12. NodesAreOrders'
    <2> SUFFICES ASSUME NEW t \in Sides, NEW r \in Prices,
                        NEW j \in 1 .. Len(queue'[t][r])
                 PROVE  NodeIsOrder(queue[t][r][j], t, r)'
      BY DEF NodesAreOrders
    <2>1. CASE t = s /\ r = p
      <3>1. PICK l \in 1 .. Len(q) : nq[j] = q[l] /\ l # k
        BY <2>1, <1>5, <1>8
      <3>2. queue'[t][r][j] = queue[t][r][l] /\ l \in 1 .. Len(queue[t][r])
        BY <2>1, <3>1, <1>3, <1>8
      <3>3. queue[t][r][l].id # id
        BY <2>1, <3>1, <1>1, <1>3, <1>10a, SMTT(40)
      <3> QED
        BY <3>2, <3>3, <1>9, <1>10 DEF NodeIsOrder
    <2>2. CASE ~(t = s /\ r = p)
      <3>1. queue'[t][r] = queue[t][r]
        BY <2>2, <1>8
      <3>2. queue[t][r][j].id # id
        BY <2>2, <3>1, <1>3, <1>10 DEF NodeIsOrder
      <3> QED
        BY <3>1, <3>2, <1>9, <1>10 DEF NodeIsOrder
    <2> QED
      BY <2>1, <2>2
  <1>13. NodesAreDistinct'
    <2> SUFFICES ASSUME NEW t \in Sides, NEW r \in Prices,
                        NEW j \in 1 .. Len(queue'[t][r]),
                        NEW l \in 1 .. Len(queue'[t][r]),
                        queue'[t][r][j].id = queue'[t][r][l].id
                 PROVE  j = l
      BY DEF NodesAreDistinct
    <2>1. CASE t = s /\ r = p
      <3>1. j \in 1 .. Len(nq) /\ l \in 1 .. Len(nq) /\ nq[j].id = nq[l].id
        BY <2>1, <1>8
      <3>2. PICK a \in 1 .. Len(q) : nq[j] = q[a] /\ a = IF j < k THEN j ELSE j + 1
        BY <3>1, <1>5
      <3>3. PICK b \in 1 .. Len(q) : nq[l] = q[b] /\ b = IF l < k THEN l ELSE l + 1
        BY <3>1, <1>5
      <3>4. a = b
        BY <3>1, <3>2, <3>3, <1>10a
      <3> QED
        BY <3>1, <3>2, <3>3, <3>4, <1>1, <1>4
    <2>2. CASE ~(t = s /\ r = p)
      <3>1. queue'[t][r] = queue[t][r]
        BY <2>2, <1>8
      <3>2. NodesAreDistinct
        BY DEF BookPart, BookConsistent
      <3> QED
        BY <3>1, <3>2 DEF NodesAreDistinct
    <2> QED
      BY <2>1, <2>2
  <1>14. OrdersHaveNodes'
    <2> SUFFICES ASSUME NEW i \in DOMAIN orders'
                 PROVE  \E j \in 1 .. Len(queue'[orders'[i].side][orders'[i].price]) :
                          queue'[orders'[i].side][orders'[i].price][j].id = i
      BY DEF OrdersHaveNodes
    <2>1. i \in DOMAIN orders /\ i # id /\ orders'[i] = orders[i]
      BY <1>9
    <2>2. PICK j \in 1 .. Len(queue[orders[i].side][orders[i].price]) :
            queue[orders[i].side][orders[i].price][j].id = i
      BY <2>1 DEF BookPart, BookConsistent, OrdersHaveNodes
    <2>3. orders[i].side \in Sides /\ orders[i].price \in Prices
      BY <2>1, SMTT(40) DEF BookPart, BookTypes, RestingOrder
    <2>4. CASE orders[i].side = s /\ orders[i].price = p
      <3>1. j \in 1 .. Len(q) /\ q[j].id = i /\ j # k
        BY <2>1, <2>2, <2>4, <1>1, <1>3
      <3>2. PICK l \in 1 .. Len(nq) : nq[l] = q[j]
        BY <3>1, <1>6
      <3> QED
        BY <3>1, <3>2, <2>1, <2>4, <1>8
    <2>5. CASE ~(orders[i].side = s /\ orders[i].price = p)
      BY <2>1, <2>2, <2>3, <2>5, <1>8, SMTT(40)
    <2> QED
      BY <2>4, <2>5
  <1>15. LevelsHaveOrders'
    <2>1. \A t \in Sides, r \in Prices : r \in levels[t] <=> queue[t][r] # << >>
      BY DEF BookPart, BookConsistent, LevelsHaveOrders
    <2>2. q # << >>
      BY <1>1
    <2> QED
      <3> SUFFICES ASSUME NEW t \in Sides, NEW r \in Prices
                   PROVE  r \in levels'[t] <=> queue'[t][r] # << >>
        BY DEF LevelsHaveOrders
      <3>1. CASE t = s /\ r = p
        BY <3>1, <2>1, <2>2, <1>1, <1>3, <1>7, <1>8
      <3>2. CASE ~(t = s /\ r = p)
        BY <3>2, <2>1, <1>8
      <3> QED
        BY <3>1, <3>2
  <1>16. CacheSound'
    BY <1>8 DEF SoundFor, CacheSound
  <1>17. NotCrossed'
    BY <1>9 DEF BookPart, NotCrossed
  <1> QED
    BY <1>11, <1>12, <1>13, <1>14, <1>15, <1>16, <1>17 DEF BookPart, BookConsistent

(* Taking fewer lots than remain from an order and from its list node      *)
(* leaves both well formed and in agreement.                               *)
LEMMA ReduceNode ==
  ASSUME NEW n \in Node, NEW r \in RestingOrder, NEW lots \in Nat,
         n.lots = Remaining(r), lots < Remaining(r)
  PROVE  LET nn == [n EXCEPT !.lots = ClampedMinus(@, lots)]
             nr == [r EXCEPT !.filled = @ + lots]
         IN  /\ nn \in Node /\ nn.id = n.id /\ nn.lots > 0
             /\ nr \in RestingOrder /\ nr.side = r.side /\ nr.price = r.price
             /\ nn.lots = Remaining(nr)
  BY DEF Node, RestingOrder, Remaining, ClampedMinus

(* A partial fill of the oldest order of a level keeps the book sound.     *)
LEMMA ReduceFrontKeepsBook ==
  ASSUME BookPart,
         NEW s \in Sides, NEW p \in Prices, queue[s][p] # << >>,
         NEW lots \in Nat, lots < Remaining(orders[queue[s][p][1].id]),
         ReduceFront(s, p, lots),
         SoundFor(best'),
         total' \in [Sides -> [Prices -> Int]]
  PROVE  BookPart'
  <1> DEFINE q == queue[s][p]
             id == q[1].id
             nn == [q[1] EXCEPT !.lots = ClampedMinus(@, lots)]
             nq == [q EXCEPT ![1] = nn]
             r == orders[id]
             nr == [r EXCEPT !.filled = @ + lots]
  <1>1. q \in Seq(Node) /\ Len(q) \in Nat /\ Len(q) >= 1 /\ 1 \in 1 .. Len(q)
    BY DEF BookPart, BookTypes
  <1>2. q[1] \in Node
    BY <1>1
  <1>3. NodeIsOrder(q[1], s, p)
    BY <1>1 DEF BookPart, BookConsistent, NodesAreOrders
  <1>4. /\ id \in DOMAIN orders /\ r \in RestingOrder /\ r.side = s /\ r.price = p
        /\ q[1].lots = Remaining(r)
    BY <1>3 DEF NodeIsOrder, BookPart, BookTypes
  <1>5. /\ nn \in Node /\ nn.id = id /\ nn.lots > 0
        /\ nr \in RestingOrder /\ nr.side = s /\ nr.price = p
        /\ nn.lots = Remaining(nr)
    BY <1>2, <1>4, ReduceNode, ZenonT(60)
  <1>7. /\ nq \in Seq(Node) /\ Len(nq) = Len(q) /\ nq[1] = nn
        /\ \A j \in 1 .. Len(q) : j # 1 => nq[j] = q[j]
        /\ \A j \in 1 .. Len(q) : nq[j].id = q[j].id
        /\ nq # << >>
    <2>1. nq \in Seq(Node) /\ Len(nq) = Len(q)
      BY <1>1, <1>5
    <2>2. nq[1] = nn /\ \A j \in 1 .. Len(q) : j # 1 => nq[j] = q[j]
      BY <1>1
    <2>3. \A j \in 1 .. Len(q) : nq[j].id = q[j].id
      BY <2>2, <1>5
    <2> QED
      BY <1>1, <2>1, <2>2, <2>3
  <1>8. /\ \A t \in Sides, u \in Prices : ~(t = s /\ u = p) =>
             queue'[t][u] = queue[t][u]
        /\ queue'[s][p] = nq
    BY <1>1 DEF BookPart, BookTypes, ReduceFront
  <1>9. /\ DOMAIN orders' = DOMAIN orders
        /\ orders'[id] = nr
        /\ \A i \in DOMAIN orders : i # id => orders'[i] = orders[i]
    BY <1>4 DEF ReduceFront
  <1>0. UNCHANGED <<levels, ordersUsed, listUsed>> /\ queue' = [queue EXCEPT ![s][p] = nq]
    BY DEF ReduceFront
  <1>10. id = q[1].id /\ q = queue[s][p] /\ r = orders[id]
    OBVIOUS
  <1> HIDE DEF nn, nq, nr, r, id, q
  <1>11. \A i \in DOMAIN orders : /\ orders'[i].side = orders[i].side
                                  /\ orders'[i].price = orders[i].price
    BY <1>4, <1>5, <1>9, <1>10
  <1>12. BookTypes'
    <2>1. queue' \in [Sides -> [Prices -> Seq(Node)]]
      BY <1>0, <1>7 DEF BookPart, BookTypes
    <2>2. \A i \in DOMAIN orders' : orders'[i] \in RestingOrder
      BY <1>5, <1>9 DEF BookPart, BookTypes
    <2> QED
      BY <2>1, <2>2, <1>0, <1>9 DEF BookPart, BookTypes, SoundFor
  <1>13. NodesAreOrders'
    <2> SUFFICES ASSUME NEW t \in Sides, NEW u \in Prices,
                        NEW j \in 1 .. Len(queue'[t][u])
                 PROVE  NodeIsOrder(queue[t][u][j], t, u)'
      BY DEF NodesAreOrders
    <2>1. CASE t = s /\ u = p /\ j = 1
      BY <2>1, <1>4, <1>5, <1>7, <1>8, <1>9 DEF NodeIsOrder
    <2>2. CASE t = s /\ u = p /\ j # 1
      <3>1. /\ j \in 1 .. Len(q) /\ queue'[t][u][j] = q[j]
            /\ NodeIsOrder(q[j], s, p)
        BY <2>2, <1>7, <1>8, <1>10 DEF BookPart, BookConsistent, NodesAreOrders
      <3>2. q[j].id # id
        BY <3>1, <2>2, <1>1, <1>10 DEF BookPart, BookConsistent, NodesAreDistinct
      <3> QED
        BY <3>1, <3>2, <2>2, <1>9 DEF NodeIsOrder
    <2>3. CASE ~(t = s /\ u = p)
      <3>1. queue'[t][u] = queue[t][u] /\ NodeIsOrder(queue[t][u][j], t, u)
        BY <2>3, <1>8 DEF BookPart, BookConsistent, NodesAreOrders
      <3>2. queue[t][u][j].id # id
        BY <3>1, <2>3, <1>4, <1>10, SMTT(40) DEF NodeIsOrder
      <3> QED
        BY <3>1, <3>2, <1>9 DEF NodeIsOrder
    <2> QED
      BY <2>1, <2>2, <2>3
  <1>14. \A t \in Sides, u \in Prices :
            /\ Len(queue'[t][u]) = Len(queue[t][u])
            /\ \A j \in 1 .. Len(queue[t][u]) : queue'[t][u][j].id = queue[t][u][j].id
            /\ queue'[t][u] # << >> <=> queue[t][u] # << >>
    <2> SUFFICES ASSUME NEW t \in Sides, NEW u \in Prices
                 PROVE  /\ Len(queue'[t][u]) = Len(queue[t][u])
                        /\ \A j \in 1 .. Len(queue[t][u]) :
                             queue'[t][u][j].id = queue[t][u][j].id
                        /\ queue'[t][u] # << >> <=> queue[t][u] # << >>
      OBVIOUS
    <2>1. CASE t = s /\ u = p
      BY <2>1, <1>7, <1>8, <1>10
    <2>2. CASE ~(t = s /\ u = p)
      BY <2>2, <1>8
    <2> QED
      BY <2>1, <2>2
  <1>15. NodesAreDistinct'
    BY <1>14, SMTT(40) DEF BookPart, BookConsistent, NodesAreDistinct
  <1>16. OrdersHaveNodes'
    <2> SUFFICES ASSUME NEW i \in DOMAIN orders
                 PROVE  \E j \in 1 .. Len(queue'[orders[i].side][orders[i].price]) :
                          queue'[orders[i].side][orders[i].price][j].id = i
      BY <1>9, <1>11 DEF OrdersHaveNodes
    <2>1. orders[i].side \in Sides /\ orders[i].price \in Prices
      BY DEF BookPart, BookTypes, RestingOrder
    <2>2. PICK j \in 1 .. Len(queue[orders[i].side][orders[i].price]) :
            queue[orders[i].side][orders[i].price][j].id = i
      BY DEF BookPart, BookConsistent, OrdersHaveNodes
    <2> QED
      BY <2>1, <2>2, <1>14
  <1>17. LevelsHaveOrders'
    BY <1>0, <1>14 DEF BookPart, BookConsistent, LevelsHaveOrders
  <1>18. CacheSound'
    BY <1>0 DEF SoundFor, CacheSound
  <1>19. NotCrossed'
    BY <1>9, <1>11 DEF BookPart, NotCrossed
  <1> QED
    BY <1>12, <1>13, <1>15, <1>16, <1>17, <1>18, <1>19 DEF BookPart, BookConsistent

(* get_best_price_cached returns the best price of a sound book, and None  *)
(* only when the book is empty.                                            *)
LEMMA BestPriceIsBest ==
  ASSUME BookPart, NEW s \in Sides, NEW p \in Prices \cup {NoPrice},
         BestPriceIs(s, p)
  PROVE  /\ p = NoPrice => levels[s] = {}
         /\ p # NoPrice => p \in levels[s] /\ queue[s][p] # << >>
         /\ \A u \in levels[s] : NoWorse(s, p, u)
  <1>1. /\ levels[s] \subseteq Prices /\ NoPrice \notin Prices
        /\ \A u \in Prices : u \in levels[s] <=> queue[s][u] # << >>
    BY PricesAssumption DEF BookPart, BookTypes, BookConsistent, LevelsHaveOrders, NoPrice
  <1>2. CASE best[s] \in levels[s] /\ queue[s][best[s]] # << >>
    BY <1>1, <1>2 DEF BestPriceIs, BookPart, CacheSound
  <1>3. CASE ~(best[s] \in levels[s] /\ queue[s][best[s]] # << >>)
    <2>1. CASE IsBestWithOrders(s, p)
      BY <1>1, <2>1 DEF IsBestWithOrders
    <2>2. CASE p = NoPrice /\ \A u \in levels[s] : queue[s][u] = << >>
      BY <1>1, <2>2
    <2> QED
      BY <1>3, <2>1, <2>2 DEF BestPriceIs
  <1> QED
    BY <1>2, <1>3

(* The prices of resting orders are levels of their book.                  *)
LEMMA OrderPricesAreLevels ==
  ASSUME BookPart, NEW i \in DOMAIN orders
  PROVE  /\ orders[i].side \in Sides /\ orders[i].price \in Prices
         /\ orders[i].price \in levels[orders[i].side]
  <1>1. orders[i].side \in Sides /\ orders[i].price \in Prices
    BY DEF BookPart, BookTypes, RestingOrder
  <1>2. queue[orders[i].side][orders[i].price] # << >>
    BY <1>1 DEF BookPart, BookTypes, BookConsistent, OrdersHaveNodes
  <1> QED
    BY <1>1, <1>2 DEF BookPart, BookConsistent, LevelsHaveOrders
=============================================================================

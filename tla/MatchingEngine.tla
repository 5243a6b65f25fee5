--------------------------- MODULE MatchingEngine ---------------------------
(***************************************************************************)
(* The matching engine of one symbol (src/src/matching/engine.rs), with    *)
(* the two price-level books it keeps (skiplist.rs), the FIFO list of a    *)
(* level (list_pool.rs) and the object pools (pools.rs).                   *)
(*                                                                         *)
(* place_order runs to completion on one thread.  Its matching loop is     *)
(* modelled one trade at a time, so the invariants below also say what     *)
(* holds at the head of that loop.                                         *)
(***************************************************************************)
EXTENDS Integers, Sequences, FiniteSets, FiniteSetsExt

CONSTANTS
  OrderIds,        \* client order ids
  Prices,          \* limit prices, in ticks
  Lots,            \* order quantities, in lots
  OrderCapacity,   \* PoolConfig.order_capacity: order slots, and trade slots
  QueueCapacity    \* PoolConfig.queue_capacity: list nodes of each book

ASSUME PricesAssumption == Prices \subseteq Nat \ {0}
ASSUME LotsAssumption == Lots \subseteq Nat \ {0}
ASSUME CapacityAssumption == OrderCapacity \in Nat /\ QueueCapacity \in Nat

VARIABLES
  orders,       \* resting orders by id: the HashMap and the pool slots it points to
  levels,       \* levels[s]: the prices that have a node in the book of side s
  queue,        \* queue[s][p]: the list nodes of that level, oldest first
  total,        \* total[s][p]: total_quantity_lots of that level
  best,         \* best[s]: the cached best price of the book
  ordersUsed,   \* allocated count of the order pool
  listUsed,     \* listUsed[s]: allocated count of the list pool of side s
  tradesUsed,   \* allocated count of the trade pool
  phase,        \* "matching" while place_order is inside match_order
  taker,        \* the order being matched
  filled,       \* the local variable `filled` of match_order
  fills,        \* fills of the current or last request, in execution order
  outcome       \* the result of the last request

bookVars == <<orders, levels, queue, total, ordersUsed, listUsed>>
vars == <<orders, levels, queue, total, best, ordersUsed, listUsed,
          tradesUsed, phase, taker, filled, fills, outcome>>

-----------------------------------------------------------------------------
Sides == {"buy", "sell"}
TimeInForce == {"GTC", "IOC", "FOK", "PostOnly"}
Kinds == {"limit", "market"}
NoPrice == 0        \* Option::None in the best-price cache

Busy == phase = "matching"

Opposite(s) == IF s = "buy" THEN "sell" ELSE "buy"

(* Orders a caller may hand to place_order.  Order::new_market fixes the   *)
(* price and the time in force of a market order.                          *)
Requests ==
  {o \in [id : OrderIds, side : Sides, price : Prices \cup {0},
          qty : Lots \cup {0}, tif : TimeInForce, kind : Kinds] :
     o.kind = "market" => o.price = 0 /\ o.tif = "IOC"}

RestingOrder == [side : Sides, price : Prices, qty : Nat, filled : Nat]
Node == [id : OrderIds, lots : Nat]
Fill == [maker : OrderIds, price : Prices, lots : Nat]

Idle == [status |-> "None"]
Result(o, status, f) ==
  [status |-> status, tif |-> o.tif, qty |-> o.qty, filled |-> f]
Errors == {"InvalidPrice", "InvalidQuantity", "DuplicateOrderId",
           "OrderPoolExhausted", "NodePoolExhausted"}
Statuses == {"Accepted", "PartiallyFilled", "Filled", "Rejected"}
NoTaker == [side |-> "buy"]

MutantRemaining(m) == m.filled - m.qty

(* The Order fields and remaining_lots.                                    *)
Remaining(m) == m.qty - m.filled

(* (a - b).max(0)                                                          *)
ClampedMinus(a, b) == IF a >= b THEN a - b ELSE 0

(* Price p is at least as good as q for the book of side s: the sort order *)
(* of the skip list.                                                       *)
NoWorse(s, p, q) == IF s = "buy" THEN p >= q ELSE p <= q

MutantAccepts(o, p) ==
  \/ o.kind = "market"
  \/ IF o.side = "buy" THEN o.price > p ELSE o.price < p

(* The limit of order o accepts a trade at price p.                        *)
Accepts(o, p) ==
  \/ o.kind = "market"
  \/ IF o.side = "buy" THEN o.price >= p ELSE o.price <= p

-----------------------------------------------------------------------------
MutantAnyWithOrders(s, p) == p \in levels[s] /\ queue[s][p] # <<>>

(* best_with_orders: the first node of the list that has orders.           *)
IsBestWithOrders(s, p) ==
  /\ p \in levels[s] /\ queue[s][p] # <<>>
  /\ \A q \in levels[s] : queue[s][q] # <<>> => NoWorse(s, p, q)

(* get_best_price_cached returns p: the cached price while that level has  *)
(* orders, otherwise the first level that has some, or None.               *)
BestPriceIs(s, p) ==
  IF best[s] \in levels[s] /\ queue[s][best[s]] # <<>>
  THEN p = best[s]
  ELSE \/ IsBestWithOrders(s, p)
       \/ p = NoPrice /\ \A q \in levels[s] : queue[s][q] = <<>>

(* handle_post_only compares with best(): the first node, whatever it holds. *)
WouldMatch(o) ==
  LET s == Opposite(o.side)
  IN  /\ levels[s] # {}
      /\ \A p \in levels[s] :
           (\A q \in levels[s] : NoWorse(s, p, q)) => Accepts(o, p)

MutantFokLevels(o) == levels[Opposite(o.side)]

(* The levels has_cumulative_quantity_until walks before it meets a price  *)
(* the order does not accept.                                              *)
FokLevels(o) == {p \in levels[Opposite(o.side)] : Accepts(o, p)}

(* can_fill_fok: the lots at acceptable prices suffice.                    *)
CanFillFok(o) ==
  /\ FokLevels(o) # {}
  /\ MapThenSumSet(LAMBDA p : total[Opposite(o.side)][p], FokLevels(o)) >= o.qty

(* validate_order and the checks place_order makes before it dispatches.   *)
RefusalOf(o) ==
  IF o.kind = "limit" /\ o.price <= 0 THEN "InvalidPrice"
  ELSE IF o.qty <= 0 THEN "InvalidQuantity"
  ELSE IF o.id \in DOMAIN orders THEN "DuplicateOrderId"
  ELSE IF ordersUsed >= OrderCapacity \/ QueueCapacity = 0
       THEN "OrderPoolExhausted"
  ELSE "None"

-----------------------------------------------------------------------------
Init ==
  /\ orders = << >>
  /\ levels = [s \in Sides |-> {}]
  /\ queue = [s \in Sides |-> [p \in Prices |-> << >>]]
  /\ total = [s \in Sides |-> [p \in Prices |-> 0]]
  /\ best = [s \in Sides |-> NoPrice]
  /\ ordersUsed = 0 /\ listUsed = [s \in Sides |-> 0] /\ tradesUsed = 0
  /\ phase = "idle" /\ taker = NoTaker /\ filled = 0
  /\ fills = << >> /\ outcome = Idle

MutantPushBack(q, n) == <<n>> \o q

(* PooledList::push_back.                                                  *)
PushBack(q, n) == Append(q, n)

MutantCacheOnRest(b, o) == b

(* invalidate_best_price of the book the order rests in.                   *)
CacheOnRest(b, o) == [b EXCEPT ![o.side] = NoPrice]

MutantUndoLevel(o) ==
  levels' = [levels EXCEPT ![o.side] = @ \cup {o.price}]

(* insert_level may have created the level of an order that then found no  *)
(* list node: a level left without orders is removed again.                *)
UndoLevel(o) ==
  levels' = [levels EXCEPT ![o.side] =
               IF queue[o.side][o.price] = <<>> THEN @ \ {o.price} ELSE @]

(* add_to_book links o at the back of its level, creating the level when   *)
(* it is missing, and invalidates the cache of its side; b is the cache    *)
(* before that.  With no list node left it gives the order slot back,      *)
(* drops the level it may have created and fails.                          *)
AddToBook(o, f, b, status) ==
  IF listUsed[o.side] < QueueCapacity
  THEN /\ orders' = [i \in DOMAIN orders \cup {o.id} |->
                       IF i = o.id THEN [side |-> o.side, price |-> o.price,
                                         qty |-> o.qty, filled |-> f]
                       ELSE orders[i]]
       /\ levels' = [levels EXCEPT ![o.side] = @ \cup {o.price}]
       /\ queue' = [queue EXCEPT ![o.side][o.price] =
                      PushBack(@, [id |-> o.id, lots |-> o.qty - f])]
       /\ total' = [total EXCEPT ![o.side][o.price] = @ + (o.qty - f)]
       /\ ordersUsed' = ordersUsed + 1
       /\ listUsed' = [listUsed EXCEPT ![o.side] = @ + 1]
       /\ best' = CacheOnRest(b, o)
       /\ outcome' = Result(o, status, f)
  ELSE /\ UndoLevel(o)
       /\ UNCHANGED <<orders, queue, total, ordersUsed, listUsed>>
       /\ best' = b
       /\ outcome' = Result(o, "NodePoolExhausted", f)

(* place_order returns before touching the book.                           *)
RefuseOrder(o) ==
  /\ ~Busy
  /\ RefusalOf(o) # "None"
  /\ outcome' = Result(o, RefusalOf(o), 0) /\ fills' = << >>
  /\ UNCHANGED <<bookVars, best, tradesUsed, phase, taker, filled>>

(* handle_post_only.                                                       *)
PlacePostOnly(o) ==
  /\ ~Busy
  /\ RefusalOf(o) = "None" /\ o.kind = "limit" /\ o.tif = "PostOnly"
  /\ fills' = << >>
  /\ IF WouldMatch(o)
     THEN outcome' = Result(o, "Rejected", 0) /\ UNCHANGED <<bookVars, best>>
     ELSE AddToBook(o, 0, best, "Accepted")
  /\ UNCHANGED <<tradesUsed, phase, taker, filled>>

(* handle_fok, when the pre-check fails.                                   *)
KillFok(o) ==
  /\ ~Busy
  /\ RefusalOf(o) = "None" /\ o.kind = "limit" /\ o.tif = "FOK"
  /\ ~CanFillFok(o)
  /\ outcome' = Result(o, "Rejected", 0) /\ fills' = << >>
  /\ UNCHANGED <<bookVars, best, tradesUsed, phase, taker, filled>>

(* handle_market_order, handle_ioc, handle_gtc, and handle_fok after its   *)
(* pre-check, enter match_order.                                           *)
BeginMatch(o) ==
  /\ ~Busy
  /\ RefusalOf(o) = "None"
  /\ o.kind = "market" \/ o.tif \in {"GTC", "IOC"} \/ (o.tif = "FOK" /\ CanFillFok(o))
  /\ phase' = "matching" /\ taker' = o /\ filled' = 0
  /\ fills' = << >> /\ outcome' = Idle
  /\ UNCHANGED <<bookVars, best, tradesUsed>>

(* PooledList::remove takes node k out of the list.                        *)
Unlink(q, k) ==
  [j \in 1 .. (Len(q) - 1) |-> IF j < k THEN q[j] ELSE q[j + 1]]

MutantDropEmpty(s, p) == levels[s]

(* remove_level once the last order of a level has gone.                   *)
DropEmpty(s, p) == IF Len(queue[s][p]) = 1 THEN levels[s] \ {p} ELSE levels[s]

(* remove_order_at_level takes resting order id, node k of its level, out  *)
(* of the book; the slot and the list node go back to their pools, and a   *)
(* level left empty goes with them.                                        *)
RemoveFromLevel(id, k) ==
  LET s == orders[id].side
      p == orders[id].price
  IN  /\ orders' = [i \in DOMAIN orders \ {id} |-> orders[i]]
      /\ queue' = [queue EXCEPT ![s][p] = Unlink(@, k)]
      /\ levels' = [levels EXCEPT ![s] = DropEmpty(s, p)]
      /\ ordersUsed' = ordersUsed - 1
      /\ listUsed' = [listUsed EXCEPT ![s] = @ - 1]

(* The maker's fill and reduce_order_quantity_at_level: the oldest order   *)
(* of a level and its list node lose the traded lots.                      *)
ReduceFront(s, p, lots) ==
  /\ orders' = [orders EXCEPT ![queue[s][p][1].id].filled = @ + lots]
  /\ queue' = [queue EXCEPT ![s][p][1].lots = ClampedMinus(@, lots)]
  /\ UNCHANGED <<levels, ordersUsed, listUsed>>

MutantLessFilled(t, lots) == t

(* total_quantity_lots of a level after reduce_order_quantity_at_level.    *)
LessFilled(t, lots) == ClampedMinus(t, lots)

(* One turn of the inner loop of match_order: trade with the oldest order  *)
(* of the best opposite level, and remove it when it is filled.  A trade   *)
(* slot is taken after the maker and its node were reduced; without one    *)
(* match_order fails there.                                                *)
TradeAt(p) ==
  LET s    == Opposite(taker.side)
      node == queue[s][p][1]
      m    == orders[node.id]
      lots == IF taker.qty - filled <= Remaining(m)
              THEN taker.qty - filled ELSE Remaining(m)
      slot == tradesUsed < OrderCapacity
  IN
  /\ Accepts(taker, p)
  /\ best' = [best EXCEPT ![s] = p]
  /\ fills' = Append(fills, [maker |-> node.id, price |-> p, lots |-> lots])
  /\ filled' = filled + lots
  /\ tradesUsed' = IF slot THEN tradesUsed + 1 ELSE tradesUsed
  /\ phase' = IF slot THEN "matching" ELSE "idle"
  /\ outcome' = IF slot THEN outcome
                ELSE Result(taker, "OrderPoolExhausted", filled + lots)
  /\ IF slot /\ lots = Remaining(m)
     THEN /\ RemoveFromLevel(node.id, 1)
          /\ total' = [total EXCEPT ![s][p] = LessFilled(@, lots) -
                                             ClampedMinus(node.lots, lots)]
     ELSE /\ ReduceFront(s, p, lots)
          /\ total' = [total EXCEPT ![s][p] = LessFilled(@, lots)]
  /\ UNCHANGED taker

Trade ==
  /\ Busy /\ filled < taker.qty
  /\ \E p \in Prices : BestPriceIs(Opposite(taker.side), p) /\ TradeAt(p)

(* The status the handlers derive from the filled quantity.                *)
StatusOf(o, f) ==
  IF o.tif = "FOK" \/ f >= o.qty THEN "Filled"
  ELSE IF f > 0 THEN "PartiallyFilled"
  ELSE IF o.tif = "GTC" THEN "Accepted" ELSE "Rejected"

MutantLeaveMatch ==
  /\ phase' = "idle" /\ taker' = NoTaker /\ filled' = 0
  /\ UNCHANGED <<tradesUsed, fills>>

(* match_order gives its trade slots back and returns.                     *)
LeaveMatch ==
  /\ tradesUsed' = 0
  /\ phase' = "idle" /\ taker' = NoTaker /\ filled' = 0
  /\ UNCHANGED fills

(* match_order returns: the taker is filled, or no acceptable price is     *)
(* left.  handle_gtc rests the remainder of a GTC order.                   *)
FinishMatch(b) ==
  /\ IF filled < taker.qty /\ taker.tif = "GTC" /\ taker.kind = "limit"
     THEN AddToBook(taker, filled, b, StatusOf(taker, filled))
     ELSE /\ outcome' = Result(taker, StatusOf(taker, filled), filled)
          /\ best' = b /\ UNCHANGED bookVars
  /\ LeaveMatch

MatchFilled ==
  /\ Busy /\ filled >= taker.qty
  /\ FinishMatch(best)

MatchExhausted ==
  /\ Busy /\ filled < taker.qty
  /\ LET s == Opposite(taker.side)
     IN  \E p \in Prices \cup {NoPrice} :
           /\ BestPriceIs(s, p)
           /\ p = NoPrice \/ ~Accepts(taker, p)
           /\ FinishMatch([best EXCEPT ![s] = p])

(* cancel_order of a resting order: remove_from_book finds its node; the   *)
(* cache is left alone.  Cancelling an order that does not rest changes    *)
(* nothing.                                                                *)
CancelOrder(id) ==
  /\ ~Busy
  /\ id \in DOMAIN orders
  /\ LET q == queue[orders[id].side][orders[id].price]
     IN  \E k \in 1 .. Len(q) :
           /\ q[k].id = id
           /\ RemoveFromLevel(id, k)
           /\ total' = [total EXCEPT ![orders[id].side][orders[id].price] =
                          @ - q[k].lots]
  /\ outcome' = Idle /\ fills' = << >>
  /\ UNCHANGED <<best, tradesUsed, phase, taker, filled>>

Next ==
  \/ \E o \in Requests : \/ RefuseOrder(o)
                         \/ PlacePostOnly(o)
                         \/ KillFok(o)
                         \/ BeginMatch(o)
  \/ Trade
  \/ MatchFilled
  \/ MatchExhausted
  \/ \E id \in OrderIds : CancelOrder(id)

Spec == Init /\ [][Next]_vars

-----------------------------------------------------------------------------
(* Types of the variables.                                                 *)
TypeOK ==
  /\ DOMAIN orders \subseteq OrderIds
  /\ \A i \in DOMAIN orders : orders[i] \in RestingOrder
  /\ levels \in [Sides -> SUBSET Prices]
  /\ queue \in [Sides -> [Prices -> Seq(Node)]]
  /\ total \in [Sides -> [Prices -> Int]]
  /\ best \in [Sides -> Prices \cup {NoPrice}]
  /\ ordersUsed \in Int /\ tradesUsed \in Nat /\ listUsed \in [Sides -> Int]
  /\ phase \in {"idle", "matching"} /\ filled \in Nat
  /\ Busy => taker \in Requests
  /\ fills \in Seq(Fill)
  /\ outcome.status \in Statuses \cup Errors \cup {"None"}

(* The list nodes of the levels and the order index describe the same      *)
(* resting orders: a node belongs to an order resting at that side and     *)
(* price and carries its remaining lots, no order has two nodes, no order  *)
(* is without one, and a level without orders has no node.  The branches   *)
(* of match_order that drop stale nodes are unreachable exactly because    *)
(* this holds.                                                             *)
NodeIsOrder(n, s, p) ==
  /\ n.id \in DOMAIN orders
  /\ orders[n.id].side = s /\ orders[n.id].price = p
  /\ n.lots = Remaining(orders[n.id]) /\ n.lots > 0
NodesAreOrders ==
  \A s \in Sides, p \in Prices : \A k \in 1 .. Len(queue[s][p]) :
    NodeIsOrder(queue[s][p][k], s, p)
NodesAreDistinct ==
  \A s \in Sides, p \in Prices : \A k, l \in 1 .. Len(queue[s][p]) :
    queue[s][p][k].id = queue[s][p][l].id => k = l
OrdersHaveNodes ==
  \A i \in DOMAIN orders :
    \E k \in 1 .. Len(queue[orders[i].side][orders[i].price]) :
      queue[orders[i].side][orders[i].price][k].id = i
LevelsHaveOrders ==
  \A s \in Sides, p \in Prices : p \in levels[s] <=> queue[s][p] # << >>
BookConsistent ==
  NodesAreOrders /\ NodesAreDistinct /\ OrdersHaveNodes /\ LevelsHaveOrders

(* total_quantity_lots of every level, which the depth feed publishes and  *)
(* the FOK pre-check adds up, is the sum of what rests there.              *)
LevelTotals ==
  \A s \in Sides, p \in Prices :
    total[s][p] =
      MapThenSumSet(LAMBDA i : Remaining(orders[i]),
        {i \in DOMAIN orders : orders[i].side = s /\ orders[i].price = p})

(* A cached best price whose level still has orders is the best price of   *)
(* the book, through every order of inserts, trades and cancels.           *)
CacheSound ==
  \A s \in Sides :
    best[s] \in levels[s] => \A p \in levels[s] : NoWorse(s, best[s], p)

(* No resting bid is at or above a resting ask, also between the trades of *)
(* one match; snapshot_resting relies on it.                               *)
NotCrossed ==
  \A i, j \in DOMAIN orders :
    orders[i].side = "buy" /\ orders[j].side = "sell" =>
      orders[i].price < orders[j].price

(* The allocation counters of the pools agree with what is allocated, so   *)
(* no slot leaks, and a finished request holds no trade slot.              *)
PoolsBalanced ==
  /\ ordersUsed = Cardinality(DOMAIN orders)
  /\ \A s \in Sides :
       listUsed[s] = Cardinality({i \in DOMAIN orders : orders[i].side = s})
  /\ ~Busy => tradesUsed = 0

(* An order refused with an error has traded nothing: place_order cannot   *)
(* run out of trade slots after it changed the book, nor of list nodes     *)
(* when each book has as many of them as there are order slots (the        *)
(* shipped PoolConfig).                                                    *)
ErrorsAreClean ==
  outcome.status \in Errors =>
    \/ fills = << >> /\ outcome.filled = 0
    \/ outcome.status = "NodePoolExhausted" /\ QueueCapacity < OrderCapacity

(* handle_fok reports Filled without looking at the filled quantity: the   *)
(* pre-check on the level totals must have promised the whole quantity.    *)
FokAllOrNothing ==
  outcome.status \in Statuses /\ outcome.tif = "FOK" =>
    \/ outcome.status = "Filled" /\ outcome.filled = outcome.qty
    \/ outcome.status = "Rejected" /\ fills = << >>

(* Every trade is at the best price resting on the other side when it      *)
(* happens, and within the limit of the taker.                             *)
TradesAtBestPrice ==
  [][Busy /\ Len(fills') > Len(fills) =>
       LET p == fills'[Len(fills')].price
           s == Opposite(taker.side)
       IN  /\ Accepts(taker, p)
           /\ \A i \in DOMAIN orders :
                orders[i].side = s => NoWorse(s, p, orders[i].price)]_vars

(* The order inside match_order is not in the book, was validated, and has *)
(* not traded more than its quantity.                                      *)
TakerSound ==
  Busy => /\ taker.id \notin DOMAIN orders
          /\ taker.kind = "market" \/ taker.price \in Prices
          /\ taker.qty \in Lots
          /\ filled <= taker.qty

(* What makes the safety properties of the book inductive.                 *)
BookInv ==
  TypeOK /\ BookConsistent /\ CacheSound /\ NotCrossed /\ TakerSound

(* What makes ErrorsAreClean inductive: a match that still needs lots      *)
(* finds a trade slot for every resting order, because each trade but the  *)
(* last frees an order slot.                                               *)
SlotsInv ==
  /\ IsFiniteSet(DOMAIN orders)
  /\ PoolsBalanced
  /\ Busy => outcome = Idle
  /\ Busy /\ filled < taker.qty => tradesUsed + ordersUsed < OrderCapacity

=============================================================================

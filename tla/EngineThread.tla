---------------------------- MODULE EngineThread ----------------------------
(***************************************************************************)
(* A symbol thread of the exchange engine at work: it starts from what the *)
(* orders table holds (PG seed, src/src/bin/exchange_engine.rs, main) and  *)
(* then serves new orders and cancellations while time passes.             *)
(*                                                                         *)
(* An order id belongs to one participant: ids are given out by the desks  *)
(* (snowflake.rs).  The same id may arrive again, since a trigger order is *)
(* injected again after a restart.                                         *)
(***************************************************************************)
EXTENDS SymbolThread

CONSTANTS
  OrderIds,     \* ids of orders
  Origin,       \* Origin[id]: the participant and response stream of the order
  Prices,       \* limit prices, in ticks
  Lots,         \* order sizes, in lots
  TimesInForce, \* the times in force clients use
  MaxRows,      \* open rows the orders table may hold at start
  MaxNow        \* bound on the clock

ASSUME OriginAssumption == \A id \in OrderIds : Origin[id].who \in Participants
ASSUME BoundsAssumption == MaxRows \in Nat /\ MaxNow \in Nat

VARIABLES
  thread,   \* the state of the thread
  now,      \* now_ns()
  trades,   \* trades of the last request
  update,   \* its order update
  asked     \* side and limit price of its order, if it traded

vars == <<thread, now, trades, update, asked>>

-----------------------------------------------------------------------------
(* Open rows of the orders table: what is left of each order.  Fills that  *)
(* the writers have not stored yet, and rows of filled makers, make a row  *)
(* larger than what the engine last knew, so any amount may be found.      *)
Rows ==
  {r \in [type : {"limit", "market"}, side : {"buy", "sell"},
          price : Prices \cup {0}, lots : Lots \cup {0}] :
     (r.type = "market") <=> (r.price = 0)}

Tables ==
  UNION {[ids -> Rows] : ids \in {S \in SUBSET OrderIds : Cardinality(S) <= MaxRows}}

(* The rows the seed takes: market orders are skipped, as are rows with    *)
(* nothing left.                                                           *)
Restorable(T) == {id \in DOMAIN T : T[id].type # "market" /\ T[id].lots > 0}

(* Every restorable row becomes a GTC order, in the order of the ids.      *)
SeedBook(T) ==
  LET ids == SetToSortSeq(Restorable(T), <)
  IN  [k \in 1 .. AtMost(Len(ids), Capacity) |->
         [id |-> ids[k], side |-> T[ids[k]].side,
          price |-> T[ids[k]].price, lots |-> T[ids[k]].lots]]

Crossed(book) ==
  /\ BestPrice(book, "buy") > 0 /\ BestPrice(book, "sell") > 0
  /\ BestPrice(book, "buy") >= BestPrice(book, "sell")

MutantSeed(T) == SeedBook(T)

(* A crossed book is thrown away with its routes; its rows are cancelled.  *)
Seed(T) == IF Crossed(SeedBook(T)) THEN << >> ELSE SeedBook(T)

(* The seed routes every restored order to the first desk.                 *)
SeedRoutes(book) ==
  [id \in Resting(book) |-> [who |-> Origin[id].who, desk |-> 0]]

-----------------------------------------------------------------------------
(* Orders as the desks send them: a market order is IOC.                   *)
NewOrders ==
  {o \in [id : OrderIds, own : {TRUE}, side : {"buy", "sell"},
          price : Prices \cup {0}, lots : Lots, tif : TimesInForce,
          from : Range(Origin)] :
     o.from = Origin[o.id] /\ (o.price = 0 => o.tif = "IOC")}

NoLimit == [side |-> "buy", price |-> 0]

Init ==
  /\ \E T \in Tables : thread = StartedThread(Seed(T), SeedRoutes(Seed(T)))
  /\ now = 1 /\ trades = << >> /\ update = NoUpdate /\ asked = NoLimit

Perform(handled) ==
  /\ thread' = handled.st
  /\ trades' = handled.trades
  /\ update' = handled.update
  /\ UNCHANGED now

(* InboundMsg::NewOrder.                                                   *)
NewOrder ==
  \E o \in NewOrders :
    /\ Perform(OnNewOrder(thread, o, now))
    /\ asked' = IF trades' = << >> THEN NoLimit
                ELSE [side |-> o.side, price |-> o.price]

(* The same for an order of another symbol, or of no lots.                 *)
MalformedOrder ==
  \E id \in OrderIds, own \in BOOLEAN :
    /\ Perform(OnNewOrder(thread, [id |-> id, own |-> own, lots |-> 0,
                                   from |-> Origin[id]], now))
    /\ asked' = NoLimit

(* InboundMsg::CancelOrder.                                                *)
CancelOrder ==
  \E id \in OrderIds :
    /\ Perform(OnCancel(thread, [id |-> id, from |-> Origin[id]]))
    /\ asked' = NoLimit

Tick ==
  /\ now < MaxNow
  /\ now' = now + 1
  /\ UNCHANGED <<thread, trades, update, asked>>

Next == NewOrder \/ MalformedOrder \/ CancelOrder \/ Tick

Spec == Init /\ [][Next]_vars

-----------------------------------------------------------------------------
RestingOf(who) == {id \in Resting(thread.book) : Origin[id].who = who}

(* Types of the variables.                                                 *)
TypeOK ==
  /\ Resting(thread.book) \subseteq OrderIds
  /\ \A k \in 1 .. Len(thread.book) : thread.book[k].lots > 0
  /\ DOMAIN thread.uid \subseteq OrderIds
  /\ thread.open \in [Participants -> Nat] /\ thread.last \in Nat
  /\ now \in 1 .. MaxNow

(* Every resting order, restored ones included, can be routed: uid_map     *)
(* names the participant that placed it, so the confirmation of its        *)
(* cancellation reaches that participant whoever asked for it.             *)
RoutesKnown ==
  \A id \in Resting(thread.book) :
    id \in DOMAIN thread.uid /\ thread.uid[id].who = Origin[id].who

(* open_counts is in step with uid_map ("kept exactly in sync with uid_map *)
(* insert/remove"): through fills of makers, cancellations and repeated    *)
(* ids the count of a participant is the number of the participant's       *)
(* entries.                                                                *)
CountsInStep ==
  \A p \in Participants \ {Nobody} :
    thread.open[p] = Cardinality({id \in DOMAIN thread.uid : thread.uid[id].who = p})

(* No participant has more orders resting than the cap allows.             *)
CapRespected ==
  MaxOpen > 0 =>
    \A p \in Participants \ {Nobody} : Cardinality(RestingOf(p)) <= MaxOpen

(* The book is not crossed, whatever the orders table held at start.       *)
NotCrossed == ~Crossed(thread.book)

(* A limit order trades within the price band around the mid price or,     *)
(* when the book is empty or one-sided, around the last trade price.       *)
BandedTrades ==
  [][LET bid  == BestPrice(thread.book, "buy")
         ask  == BestPrice(thread.book, "sell")
         ref  == IF bid > 0 /\ ask > 0 THEN (bid + ask) \div 2 ELSE thread.last
         band == (ref * BandBps) \div 10000
     IN  BandBps > 0 /\ ref > 0 /\ asked'.price > 0 =>
           \A n \in DOMAIN trades' :
             IF asked'.side = "buy" THEN trades'[n].price <= ref + band
                                    ELSE trades'[n].price >= ref - band]_vars

(* An order refused because its participant has too many open orders       *)
(* ("resting-order counts") means that so many orders rest.                *)
CapRefusalsJustified ==
  update.status = "Rejected" /\ update.reason = 9 =>
    Cardinality(RestingOf(update.to.who)) >= MaxOpen
=============================================================================

---------------------------- MODULE SymbolThread ----------------------------
(***************************************************************************)
(* What one thread of the exchange engine does with a request              *)
(* (src/src/bin/exchange_engine.rs, the two arms of the poll loop), as     *)
(* functions from the state of the thread to its next state and what it    *)
(* publishes.  The matching engine appears as the book that PriceTimeBook  *)
(* promises, which MatchingEngine is shown to implement.                   *)
(*                                                                         *)
(* The state of a thread is a record:                                      *)
(*   book   the resting orders, oldest first                               *)
(*   uid    uid_map: order id to the origin of the order, a participant    *)
(*          with the response stream of the participant's desk             *)
(*   open   open_counts: participant to number of open orders              *)
(*   last   last_trade_ticks                                               *)
(*   brk    the circuit breaker                                            *)
(***************************************************************************)
EXTENDS Integers, Sequences, FiniteSets, TLC, FiniteSetsExt, SequencesExt

CONSTANTS
  Participants,  \* participant ids; 0 is the id of nobody
  BandBps,       \* ENGINE_PRICE_BAND_BPS, 0 disables
  MaxLots,       \* ENGINE_MAX_ORDER_LOTS, 0 disables
  MaxNotional,   \* ENGINE_MAX_ORDER_NOTIONAL, 0 disables
  MaxOpen,       \* ENGINE_MAX_OPEN_ORDERS_PER_USER, 0 disables
  CbBps,         \* threshold of the circuit breaker, 0 disables
  Window,        \* its window
  Cooldown,      \* how long it halts the symbol
  Capacity       \* order slots of the matching engine

ASSUME ParticipantsAssumption == Participants \subseteq Nat
ASSUME LimitsAssumption ==
  /\ BandBps \in Nat /\ MaxLots \in Nat /\ MaxNotional \in Nat
  /\ MaxOpen \in Nat /\ CbBps \in Nat /\ Window \in Nat /\ Cooldown \in Nat
  /\ Capacity \in Nat

Nobody == 0

-----------------------------------------------------------------------------
(* The book.                                                               *)

OtherSide(s) == IF s = "buy" THEN "sell" ELSE "buy"
IsMarket(o) == o.price = 0

MutantSuits(o, p) ==
  IsMarket(o) \/ (IF o.side = "buy" THEN o.price > p ELSE o.price < p)

(* Price p of the other side is within the limit of order o.               *)
Suits(o, p) ==
  IsMarket(o) \/ (IF o.side = "buy" THEN o.price >= p ELSE o.price <= p)

Indices(book, s) == {k \in 1 .. Len(book) : book[k].side = s}

(* Order j of a side trades before order k of the same side: a better      *)
(* price, or the same price and an earlier arrival.                        *)
AheadOf(book, j, k) ==
  \/ IF book[j].side = "buy" THEN book[j].price > book[k].price
                             ELSE book[j].price < book[k].price
  \/ book[j].price = book[k].price /\ j < k

(* The resting orders the limit of o accepts.                              *)
Makers(book, o) ==
  {k \in Indices(book, OtherSide(o.side)) : Suits(o, book[k].price)}

LotsOf(book, K) == MapThenSumSet(LAMBDA k : book[k].lots, K)

AtMost(a, b) == IF a <= b THEN a ELSE b
AtLeast(a, b) == IF a >= b THEN a ELSE b

MutantTraded(book, o, k) ==
  IF k \notin Makers(book, o) THEN 0
  ELSE LET ahead == {j \in Makers(book, o) : j < k}
       IN  AtMost(book[k].lots, AtLeast(o.lots - LotsOf(book, ahead), 0))

(* match_order: what maker k gives to order o, once those ahead of it have *)
(* given what they have.                                                   *)
Traded(book, o, k) ==
  IF k \notin Makers(book, o) THEN 0
  ELSE LET ahead == {j \in Makers(book, o) : AheadOf(book, j, k)}
       IN  AtMost(book[k].lots, AtLeast(o.lots - LotsOf(book, ahead), 0))

(* The fills of one match, in execution order.                             *)
FillsOf(book, o) ==
  LET hit == {k \in Makers(book, o) : Traded(book, o, k) > 0}
      order == SetToSortSeq(hit, LAMBDA j, k : AheadOf(book, j, k))
  IN  [n \in 1 .. Len(order) |->
         [id |-> book[order[n]].id, price |-> book[order[n]].price,
          lots |-> Traded(book, o, order[n])]]

FilledLots(fills) == MapThenSumSet(LAMBDA n : fills[n].lots, DOMAIN fills)

MutantAfterFills(book, o) ==
  [k \in 1 .. Len(book) |-> [book[k] EXCEPT !.lots = @ - Traded(book, o, k)]]

(* The book once those fills are taken out of it.                          *)
AfterFills(book, o) ==
  SelectSeq([k \in 1 .. Len(book) |->
               [book[k] EXCEPT !.lots = @ - Traded(book, o, k)]],
            LAMBDA m : m.lots > 0)

Entry(o, lots) == [id |-> o.id, side |-> o.side, price |-> o.price, lots |-> lots]

Resting(book) == {book[k].id : k \in 1 .. Len(book)}

Placed(status, book, fills) ==
  [status |-> status, book |-> book, fills |-> fills]

(* place_order.  handle_post_only refuses an order that would trade,       *)
(* handle_fok one that cannot be filled at once; a market order and an IOC *)
(* order never rest, whatever is left of them.                             *)
PlaceOrder(book, o) ==
  LET fills  == FillsOf(book, o)
      filled == FilledLots(fills)
      after  == AfterFills(book, o)
      tif    == IF IsMarket(o) THEN "IOC" ELSE o.tif
  IN
  IF o.price < 0 \/ o.id \in Resting(book) \/ Len(book) >= Capacity
  THEN Placed("Error", book, << >>)
  ELSE IF \/ tif = "PostOnly" /\ Makers(book, o) # {}
          \/ tif = "FOK" /\ LotsOf(book, Makers(book, o)) < o.lots
          \/ tif = "IOC" /\ filled = 0
  THEN Placed("Rejected", book, << >>)
  ELSE IF filled >= o.lots THEN Placed("Filled", after, fills)
  ELSE Placed(IF filled > 0 THEN "PartiallyFilled" ELSE "Accepted",
              IF tif = "IOC" THEN after ELSE Append(after, Entry(o, o.lots - filled)),
              fills)

-----------------------------------------------------------------------------
(* The checks of the thread.                                               *)

(* best_price_ticks: the price of the first level, 0 for None.             *)
BestPrice(book, s) ==
  LET P == {book[k].price : k \in Indices(book, s)}
  IN  IF P = {} THEN 0 ELSE IF s = "buy" THEN Max(P) ELSE Min(P)

MutantBandReference(book, last) ==
  LET bid == BestPrice(book, "buy")
      ask == BestPrice(book, "sell")
  IN  IF bid > 0 /\ ask > 0 /\ bid <= ask THEN (bid + ask) \div 2 ELSE 0

(* band_reference_ticks: the mid price, else the last trade, else None.    *)
BandReference(book, last) ==
  LET bid == BestPrice(book, "buy")
      ask == BestPrice(book, "sell")
  IN  IF bid > 0 /\ ask > 0 /\ bid <= ask THEN (bid + ask) \div 2 ELSE last

(* outside_price_band.                                                     *)
OutsidePriceBand(book, last, o) ==
  LET ref  == BandReference(book, last)
      band == (ref * BandBps) \div 10000
  IN  /\ o.price > 0 /\ BandBps # 0 /\ ref > 0
      /\ IF o.side = "buy" THEN o.price > ref + band ELSE o.price < ref - band

(* exceeds_order_limits.                                                   *)
ExceedsOrderLimits(o) ==
  \/ MaxLots > 0 /\ o.lots > MaxLots
  \/ MaxNotional > 0 /\ o.price > 0 /\ o.price * o.lots > MaxNotional

MutantTooManyOpen(open, who) ==
  MaxOpen > 0 /\ who # Nobody /\ open[who] > MaxOpen

(* The open-order cap.                                                     *)
TooManyOpen(open, who) ==
  MaxOpen > 0 /\ who # Nobody /\ open[who] >= MaxOpen

(* CircuitBreaker::new, is_halted and on_trade.                            *)
NewBreaker == [start |-> 0, open |-> 0, until |-> 0]
IsHalted(brk, ts) == ts < brk.until
Distance(p, q) == IF p >= q THEN p - q ELSE q - p
OnTrade(brk, ts, price) ==
  IF CbBps = 0 \/ price <= 0 THEN brk
  ELSE IF brk.open <= 0 \/ AtLeast(ts - brk.start, 0) > Window
  THEN [brk EXCEPT !.start = ts, !.open = price]
  ELSE IF Distance(price, brk.open) * 10000 > brk.open * CbBps
  THEN [start |-> ts, open |-> price, until |-> ts + Cooldown]
  ELSE brk

(* The reason a new order is refused before it reaches the book, 0 if none.*)
RefusalReason(st, o, ts) ==
  IF ~o.own THEN 4
  ELSE IF o.lots <= 0 THEN 2
  ELSE IF IsHalted(st.brk, ts) THEN 10
  ELSE IF OutsidePriceBand(st.book, st.last, o) THEN 7
  ELSE IF ExceedsOrderLimits(o) THEN 8
  ELSE IF TooManyOpen(st.open, o.from.who) THEN 9
  ELSE 0

-----------------------------------------------------------------------------
(* uid_map and open_counts.                                                *)

(* open_count_inc, open_count_dec.                                         *)
OpenCountInc(open, who) ==
  IF who = Nobody THEN open ELSE [open EXCEPT ![who] = @ + 1]
OpenCountDec(open, who) ==
  IF who = Nobody THEN open ELSE [open EXCEPT ![who] = AtLeast(@ - 1, 0)]

(* uid_map.insert, which counts an id it did not hold.                     *)
Track(st, id, from) ==
  [st EXCEPT !.uid = (id :> from) @@ @,
             !.open = IF id \in DOMAIN st.uid THEN @ ELSE OpenCountInc(@, from.who)]

MutantUntrack(st, id) ==
  [st EXCEPT !.uid = [i \in DOMAIN @ \ {id} |-> @[i]]]

(* uid_map.remove, which discounts an id it held.                          *)
Untrack(st, id) ==
  IF id \notin DOMAIN st.uid THEN st
  ELSE [st EXCEPT !.uid = [i \in DOMAIN @ \ {id} |-> @[i]],
                  !.open = OpenCountDec(@, st.uid[id].who)]

(* The match on result.status.                                             *)
TrackResult(st, o, status) ==
  CASE status \in {"Accepted", "PartiallyFilled"} -> Track(st, o.id, o.from)
    [] status = "Filled" -> Untrack(st, o.id)
    [] OTHER -> st

MutantOnFill(st, ts, fill) ==
  [Untrack(st, fill.id) EXCEPT !.last = fill.price,
                               !.brk = OnTrade(@, ts, fill.price)]

(* One turn of the loop over result.fills: the last price, the breaker and *)
(* the routing entry of a maker that has left the book.                    *)
OnFill(st, ts, fill) ==
  [(IF fill.id \in Resting(st.book) THEN st ELSE Untrack(st, fill.id))
     EXCEPT !.last = fill.price, !.brk = OnTrade(@, ts, fill.price)]

-----------------------------------------------------------------------------
(* The two handlers.  They return the next state, the trades and the order *)
(* update, if one is published.                                            *)

Update(to, id, status, lots, reason) ==
  [to |-> to, id |-> id, status |-> status, lots |-> lots, reason |-> reason]
NoUpdate == [status |-> "None"]

Handled(st, trades, update) == [st |-> st, trades |-> trades, update |-> update]

(* OrderUpdateMsg::rejected.                                               *)
RejectedUpdate(o, reason) == Update(o.from, o.id, "Rejected", 0, reason)

OnNewOrder(st, o, ts) ==
  LET reason == RefusalReason(st, o, ts)
      placed == PlaceOrder(st.book, o)
      taken  == TrackResult([st EXCEPT !.book = placed.book], o, placed.status)
      filled == FilledLots(placed.fills)
  IN
  IF reason # 0 THEN Handled(st, << >>, RejectedUpdate(o, reason))
  ELSE CASE placed.status = "Error" ->
              Handled(st, << >>, RejectedUpdate(o, 2))
         [] placed.status = "Rejected" ->
              Handled(st, << >>, RejectedUpdate(o, 3))
         [] OTHER ->
              Handled(FoldLeft(LAMBDA s, f : OnFill(s, ts, f), taken, placed.fills),
                      placed.fills,
                      Update(o.from, o.id, placed.status, filled, 0))

(* The cancellation goes to the origin uid_map knows, else to the one that *)
(* asked; an order that is not in the book is confirmed with no lots, so   *)
(* that the caller can unblock.                                            *)
OnCancel(st, c) ==
  IF c.id \in Resting(st.book)
  THEN LET k  == CHOOSE k \in 1 .. Len(st.book) : st.book[k].id = c.id
           to == IF c.id \in DOMAIN st.uid THEN st.uid[c.id] ELSE c.from
       IN  Handled([Untrack(st, c.id) EXCEPT !.book = RemoveAt(@, k)], << >>,
                   Update(to, c.id, "Cancelled", st.book[k].lots, 0))
  ELSE Handled(st, << >>,
               IF c.from.who = Nobody THEN NoUpdate
               ELSE Update(c.from, c.id, "Cancelled", 0, 0))

(* A thread as it starts, with the book and the routes it is given.        *)
StartedThread(book, uid) ==
  [book |-> book, uid |-> uid, open |-> [p \in Participants |-> 0],
   last |-> 0, brk |-> NewBreaker]
=============================================================================

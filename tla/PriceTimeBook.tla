--------------------------- MODULE PriceTimeBook ---------------------------
(***************************************************************************)
(* What the matching engine promises: a limit order book with price-time   *)
(* priority.  Resting orders form one sequence in order of arrival; an     *)
(* incoming order trades, one trade at a time, with the order that has the *)
(* best price and, at that price, arrived first, and it stops only when it *)
(* is filled or nothing acceptable is left.                                *)
(***************************************************************************)
EXTENDS Integers, Sequences

CONSTANTS OrderIds, Prices, Lots

VARIABLES
  resting,    \* resting orders, oldest first
  incoming    \* the order being executed, or NoOrder

book == <<resting, incoming>>

BuyAndSell == {"buy", "sell"}
Other(s) == IF s = "buy" THEN "sell" ELSE "buy"
NoOrder == [lots |-> 0]

(* Price p of the opposite side suits the order.                           *)
Suits(o, p) ==
  o.kind = "market" \/ (IF o.side = "buy" THEN o.price >= p ELSE o.price <= p)

(* Price p beats q for a counterparty looking at side s.                   *)
Beats(s, p, q) == IF s = "buy" THEN p > q ELSE p < q

(* k is first in line among the resting orders of side s.                  *)
FirstInLine(s, k) ==
  /\ resting[k].side = s
  /\ \A j \in 1 .. Len(resting) : resting[j].side = s /\ j # k =>
       \/ Beats(s, resting[k].price, resting[j].price)
       \/ resting[k].price = resting[j].price /\ k < j

Executable(o) ==
  \E k \in 1 .. Len(resting) :
     resting[k].side = Other(o.side) /\ Suits(o, resting[k].price)

Drop(s, k) == SubSeq(s, 1, k - 1) \o SubSeq(s, k + 1, Len(s))
Rest(o, n) == Append(resting, [id |-> o.id, side |-> o.side,
                               price |-> o.price, lots |-> n])

BookInit == resting = << >> /\ incoming = NoOrder

(* An order arrives.                                                       *)
Arrive ==
  /\ incoming = NoOrder
  /\ incoming' \in [id : OrderIds, side : BuyAndSell, price : Prices \cup {0},
                   lots : Lots, kind : {"limit", "market"}]
  /\ UNCHANGED resting

(* It trades with the order that is first in line.                         *)
Execute ==
  /\ incoming # NoOrder /\ incoming.lots > 0
  /\ \E k \in 1 .. Len(resting) :
       LET n == IF incoming.lots <= resting[k].lots
                THEN incoming.lots ELSE resting[k].lots
       IN  /\ FirstInLine(Other(incoming.side), k)
           /\ Suits(incoming, resting[k].price)
           /\ incoming' = [incoming EXCEPT !.lots = @ - n]
           /\ resting' = IF n = resting[k].lots THEN Drop(resting, k)
                         ELSE [resting EXCEPT ![k].lots = @ - n]

(* It is done: filled, or nothing it may trade with is left.  A limit      *)
(* order may then join the back of the book.                               *)
Depart ==
  /\ incoming # NoOrder
  /\ incoming.lots = 0 \/ ~Executable(incoming)
  /\ incoming' = NoOrder
  /\ \/ UNCHANGED resting
     \/ /\ incoming.lots > 0 /\ incoming.kind = "limit"
        /\ resting' = Rest(incoming, incoming.lots)

(* A post-only order joins the book without trading.                       *)
Post ==
  /\ incoming = NoOrder
  /\ UNCHANGED incoming
  /\ Len(resting') = Len(resting) + 1
  /\ \E o \in [id : OrderIds, side : BuyAndSell, price : Prices,
              lots : Lots, kind : {"limit"}] :
       resting' = Rest(o, o.lots) /\ ~Executable(o)

(* A resting order is withdrawn; the others keep their places.             *)
Withdraw ==
  /\ incoming = NoOrder
  /\ UNCHANGED incoming
  /\ \E k \in 1 .. Len(resting) : resting' = Drop(resting, k)

BookNext == Arrive \/ Execute \/ Depart \/ Post \/ Withdraw

BookSpec == BookInit /\ [][BookNext]_book
=============================================================================

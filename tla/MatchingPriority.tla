-------------------------- MODULE MatchingPriority --------------------------
(***************************************************************************)
(* MatchingEngine implements PriceTimeBook.  The engine keeps no global    *)
(* order of arrival, so a history variable records it: ids in the order    *)
(* their orders came to rest.                                              *)
(***************************************************************************)
EXTENDS MatchingEngine, TLC

VARIABLE arrivals

hvars == <<vars, arrivals>>

HInit == Init /\ arrivals = << >>

HNext ==
  /\ Next
  /\ LET gone == DOMAIN orders \ DOMAIN orders'
         new  == DOMAIN orders' \ DOMAIN orders
         kept == SelectSeq(arrivals, LAMBDA i : i \notin gone)
     IN  arrivals' = IF new = {} THEN kept
                     ELSE Append(kept, CHOOSE i \in new : TRUE)

HSpec == HInit /\ [][HNext]_hvars

(* The engine's book, oldest order first.                                  *)
RestingByArrival ==
  [k \in 1 .. Len(arrivals) |->
     LET m == orders[arrivals[k]]
     IN  [id |-> arrivals[k], side |-> m.side, price |-> m.price,
          lots |-> Remaining(m)]]

(* The order inside match_order.                                           *)
InMatch ==
  IF Busy THEN [id |-> taker.id, side |-> taker.side, price |-> taker.price,
                lots |-> taker.qty - filled, kind |-> taker.kind]
  ELSE [lots |-> 0]

Abstract == INSTANCE PriceTimeBook
              WITH resting <- RestingByArrival, incoming <- InMatch

(* Every behaviour of place_order and cancel_order is one of a book with   *)
(* price-time priority: no trade-through, first come first served at a     *)
(* price also after cancels and partial fills, no early stop.              *)
PriceTimePriority == Abstract!BookSpec

HIdSymmetry == Permutations(OrderIds)
=============================================================================

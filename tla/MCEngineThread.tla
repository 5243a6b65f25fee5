--------------------------- MODULE MCEngineThread ---------------------------
EXTENDS EngineThread

(* Orders 1 and 2 belong to participant 1, who uses two desks; order 3     *)
(* belongs to participant 2 and the others to nobody.                      *)
MCOrigin ==
  [id \in OrderIds |->
     CASE id = 1 -> [who |-> 1, desk |-> 0]
       [] id = 2 -> [who |-> 1, desk |-> 1]
       [] id = 3 -> [who |-> 2, desk |-> 0]
       [] OTHER -> [who |-> Nobody, desk |-> 0]]

RECURSIVE Execution(_, _)
(* What PriceTimeBook does with an incoming order, one trade at a time.    *)
Execution(book, o) ==
  LET first == {k \in Makers(book, o) :
                  \A j \in Makers(book, o) : j = k \/ AheadOf(book, k, j)}
  IN  IF o.lots = 0 \/ first = {} THEN << >>
      ELSE LET k == CHOOSE k \in first : TRUE
               n == AtMost(o.lots, book[k].lots)
           IN  <<[id |-> book[k].id, price |-> book[k].price, lots |-> n]>> \o
               Execution(IF n = book[k].lots THEN RemoveAt(book, k)
                         ELSE [book EXCEPT ![k].lots = @ - n],
                         [o EXCEPT !.lots = @ - n])

Shapes == [side : {"buy", "sell"}, price : Prices \cup {0}, lots : Lots]

(* The closed form of the match that SymbolThread uses is the execution    *)
(* price-time priority prescribes, on every reachable book.                *)
FillsAreAnExecution ==
  \A o \in Shapes : FillsOf(thread.book, o) = Execution(thread.book, o)
=============================================================================

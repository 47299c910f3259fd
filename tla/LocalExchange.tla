---------------------------- MODULE LocalExchange ---------------------------
(***************************************************************************)
(* client/local: the exchange of back-tests and benchmarks, for one coin.  *)
(* It fills every order at its price, books it in a wallet, and Gather     *)
(* reports from the list of orders.  Amounts of money are in thousandths;  *)
(* the fee of an order is kept apart from the wallet's value.              *)
(***************************************************************************)
EXTENDS Integers, Sequences, SequencesExt, FiniteSets

Total(s) == FoldLeft(LAMBDA sum, x : sum + x, 0, s)

NewExchange == [orders |-> <<>>, value |-> 0, volume |-> 0, price |-> 0]

\* Process: the price of the last trade; the trades themselves are left out.
Process(e, price) == [e EXCEPT !.price = price]

\* Mutant: a sell is booked like a buy.
OpenOrderOneWay(e, o) ==
  [e EXCEPT !.orders = Append(@, o),
            !.value = @ - o.price * o.volume,
            !.volume = @ + o.volume]

OpenOrder(e, o) ==
  LET side == IF o.type = "Buy" THEN 1 ELSE -1
  IN  [e EXCEPT !.orders = Append(@, o),
                !.value = @ - side * o.price * o.volume,
                !.volume = @ + side * o.volume]

\* Gather: the report of the coin.  A sell adds to the wallet, a buy takes.
Gather(e) ==
  LET count(t) == Cardinality({i \in DOMAIN e.orders : e.orders[i].type = t})
      side(o) == IF o.type = "Sell" THEN 1 ELSE -1
      wallet == Total([i \in DOMAIN e.orders |-> side(e.orders[i]) * e.orders[i].price * e.orders[i].volume])
      short == Total([i \in DOMAIN e.orders |-> side(e.orders[i]) * e.orders[i].volume])
  IN  [buy |-> count("Buy"), sell |-> count("Sell"),
       wallet |-> wallet, profit |-> wallet - short * e.price]
=============================================================================

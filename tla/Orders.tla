-------------------------------- MODULE Orders ------------------------------
(***************************************************************************)
(* The builder of orders, internal/model/order.go.  Each of its calls may  *)
(* set a field once and panics otherwise, and Create panics for an order   *)
(* that lacks something: an order of which ok is FALSE ended the process.  *)
(* Identifiers, keys and times are left out.                               *)
(***************************************************************************)
LOCAL INSTANCE Naturals

NewOrder(coin) ==
  [coin |-> coin, type |-> "NoType", otype |-> "NoOrderType", leverage |-> "NoLeverage",
   volume |-> 0, price |-> 0, ok |-> TRUE]

\* mustBeEmpty, mustBeZero
With(o, field, value, empty) == [o EXCEPT ![field] = value, !.ok = @ /\ o[field] = empty]

WithType(o, type) == With(o, "type", type, "NoType")
WithOType(o, otype) == With(o, "otype", otype, "NoOrderType")
WithVolume(o, volume) == With(o, "volume", volume, 0)
WithLeverage(o, leverage) == With(o, "leverage", leverage, "NoLeverage")

\* Create; a limit order is of no type it knows.
Conditional == {"StopLoss", "TakeProfit"}
Create(o) ==
  [o EXCEPT !.ok = @ /\ o.otype \in Conditional \cup {"Market"}
                     /\ (o.otype \in Conditional => o.price > 0)
                     /\ o.volume > 0 /\ o.type # "NoType"]

\* The order of ExchangeTrader.CreateOrder.  Its price is set when it exists.
MarketOrder(coin, type, volume, price) ==
  LET market == WithOType(NewOrder(coin), "Market")
      sized == WithVolume(WithType(market, type), volume)
  IN  [Create(WithLeverage(sized, "L_5")) EXCEPT !.price = price]
=============================================================================

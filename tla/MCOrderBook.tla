---------------------------- MODULE MCOrderBook -------------------------------
(* OrderBook with two prices and a selection of the orders one can place. *)
EXTENDS OrderBook

T(side, price, qty, kind) == [side |-> side, price |-> price, qty |-> qty, kind |-> kind]

MCTerms ==
  {T("sell", 1, 1, "GTC"), T("sell", 2, 2, "GTC"), T("buy", 1, 2, "GTC"),
   T("buy", 2, 1, "GTC"), T("buy", 2, 3, "GTC"), T("buy", 2, 2, "IOC"),
   T("buy", 2, 3, "FOK"), T("sell", 1, 2, "FOK"), T("sell", NoPrice, 3, "market"),
   T("sell", NoPrice, 1, "GTC")}
==============================================================================

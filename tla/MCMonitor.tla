----------------------------- MODULE MCMonitor ------------------------------
(* Monitor for TLC.  A unit has ten pieces.  The configurations are those  *)
(* with and without a total, some of them refused, and one whose levels    *)
(* are closer than a tick; the symbols have and lack filters, and one has  *)
(* a lot coarser than its precision.                                       *)
EXTENDS Monitor

Difficult == EnvKinds
Reliable == {}

Raw(total, lower, upper, num, qty) ==
  [total |-> total, lower |-> lower, upper |-> upper, gridNum |-> num, gridQty |-> qty]
SomeConfigs ==
  {Raw(260, 30, 90, 3, 0), Raw(77, 40, 95, 2, 7), Raw(-1, 20, 40, 2, 14), Raw(0, 30, 31, 3, 5),
   Raw(0, 30, 40, 3, 0), Raw(1, 50, 99, 4, 0), Raw(9, 40, 40, 2, 1), Raw(9, 30, 50, 0, 1)}
OneConfig == {Raw(260, 30, 90, 3, 0)}

Rule(priceUnit, tick, qtyUnit, lot) ==
  [priceUnit |-> priceUnit, tick |-> tick, qtyUnit |-> qtyUnit, lot |-> lot]
SomeSymbols == {Rule(1, 2, 1, 1), Rule(1, 1, 10, 10), Rule(1, 0, 1, 0), Rule(1, 3, 1, 5)}
OneSymbol == {Rule(1, 1, 1, 1)}
=============================================================================

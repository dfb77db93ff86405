--------------------------- MODULE CircuitBreaker ---------------------------
(***************************************************************************)
(* monitor/rest.go, LiquidateAndStopAction: when the risk manager gives    *)
(* up, the main position and then the hedge position are read and closed   *)
(* with market orders, and the process panics.  The grid's orders stay on  *)
(* the exchange and go on trading.  With it, what PlaceOrder of            *)
(* exchange/client.go makes of its orders.                                 *)
(***************************************************************************)
EXTENDS Positions

VARIABLES
  info,    \* the position it has read
  sent,    \* history: the last request sent
  failed,  \* history: the parts of this liquidation a request of which got no
           \* answer, "main" and "hedge"
  traded   \* history: the grid has traded since the breaker tripped

liquidation == <<info, sent, failed, traded>>

MainSide == Direction

(* The code compares with capital letters; Direction has small ones.       *)
AlwaysLong == "LONG"                                 \* mutant
HedgeSide == IF Direction = "SHORT" THEN "LONG" ELSE "SHORT"

-----------------------------------------------------------------------------
(* The close order, and what PlaceOrder makes of its ReduceOnly: an order  *)
(* whose side and position side show that it closes does not carry it.     *)

WithoutAbs(amt) == amt                               \* mutant
Quantity(amt) == Magnitude(amt)

SwappedSide(amt) == IF amt > 0 THEN "BUY" ELSE "SELL" \* mutant
CloseSide(amt) == IF amt > 0 THEN "SELL" ELSE "BUY"

IsUnambiguousClose(side, posSide) ==
  \/ side = "BUY" /\ posSide = "SHORT"
  \/ side = "SELL" /\ posSide = "LONG"

NeverSent(side, posSide) == FALSE                    \* mutant
SendsReduceOnly(side, posSide) == ~IsUnambiguousClose(side, posSide)

Request(posSide, amt) ==
  [side |-> CloseSide(amt), posSide |-> posSide, qty |-> Quantity(amt),
   reduceOnly |-> SendsReduceOnly(CloseSide(amt), posSide)]

NoRequest == [side |-> "BUY", posSide |-> "LONG", qty |-> 0, reduceOnly |-> FALSE]

(* The exchange takes the letters of a position side for what they mean.   *)
(* It refuses every order that carries reduceOnly: one that closes must    *)
(* not carry it (PlaceOrder: "is not needed and cannot be carried"), and   *)
(* one that opens would not reduce.  An order that closes more than there  *)
(* is it refuses or cuts down.                                             *)
Closing(r) == IsUnambiguousClose(r.side, Upper(r.posSide))
TooMuch(r) == Closing(r) /\ r.qty > pos[Upper(r.posSide)]
Executed(r) ==
  LET s == Upper(r.posSide)
      left == IF Closing(r) THEN pos[s] - r.qty ELSE pos[s] + r.qty
  IN  [pos EXCEPT ![s] = IF left < 0 THEN 0 ELSE left]

Refused(r) == (r.reduceOnly \/ TooMuch(r)) /\ pos' = pos
Taken(r) == ~r.reduceOnly /\ pos' = Executed(r)

-----------------------------------------------------------------------------
Trip ==
  /\ pc = "risk"
  /\ pc' = "readMain" /\ failed' = {} /\ traded' = FALSE
  /\ UNCHANGED <<setup, market, info, sent>>

(* Nothing to close, or no answer: the next part of the liquidation begins.*)
Read(from, part, side, to, next) ==
  /\ pc = from
  /\ \/ /\ info' \in Readings(side)
        /\ pc' = IF info'.amt # 0 THEN to ELSE next
        /\ failed' = failed
     \/ /\ "fail" \in Env
        /\ pc' = next /\ failed' = failed \cup {part}
        /\ UNCHANGED info
  /\ UNCHANGED <<setup, market, sent, traded>>

(* An order that is refused is only logged, as one without an answer is.   *)
Close(from, part, side, next) ==
  /\ pc = from
  /\ sent' = Request(side, info.amt)
  /\ \/ (Taken(sent') \/ Refused(sent')) /\ failed' = failed
     \/ "fail" \in Env /\ pos' = pos /\ failed' = failed \cup {part}
  /\ pc' = next
  /\ UNCHANGED <<setup, mark, info, traded>>

ReadMain == Read("readMain", "main", MainSide, "closeMain", "readHedge")
CloseMain == Close("closeMain", "main", MainSide, "readHedge")
ReadHedge == Read("readHedge", "hedge", HedgeSide, "closeHedge", "panic")
CloseHedge == Close("closeHedge", "hedge", HedgeSide, "panic")

(* The panic in a goroutine of its own ends the process.                   *)
Panic ==
  /\ pc = "panic"
  /\ pc' = "down"
  /\ UNCHANGED <<setup, market, liquidation>>

LiquidateAndStop == Trip \/ ReadMain \/ CloseMain \/ ReadHedge \/ CloseHedge \/ Panic
=============================================================================

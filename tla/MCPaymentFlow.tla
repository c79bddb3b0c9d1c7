--------------------------- MODULE MCPaymentFlow ---------------------------
(***************************************************************************)
(* Small instances of PaymentFlow.  One key creates, one captures or asks, *)
(* or forgets to say what to capture (and is used for another of these     *)
(* then), and the app's operator captures or refunds, all of the payment   *)
(* p1.  No other payment should ever appear.                               *)
(***************************************************************************)
EXTENDS PaymentFlow

CONSTANTS kCreate, kFollow, kOperator, p1

MCDeliveries == Payments \X (1 .. 3)

MCCalls ==
    {<<kCreate, [op |-> "create", id |-> None, ref |-> r]>> : r \in References}
    \cup {<<kFollow, [op |-> op, id |-> p1]>> : op \in {"capture", "status"}}
    \cup {<<kFollow, [op |-> "capture", id |-> None]>>}

MCOperatorCalls == {<<kOperator, [op |-> op, id |-> p1]>> : op \in {"capture", "refund"}}
=============================================================================

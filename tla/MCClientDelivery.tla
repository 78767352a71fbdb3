-------------------------- MODULE MCClientDelivery --------------------------
(***************************************************************************)
(* The delivery of an archive together with the calculations it rests on:  *)
(* datagrams that fit and chunks on which both sides agree.                *)
(***************************************************************************)
EXTENDS ClientTransfer, WireFormat, TransferArithmetic
=============================================================================

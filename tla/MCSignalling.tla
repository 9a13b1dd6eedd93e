----------------------------- MODULE MCSignalling -----------------------------
(* The instance of Signalling that TLC checks. *)
EXTENDS Signalling

CONSTANTS t1, t2

MCFirst == <<[tok |-> t1, kind |-> "named"], [tok |-> t2, kind |-> "bare"]>>
MCArg == {[tok |-> t1, kind |-> "bare"], [tok |-> t2, kind |-> "bare"]}
=============================================================================

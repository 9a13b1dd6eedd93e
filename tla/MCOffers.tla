------------------------------- MODULE MCOffers -------------------------------
(* The instance of Offers that TLC checks: one offer with candidates and PUTs, *)
(* or two at once without. *)
EXTENDS Offers

CONSTANTS o1, o2
MCMaxCan == <<3,0>>
MCMaxPut == <<2,0>>
=============================================================================

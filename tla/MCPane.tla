-------------------------------- MODULE MCPane --------------------------------
(* The instances of Pane that TLC checks. *)
EXTENDS Pane, TLC

CONSTANTS c, d1
MCDC == {c, d1}

MCAlone == {c}

ByMessage == (c :> "add_pane") @@ (d1 :> "reconnect_pane")
ByLabel   == c :> "label"
=============================================================================

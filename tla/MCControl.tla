------------------------------ MODULE MCControl ------------------------------
(* The instance of Control that TLC checks. *)
EXTENDS Control
=============================================================================

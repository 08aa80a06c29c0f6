------------------------------- MODULE MCBus -------------------------------
(***************************************************************************)
(* Bus on small instances.  NumEvents bounds the input; the retry budget   *)
(* bounds the ledger.                                                      *)
(***************************************************************************)
EXTENDS BusProperties

NoEvents    == {}
SecondEvent == {2}
NoRoutes    == {}
FirstRoute  == {1}
=============================================================================

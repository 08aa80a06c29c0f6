---------------------------- MODULE MCSubscriber ----------------------------
(* One bus and one subscriber. *)
EXTENDS Subscriber
=============================================================================

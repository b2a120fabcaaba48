------------------------------ MODULE MCTuicUdp ------------------------------
(* Three packets on two associations for TLC. *)
EXTENDS TuicUdp, TLC

CONSTANTS p, q, s, a, b

MCAssocOf   == p :> a @@ q :> a @@ s :> b
MCPktId     == p :> 1 @@ q :> 2 @@ s :> 1
MCFragments == p :> 3 @@ q :> 2 @@ s :> 1
=============================================================================

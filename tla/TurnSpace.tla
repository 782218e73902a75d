------------------------------- MODULE TurnSpace -------------------------------
(***************************************************************************)
(* The turns of the peer channel, their children and the ways a child can be  *)
(* shown: what PeerTurns and its promise TurnDelivery have in common.          *)
(***************************************************************************)
EXTENDS Naturals

CONSTANTS
    N,  \* utterances the peer channel submits
    K   \* children of a turn

ASSUME NAssumption == N \in Nat
ASSUME KAssumption == K \in Nat \ {0}

Turn == 1 .. N
Child == 1 .. K

Kind == {"translated", "source", "fallback"}
Gated == {"translated", "source"}  \* what has to wait for its place in the line
===============================================================================

------------------------------ MODULE MCPeerTurns ------------------------------
(***************************************************************************)
(* PeerTurns for model checking with several controllers.  They are          *)
(* interchangeable: no action compares two of them or chooses one.             *)
(***************************************************************************)
EXTENDS PeerTurns, TLC

Symmetry == Permutations(Controller)
===============================================================================

------------------------ MODULE MCXObjectRepository ------------------------
(* Two lists, the first registered at the start, and room for a third.      *)
EXTENDS XObjectRepository, TLC

CONSTANTS l1, l2, l3

MCRegistered == (1 :> l1) @@ (2 :> None)
=============================================================================

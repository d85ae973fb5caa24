--------------------------- MODULE MCXObjectList ---------------------------
(* Two or three objects of one key; where the third has a key of its own,   *)
(* it comes from the XML document.                                          *)
EXTENDS XObjectList

CONSTANTS o1, o2, o3, k1, k2

MCObjects   == {o1, o2, o3}
MCKeyOf     == [o \in MCObjects |-> IF o = o3 THEN k2 ELSE k1]
MCPreloaded == <<o3>>

SameKey     == [o \in MCObjects |-> k1]
EmptyList   == <<>>
=============================================================================

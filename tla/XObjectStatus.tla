--------------------------- MODULE XObjectStatus ---------------------------
(***************************************************************************)
(* pparam::XObjectStatus (include/xobject.hpp 36-77, src/xobject.cpp): the *)
(* statuses of an object and the table that says of every pair whether the *)
(* second may follow at once, after waiting, or not at all.                *)
(***************************************************************************)

\* Statuses in which no operation is active on the object.
Base == {"LOADED", "NORMAL", "DELETED"}

\* One status per operation, set while the operation is active.
Operation == {"ADDING", "MODIFYING", "DELETING", "SCANNING", "QUERYING", "RELOADING", "PRINTING"}

Status == Base \cup Operation

\* The D cells of transitionTable.
Direct == [
  LOADED    |-> {"ADDING", "DELETING", "QUERYING", "RELOADING", "PRINTING"},
  ADDING    |-> {"LOADED", "NORMAL"},
  NORMAL    |-> {"MODIFYING", "DELETING", "SCANNING", "QUERYING", "PRINTING"},
  MODIFYING |-> {"NORMAL"},
  DELETING  |-> {"NORMAL", "DELETED"},
  DELETED   |-> {"PRINTING"},
  SCANNING  |-> {"NORMAL"},
  QUERYING  |-> {"LOADED", "NORMAL"},
  RELOADING |-> {"LOADED"},
  PRINTING  |-> {"LOADED", "NORMAL", "DELETED"}]

\* The W cells; every other cell is N.
Wait == [
  LOADED    |-> {},
  ADDING    |-> {"ADDING", "MODIFYING", "DELETING", "SCANNING", "QUERYING", "RELOADING",
                 "PRINTING"},
  NORMAL    |-> {},
  MODIFYING |-> {"MODIFYING", "DELETING", "SCANNING", "QUERYING", "PRINTING"},
  DELETING  |-> {"MODIFYING", "DELETING", "SCANNING", "QUERYING", "PRINTING"},
  DELETED   |-> {},
  SCANNING  |-> {"MODIFYING", "DELETING", "SCANNING", "QUERYING", "PRINTING"},
  QUERYING  |-> {"MODIFYING", "DELETING", "SCANNING", "QUERYING", "PRINTING"},
  RELOADING |-> {"ADDING", "RELOADING", "PRINTING"},
  PRINTING  |-> {"ADDING", "MODIFYING", "DELETING", "SCANNING", "QUERYING", "RELOADING",
                 "PRINTING"}]

canTransit(from, to) ==
  IF to \in Direct[from] THEN "DIRECT" ELSE IF to \in Wait[from] THEN "WAIT" ELSE "NONE"
=============================================================================

------------------------------ MODULE XListAbs ------------------------------
(***************************************************************************)
(* What pparam::XList promises (class comment, include/xlist.hpp 677-700   *)
(* and 813-838): elements enter the list once and leave it once; a removed *)
(* element stays usable for the iterators that stand on it; its data is    *)
(* destroyed only when no iterator does, and no iterator ever moves onto   *)
(* destroyed data.  XList implements this specification.                   *)
(***************************************************************************)
EXTENDS Integers

CONSTANTS Elements,   \* every element that can ever be put in the list
          Iters,      \* iterator objects
          End,        \* the past-the-end position
          Null        \* "stands on nothing"

VARIABLES members,    \* elements in the list
          removed,    \* taken out of the list, data still alive
          destroyed,  \* data destroyed
          at          \* where each iterator stands

vars == <<members, removed, destroyed, at>>

Init == /\ members = {}
        /\ removed = {}
        /\ destroyed = {}
        /\ at = [i \in Iters |-> Null]

Append == \E n \in Elements \ (members \cup removed \cup destroyed) :
            /\ members' = members \cup {n}
            /\ UNCHANGED <<removed, destroyed, at>>

\* Only an element some iterator stands on can be removed: that iterator is
\* the argument of the erase call.
Remove == \E i \in Iters :
            /\ at[i] \in members
            /\ members' = members \ {at[i]}
            /\ removed' = removed \cup {at[i]}
            /\ UNCHANGED <<destroyed, at>>

\* erase() also takes the caller's iterator off the element it removes.
RemoveAndLeave == \E i \in Iters :
            /\ at[i] \in members
            /\ members' = members \ {at[i]}
            /\ removed' = removed \cup {at[i]}
            /\ at' = [at EXCEPT ![i] = Null]
            /\ UNCHANGED destroyed

Destroy == \E n \in removed :
            /\ \A i \in Iters : at[i] # n
            /\ removed' = removed \ {n}
            /\ destroyed' = destroyed \cup {n}
            /\ UNCHANGED <<members, at>>

Stand == \E i \in Iters, n \in members \cup removed \cup {End} :
            /\ at' = [at EXCEPT ![i] = n]
            /\ UNCHANGED <<members, removed, destroyed>>

Leave == \E i \in Iters :
            /\ at' = [at EXCEPT ![i] = Null]
            /\ UNCHANGED <<members, removed, destroyed>>

\* Post-increment leaves a copy of the old position behind.
HandOver == \E i, j \in Iters :
            /\ i # j
            /\ at[i] # Null
            /\ at' = [at EXCEPT ![i] = Null, ![j] = at[i]]
            /\ UNCHANGED <<members, removed, destroyed>>

Next == Append \/ Remove \/ RemoveAndLeave \/ Destroy \/ Stand \/ Leave \/ HandOver

Spec == Init /\ [][Next]_vars
=============================================================================

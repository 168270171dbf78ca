------------------------------ MODULE KeyOrder -------------------------------
(***************************************************************************)
(* What an ordered map promises its users (the comments of orderedmap.go): *)
(* the values of the keys in one order, in which the first one is fixed    *)
(* and others are inserted where they belong, and which loops follow.      *)
(***************************************************************************)
EXTENDS Naturals, SequencesExt

CONSTANTS
    Key,
    Rank        \* what the values are compared by

VARIABLES
    order,      \* the values
    reading,    \* a loop over the values is running
    visited     \* the values that it has been given

vars == <<order, reading, visited>>

Values == [key : Key, rank : Rank]

Keys == {v.key : v \in ToSet(order)}

Init == order = <<>> /\ ~reading /\ visited = <<>>

\* Behind the first value, and there behind those that are not greater.
Insert(v) ==
    /\ v.key \notin Keys
    /\ \E n \in 1..Len(order) + 1 :
          /\ n = 1 => order = <<>>
          /\ \A k \in 2..n - 1 : order[k].rank <= v.rank
          /\ n \in 2..Len(order) => v.rank < order[n].rank
          /\ order' = InsertAt(order, n, v)
    /\ UNCHANGED <<reading, visited>>

Delete(k) ==
    /\ order' = RemoveFirstMatch(order, LAMBDA v : v.key = k)
    /\ UNCHANGED <<reading, visited>>

Sort ==
    /\ order' \in SetToSeqs(ToSet(order))
    /\ UNCHANGED <<reading, visited>>

BeginRead == reading' = TRUE /\ UNCHANGED <<order, visited>>

Read ==
    /\ Len(visited) < Len(order)
    /\ visited' = Append(visited, order[Len(visited) + 1])
    /\ UNCHANGED <<order, reading>>

EndRead ==
    /\ visited = order
    /\ reading' = FALSE /\ visited' = <<>>
    /\ UNCHANGED order

Next ==
    \/ ~reading /\ (Sort \/ BeginRead)
    \/ ~reading /\ \E v \in Values : Insert(v) \/ Delete(v.key)
    \/ reading /\ (Read \/ EndRead)

Spec == Init /\ [][Next]_vars

=============================================================================

----------------------------- MODULE OrderedMap ------------------------------
(***************************************************************************)
(* The ordered map (orderedmap/orderedmap.go): an index of the elements of *)
(* a linked list, with the loops over it.  One loop dequeues the values    *)
(* that it visits: queue.Stop().  queue.lock is held for each operation    *)
(* and for whole loops.  The runs check the map beside the list (MCOrder). *)
(*                                                                         *)
(* A value knows its key, as a pull request knows its number.              *)
(***************************************************************************)
EXTENDS Ring, FiniteSets, SequencesExt

CONSTANTS
    Key,
    Rank        \* what cmp compares the values by

MapAssumption == Rank \subseteq Nat

VARIABLES
    ring, list, len, value,     \* m.order and its elements, as in LinkedList
    m,          \* m.m: the elements by key
    loop,       \* "idle", "read" (a loop that only reads) or "stop"
    cursor,     \* e in Foreach()
    visited     \* the values that the loop's body was given

vars == <<ring, list, len, value, m, loop, cursor, visited>>

Values == [key : Key, rank : Rank]

List == INSTANCE LinkedList WITH Value <- Values, copy <- 0

TypeOK ==
    /\ ring \in Rings
    /\ list \subseteq Element
    /\ len \in Nat
    /\ value \in [Element -> Values]
    /\ m \in [Key -> Element \cup {Nil}]
    /\ loop \in {"idle", "read", "stop"}
    /\ cursor \in Element \cup {Nil}
    /\ visited \in Seq(Values)

Init ==
    /\ ring = EmptyRing /\ list = {} /\ len = 0
    /\ \E v \in Values : value = [x \in Element |-> v]
    /\ m = [k \in Key |-> Nil]
    /\ loop = "idle" /\ cursor = Nil /\ visited = <<>>

-----------------------------------------------------------------------------
Contents == Walk(ring, len)

(* Faulty variant: the first element is compared as well. *)
InsertSorted(x, v) ==
    LET later == {n \in 1..len : v.rank < value[Contents[n]].rank}
    IN  IF len < 2 \/ later = {} THEN List!PushBack(x, v)
        ELSE List!InsertBefore(x, v, Contents[CHOOSE n \in later : \A k \in later : n <= k])

insertList(x, v) ==
    LET later == {n \in 2..len : v.rank < value[Contents[n]].rank}
    IN  IF len < 2 \/ later = {} THEN List!PushBack(x, v)
        ELSE List!InsertBefore(x, v, Contents[CHOOSE n \in later : \A k \in later : n <= k])

(* Faulty variant: the map is not asked for the key. *)
InsertAlways(k, r) ==
    /\ loop = "idle"
    /\ \E x \in Element \ list :
          /\ insertList(x, [key |-> k, rank |-> r])
          /\ m' = [m EXCEPT ![k] = x]
    /\ UNCHANGED <<loop, cursor, visited>>

InsertIfNotExist(k, r) ==
    /\ loop = "idle"
    /\ m[k] = Nil
    /\ \E x \in Element \ list :
          /\ insertList(x, [key |-> k, rank |-> r])
          /\ m' = [m EXCEPT ![k] = x]
    /\ UNCHANGED <<loop, cursor, visited>>

(* Faulty variant: the key stays in the map. *)
WithoutDelete(k) ==
    IF m[k] = Nil THEN UNCHANGED <<ring, list, len, value, m>>
    ELSE List!RemoveElement(m[k]) /\ UNCHANGED m

Removal(k) ==
    IF m[k] = Nil THEN UNCHANGED <<ring, list, len, value, m>>
    ELSE List!RemoveElement(m[k]) /\ m' = [m EXCEPT ![k] = Nil]

Dequeue(k) ==
    /\ loop = "idle"
    /\ Removal(k)
    /\ UNCHANGED <<loop, cursor, visited>>

(* The keys in any order s that a comparison function may give. *)
SortByKey ==
    /\ loop = "idle"
    /\ \E s \in SetToSeqs({k \in Key : m[k] # Nil}) :
          LET moved[n \in 0..Len(s)] ==
                IF n = 0 THEN ring ELSE MovedToBack(moved[n - 1], m[s[n]])
          IN  ring' = moved[Len(s)]
    /\ UNCHANGED <<list, len, value, m, loop, cursor, visited>>

-----------------------------------------------------------------------------
(* Foreach() and AsSlice() *)
BeginLoop(kind) ==
    /\ loop = "idle"
    /\ loop' = kind /\ cursor' = List!FrontElement
    /\ UNCHANGED <<ring, list, len, value, m, visited>>

Visit ==
    /\ loop = "read" /\ cursor # Nil
    /\ visited' = Append(visited, value[cursor])
    /\ cursor' = List!NextOf(ring, list, cursor)
    /\ UNCHANGED <<ring, list, len, value, m, loop>>

(* The body dequeues the value; e.Next() is called afterwards. *)
VisitAndRemove ==
    /\ loop = "stop" /\ cursor # Nil
    /\ Removal(value[cursor].key)
    /\ cursor' = List!NextOf(ring', list', cursor)
    /\ UNCHANGED <<loop, visited>>

EndLoop ==
    /\ loop # "idle" /\ cursor = Nil
    /\ loop' = "idle" /\ visited' = <<>>
    /\ UNCHANGED <<ring, list, len, value, m, cursor>>

Next ==
    \/ \E k \in Key, r \in Rank : InsertIfNotExist(k, r)
    \/ \E k \in Key : Dequeue(k)
    \/ SortByKey
    \/ \E kind \in {"read", "stop"} : BeginLoop(kind)
    \/ Visit \/ VisitAndRemove \/ EndLoop

Spec == Init /\ [][Next]_vars

-----------------------------------------------------------------------------
(* The map and the list have the same elements, each under its value's key,    *)
(* and the ring is closed: a key that only one of both knows could neither be  *)
(* inserted nor dequeued any more (orderedmap.go:34-43, 73-81).                *)
IndexMatches ==
    /\ list = {m[k] : k \in Key} \ {Nil}
    /\ \A k \in Key : m[k] # Nil => value[m[k]].key = k
    /\ IsRing(ring, list) /\ len = Cardinality(list)

(* A loop that reads was given the first elements, and stands on the next one. *)
LoopFollows ==
    /\ loop # "read" => visited = <<>>
    /\ loop = "idle" => cursor = Nil
    /\ loop = "stop" => cursor \in list \cup {Nil}
    /\ loop = "read" =>
          /\ Len(visited) <= len
          /\ \A n \in 1..Len(visited) : visited[n] = value[Contents[n]]
          /\ cursor = IF Len(visited) = len THEN Nil ELSE Contents[Len(visited) + 1]

(* What is inductive, for the theorems about the map. *)
Invariant == TypeOK /\ IndexMatches /\ List!OneRing /\ LoopFollows

(* Pointers, index and the order in which elements are moved to the back       *)
(* amount to what the comments promise (orderedmap.go:20-22, 31-33, 98-104).   *)
KeyOrder ==
    INSTANCE KeyOrder WITH order <- [n \in 1..len |-> value[Contents[n]]], reading <- loop = "read"

ImplementsKeyOrder == KeyOrder!Spec

(* What the comment of queue.Stop() says ("Stop empties the active and suspend *)
(* queues", queue.go:139): nothing is left after its loop.                     *)
StopEmpties == [][loop = "stop" /\ EndLoop => len' = 0]_vars

=============================================================================

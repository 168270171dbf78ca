-------------------------------- MODULE Ring ---------------------------------
(***************************************************************************)
(* The pointers of a doubly linked list (linkedlist/list.go).  The list is *)
(* a ring of its elements and of a root, which follows the last element    *)
(* and precedes the first one.                                             *)
(***************************************************************************)
EXTENDS Naturals, Sequences

CONSTANTS
    Element,    \* elements, in a list or not
    Root,       \* &l.root
    Nil

ASSUME RingAssumption == Root \notin Element /\ Nil \notin Element \cup {Root}

Pointer == Element \cup {Root, Nil}

Rings == [next : [Element \cup {Root} -> Pointer], prev : [Element \cup {Root} -> Pointer]]

(* Init() *)
EmptyRing ==
    [next |-> [x \in Element \cup {Root} |-> IF x = Root THEN Root ELSE Nil],
     prev |-> [x \in Element \cup {Root} |-> IF x = Root THEN Root ELSE Nil]]

(* insert(): x becomes the successor of at. *)
Linked(r, x, at) ==
    [next |-> [r.next EXCEPT ![x] = r.next[at], ![at] = x],
     prev |-> [r.prev EXCEPT ![x] = at, ![r.next[at]] = x]]

Bypassed(r, x) ==
    [next |-> [r.next EXCEPT ![r.prev[x]] = r.next[x]],
     prev |-> [r.prev EXCEPT ![r.next[x]] = r.prev[x]]]

(* remove() *)
Unlinked(r, x) ==
    [next |-> [Bypassed(r, x).next EXCEPT ![x] = Nil],
     prev |-> [Bypassed(r, x).prev EXCEPT ![x] = Nil]]

(* Faulty variant: the successor of at is read too early. *)
MovedEarly(r, x, at) ==
    [next |-> [Bypassed(r, x).next EXCEPT ![x] = r.next[at], ![at] = x],
     prev |-> [Bypassed(r, x).prev EXCEPT ![x] = at, ![r.next[at]] = x]]

(* move() *)
Moved(r, x, at) == IF x = at THEN r ELSE Linked(Bypassed(r, x), x, at)

(* Faulty variant: without the comparison with the last element. *)
MovedToLast(r, x) == Linked(Bypassed(r, x), x, r.prev[Root])

(* MoveToBack() *)
MovedToBack(r, x) == IF r.prev[Root] = x THEN r ELSE Moved(r, x, r.prev[Root])

(* The elements from the first to the n-th one. *)
Walk(r, n) ==
    LET at[k \in 0..n] == IF k = 0 THEN Root ELSE r.next[at[k - 1]]
    IN  [k \in 1..n |-> at[k]]

(* The elements in S and the root point at each other. *)
IsRing(r, S) ==
    /\ r \in Rings
    /\ \A x \in S \cup {Root} :
          /\ r.next[x] \in S \cup {Root} /\ r.prev[r.next[x]] = x
          /\ r.prev[x] \in S \cup {Root} /\ r.next[r.prev[x]] = x

=============================================================================

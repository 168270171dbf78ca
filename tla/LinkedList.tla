----------------------------- MODULE LinkedList ------------------------------
(***************************************************************************)
(* The typed linked list (linkedlist/list.go) with all its operations.     *)
(*                                                                         *)
(* Marks and elements that are passed may have been removed from the list  *)
(* before.  A list is copied to its own end or beginning element by        *)
(* element, while it grows.                                                *)
(***************************************************************************)
EXTENDS Ring, SequencesExt

CONSTANT Value      \* values of the elements

VARIABLES
    ring,       \* next and prev of the elements
    list,       \* elements of which list is set
    len,
    value,      \* values of the elements
    copy        \* the loop of PushBackList() and PushFrontList()

vars == <<ring, list, len, value, copy>>

Idle == [to |-> "none", i |-> 0, e |-> Nil]

TypeOK ==
    /\ ring \in Rings
    /\ list \subseteq Element
    /\ len \in Nat
    /\ value \in [Element -> Value]
    /\ copy \in [to : {"none", "back", "front"}, i : Nat, e : Element \cup {Nil}]

Init ==
    /\ ring = EmptyRing
    /\ list = {} /\ len = 0
    /\ value \in [Element -> Value]
    /\ copy = Idle

-----------------------------------------------------------------------------
FrontElement == IF len = 0 THEN Nil ELSE ring.next[Root]

BackElement == IF len = 0 THEN Nil ELSE ring.prev[Root]

(* Next() and Prev() of an element, with the pointers r and the elements S. *)
NextOf(r, S, x) == IF x \in S /\ r.next[x] # Root THEN r.next[x] ELSE Nil

PrevOf(r, S, x) == IF x \in S /\ r.prev[x] # Root THEN r.prev[x] ELSE Nil

(* insertValue() with a new element x. *)
InsertValue(x, v, at) ==
    /\ x \notin list
    /\ ring' = Linked(ring, x, at)
    /\ list' = list \cup {x} /\ len' = len + 1
    /\ value' = [value EXCEPT ![x] = v]

PushFront(x, v) == InsertValue(x, v, Root) /\ UNCHANGED copy

PushBack(x, v) == InsertValue(x, v, ring.prev[Root]) /\ UNCHANGED copy

NoChange == UNCHANGED vars

InsertBefore(x, v, mark) ==
    IF mark \notin list THEN NoChange
    ELSE InsertValue(x, v, ring.prev[mark]) /\ UNCHANGED copy

InsertAfter(x, v, mark) ==
    IF mark \notin list THEN NoChange ELSE InsertValue(x, v, mark) /\ UNCHANGED copy

(* Faulty variant: an element is also removed if it is in no list. *)
RemoveAlways(x) ==
    /\ ring' = Unlinked(ring, x)
    /\ list' = list \ {x} /\ len' = len - 1
    /\ UNCHANGED <<value, copy>>

(* Faulty variant: the element is not marked as removed. *)
RemoveUnmarked(x) ==
    IF x \notin list THEN NoChange
    ELSE /\ ring' = Unlinked(ring, x)
         /\ len' = len - 1
         /\ UNCHANGED <<list, value, copy>>

RemoveElement(x) ==
    IF x \notin list THEN NoChange
    ELSE /\ ring' = Unlinked(ring, x)
         /\ list' = list \ {x} /\ len' = len - 1
         /\ UNCHANGED <<value, copy>>

Move(x, at) ==
    /\ ring' = Moved(ring, x, at)
    /\ UNCHANGED <<list, len, value, copy>>

MoveToFront(x) ==
    IF x \notin list \/ ring.next[Root] = x THEN NoChange ELSE Move(x, Root)

MoveToBack(x) ==
    IF x \notin list \/ ring.prev[Root] = x THEN NoChange ELSE Move(x, ring.prev[Root])

MoveBefore(x, mark) ==
    IF x \notin list \/ x = mark \/ mark \notin list THEN NoChange
    ELSE Move(x, ring.prev[mark])

MoveAfter(x, mark) ==
    IF x \notin list \/ x = mark \/ mark \notin list THEN NoChange ELSE Move(x, mark)

-----------------------------------------------------------------------------
(* PushBackList(l), PushFrontList(l) *)
BeginCopy(to) ==
    /\ copy' = [to |-> to, i |-> len, e |-> IF to = "back" THEN FrontElement ELSE BackElement]
    /\ UNCHANGED <<ring, list, len, value>>

(* Faulty variant: a copy is inserted behind the element that it copies. *)
CopyBehind(x) ==
    /\ copy.to = "back" /\ copy.i > 0
    /\ InsertValue(x, value[copy.e], copy.e)
    /\ copy' = [copy EXCEPT !.i = @ - 1, !.e = NextOf(ring', list', @)]

CopyToBack(x) ==
    /\ copy.to = "back" /\ copy.i > 0
    /\ InsertValue(x, value[copy.e], ring.prev[Root])
    /\ copy' = [copy EXCEPT !.i = @ - 1, !.e = NextOf(ring', list', @)]

CopyToFront(x) ==
    /\ copy.to = "front" /\ copy.i > 0
    /\ InsertValue(x, value[copy.e], Root)
    /\ copy' = [copy EXCEPT !.i = @ - 1, !.e = PrevOf(ring', list', @)]

EndCopy ==
    /\ copy.to # "none" /\ copy.i = 0
    /\ copy' = Idle
    /\ UNCHANGED <<ring, list, len, value>>

Operation ==
    \/ \E x \in Element, v \in Value :
          \/ PushFront(x, v) \/ PushBack(x, v)
          \/ \E mark \in Element : InsertBefore(x, v, mark) \/ InsertAfter(x, v, mark)
    \/ \E x \in Element :
          \/ RemoveElement(x) \/ MoveToFront(x) \/ MoveToBack(x)
          \/ \E mark \in Element : MoveBefore(x, mark) \/ MoveAfter(x, mark)
    \/ \E to \in {"back", "front"} : BeginCopy(to)

Next ==
    \/ copy = Idle /\ Operation
    \/ \E x \in Element : CopyToBack(x) \/ CopyToFront(x)
    \/ EndCopy

Spec == Init /\ [][Next]_vars

-----------------------------------------------------------------------------
(* The ring contains the elements of the list and no others, and len is their  *)
(* number; removed elements point nowhere (list.go:13-17, 116-122).            *)
RingIntact ==
    /\ IsRing(ring, list)
    /\ \A x \in Element \ list : ring.next[x] = Nil /\ ring.prev[x] = Nil
    /\ len = Cardinality(list)

Contents == Walk(ring, len)

(* From the root, len steps visit each element once, and one more returns. *)
OneRing ==
    /\ ToSet(Contents) = list /\ IsInjective(Contents)
    /\ ring.next[IF len = 0 THEN Root ELSE Contents[len]] = Root

At(s, x) == CHOOSE n \in DOMAIN s : s[n] = x

Rest(x) == RemoveFirst(Contents, x)

(* What the comments say of the operations on an element. *)
AsCommented(x) ==
    /\ x \notin list /\ x \in list' =>
          \E n \in 1..len + 1 : Contents' = InsertAt(Contents, n, x)
    /\ \A v \in Value :
          /\ PushFront(x, v) => Contents' = <<x>> \o Contents
          /\ PushBack(x, v) => Contents' = Append(Contents, x)
          /\ \A mark \in list :
                /\ InsertBefore(x, v, mark) => Contents' = InsertAt(Contents, At(Contents, mark), x)
                /\ InsertAfter(x, v, mark) => Contents' = InsertAt(Contents, At(Contents, mark) + 1, x)
    /\ RemoveElement(x) => Contents' = Rest(x)
    /\ x \in list /\ MoveToFront(x) => Contents' = <<x>> \o Rest(x)
    /\ x \in list /\ MoveToBack(x) => Contents' = Append(Rest(x), x)
    /\ \A mark \in list \ {x} : x \in list =>
          /\ MoveBefore(x, mark) => Contents' = InsertAt(Rest(x), At(Rest(x), mark), x)
          /\ MoveAfter(x, mark) => Contents' = InsertAt(Rest(x), At(Rest(x), mark) + 1, x)

OperationsAsDocumented ==
    [][copy = Idle /\ ring' # ring => \A x \in Element : AsCommented(x)]_vars

(* The loop reads next pointers that it changes, and still a list that is      *)
(* appended to itself is doubled, in its order (list.go:227-243).              *)
Doubled ==
    LET values == [n \in 1..len |-> value[Contents[n]]]
    IN  /\ len % 2 = 0
        /\ SubSeq(values, 1, len \div 2) = SubSeq(values, len \div 2 + 1, len)

CopyDoubles == [][EndCopy => Doubled]_vars

(* While the list is copied to its own end, or beginning, the n elements that  *)
(* it had are still together, the copies follow, or precede, them in the same  *)
(* order, and e is the element to be copied next.                              *)
CopyIsAhead ==
    copy.to # "none" =>
        \E n \in 0..len :
            LET copies == IF copy.to = "back" THEN n ELSE 0
                originals == n - copies
            IN  /\ copy.i <= n /\ len = 2 * n - copy.i
                /\ copy.i > 0 =>
                      copy.e = Contents[IF copy.to = "back" THEN n - copy.i + 1 ELSE n]
                /\ \A k \in 1..n - copy.i :
                      value[Contents[copies + k]] = value[Contents[originals + k]]

(* What is inductive, for the theorems about the list. *)
Invariant == TypeOK /\ RingIntact /\ OneRing /\ CopyIsAhead

(* The list is the sequence that its comments speak of: each operation does to *)
(* it what its comment says (list.go:139-225), and nothing if it is given a    *)
(* removed element.                                                            *)
AsDocumented == [][ring' # ring => OneRing']_vars /\ OperationsAsDocumented /\ CopyDoubles

=============================================================================

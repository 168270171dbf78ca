----------------------------- MODULE OrderProofs -----------------------------
(***************************************************************************)
(* The linked list, the ordered map that is made of it and the order of    *)
(* the active PRs, for any number of elements, keys, PRs and priorities.   *)
(*                                                                         *)
(* A ring of pointers is a sequence of elements (Lists); the assignments   *)
(* to four pointers are insertions into it, removals from it and moves     *)
(* within it, which is what the list's comments say.  The map's values are *)
(* then a sequence too, on which its operations, with its index and its    *)
(* loops, are the steps of an abstract order of keys.  The active PRs      *)
(* finally are kept ordered by insertion and by insertion sort, whose      *)
(* steps are followed by an induction over the numbers of keys.            *)
(***************************************************************************)
EXTENDS MCOrder, FiniteSetTheorems, SequenceTheorems, WellFoundedInduction, TLAPS

-----------------------------------------------------------------------------
(* Induction over data. *)

(* A nonempty set of naturals has a least element. *)
LEMMA Least ==
    ASSUME NEW T \in SUBSET Nat, T # {}
    PROVE  \E x \in T : \A y \in T : x <= y
<1> DEFINE R == OpToRel(<, Nat)
<1>1. IsWellFoundedOn(R, Nat)
    BY NatLessThanWellFounded
<1>2. \A x, y \in Nat : y < x => <<y, x>> \in R
    BY DEF OpToRel
<1> HIDE DEF R
<1>3. PICK x \in T : \A y \in T : ~ (<<y, x>> \in R)
    BY <1>1, WFMin
<1>4. \A y \in T : x \in Nat /\ y \in Nat /\ ~(y < x)
    BY <1>2, <1>3
<1> QED BY <1>4

(* What holds for 0, and for each number if for the one before it, as a set. *)
LEMMA Induction ==
    ASSUME NEW N \in Nat, NEW P, 0 \in P, \A n \in 1..N : n - 1 \in P => n \in P
    PROVE  \A n \in 0..N : n \in P
<1> DEFINE T == {n \in 0..N : n \notin P}
<1>1. SUFFICES ASSUME T # {} PROVE FALSE
    OBVIOUS
<1>2. T \in SUBSET Nat
    OBVIOUS
<1>3. PICK x \in T : \A y \in T : x <= y
    <2> HIDE DEF T
    <2> QED BY <1>1, <1>2, Least
<1>4. x \in 1..N /\ x - 1 \in 0..N /\ ~(x <= x - 1)
    OBVIOUS
<1>5. x - 1 \in P
    BY <1>3, <1>4
<1> QED BY <1>4, <1>5

-----------------------------------------------------------------------------
(* Sequences *)

LEMMA InsertAtIs ==
    ASSUME NEW S, NEW s \in Seq(S), NEW x \in S, NEW i \in 1..Len(s) + 1
    PROVE  /\ InsertAt(s, i, x) \in Seq(S) /\ Len(InsertAt(s, i, x)) = Len(s) + 1
           /\ \A k \in 1..Len(s) + 1 :
                 InsertAt(s, i, x)[k] = IF k < i THEN s[k] ELSE IF k = i THEN x ELSE s[k - 1]
<1> DEFINE l == SubSeq(s, 1, i - 1)
           r == SubSeq(s, i, Len(s))
<1>1. Len(s) \in Nat /\ \A k \in 1..Len(s) : s[k] \in S
    BY LenProperties, ElementOfSeq
<1>2. l \in Seq(S) /\ Len(l) = i - 1 /\ \A k \in 1..i - 1 : l[k] = s[k]
    <2>1. /\ l \in Seq(S) /\ Len(l) = IF 1 <= i - 1 THEN i - 1 - 1 + 1 ELSE 0
          /\ \A k \in 1..(i - 1 - 1 + 1) : l[k] = s[1 + k - 1]
        <3>1. 1 \in Int /\ i - 1 \in Int /\ \A k \in 1..i - 1 : s[k] \in S
            BY <1>1
        <3> QED BY <3>1, SubSeqProperties
    <2> HIDE DEF l
    <2> QED BY <2>1, <1>1
<1>3. r \in Seq(S) /\ Len(r) = Len(s) - i + 1 /\ \A k \in 1..Len(s) - i + 1 : r[k] = s[i + k - 1]
    <2>1. /\ r \in Seq(S) /\ Len(r) = IF i <= Len(s) THEN Len(s) - i + 1 ELSE 0
          /\ \A k \in 1..(Len(s) - i + 1) : r[k] = s[i + k - 1]
        <3>1. i \in Int /\ Len(s) \in Int /\ \A k \in i..Len(s) : s[k] \in S
            BY <1>1
        <3> QED BY <3>1, SubSeqProperties
    <2> HIDE DEF r
    <2>2. Len(r) = Len(s) - i + 1
        <3> SUFFICES ASSUME NEW n \in Nat, i \in 1..n + 1
                     PROVE  (IF i <= n THEN n - i + 1 ELSE 0) = n - i + 1
            BY <2>1, <1>1
        <3> QED OBVIOUS
    <2> QED BY <2>1, <2>2
<1> HIDE DEF l, r
<1> DEFINE o == <<x>>
<1>4. o \in Seq(S) /\ Len(o) = 1 /\ o[1] = x
    OBVIOUS
<1> HIDE DEF o
<1> DEFINE h == l \o o
<1>5. h \in Seq(S) /\ Len(h) = i /\ \A k \in 1..i : h[k] = IF k <= i - 1 THEN s[k] ELSE x
    <2>1. /\ h \in Seq(S) /\ Len(h) = Len(l) + Len(o)
          /\ \A k \in 1..Len(l) + Len(o) : h[k] = IF k <= Len(l) THEN l[k] ELSE o[k - Len(l)]
        BY <1>2, <1>4, ConcatProperties
    <2> HIDE DEF h
    <2>2. Len(h) = i
        BY <2>1, <1>2, <1>4
    <2>3. ASSUME NEW k \in 1..i PROVE h[k] = IF k <= i - 1 THEN s[k] ELSE x
        <3>1. k \in 1..Len(l) + Len(o)
            BY <1>2, <1>4
        <3>2. CASE k <= i - 1
            BY <2>1, <3>1, <3>2, <1>2
        <3>3. CASE k = i
            <4>1. ~(k <= Len(l)) /\ k - Len(l) = 1 /\ ~(k <= i - 1)
                BY <3>3, <1>2
            <4> QED BY <2>1, <3>1, <4>1, <1>4
        <3> QED BY <3>2, <3>3
    <2> QED BY <2>1, <2>2, <2>3
<1> HIDE DEF h
<1> DEFINE t == h \o r
<1>6. /\ t \in Seq(S) /\ Len(t) = Len(h) + Len(r)
      /\ \A k \in 1..Len(h) + Len(r) : t[k] = IF k <= Len(h) THEN h[k] ELSE r[k - Len(h)]
    BY <1>3, <1>5, ConcatProperties
<1>7. InsertAt(s, i, x) = t
    BY DEF InsertAt, t, h, l, r, o
<1> HIDE DEF t
<1>8. Len(t) = Len(s) + 1
    BY <1>1, <1>3, <1>5, <1>6
<1>9. ASSUME NEW k \in 1..Len(s) + 1
      PROVE  t[k] = IF k < i THEN s[k] ELSE IF k = i THEN x ELSE s[k - 1]
    <2>1. CASE k <= i
        BY <2>1, <1>1, <1>5, <1>6, <1>8
    <2>2. CASE ~(k <= i)
        <3>1. k - i \in 1..Len(s) - i + 1 /\ i + (k - i) - 1 = k - 1
            BY <2>2, <1>1
        <3> QED BY <2>2, <3>1, <1>1, <1>3, <1>5, <1>6, <1>8
    <2> QED BY <2>1, <2>2, <1>1
<1> QED BY <1>6, <1>7, <1>8, <1>9

LEMMA RemoveAtIs ==
    ASSUME NEW S, NEW s \in Seq(S), NEW i \in 1..Len(s)
    PROVE  /\ RemoveAt(s, i) \in Seq(S) /\ Len(RemoveAt(s, i)) = Len(s) - 1
           /\ \A k \in 1..Len(s) - 1 : RemoveAt(s, i)[k] = IF k < i THEN s[k] ELSE s[k + 1]
<1> DEFINE l == SubSeq(s, 1, i - 1)
           r == SubSeq(s, i + 1, Len(s))
<1>1. Len(s) \in Nat /\ \A k \in 1..Len(s) : s[k] \in S
    BY LenProperties, ElementOfSeq
<1>2. l \in Seq(S) /\ Len(l) = i - 1 /\ \A k \in 1..i - 1 : l[k] = s[k]
    <2>1. /\ l \in Seq(S) /\ Len(l) = IF 1 <= i - 1 THEN i - 1 - 1 + 1 ELSE 0
          /\ \A k \in 1..(i - 1 - 1 + 1) : l[k] = s[1 + k - 1]
        <3>1. 1 \in Int /\ i - 1 \in Int /\ \A k \in 1..i - 1 : s[k] \in S
            BY <1>1
        <3> QED BY <3>1, SubSeqProperties
    <2> HIDE DEF l
    <2> QED BY <2>1, <1>1
<1>3. r \in Seq(S) /\ Len(r) = Len(s) - i /\ \A k \in 1..Len(s) - i : r[k] = s[i + k]
    <2>1. /\ r \in Seq(S) /\ Len(r) = IF i + 1 <= Len(s) THEN Len(s) - (i + 1) + 1 ELSE 0
          /\ \A k \in 1..(Len(s) - (i + 1) + 1) : r[k] = s[i + 1 + k - 1]
        <3>1. i + 1 \in Int /\ Len(s) \in Int /\ \A k \in (i + 1)..Len(s) : s[k] \in S
            BY <1>1
        <3> QED BY <3>1, SubSeqProperties
    <2> HIDE DEF r
    <2>2. Len(s) - (i + 1) + 1 = Len(s) - i /\ \A k \in 1..Len(s) - i : i + 1 + k - 1 = i + k
        BY <1>1
    <2>3. Len(r) = Len(s) - i
        <3> SUFFICES ASSUME NEW n \in Nat, i \in 1..n
                     PROVE  (IF i + 1 <= n THEN n - (i + 1) + 1 ELSE 0) = n - i
            BY <2>1, <1>1
        <3> QED OBVIOUS
    <2> QED BY <2>1, <2>2, <2>3
<1> HIDE DEF l, r
<1> DEFINE t == l \o r
<1>4. /\ t \in Seq(S) /\ Len(t) = Len(l) + Len(r)
      /\ \A k \in 1..Len(l) + Len(r) : t[k] = IF k <= Len(l) THEN l[k] ELSE r[k - Len(l)]
    BY <1>2, <1>3, ConcatProperties
<1>5. RemoveAt(s, i) = t
    BY DEF RemoveAt, t, l, r
<1> HIDE DEF t
<1>6. Len(t) = Len(s) - 1
    BY <1>1, <1>2, <1>3, <1>4
<1>7. ASSUME NEW k \in 1..Len(s) - 1 PROVE t[k] = IF k < i THEN s[k] ELSE s[k + 1]
    <2>1. CASE k < i
        BY <2>1, <1>1, <1>2, <1>4, <1>6
    <2>2. CASE ~(k < i)
        <3>1. k - (i - 1) \in 1..Len(s) - i /\ i + (k - (i - 1)) = k + 1
            BY <2>2, <1>1
        <3>2. k \in 1..Len(l) + Len(r) /\ ~(k <= Len(l)) /\ k - Len(l) = k - (i - 1)
            BY <2>2, <1>1, <1>2, <1>3
        <3>3. t[k] = r[k - (i - 1)]
            BY <3>2, <1>4
        <3> QED BY <2>2, <3>1, <3>3, <1>3
    <2> QED BY <2>1, <2>2, <1>1
<1> QED BY <1>4, <1>5, <1>6, <1>7

(* Of an element that occurs once, the first occurrence is the occurrence. *)
LEMMA RemoveFirstIs ==
    ASSUME NEW s, NEW i \in 1..Len(s), \A j \in 1..Len(s) : s[j] = s[i] => j = i
    PROVE  RemoveFirst(s, s[i]) = RemoveAt(s, i)
<1>1. {j \in 1..Len(s) : s[j] = s[i]} = {i}
    OBVIOUS
<1>2. Min({i}) = i
    BY DEF Min
<1> QED BY <1>1, <1>2 DEF RemoveFirst, SelectInSeq

LEMMA MinIs ==
    ASSUME NEW T \in SUBSET Nat, T # {}
    PROVE  Min(T) \in T /\ \A y \in T : Min(T) <= y
<1>1. \E x \in T : \A y \in T : x <= y
    BY Least
<1> QED BY <1>1 DEF Min

-----------------------------------------------------------------------------
(* A ring as a sequence of elements. *)

(* Walk() satisfies its recursion. *)
LEMMA WalkIs ==
    ASSUME NEW r, NEW n \in Nat
    PROVE  /\ Walk(r, n) = [k \in 1..n |-> Walk(r, n)[k]]
           /\ \A k \in 1..n : /\ k = 1 => Walk(r, n)[k] = r.next[Root]
                              /\ k # 1 => Walk(r, n)[k] = r.next[Walk(r, n)[k - 1]]
<1> DEFINE F(f, j) == [k \in 0..j |-> IF k = 0 THEN Root ELSE r.next[f[k - 1]]]
           P == {j \in 0..n : \E f : f = F(f, j)}
           at == CHOOSE f : f = F(f, n)
<1>1. 0 \in P
    <2> DEFINE f == [k \in 0..0 |-> Root]
    <2>1. f = F(f, 0)
        OBVIOUS
    <2> HIDE DEF f, F
    <2>2. \E h : h = F(h, 0)
        BY <2>1
    <2> QED BY <2>2
<1>2. ASSUME NEW j \in 1..n, j - 1 \in P PROVE j \in P
    <2>1. PICK f : f = F(f, j - 1)
        BY <1>2
    <2> DEFINE g == [k \in 0..j |-> IF k = 0 THEN Root ELSE r.next[f[k - 1]]]
    <2>2. \A k \in 0..j - 1 : g[k] = f[k]
        <3>1. \A k \in 0..j - 1 : f[k] = IF k = 0 THEN Root ELSE r.next[f[k - 1]]
            BY <2>1
        <3> QED BY <3>1
    <2>3. g = F(g, j)
        <3>1. \A k \in 1..j : k - 1 \in 0..j - 1
            OBVIOUS
        <3>2. \A k \in 0..j : k = 0 \/ k \in 1..j
            OBVIOUS
        <3>3. \A k \in 0..j : (IF k = 0 THEN Root ELSE r.next[f[k - 1]])
                                 = IF k = 0 THEN Root ELSE r.next[g[k - 1]]
            BY <3>1, <3>2, <2>2
        <3> QED BY <3>3
    <2> HIDE DEF g, F
    <2>4. \E h : h = F(h, j)
        BY <2>3
    <2> QED BY <2>4
<1>3. n \in P
    <2> HIDE DEF P
    <2>1. \A j \in 0..n : j \in P
        BY <1>1, <1>2, Induction
    <2> QED BY <2>1
<1>4. at = F(at, n)
    BY <1>3
<1>5. Walk(r, n) = [k \in 1..n |-> at[k]]
    BY DEF Walk
<1> HIDE DEF at
<1>6. \A k \in 1..n : at[k] = r.next[at[k - 1]] /\ (k - 1 \in 1..n \/ k = 1) /\ at[0] = Root
    <2>1. \A k \in 0..n : at[k] = IF k = 0 THEN Root ELSE r.next[at[k - 1]]
        BY <1>4
    <2> QED BY <2>1
<1>7. \A k \in 1..n : Walk(r, n)[k] = at[k]
    BY <1>5
<1>8. ASSUME NEW k \in 1..n
      PROVE  /\ k = 1 => Walk(r, n)[k] = r.next[Root]
             /\ k # 1 => Walk(r, n)[k] = r.next[Walk(r, n)[k - 1]]
    <2>1. CASE k = 1
        BY <2>1, <1>6, <1>7
    <2>2. CASE k # 1
        BY <2>2, <1>6, <1>7
    <2> QED BY <2>1, <2>2
<1>9. Walk(r, n) = [k \in 1..n |-> Walk(r, n)[k]]
    BY <1>5
<1> QED BY <1>8, <1>9

(* The k-th element; the root is in front of the first and behind the last one. *)
Node(s, k) == IF k \in 1..Len(s) THEN s[k] ELSE Root

(* The pointers r are those of the list of the elements s. *)
Lists(r, s) ==
    /\ r \in Rings
    /\ s \in Seq(Element)
    /\ \A i, j \in 1..Len(s) : s[i] = s[j] => i = j
    /\ \A k \in 0..Len(s) :
          r.next[Node(s, k)] = Node(s, k + 1) /\ r.prev[Node(s, k + 1)] = Node(s, k)

LEMMA NodesDiffer ==
    ASSUME NEW r, NEW s, Lists(r, s)
    PROVE  /\ Len(s) \in Nat
           /\ \A k \in 0..Len(s) + 1 : Node(s, k) \in ToSet(s) \cup {Root}
           /\ \A i \in 1..Len(s) : s[i] \in ToSet(s)
           /\ ToSet(s) \in SUBSET Element
           /\ Node(s, 0) = Root /\ Node(s, Len(s) + 1) = Root
           /\ \A i \in 1..Len(s) : Node(s, i) = s[i] /\ Node(s, i) # Root
           /\ \A i, j \in 0..Len(s) : Node(s, i) = Node(s, j) => i = j
           /\ \A i, j \in 1..Len(s) + 1 : Node(s, i) = Node(s, j) => i = j
<1>1. Len(s) \in Nat /\ DOMAIN s = 1..Len(s) /\ \A i \in 1..Len(s) : s[i] \in Element
    BY LenProperties, ElementOfSeq DEF Lists
<1>2. \A i \in 1..Len(s) : s[i] \in ToSet(s)
    BY <1>1 DEF ToSet
<1>3. ToSet(s) \in SUBSET Element
    BY <1>1 DEF ToSet
<1>4. /\ \A i \in 1..Len(s) : Node(s, i) = s[i] /\ Node(s, i) # Root
      /\ Node(s, 0) = Root /\ Node(s, Len(s) + 1) = Root
    BY <1>1, RingAssumption DEF Node
<1>5. /\ \A i \in 0..Len(s) : i = 0 \/ i \in 1..Len(s)
      /\ \A i \in 1..Len(s) + 1 : i = Len(s) + 1 \/ i \in 1..Len(s)
      /\ \A i \in 0..Len(s) + 1 : i = 0 \/ i = Len(s) + 1 \/ i \in 1..Len(s)
    BY <1>1
<1>6. \A i, j \in 1..Len(s) : Node(s, i) = Node(s, j) => i = j
    BY <1>4 DEF Lists
<1>7. \A k \in 0..Len(s) + 1 : Node(s, k) \in ToSet(s) \cup {Root}
    BY <1>2, <1>4, <1>5
<1>8. \A i, j \in 0..Len(s) : Node(s, i) = Node(s, j) => i = j
    BY <1>4, <1>5, <1>6
<1>9. \A i, j \in 1..Len(s) + 1 : Node(s, i) = Node(s, j) => i = j
    BY <1>4, <1>5, <1>6
<1> QED BY <1>1, <1>2, <1>3, <1>4, <1>7, <1>8, <1>9

(* Walking along the pointers yields the elements. *)
LEMMA WalkOfList ==
    ASSUME NEW r, NEW s, Lists(r, s)
    PROVE  Walk(r, Len(s)) = s
<1>1. Len(s) \in Nat /\ s \in Seq(Element)
    BY NodesDiffer DEF Lists
<1>2. SUFFICES ASSUME NEW n \in Nat, n = Len(s), NEW w, w = Walk(r, n) PROVE w = s
    BY <1>1
<1> DEFINE P == {k \in 0..n : k = 0 \/ w[k] = s[k]}
<1>3. /\ w = [k \in 1..n |-> w[k]]
      /\ \A k \in 1..n : (k = 1 => w[k] = r.next[Root]) /\ (k # 1 => w[k] = r.next[w[k - 1]])
    BY <1>2, WalkIs
<1>4. \A k \in 1..n : Node(s, k) = s[k]
    BY <1>2, NodesDiffer
<1>5. \A k \in 1..n : k - 1 \in 0..n /\ k - 1 + 1 = k /\ k \in 0..n /\ (k # 1 => k - 1 \in 1..n)
    BY <1>1
<1>6. ASSUME NEW k \in 1..n, k - 1 \in P PROVE k \in P
    <2>1. r.next[Node(s, k - 1)] = s[k]
        <3>1. r.next[Node(s, k - 1)] = Node(s, k - 1 + 1)
            BY <1>2, <1>5 DEF Lists
        <3> QED BY <3>1, <1>4, <1>5
    <2>2. CASE k = 1
        <3>1. Node(s, 0) = Root
            BY NodesDiffer
        <3>2. w[k] = r.next[Root] /\ s[k] = r.next[Root] /\ k \in 0..n
            BY <3>1, <2>1, <2>2, <1>3, <1>5
        <3> QED BY <3>2
    <2>3. CASE k # 1
        <3>1. w[k - 1] = s[k - 1] /\ Node(s, k - 1) = s[k - 1]
            BY <2>3, <1>4, <1>5, <1>6
        <3>2. w[k] = r.next[w[k - 1]] /\ k \in 0..n
            BY <2>3, <1>3, <1>5
        <3>3. w[k] = s[k]
            BY <3>1, <3>2, <2>1
        <3> QED BY <3>2, <3>3
    <2> QED BY <2>2, <2>3
<1>7. \A k \in 0..n : k \in P
    <2>1. 0 \in P
        BY <1>1
    <2> HIDE DEF P
    <2> QED BY <2>1, <1>6, Induction
<1>8. \A k \in 1..n : w[k] = s[k]
    BY <1>7
<1>9. s = [k \in 1..n |-> s[k]]
    BY <1>1, <1>2, LenProperties
<1>10. [k \in 1..n |-> w[k]] = [k \in 1..n |-> s[k]]
    BY <1>8
<1>11. w = s
    BY <1>3, <1>9, <1>10
<1> QED BY <1>11

(* One ring is a list. *)
LEMMA RingIsList ==
    ASSUME NEW r, NEW S \in SUBSET Element, NEW n \in Nat, IsRing(r, S),
           ToSet(Walk(r, n)) = S, IsInjective(Walk(r, n)),
           r.next[IF n = 0 THEN Root ELSE Walk(r, n)[n]] = Root
    PROVE  Lists(r, Walk(r, n)) /\ Len(Walk(r, n)) = n
<1>1. SUFFICES ASSUME NEW w, w = Walk(r, n) PROVE Lists(r, w) /\ Len(w) = n
    OBVIOUS
<1>2. /\ w = [k \in 1..n |-> w[k]]
      /\ \A k \in 1..n : (k = 1 => w[k] = r.next[Root]) /\ (k # 1 => w[k] = r.next[w[k - 1]])
    BY <1>1, WalkIs
<1>3. \A k \in 1..n : w[k] \in S
    BY <1>1, <1>2 DEF ToSet
<1>4. w \in Seq(Element) /\ Len(w) = n
    BY <1>2, <1>3
<1>5. \A i, j \in 1..n : w[i] = w[j] => i = j
    BY <1>1, <1>2 DEF IsInjective
<1>6. /\ \A k \in 1..n : Node(w, k) = w[k]
      /\ Node(w, 0) = Root /\ Node(w, n + 1) = Root
    BY <1>4 DEF Node
<1>7. ASSUME NEW k \in 0..n
      PROVE  r.next[Node(w, k)] = Node(w, k + 1) /\ Node(w, k) \in S \cup {Root}
    <2>1. CASE k = 0
        <3>1. CASE n = 0
            <4>1. (IF n = 0 THEN Root ELSE Walk(r, n)[n]) = Root
                BY <3>1, Zenon
            <4>2. r.next[Root] = Root
                BY <4>1, Zenon
            <4> QED BY <2>1, <3>1, <4>2, <1>6
        <3>2. CASE n # 0
            <4>1. 1 \in 1..n /\ 0 + 1 = 1
                BY <3>2
            <4> QED BY <2>1, <4>1, <1>2, <1>6
        <3> QED BY <3>1, <3>2
    <2>2. CASE k = n /\ n # 0
        <3>1. (IF n = 0 THEN Root ELSE w[n]) = w[n]
            BY <2>2, Zenon
        <3>2. r.next[w[n]] = Root
            BY <3>1, <1>1, Zenon
        <3>3. n \in 1..n
            BY <2>2
        <3> QED BY <2>2, <3>2, <3>3, <1>3, <1>6
    <2>3. CASE k \in 1..n - 1
        <3>1. k \in 1..n /\ k + 1 \in 1..n /\ k + 1 # 1 /\ k + 1 - 1 = k
            BY <2>3
        <3>2. \A j \in 1..n : j # 1 => w[j] = r.next[w[j - 1]]
            BY <1>2, Zenon
        <3>3. w[k + 1] = r.next[w[k]]
            <4> DEFINE j == k + 1
            <4>1. j \in 1..n /\ j # 1 /\ j - 1 = k
                BY <3>1
            <4> HIDE DEF j
            <4>2. w[j] = r.next[w[j - 1]]
                BY <4>1, <3>2, Zenon
            <4>3. w[j] = r.next[w[k]]
                BY <4>1, <4>2, Zenon
            <4> QED BY <4>3 DEF j
        <3> QED BY <3>1, <3>3, <1>3, <1>6
    <2> QED BY <2>1, <2>2, <2>3
<1>8. ASSUME NEW k \in 0..n PROVE r.prev[Node(w, k + 1)] = Node(w, k)
    BY <1>7 DEF IsRing
<1> QED BY <1>4, <1>5, <1>7, <1>8 DEF Lists, IsRing

(* The other way round. *)
LEMMA ListIsRing ==
    ASSUME NEW r, NEW s, Lists(r, s)
    PROVE  /\ IsRing(r, ToSet(s)) /\ IsInjective(s) /\ Walk(r, Len(s)) = s
           /\ r.next[IF Len(s) = 0 THEN Root ELSE s[Len(s)]] = Root
<1>1. s \in Seq(Element) /\ Len(s) \in Nat /\ DOMAIN s = 1..Len(s)
    BY LenProperties DEF Lists
<1>2. \A x \in ToSet(s) : \E i \in 1..Len(s) : x = s[i]
    BY <1>1 DEF ToSet
<1>3. ASSUME NEW x \in ToSet(s) \cup {Root}
      PROVE  /\ r.next[x] \in ToSet(s) \cup {Root} /\ r.prev[r.next[x]] = x
             /\ r.prev[x] \in ToSet(s) \cup {Root} /\ r.next[r.prev[x]] = x
    <2>1. PICK k \in 0..Len(s) : x = Node(s, k)
        <3>1. CASE x = Root
            <4>1. Node(s, 0) = Root /\ 0 \in 0..Len(s)
                BY <1>1, NodesDiffer
            <4> QED BY <3>1, <4>1
        <3>2. CASE x # Root
            <4>1. PICK i \in 1..Len(s) : x = s[i]
                BY <3>2, <1>2
            <4>2. Node(s, i) = s[i] /\ i \in 0..Len(s)
                BY <1>1, NodesDiffer
            <4> QED BY <4>1, <4>2
        <3> QED BY <3>1, <3>2
    <2>2. PICK j \in 0..Len(s) : x = Node(s, j + 1)
        <3>1. CASE x = Root
            <4>1. Node(s, Len(s) + 1) = Root /\ Len(s) \in 0..Len(s)
                BY <1>1, NodesDiffer
            <4> QED BY <3>1, <4>1
        <3>2. CASE x # Root
            <4>1. PICK i \in 1..Len(s) : x = s[i]
                BY <3>2, <1>2
            <4>2. Node(s, i) = s[i] /\ i - 1 \in 0..Len(s) /\ i - 1 + 1 = i
                BY <1>1, NodesDiffer
            <4> QED BY <4>1, <4>2
        <3> QED BY <3>1, <3>2
    <2>3. k + 1 \in 0..Len(s) + 1 /\ j \in 0..Len(s) + 1
        BY <1>1
    <2>4. Node(s, k + 1) \in ToSet(s) \cup {Root} /\ Node(s, j) \in ToSet(s) \cup {Root}
        BY <2>3, NodesDiffer
    <2> QED BY <2>1, <2>2, <2>4 DEF Lists
<1>4. r.next[IF Len(s) = 0 THEN Root ELSE s[Len(s)]] = Root
    <2>1. r.next[Node(s, Len(s))] = Node(s, Len(s) + 1)
        BY <1>1 DEF Lists
    <2>2. Node(s, Len(s) + 1) = Root /\ Node(s, 0) = Root
        BY NodesDiffer
    <2>3. Len(s) # 0 => Node(s, Len(s)) = s[Len(s)]
        BY <1>1, NodesDiffer
    <2> QED BY <2>1, <2>2, <2>3
<1>5. IsInjective(s)
    BY <1>1 DEF IsInjective, Lists
<1> QED BY <1>3, <1>4, <1>5, WalkOfList DEF IsRing, Lists

(* The nodes of a list with an additional element, and of one without one. *)
LEMMA InsertedNodes ==
    ASSUME NEW s \in Seq(Element), NEW x \in Element, NEW i \in 0..Len(s)
    PROVE  /\ InsertAt(s, i + 1, x) \in Seq(Element) /\ Len(InsertAt(s, i + 1, x)) = Len(s) + 1
           /\ \A k \in 0..Len(s) + 2 : Node(InsertAt(s, i + 1, x), k)
                 = IF k <= i THEN Node(s, k) ELSE IF k = i + 1 THEN x ELSE Node(s, k - 1)
<1>1. Len(s) \in Nat /\ i + 1 \in 1..Len(s) + 1
    BY LenProperties
<1>2. SUFFICES ASSUME NEW t, t = InsertAt(s, i + 1, x), NEW n \in Nat, n = Len(s)
               PROVE  /\ t \in Seq(Element) /\ Len(t) = n + 1
                      /\ \A k \in 0..n + 2 : Node(t, k)
                            = IF k <= i THEN Node(s, k) ELSE IF k = i + 1 THEN x ELSE Node(s, k - 1)
    BY <1>1
<1>3. /\ t \in Seq(Element) /\ Len(t) = n + 1
      /\ \A k \in 1..n + 1 : t[k] = IF k < i + 1 THEN s[k] ELSE IF k = i + 1 THEN x ELSE s[k - 1]
    <2> DEFINE j == i + 1
    <2>1. j \in 1..Len(s) + 1
        BY <1>1
    <2> HIDE DEF j
    <2>2. /\ InsertAt(s, j, x) \in Seq(Element) /\ Len(InsertAt(s, j, x)) = Len(s) + 1
          /\ \A k \in 1..Len(s) + 1 :
                InsertAt(s, j, x)[k] = IF k < j THEN s[k] ELSE IF k = j THEN x ELSE s[k - 1]
        BY <2>1, InsertAtIs
    <2> QED BY <2>2, <1>2 DEF j
<1>4. ASSUME NEW k \in 0..n + 2
      PROVE  Node(t, k) = IF k <= i THEN Node(s, k) ELSE IF k = i + 1 THEN x ELSE Node(s, k - 1)
    <2>1. CASE k <= i
        <3>1. k = 0 \/ (k \in 1..n /\ k \in 1..n + 1 /\ k < i + 1)
            BY <2>1, <1>2
        <3> QED BY <2>1, <3>1, <1>2, <1>3 DEF Node
    <2>2. CASE k = i + 1
        <3>1. k \in 1..n + 1 /\ ~(k <= i) /\ ~(k < i + 1)
            BY <2>2, <1>2
        <3> QED BY <2>2, <3>1, <1>3 DEF Node
    <2>3. CASE k > i + 1
        <3>1. /\ ~(k <= i) /\ k # i + 1 /\ ~(k < i + 1)
              /\ \/ k = n + 2 /\ k - 1 \notin 1..n /\ k \notin 1..n + 1
                 \/ k - 1 \in 1..n /\ k \in 1..n + 1
            BY <2>3, <1>2
        <3> QED BY <3>1, <1>2, <1>3 DEF Node
    <2> QED BY <2>1, <2>2, <2>3
<1> QED BY <1>3, <1>4

LEMMA RemovedNodes ==
    ASSUME NEW s \in Seq(Element), NEW i \in 1..Len(s)
    PROVE  /\ RemoveAt(s, i) \in Seq(Element) /\ Len(RemoveAt(s, i)) = Len(s) - 1
           /\ \A k \in 0..Len(s) : Node(RemoveAt(s, i), k)
                 = IF k < i THEN Node(s, k) ELSE Node(s, k + 1)
<1>1. Len(s) \in Nat
    BY LenProperties
<1>2. SUFFICES ASSUME NEW t, t = RemoveAt(s, i), NEW n \in Nat, n = Len(s)
               PROVE  /\ t \in Seq(Element) /\ Len(t) = n - 1
                      /\ \A k \in 0..n : Node(t, k) = IF k < i THEN Node(s, k) ELSE Node(s, k + 1)
    BY <1>1
<1>3. /\ t \in Seq(Element) /\ Len(t) = n - 1
      /\ \A k \in 1..n - 1 : t[k] = IF k < i THEN s[k] ELSE s[k + 1]
    BY <1>2, RemoveAtIs
<1>4. ASSUME NEW k \in 0..n PROVE Node(t, k) = IF k < i THEN Node(s, k) ELSE Node(s, k + 1)
    <2>1. CASE k < i
        <3>1. k = 0 \/ (k \in 1..n /\ k \in 1..n - 1)
            BY <2>1, <1>2
        <3> QED BY <2>1, <3>1, <1>2, <1>3 DEF Node
    <2>2. CASE ~(k < i)
        <3>1. (k = n /\ k + 1 \notin 1..n /\ k \notin 1..n - 1) \/ (k + 1 \in 1..n /\ k \in 1..n - 1)
            BY <2>2, <1>2
        <3> QED BY <2>2, <3>1, <1>2, <1>3 DEF Node
    <2> QED BY <2>1, <2>2
<1> QED BY <1>3, <1>4

-----------------------------------------------------------------------------
(* What the assignments to pointers make of a list. *)

(* insert() of a new element behind the i-th one, or the root. *)
LEMMA InsertedList ==
    ASSUME NEW r, NEW s, Lists(r, s), NEW x \in Element \ ToSet(s), NEW i \in 0..Len(s)
    PROVE  Lists(Linked(r, x, Node(s, i)), InsertAt(s, i + 1, x))
<1>1. SUFFICES ASSUME NEW at, at = Node(s, i), NEW l, l = Linked(r, x, at),
                      NEW t, t = InsertAt(s, i + 1, x), NEW n, n = Len(s)
               PROVE  Lists(l, t)
    OBVIOUS
<1>2. n \in Nat /\ s \in Seq(Element) /\ i \in 0..n /\ i + 1 \in 1..n + 1 /\ i \in 0..n + 1
    BY <1>1, NodesDiffer DEF Lists
<1>3. /\ t \in Seq(Element) /\ Len(t) = n + 1
      /\ \A k \in 0..n + 2 :
            Node(t, k) = IF k <= i THEN Node(s, k) ELSE IF k = i + 1 THEN x ELSE Node(s, k - 1)
    BY <1>1, <1>2, InsertedNodes
<1>4. /\ \A k \in 0..n + 1 : Node(s, k) \in Element \cup {Root} /\ Node(s, k) # x
      /\ \A j, k \in 0..n : Node(s, j) = Node(s, k) => j = k
      /\ \A j, k \in 1..n + 1 : Node(s, j) = Node(s, k) => j = k
    BY <1>1, NodesDiffer, RingAssumption
<1>5. /\ r.next \in [Element \cup {Root} -> Pointer] /\ r.prev \in [Element \cup {Root} -> Pointer]
      /\ \A k \in 0..n : r.next[Node(s, k)] = Node(s, k + 1) /\ r.prev[Node(s, k + 1)] = Node(s, k)
      /\ r.next[at] = Node(s, i + 1) /\ at \in Element \cup {Root}
    BY <1>1, <1>2, <1>4 DEF Lists, Rings
<1>6. /\ l.next = [r.next EXCEPT ![x] = Node(s, i + 1), ![at] = x]
      /\ l.prev = [r.prev EXCEPT ![x] = at, ![Node(s, i + 1)] = x]
      /\ l \in Rings
    <2>1. l = [next |-> [r.next EXCEPT ![x] = Node(s, i + 1), ![at] = x],
               prev |-> [r.prev EXCEPT ![x] = at, ![Node(s, i + 1)] = x]]
        BY <1>1, <1>5 DEF Linked
    <2>2. Node(s, i + 1) \in Pointer /\ at \in Pointer /\ x \in Pointer
        BY <1>2, <1>4, <1>5 DEF Pointer
    <2> QED BY <2>1, <2>2, <1>5 DEF Rings
<1>7. /\ \A y \in Element \cup {Root} :
            l.next[y] = IF y = at THEN x ELSE IF y = x THEN Node(s, i + 1) ELSE r.next[y]
      /\ \A y \in Element \cup {Root} :
            l.prev[y] = IF y = Node(s, i + 1) THEN x ELSE IF y = x THEN at ELSE r.prev[y]
    BY <1>1, <1>2, <1>4, <1>5, <1>6
<1>8. ASSUME NEW k \in 0..n + 1
      PROVE  l.next[Node(t, k)] = Node(t, k + 1) /\ l.prev[Node(t, k + 1)] = Node(t, k)
    <2>1. CASE k < i
        <3>1. k \in 0..n /\ k + 1 \in 1..n + 1 /\ k # i /\ k <= i /\ k + 1 <= i /\ k + 1 # i + 1
              /\ k \in 0..n + 1 /\ k + 1 \in 0..n + 1 /\ k \in 0..n + 2 /\ k + 1 \in 0..n + 2
            BY <2>1, <1>2
        <3>2. Node(t, k) = Node(s, k) /\ Node(t, k + 1) = Node(s, k + 1)
            BY <3>1, <1>3
        <3>3. Node(s, k) # at /\ Node(s, k + 1) # Node(s, i + 1)
            BY <3>1, <1>1, <1>2, <1>4
        <3>4. Node(s, k) # x /\ Node(s, k + 1) # x
              /\ Node(s, k) \in Element \cup {Root} /\ Node(s, k + 1) \in Element \cup {Root}
            BY <3>1, <1>4
        <3> QED BY <3>1, <3>2, <3>3, <3>4, <1>5, <1>7
    <2>2. CASE k = i
        <3>1. k \in 0..n + 2 /\ k + 1 \in 0..n + 2 /\ k <= i /\ ~(k + 1 <= i) /\ k + 1 = i + 1
            BY <2>2, <1>2
        <3>2. Node(t, k) = at /\ Node(t, k + 1) = x
            BY <3>1, <2>2, <1>1, <1>3
        <3>3. x # at /\ x # Node(s, i + 1)
            BY <1>1, <1>2, <1>4
        <3> QED BY <3>2, <3>3, <1>5, <1>7
    <2>3. CASE k = i + 1
        <3>1. /\ k \in 0..n + 2 /\ k + 1 \in 0..n + 2 /\ ~(k <= i) /\ ~(k + 1 <= i) /\ k + 1 # i + 1
              /\ k + 1 - 1 = i + 1 /\ i + 1 \in 0..n + 1
            BY <2>3, <1>2
        <3>2. Node(t, k) = x /\ Node(t, k + 1) = Node(s, i + 1)
            BY <3>1, <2>3, <1>3
        <3>3. x # at /\ Node(s, i + 1) \in Element \cup {Root}
            BY <3>1, <1>1, <1>2, <1>4
        <3> QED BY <3>2, <3>3, <1>7
    <2>4. CASE k > i + 1
        <3>1. /\ k - 1 \in 0..n /\ k \in 0..n + 1 /\ k - 1 + 1 = k /\ k + 1 - 1 = k
              /\ k \in 0..n + 2 /\ k + 1 \in 0..n + 2 /\ ~(k <= i) /\ ~(k + 1 <= i)
              /\ k # i + 1 /\ k + 1 # i + 1 /\ k - 1 # i /\ k - 1 \in 0..n + 1 /\ k \in 1..n + 1
            BY <2>4, <1>2
        <3>2. Node(t, k) = Node(s, k - 1) /\ Node(t, k + 1) = Node(s, k)
            BY <3>1, <1>3
        <3>3. Node(s, k - 1) # at /\ Node(s, k) # Node(s, i + 1)
            BY <3>1, <1>1, <1>2, <1>4
        <3>4. Node(s, k - 1) # x /\ Node(s, k) # x
              /\ Node(s, k - 1) \in Element \cup {Root} /\ Node(s, k) \in Element \cup {Root}
            BY <3>1, <1>4
        <3>5. r.next[Node(s, k - 1)] = Node(s, k) /\ r.prev[Node(s, k)] = Node(s, k - 1)
            BY <3>1, <1>5
        <3> QED BY <3>2, <3>3, <3>4, <3>5, <1>7
    <2> QED BY <2>1, <2>2, <2>3, <2>4, <1>2
<1>9. ASSUME NEW j \in 1..n + 1, NEW k \in 1..n + 1, t[j] = t[k] PROVE j = k
    <2>1. Node(t, j) = Node(t, k) /\ j \in 0..n + 2 /\ k \in 0..n + 2
        BY <1>2, <1>3, <1>9 DEF Node
    <2>2. \A a \in 1..n + 1 : a = i + 1 \/ (a <= i /\ a \in 0..n /\ a \in 0..n + 1)
             \/ (~(a <= i) /\ a # i + 1 /\ a - 1 \in 0..n /\ a - 1 \in 0..n + 1)
        BY <1>2
    <2>3. (Node(t, j) = x) <=> j = i + 1
        BY <2>1, <2>2, <1>2, <1>3, <1>4
    <2>4. (Node(t, k) = x) <=> k = i + 1
        BY <2>1, <2>2, <1>2, <1>3, <1>4
    <2>5. CASE j = i + 1 \/ k = i + 1
        BY <2>1, <2>3, <2>4, <2>5
    <2>6. CASE j # i + 1 /\ k # i + 1
        <3> DEFINE a == IF j <= i THEN j ELSE j - 1
                   b == IF k <= i THEN k ELSE k - 1
        <3>1. a \in 0..n /\ b \in 0..n
            BY <2>2, <2>6
        <3>2. Node(t, j) = Node(s, a) /\ Node(t, k) = Node(s, b)
            BY <2>1, <2>6, <1>3
        <3>3. a = b
            BY <2>1, <3>1, <3>2, <1>4
        <3> QED BY <3>3, <2>6, <1>2
    <2> QED BY <2>5, <2>6
<1> QED BY <1>3, <1>6, <1>8, <1>9 DEF Lists

(* The first half of remove() and of move(). *)
LEMMA BypassedList ==
    ASSUME NEW r, NEW s, Lists(r, s), NEW i \in 1..Len(s)
    PROVE  /\ Lists(Bypassed(r, s[i]), RemoveAt(s, i))
           /\ ToSet(RemoveAt(s, i)) = ToSet(s) \ {s[i]}
<1>1. SUFFICES ASSUME NEW b, b = Bypassed(r, s[i]), NEW t, t = RemoveAt(s, i), NEW n, n = Len(s)
               PROVE  Lists(b, t) /\ ToSet(t) = ToSet(s) \ {s[i]}
    OBVIOUS
<1>2. /\ n \in Nat /\ s \in Seq(Element) /\ i \in 1..n /\ i - 1 \in 0..n /\ i \in 0..n
      /\ i - 1 + 1 = i /\ i - 1 \in 0..n + 1 /\ i + 1 \in 0..n + 1 /\ i + 1 \in 1..n + 1
    BY <1>1, NodesDiffer DEF Lists
<1>3. /\ t \in Seq(Element) /\ Len(t) = n - 1
      /\ \A k \in 0..n : Node(t, k) = IF k < i THEN Node(s, k) ELSE Node(s, k + 1)
    BY <1>1, <1>2, RemovedNodes
<1>4. /\ \A k \in 0..n + 1 : Node(s, k) \in Element \cup {Root}
      /\ \A j, k \in 0..n : Node(s, j) = Node(s, k) => j = k
      /\ \A j, k \in 1..n + 1 : Node(s, j) = Node(s, k) => j = k
      /\ Node(s, i) = s[i]
    BY <1>1, <1>2, NodesDiffer, RingAssumption
<1>5. /\ r.next \in [Element \cup {Root} -> Pointer] /\ r.prev \in [Element \cup {Root} -> Pointer]
      /\ \A k \in 0..n : r.next[Node(s, k)] = Node(s, k + 1) /\ r.prev[Node(s, k + 1)] = Node(s, k)
    BY <1>1, <1>2, <1>4 DEF Lists, Rings
<1>6. r.next[s[i]] = Node(s, i + 1) /\ r.prev[s[i]] = Node(s, i - 1)
    BY <1>2, <1>4, <1>5
<1>7. /\ b.next = [r.next EXCEPT ![Node(s, i - 1)] = Node(s, i + 1)]
      /\ b.prev = [r.prev EXCEPT ![Node(s, i + 1)] = Node(s, i - 1)]
      /\ b \in Rings
    <2>1. b = [next |-> [r.next EXCEPT ![Node(s, i - 1)] = Node(s, i + 1)],
               prev |-> [r.prev EXCEPT ![Node(s, i + 1)] = Node(s, i - 1)]]
        BY <1>1, <1>6 DEF Bypassed
    <2>2. Node(s, i + 1) \in Pointer /\ Node(s, i - 1) \in Pointer
        BY <1>2, <1>4 DEF Pointer
    <2> QED BY <2>1, <2>2, <1>5 DEF Rings
<1>8. /\ \A y \in Element \cup {Root} :
            b.next[y] = IF y = Node(s, i - 1) THEN Node(s, i + 1) ELSE r.next[y]
      /\ \A y \in Element \cup {Root} :
            b.prev[y] = IF y = Node(s, i + 1) THEN Node(s, i - 1) ELSE r.prev[y]
    BY <1>5, <1>7
<1>9. ASSUME NEW k \in 0..n - 1
      PROVE  b.next[Node(t, k)] = Node(t, k + 1) /\ b.prev[Node(t, k + 1)] = Node(t, k)
    <2>1. CASE k < i - 1
        <3>1. /\ k \in 0..n /\ k + 1 \in 0..n /\ k < i /\ k + 1 < i /\ k # i - 1 /\ k + 1 # i + 1
              /\ k + 1 \in 1..n + 1 /\ k + 1 \in 0..n + 1 /\ k \in 0..n + 1
            BY <2>1, <1>2
        <3>2. Node(t, k) = Node(s, k) /\ Node(t, k + 1) = Node(s, k + 1)
            BY <3>1, <1>3
        <3>3. Node(s, k) # Node(s, i - 1) /\ Node(s, k + 1) # Node(s, i + 1)
            BY <3>1, <1>2, <1>4
        <3>4. Node(s, k) \in Element \cup {Root} /\ Node(s, k + 1) \in Element \cup {Root}
            BY <3>1, <1>4
        <3> QED BY <3>1, <3>2, <3>3, <3>4, <1>5, <1>8
    <2>2. CASE k = i - 1
        <3>1. k \in 0..n /\ k + 1 \in 0..n /\ k < i /\ ~(k + 1 < i) /\ k + 1 + 1 = i + 1
            BY <2>2, <1>2
        <3>2. Node(t, k) = Node(s, i - 1) /\ Node(t, k + 1) = Node(s, i + 1)
            BY <3>1, <2>2, <1>3
        <3> QED BY <3>2, <1>2, <1>4, <1>8
    <2>3. CASE k > i - 1
        <3>1. /\ k \in 0..n /\ k + 1 \in 0..n /\ ~(k < i) /\ ~(k + 1 < i) /\ k + 1 # i - 1
              /\ k + 1 + 1 # i + 1 /\ k + 1 + 1 \in 1..n + 1 /\ k + 1 + 1 \in 0..n + 1
              /\ k + 1 \in 0..n + 1
            BY <2>3, <1>2
        <3>2. Node(t, k) = Node(s, k + 1) /\ Node(t, k + 1) = Node(s, k + 1 + 1)
            BY <3>1, <1>3
        <3>3. Node(s, k + 1) # Node(s, i - 1) /\ Node(s, k + 1 + 1) # Node(s, i + 1)
            BY <3>1, <1>2, <1>4
        <3>4. Node(s, k + 1) \in Element \cup {Root} /\ Node(s, k + 1 + 1) \in Element \cup {Root}
            BY <3>1, <1>4
        <3> QED BY <3>1, <3>2, <3>3, <3>4, <1>5, <1>8
    <2> QED BY <2>1, <2>2, <2>3, <1>2
<1>10. /\ \A k \in 1..n - 1 : t[k] = IF k < i THEN s[k] ELSE s[k + 1]
       /\ \A k \in 1..n - 1 : (k < i => k \in 1..n) /\ (~(k < i) => k + 1 \in 1..n)
    BY <1>1, <1>2, RemoveAtIs
<1>11. ASSUME NEW j \in 1..n - 1, NEW k \in 1..n - 1, t[j] = t[k] PROVE j = k
    <2> DEFINE c == IF j < i THEN j ELSE j + 1
               d == IF k < i THEN k ELSE k + 1
    <2>1. c \in 1..n /\ d \in 1..n
        BY <1>10
    <2>2. t[j] = s[c] /\ t[k] = s[d]
        BY <1>10
    <2>3. c = d
        BY <2>1, <2>2, <1>1, <1>11 DEF Lists
    <2> QED BY <2>3, <1>2
<1>12. ToSet(t) = ToSet(s) \ {s[i]}
    <2>1. ToSet(t) = {t[k] : k \in 1..n - 1} /\ ToSet(s) = {s[k] : k \in 1..n}
        BY <1>1, <1>2, <1>3, LenProperties DEF ToSet
    <2>2. \A k \in 1..n - 1 : t[k] \in {s[j] : j \in 1..n} /\ t[k] # s[i]
        <3> TAKE k \in 1..n - 1
        <3>1. CASE k < i
            <4>1. k \in 1..n /\ k # i /\ t[k] = s[k]
                BY <3>1, <1>2, <1>10
            <4> QED BY <4>1, <1>1 DEF Lists
        <3>2. CASE ~(k < i)
            <4>1. k + 1 \in 1..n /\ k + 1 # i /\ t[k] = s[k + 1]
                BY <3>2, <1>2, <1>10
            <4> QED BY <4>1, <1>1 DEF Lists
        <3> QED BY <3>1, <3>2
    <2>3. \A j \in 1..n : j = i \/ s[j] \in {t[k] : k \in 1..n - 1}
        <3> TAKE j \in 1..n
        <3>1. CASE j < i
            <4>1. j \in 1..n - 1 /\ t[j] = s[j]
                BY <3>1, <1>2, <1>10
            <4> QED BY <4>1
        <3>2. CASE j > i
            <4>1. j - 1 \in 1..n - 1 /\ j - 1 + 1 = j /\ ~(j - 1 < i)
                BY <3>2, <1>2
            <4>2. t[j - 1] = s[j]
                BY <4>1, <1>10
            <4> QED BY <4>1, <4>2
        <3> QED BY <3>1, <3>2, <1>2
    <2> QED BY <2>1, <2>2, <2>3
<1> QED BY <1>3, <1>7, <1>9, <1>11, <1>12 DEF Lists

(* The elements of a longer list. *)
LEMMA InsertedSet ==
    ASSUME NEW S, NEW s \in Seq(S), NEW x \in S, NEW i \in 1..Len(s) + 1
    PROVE  ToSet(InsertAt(s, i, x)) = ToSet(s) \cup {x}
<1>1. Len(s) \in Nat
    BY LenProperties
<1>2. /\ InsertAt(s, i, x) \in Seq(S) /\ Len(InsertAt(s, i, x)) = Len(s) + 1
      /\ \A k \in 1..Len(s) + 1 :
            InsertAt(s, i, x)[k] = IF k < i THEN s[k] ELSE IF k = i THEN x ELSE s[k - 1]
    BY InsertAtIs, SMTT(60)
<1>3. SUFFICES ASSUME NEW t, t = InsertAt(s, i, x), NEW n \in Nat, n = Len(s)
               PROVE  ToSet(t) = ToSet(s) \cup {x}
    BY <1>1
<1>4. /\ t \in Seq(S) /\ Len(t) = n + 1
      /\ \A k \in 1..n + 1 : t[k] = IF k < i THEN s[k] ELSE IF k = i THEN x ELSE s[k - 1]
    BY <1>3, <1>2, Zenon
<1>5. ToSet(t) = {t[k] : k \in 1..n + 1} /\ ToSet(s) = {s[k] : k \in 1..n}
    BY <1>3, <1>4, LenProperties DEF ToSet
<1>6. \A k \in 1..n + 1 : t[k] \in {s[j] : j \in 1..n} \cup {x}
    <2>1. \A k \in 1..n + 1 : (k < i => k \in 1..n) /\ (k > i => k - 1 \in 1..n)
        BY <1>3
    <2> QED BY <2>1, <1>3, <1>4
<1>7. i \in 1..n + 1 /\ t[i] = x
    BY <1>3, <1>4
<1>8. \A j \in 1..n : s[j] \in {t[k] : k \in 1..n + 1}
    <2> TAKE j \in 1..n
    <2>1. CASE j < i
        <3>1. j \in 1..n + 1 /\ t[j] = s[j]
            BY <2>1, <1>3, <1>4
        <3> QED BY <3>1
    <2>2. CASE ~(j < i)
        <3>1. j + 1 \in 1..n + 1 /\ ~(j + 1 < i) /\ j + 1 # i /\ j + 1 - 1 = j
            BY <2>2, <1>3
        <3>2. t[j + 1] = s[j]
            BY <3>1, <1>4
        <3> QED BY <3>1, <3>2
    <2> QED BY <2>1, <2>2
<1> QED BY <1>5, <1>6, <1>7, <1>8

(* remove() *)
LEMMA UnlinkedList ==
    ASSUME NEW r, NEW s, Lists(r, s), NEW i \in 1..Len(s)
    PROVE  Lists(Unlinked(r, s[i]), RemoveAt(s, i))
<1>1. SUFFICES ASSUME NEW b, b = Bypassed(r, s[i]), NEW u, u = Unlinked(r, s[i]),
                      NEW t, t = RemoveAt(s, i)
               PROVE  Lists(u, t)
    OBVIOUS
<1>2. Lists(b, t) /\ ToSet(t) = ToSet(s) \ {s[i]}
    BY <1>1, BypassedList
<1>3. s[i] # Root
    BY NodesDiffer
<1>4. b.next \in [Element \cup {Root} -> Pointer] /\ b.prev \in [Element \cup {Root} -> Pointer]
    BY <1>2 DEF Lists, Rings
<1>5. u = [next |-> [b.next EXCEPT ![s[i]] = Nil], prev |-> [b.prev EXCEPT ![s[i]] = Nil]]
    BY <1>1 DEF Unlinked
<1>6. /\ u \in Rings
      /\ \A y \in Element \cup {Root} : y # s[i] => u.next[y] = b.next[y] /\ u.prev[y] = b.prev[y]
    BY <1>4, <1>5 DEF Rings, Pointer
<1>7. /\ Len(t) \in Nat
      /\ \A k \in 0..Len(t) + 1 : Node(t, k) \in Element \cup {Root} /\ Node(t, k) # s[i]
    BY <1>2, <1>3, NodesDiffer
<1>8. \A k \in 0..Len(t) : k \in 0..Len(t) + 1 /\ k + 1 \in 0..Len(t) + 1
    BY <1>7
<1>9. \A k \in 0..Len(t) :
          u.next[Node(t, k)] = Node(t, k + 1) /\ u.prev[Node(t, k + 1)] = Node(t, k)
    BY <1>2, <1>6, <1>7, <1>8 DEF Lists
<1> QED BY <1>2, <1>6, <1>9 DEF Lists

(* move() of the i-th element behind the j-th one, or the root. *)
LEMMA MovedList ==
    ASSUME NEW r, NEW s, Lists(r, s), NEW i \in 1..Len(s), NEW j \in 0..Len(s), i # j
    PROVE  /\ Lists(Moved(r, s[i], Node(s, j)),
                    InsertAt(RemoveAt(s, i), IF j < i THEN j + 1 ELSE j, s[i]))
           /\ ToSet(InsertAt(RemoveAt(s, i), IF j < i THEN j + 1 ELSE j, s[i])) = ToSet(s)
           /\ Len(InsertAt(RemoveAt(s, i), IF j < i THEN j + 1 ELSE j, s[i])) = Len(s)
<1>1. SUFFICES ASSUME NEW x, x = s[i], NEW at, at = Node(s, j), NEW b, b = Bypassed(r, x),
                      NEW t, t = RemoveAt(s, i), NEW n, n = Len(s),
                      NEW k, k = IF j < i THEN j ELSE j - 1
               PROVE  /\ Lists(Moved(r, x, at), InsertAt(t, k + 1, x))
                      /\ ToSet(InsertAt(t, k + 1, x)) = ToSet(s)
                      /\ Len(InsertAt(t, k + 1, x)) = n
    <2>1. (IF j < i THEN j ELSE j - 1) + 1 = IF j < i THEN j + 1 ELSE j
        OBVIOUS
    <2> QED BY <2>1
<1>2. n \in Nat /\ i \in 1..n /\ i \in 0..n /\ j \in 0..n /\ s \in Seq(Element) /\ x \in Element
      /\ x \in ToSet(s)
    BY <1>1, NodesDiffer, ElementOfSeq DEF Lists
<1>3. x # at
    <2>1. x = Node(s, i)
        BY <1>1, NodesDiffer
    <2> QED BY <2>1, <1>1, <1>2, NodesDiffer
<1>4. Lists(b, t) /\ ToSet(t) = ToSet(s) \ {x}
    BY <1>1, BypassedList
<1>5. /\ Len(t) = n - 1 /\ t \in Seq(Element)
      /\ \A a \in 0..n : Node(t, a) = IF a < i THEN Node(s, a) ELSE Node(s, a + 1)
    BY <1>1, <1>2, RemovedNodes
<1>6. k \in 0..n - 1 /\ k \in 0..n /\ k + 1 \in 1..n /\ (j < i => k < i) /\ (~(j < i) => ~(k < i) /\ k + 1 = j)
    BY <1>1, <1>2
<1>7. Node(t, k) = at
    BY <1>1, <1>5, <1>6
<1>8. Moved(r, x, at) = Linked(b, x, at)
    BY <1>1, <1>3 DEF Moved
<1>9. k \in 0..Len(t) /\ x \in Element \ ToSet(t) /\ k + 1 \in 1..Len(t) + 1
    BY <1>2, <1>4, <1>5, <1>6
<1>10. Lists(Linked(b, x, Node(t, k)), InsertAt(t, k + 1, x))
    BY <1>4, <1>9, InsertedList
<1>11. ToSet(InsertAt(t, k + 1, x)) = ToSet(t) \cup {x} /\ Len(InsertAt(t, k + 1, x)) = Len(t) + 1
    BY <1>5, <1>9, InsertedSet, InsertAtIs
<1>12. Len(t) + 1 = n
    BY <1>2, <1>5
<1> QED BY <1>2, <1>4, <1>7, <1>8, <1>10, <1>11, <1>12

(* A sequence without repetitions has as many elements as positions. *)
LEMMA DistinctIsFinite ==
    ASSUME NEW T, NEW s \in Seq(T), \A i, j \in 1..Len(s) : s[i] = s[j] => i = j
    PROVE  IsFiniteSet(ToSet(s)) /\ Cardinality(ToSet(s)) = Len(s)
<1>1. SUFFICES ASSUME NEW S, S = ToSet(s), NEW n, n = Len(s)
               PROVE  IsFiniteSet(S) /\ Cardinality(S) = n
    OBVIOUS
<1>2. n \in Nat /\ s \in [1..n -> T] /\ S = {s[k] : k \in 1..n}
    BY <1>1, LenProperties DEF ToSet
<1>3. IsFiniteSet(1..n) /\ Cardinality(1..n) = n
    BY <1>2, FS_Interval
<1>4. s \in Injection(1..n, S) /\ s \in Surjection(1..n, S)
    <2>1. s \in [1..n -> S]
        BY <1>2
    <2>2. IsInjective(s)
        BY <1>1, <2>1 DEF IsInjective
    <2>3. \A x \in S : \E k \in 1..n : s[k] = x
        BY <1>2
    <2> QED BY <2>1, <2>2, <2>3 DEF Injection, Surjection
<1>5. ExistsBijection(1..n, S)
    BY <1>4 DEF ExistsBijection, Bijection
<1> QED BY <1>3, <1>5, FS_Bijection

LEMMA ListIsFinite ==
    ASSUME NEW r, NEW s, Lists(r, s)
    PROVE  IsFiniteSet(ToSet(s)) /\ Cardinality(ToSet(s)) = Len(s)
BY DistinctIsFinite DEF Lists

LEMMA InsertAtEnds ==
    ASSUME NEW S, NEW s \in Seq(S), NEW x \in S
    PROVE  InsertAt(s, 1, x) = <<x>> \o s /\ InsertAt(s, Len(s) + 1, x) = Append(s, x)
<1>1. Len(s) \in Nat
    BY LenProperties
<1>2. InsertAt(s, 1, x) = <<x>> \o s
    <2> DEFINE o == <<x>>
    <2>1. o \in Seq(S) /\ Len(o) = 1 /\ o[1] = x
        OBVIOUS
    <2> HIDE DEF o
    <2>2. /\ o \o s \in Seq(S) /\ Len(o \o s) = Len(o) + Len(s)
          /\ \A i \in 1..Len(o) + Len(s) : (o \o s)[i] = IF i <= Len(o) THEN o[i] ELSE s[i - Len(o)]
        BY <2>1, ConcatProperties
    <2>3. 1 \in 1..Len(s) + 1
        BY <1>1
    <2> DEFINE t == InsertAt(s, 1, x)
               u == o \o s
    <2>4. /\ t \in Seq(S) /\ Len(t) = Len(s) + 1
          /\ \A k \in 1..Len(s) + 1 : t[k] = IF k < 1 THEN s[k] ELSE IF k = 1 THEN x ELSE s[k - 1]
        BY <2>3, InsertAtIs
    <2>5. /\ u \in Seq(S) /\ Len(u) = Len(s) + 1
          /\ \A k \in 1..Len(s) + 1 : u[k] = IF k = 1 THEN x ELSE s[k - 1]
        BY <2>1, <2>2, <1>1
    <2>6. \A k \in 1..Len(s) + 1 : ~(k < 1)
        BY <1>1
    <2> HIDE DEF t, u
    <2>7. Len(t) = Len(u) /\ \A k \in 1..Len(t) : t[k] = u[k]
        BY <2>4, <2>5, <2>6
    <2>8. t = u
        BY <2>4, <2>5, <2>7, SeqEqual
    <2> QED BY <2>8 DEF t, u, o
<1>3. InsertAt(s, Len(s) + 1, x) = Append(s, x)
    <2> DEFINE t == InsertAt(s, Len(s) + 1, x)
               u == Append(s, x)
    <2>1. Len(s) + 1 \in 1..Len(s) + 1
        BY <1>1
    <2>2. /\ t \in Seq(S) /\ Len(t) = Len(s) + 1
          /\ \A k \in 1..Len(s) + 1 :
                t[k] = IF k < Len(s) + 1 THEN s[k] ELSE IF k = Len(s) + 1 THEN x ELSE s[k - 1]
        BY <2>1, InsertAtIs
    <2>3. /\ u \in Seq(S) /\ Len(u) = Len(s) + 1 /\ u[Len(s) + 1] = x
          /\ \A k \in 1..Len(s) : u[k] = s[k]
        BY AppendProperties
    <2>4. \A k \in 1..Len(s) + 1 : k = Len(s) + 1 \/ (k < Len(s) + 1 /\ k \in 1..Len(s))
        BY <1>1
    <2>5. \A k \in 1..Len(s) + 1 : t[k] = u[k]
        <3> HIDE DEF t, u
        <3> QED BY <2>2, <2>3, <2>4, <1>1
    <2> HIDE DEF t, u
    <2>6. t = u
        BY <2>2, <2>3, <2>5, SeqEqual
    <2> QED BY <2>6 DEF t, u
<1> QED BY <1>2, <1>3

(* MoveToBack() *)
LEMMA MovedToBackList ==
    ASSUME NEW r, NEW s, Lists(r, s), NEW x \in ToSet(s)
    PROVE  \E t : Lists(MovedToBack(r, x), t) /\ ToSet(t) = ToSet(s) /\ Len(t) = Len(s)
<1>1. CASE r.prev[Root] = x
    BY <1>1 DEF MovedToBack
<1>2. CASE r.prev[Root] # x
    <2>1. Len(s) \in Nat /\ Node(s, Len(s) + 1) = Root /\ Len(s) \in 0..Len(s)
        BY NodesDiffer
    <2>2. r.prev[Root] = Node(s, Len(s))
        BY <2>1 DEF Lists
    <2>3. PICK i \in 1..Len(s) : x = s[i]
        BY LenProperties DEF ToSet, Lists
    <2>4. i # Len(s)
        BY <2>1, <2>2, <2>3, <1>2, NodesDiffer
    <2>5. MovedToBack(r, x) = Moved(r, s[i], Node(s, Len(s)))
        BY <1>2, <2>2, <2>3 DEF MovedToBack
    <2> QED BY <2>1, <2>4, <2>5, MovedList
<1> QED BY <1>1, <1>2

-----------------------------------------------------------------------------
(* The ring, without the order of its elements. *)

(* insert() of a new element behind an element of the list or the root. *)
LEMMA LinkedRing ==
    ASSUME NEW S \in SUBSET Element, NEW r, IsRing(r, S),
           NEW x \in Element \ S, NEW at \in S \cup {Root}
    PROVE  /\ IsRing(Linked(r, x, at), S \cup {x})
           /\ \A y \in Element \ (S \cup {x}) :
                 /\ Linked(r, x, at).next[y] = r.next[y]
                 /\ Linked(r, x, at).prev[y] = r.prev[y]
<1> DEFINE l == Linked(r, x, at)
           N == Element \cup {Root}
<1>1. /\ r.next \in [N -> Pointer] /\ r.prev \in [N -> Pointer]
      /\ r.next[at] \in S \cup {Root} /\ r.prev[r.next[at]] = at
    BY DEF IsRing, Rings
<1>2. /\ l.next = [r.next EXCEPT ![x] = r.next[at], ![at] = x]
      /\ l.prev = [r.prev EXCEPT ![x] = at, ![r.next[at]] = x]
    BY DEF Linked
<1>3. l \in Rings
    BY <1>1, <1>2, RingAssumption DEF Rings, Linked, Pointer
<1>4. /\ \A y \in N : l.next[y] = IF y = at THEN x ELSE IF y = x THEN r.next[at] ELSE r.next[y]
      /\ \A y \in N : l.prev[y] = IF y = r.next[at] THEN x ELSE IF y = x THEN at ELSE r.prev[y]
    BY <1>1, <1>2, RingAssumption
<1>5. ASSUME NEW y \in S \cup {x} \cup {Root}
      PROVE  /\ l.next[y] \in S \cup {x} \cup {Root} /\ l.prev[l.next[y]] = y
             /\ l.prev[y] \in S \cup {x} \cup {Root} /\ l.next[l.prev[y]] = y
    <2>1. CASE y = x
        BY <2>1, <1>1, <1>4, RingAssumption
    <2>2. CASE y # x
        <3>1. /\ r.next[y] \in S \cup {Root} /\ r.prev[r.next[y]] = y
              /\ r.prev[y] \in S \cup {Root} /\ r.next[r.prev[y]] = y
            BY <2>2 DEF IsRing
        <3> QED BY <3>1, <2>2, <1>1, <1>4, RingAssumption
    <2> QED BY <2>1, <2>2
<1> QED BY <1>1, <1>3, <1>4, <1>5, RingAssumption DEF IsRing

(* The first half of remove() and of move(). *)
LEMMA BypassedRing ==
    ASSUME NEW S \in SUBSET Element, NEW r, IsRing(r, S), NEW x \in S
    PROVE  /\ IsRing(Bypassed(r, x), S \ {x})
           /\ \A y \in Element \ S :
                 /\ Bypassed(r, x).next[y] = r.next[y]
                 /\ Bypassed(r, x).prev[y] = r.prev[y]
<1> DEFINE b == Bypassed(r, x)
           N == Element \cup {Root}
<1>1. /\ r.next \in [N -> Pointer] /\ r.prev \in [N -> Pointer]
      /\ r.next[x] \in S \cup {Root} /\ r.prev[r.next[x]] = x
      /\ r.prev[x] \in S \cup {Root} /\ r.next[r.prev[x]] = x
    BY DEF IsRing, Rings
<1>2. b \in Rings
    BY <1>1 DEF Rings, Bypassed, Pointer
<1>3. /\ \A y \in N : b.next[y] = IF y = r.prev[x] THEN r.next[x] ELSE r.next[y]
      /\ \A y \in N : b.prev[y] = IF y = r.next[x] THEN r.prev[x] ELSE r.prev[y]
    BY <1>1 DEF Bypassed
<1>4. ASSUME NEW y \in (S \ {x}) \cup {Root}
      PROVE  /\ b.next[y] \in (S \ {x}) \cup {Root} /\ b.prev[b.next[y]] = y
             /\ b.prev[y] \in (S \ {x}) \cup {Root} /\ b.next[b.prev[y]] = y
    <2>1. /\ r.next[y] \in S \cup {Root} /\ r.prev[r.next[y]] = y
          /\ r.prev[y] \in S \cup {Root} /\ r.next[r.prev[y]] = y
        BY DEF IsRing
    <2>2. r.next[x] # x \/ r.prev[x] = x
        BY <1>1
    <2>3. y # x
        BY RingAssumption
    <2> QED BY <2>1, <2>2, <2>3, <1>1, <1>3
<1> QED BY <1>1, <1>2, <1>3, <1>4, RingAssumption DEF IsRing

(* remove() *)
LEMMA UnlinkedRing ==
    ASSUME NEW S \in SUBSET Element, NEW r, IsRing(r, S), NEW x \in S
    PROVE  /\ IsRing(Unlinked(r, x), S \ {x})
           /\ Unlinked(r, x).next[x] = Nil /\ Unlinked(r, x).prev[x] = Nil
           /\ \A y \in Element \ S :
                 /\ Unlinked(r, x).next[y] = r.next[y]
                 /\ Unlinked(r, x).prev[y] = r.prev[y]
<1> DEFINE b == Bypassed(r, x)
           u == Unlinked(r, x)
           N == Element \cup {Root}
<1>1. /\ IsRing(b, S \ {x})
      /\ \A y \in Element \ S : b.next[y] = r.next[y] /\ b.prev[y] = r.prev[y]
    BY BypassedRing
<1>2. b.next \in [N -> Pointer] /\ b.prev \in [N -> Pointer]
    BY <1>1 DEF IsRing, Rings
<1>3. u = [next |-> [b.next EXCEPT ![x] = Nil], prev |-> [b.prev EXCEPT ![x] = Nil]]
    BY DEF Unlinked
<1>4. u \in Rings
    BY <1>2, <1>3 DEF Rings, Pointer
<1>5. /\ u.next[x] = Nil /\ u.prev[x] = Nil
      /\ \A y \in N \ {x} : u.next[y] = b.next[y] /\ u.prev[y] = b.prev[y]
    BY <1>2, <1>3
<1>6. \A y \in (S \ {x}) \cup {Root} : y \in N \ {x}
    BY RingAssumption
<1>7. ASSUME NEW y \in (S \ {x}) \cup {Root}
      PROVE  /\ u.next[y] \in (S \ {x}) \cup {Root} /\ u.prev[u.next[y]] = y
             /\ u.prev[y] \in (S \ {x}) \cup {Root} /\ u.next[u.prev[y]] = y
    BY <1>1, <1>5, <1>6 DEF IsRing
<1>8. \A y \in Element \ S : u.next[y] = r.next[y] /\ u.prev[y] = r.prev[y]
    BY <1>1, <1>5
<1> QED BY <1>4, <1>5, <1>7, <1>8 DEF IsRing

(* move() *)
LEMMA MovedRing ==
    ASSUME NEW S \in SUBSET Element, NEW r, IsRing(r, S),
           NEW x \in S, NEW at \in S \cup {Root}
    PROVE  /\ IsRing(Moved(r, x, at), S)
           /\ \A y \in Element \ S :
                 /\ Moved(r, x, at).next[y] = r.next[y]
                 /\ Moved(r, x, at).prev[y] = r.prev[y]
<1>1. CASE x = at
    BY <1>1 DEF Moved
<1>2. CASE x # at
    <2>1. Moved(r, x, at) = Linked(Bypassed(r, x), x, at)
        BY <1>2 DEF Moved
    <2>2. /\ IsRing(Bypassed(r, x), S \ {x})
          /\ \A y \in Element \ S :
                /\ Bypassed(r, x).next[y] = r.next[y] /\ Bypassed(r, x).prev[y] = r.prev[y]
        BY BypassedRing
    <2>3. S \ {x} \in SUBSET Element /\ x \in Element \ (S \ {x}) /\ at \in (S \ {x}) \cup {Root}
        BY <1>2
    <2> DEFINE b == Bypassed(r, x)
               T == S \ {x}
    <2>4. T \in SUBSET Element /\ IsRing(b, T) /\ x \in Element \ T /\ at \in T \cup {Root}
        BY <2>2, <2>3
    <2> HIDE DEF b, T
    <2>5. /\ IsRing(Linked(b, x, at), T \cup {x})
          /\ \A y \in Element \ (T \cup {x}) :
                /\ Linked(b, x, at).next[y] = b.next[y] /\ Linked(b, x, at).prev[y] = b.prev[y]
        BY <2>4, LinkedRing, Z3
    <2>6. T \cup {x} = S
        BY DEF T
    <2> QED BY <2>1, <2>2, <2>5, <2>6 DEF b
<1> QED BY <1>1, <1>2

-----------------------------------------------------------------------------
(* What is inductive: besides the ring, that the list is a finite set. *)
Inv ==
    /\ list \in SUBSET Element /\ IsFiniteSet(list)
    /\ RingIntact

LEMMA InitInv == Init => Inv
<1> SUFFICES ASSUME Init PROVE Inv
    OBVIOUS
<1>1. ring = EmptyRing /\ list = {} /\ len = 0
    BY DEF Init
<1>2. IsRing(ring, {})
    BY <1>1, RingAssumption DEF IsRing, EmptyRing, Rings, Pointer
<1>3. \A x \in Element : ring.next[x] = Nil /\ ring.prev[x] = Nil
    BY <1>1, RingAssumption DEF EmptyRing
<1> QED BY <1>1, <1>2, <1>3, FS_EmptySet DEF Inv, RingIntact

LEMMA InsertInv ==
    ASSUME Inv, NEW x \in Element, NEW v, NEW at \in list \cup {Root}, InsertValue(x, v, at)
    PROVE  Inv'
<1>1. x \in Element \ list /\ ring' = Linked(ring, x, at) /\ list' = list \cup {x} /\ len' = len + 1
    BY DEF InsertValue
<1>2. /\ list \in SUBSET Element /\ IsFiniteSet(list) /\ IsRing(ring, list)
      /\ len = Cardinality(list)
      /\ \A y \in Element \ list : ring.next[y] = Nil /\ ring.prev[y] = Nil
    BY DEF Inv, RingIntact
<1>3. /\ IsRing(Linked(ring, x, at), list \cup {x})
      /\ \A y \in Element \ (list \cup {x}) :
            /\ Linked(ring, x, at).next[y] = ring.next[y]
            /\ Linked(ring, x, at).prev[y] = ring.prev[y]
    BY <1>1, <1>2, LinkedRing, ZenonT(30)
<1>4. IsFiniteSet(list') /\ len' = Cardinality(list')
    BY <1>1, <1>2, FS_AddElement
<1>5. list' \in SUBSET Element
    BY <1>1, <1>2
<1>6. \A y \in Element \ list' : ring'.next[y] = Nil /\ ring'.prev[y] = Nil
    BY <1>1, <1>2, <1>3
<1> QED BY <1>1, <1>3, <1>4, <1>5, <1>6 DEF Inv, RingIntact

LEMMA RemoveInv ==
    ASSUME Inv, NEW x \in Element, RemoveElement(x)
    PROVE  Inv'
<1>1. CASE x \notin list
    BY <1>1 DEF RemoveElement, NoChange, vars, Inv, RingIntact
<1>2. CASE x \in list
    <2>1. ring' = Unlinked(ring, x) /\ list' = list \ {x} /\ len' = len - 1
        BY <1>2 DEF RemoveElement
    <2>2. /\ list \in SUBSET Element /\ IsFiniteSet(list) /\ IsRing(ring, list)
          /\ len = Cardinality(list)
          /\ \A y \in Element \ list : ring.next[y] = Nil /\ ring.prev[y] = Nil
        BY DEF Inv, RingIntact
    <2>3. /\ IsRing(Unlinked(ring, x), list \ {x})
          /\ Unlinked(ring, x).next[x] = Nil /\ Unlinked(ring, x).prev[x] = Nil
          /\ \A y \in Element \ list :
                /\ Unlinked(ring, x).next[y] = ring.next[y]
                /\ Unlinked(ring, x).prev[y] = ring.prev[y]
        <3>1. list \in SUBSET Element /\ IsRing(ring, list) /\ x \in list
            BY <1>2, <2>2
        <3> QED BY <3>1, UnlinkedRing, ZenonT(30)
    <2>4. IsFiniteSet(list') /\ len' = Cardinality(list')
        BY <1>2, <2>1, <2>2, FS_RemoveElement
    <2>5. list' \in SUBSET Element
        BY <2>1, <2>2
    <2>6. \A y \in Element \ list' : ring'.next[y] = Nil /\ ring'.prev[y] = Nil
        BY <2>1, <2>2, <2>3
    <2> QED BY <2>1, <2>3, <2>4, <2>5, <2>6 DEF Inv, RingIntact
<1> QED BY <1>1, <1>2

LEMMA MoveInv ==
    ASSUME Inv, NEW x \in list, NEW at \in list \cup {Root}, Move(x, at)
    PROVE  Inv'
<1>1. ring' = Moved(ring, x, at) /\ list' = list /\ len' = len
    BY DEF Move
<1>2. /\ list \in SUBSET Element /\ IsFiniteSet(list) /\ IsRing(ring, list)
      /\ len = Cardinality(list)
      /\ \A y \in Element \ list : ring.next[y] = Nil /\ ring.prev[y] = Nil
    BY DEF Inv, RingIntact
<1>3. /\ IsRing(ring', list)
      /\ \A y \in Element \ list : ring'.next[y] = ring.next[y] /\ ring'.prev[y] = ring.prev[y]
    BY <1>1, <1>2, MovedRing
<1> QED BY <1>1, <1>2, <1>3 DEF Inv, RingIntact

-----------------------------------------------------------------------------
LEMMA NextInv == Inv /\ [Next]_vars => Inv'
<1> SUFFICES ASSUME Inv, [Next]_vars PROVE Inv'
    OBVIOUS
<1>1. /\ Root \in list \cup {Root} /\ ring.prev[Root] \in list \cup {Root}
      /\ \A y \in list : ring.prev[y] \in list \cup {Root}
    BY DEF Inv, RingIntact, IsRing
<1>2. UNCHANGED <<ring, list, len>> => Inv'
    BY DEF Inv, RingIntact
<1>3. NoChange => Inv'
    BY <1>2 DEF NoChange, vars
<1>4. ASSUME NEW x \in Element, NEW v \in Value,
             \/ PushFront(x, v) \/ PushBack(x, v)
             \/ \E mark \in Element : InsertBefore(x, v, mark) \/ InsertAfter(x, v, mark)
      PROVE  Inv'
    <2>1. CASE PushFront(x, v)
        BY <2>1, <1>1, InsertInv DEF PushFront
    <2>2. CASE PushBack(x, v)
        BY <2>2, <1>1, InsertInv DEF PushBack
    <2>3. ASSUME NEW mark \in Element, InsertBefore(x, v, mark) PROVE Inv'
        BY <2>3, <1>1, <1>3, InsertInv DEF InsertBefore
    <2>4. ASSUME NEW mark \in Element, InsertAfter(x, v, mark) PROVE Inv'
        BY <2>4, <1>1, <1>3, InsertInv DEF InsertAfter
    <2> QED BY <1>4, <2>1, <2>2, <2>3, <2>4
<1>5. ASSUME NEW x \in Element,
             \/ RemoveElement(x) \/ MoveToFront(x) \/ MoveToBack(x)
             \/ \E mark \in Element : MoveBefore(x, mark) \/ MoveAfter(x, mark)
      PROVE  Inv'
    <2>1. CASE RemoveElement(x)
        BY <2>1, RemoveInv
    <2>2. CASE MoveToFront(x)
        BY <2>2, <1>1, <1>3, MoveInv DEF MoveToFront
    <2>3. CASE MoveToBack(x)
        BY <2>3, <1>1, <1>3, MoveInv DEF MoveToBack
    <2>4. ASSUME NEW mark \in Element, MoveBefore(x, mark) PROVE Inv'
        BY <2>4, <1>1, <1>3, MoveInv DEF MoveBefore
    <2>5. ASSUME NEW mark \in Element, MoveAfter(x, mark) PROVE Inv'
        BY <2>5, <1>1, <1>3, MoveInv DEF MoveAfter
    <2> QED BY <1>5, <2>1, <2>2, <2>3, <2>4, <2>5
<1>6. ASSUME NEW to, BeginCopy(to) PROVE Inv'
    BY <1>6, <1>2 DEF BeginCopy
<1>7. ASSUME NEW x \in Element, CopyToBack(x) \/ CopyToFront(x) PROVE Inv'
    BY <1>7, <1>1, InsertInv DEF CopyToBack, CopyToFront
<1>8. CASE EndCopy
    BY <1>8, <1>2 DEF EndCopy
<1>9. CASE UNCHANGED vars
    BY <1>9, <1>2 DEF vars
<1> QED BY <1>4, <1>5, <1>6, <1>7, <1>8, <1>9 DEF Next, Operation

(* However elements are inserted, moved, copied and removed, the ring contains *)
(* exactly the elements of the list, pointing at each other both ways, and len *)
(* counts them (list.go:99-243).                                               *)
THEOREM RingStaysIntact == Spec => []RingIntact
<1>1. Inv => RingIntact
    BY DEF Inv
<1> QED BY <1>1, InitInv, NextInv, PTL DEF Spec

-----------------------------------------------------------------------------
(* The operations as those of a sequence. *)

(* One ring with the elements of the list. *)
Whole == IsRing(ring, list) /\ list \in SUBSET Element /\ len \in Nat /\ OneRing

LEMMA InvariantIsWhole == Invariant => Whole
BY DEF Invariant, TypeOK, RingIntact, Whole

LEMMA Shape ==
    ASSUME Whole
    PROVE  /\ Lists(ring, Contents) /\ Len(Contents) = len /\ ToSet(Contents) = list
           /\ len \in Nat /\ list \in SUBSET Element /\ IsFiniteSet(list)
           /\ \A i \in 1..len : Contents[i] \in list /\ Contents[i] \in Element
<1>1. /\ IsRing(ring, list) /\ list \in SUBSET Element /\ len \in Nat
      /\ ToSet(Walk(ring, len)) = list /\ IsInjective(Walk(ring, len))
      /\ ring.next[IF len = 0 THEN Root ELSE Walk(ring, len)[len]] = Root
    BY DEF Whole, OneRing, Contents
<1>2. Lists(ring, Contents) /\ Len(Contents) = len
    BY <1>1, RingIsList DEF Contents
<1>3. IsFiniteSet(ToSet(Contents))
    BY <1>2, ListIsFinite
<1>4. ToSet(Contents) = list
    BY <1>1 DEF Contents
<1>5. \A i \in 1..len : Contents[i] \in ToSet(Contents)
    BY <1>2, NodesDiffer
<1> QED BY <1>1, <1>2, <1>3, <1>4, <1>5

LEMMA Reshaped ==
    ASSUME NEW s, Lists(ring', s), ToSet(s) = list', Len(s) = len'
    PROVE  Contents' = s /\ OneRing'
<1>1. /\ IsInjective(s) /\ Walk(ring', Len(s)) = s
      /\ ring'.next[IF Len(s) = 0 THEN Root ELSE s[Len(s)]] = Root
    BY ListIsRing
<1>2. Contents' = s
    BY <1>1 DEF Contents
<1> QED BY <1>1, <1>2 DEF OneRing

LEMMA SameShape ==
    ASSUME Whole, UNCHANGED <<ring, list, len>>
    PROVE  OneRing' /\ Contents' = Contents
BY DEF Whole, OneRing, Contents

(* Where the operations insert and move. *)
LEMMA Places ==
    ASSUME Whole
    PROVE  /\ Root = Node(Contents, 0) /\ ring.prev[Root] = Node(Contents, len)
           /\ ring.next[Root] = Node(Contents, 1)
           /\ \A mark \in list : \E i \in 1..len :
                 /\ mark = Contents[i] /\ mark = Node(Contents, i)
                 /\ ring.prev[mark] = Node(Contents, i - 1)
                 /\ At(Contents, mark) = i
<1> DEFINE c == Contents
<1>1. /\ Lists(ring, c) /\ Len(c) = len /\ ToSet(c) = list /\ len \in Nat
    BY Shape
<1> HIDE DEF c
<1>2. DOMAIN c = 1..len
    BY <1>1, LenProperties DEF Lists
<1>3. /\ \A k \in 0..len : ring.next[Node(c, k)] = Node(c, k + 1) /\ ring.prev[Node(c, k + 1)] = Node(c, k)
      /\ \A i, j \in 1..len : c[i] = c[j] => i = j
    BY <1>1 DEF Lists
<1>4. /\ Node(c, 0) = Root /\ Node(c, len + 1) = Root
      /\ \A i \in 1..len : Node(c, i) = c[i]
    BY <1>1, NodesDiffer
<1>5. 0 \in 0..len /\ len \in 0..len /\ 0 + 1 = 1
    BY <1>1
<1>6. ASSUME NEW mark \in list
      PROVE  \E i \in 1..len :
                 /\ mark = c[i] /\ mark = Node(c, i)
                 /\ ring.prev[mark] = Node(c, i - 1)
                 /\ At(c, mark) = i
    <2>1. PICK i \in 1..len : mark = c[i]
        BY <1>1, <1>2 DEF ToSet
    <2>2. i - 1 \in 0..len /\ i - 1 + 1 = i
        BY <1>1
    <2>3. ring.prev[Node(c, i - 1 + 1)] = Node(c, i - 1)
        BY <2>2, <1>3
    <2>4. At(c, mark) = i
        BY <2>1, <1>2, <1>3 DEF At
    <2> QED BY <2>1, <2>2, <2>3, <2>4, <1>4
<1> QED BY <1>3, <1>4, <1>5, <1>6 DEF c

(* insertValue() behind the i-th element. *)
LEMMA InsertedAfter ==
    ASSUME Whole, NEW x \in Element, NEW v, NEW i \in 0..len,
           InsertValue(x, v, Node(Contents, i))
    PROVE  OneRing' /\ Contents' = InsertAt(Contents, i + 1, x)
<1> DEFINE c == Contents
           t == InsertAt(c, i + 1, x)
<1>1. /\ Lists(ring, c) /\ Len(c) = len /\ ToSet(c) = list /\ len \in Nat
    BY Shape
<1>2. /\ x \in Element \ list
      /\ ring' = Linked(ring, x, Node(c, i)) /\ list' = list \cup {x} /\ len' = len + 1
    BY DEF InsertValue
<1> HIDE DEF c
<1>3. i \in 0..Len(c) /\ x \in Element \ ToSet(c) /\ i + 1 \in 1..Len(c) + 1 /\ c \in Seq(Element)
    BY <1>1, <1>2 DEF Lists
<1>4. Lists(Linked(ring, x, Node(c, i)), t)
    BY <1>1, <1>3, InsertedList
<1>5. ToSet(t) = ToSet(c) \cup {x}
    BY <1>3, InsertedSet
<1>6. Len(t) = Len(c) + 1
    BY <1>3, InsertedNodes
<1> HIDE DEF t
<1>7. Contents' = t /\ OneRing'
    BY <1>1, <1>2, <1>4, <1>5, <1>6, Reshaped
<1> QED BY <1>7 DEF t, c

LEMMA RemovedElement ==
    ASSUME Whole, NEW i \in 1..len, RemoveElement(Contents[i])
    PROVE  OneRing' /\ Contents' = RemoveAt(Contents, i)
<1> DEFINE c == Contents
           t == RemoveAt(c, i)
<1>1. /\ Lists(ring, c) /\ Len(c) = len /\ ToSet(c) = list /\ len \in Nat /\ c[i] \in list
    BY Shape
<1>2. ring' = Unlinked(ring, c[i]) /\ list' = list \ {c[i]} /\ len' = len - 1
    BY <1>1 DEF RemoveElement
<1> HIDE DEF c
<1>3. i \in 1..Len(c) /\ c \in Seq(Element)
    BY <1>1 DEF Lists
<1>4. Lists(Unlinked(ring, c[i]), t)
    BY <1>1, <1>3, UnlinkedList
<1>5. ToSet(t) = ToSet(c) \ {c[i]}
    BY <1>1, <1>3, BypassedList
<1>6. Len(t) = Len(c) - 1
    BY <1>3, RemovedNodes
<1> HIDE DEF t
<1>7. Contents' = t /\ OneRing'
    BY <1>1, <1>2, <1>4, <1>5, <1>6, Reshaped
<1> QED BY <1>7 DEF t, c

(* move() of the i-th element behind the j-th one. *)
LEMMA MovedAfter ==
    ASSUME Whole, NEW i \in 1..len, NEW j \in 0..len, i # j,
           Move(Contents[i], Node(Contents, j))
    PROVE  /\ OneRing'
           /\ Contents' = InsertAt(RemoveAt(Contents, i), IF j < i THEN j + 1 ELSE j, Contents[i])
<1> DEFINE c == Contents
           t == InsertAt(RemoveAt(c, i), IF j < i THEN j + 1 ELSE j, c[i])
<1>1. /\ Lists(ring, c) /\ Len(c) = len /\ ToSet(c) = list /\ len \in Nat
    BY Shape
<1>2. ring' = Moved(ring, c[i], Node(c, j)) /\ list' = list /\ len' = len
    BY DEF Move
<1> HIDE DEF c
<1>3. i \in 1..Len(c) /\ j \in 0..Len(c)
    BY <1>1
<1>4. Lists(Moved(ring, c[i], Node(c, j)), t) /\ ToSet(t) = ToSet(c) /\ Len(t) = Len(c)
    BY <1>1, <1>3, MovedList
<1> HIDE DEF t
<1>5. Contents' = t /\ OneRing'
    BY <1>1, <1>2, <1>4, Reshaped
<1> QED BY <1>5 DEF t, c

(* move() to the place at which the element is. *)
LEMMA MovedNowhere ==
    ASSUME Whole, NEW x, Move(x, x)
    PROVE  OneRing' /\ ring' = ring
BY SameShape DEF Move, Moved

(* The sequence without an element, and the places of the others in it. *)
LEMMA RestIs ==
    ASSUME Whole, NEW i \in 1..len
    PROVE  /\ Rest(Contents[i]) = RemoveAt(Contents, i)
           /\ RemoveAt(Contents, i) \in Seq(Element) /\ Len(RemoveAt(Contents, i)) = len - 1
           /\ \A k \in 1..len : k # i =>
                 At(RemoveAt(Contents, i), Contents[k]) = IF k < i THEN k ELSE k - 1
<1> DEFINE c == Contents
           t == RemoveAt(c, i)
<1>1. /\ Lists(ring, c) /\ Len(c) = len /\ len \in Nat
    BY Shape
<1> HIDE DEF c
<1>2. i \in 1..Len(c) /\ c \in Seq(Element) /\ \A j, k \in 1..len : c[j] = c[k] => j = k
    BY <1>1 DEF Lists
<1>3. RemoveFirst(c, c[i]) = t
    BY <1>1, <1>2, RemoveFirstIs
<1>4. /\ t \in Seq(Element) /\ Len(t) = len - 1
      /\ \A k \in 1..len - 1 : t[k] = IF k < i THEN c[k] ELSE c[k + 1]
    BY <1>1, <1>2, RemoveAtIs
<1> HIDE DEF t
<1>5. DOMAIN t = 1..len - 1
    BY <1>4, LenProperties
<1>6. ASSUME NEW k \in 1..len, k # i PROVE At(t, c[k]) = IF k < i THEN k ELSE k - 1
    <2> DEFINE n == IF k < i THEN k ELSE k - 1
    <2>1. n \in 1..len - 1 /\ t[n] = c[k]
        <3>1. CASE k < i
            <4>1. k \in 1..len - 1
                BY <3>1, <1>1
            <4> QED BY <3>1, <4>1, <1>4
        <3>2. CASE k > i
            <4>1. k - 1 \in 1..len - 1 /\ ~(k - 1 < i) /\ ~(k < i) /\ k - 1 + 1 = k
                BY <3>2, <1>1
            <4> QED BY <4>1, <1>4
        <3> QED BY <3>1, <3>2, <1>6, <1>1
    <2>2. ASSUME NEW j \in 1..len - 1, t[j] = c[k] PROVE j = n
        <3>1. CASE j < i
            <4>1. j \in 1..len /\ t[j] = c[j]
                BY <3>1, <1>1, <1>4
            <4> QED BY <3>1, <4>1, <2>2, <1>2
        <3>2. CASE ~(j < i)
            <4>1. j + 1 \in 1..len /\ t[j] = c[j + 1]
                BY <3>2, <1>1, <1>4
            <4>2. j + 1 = k
                BY <4>1, <2>2, <1>2
            <4> QED BY <3>2, <4>2, <1>1
        <3> QED BY <3>1, <3>2
    <2> HIDE DEF n
    <2>3. At(t, c[k]) = n
        BY <2>1, <2>2, <1>5 DEF At
    <2> QED BY <2>3 DEF n
<1> QED BY <1>3, <1>4, <1>6 DEF t, c, Rest
-----------------------------------------------------------------------------
(* A list that is copied to one of its own ends. *)

(* The elements next to the i-th one. *)
LEMMA Neighbours ==
    ASSUME NEW r, NEW s, Lists(r, s), NEW i \in 1..Len(s)
    PROVE  /\ i # Len(s) => NextOf(r, ToSet(s), s[i]) = s[i + 1]
           /\ i = Len(s) => NextOf(r, ToSet(s), s[i]) = Nil
           /\ i # 1 => PrevOf(r, ToSet(s), s[i]) = s[i - 1]
<1>1. /\ Len(s) \in Nat /\ s[i] \in ToSet(s) /\ Node(s, i) = s[i] /\ Node(s, Len(s) + 1) = Root
      /\ \A j \in 1..Len(s) : Node(s, j) = s[j] /\ s[j] # Root
    BY NodesDiffer
<1>2. i \in 0..Len(s) /\ i - 1 \in 0..Len(s) /\ i - 1 + 1 = i
    BY <1>1
<1>3. r.next[s[i]] = Node(s, i + 1) /\ r.prev[s[i]] = Node(s, i - 1)
    <2>1. /\ r.next[Node(s, i)] = Node(s, i + 1)
          /\ r.prev[Node(s, i - 1 + 1)] = Node(s, i - 1)
        BY <1>2 DEF Lists
    <2> QED BY <2>1, <1>1, <1>2
<1>4. i # Len(s) => i + 1 \in 1..Len(s)
    BY <1>1
<1>5. i # 1 => i - 1 \in 1..Len(s)
    BY <1>1
<1> QED BY <1>1, <1>3, <1>4, <1>5 DEF NextOf, PrevOf

LEMMA CopyToBackIsAhead ==
    ASSUME Invariant, Whole, NEW x \in Element, CopyToBack(x)
    PROVE  OneRing' /\ TypeOK' /\ CopyIsAhead'
<1> DEFINE c == Contents
           d == Contents'
<1>1. /\ Lists(ring, c) /\ Len(c) = len /\ ToSet(c) = list /\ len \in Nat
      /\ list \in SUBSET Element
      /\ \A j \in 1..len : c[j] \in list /\ c[j] \in Element
    BY Shape
<1>2. /\ copy.to = "back" /\ copy.i > 0 /\ copy \in [to : {"none", "back", "front"}, i : Nat, e : Element \cup {Nil}]
      /\ x \notin list /\ list' = list \cup {x} /\ len' = len + 1
      /\ value' = [value EXCEPT ![x] = value[copy.e]]
      /\ copy' = [copy EXCEPT !.i = @ - 1, !.e = NextOf(ring', list', @)]
      /\ value \in [Element -> Value]
      /\ InsertValue(x, value[copy.e], ring.prev[Root])
    BY DEF CopyToBack, InsertValue, Invariant, TypeOK
<1>3. PICK p \in 0..len :
          /\ copy.i <= p /\ len = 2 * p - copy.i
          /\ copy.e = c[p - copy.i + 1]
          /\ \A k \in 1..p - copy.i : value[c[p + k]] = value[c[k]]
    <2>1. \A p \in 0..len : p - p = 0 /\ \A k \in 1..p - copy.i : 0 + k = k
        BY <1>1, <1>2
    <2>2. PICK p \in 0..len :
          /\ copy.i <= p /\ len = 2 * p - copy.i
          /\ copy.i > 0 => copy.e = c[p - copy.i + 1]
          /\ \A k \in 1..p - copy.i : value[c[p + k]] = value[c[p - p + k]]
        BY <1>2 DEF Invariant, CopyIsAhead
    <2> QED BY <2>1, <2>2, <1>2
<1>4. copy.i \in Nat /\ p \in Nat
    BY <1>1, <1>2
<1> DEFINE q == p - copy.i + 1
<1>5. q \in 1..len /\ q \in 1..len + 1 /\ q \in Nat /\ copy.e = c[q] /\ copy.e \in Element
    BY <1>1, <1>2, <1>3, <1>4
<1>6. OneRing' /\ d = Append(c, x)
    <2>1. ring.prev[Root] = Node(c, len) /\ len \in 0..len
        BY <1>1, Places
    <2>2. OneRing' /\ d = InsertAt(c, len + 1, x)
        BY <2>1, <1>2, InsertedAfter
    <2>3. InsertAt(c, Len(c) + 1, x) = Append(c, x)
        BY <1>1, InsertAtEnds DEF Lists
    <2> QED BY <2>2, <2>3, <1>1
<1>7. Lists(ring', d) /\ Len(d) = len + 1 /\ ToSet(d) = list'
    <2>1. c \in Seq(Element)
        BY <1>1 DEF Lists
    <2>2. InsertAt(c, len + 1, x) = d
        <3>1. InsertAt(c, Len(c) + 1, x) = Append(c, x)
            BY <2>1, InsertAtEnds
        <3> QED BY <3>1, <1>1, <1>6
    <2>3. ring' = Linked(ring, x, Node(c, len))
        <3>1. ring.prev[Root] = Node(c, len)
            BY Places
        <3> QED BY <3>1, <1>2 DEF InsertValue
    <2>4. len \in 0..Len(c) /\ x \in Element \ ToSet(c) /\ len + 1 \in 1..Len(c) + 1
        BY <1>1, <1>2
    <2>5. Lists(Linked(ring, x, Node(c, len)), InsertAt(c, len + 1, x))
        BY <1>1, <2>4, InsertedList
    <2>6. ToSet(InsertAt(c, len + 1, x)) = ToSet(c) \cup {x}
        BY <2>1, <2>4, InsertedSet
    <2>7. Len(Append(c, x)) = Len(c) + 1
        BY <2>1, AppendProperties
    <2> QED BY <2>2, <2>3, <2>5, <2>6, <2>7, <1>1, <1>2, <1>6
<1>8. d[len + 1] = x /\ \A j \in 1..len : d[j] = c[j]
    BY <1>1, <1>6, AppendProperties DEF Lists
<1> HIDE DEF c, d
<1>9. copy'.to = "back" /\ copy'.i = copy.i - 1 /\ copy'.e = NextOf(ring', list', copy.e)
    BY <1>2
<1>10. q # len + 1 /\ NextOf(ring', list', copy.e) = d[q + 1]
    <2>1. q # len + 1
        BY <1>1, <1>5
    <2>2. d[q] = c[q]
        BY <1>5, <1>8
    <2>3. q \in 1..Len(d) /\ q # Len(d)
        BY <2>1, <1>5, <1>7
    <2> HIDE DEF q
    <2>4. NextOf(ring', ToSet(d), d[q]) = d[q + 1]
        BY <2>3, <1>7, Neighbours
    <2> QED BY <2>1, <2>2, <2>4, <1>5, <1>7
<1>11. /\ value'[x] = value[copy.e]
       /\ \A j \in 1..len : value'[c[j]] = value[c[j]]
    BY <1>1, <1>2
<1>12. \A k \in 1..p - copy'.i : value'[d[p + k]] = value'[d[k]]
    <2> TAKE k \in 1..p - copy'.i
    <2>1. p - copy'.i = q
        BY <1>4, <1>9
    <2>2. CASE k = q
        <3>1. p + k = len + 1
            BY <2>2, <1>3, <1>4
        <3> QED BY <3>1, <2>2, <1>5, <1>8, <1>11
    <2>3. CASE k # q
        <3>1. k \in 1..p - copy.i /\ p + k \in 1..len /\ k \in 1..len
            BY <2>1, <2>3, <1>3, <1>4
        <3> QED BY <3>1, <1>3, <1>8, <1>11
    <2> QED BY <2>2, <2>3
<1>13. CopyIsAhead'
    <2>1. p \in 0..len' /\ copy'.i <= p /\ len' = 2 * p - copy'.i
        BY <1>2, <1>3, <1>4, <1>9
    <2>2. copy'.e = d[p - copy'.i + 1]
        <3>1. p - copy'.i + 1 = q + 1
            BY <1>4, <1>9
        <3> QED BY <3>1, <1>9, <1>10
    <2>3. \A k \in 1..p - copy'.i : p - p + k = k
        BY <1>4, <1>9
    <2>4. \A k \in 1..p - copy'.i : value'[d[p + k]] = value'[d[p - p + k]]
        BY <2>3, <1>12
    <2> QED BY <2>1, <2>2, <2>4, <1>9 DEF CopyIsAhead, d
<1>14. TypeOK'
    <2>1. ring' \in Rings /\ list' \subseteq Element /\ len' \in Nat
        BY <1>1, <1>2, <1>7 DEF Lists
    <2>2. value' \in [Element -> Value]
        BY <1>2, <1>5
    <2>3. copy' \in [to : {"none", "back", "front"}, i : Nat, e : Element \cup {Nil}]
        <3>1. d[q + 1] \in Element
            <4>1. d \in Seq(Element) /\ q + 1 \in 1..Len(d)
                BY <1>1, <1>5, <1>7 DEF Lists
            <4> HIDE DEF q
            <4> QED BY <4>1, ElementOfSeq
        <3>2. copy.i - 1 \in Nat
            BY <1>2, <1>4
        <3> QED BY <3>1, <3>2, <1>2, <1>10
    <2> QED BY <2>1, <2>2, <2>3 DEF TypeOK
<1> QED BY <1>6, <1>13, <1>14

LEMMA CopyToFrontIsAhead ==
    ASSUME Invariant, Whole, NEW x \in Element, CopyToFront(x)
    PROVE  OneRing' /\ TypeOK' /\ CopyIsAhead'
<1> DEFINE c == Contents
           d == Contents'
<1>1. /\ Lists(ring, c) /\ Len(c) = len /\ ToSet(c) = list /\ len \in Nat
      /\ list \in SUBSET Element
      /\ \A j \in 1..len : c[j] \in list /\ c[j] \in Element
    BY Shape
<1>2. /\ copy.to = "front" /\ copy.i > 0 /\ copy \in [to : {"none", "back", "front"}, i : Nat, e : Element \cup {Nil}]
      /\ x \notin list /\ list' = list \cup {x} /\ len' = len + 1
      /\ value' = [value EXCEPT ![x] = value[copy.e]]
      /\ copy' = [copy EXCEPT !.i = @ - 1, !.e = PrevOf(ring', list', @)]
      /\ value \in [Element -> Value]
      /\ InsertValue(x, value[copy.e], Root)
    BY DEF CopyToFront, InsertValue, Invariant, TypeOK
<1>3. PICK p \in 0..len :
          /\ copy.i <= p /\ len = 2 * p - copy.i
          /\ copy.e = c[p]
          /\ \A k \in 1..p - copy.i : value[c[k]] = value[c[p + k]]
    <2>1. \A p \in 0..len : p - 0 = p /\ \A k \in 1..p - copy.i : 0 + k = k
        BY <1>1, <1>2
    <2>2. PICK p \in 0..len :
          /\ copy.i <= p /\ len = 2 * p - copy.i
          /\ copy.i > 0 => copy.e = c[p]
          /\ \A k \in 1..p - copy.i : value[c[0 + k]] = value[c[p - 0 + k]]
        BY <1>2 DEF Invariant, CopyIsAhead
    <2> QED BY <2>1, <2>2, <1>2
<1>4. copy.i \in Nat /\ p \in Nat /\ p \in 1..len /\ copy.e \in Element /\ p + 1 \in 1..len + 1
    BY <1>1, <1>2, <1>3
<1>5. ring' = Linked(ring, x, Node(c, 0)) /\ InsertValue(x, value[copy.e], Node(c, 0))
    <2>1. Root = Node(c, 0)
        BY Places
    <2> QED BY <2>1, <1>2 DEF InsertValue
<1>6. OneRing' /\ d = InsertAt(c, 1, x)
    <2>1. 0 \in 0..len /\ 0 + 1 = 1
        BY <1>1
    <2>2. OneRing' /\ d = InsertAt(c, 0 + 1, x)
        BY <2>1, <1>5, InsertedAfter
    <2> QED BY <2>1, <2>2
<1>7. Lists(ring', d) /\ Len(d) = len + 1 /\ ToSet(d) = list'
    <2>1. c \in Seq(Element) /\ 1 \in 1..Len(c) + 1
        BY <1>1 DEF Lists
    <2>2. 0 \in 0..Len(c) /\ x \in Element \ ToSet(c) /\ 0 + 1 = 1
        BY <1>1, <1>2
    <2>3. Lists(Linked(ring, x, Node(c, 0)), InsertAt(c, 0 + 1, x))
        BY <1>1, <2>2, InsertedList
    <2>4. ToSet(InsertAt(c, 1, x)) = ToSet(c) \cup {x}
        BY <2>1, InsertedSet
    <2>5. Len(InsertAt(c, 1, x)) = Len(c) + 1
        BY <2>1, InsertAtIs
    <2> QED BY <2>2, <2>3, <2>4, <2>5, <1>1, <1>2, <1>5, <1>6
<1>8. d[1] = x /\ \A j \in 1..len : d[j + 1] = c[j]
    <2>1. c \in Seq(Element) /\ 1 \in 1..Len(c) + 1
        BY <1>1 DEF Lists
    <2>2. \A k \in 1..Len(c) + 1 : d[k] = IF k < 1 THEN c[k] ELSE IF k = 1 THEN x ELSE c[k - 1]
        BY <2>1, <1>6, InsertAtIs, SMTT(30)
    <2>3. \A j \in 1..len : j + 1 \in 1..Len(c) + 1 /\ ~(j + 1 < 1) /\ j + 1 # 1 /\ j + 1 - 1 = j
        BY <1>1
    <2> QED BY <2>1, <2>2, <2>3
<1> HIDE DEF c, d
<1>9. copy'.to = "front" /\ copy'.i = copy.i - 1 /\ copy'.e = PrevOf(ring', list', copy.e)
    BY <1>2
<1>10. PrevOf(ring', list', copy.e) = d[p]
    <2>1. d[p + 1] = c[p]
        BY <1>4, <1>8
    <2>2. p + 1 \in 1..Len(d) /\ p + 1 # 1 /\ p + 1 - 1 = p
        BY <1>4, <1>7
    <2>3. PrevOf(ring', ToSet(d), d[p + 1]) = d[p + 1 - 1]
        BY <2>2, <1>7, Neighbours
    <2> QED BY <2>1, <2>2, <2>3, <1>3, <1>7
<1>11. /\ value'[x] = value[copy.e]
       /\ \A j \in 1..len : value'[c[j]] = value[c[j]]
    BY <1>1, <1>2
<1>12. \A k \in 1..p - copy'.i : value'[d[k]] = value'[d[p + k]]
    <2> TAKE k \in 1..p - copy'.i
    <2>1. CASE k = 1
        <3>1. d[p + k] = c[p] /\ d[k] = x
            BY <2>1, <1>4, <1>8
        <3> QED BY <3>1, <1>3, <1>4, <1>11
    <2>2. CASE k # 1
        <3> DEFINE j == k - 1
        <3>1. /\ j \in 1..p - copy.i /\ p + j \in 1..len /\ j \in 1..len
              /\ j + 1 = k /\ p + j + 1 = p + k
            BY <2>2, <1>3, <1>4, <1>9
        <3> HIDE DEF j
        <3>2. d[j + 1] = c[j] /\ d[p + j + 1] = c[p + j]
            BY <3>1, <1>8
        <3>3. value[c[j]] = value[c[p + j]]
            BY <3>1, <1>3
        <3> QED BY <3>1, <3>2, <3>3, <1>11
    <2> QED BY <2>1, <2>2
<1>13. CopyIsAhead'
    <2>1. p \in 0..len' /\ copy'.i <= p /\ len' = 2 * p - copy'.i
        BY <1>2, <1>3, <1>4, <1>9
    <2>2. copy'.e = d[p] /\ p - 0 = p
        BY <1>4, <1>9, <1>10
    <2>3. \A k \in 1..p - copy'.i : 0 + k = k
        BY <1>4, <1>9
    <2>4. \A k \in 1..p - copy'.i : value'[d[0 + k]] = value'[d[p - 0 + k]]
        BY <2>2, <2>3, <1>12
    <2> QED BY <2>1, <2>2, <2>4, <1>9 DEF CopyIsAhead, d
<1>14. TypeOK'
    <2>1. ring' \in Rings /\ list' \subseteq Element /\ len' \in Nat
        BY <1>1, <1>2, <1>7 DEF Lists
    <2>2. value' \in [Element -> Value]
        BY <1>2, <1>4
    <2>3. copy' \in [to : {"none", "back", "front"}, i : Nat, e : Element \cup {Nil}]
        <3>1. d[p] \in Element
            <4>1. d \in Seq(Element) /\ p \in 1..Len(d)
                BY <1>1, <1>4, <1>7 DEF Lists
            <4> QED BY <4>1, ElementOfSeq
        <3>2. copy.i - 1 \in Nat
            BY <1>2, <1>4
        <3> QED BY <3>1, <3>2, <1>2, <1>10
    <2> QED BY <2>1, <2>2, <2>3 DEF TypeOK
<1> QED BY <1>6, <1>13, <1>14

LEMMA BeginCopyIsAhead ==
    ASSUME Invariant, Whole, NEW to \in {"back", "front"}, BeginCopy(to)
    PROVE  OneRing' /\ TypeOK' /\ CopyIsAhead'
<1> DEFINE c == Contents
<1>1. /\ Lists(ring, c) /\ Len(c) = len /\ ToSet(c) = list /\ len \in Nat
      /\ \A j \in 1..len : c[j] \in Element
    BY Shape
<1>2. /\ copy' = [to |-> to, i |-> len, e |-> IF to = "back" THEN FrontElement ELSE BackElement]
      /\ UNCHANGED <<ring, list, len, value>>
      /\ ring \in Rings /\ list \subseteq Element /\ value \in [Element -> Value]
    BY DEF BeginCopy, Invariant, TypeOK
<1>3. Contents' = c /\ OneRing'
    BY <1>2, SameShape
<1> HIDE DEF c
<1>4. /\ len = 0 => FrontElement = Nil /\ BackElement = Nil
      /\ len # 0 => FrontElement = c[1] /\ BackElement = c[len]
    <2>1. len # 0 => Node(c, 1) = c[1] /\ Node(c, len) = c[len]
        BY <1>1, NodesDiffer
    <2>2. ring.prev[Root] = Node(c, len) /\ ring.next[Root] = Node(c, 1)
        BY Places DEF c
    <2> QED BY <2>1, <2>2 DEF FrontElement, BackElement
<1>5. /\ copy'.to = to /\ copy'.i = len /\ len' = len
      /\ copy'.e = IF to = "back" THEN FrontElement ELSE BackElement
    BY <1>2
<1>6. CopyIsAhead'
    <2> DEFINE n == len
               copies == IF to = "back" THEN n ELSE 0
               originals == n - copies
    <2>1. n \in 0..len' /\ copy'.i <= n /\ len' = 2 * n - copy'.i
        BY <1>1, <1>5
    <2>2. n - copy'.i = 0
        BY <1>1, <1>5
    <2>3. copy'.i > 0 => copy'.e = c[IF copy'.to = "back" THEN n - copy'.i + 1 ELSE n]
        <3> SUFFICES ASSUME copy'.i > 0
                     PROVE  copy'.e = c[IF copy'.to = "back" THEN n - copy'.i + 1 ELSE n]
            OBVIOUS
        <3>1. len # 0
            BY <1>1, <1>5
        <3>2. CASE to = "back"
            <4>1. n - copy'.i + 1 = 1
                BY <2>2
            <4>2. copy'.e = c[1]
                BY <3>1, <3>2, <1>4, <1>5
            <4> QED BY <4>1, <4>2, <3>2, <1>5
        <3>3. CASE to = "front"
            BY <3>1, <3>3, <1>4, <1>5
        <3> QED BY <3>2, <3>3
    <2>4. \A k \in 1..n - copy'.i : value'[c[copies + k]] = value'[c[originals + k]]
        BY <2>2
    <2> QED BY <2>1, <2>3, <2>4, <1>3, <1>5 DEF CopyIsAhead
<1>7. copy' \in [to : {"none", "back", "front"}, i : Nat, e : Element \cup {Nil}]
    <2>1. len # 0 => c[1] \in Element /\ c[len] \in Element
        BY <1>1
    <2>2. FrontElement \in Element \cup {Nil} /\ BackElement \in Element \cup {Nil}
        BY <2>1, <1>4
    <2>3. (IF to = "back" THEN FrontElement ELSE BackElement) \in Element \cup {Nil}
        BY <2>2
    <2> QED BY <2>3, <1>1, <1>2
<1> QED BY <1>1, <1>2, <1>3, <1>6, <1>7 DEF TypeOK

-----------------------------------------------------------------------------
(* The invariant *)

LEMMA InvariantStarts == Init => Invariant
<1> SUFFICES ASSUME Init PROVE Invariant
    OBVIOUS
<1>1. /\ ring = EmptyRing /\ list = {} /\ len = 0 /\ value \in [Element -> Value] /\ copy = Idle
    BY DEF Init
<1>2. RingIntact /\ ring \in Rings
    BY InitInv DEF Inv, RingIntact, IsRing
<1>3. CopyIsAhead
    BY <1>1 DEF CopyIsAhead, Idle
<1>4. copy \in [to : {"none", "back", "front"}, i : Nat, e : Element \cup {Nil}]
    BY <1>1 DEF Idle
<1>5. OneRing
    <2>1. ring.next[Root] = Root
        BY <1>1 DEF EmptyRing
    <2>2. Contents = [k \in 1..0 |-> Walk(ring, 0)[k]]
        BY <1>1, WalkIs DEF Contents
    <2>3. DOMAIN Contents = {}
        BY <2>2
    <2>4. ToSet(Contents) = list /\ IsInjective(Contents)
        BY <2>3, <1>1 DEF ToSet, IsInjective
    <2> QED BY <2>1, <2>4, <1>1 DEF OneRing
<1> QED BY <1>1, <1>2, <1>3, <1>4, <1>5 DEF Invariant, TypeOK

(* An operation leaves one ring, whatever else it does. *)
LEMMA OperationKeepsOneRing ==
    ASSUME Whole, Operation
    PROVE  OneRing'
<1> DEFINE c == Contents
<1>1. /\ Root = Node(c, 0) /\ ring.prev[Root] = Node(c, len) /\ 0 \in 0..len /\ len \in 0..len
      /\ \A mark \in list : \E i \in 1..len :
            /\ mark = c[i] /\ mark = Node(c, i) /\ ring.prev[mark] = Node(c, i - 1)
            /\ i \in 0..len /\ i - 1 \in 0..len
    <2>1. len \in Nat
        BY Shape
    <2> QED BY <2>1, Places
<1> HIDE DEF c
<1>2. NoChange => OneRing'
    BY SameShape DEF NoChange, vars
<1>3. ASSUME NEW x \in Element, NEW v, NEW i \in 0..len, InsertValue(x, v, Node(c, i)) PROVE OneRing'
    BY <1>3, InsertedAfter DEF c
<1>4. ASSUME NEW x \in list, NEW j \in 0..len, Move(x, Node(c, j)) PROVE OneRing'
    <2>1. PICK i \in 1..len : x = c[i] /\ x = Node(c, i)
        BY <1>1
    <2>2. CASE i = j
        <3>1. Move(x, x)
            BY <2>1, <2>2, <1>4
        <3> QED BY <3>1, MovedNowhere
    <2>3. CASE i # j
        BY <2>1, <2>3, <1>4, MovedAfter DEF c
    <2> QED BY <2>2, <2>3
<1>5. ASSUME NEW x \in Element, RemoveElement(x) PROVE OneRing'
    <2>1. CASE x \notin list
        BY <2>1, <1>2, <1>5 DEF RemoveElement
    <2>2. CASE x \in list
        <3>1. PICK i \in 1..len : x = c[i]
            BY <2>2, <1>1
        <3> QED BY <3>1, <1>5, RemovedElement DEF c
    <2> QED BY <2>1, <2>2
<1>6. ASSUME NEW x \in Element, NEW v \in Value,
             \/ PushFront(x, v) \/ PushBack(x, v)
             \/ \E mark \in Element : InsertBefore(x, v, mark) \/ InsertAfter(x, v, mark)
      PROVE  OneRing'
    <2>1. CASE PushFront(x, v)
        BY <2>1, <1>1, <1>3 DEF PushFront
    <2>2. CASE PushBack(x, v)
        BY <2>2, <1>1, <1>3 DEF PushBack
    <2>3. ASSUME NEW mark \in Element, InsertBefore(x, v, mark) PROVE OneRing'
        BY <2>3, <1>1, <1>2, <1>3 DEF InsertBefore
    <2>4. ASSUME NEW mark \in Element, InsertAfter(x, v, mark) PROVE OneRing'
        BY <2>4, <1>1, <1>2, <1>3 DEF InsertAfter
    <2> QED BY <1>6, <2>1, <2>2, <2>3, <2>4
<1>7. ASSUME NEW x \in Element,
             \/ MoveToFront(x) \/ MoveToBack(x)
             \/ \E mark \in Element : MoveBefore(x, mark) \/ MoveAfter(x, mark)
      PROVE  OneRing'
    <2>1. CASE MoveToFront(x)
        BY <2>1, <1>1, <1>2, <1>4 DEF MoveToFront
    <2>2. CASE MoveToBack(x)
        BY <2>2, <1>1, <1>2, <1>4 DEF MoveToBack
    <2>3. ASSUME NEW mark \in Element, MoveBefore(x, mark) PROVE OneRing'
        BY <2>3, <1>1, <1>2, <1>4 DEF MoveBefore
    <2>4. ASSUME NEW mark \in Element, MoveAfter(x, mark) PROVE OneRing'
        BY <2>4, <1>1, <1>2, <1>4 DEF MoveAfter
    <2> QED BY <1>7, <2>1, <2>2, <2>3, <2>4
<1>8. ASSUME NEW to, BeginCopy(to) PROVE OneRing'
    BY <1>8, SameShape DEF BeginCopy
<1> QED BY <1>5, <1>6, <1>7, <1>8 DEF Operation

LEMMA OperationKeepsTypes ==
    ASSUME Invariant, Whole, Operation
    PROVE  /\ value' \in [Element -> Value] /\ len' \in Nat
           /\ copy' = copy \/ \E to \in {"back", "front"} : BeginCopy(to)
<1>1. value \in [Element -> Value] /\ len \in Nat /\ len = Cardinality(list)
    BY DEF Invariant, TypeOK, RingIntact
<1>2. \A x \in list : len - 1 \in Nat
    <2> SUFFICES ASSUME NEW x \in list PROVE len # 0
        BY <1>1
    <2>1. IsFiniteSet(list)
        BY Shape
    <2> QED BY <2>1, <1>1, FS_EmptySet
<1>3. ASSUME NEW x \in Element, NEW v \in Value, NEW at, InsertValue(x, v, at)
      PROVE  value' \in [Element -> Value] /\ len' \in Nat
    BY <1>1, <1>3 DEF InsertValue
<1>4. ASSUME NEW x \in Element, NEW v \in Value,
             \/ PushFront(x, v) \/ PushBack(x, v)
             \/ \E mark \in Element : InsertBefore(x, v, mark) \/ InsertAfter(x, v, mark)
      PROVE  value' \in [Element -> Value] /\ len' \in Nat /\ copy' = copy
    BY <1>1, <1>3, <1>4 DEF PushFront, PushBack, InsertBefore, InsertAfter, NoChange, vars
<1>5. ASSUME NEW x \in Element,
             \/ RemoveElement(x) \/ MoveToFront(x) \/ MoveToBack(x)
             \/ \E mark \in Element : MoveBefore(x, mark) \/ MoveAfter(x, mark)
      PROVE  value' \in [Element -> Value] /\ len' \in Nat /\ copy' = copy
    BY <1>1, <1>2, <1>5
       DEF RemoveElement, MoveToFront, MoveToBack, MoveBefore, MoveAfter, Move, NoChange, vars
<1>6. ASSUME NEW to, BeginCopy(to) PROVE value' \in [Element -> Value] /\ len' \in Nat
    BY <1>1, <1>6 DEF BeginCopy
<1> QED BY <1>4, <1>5, <1>6 DEF Operation

LEMMA NextInvariant == Invariant /\ [Next]_vars => Invariant'
<1> SUFFICES ASSUME Invariant, Whole, [Next]_vars PROVE Invariant'
    BY InvariantIsWhole
<1>1. RingIntact' /\ ring' \in Rings /\ list' \subseteq Element
    <2>1. Inv
        BY Shape DEF Inv, Invariant
    <2>2. Inv'
        BY <2>1, NextInv
    <2> QED BY <2>2 DEF Inv, RingIntact, IsRing
<1>2. copy \in [to : {"none", "back", "front"}, i : Nat, e : Element \cup {Nil}]
    BY DEF Invariant, TypeOK
<1>3. CASE copy = Idle /\ Operation
    <2>1. OneRing' /\ value' \in [Element -> Value] /\ len' \in Nat
        BY <1>3, OperationKeepsOneRing, OperationKeepsTypes
    <2>2. ASSUME NEW to \in {"back", "front"}, BeginCopy(to) PROVE TypeOK' /\ CopyIsAhead'
        BY <2>2, BeginCopyIsAhead
    <2>3. CASE copy' = copy
        <3>1. CopyIsAhead'
            BY <2>3, <1>3 DEF CopyIsAhead, Idle
        <3> QED BY <2>1, <2>3, <3>1, <1>1, <1>2 DEF Invariant, TypeOK
    <2> QED BY <2>1, <2>2, <2>3, <1>1, <1>3, OperationKeepsTypes DEF Invariant
<1>4. ASSUME NEW x \in Element, CopyToBack(x) \/ CopyToFront(x) PROVE Invariant'
    BY <1>1, <1>4, CopyToBackIsAhead, CopyToFrontIsAhead DEF Invariant
<1>5. CASE EndCopy
    <2>1. copy' = Idle /\ UNCHANGED <<ring, list, len, value>>
        BY <1>5 DEF EndCopy
    <2>2. CopyIsAhead'
        BY <2>1 DEF CopyIsAhead, Idle
    <2>3. copy' \in [to : {"none", "back", "front"}, i : Nat, e : Element \cup {Nil}]
        BY <2>1 DEF Idle
    <2>4. OneRing'
        BY <2>1, SameShape
    <2> QED BY <2>1, <2>2, <2>3, <2>4, <1>1 DEF Invariant, TypeOK
<1>6. CASE UNCHANGED vars
    BY <1>6 DEF vars, Invariant, TypeOK, RingIntact, OneRing, CopyIsAhead, Contents
<1> QED BY <1>3, <1>4, <1>5, <1>6 DEF Next

(* Each operation does to the sequence what its comment says. *)
LEMMA OperationIsAsDocumented ==
    ASSUME Whole, Next, ring' # ring, NEW x \in Element
    PROVE  AsCommented(x)
<1> DEFINE c == Contents
<1>1. /\ Lists(ring, c) /\ Len(c) = len /\ ToSet(c) = list /\ len \in Nat /\ c \in Seq(Element)
    BY Shape DEF Lists
<1>2. /\ Root = Node(c, 0) /\ ring.prev[Root] = Node(c, len) /\ ring.next[Root] = Node(c, 1)
      /\ 0 \in 0..len /\ len \in 0..len /\ 0 + 1 = 1
      /\ \A mark \in list : \E i \in 1..len :
            /\ mark = c[i] /\ mark = Node(c, i) /\ ring.prev[mark] = Node(c, i - 1)
            /\ At(c, mark) = i
      /\ \A i \in 1..len : i \in 0..len /\ i - 1 \in 0..len /\ i - 1 + 1 = i
      /\ \A i \in 0..len : i + 1 \in 1..len + 1
    BY <1>1, Places
<1>3. ~NoChange
    BY DEF NoChange, vars
<1> DEFINE d == Contents'
<1>4. ASSUME NEW y \in Element, NEW v, NEW i \in 0..len, InsertValue(y, v, Node(c, i))
      PROVE  d = InsertAt(c, i + 1, y)
    BY <1>4, InsertedAfter
<1>5. ASSUME NEW i \in 1..len, NEW j \in 0..len, Move(c[i], Node(c, j))
      PROVE  /\ i # j
             /\ d = InsertAt(RemoveAt(c, i), IF j < i THEN j + 1 ELSE j, c[i])
    <2>1. i # j
        <3> SUFFICES ASSUME i = j PROVE FALSE
            OBVIOUS
        <3>1. Node(c, j) = c[i]
            BY <1>1, NodesDiffer
        <3> QED BY <3>1, <1>5, MovedNowhere
    <2> QED BY <2>1, <1>5, MovedAfter
<1>6. \A i \in 1..len :
          /\ Rest(c[i]) = RemoveAt(c, i)
          /\ RemoveAt(c, i) \in Seq(Element) /\ Len(RemoveAt(c, i)) = len - 1
          /\ \A k \in 1..len : k # i => At(RemoveAt(c, i), c[k]) = IF k < i THEN k ELSE k - 1
    BY RestIs
<1>7. /\ InsertAt(c, 1, x) = <<x>> \o c /\ InsertAt(c, len + 1, x) = Append(c, x)
      /\ \A i \in 1..len : /\ InsertAt(RemoveAt(c, i), 1, x) = <<x>> \o RemoveAt(c, i)
                           /\ InsertAt(RemoveAt(c, i), len, x) = Append(RemoveAt(c, i), x)
    <2>1. \A i \in 1..len : Len(RemoveAt(c, i)) + 1 = len
        BY <1>1, <1>6
    <2>2. InsertAt(c, 1, x) = <<x>> \o c /\ InsertAt(c, Len(c) + 1, x) = Append(c, x)
        BY <1>1, InsertAtEnds
    <2>3. ASSUME NEW i \in 1..len
          PROVE  /\ InsertAt(RemoveAt(c, i), 1, x) = <<x>> \o RemoveAt(c, i)
                 /\ InsertAt(RemoveAt(c, i), len, x) = Append(RemoveAt(c, i), x)
        <3> DEFINE t == RemoveAt(c, i)
        <3>1. t \in Seq(Element) /\ Len(t) + 1 = len
            BY <1>6, <2>1
        <3> HIDE DEF t
        <3>2. InsertAt(t, 1, x) = <<x>> \o t /\ InsertAt(t, Len(t) + 1, x) = Append(t, x)
            BY <3>1, InsertAtEnds
        <3> QED BY <3>1, <3>2 DEF t
    <2> QED BY <1>1, <2>2, <2>3
<1> HIDE DEF c, d
<1>8. ASSUME NEW v \in Value
      PROVE  /\ PushFront(x, v) => d = <<x>> \o c
             /\ PushBack(x, v) => d = Append(c, x)
             /\ \A mark \in list :
                   /\ InsertBefore(x, v, mark) => d = InsertAt(c, At(c, mark), x)
                   /\ InsertAfter(x, v, mark) => d = InsertAt(c, At(c, mark) + 1, x)
    <2>1. ASSUME PushFront(x, v) PROVE d = <<x>> \o c
        BY <2>1, <1>2, <1>4, <1>7 DEF PushFront
    <2>2. ASSUME PushBack(x, v) PROVE d = Append(c, x)
        BY <2>2, <1>2, <1>4, <1>7 DEF PushBack
    <2>3. ASSUME NEW mark \in list, InsertBefore(x, v, mark) PROVE d = InsertAt(c, At(c, mark), x)
        <3>1. PICK i \in 1..len : ring.prev[mark] = Node(c, i - 1) /\ At(c, mark) = i
            BY <1>2
        <3>2. InsertValue(x, v, Node(c, i - 1))
            BY <2>3, <3>1 DEF InsertBefore
        <3>3. d = InsertAt(c, i - 1 + 1, x)
            BY <3>2, <1>2, <1>4
        <3> QED BY <3>1, <3>3, <1>2
    <2>4. ASSUME NEW mark \in list, InsertAfter(x, v, mark) PROVE d = InsertAt(c, At(c, mark) + 1, x)
        <3>1. PICK i \in 1..len : mark = Node(c, i) /\ At(c, mark) = i
            BY <1>2
        <3>2. InsertValue(x, v, Node(c, i))
            BY <2>4, <3>1 DEF InsertAfter
        <3> QED BY <3>1, <3>2, <1>2, <1>4
    <2> QED BY <2>1, <2>2, <2>3, <2>4
<1>9. RemoveElement(x) => d = Rest(x)
    <2> SUFFICES ASSUME RemoveElement(x) PROVE d = Rest(x)
        OBVIOUS
    <2>1. x \in list
        BY <1>3 DEF RemoveElement
    <2>2. PICK i \in 1..len : x = c[i]
        BY <2>1, <1>2
    <2>3. d = RemoveAt(c, i)
        BY <2>2, RemovedElement DEF c, d
    <2> QED BY <2>2, <2>3, <1>6
<1>10. ASSUME x \in list PROVE
          /\ MoveToFront(x) => d = <<x>> \o Rest(x)
          /\ MoveToBack(x) => d = Append(Rest(x), x)
          /\ \A mark \in list \ {x} :
                /\ MoveBefore(x, mark) => d = InsertAt(Rest(x), At(Rest(x), mark), x)
                /\ MoveAfter(x, mark) => d = InsertAt(Rest(x), At(Rest(x), mark) + 1, x)
    <2>1. PICK i \in 1..len : x = c[i]
        BY <1>2, <1>10
    <2>2. ASSUME MoveToFront(x) PROVE d = <<x>> \o Rest(x)
        <3>1. Move(c[i], Node(c, 0))
            BY <2>1, <2>2, <1>2, <1>3 DEF MoveToFront
        <3>2. d = InsertAt(RemoveAt(c, i), IF 0 < i THEN 0 + 1 ELSE 0, c[i])
            BY <3>1, <1>2, <1>5
        <3>3. (IF 0 < i THEN 0 + 1 ELSE 0) = 1
            OBVIOUS
        <3> QED BY <3>2, <3>3, <2>1, <1>6, <1>7
    <2>3. ASSUME MoveToBack(x) PROVE d = Append(Rest(x), x)
        <3>1. Move(c[i], Node(c, len))
            BY <2>1, <2>3, <1>2, <1>3 DEF MoveToBack
        <3>2. d = InsertAt(RemoveAt(c, i), IF len < i THEN len + 1 ELSE len, c[i])
            BY <3>1, <1>2, <1>5
        <3>3. (IF len < i THEN len + 1 ELSE len) = len
            BY <1>1
        <3> QED BY <3>2, <3>3, <2>1, <1>6, <1>7
    <2>4. ASSUME NEW mark \in list \ {x}, MoveBefore(x, mark)
          PROVE  d = InsertAt(Rest(x), At(Rest(x), mark), x)
        <3>1. PICK k \in 1..len : mark = c[k] /\ ring.prev[mark] = Node(c, k - 1)
            BY <1>2
        <3>2. k # i
            BY <2>1, <3>1
        <3>3. Move(c[i], Node(c, k - 1))
            BY <2>1, <2>4, <3>1, <1>3 DEF MoveBefore
        <3>4. /\ i # k - 1
              /\ d = InsertAt(RemoveAt(c, i), IF k - 1 < i THEN k - 1 + 1 ELSE k - 1, c[i])
            <4> DEFINE j == k - 1
            <4>1. j \in 0..len /\ Move(c[i], Node(c, j))
                BY <3>3, <1>2
            <4> HIDE DEF j
            <4>2. i # j /\ d = InsertAt(RemoveAt(c, i), IF j < i THEN j + 1 ELSE j, c[i])
                BY <4>1, <1>5
            <4> QED BY <4>2 DEF j
        <3>5. (IF k - 1 < i THEN k - 1 + 1 ELSE k - 1) = IF k < i THEN k ELSE k - 1
            BY <3>2, <3>4
        <3>6. At(RemoveAt(c, i), mark) = IF k < i THEN k ELSE k - 1
            BY <3>1, <3>2, <1>6
        <3> QED BY <3>4, <3>5, <3>6, <2>1, <1>6
    <2>5. ASSUME NEW mark \in list \ {x}, MoveAfter(x, mark)
          PROVE  d = InsertAt(Rest(x), At(Rest(x), mark) + 1, x)
        <3>1. PICK k \in 1..len : mark = c[k] /\ mark = Node(c, k)
            BY <1>2
        <3>2. k # i
            BY <2>1, <3>1
        <3>3. Move(c[i], Node(c, k))
            BY <2>1, <2>5, <3>1, <1>3 DEF MoveAfter
        <3>4. d = InsertAt(RemoveAt(c, i), IF k < i THEN k + 1 ELSE k, c[i])
            BY <3>3, <1>2, <1>5
        <3>5. (IF k < i THEN k + 1 ELSE k) = (IF k < i THEN k ELSE k - 1) + 1
            BY <3>2
        <3>6. At(RemoveAt(c, i), mark) = IF k < i THEN k ELSE k - 1
            BY <3>1, <3>2, <1>6
        <3> QED BY <3>4, <3>5, <3>6, <2>1, <1>6
    <2> QED BY <2>2, <2>3, <2>4, <2>5
<1>11. x \notin list /\ x \in list' => \E n \in 1..len + 1 : d = InsertAt(c, n, x)
    <2> SUFFICES ASSUME x \notin list, x \in list' PROVE \E n \in 1..len + 1 : d = InsertAt(c, n, x)
        OBVIOUS
    <2>1. ASSUME NEW y \in Element, NEW v, NEW i \in 0..len, InsertValue(y, v, Node(c, i))
          PROVE  \E n \in 1..len + 1 : d = InsertAt(c, n, x)
        <3>1. y = x
            BY <2>1 DEF InsertValue
        <3>2. d = InsertAt(c, i + 1, x)
            BY <2>1, <3>1, <1>4
        <3> QED BY <3>2, <1>2
    <2>2. ASSUME NEW y \in Element, NEW v \in Value,
                 \/ PushFront(y, v) \/ PushBack(y, v)
                 \/ \E mark \in Element : InsertBefore(y, v, mark) \/ InsertAfter(y, v, mark)
          PROVE  \E n \in 1..len + 1 : d = InsertAt(c, n, x)
        <3>1. CASE PushFront(y, v)
            BY <3>1, <1>2, <2>1 DEF PushFront
        <3>2. CASE PushBack(y, v)
            BY <3>2, <1>2, <2>1 DEF PushBack
        <3>3. ASSUME NEW mark \in Element, InsertBefore(y, v, mark)
              PROVE  \E n \in 1..len + 1 : d = InsertAt(c, n, x)
            BY <3>3, <1>2, <1>3, <2>1 DEF InsertBefore
        <3>4. ASSUME NEW mark \in Element, InsertAfter(y, v, mark)
              PROVE  \E n \in 1..len + 1 : d = InsertAt(c, n, x)
            BY <3>4, <1>2, <1>3, <2>1 DEF InsertAfter
        <3> QED BY <2>2, <3>1, <3>2, <3>3, <3>4
    <2>3. ASSUME NEW y \in Element,
                 \/ RemoveElement(y) \/ MoveToFront(y) \/ MoveToBack(y)
                 \/ \E mark \in Element : MoveBefore(y, mark) \/ MoveAfter(y, mark)
          PROVE  FALSE
        BY <2>3, <1>3
           DEF RemoveElement, MoveToFront, MoveToBack, MoveBefore, MoveAfter, Move
    <2>4. ASSUME NEW y \in Element, CopyToBack(y) \/ CopyToFront(y)
          PROVE  \E n \in 1..len + 1 : d = InsertAt(c, n, x)
        BY <2>4, <1>2, <2>1 DEF CopyToBack, CopyToFront
    <2>5. \A to : ~BeginCopy(to)
        BY DEF BeginCopy
    <2>6. ~EndCopy
        BY DEF EndCopy
    <2> QED BY <2>2, <2>3, <2>4, <2>5, <2>6 DEF Next, Operation
<1> QED BY <1>8, <1>9, <1>10, <1>11 DEF c, d, AsCommented

(* A copy that has ended is a repetition. *)
LEMMA CopyEndsDoubled ==
    ASSUME Invariant, EndCopy
    PROVE  Doubled
<1> DEFINE values == [n \in 1..len |-> value[Contents[n]]]
<1>1. copy.i = 0 /\ copy.to \in {"back", "front"} /\ len \in Nat
    BY DEF EndCopy, Invariant, TypeOK
<1>2. PICK p \in 0..len :
          /\ len = 2 * p - copy.i
          /\ \A k \in 1..p - copy.i :
                value[Contents[(IF copy.to = "back" THEN p ELSE 0) + k]]
                   = value[Contents[p - (IF copy.to = "back" THEN p ELSE 0) + k]]
    BY <1>1 DEF Invariant, CopyIsAhead
<1>3. p \in Nat /\ len = 2 * p /\ len % 2 = 0 /\ len \div 2 = p /\ p - copy.i = p
    <2>1. p \in Nat /\ len = 2 * p
        BY <1>1, <1>2
    <2> QED BY <2>1, <1>1
<1>4. \A k \in 1..p : value[Contents[k]] = value[Contents[p + k]]
    <2> TAKE k \in 1..p
    <2>1. p - p + k = k /\ p - 0 + k = p + k /\ 0 + k = k
        BY <1>3
    <2>2. CASE copy.to = "back"
        <3>1. value[Contents[p + k]] = value[Contents[p - p + k]]
            BY <2>2, <1>2, <1>3
        <3> QED BY <3>1, <2>1
    <2>3. CASE copy.to = "front"
        <3>1. value[Contents[0 + k]] = value[Contents[p - 0 + k]]
            BY <2>3, <1>2, <1>3
        <3> QED BY <3>1, <2>1
    <2> QED BY <2>2, <2>3, <1>1
<1>5. \A k \in 1..p : k \in 1..len /\ p + k \in 1..len
    BY <1>3
<1>6. \A k \in 1..p : values[k] = values[p + k]
    BY <1>4, <1>5
<1>7. Doubled = (len % 2 = 0 /\ SubSeq(values, 1, len \div 2) = SubSeq(values, len \div 2 + 1, len))
    BY DEF Doubled
<1> HIDE DEF values
<1> DEFINE V == {values[k] : k \in 1..len}
<1>8. \A k \in 1..len : values[k] \in V
    OBVIOUS
<1> HIDE DEF V
<1> DEFINE a == SubSeq(values, 1, p)
           b == SubSeq(values, p + 1, len)
<1>9. a \in Seq(V) /\ Len(a) = p /\ \A k \in 1..p : a[k] = values[k]
    <2>1. 1 \in Int /\ p \in Int /\ \A k \in 1..p : values[k] \in V
        BY <1>3, <1>5, <1>8
    <2>2. /\ a \in Seq(V) /\ Len(a) = IF 1 <= p THEN p - 1 + 1 ELSE 0
          /\ \A k \in 1..(p - 1 + 1) : a[k] = values[1 + k - 1]
        BY <2>1, SubSeqProperties
    <2> HIDE DEF a
    <2>3. p - 1 + 1 = p /\ (IF 1 <= p THEN p - 1 + 1 ELSE 0) = p /\ \A k \in 1..p : 1 + k - 1 = k
        BY <1>3
    <2> QED BY <2>2, <2>3
<1>10. b \in Seq(V) /\ Len(b) = p /\ \A k \in 1..p : b[k] = values[p + k]
    <2>1. p + 1 \in Int /\ len \in Int /\ \A k \in (p + 1)..len : values[k] \in V
        BY <1>1, <1>3, <1>8
    <2>2. /\ b \in Seq(V) /\ Len(b) = IF p + 1 <= len THEN len - (p + 1) + 1 ELSE 0
          /\ \A k \in 1..(len - (p + 1) + 1) : b[k] = values[p + 1 + k - 1]
        BY <2>1, SubSeqProperties
    <2> HIDE DEF b
    <2>3. /\ len - (p + 1) + 1 = p /\ (IF p + 1 <= len THEN len - (p + 1) + 1 ELSE 0) = p
          /\ \A k \in 1..p : p + 1 + k - 1 = p + k
        BY <1>3
    <2> QED BY <2>2, <2>3
<1> HIDE DEF a, b
<1>11. \A k \in 1..p : a[k] = b[k]
    BY <1>6, <1>9, <1>10
<1>12. a = b
    BY <1>9, <1>10, <1>11, SeqEqual
<1> QED BY <1>3, <1>12, <1>7 DEF a, b

(* From the root, each element of the list is met once, whatever is inserted,  *)
(* removed, moved or copied, and a list that is copied to its own end meets    *)
(* the copies behind the originals.                                            *)
THEOREM ListStaysWhole == Spec => []Invariant
BY InvariantStarts, NextInvariant, PTL DEF Spec

(* The list is, for any elements and values, the sequence that its comments    *)
(* speak of: each operation does to the sequence what its comment says, and a  *)
(* list that is appended to itself is doubled.                                 *)
THEOREM ListIsAsDocumented == Spec => AsDocumented
<1>1. Invariant /\ [Next]_vars => [ring' # ring => OneRing']_vars
    BY NextInvariant DEF Invariant
<1>2. Invariant /\ [Next]_vars =>
         [copy = Idle /\ ring' # ring => \A x \in Element : AsCommented(x)]_vars
    BY OperationIsAsDocumented, InvariantIsWhole
<1>3. Invariant /\ [Next]_vars => [EndCopy => Doubled]_vars
    BY CopyEndsDoubled
<1> QED BY <1>1, <1>2, <1>3, ListStaysWhole, PTL
        DEF Spec, AsDocumented, OperationsAsDocumented, CopyDoubles

-----------------------------------------------------------------------------
(* The ordered map. *)

(* The values of the list, which are what the abstract map's order is. *)
Order == [n \in 1..len |-> value[Contents[n]]]

(* The instances have operators of their own. *)
LEMMA SameOperators ==
    /\ \A S : Map!Cardinality(S) = Cardinality(S)
    /\ \A s : Map!List!ToSet(s) = ToSet(s) /\ Map!KeyOrder!ToSet(s) = ToSet(s)
    /\ \A s : Map!List!IsInjective(s) <=> IsInjective(s)
    /\ \A s, i, x : Map!KeyOrder!InsertAt(s, i, x) = InsertAt(s, i, x)
    /\ \A s, i : Map!KeyOrder!RemoveAt(s, i) = RemoveAt(s, i)
    /\ \A S : Map!KeyOrder!SetToSeqs(S) = SetToSeqs(S) /\ Map!SetToSeqs(S) = SetToSeqs(S)
<1>1. \A S : Map!Cardinality(S) = Cardinality(S) /\ Map!KeyOrder!Cardinality(S) = Cardinality(S)
    BY DEF Map!Cardinality, Map!KeyOrder!Cardinality, Cardinality
<1>2. \A s : Map!List!ToSet(s) = ToSet(s) /\ Map!KeyOrder!ToSet(s) = ToSet(s)
    BY DEF Map!List!ToSet, Map!KeyOrder!ToSet, ToSet
<1>3. \A s : Map!List!IsInjective(s) <=> IsInjective(s)
    BY DEF Map!List!IsInjective, IsInjective
<1>4. \A s, i, x : Map!KeyOrder!InsertAt(s, i, x) = InsertAt(s, i, x)
    BY DEF Map!KeyOrder!InsertAt, InsertAt
<1>5. \A s, i : Map!KeyOrder!RemoveAt(s, i) = RemoveAt(s, i)
    BY DEF Map!KeyOrder!RemoveAt, RemoveAt
<1>6. \A S : Map!KeyOrder!SetToSeqs(S) = SetToSeqs(S) /\ Map!SetToSeqs(S) = SetToSeqs(S)
    BY <1>1 DEF Map!KeyOrder!SetToSeqs, Map!SetToSeqs, SetToSeqs
<1> QED BY <1>1, <1>2, <1>3, <1>4, <1>5, <1>6

(* The map's list is the list. *)
LEMMA MapIsWhole ==
    ASSUME Map!Invariant
    PROVE  /\ Whole /\ Map!Contents = Contents
           /\ Map!TypeOK /\ Map!IndexMatches /\ Map!LoopFollows
<1>1. Map!TypeOK /\ Map!IndexMatches /\ Map!LoopFollows /\ Map!List!OneRing
    BY DEF Map!Invariant
<1>2. IsRing(ring, list)
    BY <1>1 DEF Map!IndexMatches, Map!IsRing, IsRing, Map!Rings, Rings, Map!Pointer, Pointer
<1>3. list \in SUBSET Element /\ len \in Nat
    BY <1>1 DEF Map!TypeOK
<1>4. Map!Contents = Contents /\ Map!List!Contents = Contents
    BY DEF Map!Contents, Contents, Map!List!Contents, Map!Walk, Walk, Map!List!Walk
<1>5. OneRing
    BY <1>1, <1>4, SameOperators DEF Map!List!OneRing, OneRing
<1> QED BY <1>1, <1>2, <1>3, <1>4, <1>5 DEF Whole

(* The elements of the list have different keys. *)
LEMMA KeysDiffer ==
    ASSUME Map!Invariant
    PROVE  /\ \A x \in list : /\ value[x] \in Map!Values /\ value[x].key \in Key
                              /\ m[value[x].key] = x
           /\ \A x, y \in list : value[x].key = value[y].key => x = y
           /\ \A k \in Key : m[k] # Nil => m[k] \in list /\ value[m[k]].key = k
           /\ Order \in Seq(Map!Values) /\ Len(Order) = len
           /\ \A i \in 1..len : Order[i] = value[Contents[i]]
           /\ \A i, j \in 1..len : Order[i].key = Order[j].key => i = j
<1>1. /\ list = {m[k] : k \in Key} \ {Nil}
      /\ \A k \in Key : m[k] # Nil => value[m[k]].key = k
      /\ value \in [Element -> Map!Values] /\ m \in [Key -> Element \cup {Nil}]
    BY MapIsWhole DEF Map!IndexMatches, Map!TypeOK
<1>2. /\ len \in Nat /\ list \in SUBSET Element
      /\ \A i \in 1..len : Contents[i] \in list
      /\ \A i, j \in 1..len : Contents[i] = Contents[j] => i = j
    BY MapIsWhole, Shape DEF Lists
<1>3. \A x \in list : value[x] \in Map!Values /\ value[x].key \in Key
    BY <1>1, <1>2 DEF Map!Values
<1>4. \A x \in list : \E k \in Key : m[k] = x /\ m[k] # Nil /\ value[x].key = k
    BY <1>1
<1>5. \A x \in list : m[value[x].key] = x
    BY <1>4
<1>6. \A x, y \in list : value[x].key = value[y].key => x = y
    BY <1>5
<1>7. \A k \in Key : m[k] # Nil => m[k] \in list /\ value[m[k]].key = k
    BY <1>1
<1>8. \A i \in 1..len : value[Contents[i]] \in Map!Values
    BY <1>2, <1>3
<1>9. Order \in Seq(Map!Values) /\ Len(Order) = len
    BY <1>2, <1>8 DEF Order
<1>10. \A i \in 1..len : Order[i] = value[Contents[i]]
    BY DEF Order
<1>11. \A i, j \in 1..len : Order[i].key = Order[j].key => i = j
    BY <1>2, <1>6, <1>10
<1> QED BY <1>3, <1>5, <1>6, <1>7, <1>9, <1>10, <1>11

(* The index after a step. *)
LEMMA MapReshaped ==
    ASSUME Map!Invariant, NEW s, Lists(ring', s), ToSet(s) = list', Len(s) = len',
           value' \in [Element -> Map!Values], m' \in [Key -> Element \cup {Nil}],
           list' = {m'[k] : k \in Key} \ {Nil},
           \A k \in Key : m'[k] # Nil => value'[m'[k]].key = k
    PROVE  Map!IndexMatches' /\ Map!List!OneRing' /\ Map!Contents' = s
           /\ ring' \in Map!Rings /\ list' \subseteq Element /\ len' \in Nat
<1>1. Contents' = s /\ OneRing'
    BY Reshaped
<1>2. Map!Contents' = Contents' /\ Map!List!Contents' = Contents'
    BY DEF Map!Contents, Contents, Map!List!Contents, Map!Walk, Walk, Map!List!Walk
<1>3. Map!List!OneRing'
    BY <1>1, <1>2, SameOperators DEF Map!List!OneRing, OneRing
<1>4. IsRing(ring', list') /\ len' = Cardinality(list')
    <2>1. IsRing(ring', ToSet(s))
        BY ListIsRing
    <2>2. Len(s) = Cardinality(ToSet(s))
        BY ListIsFinite
    <2> QED BY <2>1, <2>2, Zenon
<1>5. Map!IsRing(ring', list') /\ ring' \in Map!Rings
    BY <1>4 DEF Map!IsRing, IsRing, Map!Rings, Rings, Map!Pointer, Pointer
<1>6. list' \subseteq Element /\ len' \in Nat
    BY NodesDiffer
<1>7. Map!IndexMatches'
    BY <1>4, <1>5, SameOperators DEF Map!IndexMatches
<1> QED BY <1>1, <1>2, <1>3, <1>5, <1>6, <1>7

(* The place that insertList() finds. *)
LEMMA InsertPlace ==
    ASSUME Map!Invariant, NEW x \in Element \ list, NEW v \in Map!Values, Map!insertList(x, v)
    PROVE  \E i \in 0..len :
              /\ InsertValue(x, v, Node(Contents, i))
              /\ i = 0 => len = 0
              /\ \A k \in 2..i : Order[k].rank <= v.rank
              /\ i + 1 \in 2..len => v.rank < Order[i + 1].rank
<1> DEFINE c == Contents
           later == {n \in 2..len : v.rank < value[c[n]].rank}
<1>1. /\ Whole /\ Map!Contents = c /\ len \in Nat
      /\ \A i \in 1..len : c[i] \in list /\ Order[i] = value[c[i]]
    BY MapIsWhole, Shape, KeysDiffer
<1>2. /\ ring.prev[Root] = Node(c, len)
      /\ \A mark \in list : \E i \in 1..len : mark = c[i] /\ ring.prev[mark] = Node(c, i - 1)
      /\ \A i, j \in 1..len : c[i] = c[j] => i = j
    BY <1>1, Places, Shape DEF Lists
<1>3. \A n \in 2..len : v.rank \in Nat /\ value[c[n]].rank \in Nat
    <2>1. Rank \subseteq Nat
        BY InstanceAssumption DEF Map!MapAssumption
    <2>2. \A n \in 2..len : value[c[n]] \in Map!Values
        <3>1. \A n \in 2..len : n \in 1..len
            OBVIOUS
        <3> QED BY <3>1, <1>1, KeysDiffer
    <2> QED BY <2>1, <2>2 DEF Map!Values
<1>4. \A at : Map!List!InsertValue(x, v, at) => InsertValue(x, v, at)
    BY DEF Map!List!InsertValue, InsertValue, Map!List!Linked, Linked
<1>5. CASE len < 2 \/ later = {}
    <2>1. Map!List!PushBack(x, v)
        BY <1>1, <1>5 DEF Map!insertList
    <2>2. InsertValue(x, v, Node(c, len))
        BY <2>1, <1>2, <1>4 DEF Map!List!PushBack
    <2>3. \A k \in 2..len : Order[k].rank <= v.rank
        <3> TAKE k \in 2..len
        <3>1. k \in 1..len /\ ~(len < 2)
            BY <1>1
        <3>2. ~(v.rank < value[c[k]].rank)
            BY <3>1, <1>5
        <3> QED BY <3>1, <3>2, <1>1, <1>3
    <2>4. len \in 0..len /\ len + 1 \notin 2..len
        BY <1>1
    <2> HIDE DEF c
    <2> QED BY <2>2, <2>3, <2>4 DEF c
<1>6. CASE ~(len < 2 \/ later = {})
    <2> DEFINE p == CHOOSE n \in later : \A k \in later : n <= k
    <2>1. p \in later /\ \A k \in later : p <= k
        <3>1. later \in SUBSET Nat /\ later # {}
            BY <1>6
        <3> HIDE DEF later
        <3>2. \E n \in later : \A k \in later : n <= k
            BY <3>1, Least
        <3> QED BY <3>2
    <2>2. Map!List!InsertBefore(x, v, c[p])
        BY <1>1, <1>6 DEF Map!insertList
    <2> HIDE DEF p
    <2>3. p \in 2..len /\ v.rank < value[c[p]].rank /\ p \in 1..len
        BY <2>1
    <2>4. InsertValue(x, v, ring.prev[c[p]])
        BY <2>2, <2>3, <1>1, <1>4 DEF Map!List!InsertBefore
    <2>5. ring.prev[c[p]] = Node(c, p - 1)
        BY <2>3, <1>1, <1>2
    <2>6. ASSUME NEW k \in 2..p - 1 PROVE Order[k].rank <= v.rank
        <3>1. k \in 2..len /\ k \in 1..len /\ ~(p <= k)
            BY <2>3, <1>1
        <3>2. ~(v.rank < value[c[k]].rank)
            BY <3>1, <2>1
        <3> QED BY <3>1, <3>2, <1>1, <1>3
    <2>7. p - 1 \in 0..len /\ p - 1 # 0 /\ p - 1 + 1 = p
        BY <2>3, <1>1
    <2>8. v.rank < Order[p].rank
        BY <2>3, <1>1
    <2> DEFINE i == p - 1
    <2>9. /\ i \in 0..len /\ i # 0 /\ i + 1 = p /\ InsertValue(x, v, Node(c, i))
          /\ \A k \in 2..i : Order[k].rank <= v.rank
        BY <2>4, <2>5, <2>6, <2>7
    <2> HIDE DEF i, c
    <2> QED BY <2>8, <2>9 DEF c
<1> QED BY <1>5, <1>6

(* InsertIfNotExist() *)
LEMMA MapInserts ==
    ASSUME Map!Invariant, NEW k \in Key, NEW r \in Rank, Map!InsertIfNotExist(k, r)
    PROVE  /\ Map!Invariant'
           /\ Map!KeyOrder!Insert([key |-> k, rank |-> r])
<1> DEFINE v == [key |-> k, rank |-> r]
           c == Contents
<1>1. PICK x \in Element \ list : Map!insertList(x, v) /\ m' = [m EXCEPT ![k] = x]
    BY DEF Map!InsertIfNotExist
<1>2. v \in Map!Values /\ v.key = k
    BY DEF Map!Values
<1>3. loop = "idle" /\ m[k] = Nil /\ UNCHANGED <<loop, cursor, visited>>
    BY DEF Map!InsertIfNotExist
<1> HIDE DEF v
<1>4. PICK i \in 0..len :
          /\ InsertValue(x, v, Node(c, i))
          /\ i = 0 => len = 0
          /\ \A j \in 2..i : Order[j].rank <= v.rank
          /\ i + 1 \in 2..len => v.rank < Order[i + 1].rank
    BY <1>1, <1>2, InsertPlace
<1> DEFINE d == InsertAt(c, i + 1, x)
<1>5. /\ Whole /\ Lists(ring, c) /\ Len(c) = len /\ ToSet(c) = list /\ len \in Nat
      /\ Map!Contents = c /\ list \in SUBSET Element
      /\ \A j \in 1..len : c[j] \in list
    BY MapIsWhole, Shape
<1>6. /\ list' = list \cup {x} /\ len' = len + 1 /\ ring' = Linked(ring, x, Node(c, i))
      /\ value' = [value EXCEPT ![x] = v]
    BY <1>4 DEF InsertValue
<1>7. Contents' = d
    BY <1>4, <1>5, InsertedAfter
<1>8. /\ value \in [Element -> Map!Values] /\ m \in [Key -> Element \cup {Nil}]
      /\ list = {m[j] : j \in Key} \ {Nil}
      /\ \A j \in Key : m[j] # Nil => value[m[j]].key = j
      /\ visited \in Seq(Map!Values) /\ cursor \in Element \cup {Nil}
    BY MapIsWhole DEF Map!TypeOK, Map!IndexMatches
<1>9. Lists(ring', d) /\ ToSet(d) = list' /\ Len(d) = len'
    <2> HIDE DEF c
    <2>1. i \in 0..Len(c) /\ x \in Element \ ToSet(c) /\ i + 1 \in 1..Len(c) + 1 /\ c \in Seq(Element)
        BY <1>5 DEF Lists
    <2>2. Lists(Linked(ring, x, Node(c, i)), d)
        BY <1>5, <2>1, InsertedList
    <2>3. ToSet(d) = ToSet(c) \cup {x}
        BY <2>1, InsertedSet
    <2>4. Len(d) = Len(c) + 1
        BY <2>1, InsertedNodes
    <2> QED BY <2>2, <2>3, <2>4, <1>5, <1>6
<1> HIDE DEF c, d
<1>10. x # Nil
    BY RingAssumption
<1>11. /\ value' \in [Element -> Map!Values] /\ m' \in [Key -> Element \cup {Nil}]
       /\ m'[k] = x /\ value'[x] = v
       /\ \A j \in Key : j # k => m'[j] = m[j]
       /\ \A y \in Element : y # x => value'[y] = value[y]
    BY <1>1, <1>2, <1>6, <1>8
<1>12. list' = {m'[j] : j \in Key} \ {Nil}
    BY <1>3, <1>6, <1>8, <1>10, <1>11
<1>13. \A j \in Key : m'[j] # Nil => value'[m'[j]].key = j
    <2> TAKE j \in Key
    <2>1. CASE j = k
        BY <2>1, <1>2, <1>11
    <2>2. CASE j # k
        <3>1. m[j] # Nil => m[j] \in list
            BY <1>8
        <3> QED BY <3>1, <2>2, <1>5, <1>8, <1>11
    <2> QED BY <2>1, <2>2
<1>14. /\ Map!IndexMatches' /\ Map!List!OneRing'
       /\ ring' \in Map!Rings /\ list' \subseteq Element /\ len' \in Nat
    BY <1>9, <1>11, <1>12, <1>13, MapReshaped
<1>15. Map!LoopFollows'
    BY <1>3, MapIsWhole DEF Map!LoopFollows
<1>16. Map!TypeOK'
    BY <1>3, <1>8, <1>11, <1>14 DEF Map!TypeOK
<1>17. Order' = InsertAt(Order, i + 1, v)
    <2>1. /\ Order \in Seq(Map!Values) /\ Len(Order) = len
          /\ \A j \in 1..len : Order[j] = value[c[j]]
        BY KeysDiffer DEF c
    <2> DEFINE p == i + 1
               o == InsertAt(Order, p, v)
    <2>2. p \in 1..len + 1
        BY <1>5
    <2>3. /\ d \in Seq(Element) /\ Len(d) = len + 1
          /\ \A j \in 1..len + 1 : d[j] = IF j < p THEN c[j] ELSE IF j = p THEN x ELSE c[j - 1]
        <3>1. c \in Seq(Element) /\ p \in 1..Len(c) + 1
            BY <2>2, <1>5 DEF Lists
        <3> HIDE DEF p
        <3>2. d = InsertAt(c, p, x)
            BY DEF d, p
        <3>3. /\ InsertAt(c, p, x) \in Seq(Element) /\ Len(InsertAt(c, p, x)) = Len(c) + 1
              /\ \A j \in 1..Len(c) + 1 :
                    InsertAt(c, p, x)[j] = IF j < p THEN c[j] ELSE IF j = p THEN x ELSE c[j - 1]
            BY <3>1, InsertAtIs, SMTT(60)
        <3> QED BY <3>2, <3>3, <1>5
    <2>4. /\ o \in Seq(Map!Values) /\ Len(o) = len + 1
          /\ \A j \in 1..len + 1 : o[j] = IF j < p THEN Order[j] ELSE IF j = p THEN v ELSE Order[j - 1]
        <3>1. p \in 1..Len(Order) + 1
            BY <2>1, <2>2
        <3> HIDE DEF p
        <3>2. /\ o \in Seq(Map!Values) /\ Len(o) = Len(Order) + 1
              /\ \A j \in 1..Len(Order) + 1 :
                    o[j] = IF j < p THEN Order[j] ELSE IF j = p THEN v ELSE Order[j - 1]
            BY <3>1, <2>1, <1>2, InsertAtIs, SMTT(60)
        <3> QED BY <3>2, <2>1
    <2> HIDE DEF o, p
    <2>5. Order' = [j \in 1..len + 1 |-> value'[d[j]]]
        BY <1>6, <1>7 DEF Order, d
    <2>6. \A j \in 1..len + 1 : value'[d[j]] = o[j]
        <3> TAKE j \in 1..len + 1
        <3>1. /\ j < p => j \in 1..len
              /\ ~(j < p) /\ j # p => j - 1 \in 1..len
            BY <2>2, <1>5
        <3>2. CASE j < p
            BY <3>1, <3>2, <2>1, <2>3, <2>4, <1>5, <1>11
        <3>3. CASE j = p
            BY <3>3, <2>2, <2>3, <2>4, <1>11
        <3>4. CASE ~(j < p) /\ j # p
            BY <3>1, <3>4, <2>1, <2>3, <2>4, <1>5, <1>11
        <3> QED BY <3>2, <3>3, <3>4
    <2>7. o = [j \in 1..len + 1 |-> o[j]]
        BY <2>4, LenProperties
    <2>8. Order' = o
        BY <2>5, <2>6, <2>7
    <2> QED BY <2>8 DEF o, p
<1>18. k \notin {w.key : w \in ToSet(Order)}
    <2>1. /\ Order \in Seq(Map!Values) /\ Len(Order) = len
          /\ \A j \in 1..len : Order[j] = value[Contents[j]]
          /\ \A y \in list : value[y].key \in Key /\ m[value[y].key] = y
        BY KeysDiffer
    <2>2. \A w \in ToSet(Order) : \E j \in 1..len : w = value[Contents[j]]
        BY <2>1, LenProperties DEF ToSet
    <2>3. \A w \in ToSet(Order) : w.key # k
        <3> TAKE w \in ToSet(Order)
        <3>1. PICK y \in list : w = value[y]
            BY <2>2, <1>5 DEF c
        <3>2. y # Nil
            BY <1>5, RingAssumption
        <3> QED BY <3>1, <3>2, <2>1, <1>3
    <2> QED BY <2>3
<1>19. Map!KeyOrder!Insert(v)
    <2>1. Len(Order) = len
        BY KeysDiffer
    <2>2. \E n \in 1..Len(Order) + 1 :
              /\ n = 1 => Order = <<>>
              /\ \A j \in 2..n - 1 : Order[j].rank <= v.rank
              /\ n \in 2..Len(Order) => v.rank < Order[n].rank
              /\ Order' = InsertAt(Order, n, v)
        <3> DEFINE n == i + 1
        <3>1. n \in 1..Len(Order) + 1 /\ n - 1 = i
            BY <2>1, <1>5
        <3>2. n = 1 => Order = <<>>
            <4> SUFFICES ASSUME n = 1 PROVE Order = <<>>
                OBVIOUS
            <4>1. i = 0
                BY <3>1
            <4>2. len = 0
                BY <4>1, <1>4
            <4> QED BY <4>2, <2>1, KeysDiffer, EmptySeq
        <3>3. /\ \A j \in 2..n - 1 : Order[j].rank <= v.rank
              /\ n \in 2..Len(Order) => v.rank < Order[n].rank
              /\ Order' = InsertAt(Order, n, v)
            BY <3>1, <2>1, <1>4, <1>17
        <3> HIDE DEF n
        <3> QED BY <3>1, <3>2, <3>3
    <2>3. v.key \notin Map!KeyOrder!Keys
        BY <1>2, <1>5, <1>18, SameOperators DEF Map!KeyOrder!Keys, Order, c
    <2>4. Map!Contents' = Contents'
        BY DEF Map!Contents, Contents, Map!Walk, Walk
    <2>5. /\ Order = [n \in 1..len |-> value[Map!Contents[n]]]
          /\ Order' = [n \in 1..len' |-> value'[Map!Contents'[n]]]
        BY <2>4, <1>5 DEF Order, c
    <2>6. Map!KeyOrder!Insert(v) <=>
            /\ v.key \notin Map!KeyOrder!Keys
            /\ \E n \in 1..Len(Order) + 1 :
                  /\ n = 1 => Order = <<>>
                  /\ \A j \in 2..n - 1 : Order[j].rank <= v.rank
                  /\ n \in 2..Len(Order) => v.rank < Order[n].rank
                  /\ Order' = Map!KeyOrder!InsertAt(Order, n, v)
            /\ UNCHANGED <<loop = "read", visited>>
        BY <2>5 DEF Map!KeyOrder!Insert
    <2> QED BY <2>2, <2>3, <2>6, <1>3, SameOperators
<1> QED BY <1>14, <1>15, <1>16, <1>19 DEF Map!Invariant, v

(* Delete(k) of the abstract map. *)
Deleted(s, k) == Map!KeyOrder!RemoveFirstMatch(s, LAMBDA v : v.key = k)

(* Of a value whose key occurs once, the first match is the match. *)
LEMMA RemoveMatchIs ==
    ASSUME NEW s, NEW i \in 1..Len(s), NEW k, s[i].key = k,
           \A j \in 1..Len(s) : s[j].key = s[i].key => j = i
    PROVE  Deleted(s, k) = RemoveAt(s, i)
<1>1. {j \in 1..Len(s) : s[j].key = k} = {i}
    OBVIOUS
<1>2. Map!KeyOrder!Min({i}) = i
    BY DEF Map!KeyOrder!Min
<1>3. Map!KeyOrder!RemoveAt(s, i) = RemoveAt(s, i)
    BY SameOperators
<1> QED BY <1>1, <1>2, <1>3 DEF Deleted, Map!KeyOrder!RemoveFirstMatch, Map!KeyOrder!SelectInSeq

LEMMA RemovedValues ==
    \A s \in Seq(Map!Values) : \A i \in 1..Len(s) :
        /\ RemoveAt(s, i) \in Seq(Map!Values) /\ Len(RemoveAt(s, i)) = Len(s) - 1
        /\ \A k \in 1..Len(s) - 1 : RemoveAt(s, i)[k] = IF k < i THEN s[k] ELSE s[k + 1]
BY RemoveAtIs

(* dequeue, without the loop. *)
LEMMA MapRemoves ==
    ASSUME Map!Invariant, NEW k \in Key, Map!Removal(k)
    PROVE  /\ Map!IndexMatches' /\ Map!List!OneRing'
           /\ ring' \in Map!Rings /\ list' \subseteq Element /\ len' \in Nat
           /\ value' = value /\ m' \in [Key -> Element \cup {Nil}]
           /\ list' = list \ {m[k]}
           /\ \/ Order' = Order
              \/ m[k] # Nil /\ Order' = Deleted(Order, k)
<1> DEFINE c == Contents
           x == m[k]
<1>1. /\ Whole /\ Lists(ring, c) /\ Len(c) = len /\ ToSet(c) = list /\ len \in Nat
      /\ Map!Contents = c /\ list \in SUBSET Element
      /\ \A j \in 1..len : c[j] \in list
    BY MapIsWhole, Shape
<1>2. /\ value \in [Element -> Map!Values] /\ m \in [Key -> Element \cup {Nil}]
      /\ list = {m[j] : j \in Key} \ {Nil}
      /\ \A j \in Key : m[j] # Nil => value[m[j]].key = j
      /\ Map!IndexMatches /\ Map!List!OneRing /\ ring \in Map!Rings
    BY MapIsWhole DEF Map!TypeOK, Map!IndexMatches, Map!Invariant
<1>3. CASE x = Nil
    <2>1. UNCHANGED <<ring, list, len, value, m>>
        BY <1>3 DEF Map!Removal
    <2>2. Map!IndexMatches' /\ Map!List!OneRing' /\ Order' = Order
        BY <1>2, <2>1 DEF Map!IndexMatches, Map!List!OneRing, Map!List!Contents, Order, Contents
    <2>3. Nil \notin list
        BY <1>1, RingAssumption
    <2> QED BY <1>1, <1>2, <1>3, <2>1, <2>2, <2>3
<1>4. CASE x # Nil
    <2>1. x \in list /\ x \in Element /\ value[x].key = k
        BY <1>1, <1>2, <1>4
    <2>2. /\ list' = list \ {x} /\ len' = len - 1 /\ ring' = Unlinked(ring, x) /\ value' = value
          /\ m' = [m EXCEPT ![k] = Nil]
        BY <2>1, <1>4 DEF Map!Removal, Map!List!RemoveElement, Map!List!Unlinked, Unlinked,
                          Map!List!Bypassed, Bypassed
    <2>3. PICK i \in 1..len : x = c[i]
        BY <2>1, <1>1, LenProperties DEF ToSet, Lists
    <2> DEFINE d == RemoveAt(c, i)
    <2>4. Lists(ring', d) /\ ToSet(d) = list' /\ Len(d) = len'
        <3> HIDE DEF c, x
        <3>1. i \in 1..Len(c) /\ c \in Seq(Element)
            BY <1>1 DEF Lists
        <3>2. Lists(Unlinked(ring, c[i]), d)
            BY <1>1, <3>1, UnlinkedList
        <3>3. ToSet(d) = ToSet(c) \ {c[i]}
            BY <1>1, <3>1, BypassedList
        <3>4. Len(d) = Len(c) - 1
            BY <3>1, RemovedNodes
        <3> QED BY <3>2, <3>3, <3>4, <1>1, <2>2, <2>3
    <2> HIDE DEF x
    <2>5. m'[k] = Nil /\ \A j \in Key : j # k => m'[j] = m[j] /\ m[j] # x
        BY <1>2, <1>4, <2>1, <2>2 DEF x
    <2>6. m' \in [Key -> Element \cup {Nil}]
        BY <1>2, <2>2
    <2>7. list' = {m'[j] : j \in Key} \ {Nil}
        BY <1>2, <2>2, <2>5 DEF x
    <2>8. \A j \in Key : m'[j] # Nil => value'[m'[j]].key = j
        BY <1>2, <2>2, <2>5
    <2>9. /\ Map!IndexMatches' /\ Map!List!OneRing' /\ Map!Contents' = d
          /\ ring' \in Map!Rings /\ list' \subseteq Element /\ len' \in Nat
        <3>1. value' \in [Element -> Map!Values]
            BY <1>2, <2>2
        <3> HIDE DEF d
        <3> QED BY <3>1, <2>4, <2>6, <2>7, <2>8, MapReshaped
    <2>10. Contents' = d
        BY <2>4, Reshaped
    <2>11. Order' = RemoveAt(Order, i)
        <3>1. /\ Order \in Seq(Map!Values) /\ Len(Order) = len
              /\ \A j \in 1..len : Order[j] = value[c[j]]
            BY KeysDiffer
        <3> DEFINE o == RemoveAt(Order, i)
        <3>2. /\ d \in Seq(Element) /\ Len(d) = len - 1
              /\ \A j \in 1..len - 1 : d[j] = IF j < i THEN c[j] ELSE c[j + 1]
            <4>1. c \in Seq(Element) /\ i \in 1..Len(c)
                BY <1>1 DEF Lists
            <4> HIDE DEF c
            <4>2. /\ d \in Seq(Element) /\ Len(d) = Len(c) - 1
                  /\ \A j \in 1..Len(c) - 1 : d[j] = IF j < i THEN c[j] ELSE c[j + 1]
                BY <4>1, RemoveAtIs, SMTT(60)
            <4> HIDE DEF d
            <4> QED BY <4>2, <1>1
        <3>3. /\ o \in Seq(Map!Values) /\ Len(o) = len - 1
              /\ \A j \in 1..len - 1 : o[j] = IF j < i THEN Order[j] ELSE Order[j + 1]
            <4>1. i \in 1..Len(Order)
                BY <3>1
            <4>2. Order \in Seq(Map!Values)
                BY <3>1
            <4> HIDE DEF c, d, o
            <4>3. /\ RemoveAt(Order, i) \in Seq(Map!Values) /\ Len(RemoveAt(Order, i)) = Len(Order) - 1
                  /\ \A j \in 1..Len(Order) - 1 :
                        RemoveAt(Order, i)[j] = IF j < i THEN Order[j] ELSE Order[j + 1]
                BY <4>1, <4>2, RemovedValues, Zenon
            <4>4. RemoveAt(Order, i) = o
                BY DEF o
            <4> QED BY <4>3, <4>4, <3>1
        <3> HIDE DEF c, d, o
        <3>4. \A j \in 1..len - 1 : j \in 1..len /\ j + 1 \in 1..len
            BY <1>1
        <3>5. \A j \in 1..len - 1 : value[d[j]] = o[j]
            BY <3>1, <3>2, <3>3, <3>4
        <3>6. Order' = [j \in 1..len - 1 |-> value[d[j]]]
            BY <2>2, <2>10 DEF Order
        <3>7. o = [j \in 1..len - 1 |-> o[j]]
            BY <3>3, LenProperties
        <3>8. Order' = o
            BY <3>5, <3>6, <3>7
        <3> QED BY <3>8 DEF o
    <2>12. Order' = Deleted(Order, k)
        <3>1. /\ i \in 1..Len(Order) /\ Order[i].key = k
              /\ \A j \in 1..Len(Order) : Order[j].key = Order[i].key => j = i
            BY <2>1, <2>3, KeysDiffer
        <3> QED BY <3>1, <2>11, RemoveMatchIs
    <2> QED BY <1>4, <2>2, <2>6, <2>9, <2>12 DEF x
<1> QED BY <1>3, <1>4

(* A removal is a deletion of the abstract map, or nothing. *)
LEMMA RemovalIsDelete ==
    ASSUME Map!Invariant, NEW k \in Key, Map!Removal(k), UNCHANGED visited, loop # "read", loop' # "read"
    PROVE  [Map!KeyOrder!Next]_(Map!KeyOrder!vars)
<1>1. \/ Order' = Order
      \/ m[k] # Nil /\ Order' = Deleted(Order, k)
    BY MapRemoves
<1>2. Map!Contents = Contents /\ Map!Contents' = Contents'
    BY DEF Map!Contents, Contents, Map!Walk, Walk
<1>3. /\ Order = [n \in 1..len |-> value[Map!Contents[n]]]
      /\ Order' = [n \in 1..len' |-> value'[Map!Contents'[n]]]
    BY <1>2 DEF Order
<1>4. (loop = "read") = FALSE /\ (loop' = "read") = FALSE
    OBVIOUS
<1>5. CASE Order' = Order
    BY <1>3, <1>4, <1>5 DEF Map!KeyOrder!vars
<1>6. CASE m[k] # Nil /\ Order' = Deleted(Order, k)
    <2>1. Map!KeyOrder!Delete(k)
        BY <1>3, <1>4, <1>6 DEF Map!KeyOrder!Delete, Deleted, Map!KeyOrder!RemoveFirstMatch, Map!KeyOrder!SelectInSeq
    <2>2. value[m[k]] \in Map!Values /\ value[m[k]].key = k
        BY <1>6, KeysDiffer
    <2>3. \E v \in Map!KeyOrder!Values : v.key = k
        BY <2>2 DEF Map!Values, Map!KeyOrder!Values
    <2> QED BY <1>4, <2>1, <2>3 DEF Map!KeyOrder!Next
<1> QED BY <1>1, <1>5, <1>6

(* SortByKey(): elements that are moved to the back one after the other. *)
MovesAll(f, r, N, h, s) ==
    f = [n \in 0..N |-> IF n = 0 THEN r ELSE Map!MovedToBack(f[n - 1], h[s[n]])]

LEMMA MovesExist ==
    ASSUME NEW r, NEW N \in Nat, NEW h, NEW s
    PROVE  \E f : MovesAll(f, r, N, h, s)
<1> DEFINE F(f, j) == [n \in 0..j |-> IF n = 0 THEN r ELSE Map!MovedToBack(f[n - 1], h[s[n]])]
           P == {j \in 0..N : \E f : f = F(f, j)}
<1>1. 0 \in P
    <2> DEFINE f == [n \in 0..0 |-> r]
    <2>1. f = F(f, 0)
        OBVIOUS
    <2> HIDE DEF f, F
    <2>2. \E g : g = F(g, 0)
        BY <2>1
    <2> QED BY <2>2
<1>2. ASSUME NEW j \in 1..N, j - 1 \in P PROVE j \in P
    <2>1. PICK f : f = F(f, j - 1)
        BY <1>2
    <2> DEFINE g == [n \in 0..j |-> IF n = 0 THEN r ELSE Map!MovedToBack(f[n - 1], h[s[n]])]
    <2>2. \A n \in 0..j - 1 : g[n] = f[n]
        <3>1. \A n \in 0..j - 1 :
                 f[n] = IF n = 0 THEN r ELSE Map!MovedToBack(f[n - 1], h[s[n]])
            BY <2>1
        <3> QED BY <3>1
    <2>3. g = F(g, j)
        <3>1. \A n \in 1..j : n - 1 \in 0..j - 1
            OBVIOUS
        <3>2. \A n \in 0..j : n = 0 \/ n \in 1..j
            OBVIOUS
        <3>3. \A n \in 0..j : (IF n = 0 THEN r ELSE Map!MovedToBack(f[n - 1], h[s[n]]))
                                 = IF n = 0 THEN r ELSE Map!MovedToBack(g[n - 1], h[s[n]])
            BY <3>1, <3>2, <2>2
        <3> QED BY <3>3
    <2> HIDE DEF g, F
    <2>4. \E f1 : f1 = F(f1, j)
        BY <2>3
    <2> QED BY <2>4
<1>3. N \in P
    <2> HIDE DEF P
    <2>1. \A j \in 0..N : j \in P
        BY <1>1, <1>2, Induction
    <2> QED BY <2>1
<1> QED BY <1>3 DEF MovesAll

LEMMA MovesToBack ==
    ASSUME NEW r, NEW c, NEW N \in Nat, NEW h, NEW s, NEW moved,
           Lists(r, c), \A n \in 1..N : h[s[n]] \in ToSet(c), MovesAll(moved, r, N, h, s)
    PROVE  \E t : Lists(moved[N], t) /\ ToSet(t) = ToSet(c) /\ Len(t) = Len(c)
<1>1. /\ moved[0] = r
      /\ \A n \in 1..N : moved[n] = Map!MovedToBack(moved[n - 1], h[s[n]])
    <2>1. \A n \in 0..N : moved[n] = IF n = 0 THEN r ELSE Map!MovedToBack(moved[n - 1], h[s[n]])
        BY DEF MovesAll
    <2> QED BY <2>1
<1> DEFINE Q == {j \in 0..N : \E t : Lists(moved[j], t) /\ ToSet(t) = ToSet(c) /\ Len(t) = Len(c)}
<1>2. 0 \in Q
    <2>1. Lists(moved[0], c)
        BY <1>1
    <2> QED BY <2>1
<1>3. ASSUME NEW j \in 1..N, j - 1 \in Q PROVE j \in Q
    <2>1. PICK t : Lists(moved[j - 1], t) /\ ToSet(t) = ToSet(c) /\ Len(t) = Len(c)
        BY <1>3
    <2> DEFINE q == moved[j - 1]
               x == h[s[j]]
    <2>2. Lists(q, t) /\ x \in ToSet(t)
        BY <2>1
    <2>3. Map!MovedToBack(q, x) = MovedToBack(q, x)
        BY DEF Map!MovedToBack, MovedToBack, Map!Moved, Moved, Map!Linked, Linked, Map!Bypassed, Bypassed
    <2>4. moved[j] = Map!MovedToBack(q, x)
        BY <1>1
    <2> HIDE DEF q, x
    <2>5. PICK u : Lists(MovedToBack(q, x), u) /\ ToSet(u) = ToSet(t) /\ Len(u) = Len(t)
        BY <2>2, MovedToBackList
    <2>6. Lists(moved[j], u) /\ ToSet(u) = ToSet(c) /\ Len(u) = Len(c)
        BY <2>1, <2>3, <2>4, <2>5
    <2>7. j \in 0..N
        OBVIOUS
    <2> QED BY <2>6, <2>7
<1>4. N \in Q
    <2> HIDE DEF Q
    <2>1. \A j \in 0..N : j \in Q
        BY <1>2, <1>3, Induction
    <2> QED BY <2>1
<1> QED BY <1>4

(* The keys of the map are as many as the elements. *)
LEMMA KeysAreFinite ==
    ASSUME Map!Invariant
    PROVE  Cardinality({k \in Key : m[k] # Nil}) \in Nat
<1> DEFINE S == {k \in Key : m[k] # Nil}
           f == [x \in list |-> value[x].key]
<1>1. IsFiniteSet(list) /\ list \in SUBSET Element
    BY MapIsWhole, Shape
<1>2. /\ \A x \in list : value[x].key \in Key /\ m[value[x].key] = x
      /\ \A k \in Key : m[k] # Nil => m[k] \in list /\ value[m[k]].key = k
    BY KeysDiffer
<1>3. f \in [list -> S]
    BY <1>1, <1>2, RingAssumption
<1>4. \A k \in S : \E x \in list : f[x] = k
    BY <1>2
<1>5. f \in Surjection(list, S)
    BY <1>3, <1>4 DEF Surjection
<1> HIDE DEF f, S
<1>6. IsFiniteSet(S)
    BY <1>1, <1>5, FS_Surjection
<1>7. Cardinality(S) \in Nat
    BY <1>6, FS_CardinalityType
<1> QED BY <1>7 DEF S

LEMMA MapSorts ==
    ASSUME Map!Invariant, Map!SortByKey
    PROVE  /\ Map!Invariant'
           /\ Map!KeyOrder!Sort
<1> DEFINE c == Contents
           K == {k \in Key : m[k] # Nil}
<1>1. /\ Whole /\ Lists(ring, c) /\ Len(c) = len /\ ToSet(c) = list /\ len \in Nat
      /\ Map!Contents = c /\ list \in SUBSET Element
      /\ \A j \in 1..len : c[j] \in list
    BY MapIsWhole, Shape
<1>2. /\ value \in [Element -> Map!Values] /\ m \in [Key -> Element \cup {Nil}]
      /\ list = {m[j] : j \in Key} \ {Nil}
      /\ \A j \in Key : m[j] # Nil => value[m[j]].key = j
      /\ visited \in Seq(Map!Values) /\ cursor \in Element \cup {Nil}
    BY MapIsWhole DEF Map!TypeOK, Map!IndexMatches
<1>3. loop = "idle" /\ UNCHANGED <<list, len, value, m, loop, cursor, visited>>
    BY DEF Map!SortByKey
<1>4. \E t : Lists(ring', t) /\ ToSet(t) = list /\ Len(t) = len
    <2>1. PICK s \in Map!SetToSeqs(K) :
              LET moved[n \in 0..Len(s)] ==
                    IF n = 0 THEN ring ELSE Map!MovedToBack(moved[n - 1], m[s[n]])
              IN  ring' = moved[Len(s)]
        BY DEF Map!SortByKey
    <2> DEFINE moved == CHOOSE f : f = [n \in 0..Len(s) |->
                  IF n = 0 THEN ring ELSE Map!MovedToBack(f[n - 1], m[s[n]])]
    <2>2. ring' = moved[Len(s)]
        BY <2>1
    <2>3. Cardinality(K) \in Nat
        BY KeysAreFinite
    <2>4. s \in [1..Cardinality(K) -> K]
        <3>1. s \in SetToSeqs(K)
            BY SameOperators
        <3> HIDE DEF K
        <3> QED BY <3>1 DEF SetToSeqs
    <2> HIDE DEF K, c
    <2>5. Len(s) \in Nat /\ \A n \in 1..Len(s) : s[n] \in K
        BY <2>3, <2>4
    <2>6. \A n \in 1..Len(s) : m[s[n]] \in ToSet(c)
        BY <2>5, <1>1, KeysDiffer DEF K
    <2>7. \E t : Lists(moved[Len(s)], t) /\ ToSet(t) = ToSet(c) /\ Len(t) = Len(c)
        <3> DEFINE N == Len(s)
        <3>1. N \in Nat /\ \A n \in 1..N : m[s[n]] \in ToSet(c)
            BY <2>5, <2>6
        <3>2. \E f : MovesAll(f, ring, N, m, s)
            <4> HIDE DEF N
            <4> QED BY <3>1, MovesExist
        <3>3. MovesAll(moved, ring, N, m, s)
            BY <3>2 DEF MovesAll
        <3> HIDE DEF N, moved
        <3>4. Lists(ring, c)
            BY <1>1
        <3>5. \E t : Lists(moved[N], t) /\ ToSet(t) = ToSet(c) /\ Len(t) = Len(c)
            BY <3>1, <3>3, <3>4, MovesToBack
        <3> QED BY <3>5 DEF N
    <2> QED BY <2>2, <2>7, <1>1
<1>5. PICK t : Lists(ring', t) /\ ToSet(t) = list /\ Len(t) = len
    BY <1>4
<1> HIDE DEF c, K
<1>6. /\ Map!IndexMatches' /\ Map!List!OneRing'
      /\ ring' \in Map!Rings /\ list' \subseteq Element /\ len' \in Nat
    <2>1. /\ Lists(ring', t) /\ ToSet(t) = list' /\ Len(t) = len'
          /\ value' \in [Element -> Map!Values] /\ m' \in [Key -> Element \cup {Nil}]
          /\ list' = {m'[k] : k \in Key} \ {Nil}
          /\ \A k \in Key : m'[k] # Nil => value'[m'[k]].key = k
        BY <1>2, <1>3, <1>5
    <2> QED BY <2>1, MapReshaped
<1>7. Map!LoopFollows' /\ Map!TypeOK'
    BY <1>2, <1>3, <1>6, MapIsWhole DEF Map!LoopFollows, Map!TypeOK
<1>8. Contents' = t
    BY <1>3, <1>5, Reshaped
<1>9. /\ \A n \in 1..len : t[n] \in list
      /\ \A i, j \in 1..len : t[i] = t[j] => i = j
      /\ \A x \in list : \E n \in 1..len : c[n] = x
    <2>1. \A n \in 1..len : t[n] \in list
        BY <1>5, NodesDiffer
    <2>2. \A x \in ToSet(c) : \E n \in 1..len : c[n] = x
        BY <1>1, LenProperties DEF ToSet, Lists
    <2> QED BY <2>1, <2>2, <1>1, <1>5 DEF Lists
<1>10. /\ Order \in Seq(Map!Values) /\ Len(Order) = len
       /\ \A n \in 1..len : Order[n] = value[c[n]]
       /\ \A i, j \in 1..len : Order[i] = Order[j] => i = j
    BY KeysDiffer DEF c
<1>11. Cardinality(ToSet(Order)) = len
    BY <1>10, DistinctIsFinite
<1>12. \A x \in list : value[x] \in ToSet(Order)
    <2>1. \A n \in 1..len : Order[n] \in ToSet(Order)
        BY <1>10, LenProperties DEF ToSet
    <2> QED BY <2>1, <1>9, <1>10
<1>13. Order' = [n \in 1..len |-> value[t[n]]]
    BY <1>3, <1>8 DEF Order
<1>14. Order' \in SetToSeqs(ToSet(Order))
    <2>1. \A n \in 1..len : value[t[n]] \in ToSet(Order)
        BY <1>9, <1>12
    <2>2. \A i, j \in 1..len : i # j => value[t[i]] # value[t[j]]
        BY <1>9, KeysDiffer
    <2> DEFINE T == ToSet(Order)
               o == Order'
    <2>3. o \in [1..len -> T] /\ \A i, j \in 1..len : i # j => o[i] # o[j]
        <3> HIDE DEF T
        <3>1. \A n \in 1..len : value[t[n]] \in T
            BY <2>1 DEF T
        <3> QED BY <3>1, <2>2, <1>13
    <2>4. Cardinality(T) = len
        BY <1>11
    <2> HIDE DEF T, o
    <2>5. o \in SetToSeqs(T)
        BY <2>3, <2>4 DEF SetToSeqs
    <2> QED BY <2>5 DEF T, o
<1>15. Map!KeyOrder!Sort
    <2>1. Map!Contents' = Contents'
        BY DEF Map!Contents, Contents, Map!Walk, Walk
    <2>2. /\ Order = [n \in 1..len |-> value[Map!Contents[n]]]
          /\ Order' = [n \in 1..len' |-> value'[Map!Contents'[n]]]
        BY <2>1, <1>1 DEF Order, c
    <2>3. Order' \in Map!KeyOrder!SetToSeqs(Map!KeyOrder!ToSet(Order))
        BY <1>14, SameOperators
    <2>4. Map!KeyOrder!Sort <=>
             /\ Order' \in Map!KeyOrder!SetToSeqs(Map!KeyOrder!ToSet(Order))
             /\ UNCHANGED <<loop = "read", visited>>
        BY <2>2 DEF Map!KeyOrder!Sort
    <2> QED BY <2>3, <2>4, <1>3
<1> QED BY <1>6, <1>7, <1>15 DEF Map!Invariant

(* What a step that leaves list and map alone leaves alone. *)
LEMMA MapUnchanged ==
    ASSUME Map!Invariant, UNCHANGED <<ring, list, len, value, m>>
    PROVE  /\ Map!IndexMatches' /\ Map!List!OneRing' /\ Order' = Order
           /\ ring' \in Map!Rings /\ list' \subseteq Element /\ len' \in Nat
           /\ value' \in [Element -> Map!Values] /\ m' \in [Key -> Element \cup {Nil}]
<1>1. Map!IndexMatches /\ Map!List!OneRing /\ Map!TypeOK
    BY DEF Map!Invariant
<1>2. Map!IndexMatches' /\ Map!List!OneRing' /\ Order' = Order
    BY <1>1 DEF Map!IndexMatches, Map!List!OneRing, Map!List!Contents, Order, Contents
<1> QED BY <1>1, <1>2 DEF Map!TypeOK

(* The abstract map's order, before and after a step. *)
LEMMA OrderIs ==
    /\ Order = [n \in 1..len |-> value[Map!Contents[n]]]
    /\ Order' = [n \in 1..len' |-> value'[Map!Contents'[n]]]
BY DEF Order, Map!Contents, Contents, Map!Walk, Walk

LEMMA MapBeginsLoop ==
    ASSUME Map!Invariant, NEW kind \in {"read", "stop"}, Map!BeginLoop(kind)
    PROVE  /\ Map!Invariant'
           /\ [Map!KeyOrder!Next]_(Map!KeyOrder!vars)
<1> DEFINE c == Contents
<1>1. /\ loop = "idle" /\ loop' = kind /\ cursor' = Map!List!FrontElement
      /\ UNCHANGED <<ring, list, len, value, m, visited>>
    BY DEF Map!BeginLoop
<1>2. /\ Lists(ring, c) /\ Len(c) = len /\ ToSet(c) = list /\ len \in Nat
      /\ list \in SUBSET Element /\ \A j \in 1..len : c[j] \in list
    BY MapIsWhole, Shape
<1>3. visited = <<>> /\ visited \in Seq(Map!Values)
    BY <1>1, MapIsWhole DEF Map!LoopFollows, Map!TypeOK
<1>4. cursor' = IF len = 0 THEN Nil ELSE c[1]
    <2>1. ring.next[Root] = Node(c, 1)
        BY MapIsWhole, Places
    <2>2. len # 0 => Node(c, 1) = c[1]
        BY <1>2, NodesDiffer
    <2> QED BY <2>1, <2>2, <1>1 DEF Map!List!FrontElement
<1>5. cursor' \in list \cup {Nil} /\ cursor' \in Element \cup {Nil}
    BY <1>2, <1>4
<1>6. Map!Contents' = c
    BY <1>1, MapIsWhole DEF Map!Contents
<1>7. Map!LoopFollows'
    <2>1. Len(visited') = 0 /\ 0 + 1 = 1 /\ visited' = <<>>
        BY <1>1, <1>3
    <2>2. kind = "read" =>
              /\ Len(visited') <= len'
              /\ \A n \in 1..Len(visited') : visited'[n] = value'[Map!Contents'[n]]
              /\ cursor' = IF Len(visited') = len' THEN Nil ELSE Map!Contents'[Len(visited') + 1]
        BY <2>1, <1>1, <1>2, <1>4, <1>6
    <2> HIDE DEF c
    <2> QED BY <2>1, <2>2, <1>1, <1>5 DEF Map!LoopFollows
<1>8. Map!TypeOK'
    BY <1>1, <1>3, <1>5, MapUnchanged DEF Map!TypeOK
<1>9. Map!Invariant'
    BY <1>1, <1>7, <1>8, MapUnchanged DEF Map!Invariant
<1>10. Order' = Order
    BY <1>1, MapUnchanged
<1>11. [Map!KeyOrder!Next]_(Map!KeyOrder!vars)
    <2>1. CASE kind = "read"
        <3>1. (loop = "read") = FALSE /\ (loop' = "read") = TRUE
            BY <2>1, <1>1
        <3>2. Map!KeyOrder!BeginRead
            BY <3>1, <1>1, <1>10, OrderIs DEF Map!KeyOrder!BeginRead
        <3> QED BY <3>1, <3>2 DEF Map!KeyOrder!Next
    <2>2. CASE kind = "stop"
        <3>1. (loop = "read") = FALSE /\ (loop' = "read") = FALSE
            BY <2>2, <1>1
        <3> QED BY <3>1, <1>1, <1>10, OrderIs DEF Map!KeyOrder!vars
    <2> QED BY <2>1, <2>2
<1> QED BY <1>9, <1>11

LEMMA MapVisits ==
    ASSUME Map!Invariant, Map!Visit
    PROVE  /\ Map!Invariant'
           /\ [Map!KeyOrder!Next]_(Map!KeyOrder!vars)
<1> DEFINE c == Contents
           n == Len(visited)
<1>1. /\ loop = "read" /\ cursor # Nil /\ visited' = Append(visited, value[cursor])
      /\ cursor' = Map!List!NextOf(ring, list, cursor)
      /\ UNCHANGED <<ring, list, len, value, m, loop>>
    BY DEF Map!Visit
<1>2. /\ Lists(ring, c) /\ Len(c) = len /\ ToSet(c) = list /\ len \in Nat
      /\ list \in SUBSET Element /\ \A j \in 1..len : c[j] \in list
      /\ Map!Contents = c
    BY MapIsWhole, Shape
<1>3. /\ visited \in Seq(Map!Values) /\ n \in Nat /\ n <= len
      /\ \A j \in 1..n : visited[j] = value[c[j]]
      /\ cursor = IF n = len THEN Nil ELSE c[n + 1]
    BY <1>1, <1>2, MapIsWhole, LenProperties DEF Map!LoopFollows, Map!TypeOK
<1>4. n + 1 \in 1..len /\ cursor = c[n + 1]
    BY <1>1, <1>2, <1>3
<1>5. value[cursor] \in Map!Values
    BY <1>2, <1>4, KeysDiffer
<1>6. /\ visited' \in Seq(Map!Values) /\ Len(visited') = n + 1 /\ visited'[n + 1] = value[cursor]
      /\ \A j \in 1..n : visited'[j] = visited[j]
    BY <1>1, <1>3, <1>5, AppendProperties
<1>7. cursor' = IF n + 1 = len THEN Nil ELSE c[n + 1 + 1]
    <2> DEFINE i == n + 1
    <2>1. i \in 1..Len(c) /\ c[i] = cursor
        BY <1>2, <1>4
    <2> HIDE DEF i, c
    <2>2. /\ i # Len(c) => NextOf(ring, ToSet(c), c[i]) = c[i + 1]
          /\ i = Len(c) => NextOf(ring, ToSet(c), c[i]) = Nil
        BY <2>1, <1>2, Neighbours
    <2>3. cursor' = NextOf(ring, ToSet(c), c[i])
        BY <2>1, <1>1, <1>2 DEF Map!List!NextOf, NextOf
    <2> QED BY <2>2, <2>3, <1>2 DEF i
<1>8. cursor' \in Element \cup {Nil}
    <2>1. n + 1 # len => n + 1 + 1 \in 1..len
        BY <1>2, <1>4
    <2> QED BY <2>1, <1>2, <1>7
<1> HIDE DEF c
<1>9. Map!LoopFollows'
    <2>1. Map!Contents' = c
        BY <1>1, <1>2 DEF Map!Contents
    <2>2. \A j \in 1..n + 1 : visited'[j] = value[c[j]]
        <3> TAKE j \in 1..n + 1
        <3>1. j = n + 1 \/ j \in 1..n
            BY <1>3
        <3> QED BY <3>1, <1>3, <1>4, <1>6
    <2>3. n + 1 <= len
        BY <1>4
    <2>4. /\ Len(visited') <= len'
          /\ \A j \in 1..Len(visited') : visited'[j] = value'[Map!Contents'[j]]
          /\ cursor' = IF Len(visited') = len' THEN Nil ELSE Map!Contents'[Len(visited') + 1]
        BY <2>1, <2>2, <2>3, <1>1, <1>6, <1>7
    <2>5. loop' = "read"
        BY <1>1
    <2> QED BY <2>4, <2>5 DEF Map!LoopFollows
<1>10. Map!TypeOK'
    BY <1>1, <1>6, <1>8, MapUnchanged DEF Map!TypeOK
<1>11. Map!Invariant'
    BY <1>1, <1>9, <1>10, MapUnchanged DEF Map!Invariant
<1>12. Map!KeyOrder!Read
    <2>1. Order' = Order /\ Len(Order) = len /\ Order[n + 1] = value[c[n + 1]]
        BY <1>1, <1>4, MapUnchanged, KeysDiffer DEF c
    <2>2. n < len
        BY <1>2, <1>4
    <2>3. /\ Len(visited) < Len(Order) /\ visited' = Append(visited, Order[Len(visited) + 1])
        BY <2>1, <2>2, <1>1, <1>4
    <2>4. Map!KeyOrder!Read <=>
              /\ Len(visited) < Len(Order)
              /\ visited' = Append(visited, Order[Len(visited) + 1])
              /\ Order' = Order /\ (loop' = "read") = (loop = "read")
        BY OrderIs DEF Map!KeyOrder!Read
    <2> QED BY <2>1, <2>3, <2>4, <1>1
<1>13. (loop = "read") = TRUE
    BY <1>1
<1> QED BY <1>11, <1>12, <1>13 DEF Map!KeyOrder!Next

LEMMA MapVisitsAndRemoves ==
    ASSUME Map!Invariant, Map!VisitAndRemove
    PROVE  /\ Map!Invariant'
           /\ [Map!KeyOrder!Next]_(Map!KeyOrder!vars)
<1> DEFINE k == value[cursor].key
<1>1. /\ loop = "stop" /\ cursor # Nil /\ Map!Removal(k)
      /\ cursor' = Map!List!NextOf(ring', list', cursor)
      /\ UNCHANGED <<loop, visited>>
    BY DEF Map!VisitAndRemove
<1>2. cursor \in list /\ visited = <<>> /\ visited \in Seq(Map!Values)
    BY <1>1, MapIsWhole DEF Map!LoopFollows, Map!TypeOK
<1>3. k \in Key /\ m[k] = cursor
    BY <1>2, KeysDiffer
<1> HIDE DEF k
<1>4. /\ Map!IndexMatches' /\ Map!List!OneRing'
      /\ ring' \in Map!Rings /\ list' \subseteq Element /\ len' \in Nat
      /\ value' = value /\ m' \in [Key -> Element \cup {Nil}]
      /\ list' = list \ {m[k]}
    BY <1>1, <1>3, MapRemoves
<1>5. cursor' = Nil
    BY <1>1, <1>3, <1>4 DEF Map!List!NextOf
<1>6. Map!LoopFollows'
    BY <1>1, <1>2, <1>5 DEF Map!LoopFollows
<1>7. Map!TypeOK'
    BY <1>1, <1>2, <1>4, <1>5, MapIsWhole DEF Map!TypeOK
<1>8. Map!Invariant'
    BY <1>4, <1>6, <1>7 DEF Map!Invariant
<1>9. [Map!KeyOrder!Next]_(Map!KeyOrder!vars)
    BY <1>1, <1>3, RemovalIsDelete
<1> QED BY <1>8, <1>9

LEMMA MapDequeues ==
    ASSUME Map!Invariant, NEW k \in Key, Map!Dequeue(k)
    PROVE  /\ Map!Invariant'
           /\ [Map!KeyOrder!Next]_(Map!KeyOrder!vars)
<1>1. loop = "idle" /\ Map!Removal(k) /\ UNCHANGED <<loop, cursor, visited>>
    BY DEF Map!Dequeue
<1>2. /\ Map!IndexMatches' /\ Map!List!OneRing'
      /\ ring' \in Map!Rings /\ list' \subseteq Element /\ len' \in Nat
      /\ value' = value /\ m' \in [Key -> Element \cup {Nil}]
    BY <1>1, MapRemoves
<1>3. Map!LoopFollows' /\ Map!TypeOK'
    BY <1>1, <1>2, MapIsWhole DEF Map!LoopFollows, Map!TypeOK
<1>4. Map!Invariant'
    BY <1>2, <1>3 DEF Map!Invariant
<1>5. [Map!KeyOrder!Next]_(Map!KeyOrder!vars)
    BY <1>1, RemovalIsDelete
<1> QED BY <1>4, <1>5

LEMMA MapEndsLoop ==
    ASSUME Map!Invariant, Map!EndLoop
    PROVE  /\ Map!Invariant'
           /\ [Map!KeyOrder!Next]_(Map!KeyOrder!vars)
<1> DEFINE c == Contents
<1>1. /\ loop \in {"read", "stop"} /\ cursor = Nil /\ loop' = "idle" /\ visited' = <<>>
      /\ UNCHANGED <<ring, list, len, value, m, cursor>>
    BY MapIsWhole DEF Map!EndLoop, Map!TypeOK
<1>2. Map!LoopFollows' /\ Map!TypeOK'
    <2>1. visited' \in Seq(Map!Values) /\ cursor' \in Element \cup {Nil} /\ cursor' = Nil
        BY <1>1
    <2>2. Map!TypeOK'
        BY <2>1, <1>1, MapUnchanged DEF Map!TypeOK
    <2> QED BY <2>1, <2>2, <1>1 DEF Map!LoopFollows
<1>3. Map!Invariant'
    BY <1>1, <1>2, MapUnchanged DEF Map!Invariant
<1>4. Order' = Order
    BY <1>1, MapUnchanged
<1>5. CASE loop = "stop"
    <2>1. visited = <<>>
        BY <1>5, MapIsWhole DEF Map!LoopFollows
    <2>2. (loop = "read") = FALSE /\ (loop' = "read") = FALSE
        BY <1>1, <1>5
    <2> QED BY <2>1, <2>2, <1>1, <1>3, <1>4, OrderIs DEF Map!KeyOrder!vars
<1>6. CASE loop = "read"
    <2>1. /\ visited \in Seq(Map!Values) /\ Len(visited) <= len
          /\ \A j \in 1..Len(visited) : visited[j] = value[c[j]]
          /\ cursor = IF Len(visited) = len THEN Nil ELSE c[Len(visited) + 1]
        BY <1>6, MapIsWhole DEF Map!LoopFollows, Map!TypeOK
    <2>2. /\ len \in Nat /\ list \in SUBSET Element /\ \A j \in 1..len : c[j] \in list
        BY MapIsWhole, Shape
    <2>3. Len(visited) = len
        <3>1. Len(visited) \in Nat
            BY <2>1, LenProperties
        <3>2. SUFFICES ASSUME Len(visited) # len PROVE FALSE
            OBVIOUS
        <3>3. Len(visited) + 1 \in 1..len
            BY <3>1, <3>2, <2>1, <2>2
        <3>4. c[Len(visited) + 1] = Nil
            BY <3>2, <2>1, <1>1
        <3> QED BY <3>3, <3>4, <2>2, RingAssumption
    <2>4. /\ Order \in Seq(Map!Values) /\ Len(Order) = len
          /\ \A j \in 1..len : Order[j] = value[c[j]]
        BY KeysDiffer
    <2>5. visited = Order
        <3> HIDE DEF c
        <3> QED BY <2>1, <2>3, <2>4, SeqEqual
    <2>6. (loop = "read") = TRUE /\ (loop' = "read") = FALSE
        BY <1>1, <1>6
    <2>7. Map!KeyOrder!EndRead
        BY <2>5, <2>6, <1>1, <1>4, OrderIs DEF Map!KeyOrder!EndRead
    <2> QED BY <2>6, <2>7, <1>3 DEF Map!KeyOrder!Next
<1> QED BY <1>1, <1>5, <1>6

LEMMA MapSteps ==
    ASSUME Map!Invariant, Map!Next
    PROVE  /\ Map!Invariant'
           /\ [Map!KeyOrder!Next]_(Map!KeyOrder!vars)
<1>1. ASSUME NEW k \in Key, NEW r \in Rank, Map!InsertIfNotExist(k, r)
      PROVE  Map!Invariant' /\ [Map!KeyOrder!Next]_(Map!KeyOrder!vars)
    <2>1. Map!Invariant' /\ Map!KeyOrder!Insert([key |-> k, rank |-> r])
        BY <1>1, MapInserts
    <2>2. [key |-> k, rank |-> r] \in Map!KeyOrder!Values
        BY DEF Map!KeyOrder!Values
    <2>3. (loop = "read") = FALSE
        BY <1>1 DEF Map!InsertIfNotExist
    <2> QED BY <2>1, <2>2, <2>3 DEF Map!KeyOrder!Next
<1>2. ASSUME NEW k \in Key, Map!Dequeue(k)
      PROVE  Map!Invariant' /\ [Map!KeyOrder!Next]_(Map!KeyOrder!vars)
    BY <1>2, MapDequeues
<1>3. CASE Map!SortByKey
    <2>1. Map!Invariant' /\ Map!KeyOrder!Sort
        BY <1>3, MapSorts
    <2>2. (loop = "read") = FALSE
        BY <1>3 DEF Map!SortByKey
    <2> QED BY <2>1, <2>2 DEF Map!KeyOrder!Next
<1>4. ASSUME NEW kind \in {"read", "stop"}, Map!BeginLoop(kind)
      PROVE  Map!Invariant' /\ [Map!KeyOrder!Next]_(Map!KeyOrder!vars)
    BY <1>4, MapBeginsLoop
<1>5. CASE Map!Visit \/ Map!VisitAndRemove \/ Map!EndLoop
    BY <1>5, MapVisits, MapVisitsAndRemoves, MapEndsLoop
<1> QED BY <1>1, <1>2, <1>3, <1>4, <1>5 DEF Map!Next

LEMMA MapStarts ==
    ASSUME Map!Init
    PROVE  Map!Invariant /\ Map!KeyOrder!Init
<1>1. /\ ring = Map!EmptyRing /\ list = {} /\ len = 0
      /\ \E v \in Map!Values : value = [x \in Element |-> v]
      /\ m = [k \in Key |-> Nil]
      /\ loop = "idle" /\ cursor = Nil /\ visited = <<>>
    BY DEF Map!Init
<1>2. Lists(ring, <<>>) /\ ToSet(<<>>) = list /\ Len(<<>>) = len
    <2>1. ring = [next |-> [x \in Element \cup {Root} |-> IF x = Root THEN Root ELSE Nil],
                  prev |-> [x \in Element \cup {Root} |-> IF x = Root THEN Root ELSE Nil]]
        BY <1>1 DEF Map!EmptyRing
    <2>2. ring \in Rings /\ ring.next[Root] = Root /\ ring.prev[Root] = Root
        BY <2>1 DEF Rings, Pointer
    <2>3. \A k \in 0..0 : Node(<<>>, k) = Root /\ Node(<<>>, k + 1) = Root
        BY DEF Node
    <2>4. Lists(ring, <<>>)
        BY <2>2, <2>3 DEF Lists
    <2> QED BY <2>4, <1>1 DEF ToSet
<1>3. /\ IsRing(ring, list) /\ Walk(ring, len) = <<>>
      /\ len = Cardinality(list)
    <2> DEFINE e == <<>>
    <2>1. Lists(ring, e) /\ ToSet(e) = list /\ Len(e) = len
        BY <1>2
    <2> HIDE DEF e
    <2>2. IsRing(ring, ToSet(e)) /\ Walk(ring, Len(e)) = e /\ Cardinality(ToSet(e)) = Len(e)
        BY <2>1, ListIsRing, ListIsFinite
    <2> QED BY <2>1, <2>2 DEF e
<1>4. Map!Contents = <<>> /\ Map!List!Contents = <<>>
    BY <1>3 DEF Map!Contents, Map!List!Contents, Map!Walk, Walk, Map!List!Walk
<1>5. Map!IndexMatches
    <2>1. Map!IsRing(ring, list)
        BY <1>3 DEF Map!IsRing, IsRing, Map!Rings, Rings, Map!Pointer, Pointer
    <2>2. list = {m[k] : k \in Key} \ {Nil} /\ \A k \in Key : m[k] = Nil
        BY <1>1
    <2> QED BY <2>1, <2>2, <1>3, SameOperators DEF Map!IndexMatches
<1>6. Map!List!OneRing
    <2>1. ring.next[Root] = Root
        BY <1>1 DEF Map!EmptyRing
    <2>2. ToSet(<<>>) = {} /\ IsInjective(<<>>)
        BY DEF ToSet, IsInjective
    <2> QED BY <2>1, <2>2, <1>1, <1>4, SameOperators DEF Map!List!OneRing
<1>7. Map!TypeOK /\ Map!LoopFollows
    <2>1. ring \in Map!Rings
        BY <1>5 DEF Map!IndexMatches, Map!IsRing
    <2> QED BY <2>1, <1>1 DEF Map!TypeOK, Map!LoopFollows
<1>8. Map!KeyOrder!Init
    <2>1. [n \in 1..len |-> value[Map!Contents[n]]] = <<>>
        BY <1>1
    <2> QED BY <2>1, <1>1 DEF Map!KeyOrder!Init
<1> QED BY <1>5, <1>6, <1>7, <1>8 DEF Map!Invariant

-----------------------------------------------------------------------------
(* Theorems about the map *)

LEMMA MapPartStarts ==
    ASSUME OrderInit
    PROVE  part = "map" => Map!Invariant /\ Map!KeyOrder!Init
BY MapStarts DEF OrderInit

LEMMA MapPartSteps ==
    ASSUME part = "map" => Map!Invariant, [OrderNext]_allVars
    PROVE  /\ (part = "map" => Map!Invariant)'
           /\ part = "map" => [Map!KeyOrder!Next]_(Map!KeyOrder!vars)
<1>1. part' = part
    BY DEF OrderNext, allVars
<1>2. CASE part # "map"
    BY <1>1, <1>2
<1>3. CASE part = "map" /\ UNCHANGED allVars
    <2>1. Map!Invariant /\ UNCHANGED <<ring, list, len, value, m, loop, cursor, visited>>
        BY <1>3 DEF allVars, vars, mapVars
    <2>2. Map!IndexMatches' /\ Map!List!OneRing' /\ Order' = Order
        BY <2>1, MapUnchanged
    <2>3. Map!TypeOK' /\ Map!LoopFollows'
        <3>1. Map!TypeOK /\ Map!LoopFollows
            BY <2>1 DEF Map!Invariant
        <3>2. Map!Contents' = Map!Contents
            BY <2>1 DEF Map!Contents
        <3> QED BY <2>1, <3>1, <3>2 DEF Map!TypeOK, Map!LoopFollows
    <2>4. UNCHANGED Map!KeyOrder!vars
        BY <2>1, <2>2, OrderIs DEF Map!KeyOrder!vars
    <2> QED BY <2>2, <2>3, <2>4 DEF Map!Invariant
<1>4. CASE part = "map" /\ OrderNext
    <2>1. Map!Next
        BY <1>4 DEF OrderNext
    <2> QED BY <1>4, <2>1, MapSteps
<1> QED BY <1>2, <1>3, <1>4

(* Whatever is inserted, dequeued, sorted and looped over, also by a loop that     *)
(* dequeues what it visits: the ring of the map's list is one closed ring, the     *)
(* map knows its elements by the keys of their values, and a loop that only reads  *)
(* has been given the first values and stands on the next one                      *)
(* (orderedmap.go:25-132).                                                         *)
THEOREM MapStaysWhole == OrderSpec => [](part = "map" => Map!Invariant)
<1>1. OrderInit => (part = "map" => Map!Invariant)
    BY MapPartStarts
<1>2. (part = "map" => Map!Invariant) /\ [OrderNext]_allVars => (part = "map" => Map!Invariant)'
    BY MapPartSteps
<1> QED BY <1>1, <1>2, PTL DEF OrderSpec

(* The map's index and its list have the same elements (orderedmap.go:34-43,       *)
(* 73-81): no key is known to only one of them.                                    *)
THEOREM MapIndexMatches == OrderSpec => []IndexMatches
<1>1. (part = "map" => Map!Invariant) => IndexMatches
    BY DEF IndexMatches, Map!Invariant
<1> QED BY <1>1, MapStaysWhole, PTL

(* The map made of pointers and an index implements the order of keys that its     *)
(* comments promise (orderedmap.go:20-22, 31-33, 98-104): each of its steps is one *)
(* of that order's steps, or leaves the order alone.                               *)
THEOREM MapImplementsKeyOrder == OrderSpec => ImplementsKeyOrder
<1>1. OrderInit => (part = "map" => Map!KeyOrder!Init)
    BY MapPartStarts
<1>2. (part = "map" => Map!Invariant) /\ [OrderNext]_allVars
          => [part = "map" => [Map!KeyOrder!Next]_(Map!KeyOrder!vars)]_allVars
    BY MapPartSteps
<1>3. OrderSpec => [][part = "map" => [Map!KeyOrder!Next]_(Map!KeyOrder!vars)]_allVars
    BY <1>2, MapStaysWhole, PTL DEF OrderSpec
<1> QED BY <1>1, <1>3, PTL DEF OrderSpec, ImplementsKeyOrder

-----------------------------------------------------------------------------
(* The comparison of pull requests *)

(* The queue's operators on sequences are the list's. *)
LEMMA QueueOperators ==
    /\ \A S : Queue!Cardinality(S) = Cardinality(S)
    /\ \A s : Queue!ToSet(s) = ToSet(s)
    /\ \A s, i, x : Queue!InsertAt(s, i, x) = InsertAt(s, i, x)
    /\ \A s, x : Queue!RemoveFirst(s, x) = RemoveFirst(s, x)
    /\ \A S : Queue!SetToSeqs(S) = SetToSeqs(S)
<1>1. \A S : Queue!Cardinality(S) = Cardinality(S)
    BY DEF Queue!Cardinality, Cardinality
<1>2. \A s : Queue!ToSet(s) = ToSet(s)
    BY DEF Queue!ToSet, ToSet
<1>3. \A s, i, x : Queue!InsertAt(s, i, x) = InsertAt(s, i, x)
    BY DEF Queue!InsertAt, InsertAt
<1>4. \A s, x : Queue!RemoveFirst(s, x) = RemoveFirst(s, x)
    BY DEF Queue!RemoveFirst, RemoveFirst, Queue!RemoveAt, RemoveAt,
           Queue!SelectInSeq, SelectInSeq, Queue!Min, Min
<1>5. \A S : Queue!SetToSeqs(S) = SetToSeqs(S)
    BY <1>1 DEF Queue!SetToSeqs, SetToSeqs
<1> QED BY <1>1, <1>2, <1>3, <1>4, <1>5

LEMMA MaxIs ==
    ASSUME NEW n \in Nat, NEW T \in SUBSET (1..n), T # {}
    PROVE  Queue!Max(T) \in T /\ \A y \in T : Queue!Max(T) >= y
<1> DEFINE U == {n - x : x \in T}
<1>1. U \in SUBSET Nat /\ U # {}
    <2>1. \A x \in T : n - x \in Nat
        OBVIOUS
    <2>2. PICK x \in T : TRUE
        OBVIOUS
    <2>3. n - x \in U
        OBVIOUS
    <2> QED BY <2>1, <2>3
<1>2. PICK u \in U : \A v \in U : u <= v
    <2> HIDE DEF U
    <2> QED BY <1>1, Least
<1>3. n - u \in T /\ \A y \in T : n - u >= y
    <2>1. PICK x \in T : u = n - x
        BY <1>2
    <2>2. \A y \in T : n - x <= n - y
        BY <1>2, <2>1
    <2> QED BY <2>1, <2>2
<1> QED BY <1>3 DEF Queue!Max

(* The first criterion decides if it is one. *)
LEMMA FirstDecides ==
    ASSUME NEW a, NEW b, NEW c, NEW d, NEW e, a # 0
    PROVE  Queue!FirstNonZero(<<a, b, c, d, e>>) = a
<1> DEFINE s == <<a, b, c, d, e>>
           I == {i \in 1..Len(s) : s[i] # 0}
<1>1. Len(s) = 5 /\ s[1] = a
    OBVIOUS
<1> HIDE DEF s
<1>2. 1 \in I /\ I \in SUBSET Nat /\ \A i \in I : 1 <= i
    BY <1>1
<1>3. Queue!Min(I) = 1
    <2> HIDE DEF I
    <2>1. \E x \in I : \A i \in I : x <= i
        BY <1>2
    <2>2. Queue!Min(I) \in I /\ Queue!Min(I) <= 1
        BY <1>2, <2>1 DEF Queue!Min
    <2>3. 1 <= Queue!Min(I) /\ Queue!Min(I) \in Nat
        BY <1>2, <2>2
    <2> QED BY <2>2, <2>3
<1>4. Queue!SelectInSeq(s, LAMBDA r : r # 0) = 1
    BY <1>2, <1>3 DEF Queue!SelectInSeq
<1>5. Queue!FirstNonZero(s) = a
    BY <1>1, <1>4 DEF Queue!FirstNonZero
<1> QED BY <1>5 DEF s

(* Of two pull requests the one with the higher priority comes first. *)
LEMMA PriorityDecides ==
    ASSUME NEW x, NEW y, x.priority \in Int, y.priority \in Int
    PROVE  /\ x.priority > y.priority => Queue!OrderBefore(x, y) = -1
           /\ x.priority < y.priority => Queue!OrderBefore(x, y) = 1
<1> DEFINE timed == x.activeSince # 0 /\ y.activeSince # 0
           a == Queue!Compare(y.priority, x.priority)
           b == IF timed THEN Queue!BySuspends(x, y) ELSE 0
           c == IF timed THEN Queue!BySince(x, y) ELSE 0
           d == Queue!Compare(x.enqueuedAt, y.enqueuedAt)
           e == Queue!Compare(x.number, y.number)
<1>1. Queue!OrderBefore(x, y) = Queue!FirstNonZero(<<a, b, c, d, e>>)
    BY DEF Queue!OrderBefore
<1>2. (x.priority > y.priority => a = -1) /\ (x.priority < y.priority => a = 1)
    BY DEF Queue!Compare
<1> HIDE DEF a, b, c, d, e
<1>3. a # 0 => Queue!OrderBefore(x, y) = a
    BY <1>1, FirstDecides
<1> QED BY <1>2, <1>3

-----------------------------------------------------------------------------
(* The order of the active PRs *)

(* Behind its first PR a list of PRs is ordered by the priorities of i. *)
Descends(s, i) == \A j, k \in 2..Len(s) : j < k => i[s[j]].priority >= i[s[k]].priority

(* The types of the queue, in one place. *)
LEMMA QueueIsTyped ==
    ASSUME Queue!TypeOK
    PROVE  /\ order \in Seq(PR) /\ Len(order) \in Nat
           /\ Queue!Active = ToSet(order) /\ ToSet(order) \in SUBSET PR
           /\ \A j \in 1..Len(order) : order[j] \in PR /\ order[j] \in ToSet(order)
           /\ \A x \in ToSet(order) : \E j \in 1..Len(order) : order[j] = x
           /\ \A i, j \in 1..Len(order) : order[i] = order[j] => i = j
           /\ Cardinality(ToSet(order)) = Len(order)
           /\ \A p \in PR : /\ info[p] \in [number : PR, priority : Priority,
                                            suspendCount : 0 .. MaxSuspends,
                                            enqueuedAt : 0 .. MaxTime, activeSince : 0 .. MaxTime]
                            /\ info[p].priority \in Int
<1>1. order \in Seq(PR) /\ Len(order) \in Nat /\ DOMAIN order = 1..Len(order)
    BY LenProperties DEF Queue!TypeOK
<1>2. Queue!Active = ToSet(order)
    BY QueueOperators DEF Queue!Active
<1>3. \A j \in 1..Len(order) : order[j] \in PR /\ order[j] \in ToSet(order)
    BY <1>1, ElementOfSeq DEF ToSet
<1>4. ToSet(order) = {order[j] : j \in 1..Len(order)}
    BY <1>1 DEF ToSet
<1>5. Cardinality(ToSet(order)) = Len(order)
    BY <1>2, QueueOperators DEF Queue!TypeOK
<1>6. \A i, j \in 1..Len(order) : order[i] = order[j] => i = j
    <2> DEFINE n == Len(order)
               T == ToSet(order)
    <2>1. n \in Nat /\ order \in [1..n -> T] /\ T = {order[j] : j \in 1..n}
        BY <1>1, <1>3, <1>4
    <2>2. IsFiniteSet(1..n) /\ Cardinality(1..n) = Cardinality(T)
        <3>1. Cardinality(T) = n
            BY <1>5
        <3> HIDE DEF n, T
        <3>2. n \in Nat
            BY <2>1
        <3>3. IsFiniteSet(1..n) /\ Cardinality(1..n) = n
            BY <3>2, FS_Interval
        <3> QED BY <3>1, <3>3
    <2>3. order \in Surjection(1..n, T)
        BY <2>1 DEF Surjection
    <2> HIDE DEF n, T
    <2>4. order \in Injection(1..n, T)
        BY <2>2, <2>3, FS_SurjSameCardinalityImpliesInj
    <2> QED BY <2>1, <2>4 DEF Injection, IsInjective, n
<1>7. \A p \in PR : /\ info[p] \in [number : PR, priority : Priority,
                                    suspendCount : 0 .. MaxSuspends,
                                    enqueuedAt : 0 .. MaxTime, activeSince : 0 .. MaxTime]
                    /\ info[p].priority \in Int
    BY InstanceAssumption DEF Queue!TypeOK, Queue!OrderAssumption
<1> QED BY <1>1, <1>2, <1>3, <1>4, <1>5, <1>6, <1>7

(* What the queue's invariant says of an order: one and the same for the orders before *)
(* and after a step. *)
LEMMA SequenceOfActive ==
    ASSUME NEW s \in Seq(PR), \A i, j \in 1..Len(s) : s[i] = s[j] => i = j
    PROVE  Len(s) = Queue!Cardinality(Queue!ToSet(s))
BY DistinctIsFinite, QueueOperators

(* InsertAtIs, of lists of PRs. *)
LEMMA InsertedPRs ==
    \A s \in Seq(PR) : \A x \in PR : \A i \in 1..Len(s) + 1 :
        /\ InsertAt(s, i, x) \in Seq(PR) /\ Len(InsertAt(s, i, x)) = Len(s) + 1
        /\ \A k \in 1..Len(s) + 1 :
              InsertAt(s, i, x)[k] = IF k < i THEN s[k] ELSE IF k = i THEN x ELSE s[k - 1]
BY InsertAtIs

(* What entering a queue does to the order of its PRs. *)
LEMMA Enters ==
    ASSUME Queue!TypeOK, NEW x, x.priority \in Int, x.number \in PR, x.number \notin ToSet(order)
    PROVE  LET t == Queue!InsertAt(order, Queue!Position(x), x.number)
           IN  /\ t \in Seq(PR) /\ Len(t) = Queue!Cardinality(Queue!ToSet(t))
               /\ ToSet(t) = ToSet(order) \cup {x.number}
               /\ order # <<>> => t[1] = order[1]
               /\ \A i : Descends(order, info) /\ i[x.number].priority = x.priority
                         /\ (\A p \in ToSet(order) : i[p].priority = info[p].priority)
                            => Descends(t, i)
<1> DEFINE n == Len(order)
           p == x.number
           later == {k \in 2..n : Queue!OrderBefore(x, info[order[k]]) < 0}
           at == Queue!Position(x)
           t == InsertAt(order, at, p)
<1>1. /\ order \in Seq(PR) /\ n \in Nat /\ p \in PR
      /\ \A j \in 1..n : order[j] \in PR /\ order[j] \in ToSet(order) /\ order[j] # p
      /\ \A i, j \in 1..n : order[i] = order[j] => i = j
      /\ \A j \in 1..n : info[order[j]].priority \in Int
    BY QueueIsTyped
<1>2. /\ at \in 1..n + 1
      /\ n >= 1 => at >= 2
      /\ \A k \in 2..n : k < at => info[order[k]].priority >= x.priority
      /\ at \in 2..n => x.priority >= info[order[at]].priority
    <2>1. \A k \in 2..n : k \in 1..n
        BY <1>1
    <2>2. \A k \in 2..n : /\ k \in later => x.priority >= info[order[k]].priority
                          /\ k \notin later => info[order[k]].priority >= x.priority
        <3> TAKE k \in 2..n
        <3> DEFINE y == info[order[k]]
        <3>1. x.priority \in Int /\ y.priority \in Int
            BY <1>1, <2>1
        <3> HIDE DEF y
        <3>2. /\ x.priority > y.priority => Queue!OrderBefore(x, y) = -1
              /\ x.priority < y.priority => Queue!OrderBefore(x, y) = 1
            BY <3>1, PriorityDecides
        <3>3. /\ Queue!OrderBefore(x, y) < 0 => x.priority >= y.priority
              /\ ~(Queue!OrderBefore(x, y) < 0) => y.priority >= x.priority
            BY <3>1, <3>2
        <3> QED BY <3>3 DEF y
    <2>3. at = IF later = {} THEN n + 1 ELSE CHOOSE k \in later : \A l \in later : k <= l
        BY DEF Queue!Position
    <2>4. later \in SUBSET (2..n)
        OBVIOUS
    <2> HIDE DEF later, at
    <2>5. CASE later = {}
        <3>1. at = n + 1
            BY <2>3, <2>5
        <3> QED BY <3>1, <1>1, <2>2, <2>5
    <2>6. CASE later # {}
        <3>1. later \in SUBSET Nat
            BY <2>4
        <3>2. \E k \in later : \A l \in later : k <= l
            BY <2>6, <3>1, Least
        <3>3. at \in later /\ \A l \in later : at <= l
            BY <2>3, <2>6, <3>2
        <3>4. \A k \in 2..n : k < at => k \notin later
            BY <3>3, <3>1, <1>1
        <3> QED BY <3>3, <3>4, <1>1, <2>2, <2>4
    <2> QED BY <2>5, <2>6
<1> HIDE DEF at, n, p
<1>3. /\ t \in Seq(PR) /\ Len(t) = n + 1
      /\ \A k \in 1..n + 1 : t[k] = IF k < at THEN order[k] ELSE IF k = at THEN p ELSE order[k - 1]
    <2>1. at \in 1..Len(order) + 1
        BY <1>2 DEF n
    <2>2. /\ InsertAt(order, at, p) \in Seq(PR) /\ Len(InsertAt(order, at, p)) = Len(order) + 1
          /\ \A k \in 1..Len(order) + 1 :
                InsertAt(order, at, p)[k]
                    = IF k < at THEN order[k] ELSE IF k = at THEN p ELSE order[k - 1]
        BY <1>1, <2>1, InsertedPRs, ZenonT(40)
    <2> QED BY <2>2 DEF n
<1>4. ToSet(t) = ToSet(order) \cup {p}
    <2>1. at \in 1..Len(order) + 1
        BY <1>2 DEF n
    <2> QED BY <1>1, <2>1, InsertedSet
<1> HIDE DEF t
<1>5. \A k \in 1..n + 1 : (k < at => k \in 1..n) /\ (k > at => k - 1 \in 1..n)
    BY <1>1, <1>2
<1>6. \A i, j \in 1..Len(t) : t[i] = t[j] => i = j
    <2> SUFFICES ASSUME NEW i \in 1..n + 1, NEW j \in 1..n + 1, i < j PROVE t[i] # t[j]
        BY <1>1, <1>3
    <2>1. CASE i = at \/ j = at
        BY <2>1, <1>1, <1>2, <1>3, <1>5
    <2>2. CASE i # at /\ j # at
        <3> DEFINE a == IF i < at THEN i ELSE i - 1
                   b == IF j < at THEN j ELSE j - 1
        <3>1. a \in 1..n /\ b \in 1..n /\ a # b
            BY <2>2, <1>1, <1>2, <1>5
        <3>2. t[i] = order[a] /\ t[j] = order[b]
            BY <2>2, <1>2, <1>3
        <3> HIDE DEF a, b
        <3> QED BY <3>1, <3>2, <1>1
    <2> QED BY <2>1, <2>2
<1>7. Len(t) = Queue!Cardinality(Queue!ToSet(t))
    BY <1>3, <1>6, SequenceOfActive
<1>8. order # <<>> => t[1] = order[1]
    <2>1. order # <<>> => n >= 1
        BY <1>1, EmptySeq DEF n
    <2> QED BY <2>1, <1>1, <1>2, <1>3
<1>9. ASSUME NEW i, Descends(order, info), i[p].priority = x.priority,
             \A q \in ToSet(order) : i[q].priority = info[q].priority
      PROVE  Descends(t, i)
    <2> DEFINE pri(q) == i[q].priority
    <2>1. /\ \A k \in 1..n : pri(order[k]) = info[order[k]].priority /\ pri(order[k]) \in Int
          /\ pri(p) = x.priority /\ x.priority \in Int
        BY <1>1, <1>9 DEF p
    <2>2. \A j, k \in 2..n : j < k => pri(order[j]) >= pri(order[k])
        <3>1. \A k \in 2..n : k \in 1..n
            BY <1>1
        <3> QED BY <3>1, <1>9, <2>1 DEF Descends, n
    <2>3. \A k \in 2..n : k < at => pri(order[k]) >= pri(p)
        BY <1>1, <1>2, <2>1
    <2>4. \A k \in 2..n : k >= at => pri(p) >= pri(order[k])
        <3> TAKE k \in 2..n
        <3> SUFFICES ASSUME k >= at PROVE pri(p) >= pri(order[k])
            OBVIOUS
        <3>1. at \in 2..n /\ at \in 1..n /\ k \in 1..n
            BY <1>1, <1>2
        <3>2. pri(p) >= pri(order[at])
            BY <3>1, <1>2, <2>1
        <3>3. at = k \/ pri(order[at]) >= pri(order[k])
            BY <3>1, <2>2
        <3> QED BY <3>1, <3>2, <3>3, <2>1
    <2> HIDE DEF pri
    <2>5. \A j, k \in 2..n + 1 : j < k => pri(t[j]) >= pri(t[k])
        <3> TAKE j, k \in 2..n + 1
        <3> SUFFICES ASSUME j < k PROVE pri(t[j]) >= pri(t[k])
            OBVIOUS
        <3>1. n >= 1 /\ at >= 2
            BY <1>1, <1>2
        <3>2. CASE k < at
            <4>1. j \in 2..n /\ k \in 2..n /\ t[j] = order[j] /\ t[k] = order[k]
                BY <3>2, <1>1, <1>2, <1>3
            <4> QED BY <4>1, <2>2
        <3>3. CASE k = at
            <4>1. j \in 2..n /\ t[j] = order[j] /\ t[k] = p
                BY <3>3, <1>1, <1>2, <1>3
            <4> QED BY <4>1, <3>3, <2>3
        <3>4. CASE k > at /\ j < at
            <4>1. j \in 2..n /\ k - 1 \in 2..n /\ t[j] = order[j] /\ t[k] = order[k - 1]
                BY <3>1, <3>4, <1>1, <1>2, <1>3
            <4>2. j < k - 1 \/ j = k - 1
                BY <3>4, <1>2
            <4>3. j \in 1..n
                BY <4>1, <1>1
            <4>4. pri(order[j]) \in Int
                BY <4>3, <2>1
            <4>5. CASE j < k - 1
                BY <4>1, <4>5, <2>2
            <4>6. CASE j = k - 1
                BY <4>1, <4>4, <4>6
            <4> QED BY <4>2, <4>5, <4>6
        <3>5. CASE k > at /\ j = at
            <4>1. k - 1 \in 2..n /\ k - 1 >= at /\ t[j] = p /\ t[k] = order[k - 1]
                BY <3>1, <3>5, <1>1, <1>2, <1>3
            <4> QED BY <4>1, <2>4
        <3>6. CASE k > at /\ j > at
            <4>1. j - 1 \in 2..n /\ k - 1 \in 2..n /\ t[j] = order[j - 1] /\ t[k] = order[k - 1]
                BY <3>1, <3>6, <1>1, <1>2, <1>3
            <4> QED BY <4>1, <2>2
        <3> QED BY <3>2, <3>3, <3>4, <3>5, <3>6, <1>2
    <2> QED BY <2>5, <1>3 DEF Descends, pri
<1> QED BY <1>3, <1>4, <1>7, <1>8, <1>9, QueueOperators DEF t, at, p

(* RemoveAtIs, of lists of PRs. *)
LEMMA RemovedPRs ==
    \A s \in Seq(PR) : \A i \in 1..Len(s) :
        /\ RemoveAt(s, i) \in Seq(PR) /\ Len(RemoveAt(s, i)) = Len(s) - 1
        /\ \A k \in 1..Len(s) - 1 : RemoveAt(s, i)[k] = IF k < i THEN s[k] ELSE s[k + 1]
BY RemoveAtIs

(* What leaving a queue does to the order of its PRs. *)
LEMMA Leaves ==
    ASSUME Queue!TypeOK, NEW p
    PROVE  LET t == Queue!RemoveFirst(order, p)
           IN  /\ t \in Seq(PR) /\ Len(t) = Queue!Cardinality(Queue!ToSet(t))
               /\ ToSet(t) = ToSet(order) \ {p}
               /\ order # <<>> /\ order[1] # p => t[1] = order[1]
               /\ \A i : Descends(order, info)
                         /\ (\A q \in ToSet(order) \ {p} : i[q].priority = info[q].priority)
                            => Descends(t, i)
<1> DEFINE n == Len(order)
           t == RemoveFirst(order, p)
<1>1. /\ order \in Seq(PR) /\ n \in Nat
      /\ \A j \in 1..n : order[j] \in PR /\ order[j] \in ToSet(order)
      /\ \A i, j \in 1..n : order[i] = order[j] => i = j
      /\ ToSet(order) = {order[j] : j \in 1..n}
    BY QueueIsTyped, LenProperties DEF ToSet
<1>2. CASE p \notin ToSet(order)
    <2>1. t = order
        BY <1>1, <1>2 DEF RemoveFirst
    <2> HIDE DEF t
    <2>2. Len(order) = Queue!Cardinality(Queue!ToSet(order))
        BY <1>1, SequenceOfActive DEF n
    <2>3. \A k \in 2..n : order[k] \in ToSet(order)
        BY <1>1
    <2>4. ASSUME NEW i, Descends(order, info),
                 \A q \in ToSet(order) \ {p} : i[q].priority = info[q].priority
          PROVE  Descends(order, i)
        BY <2>3, <2>4, <1>2 DEF Descends, n
    <2> QED BY <1>1, <1>2, <2>1, <2>2, <2>4, QueueOperators DEF t
<1>3. CASE p \in ToSet(order)
    <2>1. PICK i \in 1..n : order[i] = p
        BY <1>1, <1>3
    <2> DEFINE f(k) == IF k < i THEN k ELSE k + 1
    <2>2. t = RemoveAt(order, i)
        <3>1. i \in 1..Len(order) /\ \A j \in 1..Len(order) : order[j] = order[i] => j = i
            BY <1>1, <2>1
        <3>2. RemoveFirst(order, order[i]) = RemoveAt(order, i)
            BY <3>1, RemoveFirstIs
        <3> QED BY <2>1, <3>2
    <2>3. /\ t \in Seq(PR) /\ Len(t) = n - 1
          /\ \A k \in 1..n - 1 : t[k] = order[f(k)]
        <3>1. i \in 1..Len(order)
            BY <2>1
        <3>2. /\ RemoveAt(order, i) \in Seq(PR) /\ Len(RemoveAt(order, i)) = Len(order) - 1
              /\ \A k \in 1..Len(order) - 1 :
                    RemoveAt(order, i)[k] = IF k < i THEN order[k] ELSE order[k + 1]
            BY <1>1, <3>1, RemovedPRs, ZenonT(40)
        <3>3. \A k \in 1..n - 1 : order[f(k)] = IF k < i THEN order[k] ELSE order[k + 1]
            OBVIOUS
        <3> HIDE DEF t
        <3> QED BY <2>2, <3>2, <3>3
    <2>4. /\ \A k \in 1..n - 1 : f(k) \in 1..n /\ f(k) # i
          /\ \A k, l \in 1..n - 1 : k < l => f(k) < f(l)
          /\ \A j \in 1..n : j # i => \E k \in 1..n - 1 : f(k) = j
          /\ \A k \in 2..n - 1 : f(k) \in 2..n
        <3>1. /\ \A k \in 1..n - 1 : f(k) \in 1..n /\ f(k) # i
              /\ \A k, l \in 1..n - 1 : k < l => f(k) < f(l)
              /\ \A k \in 2..n - 1 : f(k) \in 2..n
            BY <1>1, <2>1
        <3>2. ASSUME NEW j \in 1..n, j # i PROVE \E k \in 1..n - 1 : f(k) = j
            <4>1. CASE j < i
                <5>1. j \in 1..n - 1 /\ f(j) = j
                    BY <4>1, <1>1, <2>1
                <5> QED BY <5>1
            <4>2. CASE j > i
                <5>1. j - 1 \in 1..n - 1 /\ f(j - 1) = j
                    BY <4>2, <1>1, <2>1
                <5> QED BY <5>1
            <4> QED BY <4>1, <4>2, <3>2, <2>1
        <3> QED BY <3>1, <3>2
    <2> HIDE DEF t, f
    <2>5. ToSet(t) = ToSet(order) \ {p}
        <3>1. ToSet(t) = {t[k] : k \in 1..n - 1}
            BY <2>3, LenProperties DEF ToSet
        <3>2. \A k \in 1..n - 1 : t[k] \in ToSet(order) \ {p}
            BY <2>1, <2>3, <2>4, <1>1
        <3>3. \A j \in 1..n : order[j] # p => order[j] \in {t[k] : k \in 1..n - 1}
            BY <2>1, <2>3, <2>4
        <3>4. \A x \in ToSet(order) \ {p} : x \in {t[k] : k \in 1..n - 1}
            BY <3>3, <1>1
        <3> QED BY <3>1, <3>2, <3>4, Zenon
    <2>6. \A j, k \in 1..Len(t) : t[j] = t[k] => j = k
        <3> SUFFICES ASSUME NEW j \in 1..n - 1, NEW k \in 1..n - 1, j < k PROVE t[j] # t[k]
            BY <1>1, <2>3
        <3>1. f(j) \in 1..n /\ f(k) \in 1..n /\ f(j) # f(k)
            BY <2>4
        <3> QED BY <3>1, <2>3, <1>1
    <2>7. Len(t) = Queue!Cardinality(Queue!ToSet(t))
        BY <2>3, <2>6, SequenceOfActive
    <2>8. order # <<>> /\ order[1] # p => t[1] = order[1]
        <3> SUFFICES ASSUME order # <<>>, order[1] # p PROVE t[1] = order[1]
            OBVIOUS
        <3>1. n >= 1 /\ i # 1
            BY <1>1, <2>1, EmptySeq DEF n
        <3>2. 1 \in 1..n - 1 /\ f(1) = 1
            BY <3>1, <1>1, <2>1 DEF f
        <3> QED BY <3>2, <2>3
    <2>9. ASSUME NEW g, Descends(order, info),
                 \A q \in ToSet(order) \ {p} : g[q].priority = info[q].priority
          PROVE  Descends(t, g)
        <3>1. \A k \in 2..n - 1 : k \in 1..n - 1
            BY <1>1
        <3>2. \A k \in 2..n - 1 : g[t[k]].priority = info[order[f(k)]].priority
            <4> TAKE k \in 2..n - 1
            <4>1. t[k] = order[f(k)] /\ f(k) \in 1..n /\ f(k) # i
                BY <3>1, <2>3, <2>4
            <4>2. t[k] \in ToSet(order) \ {p}
                BY <4>1, <1>1, <2>1
            <4> QED BY <4>1, <4>2, <2>9
        <3>3. \A j, k \in 2..n - 1 : j < k =>
                  info[order[f(j)]].priority >= info[order[f(k)]].priority
            <4>1. \A j, k \in 2..n : j < k => info[order[j]].priority >= info[order[k]].priority
                BY <2>9 DEF Descends, n
            <4>2. \A j, k \in 2..n - 1 : j < k => f(j) < f(k) /\ f(j) \in 2..n /\ f(k) \in 2..n
                BY <3>1, <2>4
            <4> QED BY <4>1, <4>2
        <3> QED BY <3>2, <3>3, <2>3 DEF Descends
    <2> QED BY <2>3, <2>5, <2>7, <2>8, <2>9, QueueOperators DEF t
<1> QED BY <1>2, <1>3

-----------------------------------------------------------------------------
(* Sorting *)

(* A list whose first PR alone may be the queue's first one, the others being ordered *)
(* by priority: what insertion sort has built so far. *)
Behind(s) ==
    /\ s \in Seq(PR)
    /\ \A j \in 2..Len(s) : s[j] # order[1]
    /\ \A j, k \in 1..Len(s) :
          j < k /\ s[j] # order[1] => info[s[j]].priority >= info[s[k]].priority

(* Where the next PR is placed. *)
LastPlace(s, a) == Queue!SelectLastInSeq(s, LAMBDA b : Queue!ByKey(a, b) >= 0)

LEMMA LastPlaceIs ==
    ASSUME NEW s \in Seq(PR), NEW a
    PROVE  /\ LastPlace(s, a) \in 0..Len(s)
           /\ LastPlace(s, a) > 0 => Queue!ByKey(a, s[LastPlace(s, a)]) >= 0
           /\ \A k \in 1..Len(s) : k > LastPlace(s, a) => ~(Queue!ByKey(a, s[k]) >= 0)
<1> DEFINE n == Len(s)
           T == {k \in 1..n : Queue!ByKey(a, s[k]) >= 0}
           l == LastPlace(s, a)
<1>1. n \in Nat
    BY LenProperties
<1>2. l = IF T # {} THEN Queue!Max(T) ELSE 0
    BY DEF LastPlace, Queue!SelectLastInSeq
<1>3. /\ T \in SUBSET (1..n)
      /\ \A k \in 1..n : k \in T <=> Queue!ByKey(a, s[k]) >= 0
    OBVIOUS
<1> HIDE DEF T, l, n
<1>4. CASE T = {}
    <2>1. l = 0
        BY <1>2, <1>4
    <2> QED BY <2>1, <1>1, <1>3, <1>4 DEF l, n
<1>5. CASE T # {}
    <2>1. l \in T /\ \A y \in T : l >= y
        BY <1>1, <1>2, <1>3, <1>5, MaxIs
    <2>2. l \in 1..n /\ \A k \in 1..n : k > l => k \notin T
        BY <2>1, <1>3
    <2> QED BY <2>1, <2>2, <1>3 DEF l, n
<1> QED BY <1>4, <1>5

(* How ByKey compares: the first PR precedes all others, which their priorities order. *)
LEMMA ByKeyIs ==
    ASSUME Queue!TypeOK, NEW a \in PR, NEW b \in PR
    PROVE  /\ a = order[1] => ~(Queue!ByKey(a, b) >= 0)
           /\ a # order[1] /\ b = order[1] => Queue!ByKey(a, b) >= 0
           /\ a # order[1] /\ b # order[1] =>
                 /\ Queue!ByKey(a, b) >= 0 => info[b].priority >= info[a].priority
                 /\ ~(Queue!ByKey(a, b) >= 0) => info[a].priority >= info[b].priority
<1> DEFINE x == info[a]
           y == info[b]
<1>1. x.priority \in Int /\ y.priority \in Int
    BY QueueIsTyped
<1>2. Queue!ByKey(a, b) = IF a = order[1] THEN -1
                          ELSE IF b = order[1] THEN 1 ELSE Queue!OrderBefore(x, y)
    BY DEF Queue!ByKey
<1> HIDE DEF x, y
<1>3. /\ x.priority > y.priority => Queue!OrderBefore(x, y) = -1
      /\ x.priority < y.priority => Queue!OrderBefore(x, y) = 1
    BY <1>1, PriorityDecides
<1>4. /\ Queue!OrderBefore(x, y) >= 0 => y.priority >= x.priority
      /\ ~(Queue!OrderBefore(x, y) >= 0) => x.priority >= y.priority
    BY <1>1, <1>3
<1>5. /\ a = order[1] => ~(Queue!ByKey(a, b) >= 0)
      /\ a # order[1] /\ b = order[1] => Queue!ByKey(a, b) >= 0
      /\ a # order[1] /\ b # order[1] => Queue!ByKey(a, b) = Queue!OrderBefore(x, y)
    BY <1>2
<1> QED BY <1>4, <1>5 DEF x, y

(* One more PR is placed. *)
LEMMA PlacedIs ==
    ASSUME Queue!TypeOK, NEW s, Behind(s), NEW a \in PR, a \notin ToSet(s)
    PROVE  /\ Behind(Queue!Placed(s, a)) /\ Len(Queue!Placed(s, a)) = Len(s) + 1
           /\ ToSet(Queue!Placed(s, a)) = ToSet(s) \cup {a}
<1> DEFINE n == Len(s)
           l == LastPlace(s, a)
           t == InsertAt(s, l + 1, a)
           o == order[1]
           pri(p) == info[p].priority
<1>1. Queue!Placed(s, a) = t
    BY QueueOperators DEF Queue!Placed, LastPlace
<1>2. /\ s \in Seq(PR) /\ n \in Nat
      /\ \A k \in 1..n : s[k] \in PR /\ s[k] \in ToSet(s) /\ s[k] # a
      /\ \A k \in 1..n : pri(s[k]) \in Int
      /\ pri(a) \in Int
    <2>1. s \in Seq(PR) /\ n \in Nat /\ DOMAIN s = 1..n
        BY LenProperties DEF Behind
    <2>2. \A k \in 1..n : s[k] \in PR /\ s[k] \in ToSet(s)
        BY <2>1, ElementOfSeq DEF ToSet
    <2> QED BY <2>1, <2>2, QueueIsTyped
<1>3. /\ l \in 0..n
      /\ l > 0 => Queue!ByKey(a, s[l]) >= 0
      /\ \A k \in 1..n : k > l => ~(Queue!ByKey(a, s[k]) >= 0)
    BY <1>2, LastPlaceIs
<1>4. /\ \A k \in 2..n : s[k] # o
      /\ \A j, k \in 1..n : j < k /\ s[j] # o => pri(s[j]) >= pri(s[k])
    BY DEF Behind
<1> HIDE DEF l
<1>5. /\ t \in Seq(PR) /\ Len(t) = n + 1
      /\ \A k \in 1..n + 1 :
            t[k] = IF k < l + 1 THEN s[k] ELSE IF k = l + 1 THEN a ELSE s[k - 1]
      /\ ToSet(t) = ToSet(s) \cup {a}
    <2>1. l + 1 \in 1..n + 1
        BY <1>2, <1>3
    <2> DEFINE i == l + 1
    <2>2. i \in 1..Len(s) + 1
        BY <2>1
    <2> HIDE DEF i
    <2>3. /\ InsertAt(s, i, a) \in Seq(PR) /\ Len(InsertAt(s, i, a)) = Len(s) + 1
          /\ \A k \in 1..Len(s) + 1 :
                InsertAt(s, i, a)[k] = IF k < i THEN s[k] ELSE IF k = i THEN a ELSE s[k - 1]
        BY <1>2, <2>2, InsertedPRs, ZenonT(40)
    <2>4. ToSet(InsertAt(s, i, a)) = ToSet(s) \cup {a}
        BY <1>2, <2>2, InsertedSet
    <2> QED BY <2>3, <2>4 DEF i
<1> HIDE DEF t, n
<1>6. ASSUME a = o PROVE l = 0
    <2>1. \A k \in 1..n : ~(Queue!ByKey(a, s[k]) >= 0)
        BY <1>2, <1>6, ByKeyIs
    <2> QED BY <2>1, <1>3
<1>7. ASSUME a # o
      PROVE  /\ \A k \in 1..n : k <= l /\ s[k] # o => pri(s[k]) >= pri(a)
             /\ \A k \in 1..n : k > l => s[k] # o /\ pri(a) >= pri(s[k])
    <2>1. ASSUME NEW k \in 1..n, k <= l, s[k] # o PROVE pri(s[k]) >= pri(a)
        <3>1. l \in 1..n /\ s[l] # o
            BY <2>1, <1>2, <1>3, <1>4
        <3>2. pri(s[l]) >= pri(a)
            BY <3>1, <1>2, <1>3, <1>7, ByKeyIs
        <3>3. k = l \/ pri(s[k]) >= pri(s[l])
            BY <2>1, <3>1, <1>3, <1>4
        <3> HIDE DEF pri
        <3> QED BY <3>1, <3>2, <3>3, <1>2
    <2>2. ASSUME NEW k \in 1..n, k > l PROVE s[k] # o /\ pri(a) >= pri(s[k])
        <3>1. ~(Queue!ByKey(a, s[k]) >= 0) /\ s[k] \in PR
            BY <2>2, <1>2, <1>3
        <3> QED BY <3>1, <1>7, ByKeyIs
    <2> HIDE DEF pri
    <2> QED BY <2>1, <2>2
<1> HIDE DEF o, pri
<1>8. \A k \in 2..n + 1 : t[k] # o
    <2> TAKE k \in 2..n + 1
    <2>1. CASE k < l + 1
        <3>1. k \in 2..n /\ t[k] = s[k]
            BY <2>1, <1>2, <1>3, <1>5
        <3> QED BY <3>1, <1>4
    <2>2. CASE k = l + 1
        BY <2>2, <1>2, <1>3, <1>5, <1>6
    <2>3. CASE k > l + 1
        <3>1. k - 1 \in 1..n /\ k - 1 > l /\ t[k] = s[k - 1]
            BY <2>3, <1>2, <1>3, <1>5
        <3>2. a # o => s[k - 1] # o
            BY <3>1, <1>7
        <3>3. a = o => s[k - 1] # o
            BY <3>1, <1>2, <1>6
        <3> QED BY <3>1, <3>2, <3>3
    <2> QED BY <2>1, <2>2, <2>3, <1>3
<1>9. ASSUME NEW j \in 1..n + 1, NEW k \in 1..n + 1, j < k, t[j] # o
      PROVE  pri(t[j]) >= pri(t[k])
    <2>1. CASE k < l + 1
        <3>1. j \in 1..n /\ k \in 1..n /\ j < l + 1
            BY <2>1, <1>9, <1>2, <1>3
        <3>2. t[j] = s[j] /\ t[k] = s[k]
            BY <2>1, <3>1, <1>5
        <3> QED BY <3>1, <3>2, <1>4, <1>9
    <2>2. CASE k = l + 1
        <3>1. j \in 1..n /\ j < l + 1 /\ j <= l /\ l # 0
            BY <2>2, <1>9, <1>2, <1>3
        <3>2. t[j] = s[j] /\ t[k] = a
            BY <2>2, <3>1, <1>5
        <3>3. a # o
            BY <3>1, <1>6
        <3> QED BY <3>1, <3>2, <3>3, <1>7, <1>9
    <2>3. CASE k > l + 1 /\ j < l + 1
        <3>1. j \in 1..n /\ k - 1 \in 1..n /\ j < k - 1 /\ ~(k < l + 1) /\ k # l + 1
            BY <2>3, <1>9, <1>2, <1>3
        <3>2. t[j] = s[j] /\ t[k] = s[k - 1]
            BY <2>3, <3>1, <1>5
        <3> QED BY <3>1, <3>2, <1>4, <1>9
    <2>4. CASE k > l + 1 /\ j = l + 1
        <3>1. /\ k - 1 \in 1..n /\ k - 1 > l
              /\ ~(k < l + 1) /\ k # l + 1 /\ ~(j < l + 1)
            BY <2>4, <1>9, <1>2, <1>3
        <3>2. t[j] = a /\ t[k] = s[k - 1]
            BY <2>4, <3>1, <1>5
        <3> QED BY <3>1, <3>2, <1>7, <1>9
    <2>5. CASE j > l + 1
        <3>1. /\ j - 1 \in 1..n /\ k - 1 \in 1..n /\ j - 1 < k - 1
              /\ ~(k < l + 1) /\ k # l + 1 /\ ~(j < l + 1) /\ j # l + 1
            BY <2>5, <1>9, <1>2, <1>3
        <3>2. t[j] = s[j - 1] /\ t[k] = s[k - 1]
            BY <3>1, <1>5
        <3> QED BY <3>1, <3>2, <1>4, <1>9
    <2> QED BY <2>1, <2>2, <2>3, <2>4, <2>5, <1>3
<1>10. Behind(t)
    BY <1>5, <1>8, <1>9 DEF Behind, o, pri
<1> QED BY <1>1, <1>5, <1>10 DEF n

(* The function that insertion sort computes. *)
PlacesAll(f, keys, N) ==
    f = [n \in 0..N |-> IF n = 0 THEN <<>> ELSE Queue!Placed(f[n - 1], keys[n])]

LEMMA PlacesExist ==
    ASSUME NEW keys, NEW N \in Nat
    PROVE  \E f : PlacesAll(f, keys, N)
<1> DEFINE F(f, j) == [n \in 0..j |-> IF n = 0 THEN <<>> ELSE Queue!Placed(f[n - 1], keys[n])]
           P == {j \in 0..N : \E f : f = F(f, j)}
<1>1. 0 \in P
    <2> DEFINE f == [n \in 0..0 |-> <<>>]
    <2>1. f = F(f, 0)
        OBVIOUS
    <2> HIDE DEF f, F
    <2>2. \E g : g = F(g, 0)
        BY <2>1
    <2> QED BY <2>2
<1>2. ASSUME NEW j \in 1..N, j - 1 \in P PROVE j \in P
    <2>1. PICK f : f = F(f, j - 1)
        BY <1>2
    <2> DEFINE g == [n \in 0..j |-> IF n = 0 THEN <<>> ELSE Queue!Placed(f[n - 1], keys[n])]
    <2>2. \A n \in 0..j - 1 : g[n] = f[n]
        <3>1. \A n \in 0..j - 1 : f[n] = IF n = 0 THEN <<>> ELSE Queue!Placed(f[n - 1], keys[n])
            BY <2>1
        <3> QED BY <3>1
    <2>3. g = F(g, j)
        <3>1. \A n \in 1..j : n - 1 \in 0..j - 1
            OBVIOUS
        <3>2. \A n \in 0..j : n = 0 \/ n \in 1..j
            OBVIOUS
        <3>3. \A n \in 0..j : (IF n = 0 THEN <<>> ELSE Queue!Placed(f[n - 1], keys[n]))
                                 = IF n = 0 THEN <<>> ELSE Queue!Placed(g[n - 1], keys[n])
            BY <3>1, <3>2, <2>2
        <3> QED BY <3>3
    <2> HIDE DEF g, F
    <2>4. \E f1 : f1 = F(f1, j)
        BY <2>3
    <2> QED BY <2>4
<1>3. N \in P
    <2> HIDE DEF P
    <2>1. \A j \in 0..N : j \in P
        BY <1>1, <1>2, Induction
    <2> QED BY <2>1
<1> QED BY <1>3 DEF PlacesAll

LEMMA PlacesKeepOrder ==
    ASSUME NEW keys, NEW N \in Nat, NEW sorted, Queue!TypeOK,
           \A n \in 1..N : keys[n] \in PR, \A i, j \in 1..N : i # j => keys[i] # keys[j],
           PlacesAll(sorted, keys, N)
    PROVE  /\ Behind(sorted[N]) /\ Len(sorted[N]) = N
           /\ ToSet(sorted[N]) = {keys[n] : n \in 1..N}
<1>1. /\ sorted[0] = <<>>
      /\ \A n \in 1..N : sorted[n] = Queue!Placed(sorted[n - 1], keys[n])
    <2>1. \A n \in 0..N : sorted[n] = IF n = 0 THEN <<>> ELSE Queue!Placed(sorted[n - 1], keys[n])
        BY DEF PlacesAll
    <2> QED BY <2>1
<1> DEFINE Q == {n \in 0..N : /\ Behind(sorted[n]) /\ Len(sorted[n]) = n
                              /\ ToSet(sorted[n]) = {keys[k] : k \in 1..n}}
<1>2. 0 \in Q
    <2>1. Behind(<<>>)
        BY DEF Behind
    <2>2. ToSet(<<>>) = {} /\ {keys[k] : k \in 1..0} = {} /\ Len(<<>>) = 0
        BY DEF ToSet
    <2> QED BY <1>1, <2>1, <2>2
<1>3. ASSUME NEW j \in 1..N, j - 1 \in Q PROVE j \in Q
    <2> DEFINE s == sorted[j - 1]
               a == keys[j]
    <2>1. Behind(s) /\ Len(s) = j - 1 /\ ToSet(s) = {keys[k] : k \in 1..j - 1}
        BY <1>3
    <2>2. a \in PR /\ a \notin ToSet(s)
        <3>1. \A k \in 1..j - 1 : k \in 1..N /\ k # j
            OBVIOUS
        <3> QED BY <3>1, <2>1
    <2>3. sorted[j] = Queue!Placed(s, a)
        BY <1>1
    <2> HIDE DEF s, a
    <2>4. /\ Behind(Queue!Placed(s, a)) /\ Len(Queue!Placed(s, a)) = Len(s) + 1
          /\ ToSet(Queue!Placed(s, a)) = ToSet(s) \cup {a}
        BY <2>1, <2>2, PlacedIs
    <2>5. ToSet(s) \cup {a} = {keys[k] : k \in 1..j}
        <3>1. 1..j = 1..j - 1 \cup {j}
            OBVIOUS
        <3> QED BY <3>1, <2>1 DEF a
    <2>6. Len(s) + 1 = j /\ j \in 0..N
        BY <2>1
    <2> QED BY <2>3, <2>4, <2>5, <2>6
<1>4. N \in Q
    <2> HIDE DEF Q
    <2>1. \A j \in 0..N : j \in Q
        BY <1>2, <1>3, Induction
    <2> QED BY <2>1
<1> QED BY <1>4

(* Whatever the order of the keys, sorting keeps the PRs and the first of them, and *)
(* orders the others by priority. *)
LEMMA SortedIs ==
    ASSUME Queue!TypeOK, order # <<>>, NEW t \in Queue!SortedOrders
    PROVE  /\ t \in Seq(PR) /\ Len(t) = Queue!Cardinality(Queue!ToSet(t))
           /\ ToSet(t) = ToSet(order) /\ t[1] = order[1]
           /\ Descends(t, info)
<1> DEFINE N == Len(order)
           A == ToSet(order)
<1>1. /\ N \in Nat /\ A \in SUBSET PR /\ Cardinality(A) = N /\ order[1] \in A
      /\ Queue!Active = A /\ N >= 1
    BY QueueIsTyped, EmptySeq
<1>2. PICK keys \in SetToSeqs(A) : t = Queue!Sorted(keys)
    BY <1>1, QueueOperators DEF Queue!SortedOrders
<1> HIDE DEF N, A
<1>3. keys \in [1..N -> A] /\ \A i, j \in 1..N : i # j => keys[i] # keys[j]
    BY <1>1, <1>2 DEF SetToSeqs
<1>4. Len(keys) = N /\ \A n \in 1..N : keys[n] \in PR
    BY <1>1, <1>3
<1> DEFINE sorted == CHOOSE f : f = [n \in 0..Len(keys) |->
                IF n = 0 THEN <<>> ELSE Queue!Placed(f[n - 1], keys[n])]
<1>5. t = sorted[Len(keys)]
    BY <1>2 DEF Queue!Sorted
<1>6. PlacesAll(sorted, keys, N)
    <2>1. \E f : PlacesAll(f, keys, N)
        BY <1>1, PlacesExist
    <2> QED BY <2>1, <1>4 DEF PlacesAll
<1> HIDE DEF sorted
<1>7. /\ Behind(t) /\ Len(t) = N /\ ToSet(t) = {keys[n] : n \in 1..N}
    <2>1. /\ Behind(sorted[N]) /\ Len(sorted[N]) = N
          /\ ToSet(sorted[N]) = {keys[n] : n \in 1..N}
        BY <1>1, <1>3, <1>4, <1>6, PlacesKeepOrder
    <2> QED BY <2>1, <1>4, <1>5
<1>8. {keys[n] : n \in 1..N} = A
    <2>1. IsFiniteSet(1..N) /\ Cardinality(1..N) = N
        BY <1>1, FS_Interval
    <2> DEFINE r == {keys[n] : n \in 1..N}
    <2>2. r \in SUBSET A
        BY <1>3
    <2>3. IsFiniteSet(r) /\ Cardinality(r) = N
        <3>1. keys \in [1..N -> r]
            BY <1>3
        <3>2. keys \in Injection(1..N, r)
            BY <3>1, <1>3 DEF Injection, IsInjective
        <3>3. keys \in Surjection(1..N, r)
            BY <3>1 DEF Surjection
        <3> HIDE DEF r
        <3>4. ExistsBijection(1..N, r)
            BY <3>2, <3>3 DEF ExistsBijection, Bijection
        <3> QED BY <2>1, <3>4, FS_Bijection
    <2>4. IsFiniteSet(A)
        <3>1. IsFiniteSet(ToSet(order))
            BY QueueIsTyped, DistinctIsFinite
        <3> QED BY <3>1 DEF A
    <2> HIDE DEF r
    <2>5. r = A
        BY <1>1, <2>2, <2>3, <2>4, FS_Subset
    <2> QED BY <2>5 DEF r
<1>9. t \in Seq(PR) /\ Len(t) = Queue!Cardinality(Queue!ToSet(t))
    BY <1>1, <1>7, <1>8, QueueOperators DEF Behind
<1>10. t[1] = order[1]
    <2>1. PICK k \in 1..N : t[k] = order[1]
        BY <1>1, <1>7, <1>8, <1>9, LenProperties DEF ToSet
    <2>2. k = 1
        <3>1. k # 1 => k \in 2..Len(t)
            BY <1>1, <1>7
        <3> QED BY <3>1, <2>1, <1>7 DEF Behind
    <2> QED BY <2>1, <2>2
<1>11. Descends(t, info)
    <2>1. \A j \in 2..N : j \in 1..N
        BY <1>1
    <2> QED BY <2>1, <1>7 DEF Descends, Behind
<1> QED BY <1>7, <1>8, <1>9, <1>10, <1>11 DEF A

-----------------------------------------------------------------------------
(* The steps of the queue *)

(* The first PR stays the first as long as it is active. *)
KeepsFirst == order # <<>> /\ order[1] \in Queue!ToSet(order') => order'[1] = order[1]

(* The queue's invariant, of the state after a step. *)
LEMMA QueueReshaped ==
    ASSUME order' \in Seq(PR), Len(order') = Queue!Cardinality(Queue!ToSet(order')),
           ToSet(order') \intersect suspended' = {}, suspended' \in SUBSET PR,
           info' \in [PR -> [number : PR, priority : Priority, suspendCount : 0 .. MaxSuspends,
                             enqueuedAt : 0 .. MaxTime, activeSince : 0 .. MaxTime]],
           now' \in 1 .. MaxTime, phase' \in {"idle", "store"},
           updates' \in SUBSET [pr : PR, priority : Priority], changed' \in BOOLEAN,
           phase' = "idle" => ~changed',
           ~changed' => Descends(order', info'),
           \A p \in PR : info'[p].number = p
    PROVE  Queue!Invariant'
<1>1. Queue!Active' = ToSet(order')
    BY QueueOperators DEF Queue!Active
<1>2. Len(order') = Queue!Cardinality(Queue!Active')
    BY <1>1, QueueOperators
<1>3. Queue!TypeOK'
    BY <1>1, <1>2 DEF Queue!TypeOK
<1> QED BY <1>3 DEF Queue!Invariant, Descends

LEMMA QueueIsWhole ==
    ASSUME Queue!Invariant
    PROVE  /\ Queue!TypeOK
           /\ phase = "idle" => ~changed
           /\ ~changed => Descends(order, info)
           /\ \A p \in PR : info[p].number = p
           /\ order \in Seq(PR) /\ Len(order) = Queue!Cardinality(Queue!ToSet(order))
           /\ ToSet(order) \intersect suspended = {} /\ suspended \in SUBSET PR
           /\ info \in [PR -> [number : PR, priority : Priority, suspendCount : 0 .. MaxSuspends,
                               enqueuedAt : 0 .. MaxTime, activeSince : 0 .. MaxTime]]
           /\ now \in 1 .. MaxTime /\ phase \in {"idle", "store"}
           /\ updates \in SUBSET [pr : PR, priority : Priority] /\ changed \in BOOLEAN
<1>1. Queue!Active = Queue!ToSet(order) /\ Queue!Active = ToSet(order)
    BY QueueOperators DEF Queue!Active
<1> QED BY <1>1 DEF Queue!Invariant, Queue!TypeOK, Descends

(* A PR enters, as a new one or as one that was suspended. *)
LEMMA EnteringKeeps ==
    ASSUME Queue!Invariant, NEW p \in PR, NEW x, Queue!EnqueueActive(x),
           x \in [number : PR, priority : Priority, suspendCount : 0 .. MaxSuspends,
                  enqueuedAt : 0 .. MaxTime, activeSince : 0 .. MaxTime],
           x.number = p, p \notin ToSet(order), suspended' \in SUBSET (suspended \ {p}),
           UNCHANGED <<now, phase, updates, changed>>
    PROVE  Queue!Invariant' /\ KeepsFirst
<1> DEFINE e == [x EXCEPT !.activeSince = now]
<1>1. /\ e \in [number : PR, priority : Priority, suspendCount : 0 .. MaxSuspends,
               enqueuedAt : 0 .. MaxTime, activeSince : 0 .. MaxTime]
      /\ e.number = p /\ e.priority \in Int
    <2>1. now \in 0 .. MaxTime
        BY QueueIsWhole, InstanceAssumption DEF Queue!OrderAssumption
    <2> QED BY <2>1, InstanceAssumption DEF Queue!OrderAssumption
<1>2. /\ order' = Queue!InsertAt(order, Queue!Position(e), e.number)
      /\ info' = [info EXCEPT ![p] = e]
    BY <1>1 DEF Queue!EnqueueActive
<1> HIDE DEF e
<1>3. /\ order' \in Seq(PR) /\ Len(order') = Queue!Cardinality(Queue!ToSet(order'))
      /\ ToSet(order') = ToSet(order) \cup {p}
      /\ order # <<>> => order'[1] = order[1]
      /\ \A i : Descends(order, info) /\ i[p].priority = e.priority
                /\ (\A q \in ToSet(order) : i[q].priority = info[q].priority)
                   => Descends(order', i)
    <2>1. Queue!TypeOK /\ e.priority \in Int /\ e.number \in PR /\ e.number \notin ToSet(order)
        BY <1>1, QueueIsWhole
    <2> DEFINE t == Queue!InsertAt(order, Queue!Position(e), e.number)
    <2>2. /\ t \in Seq(PR) /\ Len(t) = Queue!Cardinality(Queue!ToSet(t))
          /\ ToSet(t) = ToSet(order) \cup {e.number}
          /\ order # <<>> => t[1] = order[1]
          /\ \A i : Descends(order, info) /\ i[e.number].priority = e.priority
                    /\ (\A q \in ToSet(order) : i[q].priority = info[q].priority)
                       => Descends(t, i)
        BY <2>1, Enters
    <2>3. order' = t
        BY <1>2
    <2> HIDE DEF t
    <2> QED BY <2>2, <2>3, <1>1
<1>4. /\ info' \in [PR -> [number : PR, priority : Priority, suspendCount : 0 .. MaxSuspends,
                           enqueuedAt : 0 .. MaxTime, activeSince : 0 .. MaxTime]]
      /\ info'[p] = e /\ \A q \in PR : q # p => info'[q] = info[q]
      /\ \A q \in PR : info'[q].number = q
    BY <1>1, <1>2, QueueIsWhole
<1>5. ~changed' => Descends(order', info')
    <2>1. ToSet(order) \in SUBSET PR
        BY QueueIsWhole, QueueIsTyped
    <2>2. info'[p].priority = e.priority
          /\ \A q \in ToSet(order) : info'[q].priority = info[q].priority
        BY <2>1, <1>4
    <2>3. changed' = changed
        OBVIOUS
    <2> QED BY <2>2, <2>3, <1>3, QueueIsWhole
<1>6. ToSet(order') \intersect suspended' = {} /\ suspended' \in SUBSET PR
    BY <1>3, QueueIsWhole
<1>7. Queue!Invariant'
    BY <1>3, <1>4, <1>5, <1>6, QueueIsWhole, QueueReshaped
<1> QED BY <1>3, <1>7 DEF KeepsFirst

(* A PR leaves: it is suspended or dequeued. *)
LEMMA LeavingKeeps ==
    ASSUME Queue!Invariant, NEW p \in PR, NEW x, order' = Queue!RemoveFirst(order, p),
           x \in [number : PR, priority : Priority, suspendCount : 0 .. MaxSuspends,
                  enqueuedAt : 0 .. MaxTime, activeSince : 0 .. MaxTime],
           x.number = p, info' = [info EXCEPT ![p] = x], suspended' \in SUBSET (suspended \cup {p}),
           UNCHANGED <<now, phase, updates, changed>>
    PROVE  Queue!Invariant' /\ KeepsFirst
<1>1. /\ order' \in Seq(PR) /\ Len(order') = Queue!Cardinality(Queue!ToSet(order'))
      /\ ToSet(order') = ToSet(order) \ {p}
      /\ order # <<>> /\ order[1] # p => order'[1] = order[1]
      /\ \A i : Descends(order, info)
                /\ (\A q \in ToSet(order) \ {p} : i[q].priority = info[q].priority)
                   => Descends(order', i)
    <2> DEFINE t == Queue!RemoveFirst(order, p)
    <2>1. /\ t \in Seq(PR) /\ Len(t) = Queue!Cardinality(Queue!ToSet(t))
          /\ ToSet(t) = ToSet(order) \ {p}
          /\ order # <<>> /\ order[1] # p => t[1] = order[1]
          /\ \A i : Descends(order, info)
                    /\ (\A q \in ToSet(order) \ {p} : i[q].priority = info[q].priority)
                       => Descends(t, i)
        <3>1. Queue!TypeOK
            BY QueueIsWhole
        <3> HIDE DEF t
        <3>2. t = Queue!RemoveFirst(order, p)
            BY DEF t
        <3> QED BY <3>1, <3>2, Leaves, ZenonT(40)
    <2>2. order' = t
        OBVIOUS
    <2> HIDE DEF t
    <2> QED BY <2>1, <2>2
<1>2. /\ info' \in [PR -> [number : PR, priority : Priority, suspendCount : 0 .. MaxSuspends,
                           enqueuedAt : 0 .. MaxTime, activeSince : 0 .. MaxTime]]
      /\ \A q \in PR : q # p => info'[q] = info[q]
      /\ \A q \in PR : info'[q].number = q
    BY QueueIsWhole
<1>3. ~changed' => Descends(order', info')
    <2>1. ToSet(order) \in SUBSET PR
        BY QueueIsWhole, QueueIsTyped
    <2>2. \A q \in ToSet(order) \ {p} : info'[q].priority = info[q].priority
        BY <2>1, <1>2
    <2>3. ~changed' => Descends(order, info)
        BY QueueIsWhole
    <2>4. Descends(order, info) => Descends(order', info')
        BY <2>2, <1>1
    <2> QED BY <2>3, <2>4
<1>4. ToSet(order') \intersect suspended' = {} /\ suspended' \in SUBSET PR
    BY <1>1, QueueIsWhole
<1>5. Queue!Invariant'
    BY <1>1, <1>2, <1>3, <1>4, QueueIsWhole, QueueReshaped
<1>6. KeepsFirst
    <2>1. Queue!ToSet(order') = ToSet(order) \ {p}
        BY <1>1, QueueOperators
    <2> QED BY <2>1, <1>1 DEF KeepsFirst
<1> QED BY <1>5, <1>6

LEMMA QueueStarts == Queue!Init => Queue!Invariant
<1> SUFFICES ASSUME Queue!Init PROVE Queue!Invariant
    OBVIOUS
<1>1. /\ order = <<>> /\ suspended = {} /\ now = 1 /\ phase = "idle" /\ updates = {}
      /\ changed = FALSE /\ info = [p \in PR |-> Queue!NewInfo(p, 0)]
    BY DEF Queue!Init
<1>2. /\ 0 \in Priority /\ 0 \in 0 .. MaxSuspends /\ 0 \in 0 .. MaxTime /\ 1 \in 1 .. MaxTime
    BY InstanceAssumption DEF Queue!OrderAssumption
<1>3. \A p \in PR : /\ Queue!NewInfo(p, 0) \in
                         [number : PR, priority : Priority, suspendCount : 0 .. MaxSuspends,
                          enqueuedAt : 0 .. MaxTime, activeSince : 0 .. MaxTime]
                    /\ Queue!NewInfo(p, 0).number = p
    BY <1>2 DEF Queue!NewInfo
<1>4. Queue!Active = {} /\ Len(order) = Queue!Cardinality(Queue!Active)
    <2>1. Queue!Active = {}
        BY <1>1, QueueOperators DEF Queue!Active, ToSet
    <2>2. Queue!Cardinality({}) = 0 /\ Len(order) = 0
        BY <1>1, QueueOperators, FS_EmptySet
    <2> QED BY <2>1, <2>2
<1>5. Queue!TypeOK
    <2>1. info \in [PR -> [number : PR, priority : Priority, suspendCount : 0 .. MaxSuspends,
                          enqueuedAt : 0 .. MaxTime, activeSince : 0 .. MaxTime]]
        BY <1>1, <1>3
    <2>2. order \in Seq(PR)
        BY <1>1
    <2>3. /\ Queue!Active \intersect suspended = {} /\ suspended \in SUBSET PR
          /\ updates \in SUBSET [pr : PR, priority : Priority]
        BY <1>1
    <2> QED BY <2>1, <2>2, <2>3, <1>1, <1>2, <1>4 DEF Queue!TypeOK
<1> QED BY <1>1, <1>3, <1>5 DEF Queue!Invariant

LEMMA QueueSteps ==
    ASSUME Queue!Invariant, [Queue!Next]_(Queue!vars)
    PROVE  Queue!Invariant' /\ KeepsFirst
<1> USE DEF KeepsFirst
<1>1. ASSUME NEW p \in PR, Queue!Enqueue(p) PROVE Queue!Invariant' /\ KeepsFirst
    <2> DEFINE x == Queue!NewInfo(p, now)
    <2>1. /\ Queue!EnqueueActive(x) /\ p \notin Queue!Active \union suspended
          /\ UNCHANGED <<suspended, now, phase, updates, changed>>
        BY <1>1 DEF Queue!Enqueue
    <2>2. /\ x \in [number : PR, priority : Priority, suspendCount : 0 .. MaxSuspends,
                    enqueuedAt : 0 .. MaxTime, activeSince : 0 .. MaxTime]
          /\ x.number = p
        <3>1. now \in 0 .. MaxTime /\ 0 \in Priority /\ 0 \in 0 .. MaxSuspends /\ 0 \in 0 .. MaxTime
            BY QueueIsWhole, InstanceAssumption DEF Queue!OrderAssumption
        <3> QED BY <3>1 DEF Queue!NewInfo
    <2> HIDE DEF x
    <2>3. p \notin ToSet(order) /\ suspended' \in SUBSET (suspended \ {p})
        BY <2>1, QueueOperators DEF Queue!Active
    <2> QED BY <2>1, <2>2, <2>3, EnteringKeeps
<1>2. ASSUME NEW p \in PR, Queue!Resume(p) PROVE Queue!Invariant' /\ KeepsFirst
    <2> DEFINE x == info[p]
    <2>1. /\ Queue!EnqueueActive(x) /\ p \in suspended /\ suspended' = suspended \ {p}
          /\ UNCHANGED <<now, phase, updates, changed>>
        BY <1>2 DEF Queue!Resume
    <2>2. /\ x \in [number : PR, priority : Priority, suspendCount : 0 .. MaxSuspends,
                    enqueuedAt : 0 .. MaxTime, activeSince : 0 .. MaxTime]
          /\ x.number = p
        BY QueueIsWhole
    <2> HIDE DEF x
    <2>3. p \notin ToSet(order) /\ suspended' \in SUBSET (suspended \ {p})
        BY <2>1, QueueIsWhole
    <2> QED BY <2>1, <2>2, <2>3, EnteringKeeps
<1>3. ASSUME NEW p \in PR, Queue!Suspend(p) PROVE Queue!Invariant' /\ KeepsFirst
    <2> DEFINE x == [info[p] EXCEPT !.suspendCount = @ + 1]
    <2>1. /\ info[p].suspendCount < MaxSuspends /\ order' = Queue!RemoveFirst(order, p)
          /\ suspended' = suspended \union {p} /\ info' = [info EXCEPT ![p] = x]
          /\ UNCHANGED <<now, phase, updates, changed>>
        BY <1>3 DEF Queue!Suspend
    <2>2. /\ x \in [number : PR, priority : Priority, suspendCount : 0 .. MaxSuspends,
                    enqueuedAt : 0 .. MaxTime, activeSince : 0 .. MaxTime]
          /\ x.number = p
        <3>1. /\ info[p] \in [number : PR, priority : Priority, suspendCount : 0 .. MaxSuspends,
                              enqueuedAt : 0 .. MaxTime, activeSince : 0 .. MaxTime]
              /\ info[p].number = p
            BY QueueIsWhole
        <3>2. info[p].suspendCount + 1 \in 0 .. MaxSuspends
            BY <3>1, <2>1, InstanceAssumption DEF Queue!OrderAssumption
        <3> QED BY <3>1, <3>2
    <2> HIDE DEF x
    <2> QED BY <2>1, <2>2, LeavingKeeps
<1>4. ASSUME NEW p \in PR, Queue!Dequeue(p) PROVE Queue!Invariant' /\ KeepsFirst
    <2> DEFINE x == Queue!NewInfo(p, 0)
    <2>1. /\ order' = Queue!RemoveFirst(order, p)
          /\ suspended' = suspended \ {p} /\ info' = [info EXCEPT ![p] = x]
          /\ UNCHANGED <<now, phase, updates, changed>>
        BY <1>4 DEF Queue!Dequeue
    <2>2. /\ x \in [number : PR, priority : Priority, suspendCount : 0 .. MaxSuspends,
                    enqueuedAt : 0 .. MaxTime, activeSince : 0 .. MaxTime]
          /\ x.number = p
        <3>1. 0 \in Priority /\ 0 \in 0 .. MaxSuspends /\ 0 \in 0 .. MaxTime
            BY InstanceAssumption DEF Queue!OrderAssumption
        <3> QED BY <3>1 DEF Queue!NewInfo
    <2> HIDE DEF x
    <2> QED BY <2>1, <2>2, LeavingKeeps
<1>5. CASE Queue!BeginUpdate
    <2>1. /\ phase = "idle" /\ phase' = "store" /\ UNCHANGED <<order, suspended, info, now, changed>>
          /\ updates' \in SUBSET [pr : PR, priority : Priority]
        BY <1>5 DEF Queue!BeginUpdate
    <2>2. ~changed' => Descends(order', info')
        BY <2>1, QueueIsWhole DEF Descends
    <2>3. Queue!Invariant'
        BY <2>1, <2>2, QueueIsWhole, QueueReshaped
    <2> QED BY <2>1, <2>3
<1>6. CASE Queue!StorePriority
    <2>1. PICK u \in updates :
              /\ updates' = updates \ {u}
              /\ IF u.pr \in Queue!Active \union suspended
                 THEN /\ info' = [info EXCEPT ![u.pr].priority = u.priority]
                      /\ changed' = TRUE
                 ELSE UNCHANGED <<info, changed>>
        BY <1>6 DEF Queue!StorePriority
    <2>2. phase = "store" /\ UNCHANGED <<order, suspended, now, phase>>
        BY <1>6 DEF Queue!StorePriority
    <2>3. u.pr \in PR /\ u.priority \in Priority
        BY QueueIsWhole
    <2>4. CASE UNCHANGED <<info, changed>>
        <3>1. ~changed' => Descends(order', info')
            BY <2>2, <2>4, QueueIsWhole DEF Descends
        <3> QED BY <3>1, <2>1, <2>2, <2>4, QueueIsWhole, QueueReshaped
    <2>5. CASE info' = [info EXCEPT ![u.pr].priority = u.priority] /\ changed' = TRUE
        <3>1. /\ info' \in [PR -> [number : PR, priority : Priority, suspendCount : 0 .. MaxSuspends,
                                   enqueuedAt : 0 .. MaxTime, activeSince : 0 .. MaxTime]]
              /\ \A p \in PR : info'[p].number = p
            <4> DEFINE x == [info[u.pr] EXCEPT !.priority = u.priority]
            <4>1. /\ x \in [number : PR, priority : Priority, suspendCount : 0 .. MaxSuspends,
                            enqueuedAt : 0 .. MaxTime, activeSince : 0 .. MaxTime]
                  /\ x.number = u.pr
                <5>1. /\ info[u.pr] \in [number : PR, priority : Priority,
                                         suspendCount : 0 .. MaxSuspends,
                                         enqueuedAt : 0 .. MaxTime, activeSince : 0 .. MaxTime]
                      /\ info[u.pr].number = u.pr
                    BY <2>3, QueueIsWhole
                <5> QED BY <5>1, <2>3
            <4>2. info' = [info EXCEPT ![u.pr] = x]
                BY <2>5
            <4> HIDE DEF x
            <4> QED BY <4>1, <4>2, <2>3, QueueIsWhole
        <3>2. changed' /\ changed' \in BOOLEAN /\ phase' # "idle"
            BY <2>2, <2>5
        <3> QED BY <3>1, <3>2, <2>1, <2>2, QueueIsWhole, QueueReshaped
    <2> QED BY <2>1, <2>4, <2>5
<1>7. CASE Queue!EndUpdate
    <2>1. /\ IF changed /\ order # <<>> THEN order' \in Queue!SortedOrders ELSE UNCHANGED order
          /\ phase' = "idle" /\ changed' = FALSE
          /\ UNCHANGED <<suspended, info, now, updates>>
        BY <1>7 DEF Queue!EndUpdate
    <2>2. /\ order' \in Seq(PR) /\ Len(order') = Queue!Cardinality(Queue!ToSet(order'))
          /\ ToSet(order') = ToSet(order) /\ Descends(order', info)
          /\ order # <<>> => order'[1] = order[1]
        <3>1. CASE changed /\ order # <<>>
            BY <2>1, <3>1, QueueIsWhole, SortedIs
        <3>2. CASE ~changed
            BY <2>1, <3>2, QueueIsWhole
        <3>3. CASE order = <<>>
            <4>1. order' = order
                BY <2>1, <3>3
            <4>2. Descends(order', info)
                BY <4>1, <3>3 DEF Descends
            <4> QED BY <4>1, <4>2, <3>3, QueueIsWhole
        <3> QED BY <3>1, <3>2, <3>3
    <2>3. Descends(order', info')
        BY <2>1, <2>2 DEF Descends
    <2>4. Queue!Invariant'
        BY <2>1, <2>2, <2>3, QueueIsWhole, QueueReshaped
    <2> QED BY <2>2, <2>4
<1>8. CASE Queue!Tick
    <2>1. now < MaxTime /\ now' = now + 1
          /\ UNCHANGED <<order, suspended, info, phase, updates, changed>>
        BY <1>8 DEF Queue!Tick
    <2>2. now' \in 1 .. MaxTime
        BY <2>1, QueueIsWhole, InstanceAssumption DEF Queue!OrderAssumption
    <2>3. ~changed' => Descends(order', info')
        BY <2>1, QueueIsWhole DEF Descends
    <2>4. Queue!Invariant'
        BY <2>1, <2>2, <2>3, QueueIsWhole, QueueReshaped
    <2> QED BY <2>1, <2>4
<1>9. CASE UNCHANGED Queue!vars
    <2>1. UNCHANGED <<order, suspended, info, now, phase, updates, changed>>
        BY <1>9 DEF Queue!vars
    <2>2. ~changed' => Descends(order', info')
        BY <2>1, QueueIsWhole DEF Descends
    <2>3. Queue!Invariant'
        BY <2>1, <2>2, QueueIsWhole, QueueReshaped
    <2> QED BY <2>1, <2>3
<1> QED BY <1>1, <1>2, <1>3, <1>4, <1>5, <1>6, <1>7, <1>8, <1>9 DEF Queue!Next

LEMMA QueuePartSteps == [OrderNext]_allVars => [Queue!Next]_(Queue!vars)
BY DEF OrderNext, allVars, queueVars, Queue!vars

(* PRs enter, leave, are suspended and resumed between the priorities that are stored *)
(* one by one: the queue knows each PR once, as an active or a suspended one, and     *)
(* unless a priority was changed since the last sort the PRs behind the first one are *)
(* ordered by priority (queue.go:231, coordinator.go:1191-1210).                      *)
THEOREM ActiveStayInOrder == OrderSpec => []Queue!Invariant
<1>1. OrderInit => Queue!Invariant
    BY QueueStarts DEF OrderInit
<1>2. Queue!Invariant /\ [OrderNext]_allVars => Queue!Invariant'
    BY QueueSteps, QueuePartSteps
<1> QED BY <1>1, <1>2, PTL DEF OrderSpec

(* Whenever no update of priorities is under way the PRs behind the first one are     *)
(* ordered by priority (coordinator.go:1191-1210).                                    *)
THEOREM PrioritiesAreRespected == OrderSpec => []PrioritiesRespected
<1>1. Queue!Invariant => PrioritiesRespected
    BY DEF PrioritiesRespected, Queue!PrioritiesRespected, Queue!Invariant
<1> QED BY <1>1, ActiveStayInOrder, PTL

(* The first PR, for which CI jobs are running, stays the first one as long as it is  *)
(* active, whatever enters and whatever is sorted (orderedmap.go:22, queue.go:231).   *)
THEOREM FirstStaysFirst == OrderSpec => FirstIsStatic
<1>1. Queue!Invariant /\ [OrderNext]_allVars
          => [order # <<>> /\ order[1] \in Queue!ToSet(order') => order'[1] = order[1]]_(Queue!vars)
    BY QueueSteps, QueuePartSteps DEF KeepsFirst
<1>2. OrderSpec =>
          [][order # <<>> /\ order[1] \in Queue!ToSet(order') => order'[1] = order[1]]_(Queue!vars)
    BY <1>1, ActiveStayInOrder, PTL DEF OrderSpec
<1> QED BY <1>2 DEF FirstIsStatic, Queue!FirstIsStatic

=============================================================================

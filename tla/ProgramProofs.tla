---------------------------- MODULE ProgramProofs ----------------------------
(***************************************************************************)
(* Theorems about what surrounds the queues, for any number of callers,    *)
(* PRs, branches, events and crashes.                                      *)
(*                                                                         *)
(* Membership: Invariant says that the events in the channel, one after    *)
(* the other, bring each PR to the queue where it belongs, and each PR     *)
(* that the sync did not list yet from wherever it will be listed.  A PR   *)
(* that is being resumed counts as one of the queue that it will be put    *)
(* back into.  It is inductive if closed PRs stay closed and there is one  *)
(* trigger; TwoTriggers shows what happens otherwise.                      *)
(*                                                                         *)
(* Sync: Invariant says which actions the synchronization still owes each  *)
(* PR, and that the heads of a former process are enqueued before the      *)
(* others.                                                                 *)
(*                                                                         *)
(* Retryer: its Invariant is inductive.                                    *)
(***************************************************************************)
EXTENDS MCProgram, SequenceTheorems, FiniteSetTheorems, TLAPS


-----------------------------------------------------------------------------
(* Sequences without repetition. *)

(* The members of a sequence, and where they are. *)
LEMMA Members ==
    ASSUME NEW S, NEW s \in Seq(S)
    PROVE  /\ Len(s) \in Nat /\ DOMAIN s = 1..Len(s)
           /\ \A i \in 1..Len(s) : s[i] \in S
           /\ \A x : x \in Events!ToSet(s) <=> \E i \in 1..Len(s) : s[i] = x
           /\ \A x : Events!Contains(s, x) <=> x \in Events!ToSet(s)
           /\ Events!ToSet(s) \subseteq S
           /\ Events!IsInjective(s) <=> \A i, j \in 1..Len(s) : s[i] = s[j] => i = j
  <1>1. Len(s) \in Nat /\ DOMAIN s = 1..Len(s)
    BY LenProperties
  <1>2. \A i \in 1..Len(s) : s[i] \in S
    BY ElementOfSeq
  <1>3. \A x : x \in Events!ToSet(s) <=> \E i \in 1..Len(s) : s[i] = x
    BY <1>1 DEF Events!ToSet
  <1>4. \A x : Events!Contains(s, x) <=> x \in Events!ToSet(s)
    BY <1>3 DEF Events!Contains
  <1>5. Events!IsInjective(s) <=> \A i, j \in 1..Len(s) : s[i] = s[j] => i = j
    BY <1>1 DEF Events!IsInjective
  <1> QED
    BY <1>1, <1>2, <1>3, <1>4, <1>5

LEMMA AppendMember ==
    ASSUME NEW S, NEW s \in Seq(S), NEW x \in S
    PROVE  /\ Append(s, x) \in Seq(S)
           /\ Events!ToSet(Append(s, x)) = Events!ToSet(s) \cup {x}
           /\ Events!IsInjective(s) /\ x \notin Events!ToSet(s) => Events!IsInjective(Append(s, x))
  <1> DEFINE t == Append(s, x)
  <1>1. /\ t \in Seq(S) /\ Len(t) = Len(s) + 1 /\ Len(s) \in Nat
        /\ \A i \in 1..Len(s) : t[i] = s[i]
        /\ t[Len(s) + 1] = x
    BY AppendProperties, LenProperties
  <1> HIDE DEF t
  <1>2. \A i \in 1..Len(t) : i \in 1..Len(s) \/ i = Len(s) + 1
    BY <1>1
  <1>3. \A i \in 1..Len(s) : i \in 1..Len(t)
    BY <1>1
  <1>4. Len(s) + 1 \in 1..Len(t)
    BY <1>1
  <1>0. /\ \A y : y \in Events!ToSet(t) <=> \E i \in 1..Len(t) : t[i] = y
        /\ \A y : y \in Events!ToSet(s) <=> \E i \in 1..Len(s) : s[i] = y
        /\ Events!IsInjective(s) <=> \A i, j \in 1..Len(s) : s[i] = s[j] => i = j
        /\ Events!IsInjective(t) <=> \A i, j \in 1..Len(t) : t[i] = t[j] => i = j
    BY <1>1, Members
  <1>5. \A y : y \in Events!ToSet(t) <=> y \in Events!ToSet(s) \/ y = x
    BY <1>0, <1>1, <1>2, <1>3, <1>4
  <1>6. Events!IsInjective(s) /\ x \notin Events!ToSet(s) => Events!IsInjective(t)
    BY <1>0, <1>1, <1>2, <1>3, <1>4
  <1> QED
    BY <1>1, <1>5, <1>6 DEF t

LEMMA ConcatMembers ==
    ASSUME NEW S, NEW s \in Seq(S), NEW r \in Seq(S)
    PROVE  /\ s \o r \in Seq(S)
           /\ Events!ToSet(s \o r) = Events!ToSet(s) \cup Events!ToSet(r)
           /\ Events!IsInjective(s) /\ Events!IsInjective(r) /\ Events!ToSet(s) \cap Events!ToSet(r) = {} => Events!IsInjective(s \o r)
  <1> DEFINE t == s \o r
  <1>1. /\ t \in Seq(S) /\ Len(t) = Len(s) + Len(r) /\ Len(s) \in Nat /\ Len(r) \in Nat
        /\ \A i \in 1..Len(s) + Len(r) : t[i] = IF i <= Len(s) THEN s[i] ELSE r[i - Len(s)]
    BY ConcatProperties, LenProperties
  <1> HIDE DEF t
  <1>2. \A i \in 1..Len(t) : \/ i \in 1..Len(s) /\ t[i] = s[i]
                             \/ i - Len(s) \in 1..Len(r) /\ t[i] = r[i - Len(s)]
    BY <1>1
  <1>3. \A i \in 1..Len(s) : i \in 1..Len(t) /\ t[i] = s[i]
    BY <1>1
  <1>4. \A i \in 1..Len(r) : Len(s) + i \in 1..Len(t) /\ t[Len(s) + i] = r[i]
    <2>1. ASSUME NEW i \in 1..Len(r)
          PROVE  Len(s) + i \in 1..Len(s) + Len(r) /\ ~(Len(s) + i <= Len(s)) /\ (Len(s) + i) - Len(s) = i
      BY <1>1
    <2> QED
      BY <1>1, <2>1
  <1>0. /\ \A y : y \in Events!ToSet(t) <=> \E i \in 1..Len(t) : t[i] = y
        /\ \A y : y \in Events!ToSet(s) <=> \E i \in 1..Len(s) : s[i] = y
        /\ \A y : y \in Events!ToSet(r) <=> \E i \in 1..Len(r) : r[i] = y
    BY <1>1, Members
  <1>5. \A y : y \in Events!ToSet(t) <=> y \in Events!ToSet(s) \/ y \in Events!ToSet(r)
    <2>1. \A y : y \in Events!ToSet(t) => y \in Events!ToSet(s) \/ y \in Events!ToSet(r)
      BY <1>0, <1>2
    <2>2. \A y : y \in Events!ToSet(s) \/ y \in Events!ToSet(r) => y \in Events!ToSet(t)
      BY <1>0, <1>3, <1>4
    <2> QED
      BY <2>1, <2>2
  <1>6. ASSUME Events!IsInjective(s), Events!IsInjective(r), Events!ToSet(s) \cap Events!ToSet(r) = {},
               NEW i \in 1..Len(t), NEW j \in 1..Len(t), t[i] = t[j]
        PROVE  i = j
    <2>1. CASE i \in 1..Len(s) /\ j \in 1..Len(s)
      BY <1>2, <1>3, <1>6, <2>1, Members
    <2>2. CASE i \notin 1..Len(s) /\ j \notin 1..Len(s)
      <3>1. i - Len(s) \in 1..Len(r) /\ j - Len(s) \in 1..Len(r) /\ r[i - Len(s)] = r[j - Len(s)]
        BY <1>2, <1>6, <2>2
      <3>2. i - Len(s) = j - Len(s)
        BY <1>6, <3>1, Members
      <3> QED
        BY <1>1, <3>2
    <2>3. CASE i \in 1..Len(s) /\ j \notin 1..Len(s)
      <3>1. t[i] \in Events!ToSet(s) /\ t[j] \in Events!ToSet(r)
        BY <1>2, <1>3, <2>3, Members
      <3> QED
        BY <1>6, <3>1
    <2>4. CASE i \notin 1..Len(s) /\ j \in 1..Len(s)
      <3>1. t[j] \in Events!ToSet(s) /\ t[i] \in Events!ToSet(r)
        BY <1>2, <1>3, <2>4, Members
      <3> QED
        BY <1>6, <3>1
    <2> QED
      BY <2>1, <2>2, <2>3, <2>4
  <1>7. Events!IsInjective(s) /\ Events!IsInjective(r) /\ Events!ToSet(s) \cap Events!ToSet(r) = {} => Events!IsInjective(t)
    BY <1>1, <1>6, Members
  <1> QED
    BY <1>1, <1>5, <1>7 DEF t

(* Dropped(): the element of p leaves, the others stay. *)
LEMMA DroppedMember ==
    ASSUME NEW S, NEW s \in Seq(S), Events!IsInjective(s), NEW p
    PROVE  /\ Events!Dropped(s, p) \in Seq(S)
           /\ Events!ToSet(Events!Dropped(s, p)) = Events!ToSet(s) \ {p}
           /\ Events!IsInjective(Events!Dropped(s, p))
  <1>1. CASE ~Events!Contains(s, p)
    BY <1>1, Members DEF Events!Dropped
  <1>2. CASE Events!Contains(s, p)
    <2> DEFINE n == CHOOSE i \in 1..Len(s) : s[i] = p
               l == SubSeq(s, 1, n - 1)
               r == SubSeq(s, n + 1, Len(s))
    <2>1. n \in 1..Len(s) /\ s[n] = p
      BY <1>2 DEF Events!Contains
    <2>2. Events!Dropped(s, p) = l \o r
      BY <1>2 DEF Events!Dropped, Events!RemoveAt
    <2> HIDE DEF n
    <2>0. /\ Len(s) \in Nat /\ \A i \in 1..Len(s) : s[i] \in S
          /\ \A i, j \in 1..Len(s) : s[i] = s[j] => i = j
          /\ n \in Nat /\ n >= 1 /\ n <= Len(s)
      BY <2>1, Members
    <2>3. /\ l \in Seq(S) /\ Len(l) = n - 1 /\ \A i \in 1..(n - 1) : l[i] = s[i]
      <3>1. /\ l \in Seq(S) /\ Len(l) = IF 1 <= n - 1 THEN n - 1 - 1 + 1 ELSE 0
            /\ \A i \in 1..(n - 1 - 1 + 1) : l[i] = s[1 + i - 1]
        <4>1. 1 \in Int /\ n - 1 \in Int /\ \A i \in 1..(n - 1) : s[i] \in S
          BY <2>0
        <4> QED
          BY <4>1, SubSeqProperties
      <3> HIDE DEF l
      <3> QED
        BY <2>0, <3>1
    <2>4. /\ r \in Seq(S) /\ Len(r) = Len(s) - n /\ \A i \in 1..(Len(s) - n) : r[i] = s[n + i]
      <3>1. /\ r \in Seq(S) /\ Len(r) = IF n + 1 <= Len(s) THEN Len(s) - (n + 1) + 1 ELSE 0
            /\ \A i \in 1..(Len(s) - (n + 1) + 1) : r[i] = s[n + 1 + i - 1]
        <4>1. n + 1 \in Int /\ Len(s) \in Int /\ \A i \in (n + 1)..Len(s) : s[i] \in S
          BY <2>0
        <4> QED
          BY <4>1, SubSeqProperties
      <3> HIDE DEF r
      <3>2. \A i \in 1..(Len(s) - n) : n + 1 + i - 1 = n + i /\ i \in 1..(Len(s) - (n + 1) + 1)
        BY <2>0
      <3> QED
        BY <2>0, <3>1, <3>2
    <2> HIDE DEF l, r
    <2>5. Events!ToSet(l) = {s[i] : i \in 1..(n - 1)} /\ Events!ToSet(r) = {s[i] : i \in (n + 1)..Len(s)}
      <3>1. \A i \in (n + 1)..Len(s) : i - n \in 1..(Len(s) - n) /\ n + (i - n) = i
        BY <2>0
      <3>2. \A i \in 1..(Len(s) - n) : n + i \in (n + 1)..Len(s)
        BY <2>0
      <3> QED
        BY <2>3, <2>4, <3>1, <3>2, Members
    <2>6. Events!ToSet(l) \cup Events!ToSet(r) = Events!ToSet(s) \ {p} /\ Events!ToSet(l) \cap Events!ToSet(r) = {}
      <3>1. \A i \in 1..Len(s) : i \in 1..(n - 1) \/ i = n \/ i \in (n + 1)..Len(s)
        BY <2>0
      <3>2. \A i \in 1..(n - 1) : i \in 1..Len(s) /\ i # n
        BY <2>0
      <3>3. \A i \in (n + 1)..Len(s) : i \in 1..Len(s) /\ i # n
        BY <2>0
      <3>4. \A i \in 1..(n - 1), j \in (n + 1)..Len(s) : i # j
        BY <2>0
      <3>5. \A x : x \in Events!ToSet(s) <=> \E i \in 1..Len(s) : s[i] = x
        BY Members
      <3> QED
        BY <2>0, <2>1, <2>5, <3>1, <3>2, <3>3, <3>4, <3>5
    <2>7. Events!IsInjective(l) /\ Events!IsInjective(r)
      <3>1. \A i \in 1..(n - 1) : i \in 1..Len(s)
        BY <2>0
      <3>2. \A i \in 1..(Len(s) - n) : n + i \in 1..Len(s)
        BY <2>0
      <3>3. \A i, j \in 1..(Len(s) - n) : n + i = n + j => i = j
        BY <2>0
      <3>4. \A i, j \in 1..Len(l) : l[i] = l[j] => i = j
        BY <2>0, <2>3, <3>1
      <3>5. \A i, j \in 1..Len(r) : r[i] = r[j] => i = j
        BY <2>0, <2>4, <3>2, <3>3
      <3> QED
        BY <2>3, <2>4, <3>4, <3>5, Members
    <2> QED
      BY <2>2, <2>3, <2>4, <2>6, <2>7, ConcatMembers
  <1> QED
    BY <1>1, <1>2

(* A finite set in any order. *)
LEMMA OrderedSet ==
    ASSUME NEW S, IsFiniteSet(S), NEW s \in Events!SetToSeqs(S)
    PROVE  s \in Seq(S) /\ Events!ToSet(s) = S /\ Events!IsInjective(s)
  <1> DEFINE n == Cardinality(S)
  <1>1. n \in Nat /\ s \in [1..n -> S] /\ \A i, j \in 1..n : i # j => s[i] # s[j]
    <2>1. n \in Nat
      BY FS_CardinalityType
    <2>2. Events!Cardinality(S) = n
      BY DEF Events!Cardinality, Cardinality
    <2> HIDE DEF n
    <2> QED
      BY <2>1, <2>2 DEF Events!SetToSeqs
  <1>2. s \in Seq(S)
    BY <1>1, SeqDef
  <1>3. Events!IsInjective(s)
    BY <1>1 DEF Events!IsInjective
  <1>4. IsFiniteSet(1..n) /\ Cardinality(1..n) = n
    BY <1>1, FS_Interval
  <1>5. Events!ToSet(s) \subseteq S /\ Events!ToSet(s) = {s[i] : i \in 1..n}
    BY <1>1 DEF Events!ToSet
  <1>6. \A x \in S : x \in Events!ToSet(s)
    <2> SUFFICES ASSUME NEW x \in S, x \notin Events!ToSet(s) PROVE FALSE
      OBVIOUS
    <2> DEFINE T == S \ {x}
    <2>1. IsFiniteSet(T) /\ Cardinality(T) = n - 1
      BY FS_RemoveElement
    <2>2. s \in [1..n -> T]
      BY <1>1, <1>5
    <2>3. Cardinality(T) < Cardinality(1..n)
      BY <1>1, <1>4, <2>1
    <2> HIDE DEF T
    <2>4. \E i, j \in 1..n : i # j /\ s[i] = s[j]
      BY <1>4, <2>1, <2>2, <2>3, FS_PigeonHole
    <2> QED
      BY <1>1, <2>4
  <1> QED
    BY <1>2, <1>3, <1>5, <1>6

-----------------------------------------------------------------------------
(* What the events in the channel do to a PR. *)

(* Runs of events: R[i] is where PR p is queued after i events of c.         *)
Follows(R, c, p) ==
    /\ R \in [0..Len(c) -> SUBSET Branch]
    /\ \A i \in 1..Len(c) : R[i] = Events!After(c[i], p, R[i - 1])

(* The events of c take PR p from the branches S to the branches T.          *)
Takes(c, p, S, T) == \E R : Follows(R, c, p) /\ R[0] = S /\ R[Len(c)] = T

(* After() keeps to the branches, grows with the set that it is given, and   *)
(* leaves the PRs alone that the event is not about.                         *)
LEMMA AfterFacts ==
    ASSUME NEW e, NEW p
    PROVE  /\ \A S : Events!After(e, p, S) \subseteq Branch
           /\ \A S, T : S \subseteq T => Events!After(e, p, S) \subseteq Events!After(e, p, T)
           /\ e.pr # p => \A S \in SUBSET Branch : Events!After(e, p, S) = S
  BY DEF Events!After, Events!Enters, Events!Leaves

LEMMA TakesBranches ==
    ASSUME NEW X, NEW c \in Seq(X), NEW p, NEW S, NEW T, Takes(c, p, S, T)
    PROVE  S \subseteq Branch /\ T \subseteq Branch
  <1>1. PICK R : Follows(R, c, p) /\ R[0] = S /\ R[Len(c)] = T
    BY DEF Takes
  <1>2. Len(c) \in Nat
    BY LenProperties
  <1>3. 0 \in 0..Len(c) /\ Len(c) \in 0..Len(c)
    BY <1>2
  <1> QED
    BY <1>1, <1>3 DEF Follows

(* No events take a PR nowhere. *)
LEMMA TakesNothing ==
    ASSUME NEW p
    PROVE  \A S \in SUBSET Branch : Takes(<<>>, p, S, S)
  <1> TAKE S \in SUBSET Branch
  <1> DEFINE R == [i \in 0..0 |-> S]
  <1>1. Len(<<>>) = 0
    BY EmptySeq
  <1>2. R \in [0..Len(<<>>) -> SUBSET Branch] /\ R[0] = S
    BY <1>1
  <1>3. \A i \in 1..Len(<<>>) : FALSE
    BY <1>1
  <1> HIDE DEF R
  <1>4. Follows(R, <<>>, p)
    BY <1>2, <1>3 DEF Follows
  <1> QED
    BY <1>1, <1>2, <1>4 DEF Takes

(* The first event is processed. *)
LEMMA TakesFirst ==
    ASSUME NEW X, NEW c \in Seq(X), c # <<>>, NEW p, NEW S, NEW T, Takes(c, p, S, T)
    PROVE  Takes(Tail(c), p, Events!After(Head(c), p, S), T)
  <1>1. PICK R : Follows(R, c, p) /\ R[0] = S /\ R[Len(c)] = T
    BY DEF Takes
  <1>2. Len(c) \in Nat \ {0} /\ Head(c) = c[1]
    BY LenProperties, EmptySeq, HeadTailProperties
  <1>3. Tail(c) \in Seq(X) /\ Len(Tail(c)) = Len(c) - 1 /\ \A i \in 1..Len(Tail(c)) : Tail(c)[i] = c[i + 1]
    BY HeadTailProperties
  <1> DEFINE d == Tail(c)
             Q == [i \in 0..Len(d) |-> R[i + 1]]
  <1>4. d \in Seq(X) /\ Len(d) = Len(c) - 1 /\ \A i \in 1..Len(d) : d[i] = c[i + 1]
    BY <1>3
  <1> HIDE DEF d
  <1>5. \A i \in 0..Len(d) : Q[i] = R[i + 1] /\ i + 1 \in 1..Len(c) /\ i + 1 \in 0..Len(c)
    BY <1>2, <1>4
  <1>6. Q \in [0..Len(d) -> SUBSET Branch]
    BY <1>1, <1>5 DEF Follows
  <1> HIDE DEF Q
  <1>7. ASSUME NEW i \in 1..Len(d)
        PROVE  Q[i] = Events!After(d[i], p, Q[i - 1])
    <2>1. i \in 0..Len(d) /\ i - 1 \in 0..Len(d) /\ (i - 1) + 1 = i /\ (i + 1) - 1 = i
      BY <1>2, <1>4
    <2>2. Q[i] = R[i + 1] /\ Q[i - 1] = R[i] /\ d[i] = c[i + 1]
      BY <1>4, <1>5, <2>1
    <2>3. R[i + 1] = Events!After(c[i + 1], p, R[(i + 1) - 1])
      BY <1>1, <1>5, <2>1 DEF Follows
    <2> QED
      BY <2>1, <2>2, <2>3
  <1>8. Follows(Q, d, p)
    BY <1>6, <1>7 DEF Follows
  <1>9. Q[0] = Events!After(Head(c), p, S)
    <2>1. 0 \in 0..Len(d) /\ 1 \in 1..Len(c) /\ 1 - 1 = 0 /\ 0 + 1 = 1
      BY <1>2, <1>4
    <2>2. R[1] = Events!After(c[1], p, R[1 - 1])
      BY <1>1, <2>1 DEF Follows
    <2> QED
      BY <1>1, <1>2, <1>5, <2>1, <2>2
  <1>10. Q[Len(d)] = T
    <2>1. Len(d) \in 0..Len(d) /\ Len(d) + 1 = Len(c)
      BY <1>2, <1>4
    <2> QED
      BY <1>1, <1>5, <2>1
  <1>11. Takes(d, p, Events!After(Head(c), p, S), T)
    BY <1>8, <1>9, <1>10 DEF Takes
  <1> QED
    BY <1>11 DEF d

(* An event is sent. *)
LEMMA TakesOneMore ==
    ASSUME NEW X, NEW c \in Seq(X), NEW e \in X, NEW p, NEW S, NEW T, Takes(c, p, S, T)
    PROVE  Takes(Append(c, e), p, S, Events!After(e, p, T))
  <1>1. PICK R : Follows(R, c, p) /\ R[0] = S /\ R[Len(c)] = T
    BY DEF Takes
  <1>2. Len(c) \in Nat
    BY LenProperties
  <1> DEFINE d == Append(c, e)
             Q == [i \in 0..Len(d) |-> IF i = Len(d) THEN Events!After(e, p, T) ELSE R[i]]
  <1>3. Len(d) = Len(c) + 1 /\ (\A i \in 1..Len(c) : d[i] = c[i]) /\ d[Len(c) + 1] = e
    BY AppendProperties
  <1> HIDE DEF d
  <1>4. /\ \A i \in 0..Len(d) : i = Len(d) \/ i \in 0..Len(c)
        /\ \A i \in 0..Len(c) : i \in 0..Len(d) /\ i # Len(d)
        /\ Len(d) \in 0..Len(d)
    BY <1>2, <1>3
  <1>5. Q[Len(d)] = Events!After(e, p, T) /\ \A i \in 0..Len(c) : Q[i] = R[i]
    BY <1>4
  <1>6. Q \in [0..Len(d) -> SUBSET Branch]
    <2>1. Events!After(e, p, T) \in SUBSET Branch
      BY AfterFacts
    <2>2. \A i \in 0..Len(c) : R[i] \in SUBSET Branch
      BY <1>1 DEF Follows
    <2> QED
      BY <1>4, <2>1, <2>2
  <1> HIDE DEF Q
  <1>7. ASSUME NEW i \in 1..Len(d)
        PROVE  Q[i] = Events!After(d[i], p, Q[i - 1])
    <2>1. CASE i = Len(d)
      <3>1. i - 1 = Len(c) /\ Len(c) \in 0..Len(c)
        BY <1>2, <1>3, <2>1
      <3>2. Q[i - 1] = T /\ d[i] = e
        BY <1>1, <1>3, <1>5, <2>1, <3>1
      <3> QED
        BY <1>5, <2>1, <3>2
    <2>2. CASE i # Len(d)
      <3>1. i \in 1..Len(c) /\ i \in 0..Len(c) /\ i - 1 \in 0..Len(c)
        BY <1>2, <1>3, <2>2
      <3>2. Q[i] = R[i] /\ Q[i - 1] = R[i - 1] /\ d[i] = c[i]
        BY <1>3, <1>5, <3>1
      <3>3. R[i] = Events!After(c[i], p, R[i - 1])
        BY <1>1, <3>1 DEF Follows
      <3> QED
        BY <3>2, <3>3
    <2> QED
      BY <2>1, <2>2
  <1>8. Q[0] = S
    <2>1. 0 \in 0..Len(c)
      BY <1>2
    <2> QED
      BY <1>1, <1>5, <2>1
  <1>9. Takes(d, p, S, Events!After(e, p, T))
    BY <1>5, <1>6, <1>7, <1>8 DEF Takes, Follows
  <1> QED
    BY <1>9 DEF d

(* Settles() and WouldSettle() in terms of Takes(), before a step and after it. *)
LEMMA SettlesMeans ==
    ASSUME NEW p
    PROVE  /\ Events!Settles(p) <=>
                \E S : /\ Events!Places(p) \subseteq S
                       /\ p \in open => S = Events!Places(p)
                       /\ Takes(channel, p, S, Events!WantedFor(p))
           /\ Events!Settles(p)' <=>
                \E S : /\ Events!Places(p)' \subseteq S
                       /\ p \in open' => S = Events!Places(p)'
                       /\ Takes(channel', p, S, Events!WantedFor(p)')
  <1>1. \A R : R \in Events!Replays(p) <=> Follows(R, channel, p)
    BY DEF Events!Replays, Follows
  <1>2. \A R : R \in Events!Replays(p)' <=> Follows(R, channel', p)
    BY DEF Events!Replays, Follows
  <1>3. Events!Settles(p) <=> \E R \in Events!Replays(p) :
            /\ Events!Places(p) \subseteq R[0]
            /\ p \in open => R[0] = Events!Places(p)
            /\ R[Len(channel)] = Events!WantedFor(p)
    BY DEF Events!Settles
  <1>4. Events!Settles(p)' <=> \E R \in Events!Replays(p)' :
            /\ Events!Places(p)' \subseteq R[0]
            /\ p \in open' => R[0] = Events!Places(p)'
            /\ R[Len(channel')] = Events!WantedFor(p)'
    BY DEF Events!Settles
  <1> QED
    BY <1>1, <1>2, <1>3, <1>4 DEF Takes

LEMMA WouldSettleMeans ==
    ASSUME NEW p
    PROVE  /\ Events!WouldSettle(p) <=>
                /\ Events!Places(p) = {}
                /\ \E T : Takes(channel, p, {}, T) /\ T \subseteq Events!WantedFor(p)
                /\ \A b \in Branch : \E T : /\ Takes(channel, p, {b}, T)
                                            /\ T \subseteq {b, base[p]}
                                            /\ Events!Wanted(p) => T # {}
           /\ Events!WouldSettle(p)' <=>
                /\ Events!Places(p)' = {}
                /\ \E T : Takes(channel', p, {}, T) /\ T \subseteq Events!WantedFor(p)'
                /\ \A b \in Branch : \E T : /\ Takes(channel', p, {b}, T)
                                            /\ T \subseteq {b, base'[p]}
                                            /\ Events!Wanted(p)' => T # {}
  <1>1. \A R : R \in Events!Replays(p) <=> Follows(R, channel, p)
    BY DEF Events!Replays, Follows
  <1>2. \A R : R \in Events!Replays(p)' <=> Follows(R, channel', p)
    BY DEF Events!Replays, Follows
  <1>3. /\ (\E R \in Events!Replays(p) : R[0] = {} /\ R[Len(channel)] \subseteq Events!WantedFor(p))
           <=> (\E T : Takes(channel, p, {}, T) /\ T \subseteq Events!WantedFor(p))
        /\ (\E R \in Events!Replays(p)' : R[0] = {} /\ R[Len(channel')] \subseteq Events!WantedFor(p)')
           <=> (\E T : Takes(channel', p, {}, T) /\ T \subseteq Events!WantedFor(p)')
    BY <1>1, <1>2 DEF Takes
  <1>4. ASSUME NEW b
        PROVE  (\E R \in Events!Replays(p) : /\ R[0] = {b}
                                             /\ R[Len(channel)] \subseteq {b, base[p]}
                                             /\ Events!Wanted(p) => R[Len(channel)] # {})
               <=> (\E T : /\ Takes(channel, p, {b}, T)
                           /\ T \subseteq {b, base[p]}
                           /\ Events!Wanted(p) => T # {})
    BY <1>1 DEF Takes
  <1>5. ASSUME NEW b
        PROVE  (\E R \in Events!Replays(p)' : /\ R[0] = {b}
                                              /\ R[Len(channel')] \subseteq {b, base'[p]}
                                              /\ Events!Wanted(p)' => R[Len(channel')] # {})
               <=> (\E T : /\ Takes(channel', p, {b}, T)
                           /\ T \subseteq {b, base'[p]}
                           /\ Events!Wanted(p)' => T # {})
    BY <1>2 DEF Takes
  <1>6. Events!WouldSettle(p) <=>
            /\ Events!Places(p) = {}
            /\ \E T : Takes(channel, p, {}, T) /\ T \subseteq Events!WantedFor(p)
            /\ \A b \in Branch : \E T : /\ Takes(channel, p, {b}, T)
                                        /\ T \subseteq {b, base[p]}
                                        /\ Events!Wanted(p) => T # {}
    BY <1>3, <1>4, Zenon DEF Events!WouldSettle
  <1>7. Events!WouldSettle(p)' <=>
            /\ Events!Places(p)' = {}
            /\ \E T : Takes(channel', p, {}, T) /\ T \subseteq Events!WantedFor(p)'
            /\ \A b \in Branch : \E T : /\ Takes(channel', p, {b}, T)
                                        /\ T \subseteq {b, base'[p]}
                                        /\ Events!Wanted(p)' => T # {}
    BY <1>3, <1>5, Zenon DEF Events!WouldSettle
  <1> QED
    BY <1>6, <1>7

(* Both at once: what holds of each PR while no event is lost. *)
Right(p) == IF p \in unlisted THEN Events!WouldSettle(p) ELSE Events!Settles(p)

(* The event takes a PR along with what it became on GitHub. *)
Tells(e, p) ==
    /\ Events!After(e, p, Events!WantedFor(p)) = Events!WantedFor(p)'
    /\ \A T \in SUBSET Events!WantedFor(p) : Events!After(e, p, T) \subseteq Events!WantedFor(p)'
    /\ \A b \in Branch, T \in SUBSET Branch :
          T \subseteq {b, base[p]} => Events!After(e, p, T) \subseteq {b, base'[p]}
    /\ \A T \in SUBSET Branch :
          Events!Wanted(p)' /\ (Events!Wanted(p) => T # {}) => Events!After(e, p, T) # {}

(* A PR that an event is sent about, or that is left alone, is as right as before, if the *)
(* event takes it along with what it became on GitHub.                                  *)
LEMMA SentIsRight ==
    ASSUME Events!TypeOK, NEW p \in PR, NEW e \in Events!Event,
           channel' = Append(channel, e), UNCHANGED <<unlisted, listed, active, suspended, worker>>,
           p \in open' => p \in open, Right(p),
           Tells(e, p)
    PROVE  Right(p)'
  <1>1. channel \in Seq(Events!Event)
    BY DEF Events!TypeOK
  <1>2. Events!Places(p)' = Events!Places(p)
    BY DEF Events!Places, Events!Members, Events!Queued, Events!InHand
  <1>3. \A S, T : Takes(channel, p, S, T) => Takes(channel', p, S, Events!After(e, p, T))
    BY <1>1, TakesOneMore
  <1>4. \A S, T : Takes(channel, p, S, T) => T \in SUBSET Branch
    BY <1>1, TakesBranches
  <1>5. CASE p \in unlisted
    <2>1. Events!WouldSettle(p)
      BY <1>5 DEF Right
    <2>2. Events!Places(p)' = {}
      BY <1>2, <2>1, WouldSettleMeans
    <2>3. \E T : Takes(channel', p, {}, T) /\ T \subseteq Events!WantedFor(p)'
      <3>1. PICK T : Takes(channel, p, {}, T) /\ T \subseteq Events!WantedFor(p)
        BY <2>1, WouldSettleMeans
      <3>2. Events!After(e, p, T) \subseteq Events!WantedFor(p)'
        BY <3>1 DEF Tells
      <3> QED
        BY <1>3, <3>1, <3>2
    <2>4. ASSUME NEW b \in Branch
          PROVE  \E T : /\ Takes(channel', p, {b}, T)
                        /\ T \subseteq {b, base'[p]}
                        /\ Events!Wanted(p)' => T # {}
      <3>1. PICK T : /\ Takes(channel, p, {b}, T)
                     /\ T \subseteq {b, base[p]}
                     /\ Events!Wanted(p) => T # {}
        BY <2>1, WouldSettleMeans
      <3>2. T \in SUBSET Branch
        BY <1>4, <3>1
      <3>3. /\ Takes(channel', p, {b}, Events!After(e, p, T))
            /\ Events!After(e, p, T) \subseteq {b, base'[p]}
            /\ Events!Wanted(p)' => Events!After(e, p, T) # {}
        BY <1>3, <3>1, <3>2 DEF Tells
      <3> QED
        BY <3>3
    <2>5. Events!WouldSettle(p)'
      BY <2>2, <2>3, <2>4, WouldSettleMeans
    <2> QED
      BY <1>5, <2>5 DEF Right
  <1>6. CASE p \notin unlisted
    <2>1. PICK S : /\ Events!Places(p) \subseteq S
                   /\ p \in open => S = Events!Places(p)
                   /\ Takes(channel, p, S, Events!WantedFor(p))
      BY <1>6, SettlesMeans DEF Right
    <2>2. Takes(channel', p, S, Events!WantedFor(p)')
      BY <1>3, <2>1 DEF Tells
    <2>3. Events!Settles(p)'
      BY <1>2, <2>1, <2>2, SettlesMeans
    <2> QED
      BY <1>6, <2>3 DEF Right
  <1> QED
    BY <1>5, <1>6

-----------------------------------------------------------------------------
(* GitHub sends events. *)

LEMMA WantedForFacts ==
    ASSUME Events!TypeOK, NEW p \in PR
    PROVE  /\ base[p] \in Branch
           /\ Events!WantedFor(p) \in SUBSET Branch
           /\ Events!WantedFor(p) \subseteq {base[p]}
           /\ Events!WantedFor(p) = {} \/ Events!WantedFor(p) = {base[p]}
  BY DEF Events!TypeOK, Events!WantedFor

(* An event says nothing of the other PRs. *)
LEMMA OthersAreTold ==
    ASSUME Events!TypeOK, NEW q \in PR, NEW e, e.pr # q,
           Events!Wanted(q)' <=> Events!Wanted(q), base'[q] = base[q]
    PROVE  Tells(e, q)
  <1>1. Events!WantedFor(q)' = Events!WantedFor(q)
    BY Zenon DEF Events!WantedFor
  <1>2. \A S \in SUBSET Branch : Events!After(e, q, S) = S
    BY AfterFacts
  <1>3. Events!WantedFor(q) \in SUBSET Branch
    BY WantedForFacts
  <1>4. Events!After(e, q, Events!WantedFor(q)) = Events!WantedFor(q)'
    BY <1>1, <1>2, <1>3
  <1>5. \A T \in SUBSET Events!WantedFor(q) : Events!After(e, q, T) \subseteq Events!WantedFor(q)'
    BY <1>1, <1>2, <1>3
  <1>6. \A b \in Branch, T \in SUBSET Branch :
              T \subseteq {b, base[q]} => Events!After(e, q, T) \subseteq {b, base'[q]}
    BY <1>2
  <1>7. \A T \in SUBSET Branch :
              Events!Wanted(q)' /\ (Events!Wanted(q) => T # {}) => Events!After(e, q, T) # {}
    BY <1>2
  <1> QED
    BY <1>4, <1>5, <1>6, <1>7 DEF Tells

(* What each kind of event does to a PR that it is about. *)
LEMMA AfterKind ==
    ASSUME NEW e, NEW p, e.pr = p, NEW S \in SUBSET Branch
    PROVE  /\ e.kind = "labeled" => Events!After(e, p, S) = IF e.open THEN S \cup ({e.base} \cap Branch) ELSE S
           /\ e.kind \in {"unlabeled", "closed"} => Events!After(e, p, S) = S \ {e.base}
           /\ e.kind = "edited" =>
                Events!After(e, p, S) = (S \ {e.from}) \cup (IF e.from \in S THEN {e.base} \cap Branch ELSE {})
           /\ e.kind \in {"approved", "changes_requested", "synchronize", "push"} => Events!After(e, p, S) = S
  <1>1. e.kind = "labeled" => Events!After(e, p, S) = IF e.open THEN S \cup ({e.base} \cap Branch) ELSE S
    BY DEF Events!After, Events!Enters, Events!Leaves
  <1>2. e.kind \in {"unlabeled", "closed"} => Events!After(e, p, S) = S \ {e.base}
    BY DEF Events!After, Events!Enters, Events!Leaves
  <1>3. e.kind = "edited" =>
                Events!After(e, p, S) = (S \ {e.from}) \cup (IF e.from \in S THEN {e.base} \cap Branch ELSE {})
    BY DEF Events!After, Events!Enters, Events!Leaves
  <1>4. e.kind \in {"approved", "changes_requested", "synchronize", "push"} => Events!After(e, p, S) = S
    BY DEF Events!After, Events!Enters, Events!Leaves
  <1> QED
    BY <1>1, <1>2, <1>3, <1>4

(* The event reaches the channel, or it is counted as lost. *)
Arrives(e) ==
    \/ channel' = Append(channel, e) /\ Len(channel) < Capacity /\ lost' = lost
    \/ channel' = channel /\ lost' = lost + 1

LEMMA SendArrives ==
    ASSUME NEW kind \in Events!Kind, NEW p \in PR, NEW from \in Branch \cup {None},
           base'[p] \in Branch, Events!Send(kind, p, from)
    PROVE  \E e \in Events!Event : /\ e.kind = kind /\ e.pr = p /\ e.base = base'[p] /\ e.from = from
                                   /\ e.open = (p \in open)
                                   /\ Arrives(e)
  <1> DEFINE e == [kind |-> kind, pr |-> p, base |-> base'[p], from |-> from, open |-> p \in open]
  <1>1. e \in Events!Event
    BY DEF Events!Event
  <1>2. e.kind = kind /\ e.pr = p /\ e.base = base'[p] /\ e.from = from /\ e.open = (p \in open)
    OBVIOUS
  <1>3. Events!Forward(e) \/ Events!Lose
    BY Zenon DEF Events!Send
  <1> HIDE DEF e
  <1>4. Arrives(e)
    BY <1>3 DEF Events!Forward, Events!Lose, Arrives
  <1> QED
    BY <1>1, <1>2, <1>4

(* The events in the channel are Genuine(), and remain so. *)
AllGenuine == \A i \in 1..Len(channel) : Events!Genuine(channel[i])

LEMMA ArrivesGenuine ==
    ASSUME channel \in Seq(Events!Event), Len(channel) <= Capacity, lost \in Nat, Capacity \in Nat, AllGenuine,
           NEW e \in Events!Event, Events!Genuine(e), Arrives(e)
    PROVE  /\ channel' \in Seq(Events!Event) /\ Len(channel') <= Capacity /\ lost' \in Nat
           /\ AllGenuine'
           /\ lost' = 0 => lost = 0 /\ channel' = Append(channel, e)
  <1>1. CASE channel' = channel /\ lost' = lost + 1
    BY <1>1 DEF AllGenuine, Events!Genuine
  <1>2. CASE channel' = Append(channel, e) /\ Len(channel) < Capacity /\ lost' = lost
    <2>1. /\ channel' \in Seq(Events!Event) /\ Len(channel') = Len(channel) + 1 /\ Len(channel) \in Nat
          /\ \A i \in 1..Len(channel) : channel'[i] = channel[i]
          /\ channel'[Len(channel) + 1] = e
      BY <1>2, AppendProperties, LenProperties
    <2>2. \A i \in 1..Len(channel') : i \in 1..Len(channel) \/ i = Len(channel) + 1
      BY <2>1
    <2>3. AllGenuine'
      <3> SUFFICES ASSUME NEW i \in 1..Len(channel')
                   PROVE  Events!Genuine(channel'[i])
        BY DEF AllGenuine, Events!Genuine
      <3> QED
        BY <2>1, <2>2 DEF AllGenuine
    <2> QED
      BY <1>2, <2>1, <2>3
  <1> QED
    BY <1>1, <1>2 DEF Arrives

(* Closed PRs stay closed, and there is one trigger. *)
OneTrigger == ~Reopens /\ \A t, u \in Trigger : t = u

(* GitHub tells the program of what changed, or the event is counted as lost. *)
Announced ==
    \E e \in Events!Event :
        /\ Events!Genuine(e) /\ Arrives(e)
        /\ \A p \in PR : Tells(e, p) /\ (p \in open' => p \in open)

Github == /\ open \subseteq PR /\ ready \subseteq PR
          /\ base \in [PR -> Branch] /\ triggers \in [PR -> SUBSET Trigger]

LEMMA AddTriggerIsAnnounced ==
    ASSUME Events!TypeOK, NEW p \in PR, NEW t \in Trigger, Events!AddTrigger(p, t)
    PROVE  Github' /\ Announced
  <1>1. /\ triggers \in [PR -> SUBSET Trigger] /\ base \in [PR -> Branch]
        /\ triggers' = [triggers EXCEPT ![p] = @ \cup {t}]
        /\ UNCHANGED <<open, base, ready>>
    BY DEF Events!TypeOK, Events!AddTrigger
  <1>2. Github'
    BY <1>1 DEF Events!TypeOK, Github
  <1>3. PICK e \in Events!Event : /\ e.kind = "labeled" /\ e.pr = p /\ e.base = base'[p]
                                  /\ e.open = (p \in open)
                                  /\ Arrives(e)
    <2>1. Events!Send("labeled", p, None) /\ base'[p] \in Branch
      BY <1>1 DEF Events!AddTrigger
    <2> QED
      BY <2>1, SendArrives DEF Events!Kind
  <1>4. Events!Genuine(e)
    BY <1>3 DEF Events!Genuine
  <1>5. ASSUME NEW q \in PR, q # p
        PROVE  Tells(e, q)
    <2>1. triggers'[q] = triggers[q] /\ base'[q] = base[q]
      BY <1>1, <1>5
    <2>2. Events!Wanted(q)' <=> Events!Wanted(q)
      BY <1>1, <2>1 DEF Events!Wanted
    <2> QED
      BY <1>3, <1>5, <2>1, <2>2, OthersAreTold
  <1>6. Tells(e, p)
    <2>1. /\ Events!Wanted(p)' <=> p \in open
          /\ Events!Wanted(p) => p \in open
          /\ base'[p] = base[p] /\ base[p] \in Branch
      BY <1>1 DEF Events!Wanted
    <2>2. /\ Events!WantedFor(p)' = IF p \in open THEN {base[p]} ELSE {}
          /\ Events!WantedFor(p) = IF Events!Wanted(p) THEN {base[p]} ELSE {}
      BY <2>1 DEF Events!WantedFor
    <2>3. ASSUME NEW S \in SUBSET Branch
          PROVE  Events!After(e, p, S) = IF p \in open THEN S \cup {base[p]} ELSE S
      <3>1. Events!After(e, p, S) = IF e.open THEN S \cup ({e.base} \cap Branch) ELSE S
        BY <1>3, AfterKind
      <3>2. {e.base} \cap Branch = {base[p]}
        BY <1>3, <2>1
      <3> QED
        BY <1>3, <3>1, <3>2
    <2> QED
      BY <2>1, <2>2, <2>3 DEF Tells
  <1> QED
    BY <1>1, <1>2, <1>3, <1>4, <1>5, <1>6 DEF Announced

LEMMA RemoveTriggerIsAnnounced ==
    ASSUME Events!TypeOK, OneTrigger, NEW p \in PR, NEW t \in Trigger, Events!RemoveTrigger(p, t)
    PROVE  Github' /\ Announced
  <1>1. /\ triggers \in [PR -> SUBSET Trigger] /\ base \in [PR -> Branch]
        /\ triggers' = [triggers EXCEPT ![p] = @ \ {t}]
        /\ UNCHANGED <<open, base, ready>>
    BY DEF Events!TypeOK, Events!RemoveTrigger
  <1>2. Github'
    BY <1>1 DEF Events!TypeOK, Github
  <1>3. PICK e \in Events!Event : /\ e.kind = "unlabeled" /\ e.pr = p /\ e.base = base'[p]
                                  /\ Arrives(e)
    <2>1. Events!Send("unlabeled", p, None) /\ base'[p] \in Branch
      BY <1>1 DEF Events!RemoveTrigger
    <2> QED
      BY <2>1, SendArrives DEF Events!Kind
  <1>4. Events!Genuine(e)
    BY <1>3 DEF Events!Genuine
  <1>5. ASSUME NEW q \in PR, q # p
        PROVE  Tells(e, q)
    <2>1. triggers'[q] = triggers[q] /\ base'[q] = base[q]
      BY <1>1, <1>5
    <2>2. Events!Wanted(q)' <=> Events!Wanted(q)
      BY <1>1, <2>1 DEF Events!Wanted
    <2> QED
      BY <1>3, <1>5, <2>1, <2>2, OthersAreTold
  <1>6. Tells(e, p)
    <2>0. triggers'[p] = {}
      BY <1>1 DEF OneTrigger
    <2>1. ~Events!Wanted(p)' /\ base'[p] = base[p] /\ base[p] \in Branch
      BY <1>1, <2>0 DEF Events!Wanted
    <2>2. /\ Events!WantedFor(p)' = {}
          /\ Events!WantedFor(p) = IF Events!Wanted(p) THEN {base[p]} ELSE {}
      BY <2>1 DEF Events!WantedFor
    <2>3. ASSUME NEW S \in SUBSET Branch
          PROVE  Events!After(e, p, S) = S \ {base[p]}
      <3>1. Events!After(e, p, S) = S \ {e.base}
        BY <1>3, AfterKind
      <3> QED
        BY <1>3, <2>1, <3>1
    <2> QED
      BY <2>1, <2>2, <2>3 DEF Tells
  <1> QED
    BY <1>1, <1>2, <1>3, <1>4, <1>5, <1>6 DEF Announced

LEMMA CloseIsAnnounced ==
    ASSUME Events!TypeOK, NEW p \in PR, Events!Close(p)
    PROVE  Github' /\ Announced
  <1>1. /\ base \in [PR -> Branch]
        /\ open' = open \ {p}
        /\ UNCHANGED <<base, triggers, ready>>
    BY DEF Events!TypeOK, Events!Close
  <1>2. Github'
    BY <1>1 DEF Events!TypeOK, Github
  <1>3. PICK e \in Events!Event : /\ e.kind = "closed" /\ e.pr = p /\ e.base = base'[p]
                                  /\ Arrives(e)
    <2>1. Events!Send("closed", p, None) /\ base'[p] \in Branch
      BY <1>1 DEF Events!Close
    <2> QED
      BY <2>1, SendArrives DEF Events!Kind
  <1>4. Events!Genuine(e)
    BY <1>3 DEF Events!Genuine
  <1>5. ASSUME NEW q \in PR, q # p
        PROVE  Tells(e, q)
    <2>2. Events!Wanted(q)' <=> Events!Wanted(q)
      BY <1>1, <1>5 DEF Events!Wanted
    <2> QED
      BY <1>1, <1>3, <1>5, <2>2, OthersAreTold
  <1>6. Tells(e, p)
    <2>1. ~Events!Wanted(p)' /\ base'[p] = base[p] /\ base[p] \in Branch
      BY <1>1 DEF Events!Wanted
    <2>2. /\ Events!WantedFor(p)' = {}
          /\ Events!WantedFor(p) = IF Events!Wanted(p) THEN {base[p]} ELSE {}
      BY <2>1 DEF Events!WantedFor
    <2>3. ASSUME NEW S \in SUBSET Branch
          PROVE  Events!After(e, p, S) = S \ {base[p]}
      <3>1. Events!After(e, p, S) = S \ {e.base}
        BY <1>3, AfterKind
      <3> QED
        BY <1>3, <2>1, <3>1
    <2> QED
      BY <2>1, <2>2, <2>3 DEF Tells
  <1> QED
    BY <1>1, <1>2, <1>3, <1>4, <1>5, <1>6 DEF Announced

LEMMA ChangeBaseIsAnnounced ==
    ASSUME Events!TypeOK, NEW p \in PR, NEW b \in Branch, Events!ChangeBase(p, b)
    PROVE  Github' /\ Announced
  <1>1. /\ base \in [PR -> Branch]
        /\ p \in open /\ b # base[p]
        /\ base' = [base EXCEPT ![p] = b]
        /\ UNCHANGED <<open, triggers, ready>>
    BY DEF Events!TypeOK, Events!ChangeBase
  <1>2. Github'
    BY <1>1 DEF Events!TypeOK, Github
  <1>3. PICK e \in Events!Event : /\ e.kind = "edited" /\ e.pr = p /\ e.base = base'[p]
                                  /\ e.from = base[p]
                                  /\ Arrives(e)
    <2>1. Events!Send("edited", p, base[p]) /\ base'[p] \in Branch /\ base[p] \in Branch
      BY <1>1 DEF Events!ChangeBase
    <2> QED
      BY <2>1, SendArrives DEF Events!Kind
  <1>4. Events!Genuine(e)
    BY <1>1, <1>3 DEF Events!Genuine
  <1>5. ASSUME NEW q \in PR, q # p
        PROVE  Tells(e, q)
    <2>1. base'[q] = base[q]
      BY <1>1, <1>5
    <2>2. Events!Wanted(q)' <=> Events!Wanted(q)
      BY <1>1, <1>5 DEF Events!Wanted
    <2> QED
      BY <1>3, <1>5, <2>1, <2>2, OthersAreTold
  <1>6. Tells(e, p)
    <2>1. Events!Wanted(p)' <=> Events!Wanted(p)
      BY <1>1 DEF Events!Wanted
    <2>2. base'[p] = b /\ b # base[p] /\ base[p] \in Branch
      BY <1>1
    <2>3. /\ Events!WantedFor(p)' = IF Events!Wanted(p) THEN {b} ELSE {}
          /\ Events!WantedFor(p) = IF Events!Wanted(p) THEN {base[p]} ELSE {}
      BY <2>1, <2>2 DEF Events!WantedFor
    <2>4. \A S \in SUBSET Branch :
             Events!After(e, p, S) = IF base[p] \in S THEN (S \ {base[p]}) \cup {b} ELSE S
      <3> TAKE S \in SUBSET Branch
      <3>1. Events!After(e, p, S) = (S \ {base[p]}) \cup (IF base[p] \in S THEN {b} \cap Branch ELSE {})
        <4>1. Events!After(e, p, S) = (S \ {e.from}) \cup (IF e.from \in S THEN {e.base} \cap Branch ELSE {})
          BY <1>3, AfterKind
        <4> QED
          BY <1>3, <2>2, <4>1
      <3> QED
        BY <3>1
    <2>5. Events!After(e, p, Events!WantedFor(p)) = Events!WantedFor(p)'
      BY <2>2, <2>3, <2>4
    <2>6. \A T \in SUBSET Events!WantedFor(p) : Events!After(e, p, T) \subseteq Events!WantedFor(p)'
      BY <2>2, <2>3, <2>4
    <2>7. \A c \in Branch, T \in SUBSET Branch :
              T \subseteq {c, base[p]} => Events!After(e, p, T) \subseteq {c, base'[p]}
      BY <2>2, <2>4
    <2>8. \A T \in SUBSET Branch :
              Events!Wanted(p)' /\ (Events!Wanted(p) => T # {}) => Events!After(e, p, T) # {}
      BY <2>1, <2>2, <2>4
    <2> QED
      BY <2>5, <2>6, <2>7, <2>8 DEF Tells
  <1> QED
    BY <1>1, <1>2, <1>3, <1>4, <1>5, <1>6 DEF Announced

(* What the other events announce does not matter to the queues. *)
LEMMA NothingIsAnnounced ==
    ASSUME Events!TypeOK, UNCHANGED <<open, base, triggers>>,
           NEW e \in Events!Event, e.kind \in {"approved", "changes_requested", "synchronize", "push"},
           Events!Genuine(e), Arrives(e)
    PROVE  Announced
  <1>1. ASSUME NEW q \in PR
        PROVE  Tells(e, q)
    <2>1. /\ Events!Wanted(q)' <=> Events!Wanted(q)
          /\ Events!WantedFor(q)' = Events!WantedFor(q) /\ base'[q] = base[q]
      BY DEF Events!Wanted, Events!WantedFor
    <2>2. CASE e.pr # q
      BY <2>1, <2>2, OthersAreTold
    <2>3. CASE e.pr = q
      <3>1. \A S \in SUBSET Branch : Events!After(e, q, S) = S
        BY <2>3, AfterKind
      <3> QED
        BY <2>1, <3>1, WantedForFacts DEF Tells
    <2> QED
      BY <2>2, <2>3
  <1> QED
    BY <1>1 DEF Announced

LEMMA OthersAreAnnounced ==
    ASSUME Events!TypeOK
    PROVE  /\ \A p \in PR : Events!BecomeReady(p) => Github' /\ Announced
           /\ \A p \in PR : Events!BecomeUnready(p) => Github' /\ Announced
           /\ \A p \in PR : Events!PushPR(p) => Github' /\ Announced
           /\ \A b \in Branch : Events!PushBase(b) => Github' /\ Announced
  <1>0. \A p \in PR : base[p] \in Branch
    BY DEF Events!TypeOK
  <1>1. ASSUME NEW p \in PR, Events!BecomeReady(p)
        PROVE  Github' /\ Announced
    <2>1. UNCHANGED <<open, base, triggers>> /\ ready' = ready \cup {p} /\ Events!Send("approved", p, None)
      BY <1>1 DEF Events!BecomeReady
    <2>2. base'[p] \in Branch
      BY <1>0, <2>1
    <2>3. \E e \in Events!Event : e.kind = "approved" /\ e.pr = p /\ Arrives(e)
      BY <2>1, <2>2, SendArrives DEF Events!Kind
    <2> QED
      BY <2>1, <2>3, NothingIsAnnounced DEF Events!Genuine, Github, Events!TypeOK
  <1>2. ASSUME NEW p \in PR, Events!BecomeUnready(p)
        PROVE  Github' /\ Announced
    <2>1. /\ UNCHANGED <<open, base, triggers>> /\ ready' = ready \ {p}
          /\ Events!Send("changes_requested", p, None)
      BY <1>2 DEF Events!BecomeUnready
    <2>2. base'[p] \in Branch
      BY <1>0, <2>1
    <2>3. \E e \in Events!Event : e.kind = "changes_requested" /\ e.pr = p /\ Arrives(e)
      BY <2>1, <2>2, SendArrives DEF Events!Kind
    <2> QED
      BY <2>1, <2>3, NothingIsAnnounced DEF Events!Genuine, Github, Events!TypeOK
  <1>3. ASSUME NEW p \in PR, Events!PushPR(p)
        PROVE  Github' /\ Announced
    <2>1. UNCHANGED <<open, base, triggers, ready>> /\ Events!Send("synchronize", p, None)
      BY <1>3 DEF Events!PushPR
    <2>2. base'[p] \in Branch
      BY <1>0, <2>1
    <2>3. \E e \in Events!Event : e.kind = "synchronize" /\ e.pr = p /\ Arrives(e)
      BY <2>1, <2>2, SendArrives DEF Events!Kind
    <2> QED
      BY <2>1, <2>3, NothingIsAnnounced DEF Events!Genuine, Github, Events!TypeOK
  <1>4. ASSUME NEW b \in Branch, Events!PushBase(b)
        PROVE  Github' /\ Announced
    <2> DEFINE e == [kind |-> "push", pr |-> None, base |-> b, from |-> None, open |-> TRUE]
    <2>1. UNCHANGED <<open, base, triggers, ready>> /\ (Events!Forward(e) \/ Events!Lose)
      BY <1>4 DEF Events!PushBase, Events!github
    <2>2. e \in Events!Event /\ e.kind = "push"
      BY DEF Events!Event, Events!Kind
    <2> HIDE DEF e
    <2>3. Arrives(e)
      BY <2>1 DEF Events!Forward, Events!Lose, Arrives
    <2>4. Announced
      BY <2>1, <2>2, <2>3, NothingIsAnnounced DEF Events!Genuine
    <2> QED
      BY <2>1, <2>4 DEF Github, Events!TypeOK
  <1> QED
    BY <1>1, <1>2, <1>3, <1>4

-----------------------------------------------------------------------------
(* The invariant of Membership. *)

Settled == lost = 0 => \A p \in PR \ missed : Right(p)

SyncIsOver == runPc = "run" => unlisted = {} /\ listed = {}

(* The inductive invariant in its parts. *)
LEMMA InvariantMeans ==
    /\ Events!Invariant <=> Events!TypeOK /\ AllGenuine /\ SyncIsOver /\ Settled
    /\ Events!Invariant' <=> Events!TypeOK' /\ AllGenuine' /\ SyncIsOver' /\ Settled'
  <1>1. Events!Invariant <=> Events!TypeOK /\ AllGenuine /\ SyncIsOver /\ Settled
    BY Zenon DEF Events!Invariant, AllGenuine, SyncIsOver, Settled, Right
  <1>2. Events!Invariant' <=> Events!TypeOK' /\ AllGenuine' /\ SyncIsOver' /\ Settled'
    BY Zenon DEF Events!Invariant, AllGenuine, SyncIsOver, Settled, Right
  <1> QED
    BY <1>1, <1>2

LEMMA Constants ==
    /\ IsFiniteSet(PR) /\ None \notin PR /\ None \notin Branch
    /\ Capacity \in Nat \ {0}
    /\ MaxChanges \in Nat /\ MaxLost \in Nat /\ MaxRestarts \in Nat
  <1>1. Events!IsFiniteSet(PR) <=> IsFiniteSet(PR)
    BY DEF Events!IsFiniteSet, IsFiniteSet
  <1> QED
    BY <1>1, InstanceAssumption DEF Events!MembershipAssumption

(* GitHub changes, and an event is sent. *)
LEMMA ChangeKeepsInvariant ==
    ASSUME Events!Invariant, OneTrigger, Events!Change
    PROVE  Events!Invariant'
  <1>1. Events!TypeOK /\ AllGenuine /\ SyncIsOver /\ Settled
    BY InvariantMeans
  <1>2. /\ changes < MaxChanges /\ changes' = changes + 1
        /\ UNCHANGED <<runPc, unlisted, listed, active, suspended, checks, worker, missed, restarts>>
    BY DEF Events!Change, Events!Changes, Events!sync, Events!queues, Events!pool
  <1>3. Github' /\ Announced
    <2>1. \A p \in PR : ~Events!Reopen(p)
      BY DEF OneTrigger, Events!Reopen
    <2>2. /\ \A p \in PR, t \in Trigger : Events!AddTrigger(p, t) => Github' /\ Announced
          /\ \A p \in PR, t \in Trigger : Events!RemoveTrigger(p, t) => Github' /\ Announced
          /\ \A p \in PR : Events!Close(p) => Github' /\ Announced
          /\ \A p \in PR, b \in Branch : Events!ChangeBase(p, b) => Github' /\ Announced
      BY <1>1, AddTriggerIsAnnounced, RemoveTriggerIsAnnounced, CloseIsAnnounced, ChangeBaseIsAnnounced
    <2>3. \/ \E p \in PR :
               \/ \E t \in Trigger : Events!AddTrigger(p, t) \/ Events!RemoveTrigger(p, t)
               \/ Events!Close(p) \/ Events!Reopen(p)
               \/ \E b \in Branch : Events!ChangeBase(p, b)
               \/ Events!BecomeReady(p) \/ Events!BecomeUnready(p) \/ Events!PushPR(p)
          \/ \E b \in Branch : Events!PushBase(b)
      BY DEF Events!Change
    <2> QED
      BY <1>1, <2>1, <2>2, <2>3, OthersAreAnnounced
  <1>4. PICK e \in Events!Event :
            /\ Events!Genuine(e) /\ Arrives(e)
            /\ \A p \in PR : Tells(e, p) /\ (p \in open' => p \in open)
    BY <1>3 DEF Announced
  <1>5. /\ channel' \in Seq(Events!Event) /\ Len(channel') <= Capacity /\ lost' \in Nat
        /\ AllGenuine'
        /\ lost' = 0 => lost = 0 /\ channel' = Append(channel, e)
    <2>1. channel \in Seq(Events!Event) /\ Len(channel) <= Capacity /\ lost \in Nat
      BY <1>1 DEF Events!TypeOK
    <2> QED
      BY <1>1, <1>4, <2>1, Constants, ArrivesGenuine
  <1>6. Events!TypeOK'
    <2>1. changes' \in 0..MaxChanges
      BY <1>1, <1>2, Constants DEF Events!TypeOK
    <2> QED
      BY <1>1, <1>2, <1>3, <1>5, <2>1 DEF Events!TypeOK, Github
  <1>7. SyncIsOver'
    BY <1>1, <1>2 DEF SyncIsOver
  <1>8. Settled'
    <2> SUFFICES ASSUME lost' = 0, NEW p \in PR \ missed'
                 PROVE  Right(p)'
      BY DEF Settled
    <2>1. Right(p) /\ channel' = Append(channel, e)
      BY <1>1, <1>2, <1>5 DEF Settled
    <2>2. UNCHANGED <<unlisted, listed, active, suspended, worker>>
      BY <1>2
    <2> QED
      BY <1>1, <1>4, <2>1, <2>2, SentIsRight
  <1> QED
    BY <1>5, <1>6, <1>7, <1>8, InvariantMeans

(* A start: nothing is queued, and no event is in the channel. *)
LEMMA EmptyChannel ==
    ASSUME NEW p
    PROVE  /\ Takes(<<>>, p, {}, {})
           /\ \A b \in Branch : Takes(<<>>, p, {b}, {b})
  BY TakesNothing

LEMMA EmptyQueues ==
    ASSUME NEW p, NEW T \in SUBSET Branch
    PROVE  /\ active = [b \in Branch |-> <<>>] /\ suspended = [b \in Branch |-> {}] /\ listed = {}
              /\ worker = [b \in Branch |-> Events!Idle]
                => Events!Places(p) = {}
           /\ active' = [b \in Branch |-> <<>>] /\ suspended' = [b \in Branch |-> {}] /\ listed' = {}
              /\ worker' = [b \in Branch |-> Events!Idle]
                => Events!Places(p)' = {}
  <1>1. Events!ToSet(<<>>) = {}
    <2>1. <<>> \in Seq({}) /\ Len(<<>>) = 0
      BY EmptySeq
    <2>2. \A i \in 1..0 : FALSE
      OBVIOUS
    <2> QED
      BY <2>1, <2>2, Members
  <1>2. active = [b \in Branch |-> <<>>] /\ suspended = [b \in Branch |-> {}] /\ listed = {}
        /\ worker = [b \in Branch |-> Events!Idle]
            => Events!Places(p) = {}
    BY <1>1 DEF Events!Places, Events!Members, Events!Queued, Events!InHand, Events!Idle
  <1>3. active' = [b \in Branch |-> <<>>] /\ suspended' = [b \in Branch |-> {}] /\ listed' = {}
        /\ worker' = [b \in Branch |-> Events!Idle]
            => Events!Places(p)' = {}
    BY <1>1 DEF Events!Places, Events!Members, Events!Queued, Events!InHand, Events!Idle
  <1> QED
    BY <1>2, <1>3

LEMMA StartingIsTyped ==
    /\ Events!Starting => /\ channel \in Seq(Events!Event) /\ Len(channel) <= Capacity
                          /\ AllGenuine
                          /\ active \in [Branch -> Seq(PR)] /\ \A b \in Branch : Events!IsInjective(active[b])
                          /\ checks \in [Branch -> Seq(PR)]
    /\ channel' = <<>> /\ active' = [b \in Branch |-> <<>>] /\ checks' = [b \in Branch |-> <<>>]
         => /\ channel' \in Seq(Events!Event) /\ Len(channel') <= Capacity
            /\ AllGenuine'
            /\ active' \in [Branch -> Seq(PR)] /\ \A b \in Branch : Events!IsInjective(active'[b])
            /\ checks' \in [Branch -> Seq(PR)]
  <1>1. /\ <<>> \in Seq(Events!Event) /\ <<>> \in Seq(PR) /\ Len(<<>>) = 0 /\ Len(<<>>) <= Capacity
        /\ \A i \in 1..Len(<<>>) : FALSE
    BY EmptySeq, Constants
  <1>2. Events!IsInjective(<<>>)
    BY <1>1, Members
  <1> QED
    BY <1>1, <1>2 DEF Events!Starting, AllGenuine

LEMMA InitImpliesInvariant ==
    ASSUME Events!Init
    PROVE  Events!Invariant
  <1>0. Events!Starting
    BY DEF Events!Init
  <1>1. Events!TypeOK
    <2>1. Events!Idle \in Events!Operation /\ Events!Idle.task = "none"
      BY DEF Events!Idle, Events!Operation, Events!Task
    <2>2. active = [b \in Branch |-> <<>>] /\ suspended = [b \in Branch |-> {}]
      BY <1>0 DEF Events!Starting
    <2>3. \A b \in Branch : suspended[b] \cap Events!ToSet(active[b]) = {}
      BY <2>2
    <2>4. changes \in 0..MaxChanges /\ restarts \in 0..MaxRestarts
      BY Constants DEF Events!Init
    <2> QED
      BY <1>0, <2>1, <2>2, <2>3, <2>4, StartingIsTyped DEF Events!TypeOK, Events!Init, Events!Starting
  <1>2. SyncIsOver
    BY <1>0 DEF SyncIsOver, Events!Starting
  <1>3. Settled
    <2> SUFFICES ASSUME NEW p \in PR
                 PROVE  Right(p)
      BY DEF Settled
    <2>1. Events!Places(p) = {}
      BY <1>0, EmptyQueues DEF Events!Starting
    <2>2. \A b \in Branch : {b} # {} /\ {b} \subseteq {b, base[p]}
      OBVIOUS
    <2>3. Events!WouldSettle(p)
      BY <1>0, <2>1, <2>2, EmptyChannel, WouldSettleMeans DEF Events!Starting
    <2> QED
      BY <1>0, <2>3 DEF Right, Events!Starting
  <1> QED
    BY <1>0, <1>1, <1>2, <1>3, StartingIsTyped, InvariantMeans

LEMMA CrashKeepsInvariant ==
    ASSUME Events!Invariant, Events!Crash, restarts' \in 0..MaxRestarts
    PROVE  Events!Invariant'
  <1>0. /\ Events!TypeOK
        /\ channel' = <<>> /\ runPc' = "sync" /\ unlisted' = PR /\ listed' = {}
        /\ active' = [b \in Branch |-> <<>>]
        /\ suspended' = [b \in Branch |-> {}]
        /\ checks' = [b \in Branch |-> <<>>]
        /\ worker' = [b \in Branch |-> Events!Idle]
        /\ lost' = 0 /\ missed' = {}
        /\ UNCHANGED <<open, base, triggers, ready, changes>>
    BY InvariantMeans DEF Events!Crash, Events!github
  <1>1. Events!TypeOK'
    <2>1. Events!Idle \in Events!Operation /\ Events!Idle.task = "none"
      BY DEF Events!Idle, Events!Operation, Events!Task
    <2>3. \A b \in Branch : suspended'[b] \cap Events!ToSet(active'[b]) = {}
      BY <1>0
    <2> QED
      BY <1>0, <2>1, <2>3, StartingIsTyped DEF Events!TypeOK
  <1>2. SyncIsOver'
    BY <1>0 DEF SyncIsOver
  <1>3. Settled'
    <2> SUFFICES ASSUME NEW p \in PR
                 PROVE  Right(p)'
      BY DEF Settled
    <2>1. Events!Places(p)' = {}
      BY <1>0, EmptyQueues
    <2>2. \A b \in Branch : {b} # {} /\ {b} \subseteq {b, base'[p]}
      OBVIOUS
    <2>3. Events!WouldSettle(p)'
      BY <1>0, <2>1, <2>2, EmptyChannel, WouldSettleMeans
    <2> QED
      BY <1>0, <2>3 DEF Right
  <1> QED
    BY <1>0, <1>1, <1>2, <1>3, StartingIsTyped, InvariantMeans

-----------------------------------------------------------------------------
(* The operations of the queues, and the worker's hands. *)

QueuesTyped ==
    /\ active \in [Branch -> Seq(PR)] /\ \A b \in Branch : Events!IsInjective(active[b])
    /\ suspended \in [Branch -> SUBSET PR]
    /\ \A b \in Branch : suspended[b] \cap Events!ToSet(active[b]) = {}

WorkersTyped ==
    /\ checks \in [Branch -> Seq(PR)]
    /\ worker \in [Branch -> Events!Operation]
    /\ \A b \in Branch : worker[b].task # "none" => worker[b].pr \in PR
    /\ missed \subseteq PR

(* An operation of one queue: it keeps to the types if what it makes of the queue does. *)
LEMMA OneQueueChanges ==
    ASSUME QueuesTyped, NEW b \in Branch, NEW s \in Seq(PR), NEW h \in SUBSET PR,
           Events!IsInjective(s), h \cap Events!ToSet(s) = {},
           active' = [active EXCEPT ![b] = s], suspended' = [suspended EXCEPT ![b] = h]
    PROVE  /\ QueuesTyped'
           /\ Events!Queued(b)' = Events!ToSet(s) \cup h
           /\ \A c \in Branch \ {b} : Events!Queued(c)' = Events!Queued(c)
  <1>1. /\ active'[b] = s /\ suspended'[b] = h
        /\ \A c \in Branch \ {b} : active'[c] = active[c] /\ suspended'[c] = suspended[c]
    BY DEF QueuesTyped
  <1>2. active' \in [Branch -> Seq(PR)] /\ suspended' \in [Branch -> SUBSET PR]
    BY DEF QueuesTyped
  <1>3. QueuesTyped'
    BY <1>1, <1>2 DEF QueuesTyped
  <1>4. Events!Queued(b)' = Events!ToSet(s) \cup h
    BY <1>1 DEF Events!Queued
  <1>5. \A c \in Branch \ {b} : Events!Queued(c)' = Events!Queued(c)
    BY <1>1 DEF Events!Queued
  <1> QED
    BY <1>3, <1>4, <1>5

LEMMA NoQueueChanges ==
    ASSUME QueuesTyped, UNCHANGED <<active, suspended>>
    PROVE  QueuesTyped' /\ \A c \in Branch : Events!Queued(c)' = Events!Queued(c)
  BY DEF QueuesTyped, Events!Queued

LEMMA QueueFacts ==
    ASSUME QueuesTyped, NEW b \in Branch
    PROVE  /\ active[b] \in Seq(PR) /\ Events!IsInjective(active[b])
           /\ suspended[b] \in SUBSET PR /\ suspended[b] \cap Events!ToSet(active[b]) = {}
           /\ Events!ToSet(active[b]) \in SUBSET PR
           /\ Events!Queued(b) = Events!ToSet(active[b]) \cup suspended[b]
           /\ \A p : Events!InQueue(p, b) <=> p \in Events!Queued(b)
           /\ \A p : Events!Contains(active[b], p) <=> p \in Events!ToSet(active[b])
           /\ suspended = [suspended EXCEPT ![b] = suspended[b]]
           /\ active = [active EXCEPT ![b] = active[b]]
  <1>1. active[b] \in Seq(PR) /\ Events!IsInjective(active[b]) /\ suspended[b] \in SUBSET PR
        /\ suspended[b] \cap Events!ToSet(active[b]) = {}
    BY DEF QueuesTyped
  <1>2. Events!ToSet(active[b]) \in SUBSET PR /\ \A p : Events!Contains(active[b], p) <=> p \in Events!ToSet(active[b])
    BY <1>1, Members
  <1>3. \A p : Events!InQueue(p, b) <=> p \in Events!Queued(b)
    BY <1>2 DEF Events!InQueue, Events!Queued
  <1>4. suspended = [suspended EXCEPT ![b] = suspended[b]] /\ active = [active EXCEPT ![b] = active[b]]
    BY DEF QueuesTyped
  <1> QED
    BY <1>1, <1>2, <1>3, <1>4 DEF Events!Queued

LEMMA EnqueueAdds ==
    ASSUME QueuesTyped, NEW p \in PR, NEW b \in Branch, Events!Enqueue(p, b)
    PROVE  /\ QueuesTyped'
           /\ Events!Queued(b)' = Events!Queued(b) \cup {p}
           /\ \A c \in Branch \ {b} : Events!Queued(c)' = Events!Queued(c)
  <1>1. CASE Events!InQueue(p, b)
    <2>1. UNCHANGED <<active, suspended>>
      BY <1>1 DEF Events!Enqueue
    <2> QED
      BY <1>1, <2>1, NoQueueChanges, QueueFacts
  <1>2. CASE ~Events!InQueue(p, b)
    <2> DEFINE s == Append(active[b], p)
    <2>1. active' = [active EXCEPT ![b] = s] /\ suspended' = suspended
      BY <1>2 DEF Events!Enqueue
    <2>2. p \notin Events!ToSet(active[b]) /\ p \notin suspended[b]
      BY <1>2, QueueFacts
    <2>3. s \in Seq(PR) /\ Events!ToSet(s) = Events!ToSet(active[b]) \cup {p} /\ Events!IsInjective(s)
      BY <2>2, QueueFacts, AppendMember
    <2> HIDE DEF s
    <2>4. suspended[b] \cap Events!ToSet(s) = {} /\ suspended' = [suspended EXCEPT ![b] = suspended[b]]
      BY <2>1, <2>2, <2>3, QueueFacts
    <2>5. /\ QueuesTyped'
          /\ Events!Queued(b)' = Events!ToSet(s) \cup suspended[b]
          /\ \A c \in Branch \ {b} : Events!Queued(c)' = Events!Queued(c)
      BY <2>1, <2>3, <2>4, QueueFacts, OneQueueChanges
    <2> QED
      BY <2>3, <2>5, QueueFacts
  <1> QED
    BY <1>1, <1>2

LEMMA WithoutRemoves ==
    ASSUME QueuesTyped, NEW p, NEW b \in Branch, Events!Without(p, b)
    PROVE  /\ QueuesTyped'
           /\ Events!Queued(b)' = Events!Queued(b) \ {p}
           /\ \A c \in Branch \ {b} : Events!Queued(c)' = Events!Queued(c)
  <1> DEFINE s == Events!Dropped(active[b], p)
             h == suspended[b] \ {p}
  <1>1. active' = [active EXCEPT ![b] = s] /\ suspended' = [suspended EXCEPT ![b] = h]
    BY DEF Events!Without
  <1>2. s \in Seq(PR) /\ Events!ToSet(s) = Events!ToSet(active[b]) \ {p} /\ Events!IsInjective(s)
    BY QueueFacts, DroppedMember
  <1> HIDE DEF s
  <1>3. h \in SUBSET PR /\ h \cap Events!ToSet(s) = {}
    BY <1>2, QueueFacts
  <1> HIDE DEF h
  <1>4. /\ QueuesTyped'
        /\ Events!Queued(b)' = Events!ToSet(s) \cup h
        /\ \A c \in Branch \ {b} : Events!Queued(c)' = Events!Queued(c)
    BY <1>1, <1>2, <1>3, OneQueueChanges
  <1> QED
    BY <1>2, <1>4, QueueFacts DEF h

LEMMA SuspendKeeps ==
    ASSUME QueuesTyped, NEW p \in PR, NEW b \in Branch, Events!Suspend(p, b)
    PROVE  QueuesTyped' /\ \A c \in Branch : Events!Queued(c)' = Events!Queued(c)
  <1>1. CASE ~Events!Contains(active[b], p)
    BY <1>1, NoQueueChanges DEF Events!Suspend, Events!queues
  <1>2. CASE Events!Contains(active[b], p)
    <2> DEFINE s == Events!Dropped(active[b], p)
               h == suspended[b] \cup {p}
    <2>1. active' = [active EXCEPT ![b] = s] /\ suspended' = [suspended EXCEPT ![b] = h]
      BY <1>2 DEF Events!Suspend
    <2>2. s \in Seq(PR) /\ Events!ToSet(s) = Events!ToSet(active[b]) \ {p} /\ Events!IsInjective(s)
      BY QueueFacts, DroppedMember
    <2> HIDE DEF s
    <2>3. h \in SUBSET PR /\ h \cap Events!ToSet(s) = {}
      BY <2>2, QueueFacts
    <2>0. p \in Events!ToSet(active[b])
      BY <1>2, QueueFacts
    <2> HIDE DEF h
    <2>4. /\ QueuesTyped'
          /\ Events!Queued(b)' = Events!ToSet(s) \cup h
          /\ \A c \in Branch \ {b} : Events!Queued(c)' = Events!Queued(c)
      BY <2>1, <2>2, <2>3, OneQueueChanges
    <2>5. Events!ToSet(s) \cup h = Events!Queued(b)
      BY <2>0, <2>2, QueueFacts DEF h
    <2> QED
      BY <2>4, <2>5
  <1> QED
    BY <1>1, <1>2

LEMMA ResumeKeeps ==
    ASSUME QueuesTyped, NEW ps, NEW b \in Branch, Events!Resume(ps, b)
    PROVE  QueuesTyped' /\ \A c \in Branch : Events!Queued(c)' = Events!Queued(c)
  <1>1. PICK r \in Events!SetToSeqs(ps \cap suspended[b]) : active' = [active EXCEPT ![b] = @ \o r]
    BY DEF Events!Resume
  <1>2. IsFiniteSet(ps \cap suspended[b])
    BY QueueFacts, Constants, FS_Subset
  <1>3. r \in Seq(ps \cap suspended[b]) /\ Events!ToSet(r) = ps \cap suspended[b] /\ Events!IsInjective(r)
    BY <1>2, OrderedSet
  <1>4. r \in Seq(PR)
    BY <1>3, QueueFacts, SeqMonotonic
  <1> DEFINE s == active[b] \o r
             h == suspended[b] \ ps
  <1>5. active' = [active EXCEPT ![b] = s] /\ suspended' = [suspended EXCEPT ![b] = h]
    BY <1>1 DEF Events!Resume
  <1>6. Events!ToSet(active[b]) \cap Events!ToSet(r) = {}
    BY <1>3, QueueFacts
  <1>7. s \in Seq(PR) /\ Events!ToSet(s) = Events!ToSet(active[b]) \cup Events!ToSet(r) /\ Events!IsInjective(s)
    BY <1>3, <1>4, <1>6, QueueFacts, ConcatMembers
  <1> HIDE DEF s
  <1>8. h \in SUBSET PR /\ h \cap Events!ToSet(s) = {}
    BY <1>3, <1>7, QueueFacts
  <1>9. Events!ToSet(s) \cup h = Events!Queued(b)
    BY <1>3, <1>7, QueueFacts
  <1> HIDE DEF h
  <1>10. /\ QueuesTyped'
         /\ Events!Queued(b)' = Events!ToSet(s) \cup h
         /\ \A c \in Branch \ {b} : Events!Queued(c)' = Events!Queued(c)
    BY <1>5, <1>7, <1>8, OneQueueChanges
  <1> QED
    BY <1>9, <1>10

(* What Dequeue() leaves in a queue: the PR only if a worker puts it back at once. *)
LEMMA ActiveWithoutMeans ==
    ASSUME QueuesTyped, NEW p \in PR, NEW b \in Branch, NEW s \in Events!ActiveWithout(p, b)
    PROVE  /\ s \in Seq(PR) /\ Events!IsInjective(s)
           /\ Events!ToSet(s) \ {p} = Events!ToSet(active[b]) \ {p}
           /\ Events!Contains(s, p) <=> p \in Events!ToSet(s)
           /\ p \in Events!ToSet(s) => p \in Events!InHand(b)
  <1> DEFINE d == Events!Dropped(active[b], p)
  <1>1. d \in Seq(PR) /\ Events!ToSet(d) = Events!ToSet(active[b]) \ {p} /\ Events!IsInjective(d)
    BY QueueFacts, DroppedMember
  <1>2. s = d \/ (s = Append(d, p) /\ p \in Events!InHand(b))
    BY DEF Events!ActiveWithout
  <1> HIDE DEF d
  <1>3. CASE s = d
    BY <1>1, <1>3, Members
  <1>4. CASE s = Append(d, p) /\ p \in Events!InHand(b)
    <2>1. s \in Seq(PR) /\ Events!ToSet(s) = Events!ToSet(d) \cup {p} /\ Events!IsInjective(s)
      BY <1>1, <1>4, AppendMember
    <2> QED
      BY <1>1, <1>4, <2>1, Members
  <1> QED
    BY <1>2, <1>3, <1>4

(* Where PR p is queued, or about to be enqueued again. *)
In(p) == {b \in Branch : p \in Events!Members(b)}

(* No worker takes PR p into its hand or out of it. *)
HandsStay(p) == \A c \in Branch : p \in Events!InHand(c)' <=> p \in Events!InHand(c)

LEMMA MembersMeans ==
    ASSUME NEW p
    PROVE  /\ \A b \in Branch : b \in In(p) <=> p \in Events!Queued(b) \/ p \in Events!InHand(b)
           /\ \A b \in Branch : b \in In(p)' <=> p \in Events!Queued(b)' \/ p \in Events!InHand(b)'
           /\ In(p) \in SUBSET Branch /\ In(p)' \in SUBSET Branch
           /\ HandsStay(p) /\ (\A c \in Branch : Events!Queued(c)' = Events!Queued(c)) => In(p)' = In(p)
  <1>1. \A b \in Branch : b \in In(p) <=> p \in Events!Queued(b) \/ p \in Events!InHand(b)
    BY DEF In, Events!Members
  <1>2. \A b \in Branch : b \in In(p)' <=> p \in Events!Queued(b)' \/ p \in Events!InHand(b)'
    BY DEF In, Events!Members
  <1>3. In(p) \in SUBSET Branch /\ In(p)' \in SUBSET Branch
    BY DEF In
  <1> QED
    BY <1>1, <1>2, <1>3 DEF HandsStay

(* cancelActionForPR() after the PR was taken out of the queue: whoever is in the worker's *)
(* hand and not missed stays there.                                                        *)
LEMMA CancelKeepsHands ==
    ASSUME WorkersTyped, NEW p \in PR, NEW b \in Branch, Events!CancelAction(p, b),
           Events!Contains(active'[b], p) => p \in Events!InHand(b)
    PROVE  /\ WorkersTyped' /\ missed \subseteq missed'
           /\ \A q \in PR \ missed' : HandsStay(q)
           /\ p \notin missed' => p \notin Events!InHand(b)
  <1> DEFINE c == [worker[b] EXCEPT !.cancelled = TRUE]
             v == IF Events!Closed(b) \/ Events!Contains(active'[b], p) THEN Events!Idle
                  ELSE IF worker[b].pr = p THEN c ELSE worker[b]
  <1>1. /\ worker' = [worker EXCEPT ![b] = v]
        /\ checks' = IF Events!Closed(b) THEN [checks EXCEPT ![b] = <<>>] ELSE checks
        /\ missed' = missed \cup (IF Events!Closed(b) THEN Events!InHand(b) ELSE Events!InHand(b) \cap {p})
    BY DEF Events!CancelAction
  <1>2. /\ worker[b] \in Events!Operation
        /\ c \in Events!Operation /\ c.task = worker[b].task /\ c.pr = worker[b].pr
        /\ Events!Idle \in Events!Operation /\ Events!Idle.task = "none"
        /\ worker[b].task # "none" => worker[b].pr \in PR
    BY DEF WorkersTyped, Events!Operation, Events!Idle, Events!Task
  <1> HIDE DEF c
  <1>3. v \in Events!Operation /\ (v.task # "none" => v.pr \in PR)
    BY <1>2
  <1>4. \/ v.task = worker[b].task /\ v.pr = worker[b].pr
        \/ v.task = "none" /\ Events!InHand(b) \subseteq missed'
    <2>1. Events!Contains(active'[b], p) => Events!InHand(b) \subseteq {p}
      BY DEF Events!InHand
    <2> QED
      BY <1>1, <1>2, <2>1
  <1> HIDE DEF v
  <1>5. worker'[b] = v /\ \A d \in Branch \ {b} : worker'[d] = worker[d]
    BY <1>1 DEF WorkersTyped
  <1>6. Events!InHand(b) \subseteq PR
    BY <1>2 DEF Events!InHand
  <1>7. WorkersTyped'
    <2>1. worker' \in [Branch -> Events!Operation]
      BY <1>1, <1>3 DEF WorkersTyped
    <2>2. \A d \in Branch : worker'[d].task # "none" => worker'[d].pr \in PR
      BY <1>3, <1>5 DEF WorkersTyped
    <2>3. checks' \in [Branch -> Seq(PR)]
      <3>1. <<>> \in Seq(PR)
        BY EmptySeq
      <3> QED
        BY <1>1, <3>1 DEF WorkersTyped
    <2>4. missed' \subseteq PR
      BY <1>1, <1>6 DEF WorkersTyped
    <2> QED
      BY <2>1, <2>2, <2>3, <2>4 DEF WorkersTyped
  <1>8. ASSUME NEW q \in PR \ missed'
        PROVE  HandsStay(q)
    <2>1. Events!InHand(b)' = IF v.task = "enqueue" THEN {v.pr} ELSE {}
      BY <1>5 DEF Events!InHand
    <2>2. q \in Events!InHand(b)' <=> q \in Events!InHand(b)
      BY <1>4, <1>8, <2>1 DEF Events!InHand
    <2>3. \A d \in Branch \ {b} : Events!InHand(d)' = Events!InHand(d)
      BY <1>5 DEF Events!InHand
    <2> QED
      BY <2>2, <2>3 DEF HandsStay
  <1>9. p \notin missed' => p \notin Events!InHand(b)
    BY <1>1
  <1> QED
    BY <1>1, <1>7, <1>8, <1>9

LEMMA DequeueRemoves ==
    ASSUME QueuesTyped, WorkersTyped, NEW p \in PR, NEW b \in Branch, Events!Dequeue(p, b)
    PROVE  /\ QueuesTyped' /\ WorkersTyped' /\ missed \subseteq missed'
           /\ \A q \in PR \ missed' : In(q)' = IF q = p THEN In(q) \ {b} ELSE In(q)
           /\ p \notin missed' => p \notin Events!InHand(b)
  <1>1. PICK s \in Events!ActiveWithout(p, b) : active' = [active EXCEPT ![b] = s]
    BY DEF Events!Dequeue
  <1>2. /\ s \in Seq(PR) /\ Events!IsInjective(s)
        /\ Events!ToSet(s) \ {p} = Events!ToSet(active[b]) \ {p}
        /\ Events!Contains(s, p) <=> p \in Events!ToSet(s)
        /\ p \in Events!ToSet(s) => p \in Events!InHand(b)
    BY ActiveWithoutMeans
  <1> DEFINE h == suspended[b] \ {p}
  <1>3. suspended' = [suspended EXCEPT ![b] = h]
    BY DEF Events!Dequeue
  <1>4. h \in SUBSET PR /\ h \cap Events!ToSet(s) = {}
    BY <1>2, QueueFacts
  <1>5. Events!ToSet(s) \cup h = (Events!Queued(b) \ {p}) \cup (Events!ToSet(s) \cap {p})
    BY <1>2, QueueFacts
  <1> HIDE DEF h
  <1>6. /\ QueuesTyped'
        /\ Events!Queued(b)' = Events!ToSet(s) \cup h
        /\ \A c \in Branch \ {b} : Events!Queued(c)' = Events!Queued(c)
    BY <1>1, <1>2, <1>3, <1>4, OneQueueChanges
  <1>7. active'[b] = s
    BY <1>1 DEF QueuesTyped
  <1>8. /\ WorkersTyped' /\ missed \subseteq missed'
        /\ \A q \in PR \ missed' : HandsStay(q)
        /\ p \notin missed' => p \notin Events!InHand(b)
    BY <1>2, <1>7, CancelKeepsHands DEF Events!Dequeue
  <1>9. ASSUME NEW q \in PR \ missed'
        PROVE  In(q)' = IF q = p THEN In(q) \ {b} ELSE In(q)
    <2>1. HandsStay(q) /\ (q = p => q \notin Events!InHand(b) /\ q \notin Events!InHand(b)')
      BY <1>8 DEF HandsStay
    <2>2. q = p => q \notin Events!ToSet(s)
      BY <1>2, <2>1
    <2>3. q \in Events!Queued(b)' <=> q # p /\ q \in Events!Queued(b)
      BY <1>5, <1>6, <2>2
    <2>4. \A c \in Branch : c \in In(q)' <=> c \in In(q) /\ ~(q = p /\ c = b)
      BY <1>6, <2>1, <2>3, MembersMeans DEF HandsStay
    <2> QED
      BY <2>4, MembersMeans
  <1> QED
    BY <1>6, <1>8, <1>9

LEMMA ChangeBaseBranchMoves ==
    ASSUME QueuesTyped, WorkersTyped, NEW p \in PR, NEW from \in Branch, NEW to \in Branch \ {from},
           Events!ChangeBaseBranch(p, from, to)
    PROVE  /\ QueuesTyped' /\ WorkersTyped' /\ missed \subseteq missed'
           /\ \A q \in PR \ missed' :
                In(q)' = IF q = p /\ from \in In(q) THEN (In(q) \ {from}) \cup {to} ELSE In(q)
  <1>1. CASE ~Events!InQueue(p, from) /\ Events!Dequeue(p, from)
    <2>1. /\ QueuesTyped' /\ WorkersTyped' /\ missed \subseteq missed'
          /\ \A q \in PR \ missed' : In(q)' = IF q = p THEN In(q) \ {from} ELSE In(q)
          /\ p \notin missed' => p \notin Events!InHand(from)
      BY <1>1, DequeueRemoves
    <2>2. p \notin missed' => from \notin In(p)
      BY <1>1, <2>1, QueueFacts, MembersMeans
    <2> QED
      BY <2>1, <2>2
  <1>2. CASE /\ Events!InQueue(p, from)
             /\ \E s \in Events!ActiveWithout(p, from) :
                   active' = [b \in Branch |->
                      IF b = from THEN s
                      ELSE IF b = to /\ ~Events!InQueue(p, to) THEN Append(active[b], p) ELSE active[b]]
             /\ suspended' = [suspended EXCEPT ![from] = @ \ {p}]
             /\ Events!CancelAction(p, from)
    <2>1. PICK s \in Events!ActiveWithout(p, from) :
                   active' = [b \in Branch |->
                      IF b = from THEN s
                      ELSE IF b = to /\ ~Events!InQueue(p, to) THEN Append(active[b], p) ELSE active[b]]
      BY <1>2
    <2>2. /\ active'[from] = s
          /\ suspended'[from] = suspended[from] \ {p}
          /\ active'[to] = IF Events!InQueue(p, to) THEN active[to] ELSE Append(active[to], p)
          /\ suspended'[to] = suspended[to]
          /\ \A c \in Branch \ {from, to} : active'[c] = active[c] /\ suspended'[c] = suspended[c]
      BY <1>2, <2>1 DEF QueuesTyped
    <2>3. /\ active'[from] \in Seq(PR) /\ Events!IsInjective(active'[from])
          /\ suspended'[from] \in SUBSET PR /\ suspended'[from] \cap Events!ToSet(active'[from]) = {}
          /\ Events!Queued(from)' = (Events!Queued(from) \ {p}) \cup (Events!ToSet(s) \cap {p})
          /\ Events!Contains(s, p) <=> p \in Events!ToSet(s)
          /\ p \in Events!ToSet(s) => p \in Events!InHand(from)
      <3>1. /\ s \in Seq(PR) /\ Events!IsInjective(s)
            /\ Events!ToSet(s) \ {p} = Events!ToSet(active[from]) \ {p}
            /\ Events!Contains(s, p) <=> p \in Events!ToSet(s)
            /\ p \in Events!ToSet(s) => p \in Events!InHand(from)
        BY ActiveWithoutMeans
      <3>2. Events!Queued(from)' = Events!ToSet(active'[from]) \cup suspended'[from]
        BY DEF Events!Queued
      <3> QED
        BY <2>2, <3>1, <3>2, QueueFacts
    <2>4. /\ active'[to] \in Seq(PR) /\ Events!IsInjective(active'[to])
          /\ suspended'[to] \in SUBSET PR /\ suspended'[to] \cap Events!ToSet(active'[to]) = {}
          /\ Events!Queued(to)' = Events!Queued(to) \cup {p}
      <3>1. Events!Queued(to)' = Events!ToSet(active'[to]) \cup suspended'[to]
        BY DEF Events!Queued
      <3>2. CASE Events!InQueue(p, to)
        BY <2>2, <3>1, <3>2, QueueFacts
      <3>3. CASE ~Events!InQueue(p, to)
        <4>1. p \notin Events!ToSet(active[to]) /\ p \notin suspended[to]
          BY <3>3, QueueFacts
        <4>2. /\ active'[to] \in Seq(PR) /\ Events!IsInjective(active'[to])
              /\ Events!ToSet(active'[to]) = Events!ToSet(active[to]) \cup {p}
          BY <2>2, <3>3, <4>1, QueueFacts, AppendMember
        <4> QED
          BY <2>2, <3>1, <4>1, <4>2, QueueFacts
      <3> QED
        BY <3>2, <3>3
    <2>5. \A c \in Branch \ {from, to} :
              /\ active'[c] \in Seq(PR) /\ Events!IsInjective(active'[c])
              /\ suspended'[c] \in SUBSET PR /\ suspended'[c] \cap Events!ToSet(active'[c]) = {}
              /\ Events!Queued(c)' = Events!Queued(c)
      BY <2>2, QueueFacts DEF Events!Queued
    <2>6. active' \in [Branch -> Seq(PR)] /\ suspended' \in [Branch -> SUBSET PR]
      <3>1. \A c \in Branch : active'[c] \in Seq(PR) /\ suspended'[c] \in SUBSET PR
        BY <2>3, <2>4, <2>5
      <3>2. DOMAIN active' = Branch /\ active' = [b \in Branch |-> active'[b]]
        BY <2>1
      <3>3. DOMAIN suspended' = Branch /\ suspended' = [b \in Branch |-> suspended'[b]]
        BY <1>2 DEF QueuesTyped
      <3> QED
        BY <3>1, <3>2, <3>3
    <2>7. QueuesTyped'
      BY <2>3, <2>4, <2>5, <2>6 DEF QueuesTyped
    <2>8. /\ WorkersTyped' /\ missed \subseteq missed'
          /\ \A q \in PR \ missed' : HandsStay(q)
          /\ p \notin missed' => p \notin Events!InHand(from)
      BY <1>2, <2>2, <2>3, CancelKeepsHands
    <2>9. ASSUME NEW q \in PR \ missed'
          PROVE  In(q)' = IF q = p /\ from \in In(q) THEN (In(q) \ {from}) \cup {to} ELSE In(q)
      <3>1. HandsStay(q)
        BY <2>8
      <3>2. CASE q # p
        <4>1. \A c \in Branch : q \in Events!Queued(c)' <=> q \in Events!Queued(c)
          BY <2>3, <2>4, <2>5, <3>2
        <4>2. \A c \in Branch : c \in In(q)' <=> c \in In(q)
          BY <3>1, <4>1, MembersMeans DEF HandsStay
        <4> QED
          BY <3>2, <4>2, MembersMeans
      <3>3. CASE q = p
        <4>1. p \notin Events!InHand(from) /\ p \notin Events!InHand(from)' /\ p \notin Events!ToSet(s)
          BY <2>3, <2>8, <3>1, <3>3 DEF HandsStay
        <4>2. from \in In(p) /\ from \notin In(p)'
          BY <1>2, <2>3, <4>1, QueueFacts, MembersMeans
        <4>3. to \in In(p)'
          BY <2>4, MembersMeans
        <4>4. \A c \in Branch \ {from, to} : c \in In(p)' <=> c \in In(p)
          BY <2>5, <3>1, <3>3, MembersMeans DEF HandsStay
        <4> QED
          BY <3>3, <4>2, <4>3, <4>4, MembersMeans
      <3> QED
        BY <3>2, <3>3
    <2> QED
      BY <2>7, <2>8, <2>9
  <1> QED
    BY <1>1, <1>2 DEF Events!ChangeBaseBranch

(* Queued checks are no members of the queue. *)
LEMMA ResumePositiveKeeps ==
    ASSUME QueuesTyped, WorkersTyped, NEW p \in PR, Events!ResumeIfStatusPositive(p)
    PROVE  WorkersTyped' /\ UNCHANGED <<active, suspended, worker, missed>>
  <1>1. /\ checks' = [b \in Branch |-> IF p \in suspended[b] THEN Append(checks[b], p) ELSE checks[b]]
        /\ UNCHANGED <<active, suspended, worker, missed>>
    BY DEF Events!ResumeIfStatusPositive, Events!queues
  <1>2. \A b \in Branch : Append(checks[b], p) \in Seq(PR)
    BY AppendProperties DEF WorkersTyped
  <1> QED
    BY <1>1, <1>2 DEF WorkersTyped

(* processEvent() does to the queues what After() says. *)
LEMMA ProcessEventFollows ==
    ASSUME QueuesTyped, WorkersTyped, NEW e \in Events!Event, Events!Genuine(e), Events!ProcessEvent(e)
    PROVE  /\ QueuesTyped' /\ WorkersTyped' /\ missed \subseteq missed'
           /\ \A p \in PR \ missed' : In(p)' = Events!After(e, p, In(p))
  <1>0. e.kind \in Events!Kind /\ e.base \in Branch /\ e.open \in BOOLEAN
    BY DEF Events!Event
  <1>1. \A q : e.pr # q => Events!After(e, q, In(q)) = In(q)
    BY AfterFacts DEF In
  <1>2. UNCHANGED worker => \A q : HandsStay(q)
    BY DEF HandsStay, Events!InHand
  <1>3. CASE e.kind = "labeled"
    <2>1. e.pr \in PR /\ Events!Labeled(e)
      BY <1>3 DEF Events!Genuine, Events!ProcessEvent
    <2>2. UNCHANGED <<checks, worker, missed>>
      BY <2>1 DEF Events!Labeled, Events!pool
    <2>3. WorkersTyped' /\ missed \subseteq missed'
      BY <2>2 DEF WorkersTyped
    <2>4. ASSUME NEW p, e.pr = p
          PROVE  Events!After(e, p, In(p)) = IF e.open THEN In(p) \cup ({e.base} \cap Branch) ELSE In(p)
      <3>1. In(p) \in SUBSET Branch
        BY MembersMeans
      <3> QED
        BY <1>3, <2>4, <3>1, AfterKind
    <2>5. CASE e.open
      <3>1. /\ QueuesTyped'
            /\ Events!Queued(e.base)' = Events!Queued(e.base) \cup {e.pr}
            /\ \A c \in Branch \ {e.base} : Events!Queued(c)' = Events!Queued(c)
        BY <1>0, <2>1, <2>5, EnqueueAdds DEF Events!Labeled
      <3>2. ASSUME NEW p
            PROVE  In(p)' = IF e.pr = p THEN In(p) \cup {e.base} ELSE In(p)
        <4>1. \A c \in Branch : c \in In(p)' <=> c \in In(p) \/ (e.pr = p /\ c = e.base)
          BY <1>2, <2>2, <3>1, MembersMeans DEF HandsStay
        <4> QED
          BY <1>0, <4>1, MembersMeans
      <3> QED
        BY <1>0, <1>1, <2>3, <2>4, <2>5, <3>1, <3>2
    <2>6. CASE ~e.open
      <3>1. UNCHANGED <<active, suspended>>
        BY <2>1, <2>6 DEF Events!Labeled, Events!queues
      <3>2. \A p : In(p)' = In(p)
        BY <1>2, <2>2, <3>1, NoQueueChanges, MembersMeans
      <3> QED
        BY <1>1, <2>3, <2>4, <2>6, <3>1, <3>2, NoQueueChanges
    <2> QED
      BY <2>5, <2>6
  <1>4. CASE e.kind \in {"unlabeled", "closed"}
    <2>1. e.pr \in PR /\ Events!Dequeue(e.pr, e.base)
      BY <1>4 DEF Events!Genuine, Events!ProcessEvent, Events!Unlabeled
    <2>2. ASSUME NEW p, e.pr = p
          PROVE  Events!After(e, p, In(p)) = In(p) \ {e.base}
      <3>1. In(p) \in SUBSET Branch
        BY MembersMeans
      <3> QED
        BY <1>4, <2>2, <3>1, AfterKind
    <2>3. /\ QueuesTyped' /\ WorkersTyped' /\ missed \subseteq missed'
          /\ \A q \in PR \ missed' : In(q)' = IF q = e.pr THEN In(q) \ {e.base} ELSE In(q)
      BY <1>0, <2>1, DequeueRemoves
    <2> QED
      BY <1>1, <2>2, <2>3
  <1>5. CASE e.kind = "edited"
    <2>1. e.pr \in PR /\ e.from \in Branch /\ e.base \in Branch \ {e.from}
      BY <1>0, <1>5 DEF Events!Genuine
    <2>2. Events!ChangeBaseBranch(e.pr, e.from, e.base)
      BY <1>5 DEF Events!ProcessEvent, Events!Edited
    <2>3. ASSUME NEW p, e.pr = p
          PROVE  Events!After(e, p, In(p)) =
                    (In(p) \ {e.from}) \cup (IF e.from \in In(p) THEN {e.base} \cap Branch ELSE {})
      <3>1. In(p) \in SUBSET Branch
        BY MembersMeans
      <3> QED
        BY <1>5, <2>3, <3>1, AfterKind
    <2>4. /\ QueuesTyped' /\ WorkersTyped' /\ missed \subseteq missed'
          /\ \A q \in PR \ missed' :
                In(q)' = IF q = e.pr /\ e.from \in In(q) THEN (In(q) \ {e.from}) \cup {e.base} ELSE In(q)
      BY <2>1, <2>2, ChangeBaseBranchMoves
    <2>5. \A p : e.pr = p => Events!After(e, p, In(p)) =
              IF e.from \in In(p) THEN (In(p) \ {e.from}) \cup {e.base} ELSE In(p)
      BY <2>1, <2>3
    <2> QED
      BY <1>1, <2>4, <2>5
  <1>6. CASE e.kind \in {"approved", "changes_requested", "synchronize", "push"}
    <2>1. ASSUME NEW p, e.pr = p
          PROVE  Events!After(e, p, In(p)) = In(p)
      <3>1. In(p) \in SUBSET Branch
        BY MembersMeans
      <3> QED
        BY <1>6, <2>1, <3>1, AfterKind
    <2>2. /\ QueuesTyped' /\ \A c \in Branch : Events!Queued(c)' = Events!Queued(c)
          /\ WorkersTyped' /\ UNCHANGED <<worker, missed>>
      <3>1. CASE e.kind = "approved"
        <4>1. Events!ResumeIfStatusPositive(e.pr) /\ e.pr \in PR
          BY <3>1 DEF Events!ProcessEvent, Events!Reviewed, Events!Genuine
        <4> QED
          BY <4>1, ResumePositiveKeeps, NoQueueChanges
      <3>2. CASE e.kind = "changes_requested"
        <4>1. UNCHANGED <<active, suspended, checks, worker, missed>>
          BY <3>2 DEF Events!ProcessEvent, Events!Reviewed, Events!queues, Events!pool
        <4> QED
          BY <4>1, NoQueueChanges DEF WorkersTyped
      <3>3. CASE e.kind = "synchronize"
        <4>1. Events!Resume({e.pr}, e.base) /\ UNCHANGED <<checks, worker, missed>>
          BY <3>3 DEF Events!ProcessEvent, Events!Synchronized, Events!pool
        <4> QED
          BY <1>0, <4>1, ResumeKeeps DEF WorkersTyped
      <3>4. CASE e.kind = "push"
        <4>1. Events!Resume(suspended[e.base], e.base) /\ UNCHANGED <<checks, worker, missed>>
          BY <3>4 DEF Events!ProcessEvent, Events!Pushed, Events!pool
        <4> QED
          BY <1>0, <4>1, ResumeKeeps DEF WorkersTyped
      <3> QED
        BY <1>6, <3>1, <3>2, <3>3, <3>4
    <2>3. \A p : In(p)' = In(p)
      BY <1>2, <2>2, MembersMeans
    <2> QED
      BY <1>1, <2>1, <2>2, <2>3
  <1> QED
    BY <1>0, <1>3, <1>4, <1>5, <1>6 DEF Events!Kind

-----------------------------------------------------------------------------
(* The steps of the program. *)

(* TypeOK in its parts. *)
OthersTyped ==
    /\ runPc \in {"sync", "run"}
    /\ unlisted \subseteq PR /\ listed \subseteq PR \X Branch
    /\ changes \in 0..MaxChanges /\ lost \in Nat /\ restarts \in 0..MaxRestarts

ChannelTyped == channel \in Seq(Events!Event) /\ Len(channel) <= Capacity

LEMMA TypeParts ==
    /\ Events!TypeOK <=> Github /\ ChannelTyped /\ QueuesTyped /\ WorkersTyped /\ OthersTyped
    /\ Events!TypeOK' <=> Github' /\ ChannelTyped' /\ QueuesTyped' /\ WorkersTyped' /\ OthersTyped'
  <1>1. Events!TypeOK <=> Github /\ ChannelTyped /\ QueuesTyped /\ WorkersTyped /\ OthersTyped
    BY DEF Events!TypeOK, Github, ChannelTyped, QueuesTyped, WorkersTyped, OthersTyped
  <1>2. Events!TypeOK' <=> Github' /\ ChannelTyped' /\ QueuesTyped' /\ WorkersTyped' /\ OthersTyped'
    BY DEF Events!TypeOK, Github, ChannelTyped, QueuesTyped, WorkersTyped, OthersTyped
  <1> QED
    BY <1>1, <1>2

LEMMA PlacesMeans ==
    ASSUME NEW p
    PROVE  /\ Events!Places(p) = {b \in Branch : b \in In(p) \/ <<p, b>> \in listed}
           /\ Events!Places(p)' = {b \in Branch : b \in In(p)' \/ <<p, b>> \in listed'}
           /\ In(p) \subseteq Branch /\ In(p)' \subseteq Branch
  <1>1. Events!Places(p) = {b \in Branch : b \in In(p) \/ <<p, b>> \in listed}
    BY DEF Events!Places, In
  <1>2. Events!Places(p)' = {b \in Branch : b \in In(p)' \/ <<p, b>> \in listed'}
    BY DEF Events!Places, In
  <1> QED
    BY <1>1, <1>2 DEF In

(* A PR whose places, events and state are as before is as right as before;  *)
(* one that is closed may leave places.                                      *)
LEMMA KeptIsRight ==
    ASSUME NEW p \in PR, Right(p), UNCHANGED <<open, base, triggers, channel>>,
           p \in unlisted' <=> p \in unlisted,
           Events!Places(p)' \subseteq Events!Places(p), p \in open => Events!Places(p)' = Events!Places(p)
    PROVE  Right(p)'
  <1>1. /\ Events!WantedFor(p)' = Events!WantedFor(p) /\ Events!Wanted(p)' = Events!Wanted(p)
    BY DEF Events!WantedFor, Events!Wanted
  <1>2. CASE p \in unlisted
    <2>1. Events!WouldSettle(p)
      BY <1>2 DEF Right
    <2>2. Events!Places(p)' = {}
      BY <2>1, WouldSettleMeans
    <2>3. /\ \E T : Takes(channel', p, {}, T) /\ T \subseteq Events!WantedFor(p)'
          /\ \A b \in Branch : \E T : /\ Takes(channel', p, {b}, T)
                                      /\ T \subseteq {b, base'[p]}
                                      /\ Events!Wanted(p)' => T # {}
      <3>1. /\ \E T : Takes(channel, p, {}, T) /\ T \subseteq Events!WantedFor(p)
            /\ \A b \in Branch : \E T : /\ Takes(channel, p, {b}, T)
                                        /\ T \subseteq {b, base[p]}
                                        /\ Events!Wanted(p) => T # {}
        BY <2>1, WouldSettleMeans, Zenon
      <3>2. channel' = channel /\ base' = base
        OBVIOUS
      <3> QED
        BY <1>1, <3>1, <3>2
    <2>4. Events!WouldSettle(p)'
      BY <2>2, <2>3, WouldSettleMeans, Zenon
    <2> QED
      BY <1>2, <2>4 DEF Right
  <1>3. CASE p \notin unlisted
    <2>1. PICK S : /\ Events!Places(p) \subseteq S
                   /\ p \in open => S = Events!Places(p)
                   /\ Takes(channel, p, S, Events!WantedFor(p))
      BY <1>3, SettlesMeans DEF Right
    <2>2. Events!Settles(p)'
      BY <1>1, <2>1, SettlesMeans
    <2> QED
      BY <1>3, <2>2 DEF Right
  <1> QED
    BY <1>2, <1>3

(* InitSync() *)
LEMMA ListPRKeepsInvariant ==
    ASSUME Events!Invariant, NEW p \in PR, Events!ListPR(p)
    PROVE  Events!Invariant'
  <1>0. Events!TypeOK /\ AllGenuine /\ SyncIsOver /\ Settled
    BY InvariantMeans
  <1>1. /\ p \in unlisted
        /\ unlisted' = unlisted \ {p}
        /\ listed' = IF Events!Wanted(p) THEN listed \cup {<<p, base[p]>>} ELSE listed
        /\ UNCHANGED <<runPc, active, suspended, checks, worker, missed>>
        /\ UNCHANGED <<open, base, triggers, ready, channel, changes, lost, restarts>>
    BY DEF Events!ListPR, Events!queues, Events!pool, Events!Program, Events!github
  <1>2. base[p] \in Branch
    BY <1>0 DEF Events!TypeOK
  <1>3. Events!TypeOK'
    <2>1. listed' \subseteq PR \X Branch
      BY <1>0, <1>1, <1>2 DEF Events!TypeOK
    <2> QED
      BY <1>0, <1>1, <2>1 DEF Events!TypeOK
  <1>4. AllGenuine'
    BY <1>0, <1>1 DEF AllGenuine, Events!Genuine
  <1>5. SyncIsOver'
    BY <1>0, <1>1 DEF SyncIsOver
  <1>6. \A q : In(q)' = In(q)
    BY <1>1 DEF In, Events!Members, Events!Queued, Events!InHand
  <1>7. Settled'
    <2> SUFFICES ASSUME lost' = 0, NEW q \in PR \ missed'
                 PROVE  Right(q)'
      BY DEF Settled
    <2>0. Right(q)
      BY <1>0, <1>1 DEF Settled
    <2>1. CASE q # p
      <3>1. Events!Places(q)' = Events!Places(q)
        <4>1. \A b : <<q, b>> \in listed' <=> <<q, b>> \in listed
          BY <1>1, <2>1
        <4> QED
          BY <1>6, <4>1, PlacesMeans
      <3> QED
        BY <1>1, <2>0, <2>1, <3>1, KeptIsRight
    <2>2. CASE q = p
      <3>1. Events!WouldSettle(p)
        BY <1>1, <2>0, <2>2 DEF Right
      <3>2. Events!WantedFor(p)' = Events!WantedFor(p)
        BY <1>1 DEF Events!WantedFor, Events!Wanted
      <3>3. Events!Places(p)' = Events!WantedFor(p)
        <4>1. Events!Places(p) = {}
          BY <3>1, WouldSettleMeans
        <4>2. \A b \in Branch : b \notin In(p) /\ <<p, b>> \notin listed
          BY <4>1, PlacesMeans
        <4>3. \A b \in Branch : <<p, b>> \in listed' <=> Events!Wanted(p) /\ b = base[p]
          BY <1>1, <4>2
        <4>4. Events!Places(p)' = {b \in Branch : b \in In(p) \/ <<p, b>> \in listed'}
          BY <1>6, PlacesMeans
        <4> QED
          BY <1>2, <4>2, <4>3, <4>4 DEF Events!WantedFor
      <3>4. Takes(channel, p, Events!WantedFor(p), Events!WantedFor(p))
        <4>1. CASE Events!Wanted(p)
          <5>0. \A b \in Branch : \E T : /\ Takes(channel, p, {b}, T)
                                         /\ T \subseteq {b, base[p]}
                                         /\ Events!Wanted(p) => T # {}
            BY <3>1, WouldSettleMeans, Zenon
          <5>1. PICK T : /\ Takes(channel, p, {base[p]}, T)
                         /\ T \subseteq {base[p], base[p]}
                         /\ Events!Wanted(p) => T # {}
            BY <1>2, <5>0
          <5>2. T = {base[p]} /\ Events!WantedFor(p) = {base[p]}
            BY <4>1, <5>1 DEF Events!WantedFor
          <5> QED
            BY <5>1, <5>2
        <4>2. CASE ~Events!Wanted(p)
          <5>1. Events!WantedFor(p) = {}
            BY <4>2 DEF Events!WantedFor
          <5>2. PICK T : Takes(channel, p, {}, T) /\ T \subseteq Events!WantedFor(p)
            BY <3>1, WouldSettleMeans
          <5>3. T = {}
            BY <5>1, <5>2
          <5> QED
            BY <5>1, <5>2, <5>3
        <4> QED
          BY <4>1, <4>2
      <3>5. Events!Settles(p)'
        BY <1>1, <3>2, <3>3, <3>4, SettlesMeans
      <3> QED
        BY <1>1, <2>2, <3>5 DEF Right
    <2> QED
      BY <2>1, <2>2
  <1> QED
    BY <1>3, <1>4, <1>5, <1>7, InvariantMeans

LEMMA EnqueueListedKeepsInvariant ==
    ASSUME Events!Invariant, NEW p \in PR, NEW b \in Branch, Events!EnqueueListed(p, b)
    PROVE  Events!Invariant'
  <1>0. Events!TypeOK /\ AllGenuine /\ SyncIsOver /\ Settled
    BY InvariantMeans
  <1>1. /\ unlisted = {} /\ <<p, b>> \in listed
        /\ listed' = listed \ {<<p, b>>}
        /\ Events!Enqueue(p, b)
        /\ UNCHANGED <<runPc, unlisted, checks, worker, missed>>
        /\ UNCHANGED <<open, base, triggers, ready, channel, changes, lost, restarts>>
    BY DEF Events!EnqueueListed, Events!pool, Events!Program, Events!github
  <1>2. /\ QueuesTyped'
        /\ Events!Queued(b)' = Events!Queued(b) \cup {p}
        /\ \A c \in Branch \ {b} : Events!Queued(c)' = Events!Queued(c)
    BY <1>0, <1>1, TypeParts, EnqueueAdds
  <1>3. Events!TypeOK'
    <2>1. Github' /\ ChannelTyped' /\ WorkersTyped' /\ OthersTyped'
      BY <1>0, <1>1, TypeParts DEF Github, ChannelTyped, WorkersTyped, OthersTyped
    <2> QED
      BY <1>2, <2>1, TypeParts
  <1>4. AllGenuine'
    BY <1>0, <1>1 DEF AllGenuine, Events!Genuine
  <1>5. SyncIsOver'
    BY <1>0, <1>1 DEF SyncIsOver
  <1>6. ASSUME NEW q \in PR
        PROVE  Events!Places(q)' = Events!Places(q)
    <2>1. \A c \in Branch : c \in In(q)' <=> c \in In(q) \/ (c = b /\ q = p)
      BY <1>1, <1>2 DEF In, Events!Members, Events!InHand
    <2>2. \A c \in Branch : <<q, c>> \in listed <=> <<q, c>> \in listed' \/ (c = b /\ q = p)
      BY <1>1
    <2> QED
      BY <2>1, <2>2, PlacesMeans
  <1>7. Settled'
    BY <1>0, <1>1, <1>6, KeptIsRight DEF Settled
  <1> QED
    BY <1>3, <1>4, <1>5, <1>7, InvariantMeans

LEMMA StartKeepsInvariant ==
    ASSUME Events!Invariant, Events!Start
    PROVE  Events!Invariant'
  <1>0. Events!TypeOK /\ AllGenuine /\ SyncIsOver /\ Settled
    BY InvariantMeans
  <1>1. /\ unlisted = {} /\ listed = {} /\ runPc' = "run"
        /\ UNCHANGED <<unlisted, listed, active, suspended, checks, worker, missed>>
        /\ UNCHANGED <<open, base, triggers, ready, channel, changes, lost, restarts>>
    BY DEF Events!Start, Events!queues, Events!pool, Events!Program, Events!github
  <1>3. Events!TypeOK'
    BY <1>0, <1>1 DEF Events!TypeOK
  <1>4. AllGenuine'
    BY <1>0, <1>1 DEF AllGenuine, Events!Genuine
  <1>5. SyncIsOver'
    BY <1>0, <1>1 DEF SyncIsOver
  <1>6. \A q : Events!Places(q)' = Events!Places(q)
    BY <1>1 DEF Events!Places, Events!Members, Events!Queued, Events!InHand
  <1>7. Settled'
    BY <1>0, <1>1, <1>6, KeptIsRight DEF Settled
  <1> QED
    BY <1>3, <1>4, <1>5, <1>7, InvariantMeans

(* The worker.  What all of its steps leave alone. *)
OnlyQueuesMove ==
    /\ UNCHANGED <<runPc, unlisted, listed, missed>>
    /\ UNCHANGED <<open, base, triggers, ready, channel, changes, lost, restarts>>

(* A step of a worker may take closed PRs out of the queues. *)
LEMMA WorkerKeepsInvariant ==
    ASSUME Events!Invariant, OnlyQueuesMove, QueuesTyped', WorkersTyped',
           \A q \in PR : In(q)' \subseteq In(q) /\ (q \in open => In(q)' = In(q))
    PROVE  Events!Invariant'
  <1>0. Events!TypeOK /\ AllGenuine /\ SyncIsOver /\ Settled
    BY InvariantMeans
  <1>1. Events!TypeOK'
    <2>1. Github' /\ ChannelTyped' /\ OthersTyped'
      BY <1>0, TypeParts DEF OnlyQueuesMove, Github, ChannelTyped, OthersTyped
    <2> QED
      BY <2>1, TypeParts
  <1>2. AllGenuine'
    BY <1>0 DEF OnlyQueuesMove, AllGenuine, Events!Genuine
  <1>3. SyncIsOver'
    BY <1>0 DEF OnlyQueuesMove, SyncIsOver
  <1>4. \A q \in PR : /\ Events!Places(q)' \subseteq Events!Places(q)
                      /\ q \in open => Events!Places(q)' = Events!Places(q)
    BY PlacesMeans DEF OnlyQueuesMove
  <1>5. Settled'
    BY <1>0, <1>4, KeptIsRight DEF OnlyQueuesMove, Settled
  <1> QED
    BY <1>1, <1>2, <1>3, <1>5, InvariantMeans

(* The operation of one worker is replaced by another. *)
LEMMA OneWorkerChanges ==
    ASSUME WorkersTyped, NEW b \in Branch, NEW v \in Events!Operation, v.task # "none" => v.pr \in PR,
           worker' = [worker EXCEPT ![b] = v], checks' \in [Branch -> Seq(PR)], missed' = missed
    PROVE  /\ WorkersTyped'
           /\ Events!InHand(b)' = IF v.task = "enqueue" THEN {v.pr} ELSE {}
           /\ \A c \in Branch \ {b} : Events!InHand(c)' = Events!InHand(c)
  <1>1. worker'[b] = v /\ \A c \in Branch \ {b} : worker'[c] = worker[c]
    BY DEF WorkersTyped
  <1>2. worker' \in [Branch -> Events!Operation]
    BY DEF WorkersTyped
  <1>3. WorkersTyped'
    BY <1>1, <1>2 DEF WorkersTyped
  <1> QED
    BY <1>1, <1>3 DEF Events!InHand

LEMMA OperationsTyped ==
    /\ Events!Idle \in Events!Operation /\ Events!Idle.task = "none"
    /\ \A task \in Events!Task, p \in PR :
          /\ Events!Running(task, p) \in Events!Operation
          /\ Events!Running(task, p).task = task /\ Events!Running(task, p).pr = p
  BY DEF Events!Idle, Events!Running, Events!Operation, Events!Task

LEMMA FetchKeepsInvariant ==
    ASSUME Events!Invariant, NEW b \in Branch, Events!Fetch(b)
    PROVE  Events!Invariant'
  <1>0. QueuesTyped /\ WorkersTyped
    BY InvariantMeans, TypeParts
  <1>1. /\ worker[b].task = "none" /\ active[b] # <<>>
        /\ worker' = [worker EXCEPT ![b] = Events!Running("process", Head(active[b]))]
        /\ UNCHANGED <<active, suspended, checks>>
        /\ OnlyQueuesMove
    BY DEF Events!Fetch, Events!sync, Events!queues, Events!Program, Events!github, OnlyQueuesMove
  <1>2. Head(active[b]) \in PR
    BY <1>0, <1>1, QueueFacts, HeadTailProperties
  <1> DEFINE v == Events!Running("process", Head(active[b]))
  <1>3. v \in Events!Operation /\ v.task = "process" /\ v.pr \in PR
    BY <1>2, OperationsTyped DEF Events!Task
  <1> HIDE DEF v
  <1>4. /\ WorkersTyped'
        /\ Events!InHand(b)' = {} /\ Events!InHand(b) = {}
        /\ \A c \in Branch \ {b} : Events!InHand(c)' = Events!InHand(c)
    <2>1. worker' = [worker EXCEPT ![b] = v] /\ checks' \in [Branch -> Seq(PR)] /\ missed' = missed
      BY <1>0, <1>1 DEF v, WorkersTyped, OnlyQueuesMove
    <2>2. Events!InHand(b) = {}
      BY <1>1 DEF Events!InHand
    <2> QED
      BY <1>0, <1>3, <2>1, <2>2, OneWorkerChanges
  <1>5. QueuesTyped' /\ \A q : In(q)' = In(q)
    BY <1>0, <1>1, <1>4, NoQueueChanges, MembersMeans DEF HandsStay
  <1> QED
    BY <1>1, <1>4, <1>5, WorkerKeepsInvariant

LEMMA ActKeepsInvariant ==
    ASSUME Events!Invariant, NEW b \in Branch, Events!Act(b)
    PROVE  Events!Invariant'
  <1>0. QueuesTyped /\ WorkersTyped
    BY InvariantMeans, TypeParts
  <1>1. /\ worker[b].task = "process"
        /\ Events!Complete(worker[b], b)
        /\ worker' = [worker EXCEPT ![b] = Events!Idle]
        /\ checks' = checks
        /\ OnlyQueuesMove
    BY DEF Events!Act, Events!sync, Events!Program, Events!github, OnlyQueuesMove
  <1>2. worker[b].pr \in PR
    BY <1>0, <1>1 DEF WorkersTyped
  <1>3. /\ WorkersTyped'
        /\ \A q : HandsStay(q)
    <2>1. checks' \in [Branch -> Seq(PR)] /\ missed' = missed
      BY <1>0, <1>1 DEF WorkersTyped, OnlyQueuesMove
    <2>2. /\ WorkersTyped' /\ Events!InHand(b)' = {}
          /\ \A c \in Branch \ {b} : Events!InHand(c)' = Events!InHand(c)
      BY <1>0, <1>1, <2>1, OperationsTyped, OneWorkerChanges
    <2>3. Events!InHand(b) = {}
      BY <1>1 DEF Events!InHand
    <2> QED
      BY <2>2, <2>3 DEF HandsStay
  <1>4. /\ QueuesTyped'
        /\ \A q \in PR : In(q)' \subseteq In(q) /\ (q \in open => In(q)' = In(q))
    <2>1. CASE Events!Suspend(worker[b].pr, b)
      BY <1>0, <1>2, <1>3, <2>1, SuspendKeeps, MembersMeans
    <2>2. CASE worker[b].pr \notin open /\ Events!Without(worker[b].pr, b)
      <3>1. /\ QueuesTyped'
            /\ Events!Queued(b)' = Events!Queued(b) \ {worker[b].pr}
            /\ \A c \in Branch \ {b} : Events!Queued(c)' = Events!Queued(c)
        BY <1>0, <2>2, WithoutRemoves
      <3>2. ASSUME NEW q \in PR
            PROVE  In(q)' \subseteq In(q) /\ (q \in open => In(q)' = In(q))
        <4>1. \A c \in Branch : c \in In(q)' => c \in In(q)
          BY <1>3, <3>1, MembersMeans DEF HandsStay
        <4>2. q \in open => \A c \in Branch : c \in In(q) => c \in In(q)'
          BY <1>3, <2>2, <3>1, MembersMeans DEF HandsStay
        <4> QED
          BY <4>1, <4>2, MembersMeans
      <3> QED
        BY <3>1, <3>2
    <2>3. CASE UNCHANGED <<active, suspended>>
      BY <1>0, <1>3, <2>3, NoQueueChanges, MembersMeans
    <2> QED
      BY <1>1, <2>1, <2>2, <2>3 DEF Events!Complete, Events!queues
  <1> QED
    BY <1>1, <1>3, <1>4, WorkerKeepsInvariant

LEMMA CheckKeepsInvariant ==
    ASSUME Events!Invariant, NEW b \in Branch, Events!Check(b)
    PROVE  Events!Invariant'
  <1>0. QueuesTyped /\ WorkersTyped
    BY InvariantMeans, TypeParts
  <1> DEFINE p == Head(checks[b])
             v == IF p \in suspended[b] \cap ready THEN Events!Running("unsuspend", p) ELSE worker[b]
  <1>1. /\ worker[b].task = "none" /\ checks[b] # <<>>
        /\ checks' = [checks EXCEPT ![b] = Tail(@)]
        /\ worker' = [worker EXCEPT ![b] = v]
        /\ UNCHANGED <<active, suspended>>
        /\ OnlyQueuesMove
    BY <1>0 DEF Events!Check, Events!sync, Events!queues, Events!Program, Events!github, OnlyQueuesMove,
       WorkersTyped
  <1>2. p \in PR /\ checks' \in [Branch -> Seq(PR)]
    <2>1. checks[b] \in Seq(PR)
      BY <1>0 DEF WorkersTyped
    <2>2. Tail(checks[b]) \in Seq(PR) /\ p \in PR
      BY <1>1, <2>1, HeadTailProperties
    <2> QED
      BY <1>0, <1>1, <2>2 DEF WorkersTyped
  <1>3. v \in Events!Operation /\ v.task # "enqueue" /\ (v.task # "none" => v.pr \in PR)
    <2> HIDE DEF p
    <2>1. "unsuspend" \in Events!Task /\ worker[b] \in Events!Operation
      BY <1>0 DEF Events!Task, WorkersTyped
    <2> QED
      BY <1>1, <1>2, <2>1, OperationsTyped
  <1> HIDE DEF v
  <1>4. WorkersTyped' /\ \A q : HandsStay(q)
    <2>1. /\ WorkersTyped' /\ Events!InHand(b)' = {}
          /\ \A c \in Branch \ {b} : Events!InHand(c)' = Events!InHand(c)
      BY <1>0, <1>1, <1>2, <1>3, OneWorkerChanges DEF OnlyQueuesMove
    <2>2. Events!InHand(b) = {}
      BY <1>1 DEF Events!InHand
    <2> QED
      BY <2>1, <2>2 DEF HandsStay
  <1>5. QueuesTyped' /\ \A q : In(q)' = In(q)
    BY <1>0, <1>1, <1>4, NoQueueChanges, MembersMeans
  <1> QED
    BY <1>1, <1>4, <1>5, WorkerKeepsInvariant

(* The PR moves from the suspended ones to the worker's hand. *)
LEMMA UnsuspendKeepsInvariant ==
    ASSUME Events!Invariant, NEW b \in Branch, Events!Unsuspend(b)
    PROVE  Events!Invariant'
  <1>0. QueuesTyped /\ WorkersTyped
    BY InvariantMeans, TypeParts
  <1> DEFINE p == worker[b].pr
             w == [worker[b] EXCEPT !.task = "enqueue"]
             v == IF p \in suspended[b] THEN w ELSE Events!Idle
             h == suspended[b] \ {p}
  <1>1. /\ worker[b].task = "unsuspend"
        /\ suspended' = [suspended EXCEPT ![b] = h]
        /\ worker' = [worker EXCEPT ![b] = v]
        /\ UNCHANGED <<active, checks>>
        /\ OnlyQueuesMove
    BY DEF Events!Unsuspend, Events!sync, Events!Program, Events!github, OnlyQueuesMove
  <1>2. p \in PR
    BY <1>0, <1>1 DEF WorkersTyped
  <1>3. w \in Events!Operation /\ w.task = "enqueue" /\ w.pr = p
    BY <1>0 DEF WorkersTyped, Events!Operation, Events!Task
  <1> HIDE DEF w
  <1>4. /\ v \in Events!Operation /\ (v.task # "none" => v.pr \in PR)
        /\ p \in suspended[b] => v.task = "enqueue" /\ v.pr = p
        /\ p \notin suspended[b] => v.task = "none"
    BY <1>2, <1>3, OperationsTyped
  <1> HIDE DEF v
  <1>5. /\ WorkersTyped'
        /\ Events!InHand(b) = {} /\ Events!InHand(b)' = suspended[b] \cap {p}
        /\ \A c \in Branch \ {b} : Events!InHand(c)' = Events!InHand(c)
    <2>1. checks' \in [Branch -> Seq(PR)] /\ missed' = missed
      BY <1>0, <1>1 DEF WorkersTyped, OnlyQueuesMove
    <2>2. /\ WorkersTyped'
          /\ Events!InHand(b)' = IF v.task = "enqueue" THEN {v.pr} ELSE {}
          /\ \A c \in Branch \ {b} : Events!InHand(c)' = Events!InHand(c)
      BY <1>0, <1>1, <1>4, <2>1, OneWorkerChanges
    <2>3. Events!InHand(b) = {}
      BY <1>1 DEF Events!InHand
    <2> QED
      BY <1>4, <2>2, <2>3
  <1>6. /\ QueuesTyped'
        /\ Events!Queued(b)' = Events!Queued(b) \ (suspended[b] \cap {p})
        /\ \A c \in Branch \ {b} : Events!Queued(c)' = Events!Queued(c)
    <2>1. /\ active[b] \in Seq(PR) /\ Events!IsInjective(active[b])
          /\ h \in SUBSET PR /\ h \cap Events!ToSet(active[b]) = {}
          /\ active' = [active EXCEPT ![b] = active[b]]
      BY <1>0, <1>1, QueueFacts
    <2>2. /\ QueuesTyped'
          /\ Events!Queued(b)' = Events!ToSet(active[b]) \cup h
          /\ \A c \in Branch \ {b} : Events!Queued(c)' = Events!Queued(c)
      BY <1>0, <1>1, <2>1, OneQueueChanges
    <2> QED
      BY <1>0, <2>2, QueueFacts
  <1>7. ASSUME NEW q
        PROVE  In(q)' = In(q)
    <2>1. suspended[b] \subseteq Events!Queued(b)
      BY <1>0, QueueFacts
    <2>2. \A c \in Branch : c \in In(q)' <=> c \in In(q)
      BY <1>5, <1>6, <2>1, MembersMeans
    <2> QED
      BY <2>2, MembersMeans
  <1> QED
    BY <1>1, <1>5, <1>6, <1>7, WorkerKeepsInvariant

(* ... and from there to the active ones, where an event may have put it before. *)
LEMMA PutBackKeepsInvariant ==
    ASSUME Events!Invariant, NEW b \in Branch, Events!PutBack(b)
    PROVE  Events!Invariant'
  <1>0. QueuesTyped /\ WorkersTyped
    BY InvariantMeans, TypeParts
  <1>1. /\ worker[b].task = "enqueue"
        /\ Events!Enqueue(worker[b].pr, b)
        /\ worker' = [worker EXCEPT ![b] = Events!Idle]
        /\ checks' = checks
        /\ OnlyQueuesMove
    BY DEF Events!PutBack, Events!sync, Events!Program, Events!github, OnlyQueuesMove
  <1>2. worker[b].pr \in PR
    BY <1>0, <1>1 DEF WorkersTyped
  <1>3. /\ WorkersTyped'
        /\ Events!InHand(b) = {worker[b].pr} /\ Events!InHand(b)' = {}
        /\ \A c \in Branch \ {b} : Events!InHand(c)' = Events!InHand(c)
    <2>1. checks' \in [Branch -> Seq(PR)] /\ missed' = missed
      BY <1>0, <1>1 DEF WorkersTyped, OnlyQueuesMove
    <2>2. /\ WorkersTyped' /\ Events!InHand(b)' = {}
          /\ \A c \in Branch \ {b} : Events!InHand(c)' = Events!InHand(c)
      BY <1>0, <1>1, <2>1, OperationsTyped, OneWorkerChanges
    <2>3. Events!InHand(b) = {worker[b].pr}
      BY <1>1 DEF Events!InHand
    <2> QED
      BY <2>2, <2>3
  <1>4. /\ QueuesTyped'
        /\ Events!Queued(b)' = Events!Queued(b) \cup {worker[b].pr}
        /\ \A c \in Branch \ {b} : Events!Queued(c)' = Events!Queued(c)
    BY <1>0, <1>1, <1>2, EnqueueAdds
  <1>5. ASSUME NEW q
        PROVE  In(q)' = In(q)
    <2>1. \A c \in Branch : c \in In(q)' <=> c \in In(q)
      BY <1>3, <1>4, MembersMeans
    <2> QED
      BY <2>1, MembersMeans
  <1> QED
    BY <1>1, <1>3, <1>4, <1>5, WorkerKeepsInvariant

(* The event loop. *)
LEMMA EventKeepsInvariant ==
    ASSUME Events!Invariant, runPc = "run", channel # <<>>, channel' = Tail(channel),
           Events!ProcessEvent(Head(channel)),
           UNCHANGED <<runPc, unlisted, listed, open, base, triggers, ready, changes, lost, restarts>>
    PROVE  Events!Invariant'
  <1>0. Events!TypeOK /\ AllGenuine /\ SyncIsOver /\ Settled
    BY InvariantMeans
  <1>2. channel \in Seq(Events!Event) /\ Len(channel) <= Capacity /\ Capacity \in Nat
    BY <1>0, Constants DEF Events!TypeOK
  <1>3. /\ channel' \in Seq(Events!Event) /\ Len(channel') = Len(channel) - 1
        /\ Len(channel) \in Nat \ {0}
        /\ \A i \in 1..Len(channel') : channel'[i] = channel[i + 1]
        /\ Head(channel) = channel[1]
    BY <1>2, HeadTailProperties, LenProperties, EmptySeq
  <1>4. AllGenuine' /\ Events!Genuine(Head(channel)) /\ Head(channel) \in Events!Event
    <2>1. Events!Genuine(channel[1]) /\ channel[1] \in Events!Event
      <3>1. 1 \in 1..Len(channel)
        BY <1>3
      <3> QED
        BY <1>0, <1>2, <3>1, ElementOfSeq DEF AllGenuine
    <2>2. \A i \in 1..Len(channel') : i + 1 \in 1..Len(channel)
      BY <1>3
    <2>3. AllGenuine'
      <3> SUFFICES ASSUME NEW i \in 1..Len(channel')
                   PROVE  Events!Genuine(channel'[i])
        BY DEF AllGenuine, Events!Genuine
      <3> QED
        BY <1>0, <1>3, <2>2 DEF AllGenuine
    <2> QED
      BY <1>3, <2>1, <2>3
  <1>5. /\ QueuesTyped'
        /\ WorkersTyped' /\ missed \subseteq missed'
        /\ \A p \in PR \ missed' : In(p)' = Events!After(Head(channel), p, In(p))
    BY <1>0, <1>4, TypeParts, ProcessEventFollows
  <1>7. Events!TypeOK'
    <2>1. ChannelTyped'
      BY <1>2, <1>3 DEF ChannelTyped
    <2>2. Github' /\ OthersTyped'
      BY <1>0, TypeParts DEF Github, OthersTyped
    <2> QED
      BY <1>5, <2>1, <2>2, TypeParts
  <1>8. SyncIsOver'
    BY <1>0 DEF SyncIsOver
  <1>9. Settled'
    <2> SUFFICES ASSUME lost' = 0, NEW p \in PR \ missed'
                 PROVE  Right(p)'
      BY DEF Settled
    <2>1. unlisted = {} /\ listed = {} /\ unlisted' = {} /\ listed' = {} /\ Right(p)
      BY <1>0, <1>5 DEF SyncIsOver, Settled
    <2>2. Events!Places(p) = In(p) /\ Events!Places(p)' = In(p)'
      BY <2>1, PlacesMeans
    <2>3. Events!Settles(p)
      BY <2>1 DEF Right
    <2>4. PICK S : /\ In(p) \subseteq S
                   /\ p \in open => S = In(p)
                   /\ Takes(channel, p, S, Events!WantedFor(p))
      BY <2>2, <2>3, SettlesMeans
    <2> DEFINE R == Events!After(Head(channel), p, S)
    <2>5. Takes(channel', p, R, Events!WantedFor(p))
      BY <1>2, <2>4, TakesFirst
    <2>6. In(p)' \subseteq R /\ (p \in open => R = In(p)')
      BY <1>5, <2>4, AfterFacts
    <2> HIDE DEF R
    <2>7. Events!WantedFor(p)' = Events!WantedFor(p) /\ open' = open
      BY DEF Events!WantedFor, Events!Wanted
    <2>8. Events!Settles(p)'
      BY <2>2, <2>5, <2>6, <2>7, SettlesMeans
    <2> QED
      BY <2>1, <2>8 DEF Right
  <1> QED
    BY <1>4, <1>7, <1>8, <1>9, InvariantMeans

LEMMA EventLoopKeepsInvariant ==
    ASSUME Events!Invariant, Events!EventLoop
    PROVE  Events!Invariant'
  <1>0. Events!TypeOK
    BY InvariantMeans
  <1>1. CASE /\ channel' = Tail(channel)
             /\ Events!ProcessEvent(Head(channel))
             /\ UNCHANGED <<Events!github, Events!sync, changes, lost>>
    BY <1>1, EventKeepsInvariant DEF Events!EventLoop, Events!github, Events!sync
  <1>2. CASE Events!ResumedTooLate(Head(channel))
    BY <1>0, <1>2, CrashKeepsInvariant DEF Events!EventLoop, Events!ResumedTooLate, Events!TypeOK
  <1> QED
    BY <1>1, <1>2 DEF Events!EventLoop

LEMMA NothingKeepsInvariant ==
    ASSUME Events!Invariant, UNCHANGED eventVars
    PROVE  Events!Invariant'
  <1>0. Events!TypeOK /\ AllGenuine /\ SyncIsOver /\ Settled
    BY InvariantMeans
  <1>1. UNCHANGED <<open, base, triggers, ready, channel, runPc, unlisted, listed, active, suspended,
                    checks, worker, missed, changes, lost, restarts>>
    BY DEF eventVars
  <1>3. Events!TypeOK'
    BY <1>0, <1>1 DEF Events!TypeOK
  <1>4. AllGenuine'
    BY <1>0, <1>1 DEF AllGenuine, Events!Genuine
  <1>5. SyncIsOver'
    BY <1>0, <1>1 DEF SyncIsOver
  <1>6. \A q : Events!Places(q)' = Events!Places(q)
    BY <1>1 DEF Events!Places, Events!Members, Events!Queued, Events!InHand
  <1>7. Settled'
    BY <1>0, <1>1, <1>6, KeptIsRight DEF Settled
  <1> QED
    BY <1>3, <1>4, <1>5, <1>7, InvariantMeans

LEMMA NextKeepsInvariant ==
    ASSUME Events!Invariant, OneTrigger, Events!Next
    PROVE  Events!Invariant'
  <1>1. CASE Events!Change
    BY <1>1, ChangeKeepsInvariant
  <1>2. CASE Events!InitSync
    BY <1>2, ListPRKeepsInvariant, EnqueueListedKeepsInvariant, StartKeepsInvariant DEF Events!InitSync
  <1>3. CASE Events!EventLoop
    BY <1>3, EventLoopKeepsInvariant
  <1>4. CASE Events!Restart
    <2>1. restarts' \in 0..MaxRestarts
      BY <1>4, InvariantMeans, Constants DEF Events!Restart, Events!TypeOK
    <2> QED
      BY <1>4, <2>1, CrashKeepsInvariant DEF Events!Restart
  <1>5. CASE \E b \in Branch : Events!Worker(b)
    BY <1>5, FetchKeepsInvariant, ActKeepsInvariant, CheckKeepsInvariant, UnsuspendKeepsInvariant,
       PutBackKeepsInvariant DEF Events!Worker
  <1> QED
    BY <1>1, <1>2, <1>3, <1>4, <1>5 DEF Events!Next

(* With no event left, the PRs are where they belong. *)
LEMMA InvariantImpliesMembership ==
    ASSUME Events!Invariant
    PROVE  MembershipIsRight
  <1>0. Events!TypeOK /\ AllGenuine /\ SyncIsOver /\ Settled
    BY InvariantMeans
  <1>1. ASSUME runPc = "run", channel = <<>>, lost = 0, NEW p \in PR \ missed
        PROVE  In(p) \subseteq Events!WantedFor(p) /\ (p \in open => In(p) = Events!WantedFor(p))
    <2>1. Events!Settles(p) /\ Events!Places(p) = In(p)
      BY <1>0, <1>1, PlacesMeans DEF SyncIsOver, Settled, Right
    <2>2. PICK S : /\ In(p) \subseteq S
                   /\ p \in open => S = In(p)
                   /\ Takes(channel, p, S, Events!WantedFor(p))
      BY <2>1, SettlesMeans
    <2>3. S = Events!WantedFor(p)
      <3>1. Len(channel) = 0
        BY <1>1, EmptySeq
      <3> QED
        BY <2>2, <3>1 DEF Takes
    <2> QED
      BY <2>2, <2>3
  <1>2. Events!OnlyWanted
    <2> SUFFICES ASSUME runPc = "run", channel = <<>>, lost = 0, NEW b \in Branch,
                        NEW p \in Events!Members(b) \ missed
                 PROVE  p \in PR /\ Events!Wanted(p) /\ base[p] = b
      BY DEF Events!OnlyWanted
    <2>1. p \in PR
      BY <1>0, TypeParts, QueueFacts DEF Events!Members, Events!InHand, WorkersTyped
    <2>2. b \in Events!WantedFor(p)
      BY <1>1, <2>1 DEF In
    <2> QED
      BY <2>1, <2>2 DEF Events!WantedFor
  <1>3. Events!NoneMissing
    <2> SUFFICES ASSUME runPc = "run", channel = <<>>, lost = 0, NEW p \in PR \ missed, Events!Wanted(p)
                 PROVE  p \in Events!Members(base[p])
      BY DEF Events!NoneMissing
    <2>1. p \in open /\ Events!WantedFor(p) = {base[p]}
      BY DEF Events!Wanted, Events!WantedFor
    <2>2. base[p] \in In(p)
      BY <1>1, <2>1
    <2> QED
      BY <2>2 DEF In
  <1> QED
    BY <1>0, <1>2, <1>3 DEF MembershipIsRight

(* If closed PRs stay closed and there is one trigger, then whatever GitHub   *)
(* reports in whatever order with the sync, the restarts, the evaluations and *)
(* the steps of the resumptions, the queues are right when all events are     *)
(* processed and none was lost since the start, for any number of PRs,        *)
(* branches, changes and restarts.  It is not claimed of a PR that ResumePR() *)
(* (queue.go:430-450) had taken out of the suspended ones and not enqueued    *)
(* yet when an event was to remove it, or found its queue empty: such a PR    *)
(* comes back, or is lost with the queue.                                     *)
THEOREM QueuesAreRight ==
    OneTrigger => (ProgramSpec => []MembershipIsRight)
  <1> SUFFICES ASSUME OneTrigger PROVE ProgramSpec => []MembershipIsRight
    OBVIOUS
  <1>1. ProgramInit => Events!Invariant
    BY InitImpliesInvariant DEF ProgramInit
  <1>2. Events!Invariant /\ [ProgramNext]_allVars => Events!Invariant'
    <2> SUFFICES ASSUME Events!Invariant, [ProgramNext]_allVars
                 PROVE  Events!Invariant'
      OBVIOUS
    <2>1. Events!Next \/ UNCHANGED eventVars
      BY DEF ProgramNext, allVars
    <2> QED
      BY <2>1, NextKeepsInvariant, NothingKeepsInvariant
  <1>3. Events!Invariant => MembershipIsRight
    BY InvariantImpliesMembership
  <1> QED
    BY <1>1, <1>2, <1>3, PTL DEF ProgramSpec

-----------------------------------------------------------------------------
(* Sequences of the synchronization. *)

Item == [pr : Number, actions : Seq(Startup!Action)]

LEMMA SameOperators ==
    /\ \A s : Startup!ToSet(s) = Events!ToSet(s)
    /\ \A s, x : Startup!Contains(s, x) <=> Events!Contains(s, x)
    /\ \A s : Startup!IsInjective(s) <=> Events!IsInjective(s)
    /\ \A S : Startup!SetToSeqs(S) = Events!SetToSeqs(S)
  <1>1. \A S : Startup!Cardinality(S) = Events!Cardinality(S)
    BY DEF Startup!Cardinality, Events!Cardinality
  <1> QED
    BY <1>1 DEF Startup!ToSet, Events!ToSet, Startup!Contains, Events!Contains,
                Startup!IsInjective, Events!IsInjective, Startup!SetToSeqs, Events!SetToSeqs

(* What a sequence contains. *)
LEMMA Contained ==
    ASSUME NEW S, NEW s \in Seq(S)
    PROVE  /\ Len(s) \in Nat /\ DOMAIN s = 1..Len(s)
           /\ \A x : Startup!Contains(s, x) => x \in S
           /\ \A x : Startup!Contains(s, x) <=> \E n \in DOMAIN s : s[n] = x
           /\ \A x : x \in Startup!ToSet(s) <=> Startup!Contains(s, x)
           /\ Startup!IsInjective(s) <=> \A m, n \in DOMAIN s : s[m] = s[n] => m = n
           /\ s = <<>> <=> \A x : ~Startup!Contains(s, x)
  <1>1. Len(s) \in Nat /\ DOMAIN s = 1..Len(s) /\ \A n \in 1..Len(s) : s[n] \in S
    BY LenProperties, ElementOfSeq
  <1>2. \A x : Startup!Contains(s, x) <=> \E n \in DOMAIN s : s[n] = x
    BY <1>1 DEF Startup!Contains
  <1>3. s = <<>> <=> Len(s) = 0
    BY EmptySeq
  <1>4. Len(s) # 0 => 1 \in DOMAIN s
    BY <1>1
  <1>5. Len(s) = 0 => DOMAIN s = {}
    BY <1>1
  <1>8. s = <<>> <=> \A x : ~Startup!Contains(s, x)
    BY <1>2, <1>3, <1>4, <1>5
  <1>9. \A x : Startup!Contains(s, x) => x \in S
    BY <1>1, <1>2
  <1>6. \A x : x \in Startup!ToSet(s) <=> Startup!Contains(s, x)
    BY <1>2 DEF Startup!ToSet
  <1>7. Startup!IsInjective(s) <=> \A m, n \in DOMAIN s : s[m] = s[n] => m = n
    BY DEF Startup!IsInjective
  <1> QED
    BY <1>1, <1>2, <1>6, <1>7, <1>8, <1>9

LEMMA AppendContains ==
    ASSUME NEW S, NEW s \in Seq(S), NEW x \in S
    PROVE  /\ Append(s, x) \in Seq(S)
           /\ \A y : Startup!Contains(Append(s, x), y) <=> Startup!Contains(s, y) \/ y = x
           /\ Startup!IsInjective(s) /\ ~Startup!Contains(s, x) => Startup!IsInjective(Append(s, x))
           /\ Append(s, x) # <<>>
           /\ s # <<>> => Head(Append(s, x)) = Head(s)
           /\ s = <<>> => Head(Append(s, x)) = x
  <1> DEFINE t == Append(s, x)
  <1>1. /\ t \in Seq(S) /\ Startup!ToSet(t) = Startup!ToSet(s) \cup {x}
        /\ Startup!IsInjective(s) /\ x \notin Startup!ToSet(s) => Startup!IsInjective(t)
    BY AppendMember, SameOperators
  <1>2. /\ Len(s) \in Nat /\ Len(t) = Len(s) + 1 /\ \A n \in 1..Len(s) : t[n] = s[n]
        /\ t[Len(s) + 1] = x
    BY AppendProperties, LenProperties
  <1> HIDE DEF t
  <1>3. t # <<>> /\ (s = <<>> => Len(s) = 0) /\ (s # <<>> => Len(s) # 0)
    BY <1>1, <1>2, EmptySeq
  <1>4. Head(t) = t[1] /\ (s # <<>> => Head(s) = s[1])
    BY <1>1, <1>3, HeadTailProperties
  <1>5. s # <<>> => 1 \in 1..Len(s)
    BY <1>2, <1>3
  <1>6. \A y : /\ Startup!Contains(t, y) <=> y \in Startup!ToSet(t)
               /\ Startup!Contains(s, y) <=> y \in Startup!ToSet(s)
    BY <1>1, Contained
  <1>7. s = <<>> => t[1] = x
    BY <1>2, <1>3
  <1> QED
    BY <1>1, <1>2, <1>3, <1>4, <1>5, <1>6, <1>7 DEF t

LEMMA ConcatContains ==
    ASSUME NEW S, NEW s \in Seq(S), NEW r \in Seq(S)
    PROVE  /\ s \o r \in Seq(S)
           /\ \A x : Startup!Contains(s \o r, x) <=> Startup!Contains(s, x) \/ Startup!Contains(r, x)
           /\ Startup!IsInjective(s) /\ Startup!IsInjective(r)
              /\ (\A x : ~(Startup!Contains(s, x) /\ Startup!Contains(r, x)))
              => Startup!IsInjective(s \o r)
  <1>1. /\ s \o r \in Seq(S) /\ Startup!ToSet(s \o r) = Startup!ToSet(s) \cup Startup!ToSet(r)
        /\ Startup!IsInjective(s) /\ Startup!IsInjective(r) /\ Startup!ToSet(s) \cap Startup!ToSet(r) = {}
             => Startup!IsInjective(s \o r)
    BY ConcatMembers, SameOperators
  <1>2. \A x : /\ Startup!Contains(s, x) <=> x \in Startup!ToSet(s)
               /\ Startup!Contains(r, x) <=> x \in Startup!ToSet(r)
               /\ Startup!Contains(s \o r, x) <=> x \in Startup!ToSet(s \o r)
    BY <1>1, Contained
  <1> QED
    BY <1>1, <1>2

(* The tail of a sequence. *)
LEMMA TailContains ==
    ASSUME NEW S, NEW s \in Seq(S), s # <<>>
    PROVE  /\ Head(s) \in S /\ Tail(s) \in Seq(S)
           /\ \A x : Startup!Contains(s, x) <=> x = Head(s) \/ Startup!Contains(Tail(s), x)
           /\ Startup!IsInjective(s) => /\ Startup!IsInjective(Tail(s))
                                        /\ ~Startup!Contains(Tail(s), Head(s))
           /\ Head(s) = s[1] /\ 1 \in DOMAIN s
           /\ \A n \in DOMAIN Tail(s) : n + 1 \in DOMAIN s /\ Tail(s)[n] = s[n + 1]
  <1> DEFINE t == Tail(s)
  <1>1. /\ Head(s) \in S /\ t \in Seq(S) /\ Len(t) = Len(s) - 1 /\ Head(s) = s[1]
        /\ \A n \in 1..Len(t) : t[n] = s[n + 1]
        /\ Len(s) \in Nat \ {0}
    <2>1. Len(s) \in Nat /\ Len(s) # 0
      BY LenProperties, EmptySeq
    <2> QED
      BY <2>1, HeadTailProperties
  <1>2. DOMAIN s = 1..Len(s) /\ DOMAIN t = 1..Len(t)
    BY <1>1, LenProperties
  <1> HIDE DEF t
  <1>3. 1 \in DOMAIN s /\ \A n \in DOMAIN t : n + 1 \in DOMAIN s
    BY <1>1, <1>2
  <1>4. \A n \in DOMAIN s : n = 1 \/ (n - 1 \in DOMAIN t /\ n - 1 + 1 = n)
    BY <1>1, <1>2
  <1>5. \A m, n \in DOMAIN t : m + 1 = n + 1 => m = n
    BY <1>1, <1>2
  <1>6. \A n \in DOMAIN t : n + 1 # 1
    BY <1>1, <1>2
  <1>7. \A x : /\ Startup!Contains(s, x) <=> \E n \in DOMAIN s : s[n] = x
               /\ Startup!Contains(t, x) <=> \E n \in DOMAIN t : t[n] = x
    BY <1>1, Contained
  <1>8. /\ Startup!IsInjective(s) <=> \A m, n \in DOMAIN s : s[m] = s[n] => m = n
        /\ Startup!IsInjective(t) <=> \A m, n \in DOMAIN t : t[m] = t[n] => m = n
    BY <1>1, Contained
  <1>9. \A n \in DOMAIN t : t[n] = s[n + 1]
    BY <1>1, <1>2
  <1>10. \A x : Startup!Contains(s, x) <=> x = Head(s) \/ Startup!Contains(t, x)
    BY <1>1, <1>3, <1>4, <1>7, <1>9
  <1>11. Startup!IsInjective(s) => Startup!IsInjective(t) /\ ~Startup!Contains(t, Head(s))
    BY <1>1, <1>3, <1>5, <1>6, <1>7, <1>8, <1>9
  <1> QED
    BY <1>1, <1>3, <1>9, <1>10, <1>11 DEF t

(* The first n elements and the others. *)
LEMMA CutContains ==
    ASSUME NEW S, NEW s \in Seq(S), NEW n \in Nat
    PROVE  /\ SubSeq(s, n + 1, Len(s)) \in Seq(S)
           /\ \A x : Startup!Contains(s, x)
                       <=> \/ Startup!Contains(SubSeq(s, n + 1, Len(s)), x)
                           \/ \E i \in DOMAIN s \cap 1..n : s[i] = x
  <1> DEFINE r == SubSeq(s, n + 1, Len(s))
  <1>1. Len(s) \in Nat /\ DOMAIN s = 1..Len(s) /\ \A i \in 1..Len(s) : s[i] \in S
    BY Contained, ElementOfSeq
  <1>2. /\ r \in Seq(S) /\ Len(r) = IF n + 1 <= Len(s) THEN Len(s) - (n + 1) + 1 ELSE 0
        /\ \A i \in 1..(Len(s) - (n + 1) + 1) : r[i] = s[n + 1 + i - 1]
    <2>1. n + 1 \in Int /\ Len(s) \in Int /\ \A i \in (n + 1)..Len(s) : s[i] \in S
      BY <1>1
    <2> QED
      BY <2>1, SubSeqProperties
  <1> HIDE DEF r
  <1>3. Len(r) \in Nat /\ \A i \in 1..Len(r) : r[i] = s[n + i] /\ n + i \in DOMAIN s
    <2>0. Len(r) \in Nat /\ Len(s) \in Nat /\ Len(r) = IF n + 1 <= Len(s) THEN Len(s) - n ELSE 0
      <3> SUFFICES ASSUME NEW k, NEW m \in Nat, k = IF n + 1 <= m THEN m - (n + 1) + 1 ELSE 0
                   PROVE  k \in Nat /\ k = IF n + 1 <= m THEN m - n ELSE 0
        BY <1>1, <1>2
      <3> QED
        OBVIOUS
    <2>1. \A i \in 1..Len(r) : n + 1 + i - 1 = n + i /\ i \in 1..(Len(s) - (n + 1) + 1) /\ n + i \in 1..Len(s)
      <3> SUFFICES ASSUME NEW k \in Nat, NEW m \in Nat, k = IF n + 1 <= m THEN m - n ELSE 0,
                          NEW i \in 1..k
                   PROVE  n + 1 + i - 1 = n + i /\ i \in 1..(m - (n + 1) + 1) /\ n + i \in 1..m
        BY <2>0
      <3> QED
        OBVIOUS
    <2> QED
      BY <1>1, <1>2, <2>0, <2>1
  <1>4. \A i \in DOMAIN s : i \in 1..n \/ (i - n \in 1..Len(r) /\ n + (i - n) = i)
    BY <1>1, <1>2
  <1>5. \A x : /\ Startup!Contains(s, x) <=> \E i \in DOMAIN s : s[i] = x
               /\ Startup!Contains(r, x) <=> \E i \in 1..Len(r) : r[i] = x
    BY <1>2, Contained
  <1>6. ASSUME NEW x, Startup!Contains(s, x)
        PROVE  Startup!Contains(r, x) \/ \E i \in DOMAIN s \cap 1..n : s[i] = x
    <2>1. PICK i \in DOMAIN s : s[i] = x
      BY <1>5, <1>6
    <2>2. CASE i \in 1..n
      BY <2>1, <2>2
    <2>3. CASE i - n \in 1..Len(r) /\ n + (i - n) = i
      BY <1>3, <1>5, <2>1, <2>3
    <2> QED
      BY <1>4, <2>2, <2>3
  <1>7. ASSUME NEW x, Startup!Contains(r, x)
        PROVE  Startup!Contains(s, x)
    BY <1>3, <1>5, <1>7
  <1> QED
    BY <1>2, <1>5, <1>6, <1>7 DEF r

(* An element is moved to the end. *)
LEMMA MovedContains ==
    ASSUME NEW S, NEW s \in Seq(S), NEW n \in DOMAIN s
    PROVE  /\ Startup!RemoveAt(s, n) \in Seq(S)
           /\ \A x : Startup!Contains(Append(Startup!RemoveAt(s, n), s[n]), x) <=> Startup!Contains(s, x)
  <1> DEFINE l == SubSeq(s, 1, n - 1)
             r == SubSeq(s, n + 1, Len(s))
  <1>1. Len(s) \in Nat /\ DOMAIN s = 1..Len(s) /\ \A i \in 1..Len(s) : s[i] \in S
    BY Contained, ElementOfSeq
  <1>2. n \in Nat /\ n >= 1 /\ n <= Len(s) /\ s[n] \in S
    BY <1>1
  <1>3. /\ l \in Seq(S) /\ Len(l) = n - 1 /\ \A i \in 1..(n - 1) : l[i] = s[i]
    <2>1. /\ l \in Seq(S) /\ Len(l) = IF 1 <= n - 1 THEN n - 1 - 1 + 1 ELSE 0
          /\ \A i \in 1..(n - 1 - 1 + 1) : l[i] = s[1 + i - 1]
      <3>1. 1 \in Int /\ n - 1 \in Int /\ \A i \in 1..(n - 1) : s[i] \in S
        BY <1>1, <1>2
      <3> QED
        BY <3>1, SubSeqProperties
    <2> HIDE DEF l
    <2> QED
      BY <1>2, <2>1
  <1>4. /\ r \in Seq(S)
        /\ \A x : Startup!Contains(s, x)
                    <=> Startup!Contains(r, x) \/ \E i \in DOMAIN s \cap 1..n : s[i] = x
    BY <1>2, CutContains
  <1>5. Startup!RemoveAt(s, n) = l \o r
    BY DEF Startup!RemoveAt
  <1> HIDE DEF l, r
  <1>6. \A x : Startup!Contains(l, x) <=> \E i \in 1..(n - 1) : s[i] = x
    <2>1. DOMAIN l = 1..(n - 1) /\ \A x : Startup!Contains(l, x) <=> \E i \in DOMAIN l : l[i] = x
      BY <1>3, Contained
    <2> QED
      BY <1>3, <2>1
  <1>7. \A i \in DOMAIN s \cap 1..n : i \in 1..(n - 1) \/ i = n
    BY <1>1, <1>2
  <1>8. \A i \in 1..(n - 1) : i \in DOMAIN s \cap 1..n
    BY <1>1, <1>2
  <1>9. n \in DOMAIN s \cap 1..n
    BY <1>1, <1>2
  <1>10. \A x : Startup!Contains(s, x) <=> Startup!Contains(r, x) \/ Startup!Contains(l, x) \/ x = s[n]
    BY <1>4, <1>6, <1>7, <1>8, <1>9
  <1>11. /\ l \o r \in Seq(S)
         /\ \A x : Startup!Contains(l \o r, x) <=> Startup!Contains(l, x) \/ Startup!Contains(r, x)
    BY <1>3, <1>4, ConcatContains
  <1>12. \A x : Startup!Contains(Append(l \o r, s[n]), x) <=> Startup!Contains(l \o r, x) \/ x = s[n]
    <2>1. s[n] \in S
      BY <1>2
    <2> DEFINE t == l \o r
    <2>2. t \in Seq(S)
      BY <1>11
    <2> HIDE DEF t
    <2>3. \A x : Startup!Contains(Append(t, s[n]), x) <=> Startup!Contains(t, x) \/ x = s[n]
      BY <2>1, <2>2, AppendContains
    <2> QED
      BY <2>3 DEF t
  <1> QED
    BY <1>5, <1>10, <1>11, <1>12

LEMMA OrderContains ==
    ASSUME NEW S, IsFiniteSet(S), NEW s \in Startup!SetToSeqs(S)
    PROVE  s \in Seq(S) /\ Startup!IsInjective(s) /\ \A x : Startup!Contains(s, x) <=> x \in S
  <1>1. s \in Seq(S) /\ Startup!ToSet(s) = S /\ Startup!IsInjective(s)
    BY OrderedSet, SameOperators
  <1> QED
    BY <1>1, Contained

-----------------------------------------------------------------------------
(* What the synchronization lists. *)

(* The actions of a PR are those that its labels and its status call for. *)
LEMMA ActionsMean ==
    ASSUME NEW p \in Number, NEW a \in Startup!ActionsOf(p)
    PROVE  /\ a \in Seq(Startup!Action) /\ Startup!IsInjective(a)
           /\ Startup!Contains(a, "unlabel") <=> p \in label
           /\ Startup!Contains(a, "enqueue") <=> p \in trigger
           /\ Startup!Contains(a, "resetStatusState") <=> status[p] = "success"
  <1> DEFINE S == (IF p \in label THEN {"unlabel"} ELSE {})
                    \cup (IF p \in trigger THEN {"enqueue"} ELSE {})
             reset == IF status[p] = "success" THEN <<"resetStatusState">> ELSE <<>>
  <1>1. PICK labels \in Startup!SetToSeqs(S) : a = labels \o reset
    BY DEF Startup!ActionsOf
  <1>2. IsFiniteSet(S) /\ S \subseteq {"unlabel", "enqueue"}
    BY FS_EmptySet, FS_AddElement, FS_Singleton, FS_Union
  <1>3. labels \in Seq(S) /\ Startup!IsInjective(labels) /\ \A x : Startup!Contains(labels, x) <=> x \in S
    BY <1>2, OrderContains
  <1>4. labels \in Seq(Startup!Action)
    <2>1. S \subseteq Startup!Action
      BY <1>2 DEF Startup!Action
    <2> HIDE DEF S
    <2> QED
      BY <1>3, <2>1
  <1>5. /\ reset \in Seq(Startup!Action) /\ Startup!IsInjective(reset)
        /\ \A x : Startup!Contains(reset, x) <=> x = "resetStatusState" /\ status[p] = "success"
    <2>1. CASE status[p] = "success"
      <3>1. reset = <<"resetStatusState">> /\ "resetStatusState" \in Startup!Action
        BY <2>1 DEF Startup!Action
      <3>2. Len(reset) = 1 /\ DOMAIN reset = 1..1 /\ reset[1] = "resetStatusState" /\ reset \in Seq(Startup!Action)
        BY <3>1
      <3> HIDE DEF reset
      <3>3. \A n \in 1..1 : n = 1
        OBVIOUS
      <3> QED
        BY <2>1, <3>2, <3>3 DEF Startup!Contains, Startup!IsInjective
    <2>2. CASE status[p] # "success"
      <3>1. reset = <<>>
        BY <2>2
      <3>2. reset \in Seq(Startup!Action) /\ DOMAIN reset = {}
        BY <3>1, EmptySeq
      <3> HIDE DEF reset
      <3> QED
        BY <2>2, <3>1, <3>2, Contained
    <2> QED
      BY <2>1, <2>2
  <1>6. \A x \in S : x # "resetStatusState"
    BY <1>2
  <1>7. ("unlabel" \in S <=> p \in label) /\ ("enqueue" \in S <=> p \in trigger)
    OBVIOUS
  <1> HIDE DEF S, reset
  <1>8. /\ a \in Seq(Startup!Action)
        /\ \A x : Startup!Contains(a, x) <=> Startup!Contains(labels, x) \/ Startup!Contains(reset, x)
        /\ Startup!IsInjective(a)
    BY <1>1, <1>3, <1>4, <1>5, <1>6, ConcatContains
  <1>9. "unlabel" # "resetStatusState" /\ "enqueue" # "resetStatusState"
    OBVIOUS
  <1> QED
    BY <1>3, <1>5, <1>6, <1>7, <1>8, <1>9

(* The items stay the same, those of heads come first. *)
LEMMA HeadsFirstSorts ==
    ASSUME NEW s \in Seq(Item), NEW t \in Startup!HeadsFirst(s)
    PROVE  /\ t \in Seq(Item)
           /\ \A i : Startup!Contains(t, i) <=> Startup!Contains(s, i)
           /\ \A m, n \in DOMAIN t :
                 m < n /\ Startup!isQueuedHead(t[n]) => Startup!isQueuedHead(t[m])
  <1> DEFINE D == DOMAIN s
             Before(m, n) == IF Startup!isQueuedHead(s[m]) = Startup!isQueuedHead(s[n]) THEN m < n
                             ELSE Startup!isQueuedHead(s[m])
  <1>1. PICK g \in Startup!SetToSeqs(D) :
            /\ t = [k \in D |-> s[g[k]]]
            /\ \A k, l \in D : k < l => Before(g[k], g[l])
    BY DEF Startup!HeadsFirst
  <1>2. Len(s) \in Nat /\ D = 1..Len(s)
    BY Contained
  <1>3. IsFiniteSet(D) /\ Cardinality(D) = Len(s)
    BY <1>2, FS_Interval
  <1>4. g \in Seq(D) /\ DOMAIN g = D /\ \A x : Startup!Contains(g, x) <=> x \in D
    <2>1. g \in Seq(D) /\ \A x : Startup!Contains(g, x) <=> x \in D
      BY <1>3, OrderContains
    <2>2. Startup!Cardinality(D) = Len(s)
      BY <1>3 DEF Startup!Cardinality, Cardinality
    <2>3. DOMAIN g = D
      BY <1>2, <2>2 DEF Startup!SetToSeqs
    <2> QED
      BY <2>1, <2>3
  <1>5. \A k \in D : g[k] \in D
    BY <1>4, Contained
  <1>6. \A d \in D : \E k \in D : g[k] = d
    BY <1>4, Contained
  <1>7. \A d \in D : s[d] \in Item
    BY <1>2, ElementOfSeq
  <1>8. t \in Seq(Item) /\ DOMAIN t = D
    BY <1>1, <1>2, <1>5, <1>7, SeqDef
  <1>9. /\ \A i : Startup!Contains(t, i) <=> \E k \in D : t[k] = i
        /\ \A i : Startup!Contains(s, i) <=> \E k \in D : s[k] = i
    BY <1>8, Contained
  <1>10. \A k \in D : t[k] = s[g[k]]
    BY <1>1
  <1>11. \A i : Startup!Contains(t, i) <=> Startup!Contains(s, i)
    <2> SUFFICES ASSUME NEW i
                 PROVE  (\E k \in D : t[k] = i) <=> (\E k \in D : s[k] = i)
      BY <1>9
    <2>1. ASSUME NEW k \in D, t[k] = i
          PROVE  \E d \in D : s[d] = i
      BY <1>5, <1>10, <2>1
    <2>2. ASSUME NEW d \in D, s[d] = i
          PROVE  \E k \in D : t[k] = i
      <3>1. PICK k \in D : g[k] = d
        BY <1>6
      <3> QED
        BY <1>10, <2>2, <3>1
    <2> QED
      BY <2>1, <2>2
  <1>12. ASSUME NEW m \in D, NEW n \in D, m < n, Startup!isQueuedHead(t[n])
         PROVE  Startup!isQueuedHead(t[m])
    <2>1. Before(g[m], g[n])
      BY <1>1, <1>12
    <2> QED
      BY <1>10, <1>12, <2>1
  <1> QED
    BY <1>8, <1>11, <1>12

(* What is left behind the cursor, and what is added to the items. *)
Listed(all) ==
    /\ all \in Seq(Item)
    /\ \A i : Startup!Contains(all, i) =>
          \/ Startup!Contains(items, i)
          \/ i.pr \in Number /\ i.actions \in Startup!ActionsOf(i.pr)
    /\ \A i : Startup!Contains(items, i) => Startup!Contains(all, i)
    /\ \A p \in Number : Startup!Contains(rest, p) /\ ~Startup!Contains(rest', p) =>
          \/ <<>> \in Startup!ActionsOf(p)
          \/ \E i : Startup!Contains(all, i) /\ i.pr = p /\ i.actions \in Startup!ActionsOf(p)

LEMMA SyncConstants ==
    /\ Number \subseteq Nat /\ IsFiniteSet(Number) /\ None \notin Number
    /\ NoBranch \notin SyncBranch
    /\ PageSize \in Nat \ {0}
    /\ MaxUpdates \in Nat /\ MaxFailures \in Nat
  <1>1. Startup!IsFiniteSet(Number) <=> IsFiniteSet(Number)
    BY DEF Startup!IsFiniteSet, IsFiniteSet
  <1> QED
    BY <1>1, InstanceAssumption DEF Startup!SyncAssumption

LEMMA ListMeans ==
    ASSUME Startup!TypeOK, Startup!List
    PROVE  /\ rest' \in Seq(Number) /\ rest' = SubSeq(rest, PageSize + 1, Len(rest))
           /\ \A p : Startup!Contains(rest', p) => Startup!Contains(rest, p)
           /\ \E all : /\ Listed(all)
                       /\ \/ rest' # <<>> /\ items' = all /\ syncPc' = syncPc
                          \/ rest' = <<>> /\ items' \in Startup!HeadsFirst(all) /\ syncPc' = "execute"
           /\ failures' = failures
  <1>1. rest \in Seq(Number) /\ items \in Seq(Item) /\ PageSize \in Nat
    BY SyncConstants DEF Startup!TypeOK, Item
  <1>2. /\ rest' = SubSeq(rest, PageSize + 1, Len(rest)) /\ rest' \in Seq(Number)
        /\ \A p : Startup!Contains(rest, p)
                    <=> \/ Startup!Contains(rest', p)
                        \/ \E i \in DOMAIN rest \cap 1..PageSize : rest[i] = p
    BY <1>1, CutContains DEF Startup!List
  <1> DEFINE L == {p \in {rest[n] : n \in DOMAIN rest \cap 1..PageSize} : <<>> \notin Startup!ActionsOf(p)}
  <1>3. PICK page \in Startup!Page :
            \E todo \in [DOMAIN page -> UNION {Startup!ActionsOf(p) : p \in Startup!ToSet(page)}] :
               LET all == items \o [n \in DOMAIN page |-> [pr |-> page[n], actions |-> todo[n]]]
               IN  /\ \A n \in DOMAIN page : todo[n] \in Startup!ActionsOf(page[n])
                   /\ IF rest' # <<>> THEN Startup!PageReceived({all}) /\ UNCHANGED syncPc
                      ELSE Startup!PageReceived(Startup!HeadsFirst(all)) /\ syncPc' = "execute"
    BY DEF Startup!List
  <1>4. PICK todo \in [DOMAIN page -> UNION {Startup!ActionsOf(p) : p \in Startup!ToSet(page)}] :
               LET all == items \o [n \in DOMAIN page |-> [pr |-> page[n], actions |-> todo[n]]]
               IN  /\ \A n \in DOMAIN page : todo[n] \in Startup!ActionsOf(page[n])
                   /\ IF rest' # <<>> THEN Startup!PageReceived({all}) /\ UNCHANGED syncPc
                      ELSE Startup!PageReceived(Startup!HeadsFirst(all)) /\ syncPc' = "execute"
    BY <1>3
  <1> DEFINE new == [n \in DOMAIN page |-> [pr |-> page[n], actions |-> todo[n]]]
             all == items \o new
  <1>5. L \subseteq Number /\ IsFiniteSet(L)
    <2>1. L \subseteq Number
      BY <1>1, ElementOfSeq, Contained
    <2> HIDE DEF L
    <2> QED
      BY <2>1, SyncConstants, FS_Subset
  <1>6. page \in Startup!SetToSeqs(L)
    BY DEF Startup!Page
  <1> HIDE DEF L
  <1>7. page \in Seq(L) /\ \A p : Startup!Contains(page, p) <=> p \in L
    BY <1>5, <1>6, OrderContains
  <1>8. /\ DOMAIN page = 1..Len(page) /\ Len(page) \in Nat
        /\ \A p : Startup!Contains(page, p) <=> \E n \in DOMAIN page : page[n] = p
        /\ \A n \in DOMAIN page : page[n] \in Number
    BY <1>5, <1>7, Contained
  <1>9. \A n \in DOMAIN page : todo[n] \in Startup!ActionsOf(page[n])
    BY <1>4
  <1>10. \A n \in DOMAIN page : new[n] = [pr |-> page[n], actions |-> todo[n]]
    OBVIOUS
  <1>11. DOMAIN new = DOMAIN page
    OBVIOUS
  <1>12. new \in Seq(Item)
    <2>1. \A n \in DOMAIN page : [pr |-> page[n], actions |-> todo[n]] \in Item
      BY <1>8, <1>9, ActionsMean DEF Item
    <2> QED
      BY <1>8, <2>1, SeqDef
  <1>13. /\ rest' # <<>> => items' = all /\ syncPc' = syncPc
         /\ rest' = <<>> => items' \in Startup!HeadsFirst(all) /\ syncPc' = "execute"
         /\ failures' = failures
    BY <1>4 DEF Startup!PageReceived
  <1> HIDE DEF new
  <1>14. /\ all \in Seq(Item)
         /\ \A i : Startup!Contains(all, i) <=> Startup!Contains(items, i) \/ Startup!Contains(new, i)
         /\ \A i : Startup!Contains(new, i) <=> \E n \in DOMAIN new : new[n] = i
    BY <1>1, <1>12, ConcatContains, Contained
  <1> HIDE DEF all
  <1>15. Listed(all)
    <2>1. ASSUME NEW i, Startup!Contains(all, i), ~Startup!Contains(items, i)
          PROVE  i.pr \in Number /\ i.actions \in Startup!ActionsOf(i.pr)
      <3>1. PICK n \in DOMAIN page : i = [pr |-> page[n], actions |-> todo[n]]
        BY <1>10, <1>11, <1>14, <2>1
      <3>2. i.pr = page[n] /\ i.actions = todo[n]
        BY <3>1
      <3> QED
        BY <1>8, <1>9, <3>2
    <2>2. ASSUME NEW p \in Number, Startup!Contains(rest, p), ~Startup!Contains(rest', p),
                 <<>> \notin Startup!ActionsOf(p)
          PROVE  \E i : Startup!Contains(all, i) /\ i.pr = p /\ i.actions \in Startup!ActionsOf(p)
      <3>1. p \in L
        BY <1>2, <2>2 DEF L
      <3>2. PICK n \in DOMAIN page : page[n] = p
        BY <1>7, <1>8, <3>1
      <3>3. Startup!Contains(all, new[n])
        BY <1>11, <1>14, <3>2
      <3>4. new[n].pr = p /\ new[n].actions = todo[n]
        <4>1. new[n] = [pr |-> page[n], actions |-> todo[n]]
          BY <1>10, <3>2
        <4> QED
          BY <3>2, <4>1
      <3> QED
        BY <1>9, <3>2, <3>3, <3>4
    <2> QED
      BY <1>14, <2>1, <2>2 DEF Listed
  <1> QED
    BY <1>2, <1>13, <1>15

-----------------------------------------------------------------------------
(* The invariant of Sync. *)

LEMMA EmptyContains == \A x : ~Startup!Contains(<<>>, x)
  <1>1. <<>> \in Seq({})
    BY EmptySeq
  <1> QED
    BY <1>1, Contained

(* An action of p is left in the items its. *)
BehindIn(its, action, p) ==
    \E n \in DOMAIN its : its[n].pr = p /\ Startup!Contains(its[n].actions, action)

LEMMA BehindMeans ==
    ASSUME NEW its \in Seq(Item)
    PROVE  \A a, p : BehindIn(its, a, p) <=> \E i : /\ Startup!Contains(its, i)
                                                    /\ i.pr = p /\ Startup!Contains(i.actions, a)
  BY Contained DEF BehindIn

LEMMA BehindIsIn ==
    /\ \A a, p : Startup!Behind(a, p) <=> BehindIn(items, a, p)
    /\ \A a, p : Startup!Behind(a, p)' <=> BehindIn(items', a, p)
  BY DEF Startup!Behind, BehindIn

(* The conditions on one item. *)
TrueItem(i) ==
    /\ Startup!IsInjective(i.actions)
    /\ Startup!Contains(i.actions, "enqueue") => i.pr \in trigger
    /\ Startup!isQueuedHead(i) <=> i.pr \in heads

LEMMA ActionsAreTrueMeans ==
    ASSUME Startup!TypeOK
    PROVE  Startup!ActionsAreTrue <=>
             /\ heads \subseteq trigger
             /\ \A i : Startup!Contains(items, i) => TrueItem(i)
             /\ Startup!IsInjective(actions)
             /\ actions # <<>> => pr \in Number
             /\ Startup!Contains(actions, "enqueue") => pr \in trigger
             /\ preserve => pr \in heads
  <1>1. items \in Seq(Item)
    BY DEF Startup!TypeOK, Item
  <1>2. (\A n \in DOMAIN items : TrueItem(items[n])) <=> \A i : Startup!Contains(items, i) => TrueItem(i)
    BY <1>1, Contained
  <1> QED
    BY <1>2 DEF Startup!ActionsAreTrue, TrueItem

LEMMA InitSyncInvariant ==
    ASSUME Startup!Init
    PROVE  Startup!Invariant
  <1> USE DEF Startup!Init
  <1>1. rest \in Seq(Number) /\ \A p : Startup!Contains(rest, p) <=> p \in Number
    BY SyncConstants, OrderContains
  <1>2. /\ <<>> \in Seq(Number) /\ <<>> \in Seq(Startup!Action) /\ <<>> \in Seq(Item)
        /\ Startup!IsInjective(<<>>) /\ DOMAIN <<>> = {}
    BY EmptySeq, Contained DEF Startup!IsInjective
  <1>3. Startup!TypeOK
    <2>1. \A b \in SyncBranch : queue[b] = <<>>
      OBVIOUS
    <2>2. "none" \in Startup!State
      BY DEF Startup!State
    <2>3. updates \in 0..MaxUpdates /\ failures \in 0..MaxFailures
      BY SyncConstants
    <2> QED
      BY <1>1, <1>2, <2>1, <2>2, <2>3 DEF Startup!TypeOK, Item
  <1>4. Startup!Phases
    BY DEF Startup!Phases, Startup!Before
  <1>5. Startup!ActionsAreTrue
    BY <1>2, EmptyContains DEF Startup!ActionsAreTrue
  <1>6. Startup!HeadsAreFirst
    BY <1>2, EmptyContains DEF Startup!HeadsAreFirst
  <1>7. Startup!OnePreserves
    BY EmptyContains DEF Startup!OnePreserves
  <1>8. Startup!QueuesAreTrue
    BY EmptyContains DEF Startup!QueuesAreTrue
  <1>9. Startup!HeadSurvives
    BY DEF Startup!HeadSurvives
  <1>10. Startup!NoneForgotten /\ Startup!LabelsAreRemoved /\ Startup!StatusIsReset
    BY <1>1 DEF Startup!NoneForgotten, Startup!LabelsAreRemoved, Startup!StatusIsReset
  <1> QED
    BY <1>3, <1>4, <1>5, <1>6, <1>7, <1>8, <1>9, <1>10 DEF Startup!Invariant

(* What is said about the queues stays true as long as they stay. *)
LEMMA QueuesStay ==
    ASSUME UNCHANGED <<syncBase, queue, syncSuspended>>
    PROVE  /\ \A p : Startup!IsFirst(p)' <=> Startup!IsFirst(p)
           /\ \A p : Startup!AlreadyExists(p)' <=> Startup!AlreadyExists(p)
           /\ Startup!QueuesAreTrue => Startup!QueuesAreTrue'
           /\ heads' = heads => (Startup!HeadSurvives => Startup!HeadSurvives')
  BY DEF Startup!IsFirst, Startup!AlreadyExists, Startup!QueuesAreTrue, Startup!HeadSurvives

LEMMA ListKeepsInvariant ==
    ASSUME Startup!Invariant, Startup!List
    PROVE  Startup!Invariant'
  <1>0. /\ Startup!TypeOK /\ Startup!Phases /\ Startup!ActionsAreTrue /\ Startup!HeadsAreFirst
        /\ Startup!OnePreserves /\ Startup!QueuesAreTrue /\ Startup!HeadSurvives
        /\ Startup!NoneForgotten /\ Startup!LabelsAreRemoved /\ Startup!StatusIsReset
    BY DEF Startup!Invariant
  <1>1. /\ syncPc = "list" /\ Startup!Before
        /\ UNCHANGED <<syncBase, trigger, label, status, headPreserved, pr, actions, preserve, enqueued,
                       queue, syncSuspended, hasHeadLabel, reported, heads, updates>>
    BY DEF Startup!List, Startup!github, Startup!item, Startup!queues, Startup!caches,
           Startup!history, Startup!Before
  <1>2. PICK all :
            /\ Listed(all)
            /\ \/ rest' # <<>> /\ items' = all /\ syncPc' = syncPc
               \/ rest' = <<>> /\ items' \in Startup!HeadsFirst(all) /\ syncPc' = "execute"
    BY <1>0, ListMeans
  <1>3. rest' \in Seq(Number) /\ failures' = failures
    BY <1>0, ListMeans
  <1>4. /\ items' \in Seq(Item) /\ \A i : Startup!Contains(items', i) <=> Startup!Contains(all, i)
        /\ syncPc' = "execute" => \A m, n \in DOMAIN items' :
              m < n /\ Startup!isQueuedHead(items'[n]) => Startup!isQueuedHead(items'[m])
        /\ syncPc' = "execute" => rest' = <<>>
        /\ syncPc' \in {"list", "execute"} /\ (syncPc' = "list" <=> rest' # <<>>)
    BY <1>1, <1>2, HeadsFirstSorts DEF Listed
  <1>5. Startup!TypeOK'
    BY <1>0, <1>1, <1>3, <1>4 DEF Startup!TypeOK, Item
  <1>6. /\ heads = trigger \cap label /\ actions = <<>> /\ headPreserved = {}
        /\ queue = [b \in SyncBranch |-> <<>>] /\ syncSuspended = {}
        /\ \A a : ~Startup!Contains(actions, a)
    BY <1>0, <1>1, EmptyContains DEF Startup!Phases
  <1>7. Startup!Phases'
    BY <1>1, <1>4, <1>6 DEF Startup!Phases, Startup!Before
  <1>8. \A i : Startup!Contains(items', i) => TrueItem(i)
    <2> SUFFICES ASSUME NEW i, Startup!Contains(all, i)
                 PROVE  TrueItem(i)
      BY <1>4
    <2>1. CASE Startup!Contains(items, i)
      BY <1>0, <2>1, ActionsAreTrueMeans
    <2>2. CASE i.pr \in Number /\ i.actions \in Startup!ActionsOf(i.pr)
      <3>1. /\ Startup!IsInjective(i.actions)
            /\ Startup!Contains(i.actions, "unlabel") <=> i.pr \in label
            /\ Startup!Contains(i.actions, "enqueue") <=> i.pr \in trigger
        BY <2>2, ActionsMean
      <3> QED
        BY <1>6, <3>1 DEF TrueItem, Startup!isQueuedHead
    <2> QED
      BY <1>2, <2>1, <2>2 DEF Listed
  <1>9. \A n \in DOMAIN items' : TrueItem(items'[n])
    BY <1>4, <1>8, Contained
  <1>10. Startup!ActionsAreTrue'
    BY <1>0, <1>1, <1>9 DEF Startup!ActionsAreTrue, TrueItem, Startup!isQueuedHead
  <1>11. Startup!HeadsAreFirst'
    <2>1. \A n \in DOMAIN items' : items'[n].pr \in heads <=> Startup!isQueuedHead(items'[n])
      BY <1>9 DEF TrueItem
    <2> QED
      BY <1>1, <1>4, <1>6, <2>1 DEF Startup!HeadsAreFirst
  <1>12. Startup!OnePreserves'
    BY <1>1, <1>6 DEF Startup!OnePreserves
  <1>13. Startup!QueuesAreTrue' /\ Startup!HeadSurvives'
    BY <1>0, <1>1, QueuesStay
  <1>14. /\ \A a, p : Startup!Behind(a, p)' <=> BehindIn(items', a, p)
         /\ \A a, p : Startup!Behind(a, p) <=> BehindIn(items, a, p)
         /\ \A a, p : Startup!Behind(a, p) => Startup!Behind(a, p)'
    <2>1. items \in Seq(Item)
      BY <1>0 DEF Startup!TypeOK, Item
    <2>2. \A i : Startup!Contains(items, i) => Startup!Contains(items', i)
      BY <1>2, <1>4 DEF Listed
    <2>3. \A a, p : BehindIn(items, a, p) => BehindIn(items', a, p)
      BY <1>4, <2>1, <2>2, BehindMeans
    <2> QED
      BY <2>3, BehindIsIn
  <1>15. ASSUME NEW p \in Number, Startup!Contains(rest, p), ~Startup!Contains(rest', p)
         PROVE  /\ p \in trigger => Startup!Behind("enqueue", p)'
                /\ p \in label => Startup!Behind("unlabel", p)'
                /\ status[p] = "success" => Startup!Behind("resetStatusState", p)'
    <2>1. CASE <<>> \in Startup!ActionsOf(p)
      BY <2>1, EmptyContains, ActionsMean
    <2>2. ASSUME NEW i, Startup!Contains(all, i), i.pr = p, i.actions \in Startup!ActionsOf(p)
          PROVE  /\ p \in trigger => Startup!Behind("enqueue", p)'
                 /\ p \in label => Startup!Behind("unlabel", p)'
                 /\ status[p] = "success" => Startup!Behind("resetStatusState", p)'
      <3>1. \A a : Startup!Contains(i.actions, a) => Startup!Behind(a, p)'
        BY <1>4, <1>14, <2>2, BehindMeans
      <3> QED
        BY <2>2, <3>1, ActionsMean
    <2> QED
      BY <1>2, <1>15, <2>1, <2>2 DEF Listed
  <1>16. Startup!NoneForgotten'
    <2> SUFFICES ASSUME NEW p \in trigger, syncBase[p] # NoBranch
                 PROVE  Startup!AlreadyExists(p)' \/ Startup!Contains(rest', p) \/ Startup!Owed("enqueue", p)'
      BY <1>1 DEF Startup!NoneForgotten
    <2>1. p \in Number
      BY <1>0 DEF Startup!TypeOK
    <2>2. Startup!AlreadyExists(p) \/ Startup!Contains(rest, p) \/ Startup!Owed("enqueue", p)
      BY <1>0 DEF Startup!NoneForgotten
    <2>3. Startup!Owed("enqueue", p) => Startup!Owed("enqueue", p)'
      BY <1>1, <1>14 DEF Startup!Owed
    <2> QED
      BY <1>1, <1>15, <2>1, <2>2, <2>3, QueuesStay DEF Startup!Owed
  <1>17. Startup!LabelsAreRemoved'
    <2> SUFFICES ASSUME failures = 0, NEW p \in label
                 PROVE  Startup!Contains(rest', p) \/ Startup!Behind("unlabel", p)'
      BY <1>1, <1>3 DEF Startup!LabelsAreRemoved
    <2>1. p \in Number
      BY <1>0 DEF Startup!TypeOK
    <2>2. ~Startup!IsFirst(p)
      BY <1>6 DEF Startup!IsFirst
    <2>3. Startup!Contains(rest, p) \/ Startup!Behind("unlabel", p)
      BY <1>0, <1>6, <2>2 DEF Startup!LabelsAreRemoved
    <2> QED
      BY <1>14, <1>15, <2>1, <2>3
  <1>18. Startup!StatusIsReset'
    <2>1. \A p \in Number : reported'[p] = "pending" => status'[p] = "pending"
      BY <1>0, <1>1 DEF Startup!StatusIsReset
    <2>2. ASSUME failures = 0, NEW p \in Number, status[p] = "success"
          PROVE  Startup!Contains(rest', p) \/ Startup!Owed("resetStatusState", p)'
      <3>1. ~Startup!IsFirst(p)
        BY <1>6 DEF Startup!IsFirst
      <3>2. Startup!Contains(rest, p) \/ Startup!Owed("resetStatusState", p)
        BY <1>0, <2>2, <3>1 DEF Startup!StatusIsReset
      <3>3. Startup!Owed("resetStatusState", p) => Startup!Owed("resetStatusState", p)'
        BY <1>1, <1>14 DEF Startup!Owed
      <3> QED
        BY <1>15, <2>2, <3>2, <3>3 DEF Startup!Owed
    <2> QED
      BY <1>1, <1>3, <2>1, <2>2 DEF Startup!StatusIsReset
  <1> QED
    BY <1>5, <1>7, <1>10, <1>11, <1>12, <1>13, <1>16, <1>17, <1>18 DEF Startup!Invariant

(* Nothing that is owed changes as long as the items and the actions stay. *)
LEMMA OwedStays ==
    ASSUME UNCHANGED <<items, pr, actions>>
    PROVE  /\ \A a, p : Startup!Behind(a, p)' <=> Startup!Behind(a, p)
           /\ \A a, p : Startup!Owed(a, p)' <=> Startup!Owed(a, p)
  BY DEF Startup!Behind, Startup!Owed

LEMMA ListFailsKeepsInvariant ==
    ASSUME Startup!Invariant, Startup!ListFails
    PROVE  Startup!Invariant'
  <1>0. /\ Startup!TypeOK /\ Startup!Phases /\ Startup!ActionsAreTrue /\ Startup!HeadsAreFirst
        /\ Startup!OnePreserves /\ Startup!QueuesAreTrue /\ Startup!HeadSurvives
        /\ Startup!NoneForgotten
        /\ \A p \in Number : reported[p] = "pending" => status[p] = "pending"
    BY DEF Startup!Invariant, Startup!StatusIsReset
  <1>1. /\ syncPc = "list" /\ syncPc' = "failed" /\ failures < MaxFailures /\ failures' = failures + 1
        /\ UNCHANGED <<syncBase, trigger, label, status, rest, items, headPreserved, pr, actions,
                       preserve, enqueued, queue, syncSuspended, hasHeadLabel, reported, heads,
                       updates>>
    BY DEF Startup!ListFails, Startup!github, Startup!item, Startup!queues, Startup!caches,
           Startup!history
  <1>2. failures' \in 0..MaxFailures /\ failures' # 0
    BY <1>0, <1>1, SyncConstants DEF Startup!TypeOK
  <1>3. Startup!TypeOK'
    BY <1>0, <1>1, <1>2 DEF Startup!TypeOK
  <1>4. Startup!Phases'
    BY <1>0, <1>1 DEF Startup!Phases, Startup!Before
  <1>5. Startup!ActionsAreTrue' /\ Startup!HeadsAreFirst'
    BY <1>0, <1>1 DEF Startup!ActionsAreTrue, Startup!HeadsAreFirst, Startup!isQueuedHead
  <1>6. Startup!OnePreserves'
    BY <1>0, <1>1, OwedStays DEF Startup!OnePreserves
  <1>7. Startup!QueuesAreTrue' /\ Startup!HeadSurvives'
    BY <1>0, <1>1, QueuesStay
  <1>8. Startup!NoneForgotten'
    BY <1>0, <1>1, QueuesStay, OwedStays DEF Startup!NoneForgotten
  <1>9. Startup!LabelsAreRemoved' /\ Startup!StatusIsReset'
    BY <1>0, <1>1, <1>2 DEF Startup!LabelsAreRemoved, Startup!StatusIsReset
  <1> QED
    BY <1>3, <1>4, <1>5, <1>6, <1>7, <1>8, <1>9 DEF Startup!Invariant

LEMMA UpdateKeepsInvariant ==
    ASSUME Startup!Invariant, NEW q \in Number, Startup!Update(q)
    PROVE  Startup!Invariant'
  <1>0. /\ Startup!TypeOK /\ Startup!Phases /\ Startup!ActionsAreTrue /\ Startup!HeadsAreFirst
        /\ Startup!OnePreserves /\ Startup!QueuesAreTrue /\ Startup!HeadSurvives
        /\ Startup!NoneForgotten /\ Startup!LabelsAreRemoved /\ Startup!StatusIsReset
    BY DEF Startup!Invariant
  <1>1. /\ syncPc = "list" /\ updates < MaxUpdates /\ updates' = updates + 1
        /\ UNCHANGED <<syncBase, trigger, label, status, syncPc, items, headPreserved, pr, actions,
                       preserve, enqueued, queue, syncSuspended, hasHeadLabel, reported, heads,
                       failures>>
    BY DEF Startup!Update, Startup!github, Startup!item, Startup!queues, Startup!caches
  <1>2. /\ rest' \in Seq(Number)
        /\ \A p : Startup!Contains(rest, p) => Startup!Contains(rest', p)
    <2>1. rest \in Seq(Number)
      BY <1>0 DEF Startup!TypeOK
    <2>2. CASE rest' = Append(rest, q)
      BY <2>1, <2>2, AppendContains
    <2>3. ASSUME NEW n \in DOMAIN rest, rest[n] = q, rest' = Append(Startup!RemoveAt(rest, n), q)
          PROVE  /\ rest' \in Seq(Number)
                 /\ \A p : Startup!Contains(rest, p) => Startup!Contains(rest', p)
      BY <2>1, <2>3, MovedContains, AppendContains
    <2> QED
      BY <2>2, <2>3 DEF Startup!Update
  <1>3. Startup!TypeOK'
    <2>1. updates' \in 0..MaxUpdates
      BY <1>0, <1>1, SyncConstants DEF Startup!TypeOK
    <2> QED
      BY <1>0, <1>1, <1>2, <2>1 DEF Startup!TypeOK
  <1>4. Startup!Phases'
    BY <1>0, <1>1 DEF Startup!Phases, Startup!Before
  <1>5. Startup!ActionsAreTrue' /\ Startup!HeadsAreFirst'
    BY <1>0, <1>1 DEF Startup!ActionsAreTrue, Startup!HeadsAreFirst, Startup!isQueuedHead
  <1>6. Startup!OnePreserves'
    BY <1>0, <1>1, OwedStays DEF Startup!OnePreserves
  <1>7. Startup!QueuesAreTrue' /\ Startup!HeadSurvives'
    BY <1>0, <1>1, QueuesStay
  <1>8. Startup!NoneForgotten'
    BY <1>0, <1>1, <1>2, QueuesStay, OwedStays DEF Startup!NoneForgotten
  <1>9. Startup!LabelsAreRemoved'
    BY <1>0, <1>1, <1>2, QueuesStay, OwedStays DEF Startup!LabelsAreRemoved
  <1>10. Startup!StatusIsReset'
    BY <1>0, <1>1, <1>2, QueuesStay, OwedStays DEF Startup!StatusIsReset
  <1> QED
    BY <1>3, <1>4, <1>5, <1>6, <1>7, <1>8, <1>9, <1>10 DEF Startup!Invariant

LEMMA FinishKeepsInvariant ==
    ASSUME Startup!Invariant, Startup!Finish \/ UNCHANGED syncVars
    PROVE  Startup!Invariant'
  <1>0. /\ Startup!TypeOK /\ Startup!Phases /\ Startup!ActionsAreTrue /\ Startup!HeadsAreFirst
        /\ Startup!OnePreserves /\ Startup!QueuesAreTrue /\ Startup!HeadSurvives
        /\ Startup!NoneForgotten /\ Startup!LabelsAreRemoved /\ Startup!StatusIsReset
    BY DEF Startup!Invariant
  <1>1. /\ \/ syncPc' = syncPc
           \/ syncPc = "execute" /\ syncPc' = "done" /\ actions = <<>> /\ items = <<>>
        /\ UNCHANGED <<syncBase, trigger, label, status, rest, items, headPreserved, pr, actions,
                       preserve, enqueued, queue, syncSuspended, hasHeadLabel, reported, heads,
                       updates, failures>>
    BY DEF Startup!Finish, syncVars, Startup!github, Startup!item, Startup!queues, Startup!caches,
           Startup!history
  <1>3. Startup!TypeOK'
    BY <1>0, <1>1 DEF Startup!TypeOK
  <1>4. Startup!Phases'
    BY <1>0, <1>1 DEF Startup!Phases, Startup!Before
  <1>5. Startup!ActionsAreTrue' /\ Startup!HeadsAreFirst'
    BY <1>0, <1>1 DEF Startup!ActionsAreTrue, Startup!HeadsAreFirst, Startup!isQueuedHead
  <1>6. Startup!OnePreserves'
    BY <1>0, <1>1, OwedStays DEF Startup!OnePreserves
  <1>7. Startup!QueuesAreTrue' /\ Startup!HeadSurvives'
    BY <1>0, <1>1, QueuesStay
  <1>8. Startup!NoneForgotten'
    BY <1>0, <1>1, QueuesStay, OwedStays DEF Startup!NoneForgotten
  <1>9. Startup!LabelsAreRemoved'
    BY <1>0, <1>1, QueuesStay, OwedStays DEF Startup!LabelsAreRemoved
  <1>10. Startup!StatusIsReset'
    BY <1>0, <1>1, QueuesStay, OwedStays DEF Startup!StatusIsReset
  <1> QED
    BY <1>3, <1>4, <1>5, <1>6, <1>7, <1>8, <1>9, <1>10 DEF Startup!Invariant

LEMMA NextItemKeepsInvariant ==
    ASSUME Startup!Invariant, Startup!NextItem
    PROVE  Startup!Invariant'
  <1>0. /\ Startup!TypeOK /\ Startup!Phases /\ Startup!ActionsAreTrue /\ Startup!HeadsAreFirst
        /\ Startup!OnePreserves /\ Startup!QueuesAreTrue /\ Startup!HeadSurvives
        /\ Startup!NoneForgotten /\ Startup!LabelsAreRemoved /\ Startup!StatusIsReset
    BY DEF Startup!Invariant
  <1>1. PICK i : i = Head(items)
    OBVIOUS
  <1>2. /\ syncPc = "execute" /\ actions = <<>> /\ items # <<>>
        /\ items' = Tail(items) /\ pr' = i.pr /\ actions' = i.actions
        /\ preserve' = (Startup!isQueuedHead(i) /\ syncBase[i.pr] \notin headPreserved)
        /\ enqueued' = FALSE
        /\ UNCHANGED <<syncBase, trigger, label, status, rest, syncPc, headPreserved,
                       queue, syncSuspended, hasHeadLabel, reported, heads, updates, failures>>
    BY <1>1 DEF Startup!NextItem, Startup!preserveHeadLabel, Startup!github, Startup!queues,
                Startup!caches, Startup!history
  <1>3. /\ items \in Seq(Item) /\ items' \in Seq(Item) /\ i \in Item
        /\ \A x : Startup!Contains(items, x) <=> x = i \/ Startup!Contains(items', x)
        /\ i = items[1] /\ 1 \in DOMAIN items
        /\ \A n \in DOMAIN items' : n + 1 \in DOMAIN items /\ items'[n] = items[n + 1]
    <2>1. items \in Seq(Item)
      BY <1>0 DEF Startup!TypeOK, Item
    <2> QED
      BY <1>1, <1>2, <2>1, TailContains
  <1>4. i.pr \in Number /\ i.actions \in Seq(Startup!Action)
    BY <1>3 DEF Item
  <1>5. Startup!TypeOK'
    BY <1>0, <1>2, <1>3, <1>4 DEF Startup!TypeOK, Item
  <1>6. Startup!Phases'
    BY <1>0, <1>2 DEF Startup!Phases, Startup!Before
  <1>7. /\ heads \subseteq trigger
        /\ \A x : Startup!Contains(items, x) => TrueItem(x)
    BY <1>0, ActionsAreTrueMeans
  <1>8. TrueItem(i) /\ \A n \in DOMAIN items' : TrueItem(items'[n])
    BY <1>3, <1>7, Contained
  <1>9. Startup!ActionsAreTrue'
    BY <1>2, <1>4, <1>7, <1>8 DEF Startup!ActionsAreTrue, TrueItem, Startup!isQueuedHead
  <1>10. /\ DOMAIN items' = 1..Len(items') /\ Len(items') \in Nat
         /\ DOMAIN items = 1..Len(items) /\ Len(items) \in Nat
    BY <1>3, Contained
  <1>11. Startup!HeadsAreFirst'
    <2>1. \A m, n \in DOMAIN items' : m < n => m + 1 < n + 1
      BY <1>10
    <2>2. \A n \in DOMAIN items' : 1 < n + 1
      BY <1>10
    <2>3. \A m, n \in DOMAIN items : m < n /\ items[n].pr \in heads => items[m].pr \in heads
      BY <1>0, <1>2 DEF Startup!HeadsAreFirst
    <2>4. \A m, n \in DOMAIN items' : m < n /\ items'[n].pr \in heads => items'[m].pr \in heads
      BY <1>3, <2>1, <2>3
    <2>5. \A n \in DOMAIN items' : items'[n].pr \in heads => i.pr \in heads
      BY <1>3, <2>2, <2>3
    <2> QED
      BY <1>2, <2>4, <2>5 DEF Startup!HeadsAreFirst
  <1>12. /\ \A a, p : Startup!Behind(a, p)
                        <=> Startup!Behind(a, p)' \/ (p = i.pr /\ Startup!Contains(i.actions, a))
         /\ \A a, p : Startup!Owed(a, p)' <=> Startup!Owed(a, p)
    <2>1. \A a, p : BehindIn(items, a, p)
                      <=> BehindIn(items', a, p) \/ (p = i.pr /\ Startup!Contains(i.actions, a))
      BY <1>3, BehindMeans
    <2>2. \A a, p : Startup!Behind(a, p)
                      <=> Startup!Behind(a, p)' \/ (p = i.pr /\ Startup!Contains(i.actions, a))
      BY <2>1, BehindIsIn
    <2>3. \A a : ~Startup!Contains(actions, a)
      BY <1>2, EmptyContains
    <2> QED
      BY <1>2, <2>2, <2>3 DEF Startup!Owed
  <1>13. Startup!OnePreserves'
    <2>1. Startup!Contains(i.actions, "enqueue") /\ i.pr \in heads =>
            (preserve' <=> syncBase[i.pr] \notin headPreserved)
      BY <1>2, <1>8 DEF TrueItem
    <2>2. \A b \in SyncBranch, p \in heads :
             /\ queue[b] # <<>> \/ \E q \in syncSuspended : syncBase[q] = b
             /\ syncBase[p] = b /\ Startup!Owed("enqueue", p)
             => b \in headPreserved
      BY <1>0 DEF Startup!OnePreserves
    <2> QED
      BY <1>2, <1>12, <2>1, <2>2 DEF Startup!OnePreserves
  <1>14. Startup!QueuesAreTrue' /\ Startup!HeadSurvives'
    BY <1>0, <1>2, QueuesStay
  <1>15. Startup!NoneForgotten'
    BY <1>0, <1>2, <1>12, QueuesStay DEF Startup!NoneForgotten
  <1>16. Startup!LabelsAreRemoved'
    <2> SUFFICES ASSUME failures = 0, NEW p \in label
                 PROVE  \/ Startup!IsFirst(p)' \/ Startup!Contains(rest', p) \/ Startup!Behind("unlabel", p)'
                        \/ pr' = p /\ Startup!Contains(actions', IF preserve' THEN "enqueue" ELSE "unlabel")
      BY <1>2 DEF Startup!LabelsAreRemoved
    <2>1. Startup!IsFirst(p) \/ Startup!Contains(rest, p) \/ Startup!Behind("unlabel", p)
      BY <1>0, <1>2, EmptyContains DEF Startup!LabelsAreRemoved
    <2>2. Startup!Contains(i.actions, "unlabel")
            => Startup!Contains(actions', IF preserve' THEN "enqueue" ELSE "unlabel")
      BY <1>2 DEF Startup!isQueuedHead
    <2> QED
      BY <1>2, <1>12, <2>1, <2>2, QueuesStay
  <1>17. Startup!StatusIsReset'
    BY <1>0, <1>2, <1>12, QueuesStay DEF Startup!StatusIsReset
  <1> QED
    BY <1>5, <1>6, <1>9, <1>11, <1>13, <1>14, <1>15, <1>16, <1>17 DEF Startup!Invariant

(* The next action of the item. *)
LEMMA DoMeans ==
    ASSUME Startup!Invariant, NEW action, Startup!Do(action), preserve' = preserve \/ preserve' = FALSE
    PROVE  /\ syncPc = "execute" /\ rest = <<>> /\ pr \in Number
           /\ UNCHANGED <<syncBase, trigger, rest, syncPc, items, pr, heads, updates>>
           /\ Startup!Contains(actions, action) /\ actions' \in Seq(Startup!Action)
           /\ \A a : Startup!Contains(actions', a) <=> Startup!Contains(actions, a) /\ a # action
           /\ \A a, p : Startup!Behind(a, p)' <=> Startup!Behind(a, p)
           /\ \A a, p : Startup!Owed(a, p)' => Startup!Owed(a, p)
           /\ \A a, p : Startup!Owed(a, p) => Startup!Owed(a, p)' \/ (a = action /\ p = pr)
           /\ Startup!Phases' /\ Startup!ActionsAreTrue' /\ Startup!HeadsAreFirst'
  <1>0. Startup!TypeOK /\ Startup!Phases /\ Startup!ActionsAreTrue /\ Startup!HeadsAreFirst
    BY DEF Startup!Invariant
  <1>1. /\ actions # <<>> /\ Head(actions) = action /\ actions' = Tail(actions)
        /\ UNCHANGED <<syncBase, trigger, rest, syncPc, items, pr, heads, updates>>
    BY DEF Startup!Do, Startup!history
  <1>2. syncPc = "execute" /\ rest = <<>>
    BY <1>0, <1>1 DEF Startup!Phases, Startup!Before, Startup!TypeOK
  <1>3. actions \in Seq(Startup!Action) /\ Startup!IsInjective(actions) /\ pr \in Number
    BY <1>0, <1>1 DEF Startup!TypeOK, Startup!ActionsAreTrue
  <1>4. /\ actions' \in Seq(Startup!Action) /\ Startup!IsInjective(actions')
        /\ Startup!Contains(actions, action)
        /\ \A a : Startup!Contains(actions', a) <=> Startup!Contains(actions, a) /\ a # action
    BY <1>1, <1>3, TailContains
  <1>5. Startup!Phases'
    BY <1>1, <1>2 DEF Startup!Phases, Startup!Before
  <1>6. Startup!ActionsAreTrue'
    BY <1>0, <1>1, <1>3, <1>4 DEF Startup!ActionsAreTrue, Startup!isQueuedHead
  <1>7. Startup!HeadsAreFirst'
    BY <1>0, <1>1, <1>4 DEF Startup!HeadsAreFirst
  <1>8. \A a, p : Startup!Behind(a, p)' <=> Startup!Behind(a, p)
    BY <1>1, BehindIsIn
  <1>9. /\ \A a, p : Startup!Owed(a, p)' => Startup!Owed(a, p)
        /\ \A a, p : Startup!Owed(a, p) => Startup!Owed(a, p)' \/ (a = action /\ p = pr)
    BY <1>1, <1>4, <1>8 DEF Startup!Owed
  <1> QED
    BY <1>1, <1>2, <1>3, <1>4, <1>5, <1>6, <1>7, <1>8, <1>9

(* A failed or a successful request. *)
LEMMA FailuresCount ==
    ASSUME Startup!TypeOK,
           failures' = failures \/ (failures < MaxFailures /\ failures' = failures + 1)
    PROVE  failures' \in 0..MaxFailures /\ (failures' = 0 => failures' = failures)
  BY SyncConstants DEF Startup!TypeOK

LEMMA UnlabelKeepsInvariant ==
    ASSUME Startup!Invariant, Startup!Unlabel
    PROVE  Startup!Invariant'
  <1>0. /\ Startup!TypeOK /\ Startup!OnePreserves /\ Startup!QueuesAreTrue /\ Startup!HeadSurvives
        /\ Startup!NoneForgotten /\ Startup!LabelsAreRemoved /\ Startup!StatusIsReset
        /\ Startup!ActionsAreTrue
    BY DEF Startup!Invariant
  <1>1. /\ Startup!Do("unlabel")
        /\ \/ failures' = failures /\ label' = IF preserve THEN label ELSE label \ {pr}
           \/ failures < MaxFailures /\ failures' = failures + 1 /\ label' = label
        /\ UNCHANGED <<headPreserved, preserve, enqueued, status, queue, syncSuspended,
                       hasHeadLabel, reported>>
    BY DEF Startup!Unlabel, Startup!RemoveLabel, Startup!queues, Startup!caches
  <1>2. /\ syncPc = "execute" /\ rest = <<>> /\ pr \in Number
        /\ UNCHANGED <<syncBase, trigger, rest, syncPc, items, pr, heads, updates>>
        /\ Startup!Contains(actions, "unlabel") /\ actions' \in Seq(Startup!Action)
        /\ \A a : Startup!Contains(actions', a) <=> Startup!Contains(actions, a) /\ a # "unlabel"
        /\ \A a, p : Startup!Behind(a, p)' <=> Startup!Behind(a, p)
        /\ \A a, p : Startup!Owed(a, p)' => Startup!Owed(a, p)
        /\ \A a, p : Startup!Owed(a, p) => Startup!Owed(a, p)' \/ (a = "unlabel" /\ p = pr)
        /\ Startup!Phases' /\ Startup!ActionsAreTrue' /\ Startup!HeadsAreFirst'
    BY <1>1, DoMeans
  <1>3. failures' \in 0..MaxFailures /\ (failures' = 0 => failures' = failures)
    BY <1>0, <1>1, FailuresCount
  <1>4. Startup!TypeOK'
    <2>1. label' \subseteq Number
      BY <1>0, <1>1 DEF Startup!TypeOK
    <2> QED
      BY <1>0, <1>1, <1>2, <1>3, <2>1 DEF Startup!TypeOK
  <1>5. Startup!OnePreserves'
    BY <1>0, <1>1, <1>2 DEF Startup!OnePreserves
  <1>6. Startup!QueuesAreTrue' /\ Startup!HeadSurvives'
    BY <1>0, <1>1, <1>2, QueuesStay
  <1>7. Startup!NoneForgotten'
    <2>1. \A p : Startup!AlreadyExists(p)' <=> Startup!AlreadyExists(p)
      BY <1>1, <1>2, QueuesStay
    <2> QED
      BY <1>0, <1>1, <1>2, <2>1 DEF Startup!NoneForgotten
  <1>8. Startup!LabelsAreRemoved'
    <2> SUFFICES ASSUME failures' = 0, NEW p \in label'
                 PROVE  \/ Startup!IsFirst(p)' \/ Startup!Behind("unlabel", p)'
                        \/ pr' = p /\ Startup!Contains(actions', IF preserve' THEN "enqueue" ELSE "unlabel")
      BY <1>1 DEF Startup!LabelsAreRemoved
    <2>1. failures = 0 /\ p \in label /\ (p = pr => preserve)
      BY <1>0, <1>1, <1>3 DEF Startup!TypeOK
    <2>2. \/ Startup!IsFirst(p) \/ Startup!Behind("unlabel", p)
          \/ pr = p /\ Startup!Contains(actions, IF preserve THEN "enqueue" ELSE "unlabel")
      BY <1>0, <1>2, <2>1, EmptyContains DEF Startup!LabelsAreRemoved
    <2>3. Startup!IsFirst(p)' <=> Startup!IsFirst(p)
      BY <1>1, <1>2, QueuesStay
    <2> QED
      BY <1>1, <1>2, <2>1, <2>2, <2>3
  <1>9. Startup!StatusIsReset'
    <2>1. \A p : Startup!IsFirst(p)' <=> Startup!IsFirst(p)
      BY <1>1, <1>2, QueuesStay
    <2> QED
      BY <1>0, <1>1, <1>2, <1>3, <2>1 DEF Startup!StatusIsReset
  <1> QED
    BY <1>2, <1>4, <1>5, <1>6, <1>7, <1>8, <1>9 DEF Startup!Invariant

LEMMA EnqueueFailsKeepsInvariant ==
    ASSUME Startup!Invariant, Startup!EnqueueFails
    PROVE  Startup!Invariant'
  <1>0. /\ Startup!TypeOK /\ Startup!OnePreserves /\ Startup!QueuesAreTrue /\ Startup!HeadSurvives
        /\ Startup!NoneForgotten /\ Startup!LabelsAreRemoved /\ Startup!StatusIsReset
        /\ Startup!ActionsAreTrue
    BY DEF Startup!Invariant
  <1>1. /\ Startup!Do("enqueue") /\ syncBase[pr] = NoBranch /\ preserve' = FALSE
        /\ \/ failures' = failures /\ label' = IF preserve THEN label \ {pr} ELSE label
           \/ failures < MaxFailures /\ failures' = failures + 1 /\ label' = label
        /\ UNCHANGED <<headPreserved, enqueued, status, queue, syncSuspended,
                       hasHeadLabel, reported>>
    BY DEF Startup!EnqueueFails, Startup!RemoveLabel, Startup!queues, Startup!caches
  <1>2. /\ syncPc = "execute" /\ rest = <<>> /\ pr \in Number
        /\ UNCHANGED <<syncBase, trigger, rest, syncPc, items, pr, heads, updates>>
        /\ Startup!Contains(actions, "enqueue") /\ actions' \in Seq(Startup!Action)
        /\ \A a : Startup!Contains(actions', a) <=> Startup!Contains(actions, a) /\ a # "enqueue"
        /\ \A a, p : Startup!Behind(a, p)' <=> Startup!Behind(a, p)
        /\ \A a, p : Startup!Owed(a, p)' => Startup!Owed(a, p)
        /\ \A a, p : Startup!Owed(a, p) => Startup!Owed(a, p)' \/ (a = "enqueue" /\ p = pr)
        /\ Startup!Phases' /\ Startup!ActionsAreTrue' /\ Startup!HeadsAreFirst'
    BY <1>1, DoMeans
  <1>3. failures' \in 0..MaxFailures /\ (failures' = 0 => failures' = failures)
    BY <1>0, <1>1, FailuresCount
  <1>4. Startup!TypeOK'
    <2>1. label' \subseteq Number
      BY <1>0, <1>1 DEF Startup!TypeOK
    <2> QED
      BY <1>0, <1>1, <1>2, <1>3, <2>1 DEF Startup!TypeOK
  <1>5. Startup!OnePreserves'
    BY <1>0, <1>1, <1>2 DEF Startup!OnePreserves
  <1>6. Startup!QueuesAreTrue' /\ Startup!HeadSurvives'
    BY <1>0, <1>1, <1>2, QueuesStay
  <1>7. Startup!NoneForgotten'
    <2>1. \A p : Startup!AlreadyExists(p)' <=> Startup!AlreadyExists(p)
      BY <1>1, <1>2, QueuesStay
    <2> QED
      BY <1>0, <1>1, <1>2, <2>1 DEF Startup!NoneForgotten
  <1>8. Startup!LabelsAreRemoved'
    <2> SUFFICES ASSUME failures' = 0, NEW p \in label'
                 PROVE  \/ Startup!IsFirst(p)' \/ Startup!Behind("unlabel", p)'
                        \/ pr' = p /\ Startup!Contains(actions', IF preserve' THEN "enqueue" ELSE "unlabel")
      BY <1>1 DEF Startup!LabelsAreRemoved
    <2>1. failures = 0 /\ p \in label /\ (p = pr => ~preserve)
      BY <1>0, <1>1, <1>3 DEF Startup!TypeOK
    <2>2. \/ Startup!IsFirst(p) \/ Startup!Behind("unlabel", p)
          \/ pr = p /\ Startup!Contains(actions, IF preserve THEN "enqueue" ELSE "unlabel")
      BY <1>0, <1>2, <2>1, EmptyContains DEF Startup!LabelsAreRemoved
    <2>3. Startup!IsFirst(p)' <=> Startup!IsFirst(p)
      BY <1>1, <1>2, QueuesStay
    <2> QED
      BY <1>1, <1>2, <2>1, <2>2, <2>3
  <1>9. Startup!StatusIsReset'
    <2>1. \A p : Startup!IsFirst(p)' <=> Startup!IsFirst(p)
      BY <1>1, <1>2, QueuesStay
    <2> QED
      BY <1>0, <1>1, <1>2, <1>3, <2>1 DEF Startup!StatusIsReset
  <1> QED
    BY <1>2, <1>4, <1>5, <1>6, <1>7, <1>8, <1>9 DEF Startup!Invariant

(* A PR that preserves its label is not queued yet, and neither is another *)
(* one of its base branch.                                                 *)
LEMMA PreservingIsAlone ==
    ASSUME Startup!Invariant, preserve, pr \in Number, syncBase[pr] # NoBranch,
           Startup!Contains(actions, "enqueue")
    PROVE  /\ syncBase[pr] \in SyncBranch /\ queue[syncBase[pr]] = <<>>
           /\ ~Startup!AlreadyExists(pr)
  <1>1. /\ pr \in heads /\ syncBase[pr] \notin headPreserved
        /\ syncBase[pr] \in SyncBranch
    BY DEF Startup!Invariant, Startup!ActionsAreTrue, Startup!OnePreserves, Startup!TypeOK
  <1>2. Startup!Owed("enqueue", pr)
    BY DEF Startup!Owed
  <1>3. queue[syncBase[pr]] = <<>> /\ \A q \in syncSuspended : syncBase[q] # syncBase[pr]
    BY <1>1, <1>2 DEF Startup!Invariant, Startup!OnePreserves
  <1> QED
    BY <1>1, <1>3, EmptyContains DEF Startup!AlreadyExists

LEMMA EnqueueAgainKeepsInvariant ==
    ASSUME Startup!Invariant, Startup!EnqueueAgain
    PROVE  Startup!Invariant'
  <1>0. /\ Startup!TypeOK /\ Startup!OnePreserves /\ Startup!QueuesAreTrue /\ Startup!HeadSurvives
        /\ Startup!NoneForgotten /\ Startup!LabelsAreRemoved /\ Startup!StatusIsReset
        /\ Startup!ActionsAreTrue
    BY DEF Startup!Invariant
  <1>1. /\ Startup!Do("enqueue") /\ syncBase[pr] # NoBranch /\ Startup!AlreadyExists(pr)
        /\ headPreserved' = headPreserved \cup (IF preserve THEN {syncBase[pr]} ELSE {})
        /\ UNCHANGED <<preserve, enqueued, label, status, queue, syncSuspended,
                       hasHeadLabel, reported, failures>>
    BY DEF Startup!EnqueueAgain, Startup!Preserved, Startup!queues, Startup!caches
  <1>2. /\ syncPc = "execute" /\ rest = <<>> /\ pr \in Number
        /\ UNCHANGED <<syncBase, trigger, rest, syncPc, items, pr, heads, updates>>
        /\ Startup!Contains(actions, "enqueue") /\ actions' \in Seq(Startup!Action)
        /\ \A a : Startup!Contains(actions', a) <=> Startup!Contains(actions, a) /\ a # "enqueue"
        /\ \A a, p : Startup!Behind(a, p)' <=> Startup!Behind(a, p)
        /\ \A a, p : Startup!Owed(a, p)' => Startup!Owed(a, p)
        /\ \A a, p : Startup!Owed(a, p) => Startup!Owed(a, p)' \/ (a = "enqueue" /\ p = pr)
        /\ Startup!Phases' /\ Startup!ActionsAreTrue' /\ Startup!HeadsAreFirst'
    BY <1>1, DoMeans
  <1>3. ~preserve
    BY <1>1, <1>2, PreservingIsAlone
  <1>4. Startup!TypeOK'
    BY <1>0, <1>1, <1>2, <1>3 DEF Startup!TypeOK
  <1>5. Startup!OnePreserves'
    BY <1>0, <1>1, <1>2 DEF Startup!OnePreserves
  <1>6. Startup!QueuesAreTrue' /\ Startup!HeadSurvives'
    BY <1>0, <1>1, <1>2, QueuesStay
  <1>10. /\ \A p : Startup!AlreadyExists(p)' <=> Startup!AlreadyExists(p)
         /\ \A p : Startup!IsFirst(p)' <=> Startup!IsFirst(p)
    BY <1>1, <1>2, QueuesStay
  <1>7. Startup!NoneForgotten'
    BY <1>0, <1>1, <1>2, <1>10 DEF Startup!NoneForgotten
  <1>8. Startup!LabelsAreRemoved'
    BY <1>0, <1>1, <1>2, <1>3, <1>10 DEF Startup!LabelsAreRemoved
  <1>9. Startup!StatusIsReset'
    BY <1>0, <1>1, <1>2, <1>10 DEF Startup!StatusIsReset
  <1> QED
    BY <1>2, <1>4, <1>5, <1>6, <1>7, <1>8, <1>9 DEF Startup!Invariant

(* A PR is added to its queue. *)
LEMMA QueueGrows ==
    ASSUME Startup!TypeOK, NEW b \in SyncBranch, NEW q \in Number,
           ~Startup!Contains(queue[b], q),
           queue' = [queue EXCEPT ![b] = Append(@, q)],
           UNCHANGED <<syncBase, syncSuspended>>
    PROVE  /\ queue' \in [SyncBranch -> Seq(Number)]
           /\ \A c \in SyncBranch : Startup!IsInjective(queue'[c])
           /\ \A c \in SyncBranch : \A p : Startup!Contains(queue'[c], p)
                    <=> Startup!Contains(queue[c], p) \/ (c = b /\ p = q)
           /\ queue'[b] # <<>> /\ (queue[b] = <<>> => Head(queue'[b]) = q)
           /\ queue[b] # <<>> => Head(queue'[b]) = Head(queue[b])
           /\ \A c \in SyncBranch : c # b => queue'[c] = queue[c]
           /\ \A p : Startup!IsFirst(p) => Startup!IsFirst(p)'
           /\ queue[b] = <<>> => Startup!IsFirst(q)'
  <1>0. /\ queue \in [SyncBranch -> Seq(Number)]
        /\ \A c \in SyncBranch : Startup!IsInjective(queue[c])
    BY DEF Startup!TypeOK
  <1>1. queue'[b] = Append(queue[b], q) /\ \A c \in SyncBranch : c # b => queue'[c] = queue[c]
    BY <1>0
  <1>2. /\ queue'[b] \in Seq(Number)
        /\ \A p : Startup!Contains(queue'[b], p) <=> Startup!Contains(queue[b], p) \/ p = q
        /\ Startup!IsInjective(queue'[b])
        /\ queue'[b] # <<>> /\ (queue[b] = <<>> => Head(queue'[b]) = q)
        /\ queue[b] # <<>> => Head(queue'[b]) = Head(queue[b])
    BY <1>0, <1>1, AppendContains
  <1>3. queue' \in [SyncBranch -> Seq(Number)]
    BY <1>0, <1>1, <1>2
  <1>4. \A p : Startup!IsFirst(p) => Startup!IsFirst(p)'
    BY <1>1, <1>2 DEF Startup!IsFirst
  <1>5. queue[b] = <<>> => Startup!IsFirst(q)'
    BY <1>2 DEF Startup!IsFirst
  <1> QED
    BY <1>0, <1>1, <1>2, <1>3, <1>4, <1>5

LEMMA EnqueueKeepsInvariant ==
    ASSUME Startup!Invariant, Startup!Enqueue
    PROVE  Startup!Invariant'
  <1>0. /\ Startup!TypeOK /\ Startup!OnePreserves /\ Startup!QueuesAreTrue /\ Startup!HeadSurvives
        /\ Startup!NoneForgotten /\ Startup!LabelsAreRemoved /\ Startup!StatusIsReset
        /\ Startup!ActionsAreTrue /\ Startup!HeadsAreFirst
    BY DEF Startup!Invariant
  <1> DEFINE b == syncBase[pr]
  <1>1. /\ Startup!Do("enqueue") /\ b # NoBranch /\ ~Startup!AlreadyExists(pr)
        /\ headPreserved' = headPreserved \cup (IF preserve THEN {b} ELSE {})
        /\ enqueued' = TRUE
        /\ queue' = [queue EXCEPT ![b] = Append(@, pr)]
        /\ hasHeadLabel' = IF preserve THEN hasHeadLabel \cup {pr} ELSE hasHeadLabel
        /\ UNCHANGED <<preserve, label, status, syncSuspended, reported, failures>>
    BY DEF Startup!Enqueue, Startup!Preserved
  <1>2. /\ syncPc = "execute" /\ rest = <<>> /\ pr \in Number
        /\ UNCHANGED <<syncBase, trigger, rest, syncPc, items, pr, heads, updates>>
        /\ Startup!Contains(actions, "enqueue") /\ actions' \in Seq(Startup!Action)
        /\ \A a : Startup!Contains(actions', a) <=> Startup!Contains(actions, a) /\ a # "enqueue"
        /\ \A a, p : Startup!Behind(a, p)' <=> Startup!Behind(a, p)
        /\ \A a, p : Startup!Owed(a, p)' => Startup!Owed(a, p)
        /\ \A a, p : Startup!Owed(a, p) => Startup!Owed(a, p)' \/ (a = "enqueue" /\ p = pr)
        /\ Startup!Phases' /\ Startup!ActionsAreTrue' /\ Startup!HeadsAreFirst'
    BY <1>1, DoMeans
  <1>3. b \in SyncBranch /\ ~Startup!Contains(queue[b], pr)
    BY <1>0, <1>1, <1>2 DEF Startup!TypeOK, Startup!AlreadyExists
  <1>4. /\ queue' \in [SyncBranch -> Seq(Number)]
        /\ \A c \in SyncBranch : Startup!IsInjective(queue'[c])
        /\ \A c \in SyncBranch : \A p : Startup!Contains(queue'[c], p)
                 <=> Startup!Contains(queue[c], p) \/ (c = b /\ p = pr)
        /\ queue'[b] # <<>> /\ (queue[b] = <<>> => Head(queue'[b]) = pr)
        /\ queue[b] # <<>> => Head(queue'[b]) = Head(queue[b])
        /\ \A c \in SyncBranch : c # b => queue'[c] = queue[c]
        /\ \A p : Startup!IsFirst(p) => Startup!IsFirst(p)'
        /\ queue[b] = <<>> => Startup!IsFirst(pr)'
    BY <1>0, <1>1, <1>2, <1>3, QueueGrows
  <1>5. Startup!TypeOK'
    <2>1. headPreserved' \subseteq SyncBranch /\ hasHeadLabel' \subseteq Number
      BY <1>0, <1>1, <1>2, <1>3 DEF Startup!TypeOK
    <2> QED
      BY <1>0, <1>1, <1>2, <1>4, <2>1 DEF Startup!TypeOK
  (* If heads are left, then this PR is one. *)
  <1>6. ASSUME NEW p \in heads, Startup!Behind("enqueue", p)
        PROVE  pr \in heads
    BY <1>0, <1>2, <1>6 DEF Startup!HeadsAreFirst, Startup!Behind
  <1>7. Startup!OnePreserves'
    <2>1. ASSUME NEW c \in SyncBranch, NEW p \in heads,
                 queue'[c] # <<>> \/ \E q \in syncSuspended : syncBase[q] = c,
                 syncBase[p] = c, Startup!Owed("enqueue", p)'
          PROVE  c \in headPreserved'
      <3>1. CASE c # b
        <4>1. queue[c] # <<>> \/ \E q \in syncSuspended : syncBase[q] = c
          BY <1>4, <2>1, <3>1
        <4> QED
          BY <1>0, <1>1, <1>2, <2>1, <4>1 DEF Startup!OnePreserves
      <3>2. CASE c = b
        <4>1. Startup!Behind("enqueue", p)
          BY <1>2, <2>1 DEF Startup!Owed
        <4>2. preserve <=> b \notin headPreserved
          BY <1>0, <1>2, <1>6, <4>1 DEF Startup!OnePreserves
        <4> QED
          BY <1>1, <3>2, <4>2
      <3> QED
        BY <3>1, <3>2
    <2>2. ~Startup!Contains(actions', "enqueue")
      BY <1>2
    <2> HIDE DEF b
    <2> QED
      BY <1>1, <1>2, <2>1, <2>2 DEF Startup!OnePreserves
  <1>8. Startup!QueuesAreTrue'
    BY <1>0, <1>2, <1>4 DEF Startup!QueuesAreTrue
  <1>9. Startup!HeadSurvives'
    <2> SUFFICES ASSUME NEW c \in SyncBranch, queue'[c] # <<>>, NEW p \in heads, syncBase[p] = c
                 PROVE  \/ Head(queue'[c]) \in heads
                        \/ \E q \in syncSuspended : syncBase[q] = c /\ q \in heads
      BY <1>1, <1>2 DEF Startup!HeadSurvives
    <2>1. CASE queue[c] # <<>>
      BY <1>0, <1>4, <2>1 DEF Startup!HeadSurvives
    <2>2. CASE queue[c] = <<>>
      <3>1. c = b /\ Head(queue'[c]) = pr
        BY <1>4, <2>2
      <3>2. CASE pr \notin heads
        <4>1. ~Startup!Owed("enqueue", p)
          BY <1>6, <3>2 DEF Startup!Owed
        <4>2. p \in trigger /\ syncBase[p] # NoBranch
          BY <1>0, <1>1, <3>1 DEF Startup!ActionsAreTrue
        <4>3. Startup!AlreadyExists(p)
          BY <1>0, <1>2, <4>1, <4>2, EmptyContains DEF Startup!NoneForgotten
        <4> QED
          BY <2>2, <4>3, EmptyContains DEF Startup!AlreadyExists
      <3> QED
        BY <3>1, <3>2
    <2> QED
      BY <2>1, <2>2
  <1>10. Startup!NoneForgotten'
    <2> SUFFICES ASSUME NEW p \in trigger, syncBase[p] # NoBranch
                 PROVE  Startup!AlreadyExists(p)' \/ Startup!Owed("enqueue", p)'
      BY <1>2 DEF Startup!NoneForgotten
    <2>1. p \in Number /\ syncBase[p] \in SyncBranch
      BY <1>0 DEF Startup!TypeOK
    <2>2. Startup!AlreadyExists(p) \/ Startup!Owed("enqueue", p)
      BY <1>0, <1>2, EmptyContains DEF Startup!NoneForgotten
    <2>3. Startup!AlreadyExists(p) \/ p = pr => Startup!AlreadyExists(p)'
      BY <1>1, <1>2, <1>4, <2>1 DEF Startup!AlreadyExists
    <2> QED
      BY <1>2, <2>2, <2>3
  <1>11. Startup!LabelsAreRemoved'
    <2> SUFFICES ASSUME failures = 0, NEW p \in label
                 PROVE  \/ Startup!IsFirst(p)' \/ Startup!Behind("unlabel", p)'
                        \/ pr' = p /\ Startup!Contains(actions', IF preserve' THEN "enqueue" ELSE "unlabel")
      BY <1>1 DEF Startup!LabelsAreRemoved
    <2>1. \/ Startup!IsFirst(p) \/ Startup!Behind("unlabel", p)
          \/ pr = p /\ Startup!Contains(actions, IF preserve THEN "enqueue" ELSE "unlabel")
      BY <1>0, <1>2, EmptyContains DEF Startup!LabelsAreRemoved
    <2>2. preserve => Startup!IsFirst(pr)'
      BY <1>1, <1>2, <1>4, PreservingIsAlone
    <2> QED
      BY <1>1, <1>2, <1>4, <2>1, <2>2
  <1>12. Startup!StatusIsReset'
    BY <1>0, <1>1, <1>2, <1>4 DEF Startup!StatusIsReset
  <1> QED
    BY <1>2, <1>5, <1>7, <1>8, <1>9, <1>10, <1>11, <1>12 DEF Startup!Invariant

LEMMA ResetStatusStateKeepsInvariant ==
    ASSUME Startup!Invariant, Startup!ResetStatusState
    PROVE  Startup!Invariant'
  <1>0. /\ Startup!TypeOK /\ Startup!OnePreserves /\ Startup!QueuesAreTrue /\ Startup!HeadSurvives
        /\ Startup!NoneForgotten /\ Startup!LabelsAreRemoved /\ Startup!StatusIsReset
        /\ Startup!ActionsAreTrue
    BY DEF Startup!Invariant
  <1>1. /\ Startup!Do("resetStatusState")
        /\ \/ /\ reported[pr] = "pending" /\ UNCHANGED <<status, reported, failures>>
           \/ /\ status' = [status EXCEPT ![pr] = "pending"] /\ failures' = failures
              /\ reported' = reported \/ reported' = [reported EXCEPT ![pr] = "pending"]
           \/ /\ failures < MaxFailures /\ failures' = failures + 1
              /\ UNCHANGED <<status, reported>>
        /\ UNCHANGED <<headPreserved, preserve, enqueued, label, queue, syncSuspended, hasHeadLabel>>
    BY DEF Startup!ResetStatusState, Startup!ReportedPending, Startup!queues
  <1>2. /\ syncPc = "execute" /\ rest = <<>> /\ pr \in Number
        /\ UNCHANGED <<syncBase, trigger, rest, syncPc, items, pr, heads, updates>>
        /\ Startup!Contains(actions, "resetStatusState") /\ actions' \in Seq(Startup!Action)
        /\ \A a : Startup!Contains(actions', a) <=> Startup!Contains(actions, a) /\ a # "resetStatusState"
        /\ \A a, p : Startup!Behind(a, p)' <=> Startup!Behind(a, p)
        /\ \A a, p : Startup!Owed(a, p)' => Startup!Owed(a, p)
        /\ \A a, p : Startup!Owed(a, p) => Startup!Owed(a, p)' \/ (a = "resetStatusState" /\ p = pr)
        /\ Startup!Phases' /\ Startup!ActionsAreTrue' /\ Startup!HeadsAreFirst'
    BY <1>1, DoMeans
  <1>3. failures' \in 0..MaxFailures /\ (failures' = 0 => failures' = failures)
    BY <1>0, <1>1, FailuresCount
  <1>4. Startup!TypeOK'
    <2>1. status' \in [Number -> {"none", "pending", "success"}] /\ reported' \in [Number -> Startup!State]
      <3>1. "pending" \in Startup!State
        BY DEF Startup!State
      <3> QED
        BY <1>0, <1>1, <3>1 DEF Startup!TypeOK
    <2> QED
      BY <1>0, <1>1, <1>2, <1>3, <2>1 DEF Startup!TypeOK
  <1>5. Startup!OnePreserves'
    BY <1>0, <1>1, <1>2 DEF Startup!OnePreserves
  <1>6. Startup!QueuesAreTrue' /\ Startup!HeadSurvives'
    BY <1>0, <1>1, <1>2, QueuesStay
  <1>7. /\ \A p : Startup!AlreadyExists(p)' <=> Startup!AlreadyExists(p)
        /\ \A p : Startup!IsFirst(p)' <=> Startup!IsFirst(p)
    BY <1>1, <1>2, QueuesStay
  <1>8. Startup!NoneForgotten'
    BY <1>0, <1>1, <1>2, <1>7 DEF Startup!NoneForgotten
  <1>9. Startup!LabelsAreRemoved'
    BY <1>0, <1>1, <1>2, <1>3, <1>7 DEF Startup!LabelsAreRemoved
  <1>10. Startup!StatusIsReset'
    <2>1. /\ status \in [Number -> {"none", "pending", "success"}] /\ reported \in [Number -> Startup!State]
          /\ failures \in Nat
      BY <1>0, SyncConstants DEF Startup!TypeOK
    <2>2. \A p \in Number : reported'[p] = "pending" => status'[p] = "pending"
      BY <1>0, <1>1, <1>2, <2>1 DEF Startup!StatusIsReset
    <2>3. failures' = 0 => status'[pr] # "success"
      BY <1>0, <1>1, <1>2, <2>1 DEF Startup!StatusIsReset
    <2>4. \A p \in Number : p # pr => status'[p] = status[p]
      BY <1>1, <2>1
    <2> QED
      BY <1>0, <1>2, <1>3, <1>7, <2>2, <2>3, <2>4 DEF Startup!StatusIsReset
  <1> QED
    BY <1>2, <1>4, <1>5, <1>6, <1>8, <1>9, <1>10 DEF Startup!Invariant

(* A worker needs a PR that is queued. *)
LEMMA WorkerMeans ==
    ASSUME Startup!Invariant, Startup!Worker, NEW b \in SyncBranch, queue[b] # <<>>
    PROVE  /\ UNCHANGED <<syncBase, trigger, rest, syncPc, items, headPreserved, pr, actions,
                          preserve, enqueued, heads, updates, failures>>
           /\ rest = <<>>
           /\ \A a, p : Startup!Behind(a, p)' <=> Startup!Behind(a, p)
           /\ \A a, p : Startup!Owed(a, p)' <=> Startup!Owed(a, p)
           /\ Startup!Phases' /\ Startup!ActionsAreTrue' /\ Startup!HeadsAreFirst'
  <1>0. Startup!Phases /\ Startup!ActionsAreTrue /\ Startup!HeadsAreFirst
    BY DEF Startup!Invariant
  <1>1. UNCHANGED <<syncBase, trigger, rest, syncPc, items, headPreserved, pr, actions,
                    preserve, enqueued, heads, updates, failures>>
    BY DEF Startup!Worker, Startup!item, Startup!history
  <1>2. ~Startup!Before
    BY <1>0 DEF Startup!Phases
  <1>3. Startup!Phases' /\ rest = <<>>
    BY <1>0, <1>1, <1>2 DEF Startup!Phases, Startup!Before
  <1>4. Startup!ActionsAreTrue' /\ Startup!HeadsAreFirst'
    BY <1>0, <1>1 DEF Startup!ActionsAreTrue, Startup!HeadsAreFirst, Startup!isQueuedHead
  <1> QED
    BY <1>1, <1>3, <1>4, OwedStays

LEMMA AddHeadLabelKeepsInvariant ==
    ASSUME Startup!Invariant, NEW q \in Number, Startup!AddHeadLabel(q)
    PROVE  Startup!Invariant'
  <1>0. /\ Startup!TypeOK /\ Startup!OnePreserves /\ Startup!QueuesAreTrue /\ Startup!HeadSurvives
        /\ Startup!NoneForgotten /\ Startup!LabelsAreRemoved /\ Startup!StatusIsReset
    BY DEF Startup!Invariant
  <1>1. /\ Startup!IsFirst(q) /\ Startup!Worker
        /\ label' = label \cup {q} /\ hasHeadLabel' = hasHeadLabel \cup {q}
        /\ UNCHANGED <<status, queue, syncSuspended, reported>>
    BY DEF Startup!AddHeadLabel, Startup!queues
  <1>2. /\ UNCHANGED <<syncBase, trigger, rest, syncPc, items, headPreserved, pr, actions,
                       preserve, enqueued, heads, updates, failures>>
        /\ \A a, p : Startup!Behind(a, p)' <=> Startup!Behind(a, p)
        /\ \A a, p : Startup!Owed(a, p)' <=> Startup!Owed(a, p)
        /\ Startup!Phases' /\ Startup!ActionsAreTrue' /\ Startup!HeadsAreFirst'
    BY <1>1, WorkerMeans DEF Startup!IsFirst
  <1>3. Startup!TypeOK'
    <2>1. label' \subseteq Number /\ hasHeadLabel' \subseteq Number
      BY <1>0, <1>1 DEF Startup!TypeOK
    <2> QED
      BY <1>0, <1>1, <1>2, <2>1 DEF Startup!TypeOK
  <1>4. Startup!OnePreserves'
    BY <1>0, <1>1, <1>2 DEF Startup!OnePreserves
  <1>5. /\ \A p : Startup!AlreadyExists(p)' <=> Startup!AlreadyExists(p)
        /\ \A p : Startup!IsFirst(p)' <=> Startup!IsFirst(p)
        /\ Startup!QueuesAreTrue' /\ Startup!HeadSurvives'
    BY <1>0, <1>1, <1>2, QueuesStay
  <1>6. Startup!NoneForgotten'
    BY <1>0, <1>2, <1>5 DEF Startup!NoneForgotten
  <1>7. Startup!LabelsAreRemoved'
    <2> SUFFICES ASSUME failures = 0, NEW p \in label'
                 PROVE  \/ Startup!IsFirst(p) \/ Startup!Contains(rest, p) \/ Startup!Behind("unlabel", p)
                        \/ pr = p /\ Startup!Contains(actions, IF preserve THEN "enqueue" ELSE "unlabel")
      BY <1>2, <1>5 DEF Startup!LabelsAreRemoved
    <2> QED
      BY <1>0, <1>1 DEF Startup!LabelsAreRemoved
  <1>8. Startup!StatusIsReset'
    BY <1>0, <1>1, <1>2, <1>5 DEF Startup!StatusIsReset
  <1> QED
    BY <1>2, <1>3, <1>4, <1>5, <1>6, <1>7, <1>8 DEF Startup!Invariant

LEMMA ReportSuccessKeepsInvariant ==
    ASSUME Startup!Invariant, NEW q \in Number, Startup!ReportSuccess(q)
    PROVE  Startup!Invariant'
  <1>0. /\ Startup!TypeOK /\ Startup!OnePreserves /\ Startup!QueuesAreTrue /\ Startup!HeadSurvives
        /\ Startup!NoneForgotten /\ Startup!LabelsAreRemoved /\ Startup!StatusIsReset
    BY DEF Startup!Invariant
  <1>1. /\ Startup!IsFirst(q) /\ Startup!Worker
        /\ status' = [status EXCEPT ![q] = "success"]
        /\ reported' = [reported EXCEPT ![q] = "success"]
        /\ UNCHANGED <<label, queue, syncSuspended, hasHeadLabel>>
    BY DEF Startup!ReportSuccess, Startup!queues
  <1>2. /\ UNCHANGED <<syncBase, trigger, rest, syncPc, items, headPreserved, pr, actions,
                       preserve, enqueued, heads, updates, failures>>
        /\ \A a, p : Startup!Behind(a, p)' <=> Startup!Behind(a, p)
        /\ \A a, p : Startup!Owed(a, p)' <=> Startup!Owed(a, p)
        /\ Startup!Phases' /\ Startup!ActionsAreTrue' /\ Startup!HeadsAreFirst'
    BY <1>1, WorkerMeans DEF Startup!IsFirst
  <1>3. /\ status \in [Number -> {"none", "pending", "success"}] /\ reported \in [Number -> Startup!State]
        /\ status' \in [Number -> {"none", "pending", "success"}] /\ reported' \in [Number -> Startup!State]
    <2>1. "success" \in Startup!State
      BY DEF Startup!State
    <2> QED
      BY <1>0, <1>1, <2>1 DEF Startup!TypeOK
  <1>4. Startup!TypeOK'
    BY <1>0, <1>1, <1>2, <1>3 DEF Startup!TypeOK
  <1>5. Startup!OnePreserves'
    BY <1>0, <1>1, <1>2 DEF Startup!OnePreserves
  <1>6. /\ \A p : Startup!AlreadyExists(p)' <=> Startup!AlreadyExists(p)
        /\ \A p : Startup!IsFirst(p)' <=> Startup!IsFirst(p)
        /\ Startup!QueuesAreTrue' /\ Startup!HeadSurvives'
    BY <1>0, <1>1, <1>2, QueuesStay
  <1>7. Startup!NoneForgotten'
    BY <1>0, <1>2, <1>6 DEF Startup!NoneForgotten
  <1>8. Startup!LabelsAreRemoved'
    BY <1>0, <1>1, <1>2, <1>6 DEF Startup!LabelsAreRemoved
  <1>9. Startup!StatusIsReset'
    <2>1. \A p \in Number : reported'[p] = "pending" => status'[p] = "pending"
      BY <1>0, <1>1, <1>3 DEF Startup!StatusIsReset
    <2>2. \A p \in Number : status'[p] = "success" => p = q \/ status[p] = "success"
      BY <1>1, <1>3
    <2> QED
      BY <1>0, <1>1, <1>2, <1>6, <2>1, <2>2 DEF Startup!StatusIsReset
  <1> QED
    BY <1>2, <1>4, <1>5, <1>6, <1>7, <1>8, <1>9 DEF Startup!Invariant

LEMMA SuspendKeepsInvariant ==
    ASSUME Startup!Invariant, NEW b \in SyncBranch, Startup!Suspend(b)
    PROVE  Startup!Invariant'
  <1>0. /\ Startup!TypeOK /\ Startup!OnePreserves /\ Startup!QueuesAreTrue /\ Startup!HeadSurvives
        /\ Startup!NoneForgotten /\ Startup!LabelsAreRemoved /\ Startup!StatusIsReset
    BY DEF Startup!Invariant
  <1>1. PICK h : h = Head(queue[b])
    OBVIOUS
  <1>2. /\ queue[b] # <<>> /\ Startup!Worker
        /\ queue' = [queue EXCEPT ![b] = Tail(@)]
        /\ syncSuspended' = syncSuspended \cup {h}
        /\ label' = label \ {h} /\ hasHeadLabel' = hasHeadLabel \ {h}
        /\ status' = [status EXCEPT ![h] = "pending"]
        /\ reported' = [reported EXCEPT ![h] = "left"]
    BY <1>1 DEF Startup!Suspend
  <1>3. /\ UNCHANGED <<syncBase, trigger, rest, syncPc, items, headPreserved, pr, actions,
                       preserve, enqueued, heads, updates, failures>>
        /\ \A a, p : Startup!Behind(a, p)' <=> Startup!Behind(a, p)
        /\ \A a, p : Startup!Owed(a, p)' <=> Startup!Owed(a, p)
        /\ Startup!Phases' /\ Startup!ActionsAreTrue' /\ Startup!HeadsAreFirst'
    BY <1>2, WorkerMeans
  <1>4. /\ queue \in [SyncBranch -> Seq(Number)]
        /\ \A c \in SyncBranch : Startup!IsInjective(queue[c])
        /\ queue'[b] = Tail(queue[b]) /\ \A c \in SyncBranch : c # b => queue'[c] = queue[c]
    BY <1>0, <1>2 DEF Startup!TypeOK
  <1>5. /\ h \in Number /\ queue'[b] \in Seq(Number) /\ Startup!IsInjective(queue'[b])
        /\ \A p : Startup!Contains(queue[b], p) <=> p = h \/ Startup!Contains(queue'[b], p)
    <2>1. queue[b] \in Seq(Number)
      BY <1>4
    <2> QED
      BY <1>1, <1>2, <1>4, <2>1, TailContains
  <1>6. syncBase[h] = b
    BY <1>0, <1>5 DEF Startup!QueuesAreTrue
  <1>7. queue' \in [SyncBranch -> Seq(Number)] /\ \A c \in SyncBranch : Startup!IsInjective(queue'[c])
    <2>1. \A c \in SyncBranch : queue'[c] \in Seq(Number) /\ Startup!IsInjective(queue'[c])
      BY <1>4, <1>5
    <2> QED
      BY <1>2, <1>4, <2>1
  <1>8. /\ status \in [Number -> {"none", "pending", "success"}] /\ reported \in [Number -> Startup!State]
        /\ status' \in [Number -> {"none", "pending", "success"}] /\ reported' \in [Number -> Startup!State]
    <2>1. "left" \in Startup!State
      BY DEF Startup!State
    <2> QED
      BY <1>0, <1>2, <2>1 DEF Startup!TypeOK
  <1>9. Startup!TypeOK'
    <2>1. label' \subseteq Number /\ hasHeadLabel' \subseteq Number /\ syncSuspended' \subseteq Number
      BY <1>0, <1>2, <1>5 DEF Startup!TypeOK
    <2> QED
      BY <1>0, <1>3, <1>7, <1>8, <2>1 DEF Startup!TypeOK
  <1>10. Startup!OnePreserves'
    <2>1. \A c \in SyncBranch : queue'[c] # <<>> \/ (\E q \in syncSuspended' : syncBase[q] = c)
                                  => queue[c] # <<>> \/ \E q \in syncSuspended : syncBase[q] = c
      BY <1>2, <1>4, <1>6
    <2> QED
      BY <1>0, <1>3, <2>1 DEF Startup!OnePreserves
  <1>11. Startup!QueuesAreTrue'
    BY <1>0, <1>3, <1>4, <1>5 DEF Startup!QueuesAreTrue
  <1>12. Startup!HeadSurvives'
    <2> SUFFICES ASSUME NEW c \in SyncBranch, queue'[c] # <<>>, NEW p \in heads, syncBase[p] = c
                 PROVE  \/ Head(queue'[c]) \in heads
                        \/ \E q \in syncSuspended' : syncBase[q] = c /\ q \in heads
      BY <1>3 DEF Startup!HeadSurvives
    <2>1. CASE c # b
      BY <1>0, <1>2, <1>4, <2>1 DEF Startup!HeadSurvives
    <2>2. CASE c = b
      BY <1>0, <1>1, <1>2, <1>6, <2>2 DEF Startup!HeadSurvives
    <2> QED
      BY <2>1, <2>2
  <1>13. Startup!NoneForgotten'
    <2>1. ASSUME NEW p \in Number, syncBase[p] \in SyncBranch, Startup!AlreadyExists(p)
          PROVE  Startup!AlreadyExists(p)'
      BY <1>2, <1>3, <1>4, <1>5, <2>1 DEF Startup!AlreadyExists
    <2>2. \A p \in trigger : p \in Number /\ (syncBase[p] # NoBranch => syncBase[p] \in SyncBranch)
      BY <1>0 DEF Startup!TypeOK
    <2> QED
      BY <1>0, <1>3, <2>1, <2>2 DEF Startup!NoneForgotten
  <1>14. \A p : Startup!IsFirst(p) /\ p # h => Startup!IsFirst(p)'
    BY <1>1, <1>4 DEF Startup!IsFirst
  <1>15. Startup!LabelsAreRemoved'
    BY <1>0, <1>2, <1>3, <1>14 DEF Startup!LabelsAreRemoved
  <1>16. Startup!StatusIsReset'
    <2>1. \A p \in Number : reported'[p] = "pending" => status'[p] = "pending"
      BY <1>0, <1>2, <1>5, <1>8 DEF Startup!StatusIsReset
    <2>2. \A p \in Number : status'[p] = "success" => p # h /\ status[p] = "success"
      BY <1>2, <1>8
    <2> QED
      BY <1>0, <1>3, <1>14, <2>1, <2>2 DEF Startup!StatusIsReset
  <1> QED
    BY <1>3, <1>9, <1>10, <1>11, <1>12, <1>13, <1>15, <1>16 DEF Startup!Invariant

LEMMA SyncNextKeepsInvariant ==
    ASSUME Startup!Invariant, Startup!Next
    PROVE  Startup!Invariant'
  <1>1. CASE Startup!List
    BY <1>1, ListKeepsInvariant
  <1>2. CASE Startup!ListFails
    BY <1>2, ListFailsKeepsInvariant
  <1>3. CASE Startup!Execute
    BY <1>3, NextItemKeepsInvariant, UnlabelKeepsInvariant, EnqueueFailsKeepsInvariant,
       EnqueueAgainKeepsInvariant, EnqueueKeepsInvariant, ResetStatusStateKeepsInvariant,
       FinishKeepsInvariant DEF Startup!Execute
  <1>4. CASE \E p \in Number : Startup!Update(p)
    BY <1>4, UpdateKeepsInvariant
  <1>5. CASE Startup!Report
    BY <1>5, AddHeadLabelKeepsInvariant, ReportSuccessKeepsInvariant DEF Startup!Report
  <1>6. CASE \E b \in SyncBranch : Startup!Suspend(b)
    BY <1>6, SuspendKeepsInvariant
  <1> QED
    BY <1>1, <1>2, <1>3, <1>4, <1>5, <1>6 DEF Startup!Next

(* When the synchronization is over, nothing is owed any more. *)
LEMMA InvariantImpliesSync ==
    ASSUME Startup!Invariant
    PROVE  QueuesSurvive /\ OnlyFirstShows
  <1>0. /\ Startup!TypeOK /\ Startup!Phases /\ Startup!HeadSurvives
        /\ Startup!NoneForgotten /\ Startup!LabelsAreRemoved /\ Startup!StatusIsReset
    BY DEF Startup!Invariant
  <1>1. ASSUME syncPc = "done"
        PROVE  /\ \A p : ~Startup!Contains(rest, p) /\ \A a : ~Startup!Contains(actions, a)
               /\ \A a, p : ~Startup!Behind(a, p) /\ ~Startup!Owed(a, p)
    <2>1. rest = <<>> /\ actions = <<>> /\ items = <<>>
      BY <1>0, <1>1 DEF Startup!Phases, Startup!Before
    <2>2. DOMAIN items = {}
      BY <2>1
    <2> QED
      BY <2>1, <2>2, EmptyContains DEF Startup!Behind, Startup!Owed
  <1>2. Startup!AllEnqueued
    BY <1>0, <1>1 DEF Startup!AllEnqueued, Startup!NoneForgotten
  <1>3. Startup!OnlyFirstShows
    <2> SUFFICES ASSUME syncPc = "done", failures = 0,
                        NEW p \in label \cup {q \in Number : status[q] = "success"}
                 PROVE  Startup!IsFirst(p)
      BY DEF Startup!OnlyFirstShows
    <2>1. CASE p \in label
      BY <1>0, <1>1, <2>1 DEF Startup!LabelsAreRemoved
    <2>2. CASE p \in Number /\ status[p] = "success"
      BY <1>0, <1>1, <2>2 DEF Startup!StatusIsReset
    <2> QED
      BY <2>1, <2>2
  <1> QED
    BY <1>0, <1>2, <1>3 DEF QueuesSurvive, OnlyFirstShows

LEMMA SyncInvariantHolds == ProgramSpec => []Startup!Invariant
  <1>1. ProgramInit => Startup!Invariant
    BY InitSyncInvariant DEF ProgramInit
  <1>2. Startup!Invariant /\ [ProgramNext]_allVars => Startup!Invariant'
    <2> SUFFICES ASSUME Startup!Invariant, [ProgramNext]_allVars
                 PROVE  Startup!Invariant'
      OBVIOUS
    <2>1. Startup!Next \/ UNCHANGED syncVars
      BY DEF ProgramNext, allVars
    <2> QED
      BY <2>1, SyncNextKeepsInvariant, FinishKeepsInvariant
  <1> QED
    BY <1>1, <1>2, PTL DEF ProgramSpec

(* However a former process stopped, whatever is updated between the pages,   *)
(* whichever requests fail and however the workers interleave: no PR with a   *)
(* trigger label is forgotten, and one that was first before is first again,  *)
(* unless it was suspended since (sync.go:41, listprs.go:80); for any number  *)
(* of PRs, branches and failures and any size of the pages.                   *)
THEOREM QueuesAreRebuilt == ProgramSpec => []QueuesSurvive
  BY SyncInvariantHolds, InvariantImpliesSync, PTL

(* If no request failed, then after the synchronization only first PRs have   *)
(* the head label or are shown as ready to be merged (sync.go:42).            *)
THEOREM FormerIsCleanedUp == ProgramSpec => []OnlyFirstShows
  BY SyncInvariantHolds, InvariantImpliesSync, PTL

-----------------------------------------------------------------------------
(* Retryer. *)

USE RetryerAssumption

LEMMA WaitsAreNumbers == Wait \subseteq Nat /\ Off \notin Wait /\ 0 \in Wait
  BY DEF Wait, BackOff

(* A back-off takes time, and not more than the longest interval allows. *)
LEMMA BackOffIsWait ==
    ASSUME NEW i \in 1..MaxInterval, NEW b \in BackOff(i)
    PROVE  b \in Wait /\ b > 0 /\ b # Off
  <1>1. i \in Nat /\ i \div 2 \in Nat /\ 2 * (i \div 2) <= i /\ i <= 2 * (i \div 2) + 1
    OBVIOUS
  <1>2. /\ MaxInterval \div 2 \in Nat /\ 2 * (MaxInterval \div 2) <= MaxInterval
        /\ MaxInterval <= 2 * (MaxInterval \div 2) + 1
    OBVIOUS
  <1>3. b \in Nat /\ b >= i - (i \div 2) /\ b <= i + (i \div 2)
    BY <1>1 DEF BackOff
  <1>4. b > 0
    BY <1>1, <1>3
  <1>5. b <= MaxInterval + (MaxInterval \div 2)
    BY <1>1, <1>2, <1>3
  <1>6. CASE b <= MaxInterval
    BY <1>3, <1>4, <1>6 DEF Wait
  <1>7. CASE b > MaxInterval
    BY <1>2, <1>3, <1>4, <1>5, <1>7 DEF Wait, BackOff
  <1> QED
    BY <1>3, <1>6, <1>7

(* Halves are rounded down. *)
LEMMA HalfOf ==
    ASSUME NEW k \in Nat
    PROVE  k \div 2 \in Nat /\ 2 * (k \div 2) <= k /\ k <= 2 * (k \div 2) + 1
  OBVIOUS

LEMMA LongerIsInterval ==
    ASSUME NEW i \in 1..MaxInterval
    PROVE  Longer(i) \in 1..MaxInterval
  <1>1. CASE 3 * i >= 2 * MaxInterval
    BY <1>1 DEF Longer
  <1>2. CASE 3 * i < 2 * MaxInterval
    <2>1. (3 * i) \div 2 \in Nat /\ 2 * ((3 * i) \div 2) <= 3 * i /\ 3 * i <= 2 * ((3 * i) \div 2) + 1
      <3>1. 3 * i \in Nat
        OBVIOUS
      <3> QED
        BY <3>1, HalfOf
    <2> QED
      BY <1>2, <2>1 DEF Longer
  <1> QED
    BY <1>1, <1>2

LEMMA SoonerIsBounded ==
    ASSUME NEW n \in Nat, NEW t \in 0..n
    PROVE  Sooner(t) \in 0..n
  BY DEF Sooner

LEMMA SoonerIsWait ==
    ASSUME NEW t \in Wait \cup {Off}
    PROVE  Sooner(t) \in Wait \cup {Off}
  <1>1. CASE t = Off \/ t = 0
    BY <1>1 DEF Sooner
  <1>2. CASE t # Off /\ t # 0
    <2>1. t \in Nat /\ Sooner(t) = t - 1 /\ t - 1 \in Nat
      BY <1>2, WaitsAreNumbers DEF Sooner
    <2>2. t - 1 \in Wait
      <3>1. CASE t <= MaxInterval
        BY <2>1, <3>1 DEF Wait
      <3>2. CASE t > MaxInterval /\ t \in 0..MaxAfter
        BY <2>1, <3>2 DEF Wait
      <3>3. CASE t > MaxInterval /\ t \notin 0..MaxAfter
        <4>1. t \in BackOff(MaxInterval)
          BY <1>2, <2>1, <3>3 DEF Wait
        <4>2. MaxInterval \div 2 \in Nat
          OBVIOUS
        <4>3. CASE t - 1 = MaxInterval
          BY <4>3 DEF Wait
        <4>4. CASE t - 1 > MaxInterval
          BY <2>1, <4>1, <4>2, <4>4 DEF Wait, BackOff
        <4> QED
          BY <2>1, <3>3, <4>3, <4>4
      <3> QED
        BY <2>1, <3>1, <3>2, <3>3
    <2> QED
      BY <2>1, <2>2
  <1> QED
    BY <1>1, <1>2

LEMMA InitInvariant == Init => Invariant
  <1> SUFFICES ASSUME Init PROVE Invariant
    OBVIOUS
  <1>1. TypeOK
    <2>1. /\ 0 \in 0..DefTimeout /\ 0 \in 0..MaxAfter /\ 0 \in Nat
          /\ LibraryInterval \in 1..MaxInterval
      OBVIOUS
    <2> QED
      BY <2>1, Zenon DEF Init, TypeOK
  <1>2. ASSUME NEW r \in Caller
        PROVE  pc[r] # "select" /\ ~(more[r] > 0)
    <2>1. pc[r] = "idle" /\ more[r] = 0
      BY DEF Init
    <2> QED
      BY <2>1
  <1> QED
    BY <1>1, <1>2 DEF Init, Invariant

LEMMA RunInvariant ==
    ASSUME Invariant, NEW r \in Caller, Run(r)
    PROVE  Invariant'
  BY WaitsAreNumbers DEF Invariant, TypeOK, Run, Ended, Done

LEMMA TimerFiresInvariant ==
    ASSUME Invariant, NEW r \in Caller, TimerFires(r)
    PROVE  Invariant'
  <1>1. more[r] = 0
    BY DEF Invariant, TypeOK, TimerFires
  <1>2. TypeOK'
    BY DEF Invariant, TypeOK, TimerFires, context
  <1>3. ASSUME NEW q \in Caller, q # r
        PROVE  /\ pc'[q] = pc[q] /\ timer'[q] = timer[q] /\ more'[q] = more[q]
               /\ Ended(q)' = Ended(q) /\ after'[q] = after[q]
    BY <1>3 DEF Invariant, TypeOK, TimerFires, Ended, Done, context
  <1>4. /\ pc'[r] = "call" /\ Ended(r)' = Ended(r)
        /\ more'[r] = IF Ended(r) THEN 1 ELSE 0
    BY <1>1 DEF Invariant, TypeOK, TimerFires, Ended, Done, context
  <1> QED
    BY <1>2, <1>3, <1>4 DEF Invariant, TimerFires

LEMMA ReturnInvariant ==
    ASSUME Invariant, NEW r \in Caller, Return(r), UNCHANGED closed
    PROVE  Invariant'
  BY DEF Invariant, TypeOK, Return, Ended, Done, context

(* The next call waits until it is allowed, and is not made at once. *)
LEMMA RetryInvariant ==
    ASSUME Invariant, NEW r \in Caller, Retry(r)
    PROVE  Invariant'
  <1>1. PICK t \in 0..MaxAfter :
          /\ RetryableError(r, t)
          /\ \/ t > 0 /\ timer' = [timer EXCEPT ![r] = t] /\ UNCHANGED interval
             \/ t = 0 /\ NextBackOff(r)
    BY DEF Retry
  <1>2. PICK w \in Wait :
          /\ timer' = [timer EXCEPT ![r] = w]
          /\ w > 0 /\ w >= t /\ w # Off
    <2>1. CASE t > 0 /\ timer' = [timer EXCEPT ![r] = t]
      <3>1. t \in Wait /\ t # Off /\ t > 0 /\ t >= t
        BY <2>1 DEF Wait
      <3> QED
        BY <2>1, <3>1
    <2>2. CASE t = 0 /\ NextBackOff(r)
      <3>1. PICK b \in BackOff(interval[r]) : timer' = [timer EXCEPT ![r] = b]
        BY <2>2 DEF NextBackOff
      <3>2. interval[r] \in 1..MaxInterval
        BY DEF Invariant, TypeOK
      <3>3. b \in Wait /\ b > 0 /\ b # Off
        BY <3>2, BackOffIsWait
      <3>4. b >= t
        BY <2>2, <3>3, WaitsAreNumbers
      <3> QED
        BY <2>2, <3>1, <3>3, <3>4
    <2> QED
      BY <1>1, <2>1, <2>2
  <1>3. interval' \in [Caller -> 1..MaxInterval]
    BY <1>1, LongerIsInterval DEF NextBackOff, Invariant, TypeOK
  <1>4. TypeOK'
    BY <1>1, <1>2, <1>3 DEF RetryableError, Invariant, TypeOK, context
  <1>5. ASSUME NEW q \in Caller, q # r
        PROVE  /\ pc'[q] = pc[q] /\ timer'[q] = timer[q] /\ more'[q] = more[q]
               /\ Ended(q)' = Ended(q) /\ after'[q] = after[q]
    BY <1>1, <1>2, <1>5 DEF RetryableError, Invariant, TypeOK, Ended, Done, context
  <1>6. /\ timer'[r] = w /\ after'[r] = t /\ more'[r] = more[r] /\ Ended(r)' = Ended(r)
        /\ pc'[r] = "select"
    BY <1>1, <1>2 DEF RetryableError, Invariant, TypeOK, Ended, Done, context
  <1> QED
    BY <1>1, <1>2, <1>4, <1>5, <1>6, WaitsAreNumbers DEF Invariant, RetryableError

LEMMA CancelInvariant ==
    ASSUME Invariant, NEW r \in Caller, Cancel(r)
    PROVE  Invariant'
  BY DEF Invariant, TypeOK, Cancel, Ended, Done

LEMMA StopInvariant ==
    ASSUME Invariant, Stop
    PROVE  Invariant'
  BY DEF Invariant, TypeOK, Stop, Ended, Done, context

LEMMA TickInvariant ==
    ASSUME Invariant, Tick
    PROVE  Invariant'
  <1>1. TypeOK'
    <2>1. /\ \A r \in Caller : /\ Sooner(timer[r]) \in Wait \cup {Off}
                                /\ Sooner(deadline[r]) \in 0..DefTimeout
                                /\ Sooner(after[r]) \in 0..MaxAfter
      <3>1. \A r \in Caller : Sooner(timer[r]) \in Wait \cup {Off}
        BY SoonerIsWait DEF Invariant, TypeOK
      <3>2. \A r \in Caller : /\ Sooner(deadline[r]) \in 0..DefTimeout
                               /\ Sooner(after[r]) \in 0..MaxAfter
        BY SoonerIsBounded DEF Invariant, TypeOK
      <3> QED
        BY <3>1, <3>2
    <2> QED
      BY <2>1 DEF Tick, Invariant, TypeOK
  <1>2. ASSUME NEW r \in Caller
        PROVE  /\ pc'[r] = "select" => timer'[r] # Off /\ timer'[r] >= after'[r]
               /\ more'[r] > 0 => /\ Ended(r)' /\ more'[r] = 1
                                  /\ pc'[r] = "select" => timer'[r] # 0
    <2>1. /\ pc'[r] = pc[r] /\ more'[r] = more[r]
          /\ timer'[r] = Sooner(timer[r]) /\ after'[r] = Sooner(after[r])
          /\ deadline'[r] = Sooner(deadline[r]) /\ cancelled'[r] = cancelled[r]
          /\ UNCHANGED <<closed, stopped>>
      BY DEF Tick
    <2>2. CASE pc[r] = "select"
      <3>1. timer[r] \in Nat /\ timer[r] # 0 /\ timer[r] >= after[r] /\ after[r] \in Nat
            /\ ~Done(r) /\ ~stopped /\ timer[r] # Off
        <4>1. timer[r] \in Wait /\ timer[r] # Off /\ timer[r] >= after[r] /\ after[r] \in Nat
          BY <2>2 DEF Invariant, TypeOK
        <4>2. timer[r] # 0 /\ ~Done(r) /\ ~closed /\ closed = stopped
          BY <2>2 DEF Tick, Ready, Invariant
        <4> QED
          BY <4>1, <4>2, WaitsAreNumbers
      <3>2. ~(more[r] > 0)
        BY <3>1 DEF Invariant, Ended
      <3>3. after[r] # Off
        BY <3>1
      <3>4. timer'[r] \in Nat /\ timer'[r] >= after'[r]
        BY <2>1, <3>1, <3>3 DEF Sooner
      <3> QED
        BY <2>1, <3>2, <3>4
    <2>3. CASE pc[r] # "select"
      <3>1. Ended(r) => Ended(r)'
        BY <2>1 DEF Ended, Done, Sooner, Invariant, TypeOK
      <3> QED
        BY <2>1, <2>3, <3>1 DEF Invariant
    <2> QED
      BY <2>2, <2>3
  <1>3. (closed = stopped)'
    BY DEF Tick, Invariant
  <1> QED
    BY <1>1, <1>2, <1>3 DEF Invariant

LEMMA StepInvariant ==
    ASSUME Invariant, [Next]_vars
    PROVE  Invariant'
  <1>1. ASSUME NEW r \in Caller, Run(r) \/ Step(r) \/ Cancel(r)
        PROVE  Invariant'
    BY <1>1, RunInvariant, TimerFiresInvariant, ReturnInvariant, RetryInvariant, CancelInvariant
       DEF Step, ContextDone, Shutdown, FnReturns
  <1>2. CASE UNCHANGED vars
    BY <1>2 DEF vars, context, Invariant, TypeOK, Ended, Done
  <1> QED
    BY <1>1, <1>2, StopInvariant, TickInvariant DEF Next

THEOREM InvariantHolds == Spec => []Invariant
  BY InitInvariant, StepInvariant, PTL DEF Spec

(* TypeOK: timers and intervals stay within their bounds. *)
THEOREM TypeCorrect == Spec => []TypeOK
  BY InvariantHolds, PTL DEF Invariant

(* At most one call of fn begins after the context ended or Stop() was called. *)
THEOREM CalledOnceMore == Spec => []OnceMore
  <1>1. ASSUME Invariant, NEW r \in Caller
        PROVE  more[r] <= 1
    <2>1. more[r] \in Nat /\ (more[r] > 0 => more[r] = 1)
      BY <1>1 DEF Invariant, TypeOK
    <2> QED
      BY <2>1
  <1>2. Invariant => OnceMore
    BY <1>1 DEF OnceMore
  <1> QED
    BY <1>2, InvariantHolds, PTL

(* No retry before After, as long as no time passes while a select has a ready *)
(* branch (Tick): retryer.go:85-109.                                           *)
THEOREM RetriesWait == Spec => NotBeforeAfter
  <1>1. ASSUME Invariant, [Next]_vars,
               NEW r \in Caller, pc[r] = "select", pc'[r] = "call"
        PROVE  after[r] = 0
    <2>1. timer[r] = 0
      BY <1>1 DEF Next, vars, context, Run, Step, TimerFires, ContextDone, Shutdown, FnReturns,
                  Return, Retry, RetryableError, Cancel, Stop, Tick, Invariant, TypeOK
    <2> QED
      BY <1>1, <2>1 DEF Invariant, TypeOK
  <1>2. Invariant /\ [Next]_vars =>
          [\A r \in Caller : pc[r] = "select" /\ pc'[r] = "call" => after[r] = 0]_vars
    BY <1>1
  <1> QED
    BY <1>2, InvariantHolds, PTL DEF Spec, NotBeforeAfter

=============================================================================

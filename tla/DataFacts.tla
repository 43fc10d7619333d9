------------------------------ MODULE DataFacts -----------------------------
(***************************************************************************)
(* What several proofs need: the least element of a set of natural numbers, *)
(* which the models CHOOSE (the lowest free descriptor, the first slot that *)
(* fits), induction, and sequences, item by item.                           *)
(***************************************************************************)
EXTENDS Integers, Sequences, WellFoundedInduction, TLAPS

Less == {ss \in Nat \X Nat : ss[1] < ss[2]}

(* There is no infinite descent among the natural numbers.                  *)
LEMMA LessIsWellFounded == IsWellFoundedOn(Less, Nat)
  BY NatLessThanWellFounded DEF OpToRel, Less

(* A set of natural numbers that is not empty has a least element.          *)
LEMMA LeastExists ==
  ASSUME NEW S \in SUBSET Nat, S # {}
  PROVE  \E x \in S : \A y \in S : x <= y
  <1>1. PICK x \in S : \A y \in S : <<y, x>> \notin Less
    BY LessIsWellFounded, WFMin
  <1>2. \A y \in S : y < x => <<y, x>> \in Less
    <2>1. \A ss \in Nat \X Nat : ss[1] < ss[2] => ss \in Less
      BY DEF Less
    <2>2. ASSUME NEW y \in S, y < x PROVE <<y, x>> \in Less
      <3>1. <<y, x>> \in Nat \X Nat
        OBVIOUS
      <3>2. <<y, x>>[1] = y /\ <<y, x>>[2] = x
        OBVIOUS
      <3>3. <<y, x>>[1] < <<y, x>>[2]
        BY <2>2, <3>2
      <3>. HIDE DEF Less
      <3>. QED BY <2>1, <3>1, <3>3, Zenon
    <2>. QED BY <2>2, Zenon
  <1>3. \A y \in S : ~(y < x)
    BY <1>1, <1>2, Zenon
  <1>. QED BY <1>3

(* The operator that is chosen by being least.                              *)
LEMMA LeastChosen ==
  ASSUME NEW S \in SUBSET Nat, S # {}
  PROVE  /\ (CHOOSE x \in S : \A y \in S : x <= y) \in S
         /\ \A z \in S : (CHOOSE x \in S : \A y \in S : x <= y) <= z
  BY LeastExists

(* And the one that is chosen by being greatest.                            *)
LEMMA GreatestChosen ==
  ASSUME NEW n \in Nat, NEW S \in SUBSET (0..n), S # {}
  PROVE  /\ (CHOOSE x \in S : \A y \in S : x >= y) \in S
         /\ \A z \in S : (CHOOSE x \in S : \A y \in S : x >= y) >= z
  <1> DEFINE T == {n - x : x \in S}
  <1>1. T \in SUBSET Nat /\ T # {}
    <2>1. \A x \in S : x \in 0..n /\ n - x \in Nat
      OBVIOUS
    <2>. QED BY <2>1
  <1>2. PICK z \in T : \A y \in T : z <= y
    BY <1>1, LeastExists
  <1>3. \E x \in S : \A y \in S : x >= y
    <2>1. PICK x \in S : z = n - x
      BY <1>2
    <2>2. ASSUME NEW y \in S PROVE x >= y
      <3>1. n - x <= n - y
        BY <1>2, <2>1
      <3>. QED BY <3>1
    <2>. QED BY <2>2
  <1>. QED BY <1>3

(* Induction, for a set instead of a predicate.                             *)
LEMMA SetInduction ==
  ASSUME NEW S, 0 \in S, \A n \in Nat : n \in S => n + 1 \in S
  PROVE  Nat \subseteq S
  <1> SUFFICES ASSUME Nat \ S # {} PROVE FALSE
    OBVIOUS
  <1>1. PICK m \in Nat \ S : \A k \in Nat \ S : m <= k
    BY LeastExists
  <1>2. m # 0
    BY <1>1
  <1>3. m - 1 \in Nat /\ m - 1 \in S
    BY <1>1, <1>2
  <1>. QED BY <1>1, <1>3

-----------------------------------------------------------------------------
(* A concatenation holds first the one sequence, then the other.            *)
LEMMA Concats ==
  ASSUME NEW S, NEW u \in Seq(S), NEW w \in Seq(S)
  PROVE  /\ u \o w \in Seq(S) /\ Len(u \o w) = Len(u) + Len(w)
         /\ \A k \in 1..Len(u) : (u \o w)[k] = u[k]
         /\ \A k \in (Len(u) + 1)..(Len(u) + Len(w)) : (u \o w)[k] = w[k - Len(u)]
  OBVIOUS

(* Sequences with the same items are the same.                              *)
LEMMA SameItems ==
  ASSUME NEW S, NEW T, NEW u \in Seq(S), NEW w \in Seq(T),
         Len(u) = Len(w), \A k \in 1..Len(w) : u[k] = w[k]
  PROVE  u = w
  OBVIOUS

(* Sequences that begin with the same items have the same prefix; a         *)
(* function on the first numbers is a sequence.                             *)
LEMMA SamePrefix ==
  ASSUME NEW S, NEW T, NEW u \in Seq(S), NEW w \in Seq(T), NEW n \in Nat,
         n <= Len(u), n <= Len(w), \A k \in 1..n : u[k] = w[k]
  PROVE  SubSeq(u, 1, n) = SubSeq(w, 1, n)
  OBVIOUS

LEMMA ListIsSequence ==
  ASSUME NEW S, NEW n \in Nat, NEW f \in [1..n -> S]
  PROVE  f \in Seq(S) /\ Len(f) = n
  OBVIOUS

(* An item put behind the first i moves the ones behind it.                 *)
Insertion(s, i, x) == SubSeq(s, 1, i) \o <<x>> \o SubSeq(s, i + 1, Len(s))

Inserted(t, s, i, x) ==
  /\ Len(t) = Len(s) + 1 /\ t[i + 1] = x
  /\ \A k \in 1..i : t[k] = s[k]
  /\ \A k \in (i + 2)..(Len(s) + 1) : t[k] = s[k - 1]

LEMMA Insertions ==
  ASSUME NEW S, NEW s \in Seq(S), NEW i \in 0..Len(s), NEW x \in S
  PROVE  Insertion(s, i, x) \in Seq(S) /\ Inserted(Insertion(s, i, x), s, i, x)
  <1> DEFINE t == Insertion(s, i, x)
             n == Len(s)
             u == SubSeq(s, 1, i)
             w == SubSeq(s, i + 1, n)
             y == u \o <<x>>
  <1>1. n \in Nat /\ i \in Nat /\ i <= n
    OBVIOUS
  <1>2. u \in Seq(S) /\ Len(u) = i /\ \A k \in 1..i : u[k] = s[k]
    OBVIOUS
  <1>3. w \in Seq(S) /\ Len(w) = n - i /\ \A k \in 1..(n - i) : w[k] = s[i + k]
    OBVIOUS
  <1>4. t = y \o w
    BY DEF Insertion
  <1>. HIDE DEF n, t, u, w
  <1>5. /\ y \in Seq(S) /\ Len(y) = i + 1 /\ y[i + 1] = x
        /\ \A k \in 1..i : y[k] = u[k]
    BY <1>1, <1>2
  <1>. HIDE DEF y
  <1>6. /\ y \o w \in Seq(S) /\ Len(y \o w) = n + 1
        /\ \A k \in 1..(i + 1) : (y \o w)[k] = y[k]
        /\ \A k \in (i + 2)..(n + 1) : (y \o w)[k] = w[k - (i + 1)]
    <2>1. /\ y \o w \in Seq(S) /\ Len(y \o w) = Len(y) + Len(w)
          /\ \A k \in 1..Len(y) : (y \o w)[k] = y[k]
          /\ \A k \in (Len(y) + 1)..(Len(y) + Len(w)) : (y \o w)[k] = w[k - Len(y)]
      BY <1>3, <1>5, Concats
    <2>2. Len(y) + Len(w) = n + 1 /\ Len(y) + 1 = i + 2
      BY <1>1, <1>3, <1>5
    <2>. QED BY <1>5, <2>1, <2>2
  <1>7. \A k \in (i + 2)..(n + 1) : k - (i + 1) \in 1..(n - i) /\ i + (k - (i + 1)) = k - 1
    BY <1>1
  <1>8. \A k \in (i + 2)..(n + 1) : t[k] = s[k - 1]
    BY <1>3, <1>4, <1>6, <1>7
  <1>9. i + 1 \in 1..(i + 1) /\ \A k \in 1..i : k \in 1..(i + 1)
    BY <1>1
  <1>. QED BY <1>2, <1>4, <1>5, <1>6, <1>8, <1>9 DEF n, t, Inserted

(* Without the item behind the first i the ones behind it move.             *)
Removal(s, i) == SubSeq(s, 1, i) \o SubSeq(s, (i + 1) + 1, Len(s))

Removed(t, s, i) ==
  /\ Len(t) = Len(s) - 1
  /\ \A k \in 1..i : t[k] = s[k]
  /\ \A k \in (i + 1)..(Len(s) - 1) : t[k] = s[k + 1]

LEMMA Removals ==
  ASSUME NEW S, NEW s \in Seq(S), NEW i \in Nat, i < Len(s)
  PROVE  Removal(s, i) \in Seq(S) /\ Removed(Removal(s, i), s, i)
  <1> DEFINE t == Removal(s, i)
             n == Len(s)
             u == SubSeq(s, 1, i)
             w == SubSeq(s, (i + 1) + 1, n)
  <1>1. n \in Nat /\ i <= n - 1
    OBVIOUS
  <1>2. u \in Seq(S) /\ Len(u) = i /\ \A k \in 1..i : u[k] = s[k]
    OBVIOUS
  <1>3. /\ w \in Seq(S) /\ Len(w) = n - i - 1
        /\ \A k \in 1..(n - i - 1) : w[k] = s[i + 1 + k]
    OBVIOUS
  <1>4. t = u \o w
    BY DEF Removal
  <1>. HIDE DEF n, t, u, w
  <1>5. /\ t \in Seq(S) /\ Len(t) = n - 1
        /\ \A k \in 1..i : t[k] = u[k]
        /\ \A k \in (i + 1)..(n - 1) : t[k] = w[k - i]
    <2>1. /\ t \in Seq(S) /\ Len(t) = Len(u) + Len(w)
          /\ \A k \in 1..Len(u) : t[k] = u[k]
          /\ \A k \in (Len(u) + 1)..(Len(u) + Len(w)) : t[k] = w[k - Len(u)]
      <3>1. u \in Seq(S) /\ w \in Seq(S)
        BY <1>2, <1>3
      <3>2. /\ u \o w \in Seq(S) /\ Len(u \o w) = Len(u) + Len(w)
            /\ \A k \in 1..Len(u) : (u \o w)[k] = u[k]
            /\ \A k \in (Len(u) + 1)..(Len(u) + Len(w)) : (u \o w)[k] = w[k - Len(u)]
        BY <3>1, Concats
      <3>. QED BY <1>4, <3>2, Zenon
    <2>2. Len(u) + Len(w) = n - 1
      BY <1>1, <1>2, <1>3
    <2>. QED BY <1>2, <2>1, <2>2
  <1>6. \A k \in (i + 1)..(n - 1) : k - i \in 1..(n - i - 1) /\ i + 1 + (k - i) = k + 1
    BY <1>1
  <1>7. \A k \in (i + 1)..(n - 1) : t[k] = s[k + 1]
    BY <1>3, <1>5, <1>6
  <1>. QED BY <1>2, <1>5, <1>7 DEF n, t, Removed
=============================================================================

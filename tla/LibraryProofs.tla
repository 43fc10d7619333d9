---------------------------- MODULE LibraryProofs ---------------------------
(***************************************************************************)
(* The growable array, for every capacity and any number of items, and the  *)
(* string, for every alphabet and capacity and texts of any length.         *)
(***************************************************************************)
EXTENDS VArray, VStringCalls, DataFacts, FiniteSetTheorems

-----------------------------------------------------------------------------
(* The array.                                                               *)

Cells == Elements \cup {Unset}

Arrays == [Items : Seq(Cells), Count : Nat, Growable : BOOLEAN, created : Nat]

(* Two sequences of items, compared item by item.                           *)
Agree(a, s) ==
  /\ a.Count = Len(s)
  /\ \A i \in 1..Len(s) : a.Items[i] = s[i]

(* ArrayExact's equality, item by item.                                     *)
LEMMA ExactIsAgree ==
  ASSUME NEW a \in Arrays, NEW s \in Seq(Elements), a.Count <= Len(a.Items)
  PROVE  SubSeq(a.Items, 1, a.Count) = s <=> Agree(a, s)
  <1>1. a.Items \in Seq(Cells) /\ a.Count \in Nat /\ Len(s) \in Nat /\ Len(a.Items) \in Nat
    BY DEF Arrays
  <1> DEFINE t == SubSeq(a.Items, 1, a.Count)
  <1>2. /\ t \in Seq(Cells) /\ Len(t) = a.Count
        /\ \A i \in 1..a.Count : t[i] = a.Items[i]
    BY <1>1
  <1>. HIDE DEF t
  <1>3. ASSUME t = s PROVE Agree(a, s)
    BY <1>1, <1>2, <1>3 DEF Agree
  <1>4. ASSUME Agree(a, s) PROVE t = s
    <2>1. Len(t) = Len(s) /\ \A i \in 1..Len(t) : t[i] = s[i]
      BY <1>1, <1>2, <1>4 DEF Agree
    <2>2. s \in Seq(Cells)
      BY DEF Cells
    <2>. QED BY <1>2, <2>1, <2>2
  <1>. QED BY <1>3, <1>4 DEF t

(* A reallocation keeps every item and makes room.                          *)
LEMMA RoomyFacts ==
  ASSUME NEW a \in Arrays, a.Count <= Len(a.Items),
         a.Count < Len(a.Items) \/ 0 < Len(a.Items)
  PROVE  /\ Roomy(a) \in Arrays /\ Roomy(a).Count = a.Count
         /\ Roomy(a).Growable = a.Growable /\ Roomy(a).created = a.created
         /\ Len(a.Items) <= Len(Roomy(a).Items) /\ a.Count < Len(Roomy(a).Items)
         /\ ~Full(a) => Len(Roomy(a).Items) = Len(a.Items)
         /\ \A i \in 1..a.Count : Roomy(a).Items[i] = a.Items[i]
  <1>1. a.Items \in Seq(Cells) /\ a.Count \in Nat /\ Len(a.Items) \in Nat
    BY DEF Arrays
  <1>2. CASE Full(a)
    <2> DEFINE more == [i \in 1..Len(a.Items) |-> Unset]
    <2>1. more \in Seq(Cells) /\ Len(more) = Len(a.Items)
      BY <1>1 DEF Cells
    <2>. HIDE DEF more
    <2>2. /\ a.Items \o more \in Seq(Cells)
          /\ Len(a.Items \o more) = Len(a.Items) + Len(a.Items)
          /\ \A i \in 1..Len(a.Items) : (a.Items \o more)[i] = a.Items[i]
      BY <1>1, <2>1
    <2>3. Roomy(a) = [a EXCEPT !.Items = a.Items \o more]
      BY <1>2 DEF Roomy, VArray_Realloc, more
    <2>4. /\ Roomy(a).Items = a.Items \o more /\ Roomy(a).Count = a.Count
          /\ Roomy(a).Growable = a.Growable /\ Roomy(a).created = a.created
          /\ Roomy(a) \in Arrays
      BY <2>2, <2>3 DEF Arrays
    <2>. QED BY <1>1, <1>2, <2>2, <2>4
  <1>3. CASE ~Full(a)
    BY <1>1, <1>3 DEF Roomy, Full, VArray_Capacity
  <1>. QED BY <1>2, <1>3

-----------------------------------------------------------------------------
(* The operations, on an array that holds the items s.                      *)

ArrayInv(a, s) ==
  /\ a \in Arrays /\ s \in Seq(Elements)
  /\ a.Count <= Len(a.Items)
  /\ ~a.Growable => Len(a.Items) = a.created
  /\ a.created > 0 => Len(a.Items) > 0
  /\ Agree(a, s)

Dropped(a, s) == Len(s) = a.created /\ ~a.Growable

(* A new array is empty.                                                    *)
LEMMA ArrayInits ==
  ASSUME NEW cap \in Nat, NEW g \in BOOLEAN
  PROVE  ArrayInv(VArray_Init(cap, g), <<>>)
  <1> DEFINE a == VArray_Init(cap, g)
             none == [i \in 1..cap |-> Unset]
  <1>1. none \in Seq(Cells) /\ Len(none) = cap
    BY DEF Cells
  <1>. HIDE DEF none
  <1>2. a = [Items |-> none, Count |-> 0, Growable |-> g, created |-> cap]
    BY DEF VArray_Init, none
  <1>3. /\ a \in Arrays /\ a.Items = none /\ a.Count = 0 /\ a.Growable = g
        /\ a.created = cap
    BY <1>1, <1>2 DEF Arrays
  <1>4. Agree(a, <<>>)
    BY <1>3 DEF Agree
  <1>. HIDE DEF a
  <1>. QED BY <1>1, <1>3, <1>4 DEF ArrayInv, a

(* What an operation that stores finds: room, or an array that drops.       *)
LEMMA Stores ==
  ASSUME NEW a, NEW s, ArrayInv(a, s), a.Growable => a.created > 0
  PROVE  /\ (Full(a) /\ ~a.Growable) <=> Dropped(a, s)
         /\ ~Dropped(a, s) => a.Count < Len(a.Items) \/ 0 < Len(a.Items)
  <1>1. /\ a.Count \in Nat /\ Len(a.Items) \in Nat /\ a.Count = Len(s) /\ a.created \in Nat
        /\ a.Growable \in BOOLEAN /\ a.Count <= Len(a.Items)
        /\ ~a.Growable => Len(a.Items) = a.created
        /\ a.created > 0 => Len(a.Items) > 0
    BY DEF ArrayInv, Arrays, Agree
  <1>. QED BY <1>1 DEF Full, VArray_Capacity, Dropped

(* The array after an operation: b, reallocated or not, with other cells.   *)
LEMMA ArrayResult ==
  ASSUME NEW a, NEW s, ArrayInv(a, s), NEW b \in Arrays,
         b.Growable = a.Growable, b.created = a.created, Len(a.Items) <= Len(b.Items),
         ~a.Growable => Len(b.Items) = Len(a.Items),
         NEW cells \in Seq(Cells), Len(cells) = Len(b.Items),
         NEW t \in Seq(Elements), Len(t) <= Len(cells), \A i \in 1..Len(t) : cells[i] = t[i],
         NEW r, r = [b EXCEPT !.Items = cells, !.Count = Len(t)]
  PROVE  ArrayInv(r, t)
  <1>1. Len(t) \in Nat /\ Len(cells) \in Nat
    OBVIOUS
  <1>2. /\ r \in Arrays /\ r.Items = cells /\ r.Count = Len(t) /\ r.Growable = b.Growable
        /\ r.created = b.created
    BY <1>1 DEF Arrays
  <1>3. /\ Len(a.Items) \in Nat /\ a.created \in Nat /\ a.Growable \in BOOLEAN
        /\ ~a.Growable => Len(a.Items) = a.created
        /\ a.created > 0 => Len(a.Items) > 0
    BY DEF ArrayInv, Arrays
  <1>4. Agree(r, t)
    BY <1>2 DEF Agree
  <1>. QED BY <1>1, <1>2, <1>3, <1>4 DEF ArrayInv

(* What the operations that store start from.                               *)
LEMMA Room ==
  ASSUME NEW a, NEW s, ArrayInv(a, s), a.Growable => a.created > 0, ~Dropped(a, s)
  PROVE  LET b == Roomy(a) IN
         /\ b \in Arrays /\ b.Count = Len(s)
         /\ b.Growable = a.Growable /\ b.created = a.created
         /\ Len(a.Items) <= Len(b.Items) /\ (~a.Growable => Len(b.Items) = Len(a.Items))
         /\ Len(s) < Len(b.Items) /\ a.Count = Len(s)
         /\ \A i \in 1..Len(s) : b.Items[i] = s[i]
  <1> DEFINE b == Roomy(a)
  <1>1. /\ a \in Arrays /\ s \in Seq(Elements) /\ a.Count <= Len(a.Items)
        /\ a.Count = Len(s) /\ (\A i \in 1..Len(s) : a.Items[i] = s[i])
    BY DEF ArrayInv, Agree
  <1>2. /\ b \in Arrays /\ b.Count = a.Count /\ b.Growable = a.Growable /\ b.created = a.created
        /\ Len(a.Items) <= Len(b.Items) /\ a.Count < Len(b.Items)
        /\ ~Full(a) => Len(b.Items) = Len(a.Items)
        /\ \A i \in 1..a.Count : b.Items[i] = a.Items[i]
    BY <1>1, Stores, RoomyFacts
  <1>3. ~a.Growable => ~Full(a)
    BY Stores
  <1>. HIDE DEF b
  <1>4. \A i \in 1..Len(s) : b.Items[i] = s[i]
    BY <1>1, <1>2
  <1>. QED BY <1>1, <1>2, <1>3, <1>4 DEF b

(* VArray_Push appends the item, or drops it if the array is full and       *)
(* fixed.                                                                   *)
LEMMA Pushes ==
  ASSUME NEW a, NEW s, ArrayInv(a, s), a.Growable => a.created > 0, NEW x \in Elements
  PROVE  ArrayInv(VArray_Push(a, x), IF Dropped(a, s) THEN s ELSE Append(s, x))
  <1>1. CASE Dropped(a, s)
    <2>1. VArray_Push(a, x) = a
      BY <1>1, Stores DEF VArray_Push
    <2>. QED BY <1>1, <2>1
  <1>2. CASE ~Dropped(a, s)
    <2> DEFINE b == Roomy(a)
               n == Len(s)
               t == Append(s, x)
               cells == [b.Items EXCEPT ![n + 1] = x]
    <2>1. /\ b \in Arrays /\ b.Count = n /\ a.Count = n
          /\ b.Growable = a.Growable /\ b.created = a.created
          /\ Len(a.Items) <= Len(b.Items) /\ (~a.Growable => Len(b.Items) = Len(a.Items))
          /\ n < Len(b.Items) /\ \A i \in 1..n : b.Items[i] = s[i]
      BY <1>2, Room
    <2>2. VArray_Push(a, x) = [b EXCEPT !.Items = cells, !.Count = n + 1]
      BY <1>2, <2>1, Stores DEF VArray_Push, Arrays
    <2>. HIDE DEF b
    <2>3. /\ s \in Seq(Elements) /\ n \in Nat /\ b.Items \in Seq(Cells) /\ x \in Cells
          /\ Len(b.Items) \in Nat /\ n + 1 \in 1..Len(b.Items)
      BY <2>1 DEF ArrayInv, Arrays, Cells
    <2>4. /\ cells \in Seq(Cells) /\ Len(cells) = Len(b.Items) /\ cells[n + 1] = x
          /\ \A i \in 1..n : cells[i] = b.Items[i]
      BY <2>3
    <2>5. /\ t \in Seq(Elements) /\ Len(t) = n + 1 /\ t[n + 1] = x
          /\ \A i \in 1..n : t[i] = s[i]
      BY <2>3
    <2>. HIDE DEF cells, t
    <2>6. \A i \in 1..(n + 1) : i \in 1..n \/ i = n + 1
      BY <2>3
    <2>. HIDE DEF n
    <2>7. \A i \in 1..Len(t) : cells[i] = t[i]
      BY <2>1, <2>4, <2>5, <2>6
    <2>8. Len(t) <= Len(cells)
      BY <2>3, <2>4, <2>5
    <2>9. ArrayInv([b EXCEPT !.Items = cells, !.Count = Len(t)], t)
      BY <2>1, <2>4, <2>5, <2>7, <2>8, ArrayResult
    <2>. QED BY <1>2, <2>2, <2>5, <2>9 DEF t
  <1>. QED BY <1>1, <1>2

(* VArray_Insert moves the items from idx on and puts the new one there.    *)
LEMMA ArrayInserts ==
  ASSUME NEW a, NEW s, ArrayInv(a, s), a.Growable => a.created > 0, NEW x \in Elements,
         NEW idx \in 0..Len(s)
  PROVE  ArrayInv(VArray_Insert(a, x, idx), IF Dropped(a, s) THEN s ELSE InsertAt(s, idx + 1, x))
  <1>1. CASE Dropped(a, s)
    <2>1. VArray_Insert(a, x, idx) = a
      BY <1>1, Stores DEF VArray_Insert
    <2>. QED BY <1>1, <2>1
  <1>2. CASE ~Dropped(a, s)
    <2> DEFINE b == Roomy(a)
               n == Len(s)
               t == InsertAt(s, idx + 1, x)
               cells == [i \in DOMAIN b.Items |->
                           IF i = idx + 1 THEN x
                           ELSE IF i \in (idx + 2)..(n + 1) THEN b.Items[i - 1]
                           ELSE b.Items[i]]
    <2>1. /\ b \in Arrays /\ b.Count = n /\ a.Count = n
          /\ b.Growable = a.Growable /\ b.created = a.created
          /\ Len(a.Items) <= Len(b.Items) /\ (~a.Growable => Len(b.Items) = Len(a.Items))
          /\ n < Len(b.Items) /\ \A i \in 1..n : b.Items[i] = s[i]
      BY <1>2, Room
    <2>2. VArray_Insert(a, x, idx) = [b EXCEPT !.Items = cells, !.Count = n + 1]
      BY <1>2, <2>1, Stores DEF VArray_Insert, Arrays
    <2>. HIDE DEF b
    <2>3. /\ s \in Seq(Elements) /\ n \in Nat /\ b.Items \in Seq(Cells) /\ x \in Cells
          /\ Len(b.Items) \in Nat /\ n + 1 \in 1..Len(b.Items) /\ idx \in 0..n
          /\ DOMAIN b.Items = 1..Len(b.Items)
      BY <2>1 DEF ArrayInv, Arrays, Cells
    <2>4. /\ cells \in Seq(Cells) /\ Len(cells) = Len(b.Items) /\ cells[idx + 1] = x
          /\ \A i \in 1..idx : cells[i] = b.Items[i]
          /\ \A i \in (idx + 2)..(n + 1) : cells[i] = b.Items[i - 1]
      <3>1. \A i \in 1..Len(b.Items) : cells[i] \in Cells
        BY <2>3
      <3>2. cells \in [1..Len(b.Items) -> Cells]
        BY <2>3, <3>1
      <3>. QED BY <2>3, <3>2
    <2>5. /\ t \in Seq(Elements) /\ Len(t) = n + 1 /\ t[idx + 1] = x
          /\ \A i \in 1..idx : t[i] = s[i]
          /\ \A i \in (idx + 2)..(n + 1) : t[i] = s[i - 1]
      <3>1. t = Insertion(s, idx, x)
        <4>1. (idx + 1) - 1 = idx
          BY <2>3
        <4>2. t = SubSeq(s, 1, (idx + 1) - 1) \o <<x>> \o SubSeq(s, idx + 1, n)
          BY DEF InsertAt
        <4>. HIDE DEF t
        <4>. QED BY <4>1, <4>2, Zenon DEF Insertion
      <3>2. s \in Seq(Elements) /\ idx \in 0..Len(s) /\ x \in Elements
        BY <2>3
      <3>. HIDE DEF t, n, cells
      <3>3. t \in Seq(Elements) /\ Inserted(t, s, idx, x)
        BY <3>1, <3>2, Insertions, Zenon
      <3>. QED BY <3>3 DEF n, Inserted
    <2>. HIDE DEF cells, t
    <2>6. /\ \A i \in 1..(n + 1) : i \in 1..idx \/ i = idx + 1 \/ i \in (idx + 2)..(n + 1)
          /\ \A i \in (idx + 2)..(n + 1) : i - 1 \in 1..n
          /\ \A i \in 1..idx : i \in 1..n
      BY <2>3
    <2>. HIDE DEF n
    <2>7. \A i \in 1..Len(t) : cells[i] = t[i]
      BY <2>1, <2>4, <2>5, <2>6
    <2>8. Len(t) <= Len(cells)
      BY <2>3, <2>4, <2>5
    <2>9. ArrayInv([b EXCEPT !.Items = cells, !.Count = Len(t)], t)
      BY <2>1, <2>4, <2>5, <2>7, <2>8, ArrayResult
    <2>. QED BY <1>2, <2>2, <2>5, <2>9 DEF t
  <1>. QED BY <1>1, <1>2

(* VArray_Remove moves the items behind idx.                                *)
LEMMA ArrayRemoves ==
  ASSUME NEW a, NEW s, ArrayInv(a, s), NEW idx \in Nat
  PROVE  ArrayInv(VArray_Remove(a, idx), IF idx < Len(s) THEN RemoveAt(s, idx + 1) ELSE s)
  <1> DEFINE n == Len(s)
  <1>1. /\ a \in Arrays /\ s \in Seq(Elements) /\ n \in Nat /\ a.Items \in Seq(Cells)
        /\ Len(a.Items) \in Nat /\ a.Count = n /\ n <= Len(a.Items)
        /\ DOMAIN a.Items = 1..Len(a.Items) /\ a.Count \in Nat
        /\ \A i \in 1..n : a.Items[i] = s[i]
    BY DEF ArrayInv, Arrays, Agree
  <1>2. CASE ~(idx < n)
    <2>1. VArray_Remove(a, idx) = a
      BY <1>1, <1>2 DEF VArray_Remove
    <2>. QED BY <1>2, <2>1
  <1>3. CASE idx < n
    <2> DEFINE t == RemoveAt(s, idx + 1)
               cells == [i \in DOMAIN a.Items |-> IF i \in (idx + 1)..(n - 1)
                                                 THEN a.Items[i + 1] ELSE a.Items[i]]
    <2>1. VArray_Remove(a, idx) = [a EXCEPT !.Items = cells, !.Count = n - 1]
      BY <1>1, <1>3 DEF VArray_Remove
    <2>2. /\ cells \in Seq(Cells) /\ Len(cells) = Len(a.Items)
          /\ \A i \in 1..idx : cells[i] = a.Items[i]
          /\ \A i \in (idx + 1)..(n - 1) : cells[i] = a.Items[i + 1]
      <3>1. \A i \in 1..Len(a.Items) : cells[i] \in Cells
        BY <1>1
      <3>2. cells \in [1..Len(a.Items) -> Cells]
        BY <1>1, <3>1
      <3>. QED BY <1>1, <1>3, <3>2
    <2>3. /\ t \in Seq(Elements) /\ Len(t) = n - 1
          /\ \A i \in 1..idx : t[i] = s[i]
          /\ \A i \in (idx + 1)..(n - 1) : t[i] = s[i + 1]
      <3>1. t = Removal(s, idx)
        <4>1. (idx + 1) - 1 = idx
          OBVIOUS
        <4>2. t = SubSeq(s, 1, (idx + 1) - 1) \o SubSeq(s, (idx + 1) + 1, n)
          BY DEF RemoveAt
        <4>. HIDE DEF t
        <4>. QED BY <4>1, <4>2, Zenon DEF Removal
      <3>2. s \in Seq(Elements) /\ idx < Len(s)
        BY <1>1, <1>3
      <3>. HIDE DEF t, n, cells
      <3>3. t \in Seq(Elements) /\ Removed(t, s, idx)
        BY <3>1, <3>2, Removals, Zenon
      <3>. QED BY <3>3 DEF n, Removed
    <2>. HIDE DEF cells, t
    <2>4. /\ \A i \in 1..(n - 1) : i \in 1..idx \/ i \in (idx + 1)..(n - 1)
          /\ \A i \in (idx + 1)..(n - 1) : i + 1 \in 1..n
          /\ \A i \in 1..idx : i \in 1..n
      BY <1>1, <1>3
    <2>5. \A i \in 1..Len(t) : cells[i] = t[i]
      BY <1>1, <2>2, <2>3, <2>4
    <2>6. Len(t) <= Len(cells)
      BY <1>1, <2>2, <2>3
    <2>7. Len(a.Items) <= Len(a.Items)
      BY <1>1
    <2>8. ArrayInv([a EXCEPT !.Items = cells, !.Count = Len(t)], t)
      BY <1>1, <2>2, <2>3, <2>5, <2>6, <2>7, ArrayResult
    <2>. QED BY <1>3, <2>1, <2>3, <2>8 DEF t
  <1>. QED BY <1>2, <1>3

(* VArray_UnorderedRemove moves the last item to idx.                       *)
LEMMA UnorderedRemoves ==
  ASSUME NEW a, NEW s, ArrayInv(a, s), NEW idx \in Nat
  PROVE  ArrayInv(VArray_UnorderedRemove(a, idx),
                  IF idx < Len(s) THEN Front(ReplaceAt(s, idx + 1, Last(s))) ELSE s)
  <1> DEFINE n == Len(s)
  <1>1. /\ a \in Arrays /\ s \in Seq(Elements) /\ n \in Nat /\ a.Items \in Seq(Cells)
        /\ Len(a.Items) \in Nat /\ a.Count = n /\ n <= Len(a.Items) /\ a.Count \in Nat
        /\ \A i \in 1..n : a.Items[i] = s[i]
    BY DEF ArrayInv, Arrays, Agree
  <1>2. CASE ~(idx < n)
    <2>1. VArray_UnorderedRemove(a, idx) = a
      BY <1>1, <1>2 DEF VArray_UnorderedRemove
    <2>. QED BY <1>2, <2>1
  <1>3. CASE idx < n
    <2> DEFINE full == [s EXCEPT ![idx + 1] = s[n]]
               t == Front(ReplaceAt(s, idx + 1, Last(s)))
               cells == [a.Items EXCEPT ![idx + 1] = a.Items[n]]
    <2>1. VArray_UnorderedRemove(a, idx) = [a EXCEPT !.Items = cells, !.Count = n - 1]
      BY <1>1, <1>3 DEF VArray_UnorderedRemove, Arrays
    <2>2. n \in 1..n /\ idx + 1 \in 1..n /\ n \in 1..Len(a.Items) /\ idx + 1 \in 1..Len(a.Items)
      BY <1>1, <1>3
    <2>3. /\ cells \in Seq(Cells) /\ Len(cells) = Len(a.Items)
          /\ \A i \in 1..n : cells[i] = IF i = idx + 1 THEN a.Items[n] ELSE a.Items[i]
      BY <1>1, <2>2
    <2>4. /\ full \in Seq(Elements) /\ Len(full) = n
          /\ \A i \in 1..n : full[i] = IF i = idx + 1 THEN s[n] ELSE s[i]
      BY <1>1, <2>2
    <2>5. t = SubSeq(full, 1, n - 1)
      <3>1. t = SubSeq(full, 1, Len(full) - 1)
        BY DEF Front, ReplaceAt, Last
      <3>. HIDE DEF t, full
      <3>. QED BY <2>4, <3>1, Zenon
    <2>. HIDE DEF cells, t, full
    <2>6. /\ t \in Seq(Elements) /\ Len(t) = n - 1 /\ \A i \in 1..(n - 1) : t[i] = full[i]
      BY <1>1, <1>3, <2>4, <2>5
    <2>7. \A i \in 1..(n - 1) : i \in 1..n
      BY <1>1
    <2>8. \A i \in 1..Len(t) : cells[i] = t[i]
      BY <1>1, <2>2, <2>3, <2>4, <2>6, <2>7
    <2>9. Len(t) <= Len(cells) /\ Len(a.Items) <= Len(a.Items)
      BY <1>1, <2>3, <2>6
    <2>10. ArrayInv([a EXCEPT !.Items = cells, !.Count = Len(t)], t)
      BY <1>1, <2>3, <2>6, <2>8, <2>9, ArrayResult
    <2>. QED BY <1>3, <2>1, <2>6, <2>10 DEF t
  <1>. QED BY <1>2, <1>3

-----------------------------------------------------------------------------
(* What keeps ArrayExact: an array that may grow and was created with room  *)
(* always has some to double.                                               *)
LEMMA ArrayInvAlways == ArraySpec => []ArrayInv(array, items)
  <1>1. ArrayInit => ArrayInv(array, items)
    BY ArrayInits, ArrayAssumption DEF ArrayInit
  <1>2. ArrayInv(array, items) /\ [ArrayNext]_arrayVars => ArrayInv(array, items)'
    <2> SUFFICES ASSUME ArrayInv(array, items), [ArrayNext]_arrayVars
                 PROVE  ArrayInv(array', items')
      BY DEF ArrayInv, Agree, Arrays, Cells
    <2>1. ASSUME NEW x \in Elements, CallPush(x) PROVE ArrayInv(array', items')
      BY <2>1, Pushes DEF CallPush, Writable, NoRoom, Dropped
    <2>2. ASSUME NEW x \in Elements, NEW idx \in 0..Len(items), CallArrayInsert(x, idx)
          PROVE  ArrayInv(array', items')
      BY <2>2, ArrayInserts DEF CallArrayInsert, Writable, NoRoom, Dropped
    <2>3. ASSUME NEW idx \in 0..Len(items), CallArrayRemove(idx) PROVE ArrayInv(array', items')
      BY <2>3, ArrayRemoves DEF CallArrayRemove
    <2>4. ASSUME NEW idx \in 0..Len(items), CallUnorderedRemove(idx) PROVE ArrayInv(array', items')
      BY <2>4, UnorderedRemoves DEF CallUnorderedRemove
    <2>5. CASE UNCHANGED arrayVars
      BY <2>5 DEF arrayVars
    <2>. QED BY <2>1, <2>2, <2>3, <2>4, <2>5 DEF ArrayNext
  <1>. QED BY <1>1, <1>2, PTL DEF ArraySpec

(* The macros of varray.h hold exactly the items the calls made, for every  *)
(* capacity and any number of calls.                                        *)
THEOREM ArrayHoldsItems == ArraySpec => []ArrayExact
  <1>1. ArrayInv(array, items) => ArrayExact
    <2> SUFFICES ASSUME ArrayInv(array, items) PROVE ArrayExact
      OBVIOUS
    <2>1. /\ array \in Arrays /\ items \in Seq(Elements) /\ Agree(array, items)
          /\ array.Count <= Len(array.Items)
          /\ ~array.Growable => Len(array.Items) = array.created
      BY DEF ArrayInv
    <2>2. SubSeq(array.Items, 1, array.Count) = items
      BY <2>1, ExactIsAgree
    <2>. QED BY <2>1, <2>2 DEF ArrayExact, VArray_Capacity
  <1>. QED BY <1>1, ArrayInvAlways, PTL

-----------------------------------------------------------------------------
(* The string.                                                              *)

Bytes == Alphabet \cup {NUL, Junk}

Strings == [Data : Seq(Bytes), Length : Nat]

(* The string s holds the text t: StringsExact, byte by byte.               *)
Holds(s, t) ==
  /\ s \in Strings /\ t \in Seq(Alphabet)
  /\ Capacity(s) > 0 /\ s.Length = Len(t) /\ Len(t) <= Capacity(s)
  /\ \A i \in 1..Len(t) : s.Data[i] = t[i]

(* What is known of a string that holds a text.                             *)
LEMMA Facts ==
  ASSUME NEW s, NEW t, Holds(s, t)
  PROVE  /\ s.Data \in Seq(Bytes) /\ Len(s.Data) \in Nat /\ Len(s.Data) > 0
         /\ s.Data \in [1..Len(s.Data) -> Bytes] /\ DOMAIN s.Data = 1..Len(s.Data)
         /\ Capacity(s) = Len(s.Data)
         /\ t \in Seq(Alphabet) /\ Len(t) \in Nat /\ s.Length = Len(t) /\ Len(t) <= Len(s.Data)
         /\ \A i \in 1..Len(t) : s.Data[i] = t[i]
         /\ s = [Data |-> s.Data, Length |-> s.Length]
  BY DEF Holds, Strings, Capacity

(* What an operation leaves: data that begins with the text.                *)
Of(data, t) == [Data |-> data, Length |-> Len(t)]

LEMMA StringResult ==
  ASSUME NEW data, NEW n \in Nat \ {0}, data \in [1..n -> Bytes],
         NEW t \in Seq(Alphabet), Len(t) <= n, \A i \in 1..Len(t) : data[i] = t[i]
  PROVE  Holds(Of(data, t), t) /\ Capacity(Of(data, t)) = n
  <1>1. data \in Seq(Bytes) /\ Len(data) = n /\ Len(t) \in Nat
    OBVIOUS
  <1>. QED BY <1>1 DEF Holds, Strings, Capacity, Of

LEMMA StringInits ==
  ASSUME NEW cap \in Nat \ {0}
  PROVE  Holds(VString_Init(cap), <<>>)
  <1> DEFINE data == [i \in 1..cap |-> NUL]
  <1>1. data \in [1..cap -> Bytes]
    BY DEF Bytes
  <1>. HIDE DEF data
  <1>2. <<>> \in Seq(Alphabet) /\ Len(<<>>) = 0 /\ 0 <= cap
        /\ \A i \in 1..Len(<<>>) : data[i] = <<>>[i]
    OBVIOUS
  <1>3. Holds(Of(data, <<>>), <<>>)
    BY <1>1, <1>2, StringResult
  <1>. QED BY <1>2, <1>3 DEF VString_Init, data, Of

-----------------------------------------------------------------------------
(* The allocation.                                                          *)

(* A reallocation that leaves room for the text keeps it.                   *)
LEMMA Resizes ==
  ASSUME NEW s, NEW t, Holds(s, t), NEW cap \in Nat \ {0}, Len(t) <= cap
  PROVE  Holds(VString_Resize(s, cap), t) /\ Capacity(VString_Resize(s, cap)) = cap
  <1> DEFINE data == [i \in 1..cap |-> IF i <= Capacity(s) THEN s.Data[i] ELSE Junk]
  <1>1. data \in [1..cap -> Bytes] /\ \A i \in 1..Len(t) : data[i] = t[i]
    BY Facts DEF Bytes
  <1>2. VString_Resize(s, cap) = Of(data, t)
    <2>1. VString_Resize(s, cap) = [s EXCEPT !.Data = data]
      BY DEF VString_Resize
    <2>. HIDE DEF data
    <2>2. s \in Strings /\ s.Length = Len(t)
      BY DEF Holds
    <2>. QED BY <2>1, <2>2 DEF Strings, Of
  <1>. HIDE DEF data
  <1>3. t \in Seq(Alphabet)
    BY DEF Holds
  <1>4. Holds(Of(data, t), t) /\ Capacity(Of(data, t)) = cap
    BY <1>1, <1>3, StringResult
  <1>. QED BY <1>2, <1>4

LEMMA Reallocs ==
  ASSUME NEW s, NEW t, Holds(s, t)
  PROVE  Holds(Realloc(s), t) /\ Capacity(Realloc(s)) = 2 * Capacity(s)
  <1>1. 2 * Capacity(s) \in Nat \ {0} /\ Len(t) <= 2 * Capacity(s)
    BY Facts
  <1>. QED BY <1>1, Resizes DEF Realloc

(* The loop that doubles the capacity ends with enough of it.               *)
LEMMA RoomsFor ==
  ASSUME NEW s, NEW t, Holds(s, t), NEW n \in Nat
  PROVE  Holds(RoomFor(s, n), t) /\ n < Capacity(RoomFor(s, n))
  <1> DEFINE c == Capacity(s)
             Rule(f, m) == f = [k \in 0..m |-> IF k = 0 THEN c ELSE 2 * f[k - 1]]
  <1>1. c \in Nat /\ c > 0 /\ Len(t) <= c
    BY Facts
  <1>. HIDE DEF c
  <1>2. ASSUME NEW m \in Nat PROVE \E f : Rule(f, m)
    <2> DEFINE Good == {i \in Nat : \E f : Rule(f, i)}
    <2>1. 0 \in Good
      <3>1. Rule([k \in 0..0 |-> c], 0)
        OBVIOUS
      <3>. QED BY <3>1
    <2>2. ASSUME NEW i \in Nat, i \in Good PROVE i + 1 \in Good
      <3>1. PICK f : Rule(f, i)
        BY <2>2
      <3> DEFINE g == [k \in 0..(i + 1) |-> IF k = i + 1 THEN 2 * f[i] ELSE f[k]]
      <3>2. Rule(g, i + 1) /\ i + 1 \in Nat
        BY <3>1
      <3>. HIDE DEF g, Rule
      <3>. QED BY <3>2, Zenon
    <2>. HIDE DEF Good
    <2>3. Nat \subseteq Good
      BY <2>1, <2>2, SetInduction
    <2>. QED BY <2>3 DEF Good
  <1> DEFINE D == CHOOSE f : Rule(f, n)
  <1>3. Rule(D, n)
    BY <1>2
  <1>. HIDE DEF D
  <1>4. \A k \in 0..n : D[k] \in Nat /\ D[k] >= c + k
    <2> DEFINE Good == {i \in Nat : i <= n => D[i] \in Nat /\ D[i] >= c + i}
    <2>1. 0 \in Good
      BY <1>1, <1>3
    <2>2. ASSUME NEW i \in Nat, i \in Good PROVE i + 1 \in Good
      <3> SUFFICES ASSUME i + 1 <= n PROVE D[i + 1] \in Nat /\ D[i + 1] >= c + (i + 1)
        OBVIOUS
      <3>1. D[i + 1] = 2 * D[i]
        BY <1>3
      <3>. QED BY <1>1, <2>2, <3>1
    <2>. HIDE DEF Good
    <2>3. Nat \subseteq Good
      BY <2>1, <2>2, SetInduction
    <2>. QED BY <2>3 DEF Good
  <1> DEFINE enough == {x \in {D[k] : k \in 0..n} : n < x}
  <1>5. D[n] \in enough
    BY <1>1, <1>4
  <1>6. \A x \in enough : x \in Nat /\ x >= c /\ n < x
    BY <1>1, <1>4
  <1>7. RoomFor(s, n) = VString_Resize(s, Min(enough))
    BY DEF RoomFor, D, c
  <1>. HIDE DEF enough
  <1>8. enough \in SUBSET Nat /\ enough # {}
    BY <1>5, <1>6
  <1>9. Min(enough) \in enough
    BY <1>8, LeastChosen DEF Min
  <1>10. Min(enough) \in Nat \ {0} /\ Len(t) <= Min(enough) /\ n < Min(enough)
    BY <1>1, <1>6, <1>9, Facts
  <1>. QED BY <1>7, <1>10, Resizes

-----------------------------------------------------------------------------
(* The operations, on a string that holds the text t.                       *)

(* VString_Append.                                                          *)
LEMMA Appends ==
  ASSUME NEW s, NEW t, Holds(s, t), NEW ch \in Alphabet
  PROVE  Holds(VString_Append(s, ch), Append(t, ch))
  <1> DEFINE r == IF s.Length >= Capacity(s) THEN Realloc(s) ELSE s
             n == Len(t)
             m == Len(r.Data)
             u == Append(t, ch)
             data == [r.Data EXCEPT ![n + 1] = ch]
  <1>1. s.Length = n /\ n \in Nat /\ t \in Seq(Alphabet)
    BY Facts
  <1>2. Holds(r, t) /\ n < Capacity(r)
    <2>1. CASE s.Length >= Capacity(s)
      <3>1. Holds(Realloc(s), t) /\ Capacity(Realloc(s)) = 2 * Capacity(s)
        BY Reallocs
      <3>2. Capacity(s) \in Nat /\ Capacity(s) > 0 /\ n <= Capacity(s)
        BY Facts
      <3>. QED BY <2>1, <3>1, <3>2
    <2>2. CASE ~(s.Length >= Capacity(s))
      BY <2>2, Facts
    <2>. QED BY <2>1, <2>2
  <1>3. VString_Append(s, ch) = [Data |-> data, Length |-> n + 1]
    BY <1>1 DEF VString_Append
  <1>. HIDE DEF r
  <1>4. /\ r.Data \in [1..m -> Bytes] /\ m \in Nat \ {0} /\ n + 1 \in 1..m
        /\ \A i \in 1..n : r.Data[i] = t[i]
    BY <1>1, <1>2, Facts
  <1>5. u \in Seq(Alphabet) /\ Len(u) = n + 1 /\ u[n + 1] = ch /\ \A i \in 1..n : u[i] = t[i]
    BY <1>1
  <1>. HIDE DEF m, u
  <1>6. /\ data \in [1..m -> Bytes] /\ data[n + 1] = ch
        /\ \A i \in 1..n : data[i] = r.Data[i]
    BY <1>1, <1>4 DEF Bytes
  <1>. HIDE DEF data
  <1>7. \A i \in 1..(n + 1) : i \in 1..n \/ i = n + 1
    BY <1>1
  <1>. HIDE DEF n
  <1>8. Len(u) <= m /\ \A i \in 1..Len(u) : data[i] = u[i]
    BY <1>4, <1>5, <1>6, <1>7
  <1>9. Holds(Of(data, u), u)
    BY <1>4, <1>5, <1>6, <1>8, StringResult
  <1>. QED BY <1>3, <1>5, <1>9 DEF Of, u

(* VString_Insert moves the text from idx on.                               *)
LEMMA StringInserts ==
  ASSUME NEW s, NEW t, Holds(s, t), NEW ch \in Alphabet, NEW idx \in 0..Len(t)
  PROVE  Holds(VString_Insert(s, idx, ch), InsertAt(t, idx + 1, ch))
  <1> DEFINE r == IF s.Length + 1 >= Capacity(s) THEN Realloc(s) ELSE s
             n == Len(t)
             m == Len(r.Data)
             u == InsertAt(t, idx + 1, ch)
             data == [i \in DOMAIN r.Data |->
                        IF i = idx + 1 THEN ch
                        ELSE IF i \in (idx + 2)..(n + 1) THEN r.Data[i - 1]
                        ELSE r.Data[i]]
  <1>1. s.Length = n /\ n \in Nat /\ t \in Seq(Alphabet) /\ idx \in 0..n
    BY Facts
  <1>2. Holds(r, t) /\ n < Capacity(r)
    <2>1. CASE s.Length + 1 >= Capacity(s)
      <3>1. Holds(Realloc(s), t) /\ Capacity(Realloc(s)) = 2 * Capacity(s)
        BY Reallocs
      <3>2. Capacity(s) \in Nat /\ Capacity(s) > 0 /\ n <= Capacity(s)
        BY Facts
      <3>. QED BY <2>1, <3>1, <3>2
    <2>2. CASE ~(s.Length + 1 >= Capacity(s))
      BY <1>1, <2>2, Facts
    <2>. QED BY <2>1, <2>2
  <1>3. VString_Insert(s, idx, ch) = [Data |-> data, Length |-> n + 1]
    BY <1>1 DEF VString_Insert
  <1>. HIDE DEF r
  <1>4. /\ r.Data \in [1..m -> Bytes] /\ DOMAIN r.Data = 1..m /\ m \in Nat \ {0}
        /\ n + 1 \in 1..m /\ \A i \in 1..n : r.Data[i] = t[i]
    BY <1>1, <1>2, Facts
  <1>5. /\ u \in Seq(Alphabet) /\ Len(u) = n + 1 /\ u[idx + 1] = ch
        /\ \A i \in 1..idx : u[i] = t[i]
        /\ \A i \in (idx + 2)..(n + 1) : u[i] = t[i - 1]
    <2>1. u = Insertion(t, idx, ch)
      <3>1. (idx + 1) - 1 = idx
        BY <1>1
      <3>2. u = SubSeq(t, 1, (idx + 1) - 1) \o <<ch>> \o SubSeq(t, idx + 1, n)
        BY DEF InsertAt
      <3>. HIDE DEF u
      <3>. QED BY <3>1, <3>2, Zenon DEF Insertion
    <2>2. t \in Seq(Alphabet) /\ idx \in 0..Len(t) /\ ch \in Alphabet
      BY <1>1
    <2>. HIDE DEF u, n, data
    <2>3. u \in Seq(Alphabet) /\ Inserted(u, t, idx, ch)
      BY <2>1, <2>2, Insertions, Zenon
    <2>. QED BY <2>3 DEF n, Inserted
  <1>. HIDE DEF m, u
  <1>6. /\ data \in [1..m -> Bytes] /\ data[idx + 1] = ch
        /\ \A i \in 1..idx : data[i] = r.Data[i]
        /\ \A i \in (idx + 2)..(n + 1) : data[i] = r.Data[i - 1]
    <2>1. \A i \in 1..m : data[i] \in Bytes
      BY <1>1, <1>4 DEF Bytes
    <2>2. data \in [1..m -> Bytes]
      BY <1>4, <2>1
    <2>. QED BY <1>1, <1>4, <2>2
  <1>. HIDE DEF data
  <1>7. /\ \A i \in 1..(n + 1) : i \in 1..idx \/ i = idx + 1 \/ i \in (idx + 2)..(n + 1)
        /\ \A i \in (idx + 2)..(n + 1) : i - 1 \in 1..n
        /\ \A i \in 1..idx : i \in 1..n
    BY <1>1
  <1>. HIDE DEF n
  <1>8. Len(u) <= m /\ \A i \in 1..Len(u) : data[i] = u[i]
    BY <1>4, <1>5, <1>6, <1>7
  <1>9. Holds(Of(data, u), u)
    BY <1>4, <1>5, <1>6, <1>8, StringResult
  <1>. QED BY <1>3, <1>5, <1>9 DEF Of, u

(* VString_Remove moves the text behind idx.                                *)
LEMMA StringRemoves ==
  ASSUME NEW s, NEW t, Holds(s, t), NEW idx \in Nat
  PROVE  Holds(VString_Remove(s, idx), IF idx < Len(t) THEN RemoveAt(t, idx + 1) ELSE t)
  <1> DEFINE n == Len(t)
             m == Len(s.Data)
  <1>1. /\ s.Length = n /\ n \in Nat /\ t \in Seq(Alphabet) /\ n <= m
        /\ s.Data \in [1..m -> Bytes] /\ DOMAIN s.Data = 1..m /\ m \in Nat \ {0}
        /\ \A i \in 1..n : s.Data[i] = t[i]
    BY Facts
  <1>2. CASE ~(idx < n)
    <2>1. VString_Remove(s, idx) = s
      BY <1>1, <1>2 DEF VString_Remove
    <2>. QED BY <1>2, <2>1
  <1>3. CASE idx < n
    <2> DEFINE u == RemoveAt(t, idx + 1)
               data == [i \in DOMAIN s.Data |-> IF i \in (idx + 1)..(n - 1)
                                                THEN s.Data[i + 1] ELSE s.Data[i]]
    <2>1. VString_Remove(s, idx) = [Data |-> data, Length |-> n - 1]
      BY <1>1, <1>3 DEF VString_Remove
    <2>2. /\ u \in Seq(Alphabet) /\ Len(u) = n - 1
          /\ \A i \in 1..idx : u[i] = t[i]
          /\ \A i \in (idx + 1)..(n - 1) : u[i] = t[i + 1]
      <3>1. u = Removal(t, idx)
        <4>1. (idx + 1) - 1 = idx
          OBVIOUS
        <4>2. u = SubSeq(t, 1, (idx + 1) - 1) \o SubSeq(t, (idx + 1) + 1, n)
          BY DEF RemoveAt
        <4>. HIDE DEF u
        <4>. QED BY <4>1, <4>2, Zenon DEF Removal
      <3>2. t \in Seq(Alphabet) /\ idx < Len(t)
        BY <1>1, <1>3
      <3>. HIDE DEF u, n, data
      <3>3. u \in Seq(Alphabet) /\ Removed(u, t, idx)
        BY <3>1, <3>2, Removals, Zenon
      <3>. QED BY <3>3 DEF n, Removed
    <2>. HIDE DEF u
    <2>3. /\ data \in [1..m -> Bytes]
          /\ \A i \in 1..idx : data[i] = s.Data[i]
          /\ \A i \in (idx + 1)..(n - 1) : data[i] = s.Data[i + 1]
      <3>1. \A i \in 1..m : i \in (idx + 1)..(n - 1) => i + 1 \in 1..m
        BY <1>1
      <3>. HIDE DEF m, n
      <3>2. data \in [1..m -> Bytes]
        BY <1>1, <3>1
      <3>. QED BY <1>1, <1>3, <3>2
    <2>. HIDE DEF data
    <2>4. /\ \A i \in 1..(n - 1) : i \in 1..idx \/ i \in (idx + 1)..(n - 1)
          /\ \A i \in (idx + 1)..(n - 1) : i + 1 \in 1..n
          /\ \A i \in 1..idx : i \in 1..n
      BY <1>1, <1>3
    <2>5. \A i \in 1..Len(u) : data[i] = u[i]
      BY <1>1, <2>2, <2>3, <2>4
    <2>6. Len(u) <= m
      BY <1>1, <2>2
    <2>. HIDE DEF n, m
    <2>7. Holds(Of(data, u), u)
      BY <1>1, <2>2, <2>3, <2>5, <2>6, StringResult
    <2>. QED BY <1>3, <2>1, <2>2, <2>7 DEF Of, u, n
  <1>. QED BY <1>2, <1>3

-----------------------------------------------------------------------------
(* The operations made of several steps.                                    *)

(* A text grows by the next character of another.                           *)
LEMMA NextCharacter ==
  ASSUME NEW t \in Seq(Alphabet), NEW u \in Seq(Alphabet), NEW k \in Nat, k < Len(u)
  PROVE  /\ u[k + 1] \in Alphabet
         /\ Append(t \o SubSeq(u, 1, k), u[k + 1]) = t \o SubSeq(u, 1, k + 1)
  <1> DEFINE v == SubSeq(u, 1, k)
             w == SubSeq(u, 1, k + 1)
             ch == u[k + 1]
             n == Len(t)
  <1>1. /\ v \in Seq(Alphabet) /\ Len(v) = k /\ (\A i \in 1..k : v[i] = u[i])
        /\ w \in Seq(Alphabet) /\ Len(w) = k + 1 /\ (\A i \in 1..(k + 1) : w[i] = u[i])
        /\ ch \in Alphabet /\ n \in Nat /\ w[k + 1] = ch
    OBVIOUS
  <1>. HIDE DEF v, w, ch
  <1>2. /\ t \o v \in Seq(Alphabet) /\ Len(t \o v) = n + k
        /\ (\A i \in 1..n : (t \o v)[i] = t[i])
        /\ \A i \in (n + 1)..(n + k) : (t \o v)[i] = v[i - n]
    <2>1. /\ t \o v \in Seq(Alphabet) /\ Len(t \o v) = n + Len(v)
          /\ (\A i \in 1..n : (t \o v)[i] = t[i])
          /\ \A i \in (n + 1)..(n + Len(v)) : (t \o v)[i] = v[i - n]
      BY <1>1, Concats
    <2>. QED BY <1>1, <2>1
  <1>3. /\ t \o w \in Seq(Alphabet) /\ Len(t \o w) = n + (k + 1)
        /\ (\A i \in 1..n : (t \o w)[i] = t[i])
        /\ \A i \in (n + 1)..(n + (k + 1)) : (t \o w)[i] = w[i - n]
    <2>1. /\ t \o w \in Seq(Alphabet) /\ Len(t \o w) = n + Len(w)
          /\ (\A i \in 1..n : (t \o w)[i] = t[i])
          /\ \A i \in (n + 1)..(n + Len(w)) : (t \o w)[i] = w[i - n]
      BY <1>1, Concats
    <2>. QED BY <1>1, <2>1
  <1> DEFINE x == t \o v
             y == t \o w
             z == Append(x, ch)
  <1>. HIDE DEF x, y
  <1>4. /\ z \in Seq(Alphabet) /\ Len(z) = n + k + 1 /\ z[n + k + 1] = ch
        /\ \A i \in 1..(n + k) : z[i] = x[i]
    BY <1>1, <1>2 DEF x
  <1>. HIDE DEF z
  <1>5. \A i \in 1..(n + k) : x[i] = y[i]
    <2>1. ASSUME NEW i \in (n + 1)..(n + k) PROVE x[i] = y[i]
      <3>1. i - n \in 1..k /\ i - n \in 1..(k + 1) /\ i \in (n + 1)..(n + (k + 1))
        BY <1>1
      <3>. HIDE DEF n
      <3>2. x[i] = v[i - n] /\ y[i] = w[i - n] /\ v[i - n] = u[i - n] /\ w[i - n] = u[i - n]
        BY <1>1, <1>2, <1>3, <3>1 DEF x, y
      <3>. QED BY <3>2
    <2>2. \A i \in 1..(n + k) : i \in 1..n \/ i \in (n + 1)..(n + k)
      BY <1>1
    <2>3. \A i \in 1..n : x[i] = y[i]
      BY <1>2, <1>3 DEF x, y
    <2>. QED BY <2>1, <2>2, <2>3
  <1>6. y[n + k + 1] = ch
    <2>1. n + k + 1 \in (n + 1)..(n + (k + 1)) /\ (n + k + 1) - n = k + 1
      BY <1>1
    <2>2. y[n + k + 1] = w[(n + k + 1) - n]
      BY <1>3, <2>1 DEF y
    <2>. QED BY <1>1, <2>1, <2>2, Zenon
  <1>7. \A i \in 1..(n + k + 1) : i \in 1..(n + k) \/ i = n + k + 1
    <2>1. n \in Nat /\ k \in Nat
      BY <1>1
    <2>. HIDE DEF n
    <2>. QED BY <2>1
  <1>8. y \in Seq(Alphabet) /\ Len(y) = n + k + 1
    <2>1. y \in Seq(Alphabet) /\ Len(y) = n + (k + 1)
      BY <1>3, Zenon DEF y
    <2>2. n + (k + 1) = n + k + 1
      BY <1>1
    <2>. QED BY <2>1, <2>2, Zenon
  <1>. HIDE DEF n
  <1>9. z = y
    <2>1. Len(z) = Len(y) /\ \A i \in 1..Len(y) : z[i] = y[i]
      BY <1>4, <1>5, <1>6, <1>7, <1>8
    <2>. QED BY <1>4, <1>8, <2>1, SameItems
  <1>. QED BY <1>1, <1>9 DEF x, y, z, v, w, ch

(* The loop of VString_Concat and VString_CopyCString.                      *)
LEMMA AppendsAll ==
  ASSUME NEW s, NEW t, Holds(s, t), NEW u \in Seq(Alphabet)
  PROVE  Holds(AppendAll(s, u), t \o u)
  <1> DEFINE n == Len(u)
             Rule(f, m) == f = [k \in 0..m |-> IF k = 0 THEN s
                                               ELSE VString_Append(f[k - 1], u[k])]
  <1>1. n \in Nat /\ t \in Seq(Alphabet) /\ u \in Seq(Alphabet)
    BY Facts
  <1>. HIDE DEF n
  <1>2. ASSUME NEW m \in Nat PROVE \E f : Rule(f, m)
    <2> DEFINE Good == {i \in Nat : \E f : Rule(f, i)}
    <2>1. 0 \in Good
      <3>1. Rule([k \in 0..0 |-> s], 0)
        OBVIOUS
      <3>. QED BY <3>1
    <2>2. ASSUME NEW i \in Nat, i \in Good PROVE i + 1 \in Good
      <3>1. PICK f : Rule(f, i)
        BY <2>2
      <3> DEFINE g == [k \in 0..(i + 1) |-> IF k = i + 1 THEN VString_Append(f[i], u[k])
                                            ELSE f[k]]
      <3>2. Rule(g, i + 1) /\ i + 1 \in Nat
        BY <3>1
      <3>. HIDE DEF g, Rule
      <3>. QED BY <3>2, Zenon
    <2>. HIDE DEF Good
    <2>3. Nat \subseteq Good
      BY <2>1, <2>2, SetInduction
    <2>. QED BY <2>3 DEF Good
  <1> DEFINE After == CHOOSE f : Rule(f, n)
  <1>3. Rule(After, n)
    BY <1>1, <1>2
  <1>4. AppendAll(s, u) = After[n]
    BY DEF AppendAll, n
  <1>. HIDE DEF After
  <1> DEFINE Good == {i \in Nat : i <= n => Holds(After[i], t \o SubSeq(u, 1, i))}
  <1>5. 0 \in Good
    <2>1. After[0] = s
      BY <1>1, <1>3
    <2>2. t \o SubSeq(u, 1, 0) = t
      BY <1>1
    <2>. QED BY <2>1, <2>2
  <1>6. ASSUME NEW i \in Nat, i \in Good PROVE i + 1 \in Good
    <2> SUFFICES ASSUME i + 1 <= n PROVE Holds(After[i + 1], t \o SubSeq(u, 1, i + 1))
      OBVIOUS
    <2>1. After[i + 1] = VString_Append(After[i], u[i + 1])
      <3>1. i + 1 \in 0..n /\ i + 1 # 0 /\ (i + 1) - 1 = i
        BY <1>1
      <3>. QED BY <1>3, <3>1
    <2>2. Holds(After[i], t \o SubSeq(u, 1, i)) /\ i < n
      BY <1>1, <1>6
    <2>3. /\ u[i + 1] \in Alphabet
          /\ Append(t \o SubSeq(u, 1, i), u[i + 1]) = t \o SubSeq(u, 1, i + 1)
      BY <1>1, <2>2, NextCharacter DEF n
    <2>4. Holds(VString_Append(After[i], u[i + 1]), Append(t \o SubSeq(u, 1, i), u[i + 1]))
      BY <2>2, <2>3, Appends
    <2>. QED BY <2>1, <2>3, <2>4, Zenon
  <1>. HIDE DEF Good
  <1>7. Nat \subseteq Good
    BY <1>5, <1>6, SetInduction
  <1>8. Holds(After[n], t \o SubSeq(u, 1, n))
    BY <1>1, <1>7 DEF Good
  <1>9. SubSeq(u, 1, n) = u
    BY <1>1 DEF n
  <1>. QED BY <1>4, <1>8, <1>9, Zenon

LEMMA Concatenates ==
  ASSUME NEW s, NEW t, Holds(s, t), NEW u \in Seq(Alphabet)
  PROVE  Holds(VString_Concat(s, u), t \o u)
  <1>1. s.Length + Len(u) \in Nat
    BY Facts
  <1>2. Holds(RoomFor(s, s.Length + Len(u)), t)
    BY <1>1, RoomsFor
  <1>. QED BY <1>2, AppendsAll DEF VString_Concat

(* A text written over the data of any string that has room for it.         *)
LEMMA Overwrites ==
  ASSUME NEW r, NEW m \in Nat \ {0}, r.Data \in [1..m -> Bytes],
         NEW u \in Seq(Alphabet), Len(u) <= m
  PROVE  Holds([Data |-> [i \in DOMAIN r.Data |-> IF i <= Len(u) THEN u[i] ELSE r.Data[i]],
                Length |-> Len(u)], u)
  <1> DEFINE data == [i \in DOMAIN r.Data |-> IF i <= Len(u) THEN u[i] ELSE r.Data[i]]
  <1>1. Len(u) \in Nat /\ \A i \in 1..Len(u) : u[i] \in Bytes
    BY DEF Bytes
  <1>2. DOMAIN r.Data = 1..m
    OBVIOUS
  <1>3. \A i \in 1..m : data[i] \in Bytes
    BY <1>1, <1>2
  <1>4. data \in [1..m -> Bytes] /\ \A i \in 1..Len(u) : data[i] = u[i]
    BY <1>1, <1>2, <1>3
  <1>. HIDE DEF data
  <1>5. Holds(Of(data, u), u)
    BY <1>4, StringResult
  <1>. QED BY <1>5 DEF Of, data

(* Clearing the text leaves the allocation.                                 *)
LEMMA Clears ==
  ASSUME NEW s, NEW t, Holds(s, t)
  PROVE  /\ Zeroed(s).Data \in [1..Capacity(s) -> Bytes] /\ Capacity(s) \in Nat \ {0}
         /\ t = <<>> => Zeroed(s) = s
  <1> DEFINE data == [i \in DOMAIN s.Data |-> IF i <= s.Length THEN NUL ELSE s.Data[i]]
             m == Capacity(s)
  <1>1. /\ s \in Strings /\ s.Data \in [1..m -> Bytes] /\ DOMAIN s.Data = 1..m
        /\ m \in Nat \ {0} /\ s.Length = Len(t)
    BY Facts DEF Holds
  <1>2. data \in [1..m -> Bytes]
    BY <1>1 DEF Bytes
  <1>3. Zeroed(s) = [s EXCEPT !.Data = data]
    BY DEF Zeroed
  <1>4. Len(t) = 0 => data = s.Data
    BY <1>1
  <1>. HIDE DEF data, m
  <1>5. Zeroed(s).Data = data /\ (data = s.Data => Zeroed(s) = s)
    BY <1>1, <1>3 DEF Strings
  <1>. QED BY <1>1, <1>2, <1>4, <1>5 DEF m

LEMMA Copies ==
  ASSUME NEW s, NEW t, Holds(s, t), NEW u \in Seq(Alphabet)
  PROVE  Holds(VString_Copy(s, u), u)
  <1> DEFINE r == RoomFor(s, Len(u))
  <1>1. Len(u) \in Nat
    OBVIOUS
  <1>2. Holds(r, t) /\ Len(u) < Capacity(r)
    BY <1>1, RoomsFor
  <1>. HIDE DEF r
  <1>3. Zeroed(r).Data \in [1..Capacity(r) -> Bytes] /\ Capacity(r) \in Nat \ {0}
    BY <1>2, Clears
  <1>4. Len(u) <= Capacity(r)
    BY <1>1, <1>2, <1>3
  <1>. QED BY <1>3, <1>4, Overwrites DEF VString_Copy, r

(* On an empty string.                                                      *)
LEMMA CopiesCString ==
  ASSUME NEW s, NEW t, Holds(s, t), s.Length = 0, NEW u \in Seq(Alphabet)
  PROVE  Holds(VString_CopyCString(s, u), u)
  <1> DEFINE r == RoomFor(s, Len(u))
             x == AppendAll(Zeroed(r), u)
  <1>1. Len(u) \in Nat /\ t \in Seq(Alphabet) /\ Len(t) = 0
    BY Facts
  <1>2. t = <<>> /\ t \o u = u
    BY <1>1
  <1>3. Holds(r, t)
    BY <1>1, RoomsFor
  <1>. HIDE DEF r
  <1>4. Zeroed(r) = r
    BY <1>2, <1>3, Clears
  <1>5. Holds(x, u)
    BY <1>2, <1>3, <1>4, AppendsAll
  <1>6. VString_CopyCString(s, u) = [x EXCEPT !.Length = Len(u)]
    BY DEF VString_CopyCString, r
  <1>. HIDE DEF x
  <1>7. x \in Strings /\ x.Length = Len(u)
    BY <1>5 DEF Holds
  <1>8. [x EXCEPT !.Length = Len(u)] = x
    BY <1>7 DEF Strings
  <1>. QED BY <1>5, <1>6, <1>8

(* What read returned of the file u, the text of it, all or less; or the    *)
(* old text, when it failed.                                                *)
LEMMA ReadsFile ==
  ASSUME NEW s, NEW t, Holds(s, t), NEW u \in Seq(Alphabet), NEW n \in -1..Len(u)
  PROVE  LET x == VString_ReadEntireFile(s, u, n)
         IN  /\ n # -1 => Holds(x, SubSeq(u, 1, n))
             /\ n = -1 => Holds(Of(x.Data, t), t)
  <1> DEFINE r == IF Len(u) >= Capacity(s) THEN VString_Resize(s, Len(u)) ELSE s
             m == Len(r.Data)
             d == [i \in DOMAIN r.Data |-> IF i <= n THEN u[i] ELSE r.Data[i]]
             x == VString_ReadEntireFile(s, u, n)
  <1>1. /\ Len(u) \in Nat /\ Len(t) \in Nat /\ Capacity(s) \in Nat /\ Capacity(s) > 0
        /\ Len(t) <= Capacity(s)
    BY Facts
  <1>2. Holds(r, t) /\ Len(u) <= Capacity(r)
    <2>1. CASE Len(u) >= Capacity(s)
      <3>1. Len(u) \in Nat \ {0} /\ Len(t) <= Len(u)
        BY <1>1, <2>1
      <3>2. Holds(VString_Resize(s, Len(u)), t) /\ Capacity(VString_Resize(s, Len(u))) = Len(u)
        BY <3>1, Resizes
      <3>. QED BY <1>1, <2>1, <3>2
    <2>2. CASE ~(Len(u) >= Capacity(s))
      BY <1>1, <2>2
    <2>. QED BY <2>1, <2>2
  <1>3. x = [Data |-> d, Length |-> IF n = -1 THEN LengthMod - 1 ELSE n]
    BY DEF VString_ReadEntireFile
  <1>. HIDE DEF r, x
  <1>4. r.Data \in [1..m -> Bytes] /\ m \in Nat \ {0} /\ Len(u) <= m /\ DOMAIN r.Data = 1..m
    BY <1>2, Facts
  <1>. HIDE DEF m
  <1>5. CASE n # -1
    <2> DEFINE v == SubSeq(u, 1, n)
    <2>1. n \in 0..Len(u)
      BY <1>1, <1>5
    <2>2. v \in Seq(Alphabet) /\ Len(v) = n /\ \A i \in 1..n : v[i] = u[i]
      BY <2>1
    <2>. HIDE DEF v
    <2>3. d = [i \in DOMAIN r.Data |-> IF i <= Len(v) THEN v[i] ELSE r.Data[i]]
      <3>1. \A i \in 1..m : i <= n => i \in 1..n
        BY <1>4, <2>1
      <3>. QED BY <1>4, <2>2, <3>1
    <2>4. x = [Data |-> [i \in DOMAIN r.Data |-> IF i <= Len(v) THEN v[i] ELSE r.Data[i]],
               Length |-> Len(v)]
      <3>. HIDE DEF d
      <3>. QED BY <1>3, <1>5, <2>2, <2>3
    <2>5. Len(v) <= m
      BY <1>1, <1>4, <2>1, <2>2
    <2>6. Holds(x, v)
      BY <1>4, <2>2, <2>4, <2>5, Overwrites
    <2>. QED BY <1>5, <2>6 DEF v, x
  <1>6. CASE n = -1
    <2>1. \A i \in 1..m : ~(i <= n)
      BY <1>4, <1>6
    <2>2. d = r.Data
      BY <1>4, <2>1
    <2>. HIDE DEF d
    <2>3. x.Data = r.Data
      BY <1>3, <2>2
    <2>4. r = [Data |-> r.Data, Length |-> r.Length] /\ r.Length = Len(t)
      BY <1>2, Facts
    <2>5. Of(x.Data, t) = r
      BY <2>3, <2>4 DEF Of
    <2>. QED BY <1>2, <1>6, <2>5 DEF x
  <1>. QED BY <1>5, <1>6

-----------------------------------------------------------------------------
(* VString_Trim.                                                            *)

(* v is t without the spaces around it: what the program expects of a trim. *)
Stripped(v, t) ==
  /\ v[1] \notin Spaces /\ v[Len(v)] \notin Spaces
  /\ \E i \in 0..Len(t) :
       /\ i + Len(v) <= Len(t)
       /\ v = SubSeq(t, i + 1, i + Len(v))
       /\ Blank(SubSeq(t, 1, i))
       /\ Blank(SubSeq(t, i + Len(v) + 1, Len(t)))

(* The characters of t that are no spaces lie from the first to the last.   *)
Bounded(t, first, last) ==
  /\ first \in 1..Len(t) /\ last \in 1..Len(t) /\ first <= last
  /\ t[first] \notin Spaces /\ t[last] \notin Spaces
  /\ \A i \in 1..Len(t) : t[i] \notin Spaces => first <= i /\ i <= last

LEMMA SubSequences ==
  ASSUME NEW S, NEW t \in Seq(S), NEW a \in Nat \ {0}, NEW b \in Nat, b <= Len(t), a <= b + 1
  PROVE  /\ SubSeq(t, a, b) \in Seq(S) /\ Len(SubSeq(t, a, b)) = b - a + 1
         /\ \A i \in 1..(b - a + 1) : SubSeq(t, a, b)[i] = t[a + i - 1]
  OBVIOUS

(* What lies between the two is the text without the spaces around it.      *)
LEMMA StripsTo ==
  ASSUME NEW t \in Seq(Alphabet), NEW first, NEW last, Bounded(t, first, last)
  PROVE  /\ SubSeq(t, first, last) \in Seq(Alphabet)
         /\ Len(SubSeq(t, first, last)) = last - first + 1
         /\ Stripped(SubSeq(t, first, last), t)
  <1> DEFINE v == SubSeq(t, first, last)
             n == Len(t)
             i == first - 1
             before == SubSeq(t, 1, i)
             after == SubSeq(t, last + 1, n)
  <1>1. /\ n \in Nat /\ first \in 1..n /\ last \in 1..n /\ first <= last
        /\ t[first] \notin Spaces /\ t[last] \notin Spaces
        /\ \A k \in 1..n : t[k] \notin Spaces => first <= k /\ k <= last
    BY DEF Bounded
  <1>2. /\ v \in Seq(Alphabet) /\ Len(v) = last - first + 1
        /\ \A k \in 1..(last - first + 1) : v[k] = t[first + k - 1]
    BY <1>1, SubSequences
  <1>3. v[1] = t[first] /\ v[Len(v)] = t[last]
    <2>1. /\ 1 \in 1..(last - first + 1) /\ first + 1 - 1 = first
          /\ last - first + 1 \in 1..(last - first + 1)
          /\ first + (last - first + 1) - 1 = last
      BY <1>1
    <2>. HIDE DEF v
    <2>2. v[1] = t[first + 1 - 1] /\ v[last - first + 1] = t[first + (last - first + 1) - 1]
      BY <1>2, <2>1
    <2>. QED BY <1>2, <2>1, <2>2, Zenon
  <1>4. Blank(before)
    <2>1. before \in Seq(Alphabet) /\ Len(before) = i /\ \A k \in 1..i : before[k] = t[k]
      BY <1>1
    <2>2. \A k \in 1..i : k \in 1..n /\ t[k] \in Spaces
      BY <1>1
    <2>. HIDE DEF before, i
    <2>. QED BY <2>1, <2>2 DEF Blank
  <1>5. Blank(after)
    <2>1. /\ after \in Seq(Alphabet) /\ Len(after) = n - last
          /\ \A k \in 1..(n - last) : after[k] = t[last + k]
      BY <1>1
    <2>2. \A k \in 1..(n - last) : t[last + k] \in Spaces
      <3>1. \A k \in 1..(n - last) : last + k \in 1..n /\ ~(last + k <= last)
        BY <1>1
      <3>. QED BY <1>1, <3>1
    <2>. HIDE DEF after
    <2>. QED BY <2>1, <2>2 DEF Blank
  <1>6. i \in 0..n /\ i + Len(v) <= n /\ i + 1 = first /\ i + Len(v) = last
    BY <1>1, <1>2
  <1>. HIDE DEF i
  <1>7. v = SubSeq(t, i + 1, i + Len(v)) /\ Blank(SubSeq(t, 1, i))
        /\ Blank(SubSeq(t, i + Len(v) + 1, n))
    BY <1>4, <1>5, <1>6, Zenon
  <1>. HIDE DEF v
  <1>8. Stripped(v, t)
    BY <1>1, <1>3, <1>6, <1>7 DEF Stripped
  <1>. QED BY <1>2, <1>8 DEF v

(* And nothing else is.                                                     *)
LEMMA StripsOnlyTo ==
  ASSUME NEW t \in Seq(Alphabet), NEW first, NEW last, Bounded(t, first, last),
         NEW v \in Seq(Alphabet), v # <<>>, Stripped(v, t)
  PROVE  v = SubSeq(t, first, last)
  <1> DEFINE n == Len(t)
             m == Len(v)
  <1>1. /\ n \in Nat /\ first \in 1..n /\ last \in 1..n /\ first <= last
        /\ t[first] \notin Spaces /\ t[last] \notin Spaces
        /\ \A k \in 1..n : t[k] \notin Spaces => first <= k /\ k <= last
    BY DEF Bounded
  <1>2. m \in Nat \ {0}
    OBVIOUS
  <1>3. PICK i \in 0..n : /\ i + m <= n /\ v = SubSeq(t, i + 1, i + m)
                          /\ Blank(SubSeq(t, 1, i)) /\ Blank(SubSeq(t, i + m + 1, n))
    BY DEF Stripped
  <1>4. v[1] \notin Spaces /\ v[m] \notin Spaces
    BY DEF Stripped
  <1>5. \A k \in 1..m : v[k] = t[i + k]
    <2> DEFINE w == SubSeq(t, i + 1, i + m)
    <2>1. \A k \in 1..m : w[k] = t[i + k]
      BY <1>1, <1>2, <1>3
    <2>2. v = w
      BY <1>3
    <2>. HIDE DEF w
    <2>. QED BY <2>1, <2>2
  <1>6. t[i + 1] \notin Spaces /\ t[i + m] \notin Spaces
    <2>1. 1 \in 1..m /\ m \in 1..m
      BY <1>2
    <2>. HIDE DEF m
    <2>. QED BY <1>4, <1>5, <2>1
  <1>7. i + 1 \in 1..n /\ i + m \in 1..n
    BY <1>1, <1>2, <1>3
  <1>8. first = i + 1
    <2>1. first <= i + 1
      BY <1>1, <1>6, <1>7
    <2>2. ASSUME first <= i PROVE FALSE
      <3> DEFINE before == SubSeq(t, 1, i)
      <3>1. Len(before) = i /\ first \in 1..i /\ before[first] = t[first]
        BY <1>1, <1>3, <2>2
      <3>2. Blank(before)
        BY <1>3
      <3>. HIDE DEF before
      <3>. QED BY <1>1, <3>1, <3>2 DEF Blank
    <2>. QED BY <1>1, <1>3, <2>1, <2>2
  <1>9. last = i + m
    <2>1. i + m <= last
      BY <1>1, <1>6, <1>7
    <2>2. ASSUME i + m < last PROVE FALSE
      <3> DEFINE after == SubSeq(t, i + m + 1, n)
                 k == last - (i + m)
      <3>0. i + m \in 0..n /\ k \in 1..(n - (i + m)) /\ (i + m) + k = last
        BY <1>1, <1>2, <1>3, <2>2
      <3>1. Len(after) = n - (i + m) /\ after[k] = t[last]
        <4>1. Len(after) = n - (i + m) /\ \A j \in 1..(n - (i + m)) : after[j] = t[(i + m) + j]
          BY <1>1, <3>0
        <4>. HIDE DEF after, k
        <4>. QED BY <3>0, <4>1
      <3>2. Blank(after)
        BY <1>3
      <3>. HIDE DEF after, k
      <3>3. k \in 1..Len(after)
        BY <3>0, <3>1
      <3>4. after[k] \in Spaces
        BY <3>2, <3>3 DEF Blank
      <3>. QED BY <1>1, <3>1, <3>4
    <2>3. last \in Nat /\ i + m \in Nat
      BY <1>1, <1>7
    <2>. QED BY <2>1, <2>2, <2>3
  <1>. QED BY <1>3, <1>8, <1>9, Zenon

(* The scans from both ends find them, and the bytes between them move to   *)
(* the beginning.                                                           *)
LEMMA Trims ==
  ASSUME NEW s, NEW t, Holds(s, t), ~Blank(t)
  PROVE  \E first, last : Bounded(t, first, last) /\ Holds(Trimmed(s), SubSeq(t, first, last))
  <1> DEFINE n == Len(t)
             m == Len(s.Data)
             solid == {i \in 1..n : s.Data[i] \notin Spaces}
             first == Min(solid)
             last == Max(solid)
             k == last - first + 1
             u == SubSeq(t, first, last)
             data == [i \in DOMAIN s.Data |-> IF i \in 1..(1 + k - 1)
                                              THEN s.Data[i - 1 + first] ELSE s.Data[i]]
  <1>1. /\ s.Length = n /\ n \in Nat /\ t \in Seq(Alphabet) /\ n <= m
        /\ s.Data \in [1..m -> Bytes] /\ DOMAIN s.Data = 1..m /\ m \in Nat \ {0}
        /\ \A i \in 1..n : s.Data[i] = t[i]
    BY Facts
  <1>2. Trimmed(s) = [Data |-> data, Length |-> k]
    <2> DEFINE w == Whole(s)
    <2>1. w.at = 1 /\ w.len = n
      BY <1>1 DEF Whole, View
    <2>2. Places(w) = 1..n
      <3>1. Places(w) = 1..(1 + n - 1)
        BY <2>1 DEF Places
      <3>2. 1 + n - 1 = n
        BY <1>1
      <3>. HIDE DEF n, w
      <3>. QED BY <3>1, <3>2, Zenon
    <2>. HIDE DEF w
    <2>3. Solid(s.Data, w) = solid
      BY <2>2 DEF Solid
    <2>. HIDE DEF solid
    <2>4. Places(View(w.at, k)) = 1..(1 + k - 1)
      BY <2>1 DEF Places, View
    <2>5. VString_Trim(s.Data, w) = [Data |-> data, Length |-> k]
      BY <2>1, <2>3, <2>4, Zenon DEF VString_Trim
    <2>. QED BY <2>5 DEF Trimmed, w
  <1>3. solid \in SUBSET (0..n) /\ solid \in SUBSET Nat /\ solid # {}
    <2>1. PICK i \in 1..n : t[i] \notin Spaces
      BY DEF Blank
    <2>2. i \in solid
      BY <1>1, <2>1
    <2>. QED BY <1>1, <2>2
  <1>4. first \in solid /\ \A i \in solid : first <= i
    <2>. HIDE DEF solid
    <2>. QED BY <1>3, LeastChosen DEF Min
  <1>5. last \in solid /\ \A i \in solid : last >= i
    <2>. HIDE DEF solid
    <2>. QED BY <1>1, <1>3, GreatestChosen DEF Max
  <1>. HIDE DEF first, last
  <1>6. Bounded(t, first, last)
    <2>1. first \in 1..n /\ last \in 1..n /\ t[first] \notin Spaces /\ t[last] \notin Spaces
      BY <1>1, <1>4, <1>5
    <2>2. \A i \in 1..n : t[i] \notin Spaces => i \in solid
      BY <1>1
    <2>. HIDE DEF solid
    <2>3. first <= last
      BY <1>4, <1>5
    <2>4. \A i \in 1..n : t[i] \notin Spaces => first <= i /\ i <= last
      BY <1>4, <1>5, <2>1, <2>2
    <2>. QED BY <2>1, <2>3, <2>4 DEF Bounded
  <1>. HIDE DEF solid
  <1>7. first \in 1..n /\ last \in 1..n /\ first <= last
    BY <1>6 DEF Bounded
  <1>8. u \in Seq(Alphabet) /\ Len(u) = k /\ \A i \in 1..k : u[i] = t[first + i - 1]
    BY <1>1, <1>7, SubSequences
  <1>9. \A i \in 1..k : i - 1 + first \in 1..n /\ i - 1 + first = first + i - 1 /\ i \in 1..m
    BY <1>1, <1>7
  <1>10. data \in [1..m -> Bytes] /\ \A i \in 1..k : data[i] = t[first + i - 1]
    <2>0. 1 + k - 1 = k
      BY <1>1, <1>7
    <2>1. \A i \in 1..k : i - 1 + first \in 1..m
      BY <1>1, <1>9
    <2>. HIDE DEF k, n, m
    <2>2. data \in [1..m -> Bytes]
      BY <1>1, <2>0, <2>1
    <2>3. \A i \in 1..k : data[i] = t[first + i - 1]
      BY <1>1, <1>9, <2>0
    <2>. QED BY <2>2, <2>3
  <1>11. k <= m
    BY <1>1, <1>7
  <1>. HIDE DEF data, u, k, n, m
  <1>12. Len(u) <= m /\ \A i \in 1..Len(u) : data[i] = u[i]
    BY <1>8, <1>10, <1>11
  <1>13. Holds(Of(data, u), u)
    BY <1>1, <1>8, <1>10, <1>12, StringResult
  <1>14. Holds(Trimmed(s), u)
    BY <1>2, <1>8, <1>13 DEF Of
  <1>. QED BY <1>6, <1>14 DEF u

-----------------------------------------------------------------------------
(* The program's texts.                                                     *)

LEMMA TextsAre ==
  ASSUME NEW t
  PROVE  t \in Texts <=> t \in Seq(Alphabet) /\ Len(t) <= MaxText
  <1>1. MaxText \in Nat
    BY MaxTextAssumption
  <1>2. Texts = UNION {[1..m -> Alphabet] : m \in 0..MaxText}
    BY DEF Texts, SeqOf
  <1>3. ASSUME t \in Texts PROVE t \in Seq(Alphabet) /\ Len(t) <= MaxText
    <2>1. PICK m \in 0..MaxText : t \in [1..m -> Alphabet]
      BY <1>2, <1>3
    <2>. QED BY <1>1, <2>1
  <1>4. ASSUME t \in Seq(Alphabet), Len(t) <= MaxText PROVE t \in Texts
    <2>1. Len(t) \in 0..MaxText /\ t \in [1..Len(t) -> Alphabet]
      BY <1>1, <1>4
    <2>. QED BY <1>2, <2>1, Zenon
  <1>. QED BY <1>3, <1>4

(* What a trim should leave is what it leaves.                              *)
LEMMA TrimExpected ==
  ASSUME NEW t \in Texts, NEW first, NEW last, Bounded(t, first, last)
  PROVE  (CHOOSE v \in Texts \ {<<>>} : Stripped(v, t)) = SubSeq(t, first, last)
         /\ SubSeq(t, first, last) \in Texts
  <1> DEFINE u == SubSeq(t, first, last)
  <1>1. t \in Seq(Alphabet) /\ Len(t) <= MaxText
    BY TextsAre
  <1>2. u \in Seq(Alphabet) /\ Len(u) = last - first + 1 /\ Stripped(u, t)
    BY <1>1, StripsTo
  <1>3. first \in 1..Len(t) /\ last \in 1..Len(t) /\ first <= last /\ Len(t) \in Nat
    BY <1>1 DEF Bounded
  <1>. HIDE DEF u
  <1>4. Len(u) <= MaxText /\ Len(u) # 0
    BY <1>1, <1>2, <1>3, MaxTextAssumption
  <1>5. u \in Texts \ {<<>>}
    BY <1>2, <1>4, TextsAre
  <1>6. \A v \in Texts \ {<<>>} : Stripped(v, t) => v = u
    <2>1. ASSUME NEW v \in Texts \ {<<>>}, Stripped(v, t) PROVE v = u
      <3>1. v \in Seq(Alphabet) /\ v # <<>>
        BY TextsAre
      <3>. QED BY <1>1, <2>1, <3>1, StripsOnlyTo DEF u
    <2>. QED BY <2>1
  <1>7. (CHOOSE v \in Texts \ {<<>>} : Stripped(v, t)) = u
    <2>. HIDE DEF Stripped
    <2>. QED BY <1>2, <1>5, <1>6, Zenon
  <1>. QED BY <1>5, <1>7 DEF u

StringInv ==
  /\ text \in Texts /\ failed \in BOOLEAN
  /\ ~failed => Holds(str, text)
  /\ failed  => Holds(Of(str.Data, text), text)

(* After every call the string holds the text, byte by byte; after a failed *)
(* read its data does.                                                      *)
LEMMA StringInvAlways == CallsSpec => []StringInv
  <1>1. CallsInit => StringInv
    <2>1. <<>> \in Seq(Alphabet) /\ Len(<<>>) <= MaxText
      BY MaxTextAssumption
    <2>2. <<>> \in Texts
      BY <2>1, TextsAre
    <2>3. Holds(VString_Init(StringSize), <<>>)
      BY StringInits, StringSizeAssumption
    <2> SUFFICES ASSUME CallsInit PROVE StringInv
      OBVIOUS
    <2>4. str = VString_Init(StringSize) /\ text = <<>> /\ failed = FALSE
      BY DEF CallsInit
    <2>. QED BY <2>2, <2>3, <2>4 DEF StringInv
  <1>2. StringInv /\ [CallsNext]_callVars => StringInv'
    <2>0. CASE UNCHANGED callVars
      <3>1. str' = str /\ text' = text /\ failed' = failed
        BY <2>0 DEF callVars
      <3>. QED BY <3>1 DEF StringInv, Holds, Of, Strings, Capacity, Bytes, Texts
    <2> SUFFICES ASSUME StringInv, CallsNext
                 PROVE  StringInv'
      BY <2>0
    <2>00. ~failed /\ failed \in BOOLEAN
      BY DEF CallsNext, StringInv
    <2>1. /\ Holds(str, text) /\ text \in Texts /\ text \in Seq(Alphabet)
          /\ Len(text) <= MaxText /\ Len(text) \in Nat /\ MaxText \in Nat
      <3>1. Holds(str, text) /\ text \in Texts
        BY <2>00, Zenon DEF StringInv
      <3>. QED BY <3>1, TextsAre, MaxTextAssumption
    <2>2. ASSUME Holds(str', text'), Len(text') <= MaxText PROVE text' \in Texts
      <3>1. text' \in Seq(Alphabet)
        BY <2>2, Facts
      <3>. QED BY <2>2, <3>1, TextsAre
    <2>3. ASSUME CallTrim PROVE Holds(str', text') /\ text' \in Texts
      <3>1. PICK first, last : Bounded(text, first, last)
                               /\ Holds(Trimmed(str), SubSeq(text, first, last))
        BY <2>1, <2>3, Trims DEF CallTrim
      <3>2. text' = CHOOSE v \in Texts \ {<<>>} : Stripped(v, text)
        BY <2>3, Zenon DEF CallTrim, Stripped
      <3>3. text' = SubSeq(text, first, last) /\ SubSeq(text, first, last) \in Texts
        BY <2>1, <3>1, <3>2, TrimExpected
      <3>. QED BY <2>3, <3>1, <3>3 DEF CallTrim
    <2>4. ASSUME NEW ch \in Alphabet, CallAppend(ch)
          PROVE  Holds(str', text') /\ text' \in Texts
      <3>1. Holds(str', text')
        BY <2>1, <2>4, Appends DEF CallAppend
      <3>2. Len(text') = Len(text) + 1 /\ Len(text) < MaxText
        BY <2>1, <2>4 DEF CallAppend
      <3>3. Len(text') <= MaxText
        BY <2>1, <3>2
      <3>. QED BY <2>2, <3>1, <3>3
    <2>5. ASSUME NEW ch \in Alphabet, NEW idx \in 0..Len(text), CallInsert(idx, ch)
          PROVE  Holds(str', text') /\ text' \in Texts
      <3>1. Holds(str', text')
        BY <2>1, <2>5, StringInserts DEF CallInsert
      <3>2. str'.Length = Len(text')
        BY <3>1, Facts
      <3>3. str' = VString_Insert(str, idx, ch) /\ str.Length = Len(text) /\ Len(text) < MaxText
        BY <2>1, <2>5, Facts DEF CallInsert
      <3>4. str'.Length = Len(text) + 1
        BY <3>3 DEF VString_Insert
      <3>5. Len(text') <= MaxText
        BY <2>1, <3>2, <3>3, <3>4
      <3>. QED BY <2>2, <3>1, <3>5
    <2>6. ASSUME NEW idx \in 0..Len(text), CallRemove(idx)
          PROVE  Holds(str', text') /\ text' \in Texts
      <3>1. Holds(str', text')
        BY <2>1, <2>6, StringRemoves DEF CallRemove
      <3>2. str'.Length = Len(text') /\ str.Length = Len(text)
        BY <2>1, <3>1, Facts
      <3>3. str' = str \/ str'.Length = Len(text) - 1
        BY <2>6, <3>2 DEF CallRemove, VString_Remove
      <3>4. Len(text') <= MaxText
        BY <2>1, <3>2, <3>3
      <3>. QED BY <2>2, <3>1, <3>4
    <2>7. ASSUME NEW t \in Texts, CallConcat(t)
          PROVE  Holds(str', text') /\ text' \in Texts
      <3>1. t \in Seq(Alphabet)
        BY TextsAre
      <3>2. Holds(str', text')
        BY <2>1, <2>7, <3>1, Concatenates DEF CallConcat
      <3>3. Len(text \o t) = Len(text) + Len(t)
        BY <2>1, <3>1
      <3>4. Len(text') <= MaxText
        BY <2>7, <3>3 DEF CallConcat
      <3>. QED BY <2>2, <3>2, <3>4
    <2>8. ASSUME NEW t \in Texts, CallCopy(t) \/ CallCopyCString(t)
          PROVE  Holds(str', text') /\ text' \in Texts
      <3>1. t \in Seq(Alphabet)
        BY TextsAre
      <3>2. CASE CallCopy(t)
        BY <2>1, <3>1, <3>2, Copies DEF CallCopy
      <3>3. CASE CallCopyCString(t)
        BY <2>1, <3>1, <3>3, CopiesCString DEF CallCopyCString
      <3>. QED BY <2>8, <3>2, <3>3
    <2>9. CASE Calls /\ UNCHANGED failed
      <3>1. Holds(str', text') /\ text' \in Texts
        BY <2>3, <2>4, <2>5, <2>6, <2>7, <2>8, <2>9 DEF Calls
      <3>2. ~failed' /\ failed' \in BOOLEAN
        BY <2>00, <2>9
      <3>. QED BY <3>1, <3>2 DEF StringInv, Holds, Of, Strings, Capacity, Bytes, Texts
    <2>10. ASSUME NEW t \in Texts, NEW Read \in -1..Len(t), CallReadEntireFile(t, Read)
           PROVE  StringInv'
      <3> DEFINE x == VString_ReadEntireFile(str, t, Read)
                 v == SubSeq(t, 1, Read)
      <3>1. t \in Seq(Alphabet) /\ Len(t) <= MaxText /\ Len(t) \in Nat
        BY TextsAre
      <3>2. (Read # -1 => Holds(x, v)) /\ (Read = -1 => Holds(Of(x.Data, text), text))
        BY <2>1, <3>1, ReadsFile
      <3>3. str' = x /\ failed' = (Read = -1) /\ text' = IF Read = -1 THEN text ELSE v
        BY <2>10 DEF CallReadEntireFile
      <3>4. Read # -1 => v \in Texts
        <4>1. Read # -1 => Read \in 0..Len(t)
          BY <3>1
        <4>2. Read # -1 => v \in Seq(Alphabet) /\ Len(v) = Read /\ Read <= Len(t)
          BY <3>1, <4>1
        <4>3. Read # -1 => v \in Seq(Alphabet) /\ Len(v) <= MaxText
          <5>. HIDE DEF v
          <5>. QED BY <2>1, <3>1, <4>2
        <4>. QED BY <4>3, TextsAre
      <3>. HIDE DEF x, v
      <3>5. /\ text' \in Texts /\ failed' \in BOOLEAN
            /\ ~failed' => Holds(str', text')
            /\ failed'  => Holds(Of(str'.Data, text'), text')
        BY <2>1, <3>2, <3>3, <3>4
      <3>. QED BY <3>5 DEF StringInv, Holds, Of, Strings, Capacity, Bytes, Texts
    <2>. QED BY <2>9, <2>10 DEF CallsNext
  <1>. QED BY <1>1, <1>2, PTL DEF CallsSpec

(* A string that holds a text has it in front.                              *)
LEMMA TextInFront ==
  ASSUME NEW s, NEW t, Holds(s, t)
  PROVE  s.Length = Len(t) /\ Len(t) <= Capacity(s) /\ SubSeq(s.Data, 1, Len(t)) = t
  <1> DEFINE w == SubSeq(s.Data, 1, Len(t))
  <1>1. /\ s.Data \in Seq(Bytes) /\ Len(s.Data) \in Nat /\ Capacity(s) = Len(s.Data)
        /\ t \in Seq(Alphabet) /\ Len(t) \in Nat /\ s.Length = Len(t)
        /\ Len(t) <= Len(s.Data) /\ \A i \in 1..Len(t) : s.Data[i] = t[i]
    BY Facts
  <1>2. w \in Seq(Bytes) /\ Len(w) = Len(t) /\ \A i \in 1..Len(t) : w[i] = s.Data[i]
    BY <1>1
  <1>. HIDE DEF w
  <1>3. \A i \in 1..Len(t) : w[i] = t[i]
    BY <1>1, <1>2
  <1>4. w = t
    BY <1>1, <1>2, <1>3, SameItems
  <1>. QED BY <1>1, <1>4 DEF w

(* Whatever calls a program makes of vstring.c, and however often the       *)
(* string grows in between, it holds the text they should have made, within *)
(* its capacity: of a file what read returned of it, all or less.  Only a   *)
(* read that fails (VString_ReadEntireFile, line 178) sets Length to what   *)
(* no capacity holds; the data still begin with the old text.               *)
THEOREM StringHoldsText == CallsSpec => []StringsExact
  <1>1. StringInv => StringsExact
    <2> SUFFICES ASSUME StringInv PROVE StringsExact
      OBVIOUS
    <2>1. CASE ~failed
      <3>1. str.Length = Len(text) /\ Len(text) <= Capacity(str) /\ SubSeq(str.Data, 1, Len(text)) = text
        <4>1. Holds(str, text)
          BY <2>1, Zenon DEF StringInv
        <4>. QED BY <4>1, TextInFront
      <3>. QED BY <2>1, <3>1 DEF StringsExact, Text
    <2>2. CASE failed
      <3> DEFINE s == Of(str.Data, text)
      <3>1. Holds(s, text)
        BY <2>2, Zenon DEF StringInv
      <3>2. Len(text) <= Capacity(s) /\ SubSeq(s.Data, 1, Len(text)) = text
        BY <3>1, TextInFront
      <3>3. s.Data = str.Data /\ Capacity(s) = Capacity(str)
        BY DEF Of, Capacity
      <3>. QED BY <2>2, <3>2, <3>3 DEF StringsExact
    <2>. QED BY <2>1, <2>2
  <1>. QED BY <1>1, StringInvAlways, PTL

-----------------------------------------------------------------------------
(* The finders of a character, on a string that holds the text t.           *)
Found(s, t, ch) ==
  LET at == {i \in 1..Len(t) : t[i] = ch}
  IN  /\ VString_FindFirstCharOccurence(s.Data, Whole(s), ch)
           = IF at = {} THEN -1 ELSE Min(at) - 1
      /\ VString_FindLastCharOccurence(s.Data, Whole(s), ch)
           = IF at \subseteq {1} THEN -1 ELSE Max(at) - 1

LEMMA FindsCharacters ==
  ASSUME NEW s, NEW t, Holds(s, t), NEW ch
  PROVE  Found(s, t, ch)
  <1> DEFINE n == Len(t)
             w == Whole(s)
             at == {i \in 1..n : t[i] = ch}
             first == VString_FindFirstCharOccurence(s.Data, w, ch)
             last == VString_FindLastCharOccurence(s.Data, w, ch)
  <1>1. n \in Nat /\ s.Length = n /\ \A i \in 1..n : s.Data[i] = t[i]
    BY Facts
  <1>2. w.at = 1 /\ Places(w) = 1..n
    <2>1. w.at = 1 /\ w.len = n
      BY <1>1 DEF Whole, View
    <2>2. Places(w) = 1..(1 + n - 1)
      BY <2>1 DEF Places
    <2>3. 1 + n - 1 = n
      BY <1>1
    <2>. HIDE DEF n, w
    <2>. QED BY <2>1, <2>2, <2>3, Zenon
  <1>3. {i \in Places(w) : s.Data[i] = ch} = at
    BY <1>1, <1>2
  <1>4. {i \in Places(w) \ {w.at} : s.Data[i] = ch} = at \ {1}
    BY <1>1, <1>2
  <1>5. first = IF at = {} THEN -1 ELSE Min(at) - 1
    <2>. HIDE DEF w, at
    <2>1. first = IF at = {} THEN -1 ELSE Min(at) - w.at
      BY <1>3, Zenon DEF VString_FindFirstCharOccurence
    <2>. QED BY <1>2, <2>1, Zenon
  <1>6. last = IF at \ {1} = {} THEN -1 ELSE Max(at \ {1}) - 1
    <2>. HIDE DEF w, at
    <2>1. last = IF at \ {1} = {} THEN -1 ELSE Max(at \ {1}) - w.at
      BY <1>4, Zenon DEF VString_FindLastCharOccurence
    <2>. QED BY <1>2, <2>1, Zenon
  <1>7. at \subseteq 1..n /\ at \in SUBSET (0..n)
    BY <1>1
  <1>. HIDE DEF at, n, last
  <1>8. ASSUME ~(at \subseteq {1}) PROVE Max(at \ {1}) = Max(at) /\ at \ {1} # {}
    <2>1. at # {} /\ at \ {1} # {} /\ at \ {1} \in SUBSET (0..n)
      BY <1>7, <1>8
    <2>2. Max(at) \in at /\ \A i \in at : Max(at) >= i
      BY <1>1, <1>7, <2>1, GreatestChosen DEF Max
    <2>3. Max(at \ {1}) \in at \ {1} /\ \A i \in at \ {1} : Max(at \ {1}) >= i
      <3> DEFINE rest == at \ {1}
      <3>. HIDE DEF rest
      <3>1. Max(rest) \in rest /\ \A i \in rest : Max(rest) >= i
        BY <1>1, <2>1, GreatestChosen DEF Max, rest
      <3>. QED BY <3>1 DEF rest
    <2> DEFINE b == Max(at \ {1})
               c == Max(at)
    <2>4. b \in at /\ b # 1 /\ b \in Nat /\ c \in Nat /\ c >= b
      <3>. HIDE DEF b, c
      <3>1. b \in at /\ b # 1
        BY <2>3 DEF b
      <3>2. c \in at /\ c >= b
        BY <2>2, <3>1 DEF c
      <3>. QED BY <1>1, <1>7, <3>1, <3>2
    <2>5. c # 1
      <3>. HIDE DEF b, c
      <3>1. b >= 1
        BY <1>1, <1>7, <2>4
      <3>. QED BY <2>4, <3>1
    <2>6. Max(at) >= Max(at \ {1}) /\ Max(at \ {1}) >= Max(at)
      <3>1. c \in at \ {1}
        BY <2>2, <2>5
      <3>. HIDE DEF b, c
      <3>2. b >= c
        BY <2>3, <3>1 DEF b
      <3>. QED BY <2>4, <3>2 DEF b, c
    <2>. HIDE DEF b, c
    <2>7. b = c
      BY <2>4, <2>6 DEF b, c
    <2>. QED BY <2>1, <2>7 DEF b, c
  <1>9. last = IF at \subseteq {1} THEN -1 ELSE Max(at) - 1
    <2>1. CASE at \subseteq {1}
      <3>1. at \ {1} = {}
        BY <2>1
      <3>. QED BY <1>6, <2>1, <3>1, Zenon
    <2>2. CASE ~(at \subseteq {1})
      BY <1>6, <1>8, <2>2, Zenon
    <2>. QED BY <2>1, <2>2
  <1>. QED BY <1>5, <1>9 DEF at, n, last, w, Found

-----------------------------------------------------------------------------
(* The split: the text t is cut behind every occurrence of the separator.   *)

Splits(t, sep) ==
  /\ t \in Seq(Alphabet) /\ sep \in Seq(Alphabet \cup {SP}) /\ Len(sep) \in {1, 2}
  /\ Len(sep) = 2 => sep[1] # sep[2]
  /\ ~FalseStart(t, sep)

CutAt(t, sep, i) ==
  IF Len(sep) = 1 THEN t[i] = sep[1] ELSE i > 1 /\ t[i - 1] = sep[1] /\ t[i] = sep[2]

LEMMA CutsAre ==
  ASSUME NEW t, NEW sep, Splits(t, sep), NEW c
  PROVE  c \in Cuts(t, sep) <=> c = 0 \/ (c \in 1..Len(t) /\ CutAt(t, sep, c))
  <1> DEFINE n == Len(t)
             m == Len(sep)
  <1>1. t \in Seq(Alphabet) /\ sep \in Seq(Alphabet \cup {SP}) /\ m \in {1, 2} /\ n \in Nat
    BY DEF Splits
  <1>2. ASSUME c \in 1..n PROVE CutAt(t, sep, c) <=> c >= m /\ SubSeq(t, c - m + 1, c) = sep
    <2>1. CASE m = 1
      <3> DEFINE w == SubSeq(t, c, c)
      <3>1. w \in Seq(Alphabet) /\ Len(w) = 1 /\ w[1] = t[c]
        BY <1>1, <1>2
      <3>2. c - m + 1 = c /\ c >= m
        BY <1>2, <2>1
      <3>. HIDE DEF w
      <3>3. w = sep => t[c] = sep[1]
        BY <3>1
      <3>4. t[c] = sep[1] => w = sep
        <4>1. ASSUME t[c] = sep[1] PROVE \A k \in 1..Len(sep) : w[k] = sep[k]
          BY <2>1, <3>1, <4>1
        <4>. QED BY <1>1, <2>1, <3>1, <4>1, SameItems
      <3>5. SubSeq(t, c - m + 1, c) = w
        BY <3>2 DEF w
      <3>. QED BY <2>1, <3>2, <3>3, <3>4, <3>5 DEF CutAt
    <2>2. CASE m = 2 /\ c > 1
      <3> DEFINE w == SubSeq(t, c - 1, c)
      <3>1. w \in Seq(Alphabet) /\ Len(w) = 2 /\ w[1] = t[c - 1] /\ w[2] = t[c]
        <4>1. c - 1 \in 1..n /\ c \in 1..n /\ n \in Nat
          BY <1>1, <1>2, <2>2
        <4>. HIDE DEF n
        <4>2. \A k \in 1..2 : w[k] = t[c - 1 + k - 1]
          BY <1>1, <4>1 DEF n
        <4>3. w \in Seq(Alphabet) /\ Len(w) = 2
          BY <1>1, <4>1 DEF n
        <4>. HIDE DEF w
        <4>4. w[1] = t[c - 1 + 1 - 1] /\ w[2] = t[c - 1 + 2 - 1]
          <5>1. 1 \in 1..2 /\ 2 \in 1..2
            OBVIOUS
          <5>. QED BY <4>2, <5>1, Zenon
        <4>5. c - 1 + 1 - 1 = c - 1 /\ c - 1 + 2 - 1 = c
          BY <4>1
        <4>. QED BY <4>3, <4>4, <4>5, Zenon
      <3>2. c - m + 1 = c - 1 /\ c >= m
        BY <1>2, <2>2
      <3>. HIDE DEF w
      <3>3. w = sep => t[c - 1] = sep[1] /\ t[c] = sep[2]
        BY <3>1
      <3>4. t[c - 1] = sep[1] /\ t[c] = sep[2] => w = sep
        <4>1. ASSUME t[c - 1] = sep[1], t[c] = sep[2] PROVE \A k \in 1..Len(sep) : w[k] = sep[k]
          BY <2>2, <3>1, <4>1
        <4>. QED BY <1>1, <2>2, <3>1, <4>1, SameItems
      <3>5. SubSeq(t, c - m + 1, c) = w
        BY <3>2 DEF w
      <3>6. CutAt(t, sep, c) <=> t[c - 1] = sep[1] /\ t[c] = sep[2]
        BY <2>2 DEF CutAt
      <3>. QED BY <3>2, <3>3, <3>4, <3>5, <3>6, Zenon
    <2>3. CASE m = 2 /\ ~(c > 1)
      BY <1>2, <2>3 DEF CutAt
    <2>. QED BY <1>1, <2>1, <2>2, <2>3
  <1>3. 0 \notin 1..n
    OBVIOUS
  <1>. QED BY <1>2 DEF Cuts

(* A piece of the text from cut c to cut d, with the separator behind it.   *)
Gap(t, sep, c, d) ==
  /\ c \in Cuts(t, sep) /\ d \in Cuts(t, sep) /\ c < d
  /\ \A x \in Cuts(t, sep) : x <= c \/ d <= x

Piece(t, sep, c, d) == Gap(t, sep, c, d) /\ d - c > Len(sep)

(* Where a view begins, as a cut, and where its separator ends.             *)
Behind(w)  == w.at - 1
EndOf(w, sep) == w.at - 1 + w.len + Len(sep)

Views == [at : Nat \ {0}, len : Nat]

(* The views are those of the pieces that are not empty up to the cut last. *)
Listed(t, sep, views, last) ==
  /\ views \in Seq(Views) /\ last \in Cuts(t, sep)
  /\ \A j \in 1..Len(views) : /\ Piece(t, sep, Behind(views[j]), EndOf(views[j], sep))
                              /\ EndOf(views[j], sep) <= last
  /\ \A j, l \in 1..Len(views) : j < l => Behind(views[j]) < Behind(views[l])
  /\ \A c \in Cuts(t, sep), d \in Cuts(t, sep) :
       Piece(t, sep, c, d) /\ d <= last => \E j \in 1..Len(views) : Behind(views[j]) = c

(* The next cut moves last, and adds a view if the piece is not empty.      *)
LEMMA ListsEmpty ==
  ASSUME NEW t, NEW sep, Splits(t, sep), NEW views, NEW c, NEW d, Listed(t, sep, views, c),
         Gap(t, sep, c, d), d - c <= Len(sep)
  PROVE  Listed(t, sep, views, d)
  <1>1. \A x \in Cuts(t, sep) : x \in Nat
    <2>1. Len(t) \in Nat
      BY DEF Splits
    <2>. QED BY <2>1, CutsAre
  <1>2. c \in Nat /\ d \in Nat /\ c < d /\ Len(sep) \in Nat
    BY <1>1 DEF Gap, Splits
  <1>3. views \in Seq(Views) /\ d \in Cuts(t, sep) /\ c \in Cuts(t, sep)
    BY DEF Listed, Gap
  <1>4. ASSUME NEW j \in 1..Len(views)
        PROVE  /\ Piece(t, sep, Behind(views[j]), EndOf(views[j], sep))
               /\ EndOf(views[j], sep) <= d
    <2>1. Piece(t, sep, Behind(views[j]), EndOf(views[j], sep)) /\ EndOf(views[j], sep) <= c
      BY <1>4 DEF Listed
    <2>2. EndOf(views[j], sep) \in Nat
      BY <1>1, <2>1 DEF Piece, Gap
    <2>. QED BY <1>2, <2>1, <2>2
  <1>5. \A j, l \in 1..Len(views) : j < l => Behind(views[j]) < Behind(views[l])
    BY DEF Listed
  <1>6. ASSUME NEW a \in Cuts(t, sep), NEW b \in Cuts(t, sep), Piece(t, sep, a, b), b <= d
        PROVE  \E j \in 1..Len(views) : Behind(views[j]) = a
    <2>1. a \in Nat /\ b \in Nat /\ a < b /\ b - a > Len(sep)
      BY <1>1, <1>6 DEF Piece, Gap
    <2>2. b <= c \/ d <= b
      BY <1>6 DEF Gap
    <2>3. CASE b <= c
      BY <1>6, <2>3 DEF Listed
    <2>4. CASE d <= b
      <3>1. b = d
        BY <1>2, <1>6, <2>1, <2>4
      <3>2. c <= a \/ b <= c
        BY <1>3, <1>6 DEF Piece, Gap
      <3>3. a <= c \/ d <= a
        BY <1>6 DEF Gap
      <3>4. a = c
        BY <1>2, <2>1, <3>1, <3>2, <3>3
      <3>. QED BY <1>2, <2>1, <3>1, <3>4
    <2>. QED BY <2>2, <2>3, <2>4
  <1>. QED BY <1>3, <1>4, <1>5, <1>6 DEF Listed

LEMMA ListsPiece ==
  ASSUME NEW t, NEW sep, Splits(t, sep), NEW views, NEW c, NEW d, Listed(t, sep, views, c),
         Piece(t, sep, c, d)
  PROVE  Listed(t, sep, Append(views, View(c + 1, d - Len(sep) - c)), d)
  <1> DEFINE w == View(c + 1, d - Len(sep) - c)
             more == Append(views, w)
             n == Len(views)
  <1>1. \A x \in Cuts(t, sep) : x \in Nat
    <2>1. Len(t) \in Nat
      BY DEF Splits
    <2>. QED BY <2>1, CutsAre
  <1>2. /\ c \in Nat /\ d \in Nat /\ c < d /\ d - c > Len(sep) /\ Len(sep) \in Nat
        /\ Gap(t, sep, c, d)
    BY <1>1 DEF Piece, Gap, Splits
  <1>3. /\ views \in Seq(Views) /\ n \in Nat /\ d \in Cuts(t, sep) /\ c \in Cuts(t, sep)
    BY DEF Listed, Piece, Gap
  <1>4. w \in Views /\ Behind(w) = c /\ EndOf(w, sep) = d
    <2>1. w.at = c + 1 /\ w.len = d - Len(sep) - c
      BY DEF View
    <2>2. c + 1 \in Nat \ {0} /\ d - Len(sep) - c \in Nat
      BY <1>2
    <2>3. w \in Views
      BY <2>2 DEF View, Views
    <2>. HIDE DEF w
    <2>. QED BY <1>2, <2>1, <2>3 DEF Behind, EndOf
  <1>. HIDE DEF w
  <1>5. /\ more \in Seq(Views) /\ Len(more) = n + 1 /\ more[n + 1] = w
        /\ \A j \in 1..n : more[j] = views[j]
    BY <1>3, <1>4
  <1>. HIDE DEF more
  <1>6. \A j \in 1..n : /\ Piece(t, sep, Behind(views[j]), EndOf(views[j], sep))
                        /\ EndOf(views[j], sep) <= c
                        /\ Behind(views[j]) \in Nat /\ EndOf(views[j], sep) \in Nat
                        /\ Behind(views[j]) < c
    <2> SUFFICES ASSUME NEW j \in 1..n
                 PROVE  /\ Piece(t, sep, Behind(views[j]), EndOf(views[j], sep))
                        /\ EndOf(views[j], sep) <= c
                        /\ Behind(views[j]) \in Nat /\ EndOf(views[j], sep) \in Nat
                        /\ Behind(views[j]) < c
      OBVIOUS
    <2>1. Piece(t, sep, Behind(views[j]), EndOf(views[j], sep)) /\ EndOf(views[j], sep) <= c
      BY DEF Listed
    <2>2. /\ Behind(views[j]) \in Nat /\ EndOf(views[j], sep) \in Nat
          /\ Behind(views[j]) < EndOf(views[j], sep)
      BY <1>1, <2>1 DEF Piece, Gap
    <2>. QED BY <1>2, <2>1, <2>2
  <1>7. \A j \in 1..(n + 1) : j \in 1..n \/ j = n + 1
    BY <1>3
  <1>8. ASSUME NEW j \in 1..(n + 1)
        PROVE  /\ Piece(t, sep, Behind(more[j]), EndOf(more[j], sep))
               /\ EndOf(more[j], sep) <= d
    <2>1. CASE j = n + 1
      BY <1>2, <1>4, <1>5, <2>1
    <2>2. CASE j \in 1..n
      BY <1>2, <1>5, <1>6, <2>2
    <2>. QED BY <1>7, <2>1, <2>2
  <1>9. ASSUME NEW j \in 1..(n + 1), NEW l \in 1..(n + 1), j < l
        PROVE  Behind(more[j]) < Behind(more[l])
    <2>1. j \in 1..n
      BY <1>3, <1>9
    <2>2. CASE l = n + 1
      BY <1>4, <1>5, <1>6, <2>1, <2>2
    <2>3. CASE l \in 1..n
      <3>1. Behind(views[j]) < Behind(views[l])
        BY <1>9, <2>1, <2>3 DEF Listed
      <3>. QED BY <1>5, <2>1, <2>3, <3>1
    <2>. QED BY <1>7, <2>2, <2>3
  <1>10. ASSUME NEW a \in Cuts(t, sep), NEW b \in Cuts(t, sep), Piece(t, sep, a, b), b <= d
         PROVE  \E j \in 1..(n + 1) : Behind(more[j]) = a
    <2>1. a \in Nat /\ b \in Nat /\ a < b /\ b - a > Len(sep)
      BY <1>1, <1>10 DEF Piece, Gap
    <2>2. b <= c \/ d <= b
      BY <1>2, <1>10 DEF Gap
    <2>3. CASE b <= c
      <3>1. PICK j \in 1..n : Behind(views[j]) = a
        BY <1>10, <2>3 DEF Listed
      <3>2. j \in 1..(n + 1)
        BY <1>3
      <3>. QED BY <1>5, <3>1, <3>2
    <2>4. CASE d <= b
      <3>1. b = d
        BY <1>2, <1>10, <2>1, <2>4
      <3>2. c <= a \/ b <= c
        BY <1>3, <1>10 DEF Piece, Gap
      <3>3. a <= c \/ d <= a
        BY <1>2, <1>10 DEF Gap
      <3>4. a = c
        BY <1>2, <2>1, <3>1, <3>2, <3>3
      <3>5. n + 1 \in 1..(n + 1)
        BY <1>3
      <3>. QED BY <1>4, <1>5, <3>4, <3>5
    <2>. QED BY <2>2, <2>3, <2>4
  <1>. QED BY <1>3, <1>5, <1>8, <1>9, <1>10 DEF Listed, more, w

-----------------------------------------------------------------------------
(* The loop of the split.                                                   *)

SplitStates == [views : Seq(Views), start : Nat, check : Nat, full : BOOLEAN]

(* After k characters: the last cut is the last one among them, unless the  *)
(* array was full when another was found.                                   *)
SplitInv(a, t, sep, size, k) ==
  /\ a \in SplitStates
  /\ Listed(t, sep, a.views, a.start - 1) /\ Len(a.views) <= size
  /\ ~a.full => /\ a.start - 1 <= k
                /\ \A x \in Cuts(t, sep) : x <= k => x <= a.start - 1
                /\ a.check \in {0, 1}
                /\ a.check = 1 <=> Len(sep) = 2 /\ k > 0 /\ t[k] = sep[1]
  /\ a.full => Len(a.views) = size /\ \E x \in Cuts(t, sep) : a.start - 1 < x

LEMMA SplitBegins ==
  ASSUME NEW t, NEW sep, Splits(t, sep), NEW size \in Nat
  PROVE  SplitInv([views |-> <<>>, start |-> 1, check |-> 0, full |-> FALSE], t, sep, size, 0)
  <1> DEFINE a == [views |-> <<>>, start |-> 1, check |-> 0, full |-> FALSE]
  <1>1. a \in SplitStates /\ a.views = <<>> /\ a.start = 1 /\ a.check = 0 /\ a.full = FALSE
    BY DEF SplitStates
  <1>. HIDE DEF a
  <1>2. \A x \in Cuts(t, sep) : x \in Nat
    <2>1. Len(t) \in Nat
      BY DEF Splits
    <2>. QED BY <2>1, CutsAre
  <1>3. Listed(t, sep, <<>>, 0)
    <2>1. <<>> \in Seq(Views) /\ Len(<<>>) = 0 /\ 0 \in Cuts(t, sep)
      BY CutsAre
    <2>2. ASSUME NEW c \in Cuts(t, sep), NEW d \in Cuts(t, sep), Piece(t, sep, c, d), d <= 0
          PROVE  FALSE
      BY <1>2, <2>2 DEF Piece, Gap
    <2>. QED BY <2>1, <2>2 DEF Listed
  <1>4. 1 - 1 = 0 /\ Len(<<>>) <= size
    OBVIOUS
  <1>5. /\ a.start - 1 <= 0
        /\ \A x \in Cuts(t, sep) : x <= 0 => x <= a.start - 1
        /\ a.check \in {0, 1}
        /\ a.check = 1 <=> Len(sep) = 2 /\ 0 > 0 /\ t[0] = sep[1]
    BY <1>1
  <1>6. SplitInv(a, t, sep, size, 0)
    BY <1>1, <1>3, <1>4, <1>5 DEF SplitInv
  <1>. QED BY <1>6 DEF a

LEMMA SplitKeeps ==
  ASSUME NEW t, NEW sep, Splits(t, sep), NEW size \in Nat, NEW k \in Nat, k < Len(t),
         NEW data, data[k + 1] = t[k + 1], NEW a, SplitInv(a, t, sep, size, k)
  PROVE  SplitInv(SplitStep(a, data, k + 1, sep, size), t, sep, size, k + 1)
  <1> DEFINE i == k + 1
             m == Len(sep)
             c == a.start - 1
             b == SplitStep(a, data, i, sep, size)
  <1>1. /\ a \in SplitStates /\ Listed(t, sep, a.views, c) /\ Len(a.views) <= size
        /\ a.views \in Seq(Views) /\ Len(a.views) \in Nat /\ a.full \in BOOLEAN
        /\ a.start \in Nat /\ a.check \in Nat /\ c \in Cuts(t, sep)
    BY DEF SplitInv, SplitStates, Listed
  <1>2. /\ Len(t) \in Nat /\ m \in {1, 2} /\ (m = 2 => sep[1] # sep[2]) /\ i \in 1..Len(t)
        /\ k = i - 1
    BY DEF Splits
  <1>3. \A x \in Cuts(t, sep) : x \in Nat
    BY <1>2, CutsAre
  <1>4. CASE a.full
    <2>1. b = a
      BY <1>4 DEF SplitStep
    <2>. HIDE DEF b
    <2>2. Len(a.views) = size /\ \E x \in Cuts(t, sep) : c < x
      BY <1>4 DEF SplitInv
    <2>3. SplitInv(a, t, sep, size, i)
      BY <1>1, <1>4, <2>2, Zenon DEF SplitInv
    <2>. QED BY <2>1, <2>3, Zenon DEF b
  <1>5. CASE ~a.full
    <2>1. /\ c <= k /\ (\A x \in Cuts(t, sep) : x <= k => x <= c)
          /\ a.check \in {0, 1}
          /\ a.check = 1 <=> m = 2 /\ k > 0 /\ t[k] = sep[1]
      BY <1>5 DEF SplitInv
    <2>2. i \in Cuts(t, sep) <=> CutAt(t, sep, i)
      BY <1>2, CutsAre
    <2>3. c \in Nat /\ (c # 0 => CutAt(t, sep, c))
      BY <1>1, <1>3, CutsAre
    <2>4. ASSUME i \notin Cuts(t, sep), NEW x \in Cuts(t, sep), x <= i PROVE x <= c
      BY <1>2, <1>3, <2>1, <2>4
    <2>5. ASSUME data[i] # sep[a.check + 1]
          PROVE  SplitInv(b, t, sep, size, i)
      <3>1. b = [a EXCEPT !.check = 0]
        BY <1>5, <2>5 DEF SplitStep
      <3>. HIDE DEF b
      <3>2. b \in SplitStates /\ b.views = a.views /\ b.start = a.start /\ ~b.full /\ b.check = 0
        BY <1>1, <1>5, <3>1 DEF SplitStates
      <3>3. ~CutAt(t, sep, i)
        <4>1. CASE m = 1
          <5>1. a.check = 0
            BY <2>1, <4>1
          <5>. QED BY <2>5, <4>1, <5>1 DEF CutAt
        <4>2. CASE m = 2 /\ a.check = 1
          BY <2>5, <4>2 DEF CutAt
        <4>3. CASE m = 2 /\ a.check # 1
          BY <2>1, <4>3 DEF CutAt
        <4>. QED BY <1>2, <4>1, <4>2, <4>3
      <3>4. ~(m = 2 /\ i > 0 /\ t[i] = sep[1])
        <4>1. SUFFICES ASSUME m = 2, t[i] = sep[1] PROVE FALSE
          OBVIOUS
        <4>2. a.check = 1
          BY <2>1, <2>5, <4>1
        <4>3. k > 0 /\ t[k] = sep[1] /\ k \in 1..(Len(t) - 1)
          BY <1>2, <2>1, <4>2
        <4>4. FalseStart(t, sep)
          BY <4>1, <4>3 DEF FalseStart
        <4>. QED BY <4>4 DEF Splits
      <3>5. /\ b.start - 1 <= i
            /\ \A x \in Cuts(t, sep) : x <= i => x <= b.start - 1
        BY <2>1, <2>2, <2>3, <2>4, <3>2, <3>3
      <3>. QED BY <1>1, <3>2, <3>4, <3>5 DEF SplitInv
    <2>6. ASSUME data[i] = sep[a.check + 1], a.check + 1 < m
          PROVE  SplitInv(b, t, sep, size, i)
      <3>1. b = [a EXCEPT !.check = a.check + 1]
        BY <1>5, <2>6 DEF SplitStep
      <3>. HIDE DEF b
      <3>2. m = 2 /\ a.check = 0
        <4>1. m \in {1, 2} /\ a.check \in {0, 1}
          BY <1>2, <2>1
        <4>. HIDE DEF m
        <4>. QED BY <2>6, <4>1
      <3>3. b \in SplitStates /\ b.views = a.views /\ b.start = a.start /\ ~b.full /\ b.check = 1
        BY <1>1, <1>5, <3>1, <3>2 DEF SplitStates
      <3>4. t[i] = sep[1] /\ ~CutAt(t, sep, i)
        BY <1>2, <2>6, <3>2 DEF CutAt
      <3>5. /\ b.start - 1 <= i
            /\ \A x \in Cuts(t, sep) : x <= i => x <= b.start - 1
        BY <2>1, <2>2, <2>3, <2>4, <3>3, <3>4
      <3>. QED BY <1>1, <3>2, <3>3, <3>4, <3>5 DEF SplitInv
    <2>7. ASSUME data[i] = sep[a.check + 1], ~(a.check + 1 < m)
          PROVE  SplitInv(b, t, sep, size, i)
      <3>1. i \in Cuts(t, sep) /\ ~(m = 2 /\ i > 0 /\ t[i] = sep[1])
        <4>1. CASE m = 1
          <5>1. a.check = 0
            BY <2>1, <4>1
          <5>. QED BY <2>2, <2>7, <4>1, <5>1 DEF CutAt
        <4>2. CASE m = 2
          <5>1. a.check = 1
            BY <2>1, <2>7, <4>2
          <5>. QED BY <1>2, <2>1, <2>2, <2>7, <4>2, <5>1 DEF CutAt
        <4>. QED BY <1>2, <4>1, <4>2
      <3>2. Gap(t, sep, c, i)
        <4>1. c < i
          BY <1>2, <2>1, <2>3
        <4>2. ASSUME NEW x \in Cuts(t, sep) PROVE x <= c \/ i <= x
          BY <1>2, <1>3, <2>1, <4>2
        <4>. QED BY <1>1, <3>1, <4>1, <4>2 DEF Gap
      <3>3. i - c >= m
        <4>1. CASE m = 1
          BY <1>2, <2>1, <2>3, <4>1
        <4>2. CASE m = 2
          <5>1. k > 0 /\ t[k] = sep[1]
            BY <2>1, <2>7, <4>2
          <5>2. c # k
            BY <1>2, <2>3, <4>2, <5>1 DEF CutAt
          <5>. QED BY <2>1, <2>3, <4>2, <5>2
        <4>. QED BY <1>2, <4>1, <4>2
      <3>4. CASE Len(a.views) = size
        <4>1. b = [a EXCEPT !.full = TRUE]
          BY <1>5, <2>7, <3>4 DEF SplitStep
        <4>. HIDE DEF b
        <4>2. b \in SplitStates /\ b.views = a.views /\ b.start = a.start /\ b.full
          BY <1>1, <4>1 DEF SplitStates
        <4>3. c < i
          BY <3>2 DEF Gap
        <4>. QED BY <1>1, <3>1, <3>4, <4>2, <4>3 DEF SplitInv
      <3>5. CASE Len(a.views) # size
        <4> DEFINE len == i + 1 - m - a.start
                   views == IF len = 0 THEN a.views ELSE Append(a.views, View(a.start, len))
        <4>1. b = [a EXCEPT !.views = views, !.start = i + 1, !.check = 0]
          BY <1>5, <2>7, <3>5 DEF SplitStep
        <4>2. len = i - m - c /\ a.start = c + 1 /\ len >= 0
          <5>1. a.start \in Nat /\ m \in Nat
            BY <1>1, <1>2
          <5>2. i \in Nat /\ c \in Int /\ c = a.start - 1
            BY <1>2, <5>1
          <5> DEFINE start == a.start
          <5>. HIDE DEF start, m, c, i
          <5>3. start \in Nat /\ c = start - 1
            BY <5>1, <5>2 DEF start
          <5>4. start = c + 1 /\ c \in Int
            BY <5>3
          <5>5. i + 1 - m - (c + 1) = i - m - c /\ i + 1 - m - (c + 1) >= 0
            <6>1. i \in Nat /\ c \in Int /\ m \in Nat
              BY <5>1, <5>2
            <6>. QED BY <3>3, <6>1
          <5>. QED BY <5>4, <5>5 DEF start
        <4>3. Listed(t, sep, views, i)
          <5>1. CASE len = 0
            <6>1. i - c <= m
              BY <1>2, <2>3, <4>2, <5>1
            <6>. QED BY <1>1, <3>2, <5>1, <6>1, ListsEmpty
          <5>2. CASE len # 0
            <6>1. Piece(t, sep, c, i)
              BY <1>2, <2>3, <3>2, <4>2, <5>2 DEF Piece
            <6>. HIDE DEF c, i, m
            <6>2. Listed(t, sep, Append(a.views, View(c + 1, i - m - c)), i)
              BY <1>1, <6>1, ListsPiece DEF m
            <6>. QED BY <4>2, <5>2, <6>2
          <5>. QED BY <5>1, <5>2
        <4>4. views \in Seq(Views) /\ Len(views) <= Len(a.views) + 1
          <5>1. views \in Seq(Views)
            BY <4>3 DEF Listed
          <5>2. CASE len = 0
            BY <1>1, <5>1, <5>2
          <5>3. CASE len # 0
            BY <1>1, <5>1, <5>3
          <5>. QED BY <5>1, <5>2, <5>3
        <4>. HIDE DEF b, views, len
        <4>5. /\ b \in SplitStates /\ b.views = views /\ b.start = i + 1 /\ ~b.full
              /\ b.check = 0
          <5>1. a \in SplitStates /\ i + 1 \in Nat /\ views \in Seq(Views)
            BY <1>1, <4>4
          <5>. HIDE DEF i
          <5>. QED BY <1>5, <4>1, <5>1 DEF SplitStates
        <4>6. Len(views) <= size /\ (i + 1) - 1 = i
          BY <1>1, <1>2, <3>5, <4>4
        <4>7. /\ b.start - 1 <= i
              /\ \A x \in Cuts(t, sep) : x <= i => x <= b.start - 1
          BY <1>2, <4>5, <4>6
        <4>. QED BY <3>1, <4>3, <4>5, <4>6, <4>7 DEF SplitInv
      <3>. QED BY <3>4, <3>5
    <2>. QED BY <2>5, <2>6, <2>7
  <1>. QED BY <1>4, <1>5

(* The loop leaves a state of which SplitInv holds for the whole text.      *)
LEMMA SplitEnds ==
  ASSUME NEW t, NEW sep, Splits(t, sep), NEW size \in Nat, NEW v, v.at = 1, v.len = Len(t),
         NEW data, \A i \in 1..Len(t) : data[i] = t[i]
  PROVE  \E a : /\ SplitInv(a, t, sep, size, Len(t))
                /\ VString_SplitBySubstring(data, v, sep, size) =
                     [views   |-> IF a.full THEN a.views
                                  ELSE Append(a.views, View(a.start, v.at + v.len - a.start)),
                      overrun |-> ~a.full /\ Len(a.views) = size]
  <1> DEFINE n == v.len
             first == [views |-> <<>>, start |-> v.at, check |-> 0, full |-> FALSE]
             Step(x, k) == SplitStep(x, data, v.at + k - 1, sep, size)
             Rule(f, m) == f = [k \in 0..m |-> IF k = 0 THEN first ELSE Step(f[k - 1], k)]
  <1>1. n \in Nat /\ n = Len(t)
    BY DEF Splits
  <1>. HIDE DEF first, Step, n
  <1>2. ASSUME NEW m \in Nat PROVE \E f : Rule(f, m)
    <2> DEFINE Good == {i \in Nat : \E f : Rule(f, i)}
    <2>1. 0 \in Good
      <3>1. Rule([k \in 0..0 |-> first], 0)
        OBVIOUS
      <3>. QED BY <3>1
    <2>2. ASSUME NEW i \in Nat, i \in Good PROVE i + 1 \in Good
      <3>1. PICK f : Rule(f, i)
        BY <2>2
      <3> DEFINE g == [k \in 0..(i + 1) |-> IF k = i + 1 THEN Step(f[i], k) ELSE f[k]]
      <3>2. Rule(g, i + 1) /\ i + 1 \in Nat
        BY <3>1
      <3>. HIDE DEF g, Rule
      <3>. QED BY <3>2, Zenon
    <2>. HIDE DEF Good
    <2>3. Nat \subseteq Good
      BY <2>1, <2>2, SetInduction
    <2>. QED BY <2>3 DEF Good
  <1> DEFINE After == CHOOSE f : Rule(f, n)
  <1>3. Rule(After, n)
    BY <1>1, <1>2
  <1>4. Split(data, v, sep, size) = After[n]
    BY DEF Split, n, first, Step
  <1>. HIDE DEF After
  <1> DEFINE Good == {i \in Nat : i <= n => SplitInv(After[i], t, sep, size, i)}
  <1>5. 0 \in Good
    <2>1. After[0] = first
      BY <1>1, <1>3
    <2>2. SplitInv(first, t, sep, size, 0)
      BY SplitBegins DEF first
    <2>. QED BY <2>1, <2>2
  <1>6. ASSUME NEW i \in Nat, i \in Good PROVE i + 1 \in Good
    <2> SUFFICES ASSUME i + 1 <= n PROVE SplitInv(After[i + 1], t, sep, size, i + 1)
      OBVIOUS
    <2>1. After[i + 1] = SplitStep(After[i], data, i + 1, sep, size)
      <3>1. i + 1 \in 0..n /\ i + 1 # 0 /\ (i + 1) - 1 = i /\ v.at + (i + 1) - 1 = i + 1
        BY <1>1
      <3>2. After[i + 1] = Step(After[i], i + 1)
        BY <1>3, <3>1
      <3>3. Step(After[i], i + 1) = SplitStep(After[i], data, v.at + (i + 1) - 1, sep, size)
        BY DEF Step
      <3>. QED BY <3>1, <3>2, <3>3, Zenon
    <2>2. SplitInv(After[i], t, sep, size, i) /\ i < Len(t) /\ data[i + 1] = t[i + 1]
      BY <1>1, <1>6
    <2>3. SplitInv(SplitStep(After[i], data, i + 1, sep, size), t, sep, size, i + 1)
      BY <2>2, SplitKeeps
    <2>. QED BY <2>1, <2>3, Zenon
  <1>. HIDE DEF Good
  <1>7. Nat \subseteq Good
    BY <1>5, <1>6, SetInduction
  <1>8. SplitInv(After[n], t, sep, size, Len(t))
    BY <1>1, <1>7 DEF Good
  <1>9. VString_SplitBySubstring(data, v, sep, size) =
          [views   |-> IF After[n].full THEN After[n].views
                       ELSE Append(After[n].views, View(After[n].start, v.at + v.len - After[n].start)),
           overrun |-> ~After[n].full /\ Len(After[n].views) = size]
    BY <1>4, Zenon DEF VString_SplitBySubstring
  <1>. QED BY <1>8, <1>9, Zenon

-----------------------------------------------------------------------------
(* The pieces that are expected.                                            *)

(* A listing of the first elements of a set, in order, numbers them.        *)
LEMMA Enumerates ==
  ASSUME NEW S \in SUBSET Nat, IsFiniteSet(S), NEW n \in Nat, NEW f \in [1..n -> S],
         \A j, l \in 1..n : j < l => f[j] < f[l],
         \A x \in S : \A j \in 1..n : x <= f[j] => \E l \in 1..n : f[l] = x
  PROVE  /\ n <= Cardinality(S) /\ Cardinality(S) \in Nat
         /\ \A j \in 1..n : Nth(S, j) = f[j]
         /\ (\A x \in S : \E l \in 1..n : f[l] = x) => Cardinality(S) = n
  <1> DEFINE Image(j) == {f[l] : l \in 1..j}
             UpTo(x) == {y \in S : y <= x}
             Sized(j) == IsFiniteSet(Image(j)) /\ Cardinality(Image(j)) = j
  <1>1. ASSUME NEW i \in 0..n PROVE Sized(i)
    <2> DEFINE Good == {j \in Nat : j <= n => IsFiniteSet(Image(j)) /\ Cardinality(Image(j)) = j}
    <2>1. 0 \in Good
      <3>1. Image(0) = {}
        OBVIOUS
      <3>2. IsFiniteSet(Image(0)) /\ Cardinality(Image(0)) = 0
        BY <3>1, FS_EmptySet, Zenon
      <3>. HIDE DEF Image
      <3>. QED BY <3>2
    <2>2. ASSUME NEW j \in Nat, j \in Good PROVE j + 1 \in Good
      <3> SUFFICES ASSUME j + 1 <= n
                   PROVE  IsFiniteSet(Image(j + 1)) /\ Cardinality(Image(j + 1)) = j + 1
        OBVIOUS
      <3>1. IsFiniteSet(Image(j)) /\ Cardinality(Image(j)) = j
        BY <2>2
      <3>2. Image(j + 1) = Image(j) \cup {f[j + 1]}
        <4>1. 1..(j + 1) = (1..j) \cup {j + 1}
          OBVIOUS
        <4>. QED BY <4>1, Zenon
      <3>3. f[j + 1] \notin Image(j)
        <4>1. ASSUME NEW l \in 1..j PROVE f[l] # f[j + 1]
          <5>1. l \in 1..n /\ j + 1 \in 1..n /\ l < j + 1
            OBVIOUS
          <5>2. f[l] < f[j + 1] /\ f[l] \in Nat /\ f[j + 1] \in Nat
            BY <5>1
          <5>. QED BY <5>2
        <4>. QED BY <4>1, Zenon
      <3>. HIDE DEF Image
      <3>4. /\ IsFiniteSet(Image(j) \cup {f[j + 1]})
            /\ Cardinality(Image(j) \cup {f[j + 1]}) = Cardinality(Image(j)) + 1
        BY <3>1, <3>3, FS_AddElement
      <3>. QED BY <3>1, <3>2, <3>4, Zenon
    <2>. HIDE DEF Good
    <2>3. Nat \subseteq Good
      BY <2>1, <2>2, SetInduction
    <2>4. i \in Nat /\ i <= n
      OBVIOUS
    <2>5. i \in Good
      BY <2>3, <2>4
    <2>. HIDE DEF Sized, Image
    <2>. QED BY <2>4, <2>5 DEF Good, Sized
  <1>2. ASSUME NEW j \in 1..n PROVE UpTo(f[j]) = Image(j)
    <2>1. ASSUME NEW l \in 1..j PROVE f[l] \in UpTo(f[j])
      <3>1. l \in 1..n /\ (l = j \/ l < j)
        OBVIOUS
      <3>2. f[l] \in Nat /\ f[j] \in Nat /\ f[l] \in S
        BY <3>1
      <3>. QED BY <3>1, <3>2
    <2>2. ASSUME NEW x \in UpTo(f[j]) PROVE x \in Image(j)
      <3>1. PICK l \in 1..n : f[l] = x
        BY <2>2
      <3>2. f[l] \in Nat /\ f[j] \in Nat /\ f[l] <= f[j]
        BY <2>2, <3>1
      <3>3. ~(j < l)
        BY <3>2
      <3>4. l \in 1..j
        BY <3>3
      <3>. QED BY <3>1, <3>4
    <2>. QED BY <2>1, <2>2
  <1>3. ASSUME NEW x \in S, NEW y \in S, x < y
        PROVE  Cardinality(UpTo(x)) < Cardinality(UpTo(y))
    <2>1. UpTo(x) \in SUBSET UpTo(y) /\ y \in UpTo(y) /\ y \notin UpTo(x)
      <3>1. x \in Nat /\ y \in Nat /\ ~(y <= x)
        BY <1>3
      <3>2. ASSUME NEW z \in S, z <= x PROVE z <= y
        <4>1. z \in Nat
          OBVIOUS
        <4>. QED BY <1>3, <3>1, <3>2, <4>1
      <3>3. y <= y
        BY <3>1
      <3>. QED BY <3>1, <3>2, <3>3, Zenon
    <2>2. UpTo(y) \in SUBSET S
      OBVIOUS
    <2>. HIDE DEF UpTo
    <2>3. IsFiniteSet(UpTo(y))
      BY <2>2, FS_Subset
    <2>4. /\ IsFiniteSet(UpTo(x)) /\ Cardinality(UpTo(x)) <= Cardinality(UpTo(y))
          /\ Cardinality(UpTo(y)) = Cardinality(UpTo(x)) => UpTo(y) = UpTo(x)
      BY <2>1, <2>3, FS_Subset
    <2>5. Cardinality(UpTo(y)) # Cardinality(UpTo(x))
      BY <2>1, <2>4, Zenon
    <2>6. Cardinality(UpTo(x)) \in Nat /\ Cardinality(UpTo(y)) \in Nat
      BY <2>3, <2>4, FS_CardinalityType
    <2>. QED BY <2>4, <2>5, <2>6
  <1>4. ASSUME NEW j \in 1..n PROVE Nth(S, j) = f[j]
    <2>1. f[j] \in S /\ f[j] \in Nat
      OBVIOUS
    <2>2. UpTo(f[j]) = Image(j)
      BY <1>2
    <2>3. Cardinality(Image(j)) = j
      <3>1. j \in 0..n
        OBVIOUS
      <3>2. Sized(j)
        BY <1>1, <3>1
      <3>. HIDE DEF Image
      <3>. QED BY <3>2 DEF Sized
    <2>. HIDE DEF Image
    <2>4. Cardinality(UpTo(f[j])) = j
      BY <2>2, <2>3, Zenon
    <2>5. ASSUME NEW x \in S, Cardinality(UpTo(x)) = j PROVE x = f[j]
      <3>1. ~(x < f[j]) /\ ~(f[j] < x)
        <4>. HIDE DEF UpTo
        <4>1. ASSUME x < f[j] PROVE FALSE
          <5>1. Cardinality(UpTo(x)) < Cardinality(UpTo(f[j]))
            BY <1>3, <2>1, <4>1
          <5>. QED BY <2>4, <2>5, <5>1
        <4>2. ASSUME f[j] < x PROVE FALSE
          <5>1. Cardinality(UpTo(f[j])) < Cardinality(UpTo(x))
            BY <1>3, <2>1, <4>2
          <5>. QED BY <2>4, <2>5, <5>1
        <4>. QED BY <4>1, <4>2
      <3>2. x \in Nat
        OBVIOUS
      <3>. QED BY <2>1, <3>1, <3>2
    <2>6. Nth(S, j) = CHOOSE x \in S : Cardinality(UpTo(x)) = j
      BY DEF Nth
    <2>. HIDE DEF UpTo
    <2>. QED BY <2>1, <2>4, <2>5, <2>6
  <1>5. Image(n) \in SUBSET S /\ n \in 0..n
    OBVIOUS
  <1>6. (\A x \in S : \E l \in 1..n : f[l] = x) => Image(n) = S
    BY <1>5
  <1>7. IsFiniteSet(Image(n)) /\ Cardinality(Image(n)) = n
    BY <1>1, <1>5
  <1>. HIDE DEF Image
  <1>8. Cardinality(Image(n)) <= Cardinality(S)
    BY <1>5, FS_Subset
  <1>9. Cardinality(S) \in Nat
    BY FS_CardinalityType
  <1>. QED BY <1>4, <1>6, <1>7, <1>8, <1>9

(* The cuts lie within the text, and 0 is one.                              *)
LEMMA CutsBounds ==
  ASSUME NEW t, NEW sep, Splits(t, sep)
  PROVE  /\ Len(t) \in Nat /\ 0 \in Cuts(t, sep)
         /\ Cuts(t, sep) \in SUBSET (0..Len(t)) /\ Cuts(t, sep) \in SUBSET Nat
         /\ IsFiniteSet(Cuts(t, sep))
  <1>1. Len(t) \in Nat
    BY DEF Splits
  <1>2. \A c \in Cuts(t, sep) : c \in 0..Len(t)
    BY <1>1, CutsAre
  <1>3. IsFiniteSet(0..Len(t))
    BY <1>1, FS_Interval
  <1>4. Cuts(t, sep) \in SUBSET (0..Len(t))
    BY <1>2
  <1>5. IsFiniteSet(Cuts(t, sep))
    BY <1>3, <1>4, FS_Subset
  <1>. QED BY <1>1, <1>4, <1>5, CutsAre

LEMMA LastCutIs ==
  ASSUME NEW t, NEW sep, Splits(t, sep)
  PROVE  /\ LastCut(t, sep) \in Cuts(t, sep)
         /\ \A x \in Cuts(t, sep) : x <= LastCut(t, sep)
  <1> DEFINE S == Cuts(t, sep)
  <1>1. Len(t) \in Nat /\ S \in SUBSET (0..Len(t)) /\ S # {}
    BY CutsBounds
  <1>2. LastCut(t, sep) = Max(S)
    BY DEF LastCut
  <1>. HIDE DEF S
  <1>3. Max(S) \in S /\ \A x \in S : Max(S) >= x
    BY <1>1, GreatestChosen DEF Max
  <1> DEFINE l == Max(S)
  <1>. HIDE DEF l
  <1>4. l \in S /\ \A x \in S : l >= x
    BY <1>3 DEF l
  <1>5. l \in Nat /\ \A x \in S : x \in Nat
    BY <1>1, <1>4
  <1>6. \A x \in S : x <= l
    BY <1>4, <1>5
  <1>. QED BY <1>2, <1>4, <1>6, Zenon DEF l, S

(* The next cut, and that a gap ends there.                                 *)
LEMMA NextCutIs ==
  ASSUME NEW t, NEW sep, Splits(t, sep), NEW c \in Cuts(t, sep), c # LastCut(t, sep)
  PROVE  Gap(t, sep, c, NextCut(t, sep, c))
  <1> DEFINE S == {j \in Cuts(t, sep) : j > c}
             d == Min(S)
  <1>1. \A x \in Cuts(t, sep) : x \in Nat
    BY CutsBounds
  <1>2. S \in SUBSET Nat /\ LastCut(t, sep) \in S
    <2>1. LastCut(t, sep) \in Cuts(t, sep) /\ c <= LastCut(t, sep)
      BY LastCutIs
    <2>. QED BY <1>1, <2>1
  <1>3. d \in S /\ \A x \in S : d <= x
    <2>. HIDE DEF S
    <2>1. S # {}
      BY <1>2
    <2>. QED BY <1>2, <2>1, LeastChosen DEF Min
  <1>4. NextCut(t, sep, c) = d
    BY DEF NextCut
  <1>. HIDE DEF d
  <1>5. d \in Cuts(t, sep) /\ c < d
    BY <1>1, <1>3
  <1>6. ASSUME NEW x \in Cuts(t, sep) PROVE x <= c \/ d <= x
    BY <1>1, <1>3
  <1>. QED BY <1>4, <1>5, <1>6 DEF Gap

LEMMA GapsEnd ==
  ASSUME NEW t, NEW sep, Splits(t, sep), NEW c, NEW d, Gap(t, sep, c, d)
  PROVE  d = NextCut(t, sep, c) /\ c # LastCut(t, sep)
  <1> DEFINE e == NextCut(t, sep, c)
  <1>1. \A x \in Cuts(t, sep) : x \in Nat
    BY CutsBounds
  <1>2. c \in Cuts(t, sep) /\ d \in Cuts(t, sep) /\ c < d /\ c \in Nat /\ d \in Nat
    BY <1>1 DEF Gap
  <1>3. c # LastCut(t, sep)
    <2>1. d <= LastCut(t, sep)
      BY <1>2, LastCutIs
    <2>. QED BY <1>2, <2>1
  <1>4. Gap(t, sep, c, e)
    BY <1>2, <1>3, NextCutIs
  <1>. HIDE DEF e
  <1>5. e \in Nat /\ e \in Cuts(t, sep) /\ c < e
    BY <1>1, <1>4 DEF Gap
  <1>6. d <= e /\ e <= d
    BY <1>2, <1>4, <1>5 DEF Gap
  <1>7. d = e
    BY <1>2, <1>5, <1>6
  <1>. QED BY <1>3, <1>7 DEF e

(* A piece begins exactly at the starts.                                    *)
LEMMA StartsAre ==
  ASSUME NEW t, NEW sep, Splits(t, sep), NEW c
  PROVE  /\ c \in Starts(t, sep) => Piece(t, sep, c, NextCut(t, sep, c))
         /\ \A d : Piece(t, sep, c, d) => c \in Starts(t, sep) /\ d = NextCut(t, sep, c)
  <1>1. ASSUME c \in Starts(t, sep) PROVE Piece(t, sep, c, NextCut(t, sep, c))
    <2>1. /\ c \in Cuts(t, sep) /\ c # LastCut(t, sep)
          /\ NextCut(t, sep, c) - c > Len(sep)
      BY <1>1 DEF Starts
    <2>2. Gap(t, sep, c, NextCut(t, sep, c))
      BY <2>1, NextCutIs
    <2>. QED BY <2>1, <2>2 DEF Piece
  <1>2. ASSUME NEW d, Piece(t, sep, c, d)
        PROVE  c \in Starts(t, sep) /\ d = NextCut(t, sep, c)
    <2>1. Gap(t, sep, c, d) /\ d - c > Len(sep) /\ c \in Cuts(t, sep)
      BY <1>2 DEF Piece, Gap
    <2>2. d = NextCut(t, sep, c) /\ c # LastCut(t, sep)
      BY <2>1, GapsEnd
    <2>. QED BY <2>1, <2>2 DEF Starts
  <1>. QED BY <1>1, <1>2

(* The views that are listed are numbered as the starts are.                *)
LEMMA ListsStarts ==
  ASSUME NEW t, NEW sep, Splits(t, sep), NEW views, NEW last, Listed(t, sep, views, last)
  PROVE  /\ Len(views) <= Cardinality(Starts(t, sep)) /\ Cardinality(Starts(t, sep)) \in Nat
         /\ \A j \in 1..Len(views) : Nth(Starts(t, sep), j) = Behind(views[j])
         /\ last = LastCut(t, sep) => Cardinality(Starts(t, sep)) = Len(views)
  <1> DEFINE S == Starts(t, sep)
             n == Len(views)
             f == [j \in 1..n |-> Behind(views[j])]
  <1>1. \A x \in Cuts(t, sep) : x \in Nat
    BY CutsBounds
  <1>2. S \in SUBSET Cuts(t, sep)
    BY DEF Starts
  <1>3. S \in SUBSET Nat /\ IsFiniteSet(S)
    <2>. HIDE DEF S
    <2>1. IsFiniteSet(Cuts(t, sep))
      BY CutsBounds
    <2>. QED BY <1>1, <1>2, <2>1, FS_Subset
  <1>4. n \in Nat
    BY DEF Listed
  <1>5. ASSUME NEW j \in 1..n
        PROVE  /\ Piece(t, sep, Behind(views[j]), EndOf(views[j], sep))
               /\ EndOf(views[j], sep) <= last
               /\ Behind(views[j]) \in S /\ f[j] = Behind(views[j])
    <2>1. /\ Piece(t, sep, Behind(views[j]), EndOf(views[j], sep))
          /\ EndOf(views[j], sep) <= last
      BY DEF Listed
    <2>2. Behind(views[j]) \in S
      BY <2>1, StartsAre
    <2>. QED BY <2>1, <2>2
  <1>6. f \in [1..n -> S]
    BY <1>5
  <1>7. \A j, l \in 1..n : j < l => f[j] < f[l]
    BY DEF Listed
  <1>8. ASSUME NEW x \in S, NextCut(t, sep, x) <= last PROVE \E l \in 1..n : f[l] = x
    <2>1. Piece(t, sep, x, NextCut(t, sep, x))
      BY StartsAre
    <2>2. x \in Cuts(t, sep) /\ NextCut(t, sep, x) \in Cuts(t, sep)
      BY <2>1 DEF Piece, Gap
    <2>3. PICK l \in 1..n : Behind(views[l]) = x
      BY <1>8, <2>1, <2>2 DEF Listed
    <2>. QED BY <2>3
  <1>9. \A x \in S : \A j \in 1..n : x <= f[j] => \E l \in 1..n : f[l] = x
    <2> SUFFICES ASSUME NEW x \in S, NEW j \in 1..n, x <= f[j]
                 PROVE  \E l \in 1..n : f[l] = x
      OBVIOUS
    <2> DEFINE c == Behind(views[j])
               e == EndOf(views[j], sep)
               d == NextCut(t, sep, x)
    <2>1. Piece(t, sep, c, e) /\ e <= last /\ x <= c
      BY <1>5
    <2>2. Piece(t, sep, x, d)
      BY StartsAre
    <2>3. /\ c \in Nat /\ e \in Nat /\ d \in Nat /\ x \in Nat /\ last \in Nat
          /\ c \in Cuts(t, sep) /\ c < e
      BY <1>1, <2>1, <2>2 DEF Piece, Gap, Listed
    <2>4. CASE x = c
      <3>1. e = d
        BY <2>1, <2>4, StartsAre
      <3>2. d <= last
        BY <2>1, <3>1
      <3>. QED BY <1>8, <3>2
    <2>5. CASE x # c
      <3>1. d <= c
        BY <2>1, <2>2, <2>3, <2>5 DEF Piece, Gap
      <3>. HIDE DEF c, e, d
      <3>2. d <= last
        BY <2>1, <2>3, <3>1
      <3>. QED BY <1>8, <3>2 DEF d
    <2>. QED BY <2>4, <2>5
  <1>10. ASSUME last = LastCut(t, sep) PROVE \A x \in S : \E l \in 1..n : f[l] = x
    <2> SUFFICES ASSUME NEW x \in S PROVE \E l \in 1..n : f[l] = x
      OBVIOUS
    <2>1. NextCut(t, sep, x) \in Cuts(t, sep)
      BY StartsAre DEF Piece, Gap
    <2>2. NextCut(t, sep, x) <= last
      BY <1>10, <2>1, LastCutIs
    <2>. QED BY <1>8, <2>2
  <1>. HIDE DEF f, S, n
  <1>11. /\ n <= Cardinality(S) /\ Cardinality(S) \in Nat
         /\ \A j \in 1..n : Nth(S, j) = f[j]
         /\ (\A x \in S : \E l \in 1..n : f[l] = x) => Cardinality(S) = n
    BY <1>3, <1>4, <1>6, <1>7, <1>9, Enumerates
  <1>12. \A j \in 1..n : Nth(S, j) = Behind(views[j])
    BY <1>5, <1>11
  <1>. QED BY <1>10, <1>11, <1>12, Zenon DEF S, n

(* The pieces that are expected, one for every start and the last one.      *)
PieceAt(t, sep, j) ==
  LET i == Nth(Starts(t, sep), j)
  IN  SubSeq(t, i + 1, NextCut(t, sep, i) - Len(sep))

LastPiece(t, sep) == SubSeq(t, LastCut(t, sep) + 1, Len(t))

LEMMA PiecesAre ==
  ASSUME NEW t, NEW sep, NEW n \in Nat, n = Cardinality(Starts(t, sep))
  PROVE  \E T : /\ Pieces(t, sep) \in Seq(T) /\ Len(Pieces(t, sep)) = n + 1
                /\ \A j \in 1..n : Pieces(t, sep)[j] = PieceAt(t, sep, j)
                /\ Pieces(t, sep)[n + 1] = LastPiece(t, sep)
  <1> DEFINE u == [j \in 1..n |-> PieceAt(t, sep, j)]
             l == LastPiece(t, sep)
             T == {PieceAt(t, sep, j) : j \in 1..n} \cup {l}
  <1>1. Pieces(t, sep) = u \o <<l>>
    BY Zenon DEF Pieces, PieceAt, LastPiece
  <1>2. u \in [1..n -> T] /\ l \in T
    OBVIOUS
  <1>3. \A j \in 1..n : u[j] = PieceAt(t, sep, j)
    OBVIOUS
  <1>. HIDE DEF u, l, T
  <1>4. u \in Seq(T) /\ Len(u) = n /\ <<l>> \in Seq(T) /\ Len(<<l>>) = 1 /\ <<l>>[1] = l
    BY <1>2
  <1>5. /\ u \o <<l>> \in Seq(T) /\ Len(u \o <<l>>) = n + 1
        /\ \A k \in 1..n : (u \o <<l>>)[k] = u[k]
        /\ (u \o <<l>>)[n + 1] = l
    BY <1>4
  <1>. QED BY <1>1, <1>3, <1>5 DEF l

(* What begins with a text has the same parts in it.                        *)
Begins(u, w) == Len(w) <= Len(u) /\ \A k \in 1..Len(w) : u[k] = w[k]

Within(a, b, w) == a \in Nat \ {0} /\ b \in Int /\ a <= b + 1 /\ b <= Len(w)

Same(u, w, a, b) == SubSeq(u, a, b) = SubSeq(w, a, b)

LEMMA SameCut ==
  ASSUME NEW S, NEW T, NEW u \in Seq(S), NEW w \in Seq(T), NEW a, NEW b,
         Begins(u, w), Within(a, b, w)
  PROVE  Same(u, w, a, b)
  BY DEF Begins, Within, Same

(* The view of a piece shows the piece.                                     *)
LEMMA PieceShown ==
  ASSUME NEW t, NEW sep, Splits(t, sep), NEW data \in Seq(Bytes), Len(t) <= Len(data),
         \A i \in 1..Len(t) : data[i] = t[i],
         NEW views, NEW last, Listed(t, sep, views, last), NEW j \in 1..Len(views)
  PROVE  TextOf(data, views[j]) = PieceAt(t, sep, j)
  <1> DEFINE w == views[j]
             c == Behind(w)
             e == EndOf(w, sep)
  <1>1. w \in Views /\ w.at \in Nat \ {0} /\ w.len \in Nat
    <2>1. w \in Views
      BY DEF Listed
    <2>. HIDE DEF w
    <2>. QED BY <2>1 DEF Views
  <1>2. Piece(t, sep, c, e)
    BY DEF Listed
  <1>3. e = NextCut(t, sep, c) /\ e \in 0..Len(t) /\ Len(sep) \in Nat /\ Len(t) \in Nat
    <2>. HIDE DEF c, e
    <2>1. e = NextCut(t, sep, c)
      BY <1>2, StartsAre
    <2>2. e \in 0..Len(t)
      BY <1>2, CutsBounds DEF Piece, Gap
    <2>. QED BY <2>1, <2>2, CutsBounds DEF Splits
  <1>4. Nth(Starts(t, sep), j) = c
    BY ListsStarts
  <1>5. PieceAt(t, sep, j) = SubSeq(t, c + 1, e - Len(sep))
    <2>. HIDE DEF c, e
    <2>. QED BY <1>3, <1>4, Zenon DEF PieceAt
  <1>6. c + 1 = w.at /\ e - Len(sep) = w.at + w.len - 1
    <2>1. c = w.at - 1 /\ e = w.at - 1 + w.len + Len(sep)
      BY DEF Behind, EndOf
    <2> DEFINE m == Len(sep)
               x == w.at
               y == w.len
    <2>2. c = x - 1 /\ e = x - 1 + y + m
      BY <2>1
    <2>3. x \in Nat /\ y \in Nat /\ m \in Nat
      BY <1>1, <1>3
    <2>. HIDE DEF c, e, w, m, x, y
    <2>4. c + 1 = x /\ e - m = x + y - 1
      BY <2>2, <2>3
    <2>. QED BY <2>4 DEF m, x, y
  <1>7. w.at + w.len - 1 <= Len(t)
    <2>. HIDE DEF c, e, w
    <2>. QED BY <1>1, <1>3, <1>6
  <1>8. SubSeq(data, w.at, w.at + w.len - 1) = SubSeq(t, w.at, w.at + w.len - 1)
    <2>1. t \in Seq(Alphabet)
      BY DEF Splits
    <2>. HIDE DEF w
    <2> DEFINE x == w.at
               y == w.at + w.len - 1
    <2>2. Within(x, y, t) /\ Begins(data, t)
      BY <1>1, <1>7 DEF Within, Begins
    <2>. HIDE DEF x, y
    <2>3. Same(data, t, x, y)
      BY <2>1, <2>2, SameCut
    <2>. QED BY <2>3 DEF x, y, Same
  <1>. HIDE DEF c, e, w
  <1>9. TextOf(data, w) = PieceAt(t, sep, j)
    BY <1>5, <1>6, <1>8, Zenon DEF TextOf
  <1>. QED BY <1>9 DEF w

(* PiecesFound for one separator and one size.                              *)
Pieced(data, v, t, sep, size) ==
  LET r    == VString_SplitBySubstring(data, v, sep, size)
      p    == Pieces(t, sep)
      got  == [n \in DOMAIN r.views |-> TextOf(data, r.views[n])]
  IN  FalseStart(t, sep) \/
      IF Len(p) <= size THEN got = p /\ ~r.overrun
      ELSE /\ SubSeq(got, 1, size) = SubSeq(p, 1, size)
           /\ r.overrun => Len(p) = size + 1

LEMMA SplitsIntoPieces ==
  ASSUME NEW t, NEW sep, Splits(t, sep), NEW size \in Nat \ {0},
         NEW data \in Seq(Bytes), Len(t) <= Len(data), \A i \in 1..Len(t) : data[i] = t[i]
  PROVE  Pieced(data, View(1, Len(t)), t, sep, size)
  <1> DEFINE v == View(1, Len(t))
             r == VString_SplitBySubstring(data, v, sep, size)
             p == Pieces(t, sep)
             got == [n \in DOMAIN r.views |-> TextOf(data, r.views[n])]
             N == Cardinality(Starts(t, sep))
  <1>1. v.at = 1 /\ v.len = Len(t) /\ Len(t) \in Nat /\ size \in Nat
    BY CutsBounds DEF View
  <1>2. PICK a : /\ SplitInv(a, t, sep, size, Len(t))
                 /\ r = [views   |-> IF a.full THEN a.views
                                     ELSE Append(a.views, View(a.start, v.at + v.len - a.start)),
                         overrun |-> ~a.full /\ Len(a.views) = size]
    <2>. HIDE DEF v
    <2>. QED BY <1>1, SplitEnds
  <1> DEFINE n == Len(a.views)
             w == View(a.start, v.at + v.len - a.start)
  <1>3. /\ Listed(t, sep, a.views, a.start - 1) /\ n \in Nat /\ n <= size
        /\ a.views \in Seq(Views) /\ a.full \in BOOLEAN /\ a.start \in Nat
        /\ a.start - 1 \in Cuts(t, sep) /\ a.start - 1 \in Nat
    BY <1>2, CutsBounds DEF SplitInv, SplitStates, Listed
  <1>4. /\ n <= N /\ N \in Nat
        /\ a.start - 1 = LastCut(t, sep) => N = n
    BY <1>3, ListsStarts
  <1>5. \A j \in 1..n : TextOf(data, a.views[j]) = PieceAt(t, sep, j)
    BY <1>3, PieceShown
  <1>6. PICK T : /\ p \in Seq(T) /\ Len(p) = N + 1
                 /\ \A j \in 1..N : p[j] = PieceAt(t, sep, j)
                 /\ p[N + 1] = LastPiece(t, sep)
    BY <1>4, PiecesAre
  <1>. HIDE DEF p, N
  <1>7. CASE a.full
    <2>1. r.views = a.views /\ ~r.overrun
      <3>1. r = [views |-> a.views, overrun |-> FALSE]
        <4>1. (~a.full /\ n = size) = FALSE
          BY <1>7
        <4>. HIDE DEF r, v, n
        <4>. QED BY <1>2, <1>7, <4>1, Zenon DEF n
      <3>. HIDE DEF r
      <3>. QED BY <3>1
    <2>2. n = size
      BY <1>2, <1>7 DEF SplitInv
    <2>3. DOMAIN r.views = 1..n
      BY <1>3, <2>1
    <2>. HIDE DEF r
    <2>4. \A j \in 1..n : got[j] = PieceAt(t, sep, j)
      BY <1>5, <2>1, <2>3
    <2> DEFINE G == {got[j] : j \in 1..n}
    <2>5. got \in Seq(G) /\ Len(got) = n
      <3>1. got \in [1..n -> G]
        BY <2>3
      <3>. HIDE DEF got, G
      <3>. QED BY <1>3, <3>1, ListIsSequence
    <2>. HIDE DEF got, G, n
    <2>6. SubSeq(got, 1, size) = SubSeq(p, 1, size)
      <3>1. \A j \in 1..size : got[j] = p[j]
        BY <1>3, <1>4, <1>6, <2>2, <2>4
      <3>2. size <= Len(got) /\ size <= Len(p)
        BY <1>4, <1>6, <2>2, <2>5
      <3>. QED BY <1>6, <2>5, <3>1, <3>2, SamePrefix
    <2>7. ~(Len(p) <= size)
      BY <1>4, <1>6, <2>2
    <2>. QED BY <2>1, <2>6, <2>7, Zenon DEF Pieced, got, r, p, v
  <1>8. CASE ~a.full
    <2>1. r.views = Append(a.views, w) /\ (r.overrun <=> n = size)
      <3>1. r = [views |-> Append(a.views, w), overrun |-> n = size]
        <4>1. (~a.full /\ n = size) = (n = size)
          BY <1>8
        <4>. HIDE DEF r, v, n
        <4>. QED BY <1>2, <1>8, <4>1, Zenon DEF n
      <3>. HIDE DEF r, w, n
      <3>. QED BY <3>1
    <2>2. a.start - 1 = LastCut(t, sep)
      <3> DEFINE l == LastCut(t, sep)
      <3>1. l \in Cuts(t, sep) /\ l <= Len(t) /\ l \in Nat
        BY LastCutIs, CutsBounds
      <3>2. l <= a.start - 1
        BY <1>2, <1>8, <3>1 DEF SplitInv
      <3>3. a.start - 1 <= l
        BY <1>3, LastCutIs
      <3>. HIDE DEF l
      <3>4. a.start - 1 = l
        BY <1>3, <3>1, <3>2, <3>3
      <3>. QED BY <3>4 DEF l
    <2>3. N = n
      BY <1>4, <2>2
    <2>4. TextOf(data, w) = LastPiece(t, sep)
      <3>1. /\ w.at = a.start /\ w.at + w.len - 1 = Len(t) /\ w.at \in Nat \ {0}
            /\ w.at = LastCut(t, sep) + 1 /\ w.at <= Len(t) + 1
        BY <1>1, <1>3, <2>2, CutsBounds DEF View
      <3>2. SubSeq(data, w.at, Len(t)) = SubSeq(t, w.at, Len(t))
        <4>1. t \in Seq(Alphabet) /\ Len(t) <= Len(t)
          BY <1>1 DEF Splits
        <4>. HIDE DEF w
        <4>2. Within(w.at, Len(t), t) /\ Begins(data, t)
          BY <1>1, <1>3, <3>1, <4>1 DEF Within, Begins
        <4>3. Same(data, t, w.at, Len(t))
          BY <4>1, <4>2, SameCut
        <4>. QED BY <4>3 DEF Same
      <3>. HIDE DEF w
      <3>. QED BY <3>1, <3>2, Zenon DEF TextOf, LastPiece
    <2>. HIDE DEF w, r
    <2>5. /\ DOMAIN r.views = 1..(n + 1) /\ r.views[n + 1] = w
          /\ \A j \in 1..n : r.views[j] = a.views[j]
      BY <1>3, <2>1
    <2>6. \A j \in 1..n : got[j] = PieceAt(t, sep, j)
      <3>1. ASSUME NEW j \in 1..n PROVE got[j] = PieceAt(t, sep, j)
        <4>1. j \in DOMAIN r.views
          BY <1>3, <2>5
        <4>2. got[j] = TextOf(data, r.views[j])
          BY <4>1
        <4>. QED BY <1>5, <2>5, <4>2, Zenon
      <3>. QED BY <3>1
    <2>7. got[n + 1] = LastPiece(t, sep)
      <3>1. n + 1 \in DOMAIN r.views
        BY <1>3, <2>5
      <3>2. got[n + 1] = TextOf(data, r.views[n + 1])
        BY <3>1
      <3>. QED BY <2>4, <2>5, <3>2, Zenon
    <2> DEFINE G == {got[j] : j \in 1..(n + 1)}
    <2>8. got \in Seq(G) /\ Len(got) = n + 1
      <3>1. got \in [1..(n + 1) -> G]
        BY <2>5
      <3> DEFINE k == n + 1
      <3>2. k \in Nat
        BY <1>3
      <3>. HIDE DEF got, G, k
      <3>3. got \in [1..k -> G]
        BY <3>1 DEF k
      <3>4. got \in Seq(G) /\ Len(got) = k
        BY <3>2, <3>3, ListIsSequence, Zenon
      <3>. QED BY <3>4 DEF k
    <2>. HIDE DEF got, G, n
    <2>9. got = p
      <3>1. \A j \in 1..(n + 1) : got[j] = p[j]
        BY <1>3, <1>6, <2>3, <2>6, <2>7
      <3>. QED BY <1>6, <2>3, <2>8, <3>1, SameItems
    <2>10. CASE Len(p) <= size
      <3>1. ~r.overrun
        BY <1>3, <1>6, <2>1, <2>3, <2>10
      <3>. QED BY <2>9, <2>10, <3>1, Zenon DEF Pieced, got, r, p, v
    <2>11. CASE ~(Len(p) <= size)
      <3>1. Len(p) = size + 1
        BY <1>3, <1>6, <2>3, <2>11
      <3>. QED BY <2>9, <2>11, <3>1, Zenon DEF Pieced, got, r, p, v
    <2>. QED BY <2>10, <2>11
  <1>. QED BY <1>7, <1>8

(* Whatever calls made the string, as long as no read of a file failed, its *)
(* searches find what is there: the split returns the pieces between the    *)
(* separators, in order, and writes behind its array for one piece too many *)
(* only, and the finders report the first and the last place of a character *)
(* (but for the exceptions PiecesFound and CharactersFound name).           *)
THEOREM StringFindersExact == CallsSpec => []FindersExact
  <1>1. Holds(str, text) => PiecesFound
    <2> SUFFICES ASSUME Holds(str, text), NEW sep \in Separators, NEW size \in 1..3
                 PROVE  Pieced(str.Data, Whole(str), text, sep, size)
      BY Zenon DEF PiecesFound, Pieced
    <2>1. CASE FalseStart(text, sep)
      BY <2>1, Zenon DEF Pieced
    <2>2. CASE ~FalseStart(text, sep)
      <3>1. /\ str.Data \in Seq(Bytes) /\ text \in Seq(Alphabet) /\ str.Length = Len(text)
            /\ Len(text) <= Len(str.Data) /\ \A i \in 1..Len(text) : str.Data[i] = text[i]
        BY Facts
      <3>2. /\ sep \in Seq(Alphabet \cup {SP}) /\ Len(sep) \in {1, 2}
            /\ Len(sep) = 2 => sep[1] # sep[2]
        <4>1. CASE sep = <<SP>>
          BY <4>1
        <4>2. CASE sep \in Alphabet \X Alphabet /\ sep[1] # sep[2]
          <5>1. PICK x \in Alphabet, y \in Alphabet : sep = <<x, y>>
            BY <4>2
          <5>. QED BY <4>2, <5>1
        <4>. QED BY <4>1, <4>2 DEF Separators
      <3>3. Splits(text, sep)
        BY <2>2, <3>1, <3>2 DEF Splits
      <3>4. Whole(str) = View(1, Len(text))
        BY <3>1 DEF Whole
      <3>5. size \in Nat \ {0}
        OBVIOUS
      <3>6. Pieced(str.Data, View(1, Len(text)), text, sep, size)
        BY <3>1, <3>3, <3>5, SplitsIntoPieces
      <3>. QED BY <3>4, <3>6, Zenon
    <2>. QED BY <2>1, <2>2
  <1>2. Holds(str, text) => CharactersFound
    <2>1. ASSUME Holds(str, text), NEW ch \in Alphabet PROVE Found(str, text, ch)
      BY <2>1, FindsCharacters
    <2>. QED BY <2>1, Zenon DEF CharactersFound, Found
  <1>3. StringInv => FindersExact
    BY <1>1, <1>2, Zenon DEF StringInv, FindersExact
  <1>. QED BY <1>3, StringInvAlways, PTL
=============================================================================

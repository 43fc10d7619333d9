-------------------------- MODULE HashTableProofs --------------------------
(***************************************************************************)
(* The hash table for every capacity, every set of keys and every hash      *)
(* function: its types, the exact count and the complete iteration of a     *)
(* table that was not rehashed, and that it implements a map up to the      *)
(* first removal that leaves a hole.                                        *)
(***************************************************************************)
EXTENDS HashTable, DataFacts, FiniteSetTheorems

-----------------------------------------------------------------------------
(* Arithmetic of the probe sequence.                                        *)

(* Division with remainder.                                                 *)
LEMMA Division ==
  ASSUME NEW h \in Nat, NEW c \in Nat \ {0}
  PROVE  h % c \in 0..(c - 1) /\ \E q \in Int : h = c * q + (h % c)
  <1>1. h % c \in 0..(c-1)
    OBVIOUS
  <1>2. h = c * (h \div c) + (h % c)
    OBVIOUS
  <1>3. h \div c \in Int
    OBVIOUS
  <1>. QED BY <1>1, <1>2, <1>3

(* The remainder is determined by the division.                             *)
LEMMA Remainder ==
  ASSUME NEW a \in Nat, NEW c \in Nat \ {0}, NEW q \in Int, NEW r \in 0..(c-1), a = c * q + r
  PROVE a % c = r
  <1>1. PICK p \in Int : a = c * p + (a % c)  BY Division
  <1> DEFINE t == a % c
  <1>2. t \in 0..(c-1)
    BY Division
  <1>3. a = c * p + t
    BY <1>1
  <1>. HIDE DEF t
  <1>4. c * (p - q) = r - t
    BY <1>3, <1>2
  <1>5. \A d \in Int : d >= 1 => c * d >= c
    OBVIOUS
  <1>6. \A d \in Int : d <= -1 => c * d <= -c
    OBVIOUS
  <1>7. p - q = 0
    BY <1>2, <1>4, <1>5, <1>6
  <1>8. r = t
    BY <1>2, <1>4, <1>7
  <1>. QED BY <1>8 DEF t

(* A probe from hash h goes around the table once.                          *)
LEMMA StepValue ==
  ASSUME NEW h \in Nat, NEW c \in Nat \ {0}, NEW o \in 0..(c - 1)
  PROVE  LET r == h % c IN
    /\ r \in 0..(c - 1)
    /\ Step(h, o, c) = IF r + o < c THEN r + o ELSE r + o - c
  <1> DEFINE r == h % c
  <1>1. r \in 0..(c - 1)
    BY Division
  <1>2. PICK q \in Int : h = c * q + r BY Division
  <1>. HIDE DEF r
  <1>3. CASE r + o < c
    <2>1. h + o = c * q + (r + o)
      BY <1>1, <1>2
    <2>2. h + o \in Nat /\ q \in Int /\ r + o \in 0..(c - 1)
      BY <1>1, <1>3
    <2>3. (h + o) % c = r + o
      BY <2>1, <2>2, Remainder, Zenon
    <2>. QED BY <1>1, <1>3, <2>3 DEF r, Step
  <1>4. CASE ~(r + o < c)
    <2>1. c * (q + 1) = c * q + c
      OBVIOUS
    <2>2. h + o = c * (q + 1) + (r + o - c)
      BY <1>1, <1>2, <2>1
    <2>3. h + o \in Nat /\ q + 1 \in Int /\ r + o - c \in 0..(c - 1)
      BY <1>1, <1>4
    <2>4. (h + o) % c = r + o - c
      BY <2>2, <2>3, Remainder, Zenon
    <2>. QED BY <1>1, <1>4, <2>4 DEF r, Step
  <1>. QED BY <1>3, <1>4

(* The offsets 0..(cap - 1) lead to all slots, to each of them once, and    *)
(* from a slot to the next one.                                             *)
LEMMA SuccSlot ==
  ASSUME NEW c \in Nat \ {0}, NEW i \in 0..(c - 1)
  PROVE  (i + 1) % c = IF i + 1 < c THEN i + 1 ELSE 0
  <1>1. CASE i + 1 < c
    <2>1. i + 1 = c * 0 + (i + 1) /\ i + 1 \in Nat /\ 0 \in Int /\ i + 1 \in 0..(c - 1)
      BY <1>1
    <2>2. (i + 1) % c = i + 1
      BY <2>1, Remainder, Zenon
    <2>. QED BY <1>1, <2>2
  <1>2. CASE ~(i + 1 < c)
    <2>1. i + 1 = c * 1 + 0 /\ i + 1 \in Nat /\ 1 \in Int /\ 0 \in 0..(c - 1)
      BY <1>2
    <2>2. (i + 1) % c = 0
      BY <2>1, Remainder, Zenon
    <2>. QED BY <1>2, <2>2
  <1>. QED BY <1>1, <1>2

(* The steps 0 to c - 1 of a probe visit every slot of the table once, each *)
(* the one behind the step before.                                          *)
LEMMA StepFacts ==
  ASSUME NEW h \in Nat, NEW c \in Nat \ {0}
  PROVE  /\ \A o \in 0..(c - 1) : Step(h, o, c) \in 0..(c - 1)
         /\ \A i \in 0..(c - 1) : \E o \in 0..(c - 1) : Step(h, o, c) = i
         /\ \A o, p \in 0..(c - 1) : Step(h, o, c) = Step(h, p, c) => o = p
         /\ \A o \in 0..(c - 1) :
              o + 1 < c => (Step(h, o, c) + 1) % c = Step(h, o + 1, c)
  <1> DEFINE r == h % c
  <1>1. r \in 0..(c - 1)
    BY Division
  <1>2. \A o \in 0..(c - 1) : Step(h, o, c) = IF r + o < c THEN r + o ELSE r + o - c
    BY StepValue
  <1>. HIDE DEF r
  <1>3. \A o \in 0..(c - 1) : Step(h, o, c) \in 0..(c - 1)
    BY <1>1, <1>2
  <1>4. ASSUME NEW i \in 0..(c - 1) PROVE \E o \in 0..(c - 1) : Step(h, o, c) = i
    <2>1. CASE r <= i
      <3>1. i - r \in 0..(c - 1) /\ Step(h, i - r, c) = i
        BY <1>1, <1>2, <2>1
      <3>. QED BY <3>1
    <2>2. CASE i < r
      <3>1. i - r + c \in 0..(c - 1) /\ Step(h, i - r + c, c) = i
        BY <1>1, <1>2, <2>2
      <3>. QED BY <3>1
    <2>. QED BY <1>1, <2>1, <2>2
  <1>5. ASSUME NEW o \in 0..(c - 1), NEW p \in 0..(c - 1), Step(h, o, c) = Step(h, p, c)
        PROVE  o = p
    BY <1>1, <1>2, <1>5
  <1>6. ASSUME NEW o \in 0..(c - 1), o + 1 < c
        PROVE  (Step(h, o, c) + 1) % c = Step(h, o + 1, c)
    <2>1. /\ Step(h, o, c) = IF r + o < c THEN r + o ELSE r + o - c
          /\ Step(h, o + 1, c) = IF r + o + 1 < c THEN r + o + 1 ELSE r + o + 1 - c
      <3>1. o + 1 \in 0..(c - 1)
        BY <1>6
      <3>. QED BY <1>1, <1>2, <3>1
    <2>2. (Step(h, o, c) + 1) % c = IF Step(h, o, c) + 1 < c THEN Step(h, o, c) + 1 ELSE 0
      BY <1>3, SuccSlot
    <2>. QED BY <1>1, <1>6, <2>1, <2>2
  <1>. QED BY <1>3, <1>4, <1>5, <1>6

-----------------------------------------------------------------------------
(* The probe.                                                               *)

(* A probe that ends does so at the first slot that is empty or has the     *)
(* key.                                                                     *)
LEMMA ProbeStops ==
  ASSUME NEW items, NEW c \in Nat \ {0}, NEW h \in Nat, NEW k,
         ProbeEnds(items, c, h, k)
  PROVE  \E o \in 0..(c - 1) :
           /\ Probe(items, c, h, k) = Step(h, o, c)
           /\ items[Step(h, o, c)].Key \in {NoKey, k}
           /\ \A p \in 0..(o - 1) : items[Step(h, p, c)].Key \notin {NoKey, k}
  <1> DEFINE S == Stops(items, c, h, k)
             o == CHOOSE o \in S : \A q \in S : o <= q
  <1>1. S \in SUBSET Nat /\ S # {}
    BY DEF Stops, ProbeEnds
  <1>2. o \in S /\ \A q \in S : o <= q
    BY <1>1, LeastChosen, Zenon
  <1>3. Probe(items, c, h, k) = Step(h, o, c)
    BY DEF Probe
  <1>. HIDE DEF o
  <1>4. o \in 0..(c - 1) /\ items[Step(h, o, c)].Key \in {NoKey, k}
    BY <1>2 DEF Stops
  <1>5. ASSUME NEW p \in 0..(o - 1) PROVE items[Step(h, p, c)].Key \notin {NoKey, k}
    <2>1. p \in 0..(c - 1) /\ ~(o <= p)
      BY <1>4
    <2>2. p \notin S
      BY <1>2, <2>1
    <2>. QED BY <2>1, <2>2 DEF Stops
  <1>. QED BY <1>3, <1>4, <1>5

(* It ends if there is any such slot.                                       *)
LEMMA SlotEndsProbe ==
  ASSUME NEW items, NEW c \in Nat \ {0}, NEW h \in Nat, NEW k, NEW i \in 0..(c - 1),
         items[i].Key \in {NoKey, k}
  PROVE  ProbeEnds(items, c, h, k)
  <1>1. PICK o \in 0..(c - 1) : Step(h, o, c) = i
    BY StepFacts
  <1>. QED BY <1>1 DEF ProbeEnds, Stops

(* What a lookup relies on: in front of a key, along its probe sequence,    *)
(* there is neither a hole nor the key itself; and its hash is stored.      *)
Reachable(hh, items, c) ==
  \A k \in Keys : \A o \in 0..(c - 1) :
    items[Step(hh[k], o, c)].Key = k =>
      \A p \in 0..(o - 1) : items[Step(hh[k], p, c)].Key \notin {NoKey, k}

HashesStored(hh, items, c) ==
  \A i \in 0..(c - 1) : items[i].Key \in Keys => items[i].Hash = hh[items[i].Key]

Holds(items, c, k, v) == \E i \in 0..(c - 1) : items[i].Key = k /\ items[i].Value = v

(* In a table whose keys are reachable no key is stored twice.              *)
LEMMA OneSlot ==
  ASSUME NEW hh \in [Keys -> 0..MaxHash], NEW items, NEW c \in Nat \ {0}, NEW k \in Keys,
         Reachable(hh, items, c)
  PROVE  \A i, j \in 0..(c - 1) : items[i].Key = k /\ items[j].Key = k => i = j
  <1> SUFFICES ASSUME NEW i \in 0..(c - 1), NEW j \in 0..(c - 1), items[i].Key = k, items[j].Key = k
               PROVE  i = j
    OBVIOUS
  <1>1. hh[k] \in Nat
    BY MaxHashAssumption
  <1>2. PICK o \in 0..(c - 1) : Step(hh[k], o, c) = i
    BY <1>1, StepFacts
  <1>3. PICK p \in 0..(c - 1) : Step(hh[k], p, c) = j
    BY <1>1, StepFacts
  <1>4. ~(p < o) /\ ~(o < p)
    BY <1>2, <1>3 DEF Reachable
  <1>. QED BY <1>2, <1>3, <1>4

(* The probe for a stored key ends at its slot.                             *)
LEMMA ProbeFinds ==
  ASSUME NEW hh \in [Keys -> 0..MaxHash], NEW items, NEW c \in Nat \ {0}, NEW k \in Keys,
         Reachable(hh, items, c), NEW i \in 0..(c - 1), items[i].Key = k
  PROVE  ProbeEnds(items, c, hh[k], k) /\ Probe(items, c, hh[k], k) = i
  <1>1. hh[k] \in Nat
    BY MaxHashAssumption
  <1>2. ProbeEnds(items, c, hh[k], k)
    BY <1>1, SlotEndsProbe
  <1>3. PICK o \in 0..(c - 1) :
           /\ Probe(items, c, hh[k], k) = Step(hh[k], o, c)
           /\ items[Step(hh[k], o, c)].Key \in {NoKey, k}
           /\ \A p \in 0..(o - 1) : items[Step(hh[k], p, c)].Key \notin {NoKey, k}
    BY <1>1, <1>2, ProbeStops
  <1>4. PICK q \in 0..(c - 1) : Step(hh[k], q, c) = i
    BY <1>1, StepFacts
  <1>5. ~(q < o)
    BY <1>3, <1>4
  <1>6. ~(o < q)
    BY <1>3, <1>4 DEF Reachable
  <1>. QED BY <1>2, <1>3, <1>4, <1>5, <1>6

(* The contents, as a function of the array.                                *)
ContentsOf(hh, items, c) ==
  [k \in Keys |->
     IF \A i \in 0..(c - 1) : items[i].Key # k THEN NoValue
     ELSE LET item == items[Probe(items, c, hh[k], k)]
          IN  IF item.Key = k THEN item.Value ELSE NoValue]

(* What a table whose keys are reachable maps a key to is the value of its  *)
(* item.                                                                    *)
LEMMA ContentsHeld ==
  ASSUME NEW hh \in [Keys -> 0..MaxHash], NEW items, NEW c \in Nat \ {0}, NEW k \in Keys,
         Reachable(hh, items, c)
  PROVE  /\ \A v : Holds(items, c, k, v) => ContentsOf(hh, items, c)[k] = v
         /\ (\A i \in 0..(c - 1) : items[i].Key # k) => ContentsOf(hh, items, c)[k] = NoValue
  <1>1. ASSUME NEW v, Holds(items, c, k, v) PROVE ContentsOf(hh, items, c)[k] = v
    <2>1. PICK i \in 0..(c - 1) : items[i].Key = k /\ items[i].Value = v
      BY <1>1 DEF Holds
    <2>2. Probe(items, c, hh[k], k) = i
      BY <2>1, ProbeFinds
    <2>. QED BY <2>1, <2>2 DEF ContentsOf
  <1>. QED BY <1>1 DEF ContentsOf

(* What is found for a key depends only on the pairs the array holds.       *)
LEMMA SameEntry ==
  ASSUME NEW hh \in [Keys -> 0..MaxHash], NEW items, NEW c \in Nat \ {0}, NEW old, NEW d \in Nat \ {0},
         Reachable(hh, items, c), Reachable(hh, old, d), NEW k \in Keys,
         \A v : Holds(items, c, k, v) <=> Holds(old, d, k, v)
  PROVE  ContentsOf(hh, items, c)[k] = ContentsOf(hh, old, d)[k]
  <1>1. CASE \A i \in 0..(c - 1) : items[i].Key # k
    <2>1. \A i \in 0..(d - 1) : old[i].Key # k
      BY <1>1 DEF Holds
    <2>. QED BY <1>1, <2>1, ContentsHeld
  <1>2. CASE \E i \in 0..(c - 1) : items[i].Key = k
    <2>1. PICK i \in 0..(c - 1) : items[i].Key = k
      BY <1>2
    <2>2. Holds(items, c, k, items[i].Value)
      BY <2>1 DEF Holds
    <2>3. Holds(old, d, k, items[i].Value)
      BY <2>2
    <2>. QED BY <2>2, <2>3, ContentsHeld
  <1>. QED BY <1>1, <1>2

(* Tables with the same items are the same map.                             *)
LEMMA SameContents ==
  ASSUME NEW hh \in [Keys -> 0..MaxHash], NEW items, NEW c \in Nat \ {0}, NEW old, NEW d \in Nat \ {0},
         Reachable(hh, items, c), Reachable(hh, old, d),
         \A k \in Keys : \A v : Holds(items, c, k, v) <=> Holds(old, d, k, v)
  PROVE  ContentsOf(hh, items, c) = ContentsOf(hh, old, d)
  <1>1. \A k \in Keys : ContentsOf(hh, items, c)[k] = ContentsOf(hh, old, d)[k]
    BY SameEntry
  <1>2. /\ ContentsOf(hh, items, c) = [k \in Keys |-> ContentsOf(hh, items, c)[k]]
        /\ ContentsOf(hh, old, d) = [k \in Keys |-> ContentsOf(hh, old, d)[k]]
    BY DEF ContentsOf
  <1>. QED BY <1>1, <1>2

(* One key gets another value, or none.                                     *)
LEMMA OneEntryChanged ==
  ASSUME NEW hh \in [Keys -> 0..MaxHash], NEW items, NEW c \in Nat \ {0}, NEW old, NEW d \in Nat \ {0},
         Reachable(hh, items, c), Reachable(hh, old, d), NEW k \in Keys, NEW w,
         \A j \in Keys \ {k} : \A v : Holds(items, c, j, v) <=> Holds(old, d, j, v),
         ContentsOf(hh, items, c)[k] = w
  PROVE  ContentsOf(hh, items, c) = [ContentsOf(hh, old, d) EXCEPT ![k] = w]
  <1>1. \A j \in Keys \ {k} : ContentsOf(hh, items, c)[j] = ContentsOf(hh, old, d)[j]
    BY SameEntry
  <1>2. /\ ContentsOf(hh, items, c) = [j \in Keys |-> ContentsOf(hh, items, c)[j]]
        /\ ContentsOf(hh, old, d) = [j \in Keys |-> ContentsOf(hh, old, d)[j]]
    BY DEF ContentsOf
  <1>. HIDE DEF ContentsOf
  <1>. QED BY <1>1, <1>2

(* A key that is nowhere goes to the first empty slot of its probe.         *)
FirstEmpty(items, c, h, o) ==
  /\ items[Step(h, o, c)].Key = NoKey
  /\ \A p \in 0..(o - 1) : items[Step(h, p, c)].Key # NoKey

Absent(items, c, k) == \A i \in 0..(c - 1) : items[i].Key # k

Carries(item, k, h) == item.Key = k /\ item.Hash = h

IsPut(new, items, c, s, item) ==
  /\ new \in [0..(c - 1) -> Item]
  /\ new[s] = item
  /\ \A i \in 0..(c - 1) : i # s => new[i] = items[i]

Adds(new, items, c, item) ==
  \A j \in Keys : \A v :
    Holds(new, c, j, v) <=> Holds(items, c, j, v) \/ (item.Key = j /\ item.Value = v)

(* An item put where its probe first meets an empty slot is reachable, and  *)
(* so is every item that was.                                               *)
LEMMA Placed ==
  ASSUME NEW hh \in [Keys -> 0..MaxHash], NEW c \in Nat \ {0}, NEW k \in Keys,
         NEW items \in [0..(c - 1) -> Item], NEW item \in Item,
         Reachable(hh, items, c), HashesStored(hh, items, c),
         Carries(item, k, hh[k]), Absent(items, c, k),
         NEW o \in 0..(c - 1), FirstEmpty(items, c, hh[k], o),
         NEW new, IsPut(new, items, c, Step(hh[k], o, c), item)
  PROVE  Reachable(hh, new, c) /\ HashesStored(hh, new, c) /\ Adds(new, items, c, item)
  <1> DEFINE s == Step(hh[k], o, c)
  <1>1. \A j \in Keys : hh[j] \in Nat
    BY MaxHashAssumption
  <1>2. s \in 0..(c - 1)
    BY <1>1, StepFacts
  <1>3. /\ \A i \in 0..(c - 1) : i # s => new[i] = items[i]
        /\ new[s] = item /\ item.Key = k /\ item.Hash = hh[k]
    BY <1>2 DEF IsPut, Carries
  <1>4. /\ items[s].Key = NoKey /\ k # NoKey
        /\ \A p \in 0..(o - 1) : items[Step(hh[k], p, c)].Key # NoKey
    BY KeysAssumption DEF FirstEmpty
  <1>5. Reachable(hh, new, c)
    <2> SUFFICES ASSUME NEW j \in Keys, NEW q \in 0..(c - 1), new[Step(hh[j], q, c)].Key = j,
                        NEW p \in 0..(q - 1)
                 PROVE  new[Step(hh[j], p, c)].Key \notin {NoKey, j}
      BY DEF Reachable
    <2>1. /\ Step(hh[j], q, c) \in 0..(c - 1) /\ p \in 0..(c - 1)
          /\ Step(hh[j], p, c) \in 0..(c - 1) /\ Step(hh[j], p, c) # Step(hh[j], q, c)
      <3>1. p \in 0..(c - 1) /\ p # q
        OBVIOUS
      <3>2. hh[j] \in Nat
        BY <1>1
      <3>3. /\ Step(hh[j], q, c) \in 0..(c - 1) /\ Step(hh[j], p, c) \in 0..(c - 1)
            /\ Step(hh[j], p, c) = Step(hh[j], q, c) => p = q
        BY <3>1, <3>2, StepFacts, Zenon
      <3>. QED BY <3>1, <3>3
    <2>2. CASE Step(hh[j], q, c) = s
      <3>1. j = k
        BY <1>3, <2>2
      <3>2. q = o
        BY <1>1, <2>2, <3>1, StepFacts
      <3>. QED BY <1>3, <1>4, <2>1, <2>2, <3>1, <3>2 DEF Absent
    <2>3. CASE Step(hh[j], q, c) # s
      <3>1. items[Step(hh[j], q, c)].Key = j
        BY <1>3, <2>1, <2>3
      <3>2. items[Step(hh[j], p, c)].Key \notin {NoKey, j}
        BY <3>1 DEF Reachable
      <3>3. Step(hh[j], p, c) # s
        BY <1>4, <3>2
      <3>. QED BY <1>3, <2>1, <3>2, <3>3
    <2>. QED BY <2>2, <2>3
  <1>6. HashesStored(hh, new, c)
    BY <1>3 DEF HashesStored, Absent
  <1>7. ASSUME NEW j \in Keys, NEW v
        PROVE  Holds(new, c, j, v) <=> Holds(items, c, j, v) \/ (item.Key = j /\ item.Value = v)
    <2>1. ASSUME NEW i \in 0..(c - 1), items[i].Key = j, items[i].Value = v
          PROVE  Holds(new, c, j, v)
      BY <1>3, <1>4, <2>1, KeysAssumption DEF Holds
    <2>. HIDE DEF s
    <2>. QED BY <1>2, <1>3, <2>1 DEF Holds
  <1>. QED BY <1>5, <1>6, <1>7 DEF Adds

-----------------------------------------------------------------------------
(* The rehash, item by item.                                                *)

Used(items, c) == {i \in 0..(c - 1) : items[i].Key # NoKey}

MoveOne(done, item, c) == [done EXCEPT ![Probe(done, c, item.Hash, NoKey)] = item]

IsRehash(f, items, m, c) ==
  f = [n \in 0..m |-> IF n = 0 THEN NewItems(c) ELSE MoveOne(f[n - 1], items[n - 1], c)]

(* The function by which VHashTable_Rehash is modelled exists.              *)
LEMMA RehashExists ==
  ASSUME NEW items, NEW c, NEW m \in Nat
  PROVE  \E f : IsRehash(f, items, m, c)
  <1> DEFINE Good == {i \in Nat : \E f : IsRehash(f, items, i, c)}
  <1>1. 0 \in Good
    <2> DEFINE g == [n \in 0..0 |-> NewItems(c)]
    <2>1. g = [n \in 0..0 |-> IF n = 0 THEN NewItems(c) ELSE MoveOne(g[n - 1], items[n - 1], c)]
      OBVIOUS
    <2>. QED BY <2>1 DEF IsRehash
  <1>2. ASSUME NEW i \in Nat, i \in Good PROVE i + 1 \in Good
    <2>1. PICK f : IsRehash(f, items, i, c)
      BY <1>2
    <2> DEFINE g == [n \in 0..(i + 1) |-> IF n = i + 1 THEN MoveOne(f[i], items[i], c) ELSE f[n]]
    <2>2. ASSUME NEW n \in 0..(i + 1)
          PROVE  g[n] = IF n = 0 THEN NewItems(c) ELSE MoveOne(g[n - 1], items[n - 1], c)
      <3>1. \A j \in 0..i : f[j] = IF j = 0 THEN NewItems(c) ELSE MoveOne(f[j - 1], items[j - 1], c)
        BY <2>1 DEF IsRehash
      <3>2. n = i + 1 \/ n \in 0..i
        OBVIOUS
      <3>3. n # 0 => n - 1 \in 0..i /\ g[n - 1] = f[n - 1]
        OBVIOUS
      <3>. QED BY <3>1, <3>2, <3>3
    <2>3. IsRehash(g, items, i + 1, c)
      BY <2>2 DEF IsRehash
    <2>. HIDE DEF g
    <2>. QED BY <2>3
  <1>. HIDE DEF Good
  <1>3. Nat \subseteq Good
    BY <1>1, <1>2, SetInduction
  <1>. QED BY <1>3 DEF Good

(* The items after the rehash are its last value.                           *)
LEMMA RehashUnfolds ==
  ASSUME Capacity \in Nat
  PROVE  \E f : IsRehash(f, Items, Capacity, 2 * Capacity) /\ RehashedItems = f[Capacity]
  <1> DEFINE f == CHOOSE g : IsRehash(g, Items, Capacity, 2 * Capacity)
  <1>1. IsRehash(f, Items, Capacity, 2 * Capacity)
    BY RehashExists
  <1>2. RehashedItems = f[Capacity]
    BY DEF RehashedItems, IsRehash, MoveOne
  <1>. QED BY <1>1, <1>2

(* A table with fewer items than slots has an empty one.                    *)
LEMMA UsedSlots ==
  ASSUME NEW items, NEW c \in Nat
  PROVE  /\ IsFiniteSet(Used(items, c)) /\ Cardinality(Used(items, c)) \in 0..c
         /\ Cardinality(Used(items, c)) < c => \E i \in 0..(c - 1) : items[i].Key = NoKey
  <1>1. IsFiniteSet(0..(c - 1)) /\ Cardinality(0..(c - 1)) = c
    BY FS_Interval
  <1>2. Used(items, c) \in SUBSET (0..(c - 1))
    BY DEF Used
  <1>3. IsFiniteSet(Used(items, c)) /\ Cardinality(Used(items, c)) <= c
    BY <1>1, <1>2, FS_Subset
  <1>4. Cardinality(Used(items, c)) \in Nat
    BY <1>3, FS_CardinalityType
  <1>5. ASSUME Cardinality(Used(items, c)) < c PROVE \E i \in 0..(c - 1) : items[i].Key = NoKey
    <2>1. Used(items, c) # 0..(c - 1)
      BY <1>1, <1>4, <1>5
    <2>. QED BY <2>1 DEF Used
  <1>. QED BY <1>3, <1>4, <1>5

(* One move: the item finds an empty slot while one is left.                *)
LEMMA MoveOneFacts ==
  ASSUME NEW c \in Nat \ {0}, NEW done \in [0..(c - 1) -> Item], NEW item \in Item,
         Cardinality(Used(done, c)) < c
  PROVE  /\ MoveOne(done, item, c) \in [0..(c - 1) -> Item]
         /\ Cardinality(Used(MoveOne(done, item, c), c)) <= Cardinality(Used(done, c)) + 1
         /\ \E o \in 0..(c - 1) :
              /\ IsPut(MoveOne(done, item, c), done, c, Step(item.Hash, o, c), item)
              /\ FirstEmpty(done, c, item.Hash, o)
  <1>1. item.Hash \in Nat
    BY MaxHashAssumption DEF Item
  <1>2. PICK i \in 0..(c - 1) : done[i].Key = NoKey
    BY UsedSlots
  <1>3. ProbeEnds(done, c, item.Hash, NoKey)
    BY <1>1, <1>2, SlotEndsProbe
  <1>4. PICK o \in 0..(c - 1) :
           /\ Probe(done, c, item.Hash, NoKey) = Step(item.Hash, o, c)
           /\ done[Step(item.Hash, o, c)].Key \in {NoKey, NoKey}
           /\ \A p \in 0..(o - 1) : done[Step(item.Hash, p, c)].Key \notin {NoKey, NoKey}
    BY <1>1, <1>3, ProbeStops
  <1> DEFINE s == Step(item.Hash, o, c)
  <1>5. s \in 0..(c - 1)
    BY <1>1, StepFacts
  <1>6. MoveOne(done, item, c) = [done EXCEPT ![s] = item]
    BY <1>4 DEF MoveOne
  <1>. HIDE DEF s
  <1>7. Used(MoveOne(done, item, c), c) \subseteq Used(done, c) \cup {s}
    BY <1>5, <1>6 DEF Used
  <1>8. Cardinality(Used(MoveOne(done, item, c), c)) <= Cardinality(Used(done, c)) + 1
    <2>1. IsFiniteSet(Used(done, c)) /\ Cardinality(Used(done, c)) \in Nat
      BY UsedSlots
    <2>2. /\ IsFiniteSet(Used(done, c) \cup {s})
          /\ Cardinality(Used(done, c) \cup {s}) <= Cardinality(Used(done, c)) + 1
      <3> DEFINE U == Used(done, c)
      <3>1. IsFiniteSet(U) /\ Cardinality(U) \in Nat
        BY <2>1
      <3>. HIDE DEF U
      <3>2. /\ IsFiniteSet(U \cup {s})
            /\ Cardinality(U \cup {s}) = IF s \in U THEN Cardinality(U) ELSE Cardinality(U) + 1
        BY <3>1, FS_AddElement, Zenon
      <3>3. Cardinality(U \cup {s}) <= Cardinality(U) + 1
        BY <3>1, <3>2
      <3>. QED BY <3>2, <3>3 DEF U
    <2>3. Cardinality(Used(MoveOne(done, item, c), c)) <= Cardinality(Used(done, c) \cup {s})
      BY <1>7, <2>2, FS_Subset
    <2>4. Cardinality(Used(MoveOne(done, item, c), c)) \in Nat
      BY UsedSlots
    <2>5. Cardinality(Used(done, c) \cup {s}) \in Nat
      BY <2>2, FS_CardinalityType
    <2>. QED BY <2>1, <2>2, <2>3, <2>4, <2>5
  <1>9. MoveOne(done, item, c) \in [0..(c - 1) -> Item]
    BY <1>6
  <1>10. IsPut(MoveOne(done, item, c), done, c, s, item)
    BY <1>5, <1>6, <1>9 DEF IsPut
  <1>11. FirstEmpty(done, c, item.Hash, o)
    BY <1>4 DEF FirstEmpty
  <1>. QED BY <1>8, <1>9, <1>10, <1>11 DEF s

(* A rehash leaves a table of the type, half of it empty at least ...       *)
LEMMA RehashTyped ==
  ASSUME NEW m \in Nat \ {0}, NEW items \in [0..(m - 1) -> Item], NEW c \in Nat \ {0}, m <= c,
         NEW f, IsRehash(f, items, m, c)
  PROVE  \A n \in 0..m : /\ f[n] \in [0..(c - 1) -> Item]
                         /\ Cardinality(Used(f[n], c)) <= n
  <1> DEFINE Fine(n) == /\ f[n] \in [0..(c - 1) -> Item]
                        /\ Cardinality(Used(f[n], c)) <= n
             Good == {n \in Nat : n <= m => Fine(n)}
  <1>1. c \in Nat \ {0}
    OBVIOUS
  <1>2. 0 \in Good
    <2>1. f[0] = NewItems(c)
      BY DEF IsRehash
    <2>2. EmptyItem \in Item
      BY MaxHashAssumption DEF EmptyItem, Item
    <2>3. Used(f[0], c) = {}
      BY <2>1 DEF Used, NewItems, EmptyItem
    <2>4. Cardinality(Used(f[0], c)) = 0
      BY <2>3, FS_EmptySet
    <2>. QED BY <2>1, <2>2, <2>4 DEF NewItems
  <1>3. ASSUME NEW n \in Nat, n \in Good PROVE n + 1 \in Good
    <2> SUFFICES ASSUME n + 1 <= m PROVE Fine(n + 1)
      OBVIOUS
    <2>1. Fine(n) /\ n < c
      BY <1>3
    <2>2. f[n + 1] = MoveOne(f[n], items[n], c)
      <3>1. \A j \in 0..m : f[j] = IF j = 0 THEN NewItems(c) ELSE MoveOne(f[j - 1], items[j - 1], c)
        BY DEF IsRehash
      <3>2. n + 1 \in 0..m /\ n + 1 # 0 /\ (n + 1) - 1 = n
        OBVIOUS
      <3>. QED BY <3>1, <3>2
    <2>3. items[n] \in Item
      OBVIOUS
    <2>4. Cardinality(Used(f[n], c)) \in Nat
      BY <1>1, UsedSlots
    <2>5. /\ MoveOne(f[n], items[n], c) \in [0..(c - 1) -> Item]
          /\ Cardinality(Used(MoveOne(f[n], items[n], c), c)) <= Cardinality(Used(f[n], c)) + 1
      <3>1. f[n] \in [0..(c - 1) -> Item] /\ Cardinality(Used(f[n], c)) < c
        BY <2>1, <2>4
      <3>. QED BY <1>1, <2>3, <3>1, MoveOneFacts
    <2>6. Cardinality(Used(f[n + 1], c)) \in Nat
      BY <1>1, UsedSlots
    <2>7. Cardinality(Used(f[n + 1], c)) <= n + 1
      BY <2>1, <2>2, <2>4, <2>5, <2>6
    <2>. QED BY <2>2, <2>5, <2>7
  <1>. HIDE DEF Good
  <1>4. Nat \subseteq Good
    BY <1>2, <1>3, SetInduction
  <1>. QED BY <1>4 DEF Good

(* ... in which every item is still found: it holds what the old one holds. *)
LEMMA MoveKeeps ==
  ASSUME NEW hh \in [Keys -> 0..MaxHash], NEW c \in Nat \ {0},
         NEW done \in [0..(c - 1) -> Item], NEW item \in Item,
         Cardinality(Used(done, c)) < c,
         Reachable(hh, done, c), HashesStored(hh, done, c),
         item.Key \in Keys => /\ item.Hash = hh[item.Key]
                              /\ \A i \in 0..(c - 1) : done[i].Key # item.Key,
         NEW new, new = MoveOne(done, item, c)
  PROVE  Reachable(hh, new, c) /\ HashesStored(hh, new, c) /\ Adds(new, done, c, item)
  <1>1. PICK o \in 0..(c - 1) :
          /\ IsPut(new, done, c, Step(item.Hash, o, c), item)
          /\ FirstEmpty(done, c, item.Hash, o)
    BY MoveOneFacts
  <1> DEFINE s == Step(item.Hash, o, c)
  <1>2. /\ s \in 0..(c - 1) /\ new \in [0..(c - 1) -> Item]
        /\ new[s] = item /\ done[s].Key = NoKey
        /\ \A i \in 0..(c - 1) : i # s => new[i] = done[i]
    <2>1. item.Hash \in Nat
      BY MaxHashAssumption DEF Item
    <2>. QED BY <1>1, <2>1, StepFacts DEF IsPut, FirstEmpty
  <1>. HIDE DEF s
  <1>3. CASE item.Key \in Keys
    <2>1. PICK k \in Keys : k = item.Key
      BY <1>3
    <2>2. /\ Carries(item, k, hh[k]) /\ Absent(done, c, k)
          /\ IsPut(new, done, c, Step(hh[k], o, c), item)
          /\ FirstEmpty(done, c, hh[k], o)
      BY <1>1, <1>3, <2>1 DEF Carries, Absent
    <2>. QED BY <2>1, <2>2, Placed
  <1>4. CASE item.Key \notin Keys
    <2>1. item.Key = NoKey
      BY <1>4 DEF Item
    <2>2. \A i \in 0..(c - 1) : new[i].Key = done[i].Key
      BY <1>2, <2>1
    <2>3. \A i \in 0..(c - 1) : done[i].Key \in Keys => new[i] = done[i]
      BY <1>2, KeysAssumption
    <2>4. Reachable(hh, new, c)
      <3> SUFFICES ASSUME NEW j \in Keys, NEW q \in 0..(c - 1), new[Step(hh[j], q, c)].Key = j,
                          NEW p \in 0..(q - 1)
                   PROVE  new[Step(hh[j], p, c)].Key \notin {NoKey, j}
        BY DEF Reachable
      <3>1. hh[j] \in Nat /\ p \in 0..(c - 1)
        BY MaxHashAssumption
      <3>2. Step(hh[j], q, c) \in 0..(c - 1) /\ Step(hh[j], p, c) \in 0..(c - 1)
        BY <3>1, StepFacts
      <3>3. done[Step(hh[j], q, c)].Key = j
        BY <2>2, <3>2
      <3>4. done[Step(hh[j], p, c)].Key \notin {NoKey, j}
        BY <3>3 DEF Reachable
      <3>. QED BY <2>2, <3>2, <3>4
    <2>5. HashesStored(hh, new, c)
      BY <2>2, <2>3 DEF HashesStored
    <2>6. \A j \in Keys : \A v : Holds(new, c, j, v) <=> Holds(done, c, j, v)
      BY <2>2, <2>3 DEF Holds
    <2>. QED BY <1>4, <2>4, <2>5, <2>6 DEF Adds
  <1>. QED BY <1>3, <1>4

(* A rehash keeps every item, and every key reachable.                      *)
LEMMA RehashKeeps ==
  ASSUME NEW m \in Nat \ {0}, NEW items \in [0..(m - 1) -> Item], NEW c \in Nat \ {0}, m <= c,
         NEW f, IsRehash(f, items, m, c), NEW hh \in [Keys -> 0..MaxHash],
         Reachable(hh, items, m), HashesStored(hh, items, m)
  PROVE  /\ Reachable(hh, f[m], c) /\ HashesStored(hh, f[m], c)
         /\ \A k \in Keys : \A v : Holds(f[m], c, k, v) <=> Holds(items, m, k, v)
  <1> DEFINE Same(n) == \A k \in Keys : \A v :
               Holds(f[n], c, k, v) <=> \E i \in 0..(n - 1) : items[i].Key = k /\ items[i].Value = v
             Fine(n) == Reachable(hh, f[n], c) /\ HashesStored(hh, f[n], c) /\ Same(n)
             Good == {n \in Nat : n <= m => Fine(n)}
  <1>1. 0 \in Good
    <2>1. f[0] = NewItems(c)
      BY DEF IsRehash
    <2>2. \A i \in 0..(c - 1) : f[0][i].Key \notin Keys
      BY <2>1, KeysAssumption DEF NewItems, EmptyItem
    <2>3. \A k \in Keys, o \in 0..(c - 1) : f[0][Step(hh[k], o, c)].Key # k
      <3>1. \A k \in Keys : hh[k] \in Nat
        BY MaxHashAssumption
      <3>2. \A k \in Keys, o \in 0..(c - 1) : Step(hh[k], o, c) \in 0..(c - 1)
        BY <3>1, StepFacts
      <3>. QED BY <2>2, <3>2
    <2>4. Reachable(hh, f[0], c)
      BY <2>3 DEF Reachable
    <2>5. HashesStored(hh, f[0], c)
      BY <2>2 DEF HashesStored
    <2>6. Same(0)
      BY <2>2 DEF Holds
    <2>. QED BY <2>4, <2>5, <2>6
  <1>2. ASSUME NEW n \in Nat, n \in Good PROVE n + 1 \in Good
    <2> SUFFICES ASSUME n + 1 <= m PROVE Fine(n + 1)
      OBVIOUS
    <2>1. Fine(n) /\ n \in 0..m /\ n < c /\ n \in 0..(m - 1)
      BY <1>2
    <2>2. f[n + 1] = MoveOne(f[n], items[n], c)
      <3>1. \A j \in 0..m : f[j] = IF j = 0 THEN NewItems(c) ELSE MoveOne(f[j - 1], items[j - 1], c)
        BY DEF IsRehash
      <3>2. n + 1 \in 0..m /\ n + 1 # 0 /\ (n + 1) - 1 = n
        OBVIOUS
      <3>. QED BY <3>1, <3>2
    <2>3. items[n] \in Item
      BY <2>1
    <2>4. f[n] \in [0..(c - 1) -> Item] /\ Cardinality(Used(f[n], c)) < c
      <3>1. f[n] \in [0..(c - 1) -> Item] /\ Cardinality(Used(f[n], c)) <= n
        BY <2>1, RehashTyped
      <3>2. Cardinality(Used(f[n], c)) \in Nat
        BY UsedSlots
      <3>. QED BY <2>1, <3>1, <3>2
    <2>5. ASSUME items[n].Key \in Keys
          PROVE  /\ items[n].Hash = hh[items[n].Key]
                 /\ \A i \in 0..(c - 1) : f[n][i].Key # items[n].Key
      <3>1. PICK k \in Keys : k = items[n].Key
        BY <2>5
      <3>2. items[n].Hash = hh[items[n].Key]
        BY <2>1, <2>5 DEF HashesStored
      <3>3. ASSUME NEW i \in 0..(c - 1), f[n][i].Key = k PROVE FALSE
        <4>1. Holds(f[n], c, k, f[n][i].Value)
          BY <3>3 DEF Holds
        <4>2. PICK j \in 0..(n - 1) : items[j].Key = k
          BY <2>1, <4>1
        <4>3. j \in 0..(m - 1) /\ j # n
          BY <2>1
        <4>4. n \in 0..(m - 1) /\ items[n].Key = k
          BY <2>1, <3>1
        <4>5. j = n
          BY <4>2, <4>3, <4>4, OneSlot
        <4>. QED BY <4>3, <4>5
      <3>. QED BY <3>1, <3>2, <3>3
    <2>6. /\ Reachable(hh, f[n + 1], c) /\ HashesStored(hh, f[n + 1], c)
          /\ Adds(f[n + 1], f[n], c, items[n])
      <3>1. Reachable(hh, f[n], c) /\ HashesStored(hh, f[n], c)
        BY <2>1
      <3>2. PICK item \in Item : item = items[n]
        BY <2>3
      <3>3. PICK done \in [0..(c - 1) -> Item] : done = f[n]
        BY <2>4
      <3>. HIDE DEF Good, Fine
      <3>4. /\ Cardinality(Used(done, c)) < c
            /\ Reachable(hh, done, c) /\ HashesStored(hh, done, c)
            /\ item.Key \in Keys => /\ item.Hash = hh[item.Key]
                                    /\ \A i \in 0..(c - 1) : done[i].Key # item.Key
            /\ f[n + 1] = MoveOne(done, item, c)
        BY <2>2, <2>4, <2>5, <3>1, <3>2, <3>3
      <3>5. /\ Reachable(hh, f[n + 1], c) /\ HashesStored(hh, f[n + 1], c)
            /\ Adds(f[n + 1], done, c, item)
        BY <3>4, MoveKeeps
      <3>. QED BY <3>2, <3>3, <3>5
    <2>7. Same(n + 1)
      <3> SUFFICES ASSUME NEW j \in Keys, NEW v
                   PROVE  Holds(f[n + 1], c, j, v) <=>
                            \E i \in 0..n : items[i].Key = j /\ items[i].Value = v
        OBVIOUS
      <3>1. Holds(f[n], c, j, v) <=> \E i \in 0..(n - 1) : items[i].Key = j /\ items[i].Value = v
        BY <2>1
      <3>2. \A i : i \in 0..n <=> i \in 0..(n - 1) \/ i = n
        OBVIOUS
      <3>. HIDE DEF Good, Fine, Same
      <3>. QED BY <2>6, <3>1, <3>2 DEF Adds
    <2>. QED BY <2>6, <2>7
  <1>3. Fine(m)
    <2>. HIDE DEF Good
    <2>1. Nat \subseteq Good
      BY <1>1, <1>2, SetInduction
    <2>. HIDE DEF Fine
    <2>. QED BY <2>1 DEF Good
  <1>. QED BY <1>3 DEF Holds

-----------------------------------------------------------------------------
(* The invariants.  Whatever the table goes through, the iterator has       *)
(* returned the filled slots in front of its cursor, once each; until the   *)
(* first rehash Count is exact, so an insertion finds a slot and the        *)
(* iterator stops in time.                                                  *)
IterInv ==
  /\ iter.Cursor \in 0..Capacity
  /\ iter.Returned = {i \in Filled : i < iter.Cursor}
  /\ iter.Count = Cardinality(iter.Returned)

CountInv ==
  Capacity = InitCapacity =>
    Count = Cardinality(Filled) /\ state \notin {"inserting", "overrun"}

TableInv == TypeOK /\ IterInv /\ CountInv

(* The capacity is positive and never shrinks.                              *)
LEMMA CapacityPositive ==
  ASSUME TypeOK
  PROVE  /\ Capacity \in Nat \ {0} /\ RoomyCap \in Nat \ {0} /\ 2 * Capacity \in Nat \ {0}
         /\ Capacity <= RoomyCap /\ Capacity <= MaxCapacity
         /\ InitCapacity <= Capacity /\ (Grows => Capacity < RoomyCap)
  <1>1. Capacity \in InitCapacity..MaxCapacity /\ InitCapacity \in Nat \ {0} /\ MaxCapacity \in Nat
    BY InitCapacityAssumption, MaxCapacityAssumption DEF TypeOK
  <1>2. RoomyCap = IF Grows THEN 2 * Capacity ELSE Capacity
    BY DEF RoomyCap
  <1>. QED BY <1>1, <1>2

(* The items after the check for room have their type.                      *)
LEMMA RoomTyped ==
  ASSUME TypeOK
  PROVE  RoomyItems \in [0..(RoomyCap - 1) -> Item]
  <1>1. CASE Grows
    <2>1. Capacity \in Nat \ {0} /\ 2 * Capacity \in Nat \ {0} /\ Capacity <= 2 * Capacity
      BY CapacityPositive
    <2>2. PICK f : IsRehash(f, Items, Capacity, 2 * Capacity) /\ RehashedItems = f[Capacity]
      BY <2>1, RehashUnfolds
    <2>3. PICK c \in Nat \ {0} : c = 2 * Capacity
      BY <2>1
    <2>4. Items \in [0..(Capacity - 1) -> Item]
      BY DEF TypeOK
    <2>5. \A n \in 0..Capacity : f[n] \in [0..(c - 1) -> Item]
      <3>1. IsRehash(f, Items, Capacity, c) /\ Capacity <= c
        BY <2>1, <2>2, <2>3
      <3>. QED BY <2>1, <2>4, <3>1, RehashTyped
    <2>6. RehashedItems \in [0..(c - 1) -> Item]
      BY <2>1, <2>2, <2>5
    <2>. QED BY <1>1, <2>3, <2>6 DEF RoomyItems, RoomyCap
  <1>2. CASE ~Grows
    BY <1>2 DEF RoomyItems, RoomyCap, TypeOK
  <1>. QED BY <1>1, <1>2

(* The check for room, with its rehash or without, keeps every item, and    *)
(* every key reachable.                                                     *)
LEMMA RoomKeeps ==
  ASSUME TypeOK, Reachable(hash, Items, Capacity), HashesStored(hash, Items, Capacity)
  PROVE  /\ Reachable(hash, RoomyItems, RoomyCap) /\ HashesStored(hash, RoomyItems, RoomyCap)
         /\ \A k \in Keys : \A v : Holds(RoomyItems, RoomyCap, k, v) <=> Holds(Items, Capacity, k, v)
  <1>1. CASE Grows
    <2>1. Capacity \in Nat \ {0} /\ 2 * Capacity \in Nat \ {0} /\ Capacity <= 2 * Capacity
      BY CapacityPositive
    <2>2. PICK f : IsRehash(f, Items, Capacity, 2 * Capacity) /\ RehashedItems = f[Capacity]
      BY <2>1, RehashUnfolds
    <2>3. PICK c \in Nat \ {0} : c = 2 * Capacity
      BY <2>1
    <2>4. Items \in [0..(Capacity - 1) -> Item] /\ hash \in [Keys -> 0..MaxHash]
      BY DEF TypeOK
    <2>5. /\ Reachable(hash, f[Capacity], c) /\ HashesStored(hash, f[Capacity], c)
          /\ \A k \in Keys : \A v : Holds(f[Capacity], c, k, v) <=> Holds(Items, Capacity, k, v)
      <3>1. IsRehash(f, Items, Capacity, c) /\ Capacity <= c
        BY <2>1, <2>2, <2>3
      <3>. QED BY <2>1, <2>4, <3>1, RehashKeeps
    <2>. QED BY <1>1, <2>2, <2>3, <2>5 DEF RoomyItems, RoomyCap
  <1>2. CASE ~Grows
    BY <1>2 DEF RoomyItems, RoomyCap
  <1>. QED BY <1>1, <1>2

(* The type of a hash.                                                      *)
LEMMA HashIsNat == ASSUME TypeOK, NEW k \in Keys PROVE hash[k] \in Nat /\ hash[k] \in 0..MaxHash
  <1>1. hash \in [Keys -> 0..MaxHash]
    BY DEF TypeOK
  <1>. QED BY <1>1, MaxHashAssumption

(* The type of the slot a probe ends at.                                    *)
LEMMA SlotFound ==
  ASSUME NEW items, NEW c \in Nat \ {0}, NEW h \in Nat, NEW k, ProbeEnds(items, c, h, k)
  PROVE  Probe(items, c, h, k) \in 0..(c - 1) /\ items[Probe(items, c, h, k)].Key \in {NoKey, k}
  <1>1. PICK o \in 0..(c - 1) :
           /\ Probe(items, c, h, k) = Step(h, o, c)
           /\ items[Step(h, o, c)].Key \in {NoKey, k}
    BY ProbeStops
  <1>2. Step(h, o, c) \in 0..(c - 1)
    BY StepFacts
  <1>. QED BY <1>1, <1>2

(* Filled is the set the lemmas on tables count.                            *)
LEMMA FilledIsUsed == Filled = Used(Items, Capacity)
  BY DEF Filled, Used

(* No more slots are filled than there are.                                 *)
LEMMA FilledFinite ==
  ASSUME TypeOK
  PROVE  IsFiniteSet(Filled) /\ Cardinality(Filled) \in 0..Capacity
  BY CapacityPositive, UsedSlots, FilledIsUsed

(* The iterator's types follow from what it has returned.                   *)
LEMMA IteratorTyped ==
  ASSUME Capacity \in InitCapacity..MaxCapacity, IterInv
  PROVE  /\ iter.Cursor \in 0..MaxCapacity /\ iter.Count \in 0..MaxCapacity
         /\ iter.Returned \in SUBSET (0..(MaxCapacity - 1))
         /\ iter.Count <= iter.Cursor
  <1>1. Capacity \in Nat /\ Capacity <= MaxCapacity /\ MaxCapacity \in Nat
    BY InitCapacityAssumption, MaxCapacityAssumption
  <1>2. iter.Cursor \in 0..Capacity
    BY DEF IterInv
  <1>3. iter.Returned \in SUBSET (0..(iter.Cursor - 1))
    BY <1>1, <1>2 DEF IterInv, Filled
  <1>4. IsFiniteSet(0..(iter.Cursor - 1)) /\ Cardinality(0..(iter.Cursor - 1)) = iter.Cursor
    <2>1. 0 \in Int /\ iter.Cursor - 1 \in Int /\ iter.Cursor \in Nat
      BY <1>1, <1>2
    <2>2. /\ IsFiniteSet(0..(iter.Cursor - 1))
          /\ Cardinality(0..(iter.Cursor - 1)) =
               IF 0 > iter.Cursor - 1 THEN 0 ELSE (iter.Cursor - 1) - 0 + 1
      BY <2>1, FS_Interval, Zenon
    <2>. QED BY <2>1, <2>2
  <1>5. IsFiniteSet(iter.Returned) /\ Cardinality(iter.Returned) <= iter.Cursor
    BY <1>3, <1>4, FS_Subset
  <1>6. Cardinality(iter.Returned) \in Nat
    BY <1>5, FS_CardinalityType
  <1>7. iter.Count \in 0..MaxCapacity /\ iter.Count <= iter.Cursor
    BY <1>1, <1>2, <1>5, <1>6 DEF IterInv
  <1>8. iter.Returned \in SUBSET (0..(MaxCapacity - 1))
    BY <1>1, <1>2, <1>3
  <1>. QED BY <1>1, <1>2, <1>7, <1>8

(* The invariant holds initially.                                           *)
LEMMA TableInit == Init => TableInv
  <1> SUFFICES ASSUME Init PROVE TableInv
    OBVIOUS
  <1>1. EmptyItem \in Item
    BY MaxHashAssumption DEF EmptyItem, Item
  <1>2. Items \in [0..(Capacity - 1) -> Item] /\ Filled = {}
    BY <1>1 DEF Init, NewItems, Filled, EmptyItem
  <1>3. Cardinality({}) = 0
    BY FS_EmptySet
  <1>4. Capacity = InitCapacity /\ Capacity \in Nat \ {0} /\ iter = Iterator
    BY InitCapacityAssumption DEF Init
  <1>5. IterInv
    BY <1>2, <1>3, <1>4 DEF IterInv, Iterator
  <1>6. CountInv
    BY <1>2, <1>3 DEF CountInv, Init
  <1>7. TypeOK
    <2>1. hash \in [Keys -> 0..MaxHash] /\ state = "live" /\ ret = NoValue /\ cut = FALSE
      BY DEF Init
    <2>2. Count \in 0..(CountMod - 1) /\ Capacity \in InitCapacity..MaxCapacity
      BY <1>4, MaxCapacityAssumption, CountModAssumption DEF Init
    <2>3. iter \in [Cursor : 0..MaxCapacity, Count : 0..MaxCapacity,
                    Returned : SUBSET (0..(MaxCapacity - 1))]
      BY <1>4, MaxCapacityAssumption DEF Iterator
    <2>. QED BY <1>2, <2>1, <2>2, <2>3 DEF TypeOK
  <1>. QED BY <1>5, <1>6, <1>7 DEF TableInv

(* A new iterator has returned nothing.                                     *)
LEMMA FreshIterator ==
  ASSUME iter' = Iterator, Capacity' \in Nat
  PROVE  /\ IterInv'
         /\ iter' \in [Cursor : 0..MaxCapacity, Count : 0..MaxCapacity,
                       Returned : SUBSET (0..(MaxCapacity - 1))]
  <1>1. iter'.Cursor = 0 /\ iter'.Count = 0 /\ iter'.Returned = {}
    BY DEF Iterator
  <1>2. {i \in Filled' : i < 0} = {}
    BY DEF Filled
  <1>3. Cardinality({}) = 0
    BY FS_EmptySet
  <1>4. IterInv'
    BY <1>1, <1>2, <1>3 DEF IterInv
  <1>5. iter' \in [Cursor : 0..MaxCapacity, Count : 0..MaxCapacity,
                   Returned : SUBSET (0..(MaxCapacity - 1))]
    BY MaxCapacityAssumption DEF Iterator
  <1>. QED BY <1>4, <1>5

(* A call that moves nothing leaves the iterator where it was.              *)
LEMMA SameIterator ==
  ASSUME IterInv, iter' = iter, Capacity' = Capacity, Filled' = Filled
  PROVE  IterInv'
  BY DEF IterInv

(* The type of Count.                                                       *)
LEMMA CountIsNat == ASSUME TypeOK PROVE Count \in Nat /\ Count < CountMod
  <1>1. Count \in 0..(CountMod - 1)
    BY DEF TypeOK
  <1>. QED BY <1>1, CountModAssumption

(* After the check for room Count is below the capacity.                    *)
LEMMA RoomyCountBound ==
  ASSUME TypeOK
  PROVE  RoomyCount \in Nat /\ RoomyCount < MaxCapacity /\ (~Grows => Count < Capacity)
  <1>1. Capacity \in Nat \ {0} /\ Capacity <= MaxCapacity /\ Count \in Nat /\ MaxCapacity \in Nat
    BY CapacityPositive, MaxCapacityAssumption, CountIsNat
  <1>. QED BY <1>1 DEF RoomyCount, Grows

(* Without a rehash there is an empty slot, so an insertion's probe ends.   *)
LEMMA InsertEnds ==
  ASSUME TableInv, NEW k \in Keys, RoomyCap = InitCapacity
  PROVE  ProbeEnds(RoomyItems, RoomyCap, hash[k], k) /\ ~Grows /\ Capacity = InitCapacity
  <1>1. TypeOK /\ CountInv
    BY DEF TableInv
  <1>2. /\ Capacity \in Nat \ {0} /\ RoomyCap \in Nat \ {0} /\ InitCapacity <= Capacity
        /\ (Grows => Capacity < RoomyCap)
    BY <1>1, CapacityPositive
  <1>3. ~Grows
    BY <1>2, InitCapacityAssumption
  <1>4. Capacity = InitCapacity /\ RoomyItems = Items
    BY <1>3 DEF RoomyCap, RoomyItems
  <1>5. Cardinality(Used(Items, Capacity)) < Capacity
    BY <1>1, <1>3, <1>4, RoomyCountBound, FilledIsUsed DEF CountInv
  <1>6. PICK i \in 0..(Capacity - 1) : Items[i].Key = NoKey
    BY <1>2, <1>5, UsedSlots
  <1>7. hash[k] \in Nat
    BY <1>1, HashIsNat
  <1>8. ProbeEnds(Items, Capacity, hash[k], k)
    BY <1>2, <1>6, <1>7, SlotEndsProbe
  <1>. QED BY <1>3, <1>4, <1>8 DEF RoomyCap

(* Insertions keep the invariant: Count goes up exactly when an empty slot  *)
(* is filled.                                                               *)
LEMMA InsertKeepsTable ==
  ASSUME TableInv, NEW k \in Keys, NEW v \in Values, Insert(k, v)
  PROVE  TableInv'
  <1> DEFINE i == Probe(RoomyItems, RoomyCap, hash[k], k)
             ends == ProbeEnds(RoomyItems, RoomyCap, hash[k], k)
             item == [Key |-> k, Value |-> v, Hash |-> hash[k]]
  <1>1. TypeOK /\ IterInv /\ CountInv
    BY DEF TableInv
  <1>2. /\ state = "live" /\ RoomyCap <= MaxCapacity /\ Capacity' = RoomyCap
        /\ hash' = hash /\ ret' = ret /\ cut' = cut
        /\ \/ /\ ends
              /\ Items' = [RoomyItems EXCEPT ![i] = item]
              /\ Count' = RoomyCount + Added(RoomyItems[i])
              /\ iter' = IF Grows \/ RoomyItems[i].Key = NoKey THEN Iterator ELSE iter
              /\ state' = state
           \/ /\ ~ends
              /\ Items' = RoomyItems /\ Count' = RoomyCount /\ iter' = Iterator
              /\ state' = "inserting"
    BY DEF Insert, Hang
  <1>3. /\ RoomyCap \in Nat \ {0} /\ RoomyCap \in InitCapacity..MaxCapacity
        /\ Capacity \in Nat \ {0}
    BY <1>1, <1>2, CapacityPositive, InitCapacityAssumption, MaxCapacityAssumption
  <1>4. RoomyItems \in [0..(RoomyCap - 1) -> Item]
    BY <1>1, RoomTyped
  <1>5. hash[k] \in Nat /\ hash[k] \in 0..MaxHash
    BY <1>1, HashIsNat
  <1>6. ends => i \in 0..(RoomyCap - 1) /\ RoomyItems[i].Key \in {NoKey, k}
    BY <1>3, <1>5, SlotFound
  <1>7. item \in Item
    BY <1>5 DEF Item
  <1>. HIDE DEF i, ends, item
  <1>8. Items' \in [0..(Capacity' - 1) -> Item]
    BY <1>2, <1>4, <1>6, <1>7
  <1>9. Added(RoomyItems[i]) \in {0, 1}
    BY DEF Added
  <1>10. Count' \in 0..(CountMod - 1)
    BY <1>1, <1>2, <1>9, RoomyCountBound, MaxCapacityAssumption, CountModAssumption
  <1>11. iter' = Iterator \/ (iter' = iter /\ ~Grows /\ ends /\ RoomyItems[i].Key # NoKey)
    BY <1>2
  <1>12. ASSUME ~Grows, ends
         PROVE  Filled' = Filled \cup {i} /\ (RoomyItems[i].Key # NoKey <=> i \in Filled)
    <2>1. RoomyItems = Items /\ RoomyCap = Capacity
      BY <1>12 DEF RoomyItems, RoomyCap
    <2>2. /\ i \in 0..(Capacity - 1) /\ Capacity' = Capacity
          /\ Items' = [Items EXCEPT ![i] = item]
      BY <1>2, <1>6, <1>12, <2>1
    <2>3. item.Key # NoKey
      BY KeysAssumption DEF item
    <2>4. \A j \in 0..(Capacity - 1) : Items'[j] = IF j = i THEN item ELSE Items[j]
      BY <1>1, <2>2 DEF TypeOK
    <2>. QED BY <2>1, <2>2, <2>3, <2>4 DEF Filled
  <1>13. /\ IterInv'
         /\ iter' \in [Cursor : 0..MaxCapacity, Count : 0..MaxCapacity,
                       Returned : SUBSET (0..(MaxCapacity - 1))]
    <2>1. CASE iter' = Iterator
      BY <1>2, <1>3, <2>1, FreshIterator
    <2>2. CASE iter' = iter /\ ~Grows /\ ends /\ RoomyItems[i].Key # NoKey
      <3>1. Filled' = Filled
        BY <1>12, <2>2
      <3>2. Capacity' = Capacity
        BY <1>2, <2>2 DEF RoomyCap
      <3>. QED BY <1>1, <2>2, <3>1, <3>2, SameIterator DEF TypeOK
    <2>. QED BY <1>11, <2>1, <2>2
  <1>14. CountInv'
    <2> SUFFICES ASSUME Capacity' = InitCapacity
                 PROVE  Count' = Cardinality(Filled') /\ state' \notin {"inserting", "overrun"}
      BY DEF CountInv
    <2>1. ends /\ ~Grows /\ Capacity = InitCapacity
      BY <1>2, InsertEnds DEF ends
    <2>2. Count = Cardinality(Filled) /\ state \notin {"inserting", "overrun"}
      BY <1>1, <2>1 DEF CountInv
    <2>3. IsFiniteSet(Filled)
      BY <1>1, FilledFinite
    <2>4. Cardinality(Filled') = IF i \in Filled THEN Count ELSE Count + 1
      BY <1>12, <2>1, <2>2, <2>3, FS_AddElement
    <2>5. Count' = IF RoomyItems[i].Key = NoKey THEN Count + 1 ELSE Count
      <3>1. RoomyCount = Count /\ Count \in Nat
        BY <1>1, <2>1, CountIsNat DEF RoomyCount
      <3>. QED BY <1>2, <2>1, <3>1 DEF Added
    <2>. QED BY <1>2, <1>12, <2>1, <2>2, <2>4, <2>5
  <1>15. TypeOK'
    BY <1>1, <1>2, <1>3, <1>8, <1>10, <1>13 DEF TypeOK, Item
  <1>. QED BY <1>13, <1>14, <1>15 DEF TableInv

(* Removals keep it.                                                        *)
LEMMA RemoveKeepsTable ==
  ASSUME TableInv, NEW k \in Keys, Remove(k)
  PROVE  TableInv'
  <1> DEFINE i == Probe(Items, Capacity, hash[k], k)
             ends == ProbeEnds(Items, Capacity, hash[k], k)
  <1>1. TypeOK /\ IterInv /\ CountInv
    BY DEF TableInv
  <1>2. /\ Capacity' = Capacity /\ hash' = hash /\ state = "live"
        /\ \/ /\ ends /\ Items[i].Key = k
              /\ Items' = [Items EXCEPT ![i].Key = NoKey]
              /\ Count' = (Count - 1) % CountMod
              /\ ret' = Items[i].Value /\ iter' = Iterator
              /\ cut' = (cut \/ Items[(i + 1) % Capacity].Key \notin {NoKey, k})
              /\ state' = state
           \/ /\ Items' = Items /\ Count' = Count /\ iter' = iter /\ cut' = cut
              /\ ret' = NoValue \/ ret' = ret
              /\ state' = state \/ state' = "looking up"
    BY DEF Remove, Found, Hang
  <1>3. Capacity \in Nat \ {0} /\ Items \in [0..(Capacity - 1) -> Item] /\ hash[k] \in Nat
    BY <1>1, CapacityPositive, HashIsNat DEF TypeOK
  <1>4. ends => i \in 0..(Capacity - 1)
    BY <1>3, SlotFound
  <1>. HIDE DEF i, ends
  <1>5. CASE /\ ends /\ Items[i].Key = k
             /\ Items' = [Items EXCEPT ![i].Key = NoKey]
             /\ Count' = (Count - 1) % CountMod
             /\ ret' = Items[i].Value /\ iter' = Iterator
             /\ cut' = (cut \/ Items[(i + 1) % Capacity].Key \notin {NoKey, k})
             /\ state' = state
    <2>1. i \in 0..(Capacity - 1) /\ Items[i] \in Item /\ k # NoKey
      BY <1>3, <1>4, <1>5, KeysAssumption
    <2>2. [Items[i] EXCEPT !.Key = NoKey] \in Item
      BY <2>1 DEF Item
    <2>3. \A j \in 0..(Capacity - 1) :
             Items'[j] = IF j = i THEN [Items[i] EXCEPT !.Key = NoKey] ELSE Items[j]
      BY <1>3, <1>5, <2>1
    <2>4. Items' \in [0..(Capacity' - 1) -> Item]
      BY <1>2, <1>3, <1>5, <2>1, <2>2
    <2>5. Filled' = Filled \ {i} /\ i \in Filled
      <3>1. [Items[i] EXCEPT !.Key = NoKey].Key = NoKey
        BY <2>1 DEF Item
      <3>. QED BY <1>2, <1>5, <2>1, <2>3, <3>1 DEF Filled
    <2>6. Count' \in 0..(CountMod - 1)
      <3>1. Count - 1 \in Int /\ CountMod \in Nat \ {0}
        BY <1>1, CountIsNat, CountModAssumption, MaxCapacityAssumption
      <3>2. (Count - 1) % CountMod \in 0..(CountMod - 1)
        BY <3>1
      <3>. QED BY <1>5, <3>2
    <2>7. /\ IterInv'
          /\ iter' \in [Cursor : 0..MaxCapacity, Count : 0..MaxCapacity,
                        Returned : SUBSET (0..(MaxCapacity - 1))]
      BY <1>2, <1>3, <1>5, FreshIterator
    <2>8. CountInv'
      <3> SUFFICES ASSUME Capacity' = InitCapacity
                   PROVE  Count' = Cardinality(Filled') /\ state' \notin {"inserting", "overrun"}
        BY DEF CountInv
      <3>1. Count = Cardinality(Filled) /\ state \notin {"inserting", "overrun"}
        BY <1>1, <1>2 DEF CountInv
      <3>2. IsFiniteSet(Filled)
        BY <1>1, FilledFinite
      <3>3. Cardinality(Filled') = Count - 1 /\ Count - 1 \in Nat
        <4>1. IsFiniteSet(Filled') /\ Cardinality(Filled') = Cardinality(Filled) - 1
          BY <2>5, <3>2, FS_RemoveElement
        <4>2. Cardinality(Filled') \in Nat
          BY <4>1, FS_CardinalityType
        <4>. QED BY <3>1, <4>1, <4>2
      <3>4. (Count - 1) % CountMod = Count - 1
        <4>1. /\ Count - 1 = CountMod * 0 + (Count - 1) /\ Count - 1 \in 0..(CountMod - 1)
              /\ 0 \in Int /\ CountMod \in Nat \ {0}
          BY <1>1, <3>3, CountIsNat, CountModAssumption, MaxCapacityAssumption
        <4>. QED BY <3>3, <4>1, Remainder, Zenon
      <3>. QED BY <1>5, <3>1, <3>3, <3>4
    <2>9. ret' \in Values \cup {NoValue} /\ cut' \in BOOLEAN
      BY <1>1, <1>5, <2>1 DEF Item, TypeOK
    <2>10. TypeOK'
      BY <1>1, <1>2, <1>5, <2>4, <2>6, <2>7, <2>9 DEF TypeOK, Item
    <2>. QED BY <2>7, <2>8, <2>10 DEF TableInv
  <1>6. CASE /\ Items' = Items /\ Count' = Count /\ iter' = iter /\ cut' = cut
             /\ ret' = NoValue \/ ret' = ret
             /\ state' = state \/ state' = "looking up"
    <2>1. Filled' = Filled
      BY <1>2, <1>6 DEF Filled
    <2>2. IterInv'
      BY <1>1, <1>2, <1>6, <2>1, SameIterator
    <2>3. CountInv'
      BY <1>1, <1>2, <1>6, <2>1 DEF CountInv
    <2>4. TypeOK'
      BY <1>1, <1>2, <1>6 DEF TypeOK, Item
    <2>. QED BY <2>2, <2>3, <2>4 DEF TableInv
  <1>. QED BY <1>2, <1>5, <1>6

(* Lookups keep it.                                                         *)
LEMMA GetKeepsTable ==
  ASSUME TableInv, NEW k \in Keys, Get(k)
  PROVE  TableInv'
  <1>1. TypeOK /\ IterInv /\ CountInv
    BY DEF TableInv
  <1>2. /\ Capacity' = Capacity /\ hash' = hash /\ Items' = Items /\ Count' = Count
        /\ iter' = iter /\ cut' = cut /\ state = "live"
        /\ state' = state \/ state' = "looking up"
        /\ \/ ret' = ret \/ ret' = NoValue
           \/ ret' = Found(k).Value /\ ProbeEnds(Items, Capacity, hash[k], k)
    BY DEF Get, Hang, table
  <1>3. Filled' = Filled
    BY <1>2 DEF Filled
  <1>4. ret' \in Values \cup {NoValue}
    <2>1. CASE ProbeEnds(Items, Capacity, hash[k], k)
      <3>1. Capacity \in Nat \ {0} /\ Items \in [0..(Capacity - 1) -> Item] /\ hash[k] \in Nat
        BY <1>1, CapacityPositive, HashIsNat DEF TypeOK
      <3>2. Probe(Items, Capacity, hash[k], k) \in 0..(Capacity - 1)
        BY <2>1, <3>1, SlotFound
      <3>3. Found(k) \in Item
        BY <3>1, <3>2 DEF Found
      <3>4. Found(k).Value \in Values \cup {NoValue}
        BY <3>3 DEF Item
      <3>. QED BY <1>1, <1>2, <3>4 DEF TypeOK
    <2>. QED BY <1>1, <1>2, <2>1 DEF TypeOK
  <1>5. IterInv'
    BY <1>1, <1>2, <1>3, SameIterator
  <1>6. CountInv'
    BY <1>1, <1>2, <1>3 DEF CountInv
  <1>7. TypeOK'
    BY <1>1, <1>2, <1>4 DEF TypeOK, Item
  <1>. QED BY <1>5, <1>6, <1>7 DEF TableInv

(* VHashTable_Free keeps it.                                                *)
LEMMA FreeKeepsTable ==
  ASSUME TableInv, Free
  PROVE  TableInv'
  <1>1. TypeOK
    BY DEF TableInv
  <1>2. /\ Items' = NewItems(InitCapacity) /\ Capacity' = InitCapacity /\ Count' = 0
        /\ iter' = Iterator /\ ret' = NoValue /\ state' = "freed" /\ hash' = hash /\ cut' = cut
    BY DEF Free
  <1>3. Capacity' \in Nat \ {0} /\ Capacity' \in InitCapacity..MaxCapacity
    BY <1>2, InitCapacityAssumption, MaxCapacityAssumption
  <1>4. EmptyItem \in Item
    BY MaxHashAssumption DEF EmptyItem, Item
  <1>5. Items' \in [0..(Capacity' - 1) -> Item] /\ Filled' = {}
    BY <1>2, <1>4 DEF NewItems, Filled, EmptyItem
  <1>6. /\ IterInv'
        /\ iter' \in [Cursor : 0..MaxCapacity, Count : 0..MaxCapacity,
                      Returned : SUBSET (0..(MaxCapacity - 1))]
    BY <1>2, <1>3, FreshIterator
  <1>7. CountInv'
    BY <1>2, <1>5, FS_EmptySet DEF CountInv
  <1>8. Count' \in 0..(CountMod - 1)
    BY <1>2, CountModAssumption, MaxCapacityAssumption
  <1>9. TypeOK'
    BY <1>1, <1>2, <1>3, <1>5, <1>6, <1>8 DEF TypeOK, Item
  <1>. QED BY <1>6, <1>7, <1>9 DEF TableInv

(* A new iterator keeps it.                                                 *)
LEMMA IteratorKeepsTable ==
  ASSUME TableInv, VHashTable_Iterator
  PROVE  TableInv'
  <1>1. TypeOK /\ CountInv
    BY DEF TableInv
  <1>2. /\ Items' = Items /\ Capacity' = Capacity /\ Count' = Count /\ hash' = hash
        /\ state' = state /\ ret' = ret /\ cut' = cut /\ iter' = Iterator
    BY DEF VHashTable_Iterator, table
  <1>3. Capacity' \in Nat
    BY <1>1, <1>2, CapacityPositive
  <1>4. /\ IterInv'
        /\ iter' \in [Cursor : 0..MaxCapacity, Count : 0..MaxCapacity,
                      Returned : SUBSET (0..(MaxCapacity - 1))]
    BY <1>2, <1>3, FreshIterator
  <1>5. CountInv'
    BY <1>1, <1>2 DEF CountInv, Filled
  <1>6. TypeOK'
    BY <1>1, <1>2, <1>4 DEF TypeOK, Item
  <1>. QED BY <1>4, <1>5, <1>6 DEF TableInv

(* All that is filled was returned, once no filled slot is ahead.           *)
LEMMA NothingAhead ==
  ASSUME TypeOK, IterInv, CountInv, Capacity = InitCapacity, FilledAhead = {}
  PROVE  IterationEnds
  <1>1. iter.Returned = Filled
    BY CapacityPositive DEF IterInv, FilledAhead, Filled
  <1>. QED BY <1>1 DEF IterInv, CountInv, IterationEnds

(* VHashTable_Next keeps it: it returns the first filled slot ahead.        *)
LEMMA NextKeepsTable ==
  ASSUME TableInv, VHashTable_Next
  PROVE  TableInv'
  <1> DEFINE i == CHOOSE i \in FilledAhead : \A j \in FilledAhead : i <= j
  <1>1. TypeOK /\ IterInv /\ CountInv
    BY DEF TableInv
  <1>2. /\ Items' = Items /\ Capacity' = Capacity /\ Count' = Count /\ hash' = hash
        /\ ret' = ret /\ cut' = cut /\ state = "live" /\ ~IterationEnds
        /\ \/ FilledAhead = {} /\ state' = "overrun" /\ iter' = iter
           \/ /\ FilledAhead # {} /\ state' = state
              /\ iter' = [Cursor |-> i + 1, Count |-> iter.Count + 1,
                          Returned |-> iter.Returned \cup {i}]
    BY DEF VHashTable_Next, table
  <1>3. Filled' = Filled
    BY <1>2 DEF Filled
  <1>4. Capacity \in Nat \ {0} /\ Capacity \in InitCapacity..MaxCapacity /\ Capacity <= MaxCapacity
    BY <1>1, CapacityPositive DEF TypeOK
  <1>5. CASE FilledAhead = {} /\ state' = "overrun" /\ iter' = iter
    <2>1. Capacity # InitCapacity
      BY <1>1, <1>2, <1>5, NothingAhead
    <2>2. CountInv'
      BY <1>2, <2>1 DEF CountInv
    <2>3. IterInv'
      BY <1>1, <1>2, <1>3, <1>5, SameIterator
    <2>4. TypeOK'
      BY <1>1, <1>2, <1>5 DEF TypeOK, Item
    <2>. QED BY <2>2, <2>3, <2>4 DEF TableInv
  <1>6. CASE /\ FilledAhead # {} /\ state' = state
             /\ iter' = [Cursor |-> i + 1, Count |-> iter.Count + 1,
                         Returned |-> iter.Returned \cup {i}]
    <2>1. iter.Cursor \in 0..Capacity
      BY <1>1 DEF IterInv
    <2>2. FilledAhead \in SUBSET Nat /\ FilledAhead # {}
      BY <1>4, <1>6, <2>1 DEF FilledAhead
    <2>3. i \in FilledAhead /\ \A j \in FilledAhead : i <= j
      BY <2>2, LeastChosen, Zenon
    <2>. HIDE DEF i
    <2>4. i \in iter.Cursor..(Capacity - 1) /\ i \in Filled /\ i \in Nat
      BY <1>4, <2>1, <2>3 DEF FilledAhead, Filled
    <2>5. /\ iter'.Cursor = i + 1 /\ iter'.Count = iter.Count + 1
          /\ iter'.Returned = iter.Returned \cup {i}
      BY <1>6
    <2>6. iter.Returned = {j \in Filled : j < iter.Cursor}
      BY <1>1 DEF IterInv
    <2>7. iter'.Returned = {j \in Filled' : j < iter'.Cursor}
      <3>1. \A j \in Filled : j \in 0..(Capacity - 1)
        BY DEF Filled
      <3>2. \A j \in Filled : j < iter.Cursor \/ j \in FilledAhead
        BY <1>4, <2>1 DEF Filled, FilledAhead
      <3>3. \A j \in Filled : j < i + 1 <=> j < iter.Cursor \/ j = i
        BY <1>4, <2>1, <2>3, <2>4, <3>1, <3>2
      <3>. QED BY <1>3, <2>4, <2>5, <2>6, <3>3
    <2>8. iter'.Count = Cardinality(iter'.Returned)
      <3>1. IsFiniteSet(iter.Returned)
        BY <1>1, <2>6, FilledFinite, FS_Subset
      <3>2. i \notin iter.Returned
        BY <1>4, <2>1, <2>4, <2>6
      <3>3. iter.Count = Cardinality(iter.Returned)
        BY <1>1 DEF IterInv
      <3>. QED BY <2>5, <3>1, <3>2, <3>3, FS_AddElement
    <2>9. IterInv'
      <3>1. iter'.Cursor \in 0..Capacity'
        BY <1>2, <1>4, <2>1, <2>4, <2>5
      <3>. QED BY <2>7, <2>8, <3>1 DEF IterInv
    <2>10. CountInv'
      BY <1>1, <1>2, <1>3, <1>6 DEF CountInv
    <2>11. iter' \in [Cursor : 0..MaxCapacity, Count : 0..MaxCapacity,
                      Returned : SUBSET (0..(MaxCapacity - 1))]
      <3>1. /\ iter.Count \in 0..MaxCapacity /\ iter.Count <= iter.Cursor
            /\ iter.Returned \in SUBSET (0..(MaxCapacity - 1))
        BY <1>1, <1>4, IteratorTyped
      <3>2. /\ i + 1 \in 0..MaxCapacity /\ iter.Count + 1 \in 0..MaxCapacity
            /\ iter.Returned \cup {i} \in SUBSET (0..(MaxCapacity - 1))
        BY <1>4, <2>1, <2>4, <3>1, MaxCapacityAssumption
      <3>. QED BY <1>6, <3>2
    <2>12. TypeOK'
      BY <1>1, <1>2, <1>6, <2>11 DEF TypeOK, Item
    <2>. QED BY <2>9, <2>10, <2>12 DEF TableInv
  <1>. QED BY <1>2, <1>5, <1>6

(* Every step keeps the invariant.                                          *)
LEMMA TableStep ==
  ASSUME TableInv, [Next]_vars
  PROVE  TableInv'
  <1>1. CASE Next
    BY <1>1, GetKeepsTable, RemoveKeepsTable, InsertKeepsTable, FreeKeepsTable,
       IteratorKeepsTable, NextKeepsTable DEF Next
  <1>2. CASE UNCHANGED vars
    BY <1>2 DEF vars, table, TableInv, TypeOK, IterInv, CountInv, Filled, Item
  <1>. QED BY <1>1, <1>2

(* The invariant holds in every state.                                      *)
LEMMA TableInvAlways == Spec => []TableInv
  BY TableInit, TableStep, PTL DEF Spec

(* Items, Count and the iterator keep their types, through every rehash:    *)
(* the probes of VHashTable_Rehash always find a slot.                      *)
THEOREM TableTypes == Spec => []TypeOK
  <1>1. TableInv => TypeOK
    BY DEF TableInv
  <1>. QED BY <1>1, TableInvAlways, PTL

(* Until the first rehash VHashTable_Insert's Count is the number of filled *)
(* slots, so its probe ends.                                                *)
THEOREM CountExact == Spec => []CountExactBeforeRehash
  <1>1. TableInv => CountExactBeforeRehash
    BY DEF TableInv, CountInv, CountExactBeforeRehash
  <1>. QED BY <1>1, TableInvAlways, PTL

(* On a table that was not rehashed VHashTable_Next returns every item once *)
(* and then NULL.                                                           *)
THEOREM IterationReturnsAll == Spec => []IterationComplete
  <1>1. TableInv => IterationComplete
    <2> SUFFICES ASSUME TableInv, Capacity = InitCapacity
                 PROVE  /\ state # "overrun"
                        /\ iter.Count = Cardinality(iter.Returned)
                        /\ iter.Returned = {i \in Filled : i < iter.Cursor}
                        /\ IterationEnds => iter.Returned = Filled
      BY DEF IterationComplete
    <2>1. TypeOK /\ IterInv /\ CountInv
      BY DEF TableInv
    <2>2. IterationEnds => iter.Returned = Filled
      <3>1. CASE iter.Cursor >= Capacity
        BY <2>1, <3>1, CapacityPositive DEF IterInv, Filled
      <3>2. CASE iter.Count = Count
        <4>1. Cardinality(iter.Returned) = Cardinality(Filled)
          BY <2>1, <3>2 DEF IterInv, CountInv
        <4>2. IsFiniteSet(Filled) /\ iter.Returned \in SUBSET Filled
          BY <2>1, FilledFinite DEF IterInv
        <4>. QED BY <4>1, <4>2, FS_Subset
      <3>. QED BY <3>1, <3>2 DEF IterationEnds
    <2>. QED BY <2>1, <2>2 DEF IterInv, CountInv
  <1>. QED BY <1>1, TableInvAlways, PTL

-----------------------------------------------------------------------------
(* The table is a map, up to the first hole: as long as no removal has cut  *)
(* a chain, every key can be reached along its probe sequence.              *)
ChainInv ==
  ~cut => Reachable(hash, Items, Capacity) /\ HashesStored(hash, Items, Capacity)

(* Contents is the map the lemmas on tables speak of.                       *)
LEMMA ContentsAre ==
  /\ Contents = ContentsOf(hash, Items, Capacity)
  /\ Contents' = ContentsOf(hash', Items', Capacity')
  BY DEF Contents, ContentsOf, Found

(* An empty table is the empty map.                                         *)
LEMMA NewItemsReachable ==
  ASSUME NEW hh \in [Keys -> 0..MaxHash], NEW c \in Nat \ {0}
  PROVE  /\ Reachable(hh, NewItems(c), c) /\ HashesStored(hh, NewItems(c), c)
         /\ ContentsOf(hh, NewItems(c), c) = [k \in Keys |-> NoValue]
  <1>1. \A i \in 0..(c - 1) : NewItems(c)[i].Key \notin Keys
    BY KeysAssumption DEF NewItems, EmptyItem
  <1>2. \A k \in Keys, o \in 0..(c - 1) : NewItems(c)[Step(hh[k], o, c)].Key # k
    <2>1. \A k \in Keys : hh[k] \in Nat
      BY MaxHashAssumption
    <2>2. \A k \in Keys, o \in 0..(c - 1) : Step(hh[k], o, c) \in 0..(c - 1)
      BY <2>1, StepFacts
    <2>. QED BY <1>1, <2>2
  <1>3. Reachable(hh, NewItems(c), c)
    BY <1>2 DEF Reachable
  <1>4. HashesStored(hh, NewItems(c), c)
    BY <1>1 DEF HashesStored
  <1>5. ContentsOf(hh, NewItems(c), c) = [k \in Keys |-> NoValue]
    BY <1>1 DEF ContentsOf
  <1>. QED BY <1>3, <1>4, <1>5

(* Where no chain is cut, a lookup that ends tells the value of the key,    *)
(* and an empty slot that the key is absent.                                *)
LEMMA LookupReturns ==
  ASSUME TypeOK, ChainInv, ~cut, NEW k \in Keys, ProbeEnds(Items, Capacity, hash[k], k)
  PROVE  /\ Contents[k] = IF Found(k).Key = k THEN Found(k).Value ELSE NoValue
         /\ Found(k).Key # k => Absent(Items, Capacity, k)
  <1>1. /\ Capacity \in Nat \ {0} /\ hash[k] \in Nat /\ hash \in [Keys -> 0..MaxHash]
        /\ Reachable(hash, Items, Capacity)
    BY CapacityPositive, HashIsNat DEF TypeOK, ChainInv
  <1> DEFINE i == Probe(Items, Capacity, hash[k], k)
  <1>2. i \in 0..(Capacity - 1) /\ Found(k) = Items[i]
    BY <1>1, SlotFound DEF Found
  <1>. HIDE DEF i
  <1>3. CASE Found(k).Key = k
    <2>1. Holds(Items, Capacity, k, Found(k).Value)
      BY <1>2, <1>3 DEF Holds
    <2>2. ContentsOf(hash, Items, Capacity)[k] = Found(k).Value
      BY <1>1, <2>1, ContentsHeld
    <2>. QED BY <1>3, <2>2, ContentsAre
  <1>4. CASE Found(k).Key # k
    <2>1. ASSUME NEW j \in 0..(Capacity - 1), Items[j].Key = k PROVE FALSE
      <3>1. Probe(Items, Capacity, hash[k], k) = j
        BY <1>1, <2>1, ProbeFinds
      <3>. QED BY <1>2, <1>4, <2>1, <3>1 DEF i
    <2>2. \A j \in 0..(Capacity - 1) : Items[j].Key # k
      BY <2>1
    <2>3. ContentsOf(hash, Items, Capacity)[k] = NoValue
      BY <1>1, <2>2, ContentsHeld
    <2>. QED BY <1>4, <2>2, <2>3, ContentsAre DEF Absent
  <1>. QED BY <1>3, <1>4

(* VHashTable_Insert puts a value into the map, or never returns.           *)
LEMMA InsertPuts ==
  ASSUME TableInv, ChainInv, NEW k \in Keys, NEW v \in Values, Insert(k, v)
  PROVE  ChainInv' /\ (~cut => Map!Put(k, v) \/ UNCHANGED <<Contents, ret>>)
  <1> DEFINE i == Probe(RoomyItems, RoomyCap, hash[k], k)
             ends == ProbeEnds(RoomyItems, RoomyCap, hash[k], k)
             item == [Key |-> k, Value |-> v, Hash |-> hash[k]]
  <1>1. TypeOK
    BY DEF TableInv
  <1>2. /\ Capacity' = RoomyCap /\ hash' = hash /\ ret' = ret /\ cut' = cut
        /\ \/ ends /\ Items' = [RoomyItems EXCEPT ![i] = item]
           \/ ~ends /\ Items' = RoomyItems
    BY DEF Insert, Hang
  <1> SUFFICES ASSUME ~cut
               PROVE  /\ Reachable(hash', Items', Capacity') /\ HashesStored(hash', Items', Capacity')
                      /\ Map!Put(k, v) \/ UNCHANGED <<Contents, ret>>
    BY <1>2 DEF ChainInv
  <1>3. /\ RoomyCap \in Nat \ {0} /\ Capacity \in Nat \ {0} /\ hash[k] \in Nat
        /\ hash[k] \in 0..MaxHash /\ hash \in [Keys -> 0..MaxHash]
        /\ Reachable(hash, Items, Capacity) /\ HashesStored(hash, Items, Capacity)
        /\ RoomyItems \in [0..(RoomyCap - 1) -> Item]
    BY <1>1, CapacityPositive, HashIsNat, RoomTyped DEF TypeOK, ChainInv
  <1>4. /\ Reachable(hash, RoomyItems, RoomyCap) /\ HashesStored(hash, RoomyItems, RoomyCap)
        /\ \A j \in Keys : \A w : Holds(RoomyItems, RoomyCap, j, w) <=> Holds(Items, Capacity, j, w)
    BY <1>1, <1>3, RoomKeeps
  <1>5. item \in Item /\ item.Key = k /\ item.Value = v /\ item.Hash = hash[k] /\ k # NoKey
    BY <1>3, KeysAssumption DEF Item
  <1>6. ends => i \in 0..(RoomyCap - 1) /\ RoomyItems[i].Key \in {NoKey, k}
    BY <1>3, SlotFound
  <1>7. CASE ~ends
    <2>1. Items' = RoomyItems
      BY <1>2, <1>7
    <2>2. ContentsOf(hash, RoomyItems, RoomyCap) = ContentsOf(hash, Items, Capacity)
      BY <1>3, <1>4, SameContents
    <2>. QED BY <1>2, <1>4, <2>1, <2>2, ContentsAre
  <1>8. CASE ends
    <2> DEFINE new == [RoomyItems EXCEPT ![i] = item]
    <2>1. Items' = new /\ i \in 0..(RoomyCap - 1) /\ RoomyItems[i].Key \in {NoKey, k}
      BY <1>2, <1>6, <1>8
    <2>2. new \in [0..(RoomyCap - 1) -> Item] /\ new[i] = item
      BY <1>3, <1>5, <2>1
    <2>3. \A j \in 0..(RoomyCap - 1) : j # i => new[j] = RoomyItems[j]
      BY <1>3, <2>1
    <2>. HIDE DEF new, item
    <2>4. /\ Reachable(hash, new, RoomyCap) /\ HashesStored(hash, new, RoomyCap)
          /\ \A j \in Keys \ {k} : \A w : Holds(new, RoomyCap, j, w) <=> Holds(RoomyItems, RoomyCap, j, w)
      <3>1. CASE RoomyItems[i].Key = k
        <4>. HIDE DEF i
        <4>1. \A j \in 0..(RoomyCap - 1) : new[j].Key = RoomyItems[j].Key
          BY <1>5, <2>2, <2>3, <3>1
        <4>2. \A j \in Keys, o \in 0..(RoomyCap - 1) : Step(hash[j], o, RoomyCap) \in 0..(RoomyCap - 1)
          BY <1>1, <1>3, HashIsNat, StepFacts
        <4>3. Reachable(hash, new, RoomyCap)
          <5> SUFFICES ASSUME NEW j \in Keys, NEW o \in 0..(RoomyCap - 1),
                              new[Step(hash[j], o, RoomyCap)].Key = j, NEW p \in 0..(o - 1)
                       PROVE  new[Step(hash[j], p, RoomyCap)].Key \notin {NoKey, j}
            BY DEF Reachable
          <5>1. p \in 0..(RoomyCap - 1)
            BY <1>3
          <5>2. RoomyItems[Step(hash[j], o, RoomyCap)].Key = j
            BY <4>1, <4>2
          <5>3. RoomyItems[Step(hash[j], p, RoomyCap)].Key \notin {NoKey, j}
            BY <1>4, <5>2 DEF Reachable
          <5>. QED BY <4>1, <4>2, <5>1, <5>3
        <4>4. HashesStored(hash, new, RoomyCap)
          BY <1>4, <1>5, <2>2, <2>3 DEF HashesStored
        <4>5. \A j \in Keys \ {k} : \A w : Holds(new, RoomyCap, j, w) <=> Holds(RoomyItems, RoomyCap, j, w)
          BY <1>5, <2>2, <2>3, <3>1 DEF Holds
        <4>. QED BY <4>3, <4>4, <4>5
      <3>2. CASE RoomyItems[i].Key = NoKey
        <4>1. PICK o \in 0..(RoomyCap - 1) :
                 /\ i = Step(hash[k], o, RoomyCap)
                 /\ \A p \in 0..(o - 1) : RoomyItems[Step(hash[k], p, RoomyCap)].Key \notin {NoKey, k}
          BY <1>3, <1>8, ProbeStops
        <4>2. ASSUME NEW j \in 0..(RoomyCap - 1), RoomyItems[j].Key = k PROVE FALSE
          <5>1. i = j
            BY <1>3, <1>4, <4>2, ProbeFinds
          <5>. QED BY <1>5, <3>2, <4>2, <5>1
        <4>. HIDE DEF i
        <4>3. Absent(RoomyItems, RoomyCap, k)
          BY <4>2 DEF Absent
        <4>4. FirstEmpty(RoomyItems, RoomyCap, hash[k], o) /\ Carries(item, k, hash[k])
          BY <1>5, <3>2, <4>1 DEF FirstEmpty, Carries
        <4>5. IsPut(new, RoomyItems, RoomyCap, Step(hash[k], o, RoomyCap), item)
          BY <2>2, <2>3, <4>1 DEF IsPut
        <4>6. /\ Reachable(hash, new, RoomyCap) /\ HashesStored(hash, new, RoomyCap)
              /\ Adds(new, RoomyItems, RoomyCap, item)
          BY <1>3, <1>4, <1>5, <4>3, <4>4, <4>5, Placed
        <4>. QED BY <1>5, <4>6 DEF Adds
      <3>. QED BY <2>1, <3>1, <3>2
    <2>5. ContentsOf(hash, new, RoomyCap)[k] = v
      <3>1. Holds(new, RoomyCap, k, v)
        BY <1>5, <2>1, <2>2 DEF Holds
      <3>. QED BY <1>3, <2>4, <3>1, ContentsHeld
    <2>6. ContentsOf(hash, new, RoomyCap) = [ContentsOf(hash, Items, Capacity) EXCEPT ![k] = v]
      <3>1. \A j \in Keys \ {k} : \A w : Holds(new, RoomyCap, j, w) <=> Holds(Items, Capacity, j, w)
        BY <1>4, <2>4
      <3>. QED BY <1>3, <2>4, <2>5, <3>1, OneEntryChanged
    <2>7. Map!Put(k, v)
      BY <1>2, <2>1, <2>6, ContentsAre DEF Map!Put
    <2>. QED BY <1>2, <2>1, <2>4, <2>7
  <1>. QED BY <1>7, <1>8

(* A removal that leaves no hole: the next slot is empty (or the only one), *)
(* so no probe went on behind the slot that is emptied.                     *)
LEMMA RemoveDeletes ==
  ASSUME TableInv, ChainInv, NEW k \in Keys, Remove(k)
  PROVE  ChainInv' /\ (~cut' => Map!Delete(k) \/ Map!Lookup(k) \/ UNCHANGED <<Contents, ret>>)
  <1> DEFINE i == Probe(Items, Capacity, hash[k], k)
             ends == ProbeEnds(Items, Capacity, hash[k], k)
  <1>1. TypeOK
    BY DEF TableInv
  <1>2. /\ Capacity' = Capacity /\ hash' = hash /\ (cut => cut')
        /\ \/ /\ ends /\ Items[i].Key = k
              /\ Items' = [Items EXCEPT ![i].Key = NoKey] /\ ret' = Items[i].Value
              /\ ~cut' => Items[(i + 1) % Capacity].Key \in {NoKey, k}
           \/ ends /\ Found(k).Key # k /\ Items' = Items /\ ret' = NoValue /\ cut' = cut
           \/ Items' = Items /\ ret' = ret /\ cut' = cut
    <2>1. /\ Capacity' = Capacity /\ hash' = hash
          /\ \/ /\ ends /\ Found(k).Key = k
                /\ Items' = [Items EXCEPT ![i].Key = NoKey] /\ ret' = Items[i].Value
                /\ cut' = (cut \/ Items[(i + 1) % Capacity].Key \notin {NoKey, k})
             \/ ends /\ Found(k).Key # k /\ Items' = Items /\ ret' = NoValue /\ cut' = cut
             \/ Items' = Items /\ ret' = ret /\ cut' = cut
      BY DEF Remove, Hang
    <2>2. Found(k).Key = Items[i].Key
      BY DEF Found
    <2>3. cut \in BOOLEAN
      BY <1>1 DEF TypeOK
    <2>. HIDE DEF i, ends
    <2> DEFINE hole == Items[(i + 1) % Capacity].Key \notin {NoKey, k}
    <2>4. (cut' = (cut \/ hole)) => (cut => cut') /\ (~cut' => ~hole)
      <3>. HIDE DEF hole
      <3>. QED BY <2>3
    <2>5. cut' = cut => (cut => cut')
      OBVIOUS
    <2>6. ~hole => Items[(i + 1) % Capacity].Key \in {NoKey, k}
      OBVIOUS
    <2>7. \/ /\ ends /\ Found(k).Key = k
             /\ Items' = [Items EXCEPT ![i].Key = NoKey] /\ ret' = Items[i].Value
             /\ cut' = (cut \/ hole)
          \/ ends /\ Found(k).Key # k /\ Items' = Items /\ ret' = NoValue /\ cut' = cut
          \/ Items' = Items /\ ret' = ret /\ cut' = cut
      BY <2>1
    <2>. HIDE DEF hole
    <2>. QED BY <2>1, <2>2, <2>4, <2>5, <2>6, <2>7, Zenon
  <1> SUFFICES ASSUME ~cut'
               PROVE  /\ Reachable(hash', Items', Capacity') /\ HashesStored(hash', Items', Capacity')
                      /\ Map!Delete(k) \/ Map!Lookup(k) \/ UNCHANGED <<Contents, ret>>
    BY DEF ChainInv
  <1>3. /\ ~cut /\ Capacity \in Nat \ {0} /\ hash[k] \in Nat /\ hash \in [Keys -> 0..MaxHash]
        /\ Reachable(hash, Items, Capacity) /\ HashesStored(hash, Items, Capacity)
        /\ Items \in [0..(Capacity - 1) -> Item]
    BY <1>1, <1>2, CapacityPositive, HashIsNat DEF TypeOK, ChainInv
  <1>4. CASE Items' = Items /\ ret' = ret
    BY <1>2, <1>3, <1>4, ContentsAre
  <1>5. CASE ends /\ Found(k).Key # k /\ Items' = Items /\ ret' = NoValue
    <2>1. Contents[k] = NoValue
      BY <1>1, <1>3, <1>5, LookupReturns
    <2>2. Contents' = Contents
      BY <1>2, <1>5, ContentsAre
    <2>3. Map!Lookup(k)
      BY <1>5, <2>1, <2>2 DEF Map!Lookup
    <2>. QED BY <1>2, <1>3, <1>5, <2>3
  <1>6. CASE /\ ends /\ Items[i].Key = k
             /\ Items' = [Items EXCEPT ![i].Key = NoKey] /\ ret' = Items[i].Value
             /\ Items[(i + 1) % Capacity].Key \in {NoKey, k}
    <2> DEFINE new == [Items EXCEPT ![i].Key = NoKey]
    <2>1. i \in 0..(Capacity - 1)
      BY <1>3, <1>6, SlotFound
    <2>2. PICK o \in 0..(Capacity - 1) : i = Step(hash[k], o, Capacity)
      BY <1>3, <1>6, ProbeStops
    <2>3. Contents[k] = Items[i].Value
      BY <1>1, <1>3, <1>6, LookupReturns DEF Found
    <2>. HIDE DEF i
    <2>4. /\ Items[i] \in Item /\ k # NoKey
          /\ [Items[i] EXCEPT !.Key = NoKey].Key = NoKey
          /\ new[i] = [Items[i] EXCEPT !.Key = NoKey]
          /\ \A j \in 0..(Capacity - 1) : j # i => new[j] = Items[j]
      BY <1>3, <2>1, KeysAssumption DEF Item
    <2>. HIDE DEF new
    <2>5. new[i].Key = NoKey /\ (\A j \in 0..(Capacity - 1) : j # i => Items[j].Key # k)
      <3>1. ASSUME NEW j \in 0..(Capacity - 1), j # i, Items[j].Key = k PROVE FALSE
        <4>1. \A a, b \in 0..(Capacity - 1) : Items[a].Key = k /\ Items[b].Key = k => a = b
          BY <1>3, OneSlot
        <4>. QED BY <1>6, <2>1, <3>1, <4>1
      <3>. QED BY <2>4, <3>1
    <2>6. \A j \in Keys, q \in 0..(Capacity - 1) : Step(hash[j], q, Capacity) \in 0..(Capacity - 1)
      BY <1>1, <1>3, HashIsNat, StepFacts
    <2>7. Reachable(hash, new, Capacity)
      <3> SUFFICES ASSUME NEW j \in Keys, NEW q \in 0..(Capacity - 1),
                          new[Step(hash[j], q, Capacity)].Key = j, NEW p \in 0..(q - 1)
                   PROVE  new[Step(hash[j], p, Capacity)].Key \notin {NoKey, j}
        BY DEF Reachable
      <3>1. p \in 0..(Capacity - 1) /\ p + 1 \in 0..q /\ p + 1 < Capacity
        BY <1>3
      <3>2. Step(hash[j], q, Capacity) # i /\ j # k
        BY <2>4, <2>5, <2>6, KeysAssumption
      <3>3. Items[Step(hash[j], q, Capacity)].Key = j
        BY <2>4, <2>6, <3>2
      <3>4. Items[Step(hash[j], p, Capacity)].Key \notin {NoKey, j}
        BY <1>3, <3>3 DEF Reachable
      <3>5. Step(hash[j], p, Capacity) # i
        <4> SUFFICES ASSUME Step(hash[j], p, Capacity) = i PROVE FALSE
          OBVIOUS
        <4>1. hash[j] \in Nat
          BY <1>1, HashIsNat
        <4>2. (i + 1) % Capacity = Step(hash[j], p + 1, Capacity)
          BY <1>3, <3>1, <4>1, StepFacts
        <4>3. Step(hash[j], p + 1, Capacity) # i /\ Step(hash[j], p + 1, Capacity) \in 0..(Capacity - 1)
          <5>1. p + 1 \in 0..(Capacity - 1) /\ p + 1 # p
            BY <1>3, <3>1
          <5>. QED BY <1>3, <3>1, <4>1, <5>1, StepFacts
        <4>4. Items[Step(hash[j], p + 1, Capacity)].Key = NoKey
          BY <1>6, <2>5, <4>2, <4>3
        <4>5. CASE p + 1 = q
          BY <3>3, <4>4, <4>5, KeysAssumption
        <4>6. CASE p + 1 \in 0..(q - 1)
          BY <1>3, <3>3, <4>4, <4>6 DEF Reachable
        <4>. QED BY <3>1, <4>5, <4>6
      <3>. QED BY <2>4, <2>6, <3>1, <3>4, <3>5
    <2>8. HashesStored(hash, new, Capacity)
      BY <1>3, <2>4, <2>5, KeysAssumption DEF HashesStored
    <2>9. \A j \in Keys \ {k} : \A w : Holds(new, Capacity, j, w) <=> Holds(Items, Capacity, j, w)
      <3> SUFFICES ASSUME NEW j \in Keys \ {k}, NEW w
                   PROVE  Holds(new, Capacity, j, w) <=> Holds(Items, Capacity, j, w)
        OBVIOUS
      <3>1. new[i].Key # j /\ Items[i].Key # j
        BY <1>6, <2>5, KeysAssumption
      <3>2. \A m \in 0..(Capacity - 1) : m # i => new[m] = Items[m]
        BY <2>4
      <3>. QED BY <3>1, <3>2 DEF Holds
    <2>10. ContentsOf(hash, new, Capacity)[k] = NoValue
      <3>1. \A j \in 0..(Capacity - 1) : new[j].Key # k
        BY <2>4, <2>5
      <3>. QED BY <1>3, <2>7, <3>1, ContentsHeld
    <2>11. ContentsOf(hash, new, Capacity) = [ContentsOf(hash, Items, Capacity) EXCEPT ![k] = NoValue]
      BY <1>3, <2>7, <2>9, <2>10, OneEntryChanged
    <2>12. Items' = new
      BY <1>6 DEF new
    <2>13. Map!Delete(k)
      BY <1>2, <1>6, <2>3, <2>11, <2>12, ContentsAre DEF Map!Delete
    <2>. QED BY <1>2, <2>7, <2>8, <2>12, <2>13
  <1>. QED BY <1>2, <1>4, <1>5, <1>6

(* VHashTable_Get returns the key's value, or never returns.                *)
LEMMA GetLooksUp ==
  ASSUME TableInv, ChainInv, NEW k \in Keys, Get(k)
  PROVE  ChainInv' /\ (~cut' => Map!Lookup(k) \/ UNCHANGED <<Contents, ret>>)
  <1>1. /\ Capacity' = Capacity /\ hash' = hash /\ Items' = Items /\ cut' = cut
        /\ \/ /\ ProbeEnds(Items, Capacity, hash[k], k)
              /\ ret' = IF Found(k).Key = k THEN Found(k).Value ELSE NoValue
           \/ ret' = ret
    BY DEF Get, Hang, table
  <1>2. ChainInv' /\ Contents' = Contents
    BY <1>1, ContentsAre DEF ChainInv
  <1>3. ASSUME ~cut, ProbeEnds(Items, Capacity, hash[k], k),
               ret' = IF Found(k).Key = k THEN Found(k).Value ELSE NoValue
        PROVE  Map!Lookup(k)
    <2>1. ret' = Contents[k]
      BY <1>3, LookupReturns DEF TableInv
    <2>. QED BY <1>2, <2>1 DEF Map!Lookup
  <1>. QED BY <1>1, <1>2, <1>3

(* The table starts as the empty map.                                       *)
LEMMA ChainInit == Init => ChainInv /\ Map!Init
  <1> SUFFICES ASSUME Init PROVE ChainInv /\ Map!Init
    OBVIOUS
  <1>1. /\ Items = NewItems(Capacity) /\ Capacity \in Nat \ {0} /\ ret = NoValue
        /\ hash \in [Keys -> 0..MaxHash]
    BY InitCapacityAssumption DEF Init
  <1>2. /\ Reachable(hash, Items, Capacity) /\ HashesStored(hash, Items, Capacity)
        /\ Contents = [k \in Keys |-> NoValue]
    BY <1>1, NewItemsReachable, ContentsAre
  <1>. QED BY <1>1, <1>2 DEF ChainInv, Map!Init

(* Every step of the table is one of the map, or leaves it alone.           *)
LEMMA ChainStep ==
  ASSUME TableInv, ChainInv, [Next]_vars
  PROVE  /\ ChainInv'
         /\ Map!Next \/ cut' \/ state' = "freed" \/ UNCHANGED <<Contents, ret>>
  <1>1. ASSUME NEW k \in Keys, Get(k)
        PROVE  ChainInv' /\ (Map!Next \/ cut' \/ UNCHANGED <<Contents, ret>>)
    BY <1>1, GetLooksUp DEF Map!Next
  <1>2. ASSUME NEW k \in Keys, Remove(k)
        PROVE  ChainInv' /\ (Map!Next \/ cut' \/ UNCHANGED <<Contents, ret>>)
    BY <1>2, RemoveDeletes DEF Map!Next
  <1>3. ASSUME NEW k \in Keys, NEW v \in Values, Insert(k, v)
        PROVE  ChainInv' /\ (Map!Next \/ cut' \/ UNCHANGED <<Contents, ret>>)
    <2>1. cut' = cut
      BY <1>3 DEF Insert, Hang
    <2>. QED BY <1>3, <2>1, InsertPuts DEF Map!Next
  <1>4. CASE Free
    <2>1. /\ Items' = NewItems(Capacity') /\ Capacity' \in Nat \ {0} /\ hash' = hash
          /\ hash \in [Keys -> 0..MaxHash] /\ state' = "freed"
      BY <1>4, InitCapacityAssumption DEF Free, TableInv, TypeOK
    <2>. QED BY <2>1, NewItemsReachable DEF ChainInv
  <1>5. CASE VHashTable_Iterator \/ VHashTable_Next \/ UNCHANGED vars
    <2>1. /\ hash' = hash /\ Items' = Items /\ Capacity' = Capacity /\ cut' = cut /\ ret' = ret
      BY <1>5 DEF VHashTable_Iterator, VHashTable_Next, vars, table
    <2>. QED BY <2>1, ContentsAre DEF ChainInv
  <1>. QED BY <1>1, <1>2, <1>3, <1>4, <1>5 DEF Next

(* vhash_table.c implements the map of vhash_table.h, for every capacity,   *)
(* every hash function and through every rehash, until the first removal    *)
(* that leaves a hole in front of a filled slot.                            *)
THEOREM TableImplementsMap == Spec => ImplementsMap
  <1>1. Init => TableInv /\ ChainInv /\ Map!Init
    BY TableInit, ChainInit
  <1>2. TableInv /\ ChainInv /\ [Next]_vars => TableInv' /\ ChainInv'
    BY TableStep, ChainStep
  <1>3. TableInv /\ ChainInv /\ [Next]_vars
          => [Map!Next \/ cut' \/ state' = "freed"]_<<Contents, ret>>
    BY ChainStep
  <1>. QED BY <1>1, <1>2, <1>3, PTL DEF Spec, ImplementsMap
=============================================================================

------------------------------ MODULE HashTable -----------------------------
(***************************************************************************)
(* vhash_table.c: open addressing with linear probing, as the HTTP parser   *)
(* uses it for the headers.  Calls are atomic: one thread owns a table.     *)
(* A probe that meets neither an empty slot nor its key never ends; the     *)
(* call that started it is then the last one.                               *)
(***************************************************************************)
EXTENDS Integers, FiniteSets

CONSTANTS Keys, Values,
          InitCapacity,   \* the argument of VHashTable_Init
          MaxCapacity,    \* bound: the largest table a rehash may build
          MaxHash,        \* bound: hashes are 0..MaxHash
          CountMod,       \* 2^64, the range of the u64 Count
          Calls           \* the operations the client uses

ASSUME InitCapacityAssumption == InitCapacity \in Nat \ {0}
ASSUME MaxCapacityAssumption  == MaxCapacity \in Nat /\ InitCapacity <= MaxCapacity
ASSUME MaxHashAssumption      == MaxHash \in Nat
ASSUME CountModAssumption     == CountMod \in Nat /\ CountMod > MaxCapacity
ASSUME CallsAssumption        ==
  Calls \subseteq {"get", "insert", "remove", "free", "iterate"}

NoKey   == "NULL"
NoValue == "NULL"

(* A key is a C string: strdup and strcmp take no NULL.                     *)
ASSUME KeysAssumption == NoKey \notin Keys

VARIABLES
  hash,               \* the hash function, fixed
  Items, Count, Capacity,
  state,              \* live, freed, or the call that never returns
  ret,                \* what the last lookup or removal returned
  iter,               \* the client's iterator
  cut                 \* history: a removal left a hole before a filled slot

table == <<Items, Count, Capacity>>
vars  == <<hash, table, state, ret, iter, cut>>

EmptyItem == [Key |-> NoKey, Value |-> NoValue, Hash |-> 0]

NewItems(cap) == [i \in 0..(cap - 1) |-> EmptyItem]

-----------------------------------------------------------------------------
(* Linear probing.                                                          *)

Step(h, o, cap) == (h + o) % cap

(* The offsets at which a probe for key k, or for an empty slot, may stop.  *)
Stops(items, cap, h, k) ==
  {o \in 0..(cap - 1) : items[Step(h, o, cap)].Key \in {NoKey, k}}

ProbeEnds(items, cap, h, k) == Stops(items, cap, h, k) # {}

Probe(items, cap, h, k) ==
  LET stops == Stops(items, cap, h, k)
  IN  Step(h, CHOOSE o \in stops : \A q \in stops : o <= q, cap)

(* Every item of the old array, the empty ones too, goes to the first empty *)
(* slot from its stored hash on.                                            *)
RehashedItems_SameIndex ==                          \* mutant: not re-hashed
  [i \in 0..(2 * Capacity - 1) |-> IF i < Capacity THEN Items[i] ELSE EmptyItem]

RehashedItems ==
  LET cap == 2 * Capacity
      Moved[n \in 0..Capacity] ==
        IF n = 0 THEN NewItems(cap)
        ELSE LET done == Moved[n - 1]
                 item == Items[n - 1]
             IN  [done EXCEPT ![Probe(done, cap, item.Hash, NoKey)] = item]
  IN  Moved[Capacity]

-----------------------------------------------------------------------------
(* The calls.                                                               *)

(* VHashTable_Rehash, or nothing: what the probe of an insertion starts     *)
(* from.  Count restarts from zero.                                         *)
RoomyCap_NotDoubled == Capacity                     \* mutant

Grows      == Count >= Capacity
RoomyItems == IF Grows THEN RehashedItems ELSE Items
RoomyCap   == IF Grows THEN 2 * Capacity ELSE Capacity
RoomyCount == IF Grows THEN 0 ELSE Count

Hang(call) == /\ state' = call
              /\ UNCHANGED <<hash, ret, cut>>

(* Returned is a history: the slots whose items the iterator handed out.    *)
Iterator == [Cursor |-> 0, Count |-> 0, Returned |-> {}]

Added_Replaced(old) == 1                            \* mutant

(* Replacing the value of a key that is there adds no item.                 *)
Added(old) == IF old.Key = NoKey THEN 1 ELSE 0

Insert(k, v) ==
  /\ state = "live" /\ "insert" \in Calls
  /\ RoomyCap <= MaxCapacity
  /\ Capacity' = RoomyCap
  /\ LET items == RoomyItems
         i     == Probe(items, RoomyCap, hash[k], k)
     IN IF ProbeEnds(items, RoomyCap, hash[k], k)
        THEN /\ Items' = [items EXCEPT ![i] = [Key |-> k, Value |-> v,
                                               Hash |-> hash[k]]]
             /\ Count' = RoomyCount + Added(items[i])
             /\ iter' = IF Grows \/ items[i].Key = NoKey THEN Iterator
                        ELSE iter
             /\ UNCHANGED <<hash, state, ret, cut>>
        ELSE /\ Items' = items /\ Count' = RoomyCount /\ iter' = Iterator
             /\ Hang("inserting")

Found(k) == Items[Probe(Items, Capacity, hash[k], k)]

Get(k) ==
  /\ state = "live" /\ "get" \in Calls
  /\ UNCHANGED <<table, iter>>
  /\ \/ /\ ProbeEnds(Items, Capacity, hash[k], k)
        /\ ret' = IF Found(k).Key = k THEN Found(k).Value ELSE NoValue
        /\ UNCHANGED <<hash, state, cut>>
     \/ ~ProbeEnds(Items, Capacity, hash[k], k) /\ Hang("looking up")

(* The key is freed and cleared, the value pointer stays in the slot.       *)
Remove(k) ==
  /\ state = "live" /\ "remove" \in Calls
  /\ UNCHANGED Capacity
  /\ LET i == Probe(Items, Capacity, hash[k], k)
     IN \/ /\ ProbeEnds(Items, Capacity, hash[k], k) /\ Found(k).Key = k
           /\ Items' = [Items EXCEPT ![i].Key = NoKey]
           /\ Count' = (Count - 1) % CountMod
           /\ ret' = Items[i].Value
           /\ iter' = Iterator
           /\ cut' = (cut \/ Items[(i + 1) % Capacity].Key \notin {NoKey, k})
           /\ UNCHANGED <<hash, state>>
        \/ /\ ProbeEnds(Items, Capacity, hash[k], k) /\ Found(k).Key # k
           /\ ret' = NoValue
           /\ UNCHANGED <<hash, state, Items, Count, iter, cut>>
        \/ /\ ~ProbeEnds(Items, Capacity, hash[k], k)
           /\ UNCHANGED <<Items, Count, iter>>
           /\ Hang("looking up")

(* Every key and every value pointer that is not NULL is freed, and the     *)
(* table with them.                                                         *)
Free ==
  /\ state = "live" /\ "free" \in Calls
  /\ state' = "freed"
  /\ Items' = NewItems(InitCapacity) /\ Capacity' = InitCapacity /\ Count' = 0
  /\ iter' = Iterator /\ ret' = NoValue
  /\ UNCHANGED <<hash, cut>>

(* The client takes a new iterator, too, after a call that fills or empties *)
(* a slot: an older one counts and skips items that are not there.          *)
VHashTable_Iterator ==
  /\ state = "live" /\ "iterate" \in Calls
  /\ iter' = Iterator
  /\ UNCHANGED <<hash, table, state, ret, cut>>

IterationEnds_AtTheEnd == iter.Cursor >= Capacity   \* mutant: ignores Count

IterationEnds == iter.Cursor >= Capacity \/ iter.Count = Count

FilledAhead == {i \in iter.Cursor..(Capacity - 1) : Items[i].Key # NoKey}

(* Empty slots are skipped without a look at Capacity: when no item is left *)
(* the call reads on behind the array, and what it returns is undefined.    *)
VHashTable_Next ==
  /\ state = "live" /\ "iterate" \in Calls
  /\ ~IterationEnds
  /\ \/ /\ FilledAhead = {}
        /\ state' = "overrun" /\ UNCHANGED iter
     \/ LET i == CHOOSE i \in FilledAhead : \A j \in FilledAhead : i <= j
        IN /\ FilledAhead # {}
           /\ iter' = [Cursor |-> i + 1, Count |-> iter.Count + 1,
                       Returned |-> iter.Returned \cup {i}]
           /\ UNCHANGED state
  /\ UNCHANGED <<hash, table, ret, cut>>

Init ==
  /\ hash \in [Keys -> 0..MaxHash]
  /\ Items = NewItems(InitCapacity)
  /\ Count = 0 /\ Capacity = InitCapacity
  /\ state = "live" /\ ret = NoValue
  /\ iter = Iterator /\ cut = FALSE

Next == \/ \E k \in Keys : \/ Get(k) \/ Remove(k)
                           \/ \E v \in Values : Insert(k, v)
        \/ Free \/ VHashTable_Iterator \/ VHashTable_Next

Spec == Init /\ [][Next]_vars

-----------------------------------------------------------------------------
Item == [Key : Keys \cup {NoKey}, Value : Values \cup {NoValue},
         Hash : 0..MaxHash]

TypeOK ==
  /\ hash \in [Keys -> 0..MaxHash]
  /\ Capacity \in InitCapacity..MaxCapacity
  /\ Items \in [0..(Capacity - 1) -> Item]
  /\ Count \in 0..(CountMod - 1)
  /\ state \in {"live", "inserting", "looking up", "freed", "overrun"}
  /\ ret \in Values \cup {NoValue}
  /\ iter \in [Cursor : 0..MaxCapacity, Count : 0..MaxCapacity,
               Returned : SUBSET (0..(MaxCapacity - 1))]
  /\ cut \in BOOLEAN

(* The keys a lookup finds, and their values.                               *)
Contents ==
  [k \in Keys |->
     IF \A i \in 0..(Capacity - 1) : Items[i].Key # k THEN NoValue
     ELSE LET item == Found(k)
          IN  IF item.Key = k THEN item.Value ELSE NoValue]

(* The table implements a map, through collisions, replacements, removals   *)
(* and rehashes, up to the first removal that leaves a hole in front of a   *)
(* filled slot: a key behind such a hole is out of reach, and comes back    *)
(* with an old value or twice.                                              *)
Map == INSTANCE KeyValueMap WITH map <- Contents

ImplementsMap ==
  Map!Init /\ [][Map!Next \/ cut' \/ state' = "freed"]_<<Contents, ret>>

(* Until the first rehash Count is the number of slots in use, whatever was *)
(* replaced and removed: it is what VHashTable_Insert decides to grow on,   *)
(* so no insertion probes a full table for ever.                            *)
Filled == {i \in 0..(Capacity - 1) : Items[i].Key # NoKey}

CountExactBeforeRehash ==
  Capacity = InitCapacity => Count = Cardinality(Filled) /\ state # "inserting"

(* VHashTable_Next on a table that was not rehashed: the item of every      *)
(* filled slot is returned once, NULL only after the last of them, and the  *)
(* scan never runs past the end of the array.                               *)
IterationComplete ==
  Capacity = InitCapacity =>
    /\ state # "overrun"
    /\ iter.Count = Cardinality(iter.Returned)
    /\ iter.Returned = {i \in Filled : i < iter.Cursor}
    /\ IterationEnds => iter.Returned = Filled

(* vhash_table.h on VHashTable_Insert: a table at capacity is rehashed      *)
(* before inserting, so an insertion always has a slot to go to.            *)
InsertReturns == state # "inserting"
=============================================================================

-------------------------------- MODULE VArray ------------------------------
(***************************************************************************)
(* varray.h and varray.c: an array with a header, which may grow; and a     *)
(* program that calls it and knows which items it should hold.  Indices     *)
(* start at 0 in C and at 1 here.                                           *)
(***************************************************************************)
EXTENDS Integers, Sequences, SequencesExt

CONSTANTS Elements,      \* what the array may hold
          Capacities,    \* the capacities it may be created with
          MaxItems       \* bound: the most items the program stores

ASSUME ArrayAssumption == Capacities \subseteq Nat /\ MaxItems \in Nat

VARIABLES array,    \* the array and its header
          items     \* history: the items it should hold

arrayVars == <<array, items>>

Unset == "unset"    \* what realloc adds

VArray_Init(cap, growable) ==
  [Items |-> [i \in 1..cap |-> Unset], Count |-> 0, Growable |-> growable,
   created |-> cap]

VArray_Capacity(a) == Len(a.Items)
Full(a)            == a.Count >= VArray_Capacity(a)

VArray_Realloc(a) ==
  [a EXCEPT !.Items = @ \o [i \in 1..Len(@) |-> Unset]]

(* Room for one more.                                                       *)
Roomy(a) == IF Full(a) THEN VArray_Realloc(a) ELSE a

VArray_Push(a, x) ==
  IF Full(a) /\ ~a.Growable THEN a
  ELSE [Roomy(a) EXCEPT !.Items[a.Count + 1] = x, !.Count = @ + 1]

VArray_Insert(a, x, idx) ==
  IF Full(a) /\ ~a.Growable THEN a
  ELSE [Roomy(a) EXCEPT !.Items = [i \in DOMAIN @ |->
                                     IF i = idx + 1 THEN x
                                     ELSE IF i \in (idx + 2)..(a.Count + 1) THEN @[i - 1]
                                     ELSE @[i]],
                        !.Count = @ + 1]

VArray_Remove_ShortMove(a, idx) ==            \* mutant: moves an item too few
  IF idx >= a.Count THEN a
  ELSE [a EXCEPT !.Items = [i \in DOMAIN @ |-> IF i \in (idx + 1)..(a.Count - 2)
                                               THEN @[i + 1] ELSE @[i]],
                 !.Count = @ - 1]

VArray_Remove(a, idx) ==
  IF idx >= a.Count THEN a
  ELSE [a EXCEPT !.Items = [i \in DOMAIN @ |-> IF i \in (idx + 1)..(a.Count - 1)
                                               THEN @[i + 1] ELSE @[i]],
                 !.Count = @ - 1]

VArray_UnorderedRemove(a, idx) ==
  IF idx >= a.Count THEN a
  ELSE [a EXCEPT !.Items[idx + 1] = a.Items[a.Count], !.Count = @ - 1]

-----------------------------------------------------------------------------
(* Twice no capacity is none: such an array does not grow, and is written   *)
(* behind its end.                                                          *)
Writable == array.Growable => array.created > 0

NoRoom == Len(items) = array.created /\ ~array.Growable

CallPush(x) ==
  /\ Len(items) < MaxItems /\ Writable
  /\ array' = VArray_Push(array, x)
  /\ items' = IF NoRoom THEN items ELSE Append(items, x)

CallArrayInsert(x, idx) ==
  /\ Len(items) < MaxItems /\ Writable
  /\ array' = VArray_Insert(array, x, idx)
  /\ items' = IF NoRoom THEN items ELSE InsertAt(items, idx + 1, x)

CallArrayRemove(idx) ==
  /\ array' = VArray_Remove(array, idx)
  /\ items' = IF idx < Len(items) THEN RemoveAt(items, idx + 1) ELSE items

CallUnorderedRemove(idx) ==
  /\ array' = VArray_UnorderedRemove(array, idx)
  /\ items' = IF idx < Len(items)
              THEN Front(ReplaceAt(items, idx + 1, Last(items))) ELSE items

ArrayInit == /\ \E cap \in Capacities, g \in BOOLEAN : array = VArray_Init(cap, g)
             /\ items = <<>>

ArrayNext ==
  \/ \E x \in Elements : CallPush(x) \/ \E idx \in 0..Len(items) : CallArrayInsert(x, idx)
  \/ \E idx \in 0..Len(items) : CallArrayRemove(idx) \/ CallUnorderedRemove(idx)

ArraySpec == ArrayInit /\ [][ArrayNext]_arrayVars

(* Whatever the calls, the array holds the items it should: none is lost or *)
(* moved by a reallocation, a full array that may not grow drops the new    *)
(* one and keeps its place in memory, and an index behind the last item     *)
(* removes nothing.                                                         *)
ArrayExact ==
  /\ array.Count <= VArray_Capacity(array)
  /\ ~array.Growable => VArray_Capacity(array) = array.created
  /\ SubSeq(array.Items, 1, array.Count) = items
=============================================================================

------------------------------- MODULE VString ------------------------------
(***************************************************************************)
(* vstring.c: strings with a length and a capacity, and views into them.    *)
(* Data holds every byte of the allocation, the ones behind Length too:     *)
(* they are NUL when calloc cleared them, unknown (Junk) when realloc added *)
(* them, or what an earlier, longer text left.  C's indices start at 0, the *)
(* sequence's at 1.                                                         *)
(***************************************************************************)
EXTENDS Integers, Sequences, SequencesExt, FiniteSetsExt

CONSTANT LengthMod    \* one more than the greatest Length: 2^64 in the code

ASSUME LengthModAssumption == LengthMod \in Nat \ {0}

NUL  == "\\0"
Junk == "?"
SP   == " "
CR   == "\\r"
LF   == "\\n"

Spaces == {SP, CR, LF}                      \* isspace

Capacity(s) == Len(s.Data)
Text(s)     == SubSeq(s.Data, 1, s.Length)

VString_Init(cap) == [Data |-> [i \in 1..cap |-> NUL], Length |-> 0]

VString_Resize(s, cap) ==
  [s EXCEPT !.Data = [i \in 1..cap |-> IF i <= Capacity(s) THEN s.Data[i] ELSE Junk]]

Realloc(s) == VString_Resize(s, 2 * Capacity(s))

(* Doubled until n bytes and a terminator fit.                              *)
RoomFor(s, n) ==
  LET Doubled[k \in 0..n] == IF k = 0 THEN Capacity(s) ELSE 2 * Doubled[k - 1]
      enough == {c \in {Doubled[k] : k \in 0..n} : n < c}
  IN  VString_Resize(s, Min(enough))

VString_Append(s, ch) ==
  LET r == IF s.Length >= Capacity(s) THEN Realloc(s) ELSE s
  IN  [Data |-> [r.Data EXCEPT ![s.Length + 1] = ch], Length |-> s.Length + 1]

VString_Insert_ShortMove(s, idx, ch) ==       \* mutant: moves a byte too few
  LET r == IF s.Length + 1 >= Capacity(s) THEN Realloc(s) ELSE s
  IN  [Data |-> [i \in DOMAIN r.Data |->
                   IF i = idx + 1 THEN ch
                   ELSE IF i \in (idx + 2)..s.Length THEN r.Data[i - 1]
                   ELSE r.Data[i]],
       Length |-> s.Length + 1]

VString_Insert(s, idx, ch) ==
  LET r == IF s.Length + 1 >= Capacity(s) THEN Realloc(s) ELSE s
  IN  [Data |-> [i \in DOMAIN r.Data |->
                   IF i = idx + 1 THEN ch
                   ELSE IF i \in (idx + 2)..(s.Length + 1) THEN r.Data[i - 1]
                   ELSE r.Data[i]],
       Length |-> s.Length + 1]

VString_Remove(s, idx) ==
  IF idx >= s.Length THEN s
  ELSE [Data |-> [i \in DOMAIN s.Data |->
                    IF i \in (idx + 1)..(s.Length - 1) THEN s.Data[i + 1]
                    ELSE s.Data[i]],
        Length |-> s.Length - 1]

(* The loops of VString_Concat and VString_CopyCString.                     *)
AppendAll(s, text) ==
  LET After[n \in 0..Len(text)] ==
        IF n = 0 THEN s ELSE VString_Append(After[n - 1], text[n])
  IN  After[Len(text)]

(* VString_Concat and VString_ConcatCString.                                *)
VString_Concat(dest, text) == AppendAll(RoomFor(dest, dest.Length + Len(text)), text)

(* memset of the old text.                                                  *)
Zeroed(s) ==
  [s EXCEPT !.Data = [i \in DOMAIN @ |-> IF i <= s.Length THEN NUL ELSE @[i]]]

VString_Copy(dest, text) ==
  LET r == Zeroed(RoomFor(dest, Len(text)))
  IN  [Data |-> [i \in DOMAIN r.Data |-> IF i <= Len(text) THEN text[i] ELSE r.Data[i]],
       Length |-> Len(text)]

(* The text is appended behind the old one, which was cleared, and Length   *)
(* is set as if it stood at the beginning.                                  *)
VString_CopyCString(dest, text) ==
  [AppendAll(Zeroed(RoomFor(dest, Len(text))), text) EXCEPT !.Length = Len(text)]

(* A regular file, of which read returns the first Read bytes, fewer than   *)
(* fstat counted when the file was cut in between, or -1, which Length      *)
(* takes for an unsigned number.  What cannot be opened, or is no regular   *)
(* file, leaves s alone.                                                    *)
VString_ReadEntireFile(s, file, Read) ==
  LET r == IF Len(file) >= Capacity(s) THEN VString_Resize(s, Len(file)) ELSE s
  IN  [Data |-> [i \in DOMAIN r.Data |-> IF i <= Read THEN file[i] ELSE r.Data[i]],
       Length |-> IF Read = -1 THEN LengthMod - 1 ELSE Read]

-----------------------------------------------------------------------------
(* Views: a place in some data and a length.                                *)

View(at, len)    == [at |-> at, len |-> len]
Whole(s)         == View(1, s.Length)
Places(v)        == v.at..(v.at + v.len - 1)
TextOf(data, v)  == SubSeq(data, v.at, v.at + v.len - 1)

Solid(data, v)   == {i \in Places(v) : data[i] \notin Spaces}

(* VString_Trim.  The scans stop at the first and last byte that is not a   *)
(* space; in a blank text they leave it, and what follows is undefined.     *)
VString_Trim(data, v) ==
  LET first == Min(Solid(data, v))
      n     == Max(Solid(data, v)) - first + 1
  IN  [Data |-> [i \in DOMAIN data |-> IF i \in Places(View(v.at, n))
                                       THEN data[i - v.at + first] ELSE data[i]],
       Length |-> n]

(* An index from 0, or -1.                                                  *)
VString_FindFirstCharOccurence(data, v, ch) ==
  LET at == {i \in Places(v) : data[i] = ch}
  IN  IF at = {} THEN -1 ELSE Min(at) - v.at

(* The byte at index 0 is not looked at.                                    *)
VString_FindLastCharOccurence(data, v, ch) ==
  LET at == {i \in Places(v) \ {v.at} : data[i] = ch}
  IN  IF at = {} THEN -1 ELSE Max(at) - v.at

MatchesAt(bytes, i, sub) ==
  \A k \in 1..Len(sub) : i + k - 1 <= Len(bytes) /\ bytes[i + k - 1] = sub[k]

VString_FindSubstring_Start(s, behind, sub) ==   \* mutant: where it begins
  LET bytes == s.Data \o behind
      at    == {i \in 1..s.Length : MatchesAt(bytes, i, sub)}
  IN  IF at = {} THEN 0 ELSE Min(at) - 1

(* The index just behind the first occurrence, or 0.  The comparison may go *)
(* on behind Length, and behind the allocation too, into behind: the bytes  *)
(* that happen to follow it.                                                *)
VString_FindSubstring(s, behind, sub) ==
  LET bytes == s.Data \o behind
      at    == {i \in 1..s.Length : MatchesAt(bytes, i, sub)}
  IN  IF at = {} THEN 0 ELSE Min(at) - 1 + Len(sub)

VString_SplitBySubstring_KeepsCheck(data, v, sub, size) ==      \* mutant
  LET Step(a, i) ==
        IF data[i] # sub[a.check + 1] THEN [a EXCEPT !.check = 0]
        ELSE IF a.check + 1 < Len(sub) THEN [a EXCEPT !.check = @ + 1]
        ELSE [a EXCEPT !.views = Append(@, View(a.start, i + 1 - Len(sub) - a.start)),
                       !.start = i + 1]
      end == FoldLeft(Step, [views |-> <<>>, start |-> v.at, check |-> 0],
                      [n \in 1..v.len |-> v.at + n - 1])
  IN  [views |-> Append(end.views, View(end.start, v.at + v.len - end.start)),
       overrun |-> FALSE]

(* One turn of the loop of VString_SplitBySubstring: a mismatch in the      *)
(* middle of a separator is not tried again as its beginning, an empty      *)
(* piece is skipped, and the loop is left when the array is full.           *)
SplitStep(a, data, i, sub, size) ==
  IF a.full THEN a
  ELSE IF data[i] # sub[a.check + 1] THEN [a EXCEPT !.check = 0]
  ELSE IF a.check + 1 < Len(sub) THEN [a EXCEPT !.check = @ + 1]
  ELSE IF Len(a.views) = size THEN [a EXCEPT !.full = TRUE]
  ELSE LET len == i + 1 - Len(sub) - a.start
       IN  [a EXCEPT !.views = IF len = 0 THEN @ ELSE Append(@, View(a.start, len)),
                     !.start = i + 1, !.check = 0]

(* The loop over the characters of v.                                       *)
Split(data, v, sub, size) ==
  LET After[n \in 0..v.len] ==
        IF n = 0 THEN [views |-> <<>>, start |-> v.at, check |-> 0, full |-> FALSE]
        ELSE SplitStep(After[n - 1], data, v.at + n - 1, sub, size)
  IN  After[v.len]

(* The last piece is stored, empty or not, without a look at size: behind   *)
(* the array when size pieces precede it (overrun).                         *)
VString_SplitBySubstring(data, v, sub, size) ==
  LET end == Split(data, v, sub, size)
  IN  [views   |-> IF end.full THEN end.views
                   ELSE Append(end.views, View(end.start, v.at + v.len - end.start)),
       overrun |-> ~end.full /\ Len(end.views) = size]
=============================================================================

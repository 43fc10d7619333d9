----------------------------- MODULE VStringCalls ---------------------------
(***************************************************************************)
(* A program that calls vstring.c on one string, and the text it believes   *)
(* the string holds.                                                        *)
(***************************************************************************)
EXTENDS VString

CONSTANTS Alphabet,    \* the characters of the program's texts
          MaxText,     \* bound: the longest text
          StringSize   \* the capacity the string starts with

ASSUME StringSizeAssumption == StringSize \in Nat \ {0}
ASSUME MaxTextAssumption    == MaxText \in Nat

VARIABLES str,    \* the string
          text,   \* history: the text the calls should have made
          failed  \* history: a read of a file returned -1

callVars == <<str, text, failed>>

Texts == SeqOf(Alphabet, MaxText)

Blank(t) == \A i \in 1..Len(t) : t[i] \in Spaces

(* VString_Trim on a vstring.                                               *)
Trimmed(s) == LET r == VString_Trim(s.Data, Whole(s))
              IN  [Data |-> r.Data, Length |-> r.Length]

CallAppend(ch) ==
  /\ Len(text) < MaxText
  /\ str' = VString_Append(str, ch)
  /\ text' = Append(text, ch)

CallInsert(idx, ch) ==
  /\ Len(text) < MaxText
  /\ str' = VString_Insert(str, idx, ch)
  /\ text' = InsertAt(text, idx + 1, ch)

CallRemove(idx) ==
  /\ str' = VString_Remove(str, idx)
  /\ text' = IF idx < Len(text) THEN RemoveAt(text, idx + 1) ELSE text

CallConcat(t) ==
  /\ Len(text) + Len(t) <= MaxText
  /\ str' = VString_Concat(str, t)
  /\ text' = text \o t

CallCopy(t) ==
  /\ str' = VString_Copy(str, t)
  /\ text' = t

(* On an empty string only: see VString_CopyCString.                        *)
CallCopyCString(t) ==
  /\ str.Length = 0
  /\ str' = VString_CopyCString(str, t)
  /\ text' = t

(* The text is what was read of the file, the whole of it or less.          *)
CallReadEntireFile(t, Read) ==
  /\ str' = VString_ReadEntireFile(str, t, Read)
  /\ failed' = (Read = -1)
  /\ text' = IF Read = -1 THEN text ELSE SubSeq(t, 1, Read)

CallTrim ==
  /\ ~Blank(text)
  /\ str' = Trimmed(str)
  /\ text' = CHOOSE t \in Texts \ {<<>>} :
               /\ t[1] \notin Spaces /\ t[Len(t)] \notin Spaces
               /\ \E i \in 0..Len(text) :
                    /\ i + Len(t) <= Len(text)
                    /\ t = SubSeq(text, i + 1, i + Len(t))
                    /\ Blank(SubSeq(text, 1, i))
                    /\ Blank(SubSeq(text, i + Len(t) + 1, Len(text)))

CallsInit == str = VString_Init(StringSize) /\ text = <<>> /\ failed = FALSE

Calls ==
  \/ CallTrim
  \/ \E ch \in Alphabet : CallAppend(ch) \/ \E idx \in 0..Len(text) : CallInsert(idx, ch)
  \/ \E idx \in 0..Len(text) : CallRemove(idx)
  \/ \E t \in Texts : CallConcat(t) \/ CallCopy(t) \/ CallCopyCString(t)

(* Behind a failed read Length is no length any more: every call that looks *)
(* at the text is undefined behaviour, and the program stops here.          *)
CallsNext ==
  /\ ~failed
  /\ \/ Calls /\ UNCHANGED failed
     \/ \E t \in Texts : \E Read \in -1..Len(t) : CallReadEntireFile(t, Read)

CallsSpec == CallsInit /\ [][CallsNext]_callVars

-----------------------------------------------------------------------------
(* Whatever the calls, and however often the string grew in between, it     *)
(* holds the text they should have made, within its capacity; after a file  *)
(* that became shorter while it was read, what was left of it.  Excepted: a *)
(* read that failed, which makes Length the greatest there is; and then the *)
(* old text is still in the data.                                           *)
StringsExact ==
  /\ ~failed => str.Length <= Capacity(str) /\ Text(str) = text
  /\ failed  => Len(text) <= Capacity(str) /\ SubSeq(str.Data, 1, Len(text)) = text

Separators == {s \in Alphabet \X Alphabet : s[1] # s[2]} \cup {<<SP>>}

Cuts(t, sep) == {0} \cup {i \in 1..Len(t) :
                            i >= Len(sep) /\ SubSeq(t, i - Len(sep) + 1, i) = sep}

LastCut(t, sep)    == Max(Cuts(t, sep))
NextCut(t, sep, i) == Min({j \in Cuts(t, sep) : j > i})

(* The cuts at which a piece begins that is not empty and not the last.     *)
Starts(t, sep) == {i \in Cuts(t, sep) \ {LastCut(t, sep)} : NextCut(t, sep, i) - i > Len(sep)}

Nth(S, n) == CHOOSE i \in S : Cardinality({j \in S : j <= i}) = n

(* The pieces of t between its cuts, in order; empty ones only at the end.  *)
Pieces(t, sep) ==
  [n \in 1..Cardinality(Starts(t, sep)) |->
     LET i == Nth(Starts(t, sep), n)
     IN  SubSeq(t, i + 1, NextCut(t, sep, i) - Len(sep))]
    \o <<SubSeq(t, LastCut(t, sep) + 1, Len(t))>>

FalseStart(t, sep) ==
  \E i \in 1..(Len(t) - 1) : t[i] = sep[1] /\ t[i + 1] = sep[1] /\ Len(sep) > 1

(* VString_SplitBySubstring on such a string against what it is for.        *)
(* Excepted: separators that a false start hides, and pieces beyond the     *)
(* size of the array.                                                       *)
PiecesFound ==
  \A sep \in Separators, size \in 1..3 :
    LET r    == VString_SplitBySubstring(str.Data, Whole(str), sep, size)
        p    == Pieces(text, sep)
        got  == [n \in DOMAIN r.views |-> TextOf(str.Data, r.views[n])]
    IN  FalseStart(text, sep) \/
        IF Len(p) <= size THEN got = p /\ ~r.overrun
        ELSE /\ SubSeq(got, 1, size) = SubSeq(p, 1, size)
             /\ r.overrun => Len(p) = size + 1

(* The finders of a character.  Excepted: a last occurrence at index 0.     *)
CharactersFound ==
  \A ch \in Alphabet :
    LET at == {i \in 1..Len(text) : text[i] = ch}
    IN  /\ VString_FindFirstCharOccurence(str.Data, Whole(str), ch)
             = IF at = {} THEN -1 ELSE Min(at) - 1
        /\ VString_FindLastCharOccurence(str.Data, Whole(str), ch)
             = IF at \subseteq {1} THEN -1 ELSE Max(at) - 1

(* The searches find what is there, whatever calls made the string, as long *)
(* as no read failed.                                                       *)
FindersExact == ~failed => PiecesFound /\ CharactersFound
=============================================================================

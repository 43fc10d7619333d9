-------------------------- MODULE HttpWorkerProofs --------------------------
(***************************************************************************)
(* The safety of EpollHttpWorker on one connection, for every set of        *)
(* scripts a client may follow and every manner of following it.            *)
(***************************************************************************)
EXTENDS HttpWorker, DataFacts, FiniteSetTheorems, SequenceTheorems

Parts  == {"head", "end", "body"}
Pieces == [req : 1..Len(script), part : Parts]

(* The byte stream from where the worker has read to.                       *)
Stream == rx \o unsent

(* A head and its end are neighbours, a body follows the end of its head,   *)
(* and no piece comes twice.                                                *)
Orderly(s) ==
  /\ \A k \in 1..Len(s) : s[k].part = "head" =>
       k < Len(s) /\ s[k + 1] = Piece(s[k].req, "end")
  /\ \A k \in 1..Len(s) : k > 1 /\ s[k].part = "end" =>
       s[k - 1] = Piece(s[k].req, "head")
  /\ \A k \in 1..Len(s) : k > 1 /\ s[k].part = "body" =>
       s[k - 1] = Piece(s[k].req, "end")
  /\ \A k \in 1..Len(s) : s[k].part = "body" => script[s[k].req].body
  /\ \A k \in 1..Len(s) : s[k].part = "end" /\ script[s[k].req].body =>
       k < Len(s) /\ s[k + 1] = Piece(s[k].req, "body")
  /\ \A j, k \in 1..Len(s) : s[j] = s[k] => j = k

(* What a client still sends is orderly, however the worker reads it.       *)
ClientInv ==
  /\ TypeOK /\ Orderly(unsent)
  /\ "whole" \in manner /\ unsent # <<>> => unsent[1].part = "head"
  /\ closed => pc = "idle"
  /\ pc = "discard" => length > 0

StreamInv == ClientInv /\ Orderly(Stream)

(* Between the peek and the recv the buffer only grows.                     *)
PeekInv ==
  /\ Running("discard") =>
       /\ length <= Len(rx)
       /\ size \in HeadEnds(rx) /\ \A k \in HeadEnds(rx) : size <= k
  /\ pc = "peek" /\ length > 0 => url # <<>> \/ rx # <<>>
  /\ pc \in {"respond", "send"} => url # <<>>
  /\ closed => pc = "idle"
  /\ Rejected => closed
  /\ pc = "send" => resp.target \in TargetsOfUrl

(* The worker holds paths it has not answered yet.                          *)
Live == pc \in {"peek", "discard", "respond", "send"}

ReqsOf(u)  == {u[n] : n \in 1..Len(u)}
Accepted   == {k \in 1..Len(answers) : answers[k].status # 400}
EndsUnread == {Stream[k].req : k \in {j \in 1..Len(Stream) : Stream[j].part = "end"}}

(* What was answered was read, and is not answered again.                   *)
OnceInv ==
  /\ ReqsOf(url) \cap EndsUnread = {}
  /\ \A k \in Accepted :
       /\ ReqsOf(answers[k].url) # {}
       /\ ReqsOf(answers[k].url) \cap EndsUnread = {}
       /\ Live => ReqsOf(answers[k].url) \cap ReqsOf(url) = {}
       /\ \A j \in Accepted : j # k => ReqsOf(answers[k].url) \cap ReqsOf(answers[j].url) = {}

(* A client that waits has one request on its way, the one after those that *)
(* were answered.                                                           *)
Due == Len(answers) + 1

SerialInv ==
  "serial" \in manner =>
    /\ \A k \in 1..Len(rx) : rx[k].req <= Due
    /\ unsent # <<>> /\ unsent[1].part # "head" => unsent[1].req <= Due
    /\ Live => url \in {<<>>, <<Due>>}
    /\ AnswersMatch

(* Whole requests without a body: the buffer holds whole heads.             *)
Polite == "whole" \in manner /\ \A i \in 1..Len(script) : Plain(script[i])

PoliteInv ==
  Polite => /\ rx # <<>> => rx[1].part = "head" /\ rx[Len(rx)].part = "end"
            /\ ~Rejected

(* Only a stream that is not torn says what was read and what is left; and  *)
(* there are clients whose streams are never torn.                          *)
WorkerInv ==
  /\ ClientInv /\ UnreadIsAnnounced /\ ResponsesIntact
  /\ torn => "serial" \notin manner /\ ~Polite
  /\ ~torn => StreamInv /\ PeekInv /\ OnceInv /\ SerialInv /\ PoliteInv

-----------------------------------------------------------------------------
(* Lemmas about the operators of the model.                                 *)

(* VString_FindSubstring finds the first end of a head.                     *)
LEMMA HeadEndLeast ==
  ASSUME NEW s, HeadEnds(s) # {}
  PROVE  FindHeadEnd(s) \in HeadEnds(s) /\ \A k \in HeadEnds(s) : FindHeadEnd(s) <= k
  <1>1. HeadEnds(s) \in SUBSET Nat
    BY DEF HeadEnds
  <1>. QED BY <1>1, LeastChosen DEF FindHeadEnd

(* strlen finds what was written: n bytes, whatever the buffer held.        *)
LEMMA BuiltLength ==
  ASSUME NEW bytes, IsFiniteSet(bytes), NEW n \in Nat
  PROVE  Strlen(Written(bytes, n)) = n
  <1> DEFINE W == Written(bytes, n)
  <1>1. IsFiniteSet(W) /\ Cardinality(W) \in Nat
    <2>1. IsFiniteSet(1..n)
      BY FS_Interval
    <2>2. IsFiniteSet(bytes \ {n + 1})
      BY FS_Subset
    <2>3. IsFiniteSet(W)
      BY <2>1, <2>2, FS_Union DEF Written
    <2>. QED BY <2>3, FS_CardinalityType
  <1>2. 1..n \subseteq W /\ n + 1 \notin W
    BY DEF Written
  <1>3. n \in 0..Cardinality(W)
    <2>1. Cardinality(1..n) = n
      BY FS_Interval
    <2>2. Cardinality(1..n) <= Cardinality(W)
      BY <1>1, <1>2, FS_Subset
    <2>. QED BY <1>1, <2>1, <2>2
  <1>. HIDE DEF W
  <1>4. \A m \in 0..Cardinality(W) : 1..m \subseteq W /\ m + 1 \notin W => m = n
    <2> SUFFICES ASSUME NEW m \in 0..Cardinality(W), 1..m \subseteq W, m + 1 \notin W,
                        m # n
                 PROVE  FALSE
      OBVIOUS
    <2>1. m \in Nat
      BY <1>1
    <2>2. CASE m < n
      <3>1. m + 1 \in 1..n
        BY <2>1, <2>2
      <3>. QED BY <1>2, <3>1
    <2>3. CASE n < m
      <3>1. n + 1 \in 1..m
        BY <2>1, <2>3
      <3>. QED BY <1>2, <3>1
    <2>. QED BY <2>1, <2>2, <2>3
  <1>. QED BY <1>2, <1>3, <1>4 DEF Strlen, W

(* ResponseMalloced holds finitely many bytes, whatever was answered before.*)
LEMMA LeftBehindFinite == \A b \in LeftBehind : IsFiniteSet(b.bytes)
  <1> DEFINE Buffers == [bytes : SUBSET Nat, last : Nat]
             Tidy(S) == S \subseteq Buffers /\ \A b \in S : IsFiniteSet(b.bytes)
             Start0 == {[bytes |-> {}, last |-> 0]}
             After(S) == S \cup
                UNION {{Cleared(b, n), [b EXCEPT !.bytes = Written(@, n)],
                        [b EXCEPT !.bytes = Written(@, 1) \ {1}]} : b \in S, n \in Lengths}
             Rule(f, m) == f = [k \in 0..m |-> IF k = 0 THEN Start0 ELSE After(f[k - 1])]
  <1>1. Tidy(Start0)
    BY FS_EmptySet
  <1>2. \A n \in Lengths : n \in Nat
    BY DEF Lengths, LengthOf
  <1>3. ASSUME NEW S, Tidy(S) PROVE Tidy(After(S))
    <2>1. ASSUME NEW b \in S, NEW n \in Nat
          PROVE  /\ Written(b.bytes, n) \subseteq Nat /\ IsFiniteSet(Written(b.bytes, n))
      <3>1. IsFiniteSet(b.bytes) /\ b.bytes \subseteq Nat
        BY <1>3
      <3>2. IsFiniteSet(1..n) /\ IsFiniteSet(b.bytes \ {n + 1})
        BY <3>1, FS_Interval, FS_Subset
      <3>3. IsFiniteSet((b.bytes \ {n + 1}) \cup 1..n)
        BY <3>2, FS_Union
      <3>4. Written(b.bytes, n) = (b.bytes \ {n + 1}) \cup 1..n
        BY DEF Written
      <3>. QED BY <3>1, <3>3, <3>4
    <2>2. ASSUME NEW b \in S, NEW n \in Lengths
          PROVE  /\ Cleared(b, n) \in Buffers /\ IsFiniteSet(Cleared(b, n).bytes)
                 /\ [b EXCEPT !.bytes = Written(@, n)] \in Buffers
                 /\ IsFiniteSet([b EXCEPT !.bytes = Written(@, n)].bytes)
                 /\ [b EXCEPT !.bytes = Written(@, 1) \ {1}] \in Buffers
                 /\ IsFiniteSet([b EXCEPT !.bytes = Written(@, 1) \ {1}].bytes)
      <3>1. b \in Buffers /\ n \in Nat
        BY <1>2, <1>3
      <3>2. /\ Written(b.bytes, n) \subseteq Nat /\ IsFiniteSet(Written(b.bytes, n))
            /\ Written(b.bytes, 1) \subseteq Nat /\ IsFiniteSet(Written(b.bytes, 1))
        BY <2>1, <3>1
      <3>3. /\ IsFiniteSet(Written(b.bytes, 1) \ {1})
            /\ IsFiniteSet(Written(b.bytes, n) \ 1..(IF b.last = 0 THEN n ELSE b.last))
        BY <3>2, FS_Subset
      <3>4. /\ Cleared(b, n) \in Buffers
            /\ Cleared(b, n).bytes = Written(b.bytes, n) \ 1..(IF b.last = 0 THEN n ELSE b.last)
        BY <3>1, <3>2 DEF Cleared
      <3>5. /\ [b EXCEPT !.bytes = Written(@, n)] \in Buffers
            /\ [b EXCEPT !.bytes = Written(@, n)].bytes = Written(b.bytes, n)
            /\ [b EXCEPT !.bytes = Written(@, 1) \ {1}] \in Buffers
            /\ [b EXCEPT !.bytes = Written(@, 1) \ {1}].bytes = Written(b.bytes, 1) \ {1}
        BY <3>1, <3>2
      <3>. HIDE DEF Buffers
      <3>. QED BY <3>2, <3>3, <3>4, <3>5
    <2>3. ASSUME NEW c \in After(S) PROVE c \in Buffers /\ IsFiniteSet(c.bytes)
      <3>1. \/ c \in S
            \/ \E b \in S, n \in Lengths :
                 \/ c = Cleared(b, n)
                 \/ c = [b EXCEPT !.bytes = Written(@, n)]
                 \/ c = [b EXCEPT !.bytes = Written(@, 1) \ {1}]
        BY <2>3
      <3>. HIDE DEF Buffers, After
      <3>2. CASE c \in S
        BY <1>3, <3>2
      <3>3. CASE c \notin S
        <4>1. PICK b \in S, n \in Lengths :
                 \/ c = Cleared(b, n)
                 \/ c = [b EXCEPT !.bytes = Written(@, n)]
                 \/ c = [b EXCEPT !.bytes = Written(@, 1) \ {1}]
          BY <3>1, <3>3
        <4>. QED BY <2>2, <4>1, Zenon
      <3>. QED BY <3>2, <3>3
    <2>. HIDE DEF Buffers, After
    <2>. QED BY <2>3 DEF Tidy
  <1>. HIDE DEF Tidy, Start0, After
  <1>4. ASSUME NEW m \in Nat
        PROVE  \E f : Rule(f, m) /\ \A k \in 0..m : Tidy(f[k])
    <2> DEFINE Good == {i \in Nat : \E f : Rule(f, i) /\ \A k \in 0..i : Tidy(f[k])}
    <2>1. 0 \in Good
      <3> DEFINE g == [k \in 0..0 |-> Start0]
      <3>1. Rule(g, 0)
        <4>1. \A k \in 0..0 : g[k] = IF k = 0 THEN Start0 ELSE After(g[k - 1])
          OBVIOUS
        <4>. QED BY <4>1
      <3>. QED BY <1>1, <3>1
    <2>2. ASSUME NEW i \in Nat, i \in Good PROVE i + 1 \in Good
      <3>1. PICK f : Rule(f, i) /\ \A k \in 0..i : Tidy(f[k])
        BY <2>2
      <3> DEFINE g == [k \in 0..(i + 1) |-> IF k = i + 1 THEN After(f[i]) ELSE f[k]]
      <3>2. Rule(g, i + 1)
        BY <3>1
      <3>3. \A k \in 0..(i + 1) : Tidy(g[k])
        BY <1>3, <3>1
      <3>. HIDE DEF g, Rule
      <3>4. \E h : Rule(h, i + 1) /\ \A k \in 0..(i + 1) : Tidy(h[k])
        BY <3>2, <3>3, Zenon
      <3>. QED BY <3>4
    <2>. HIDE DEF Good
    <2>3. Nat \subseteq Good
      BY <2>1, <2>2, SetInduction
    <2>. QED BY <2>3 DEF Good
  <1> DEFINE f == CHOOSE g : Rule(g, MaxBefore)
  <1>5. Rule(f, MaxBefore)
    BY <1>4, BoundsAssumption
  <1>6. LeftBehind = f[MaxBefore]
    BY DEF LeftBehind, After, Start0
  <1>. HIDE DEF f
  <1>7. Tidy(f[MaxBefore])
    <2> DEFINE Good == {i \in Nat : i <= MaxBefore => Tidy(f[i])}
    <2>1. 0 \in Good
      BY <1>1, <1>5, BoundsAssumption
    <2>2. ASSUME NEW i \in Nat, i \in Good PROVE i + 1 \in Good
      <3> SUFFICES ASSUME i + 1 <= MaxBefore PROVE Tidy(f[i + 1])
        OBVIOUS
      <3>1. f[i + 1] = After(f[i])
        BY <1>5, BoundsAssumption
      <3>2. Tidy(f[i])
        BY <2>2, BoundsAssumption
      <3>. QED BY <1>3, <3>1, <3>2
    <2>. HIDE DEF Good
    <2>3. Nat \subseteq Good
      BY <2>1, <2>2, SetInduction
    <2>. QED BY <2>3, BoundsAssumption DEF Good
  <1>. QED BY <1>6, <1>7 DEF Tidy

-----------------------------------------------------------------------------
(* The byte stream.                                                         *)

(* What a request is sent as.                                               *)
LEMMA PiecesOfRequest ==
  ASSUME script \in Scripts, NEW n \in 1..Len(script), NEW p, p = PiecesOf(script[n], n)
  PROVE  /\ p \in Seq(Pieces)
         /\ p[1] = Piece(n, "head") /\ p[2] = Piece(n, "end")
         /\ script[n].body => Len(p) = 3 /\ p[3] = Piece(n, "body")
         /\ ~script[n].body => Len(p) = 2
         /\ Len(p) \in {2, 3}
  <1>1. \A q \in Parts : Piece(n, q) \in Pieces
    BY DEF Piece, Pieces
  <1>2. "head" \in Parts /\ "end" \in Parts /\ "body" \in Parts
    BY DEF Parts
  <1>3. Piece(n, "head") \in Pieces /\ Piece(n, "end") \in Pieces /\ Piece(n, "body") \in Pieces
    BY <1>1, <1>2
  <1>. HIDE DEF Pieces
  <1>4. CASE script[n].body
    <2>1. p = <<Piece(n, "head"), Piece(n, "end")>> \o <<Piece(n, "body")>>
      BY <1>4 DEF PiecesOf
    <2>. QED BY <1>3, <1>4, <2>1
  <1>5. CASE ~script[n].body
    <2>1. p = <<Piece(n, "head"), Piece(n, "end")>> \o <<>>
      BY <1>5 DEF PiecesOf
    <2>. QED BY <1>3, <1>5, <2>1
  <1>. QED BY <1>4, <1>5

(* The type of a piece.                                                     *)
LEMMA PieceTypes == \A x \in Pieces : x.req \in Int /\ x.req \in 1..Len(script) /\ x.part \in Parts
  BY DEF Pieces

(* A stream stays orderly when the next request is put behind it, ...       *)
LEMMA NextRequest ==
  ASSUME script \in Scripts, NEW s \in Seq(Pieces), Orderly(s), NEW n \in 1..Len(script),
         \A k \in 1..Len(s) : s[k].req < n,
         s # <<>> => s[1].part = "head"
  PROVE  LET t == s \o PiecesOf(script[n], n)
         IN  /\ t \in Seq(Pieces) /\ Orderly(t)
             /\ \A k \in 1..Len(t) : t[k].req <= n
             /\ t # <<>> => t[1].part = "head"
  <1> DEFINE p == PiecesOf(script[n], n)
             t == s \o p
             l == Len(s)
  <1>1. /\ p \in Seq(Pieces)
        /\ p[1] = Piece(n, "head") /\ p[2] = Piece(n, "end")
        /\ script[n].body => Len(p) = 3 /\ p[3] = Piece(n, "body")
        /\ ~script[n].body => Len(p) = 2
    BY PiecesOfRequest
  <1>. HIDE DEF p
  <1>2. Len(p) \in {2, 3} /\ l \in Nat
    BY <1>1
  <1>3. t \in Seq(Pieces) /\ Len(t) = l + Len(p)
    BY <1>1
  <1>4. /\ \A k \in 1..l : t[k] = s[k]
        /\ \A k \in 1..Len(p) : t[l + k] = p[k]
    BY <1>1, <1>2
  <1>5. \A k \in 1..l : s[k].req \in Int /\ s[k].req < n
    <2>1. \A k \in 1..l : s[k] \in Pieces
      OBVIOUS
    <2>. QED BY <2>1, PieceTypes
  <1>. HIDE DEF t, l
  <1>6. /\ t[l + 1] = Piece(n, "head") /\ t[l + 1].part = "head" /\ t[l + 1].req = n
        /\ t[l + 2] = Piece(n, "end") /\ t[l + 2].part = "end" /\ t[l + 2].req = n
        /\ script[n].body => /\ t[l + 3] = Piece(n, "body") /\ t[l + 3].part = "body"
                             /\ t[l + 3].req = n /\ Len(t) = l + 3
        /\ ~script[n].body => Len(t) = l + 2
        /\ \A k \in 1..Len(t) : \/ k \in 1..l
                                \/ k = l + 1
                                \/ k = l + 2
                                \/ k = l + 3 /\ script[n].body
    <2>1. 1 \in 1..Len(p) /\ 2 \in 1..Len(p) /\ (script[n].body => 3 \in 1..Len(p))
      BY <1>1, <1>2
    <2>2. /\ t[l + 1] = Piece(n, "head") /\ t[l + 2] = Piece(n, "end")
          /\ script[n].body => t[l + 3] = Piece(n, "body")
      BY <1>1, <1>4, <2>1
    <2>3. \A q : Piece(n, q).req = n /\ Piece(n, q).part = q
      BY DEF Piece
    <2>4. (script[n].body => Len(t) = l + 3) /\ (~script[n].body => Len(t) = l + 2)
      BY <1>1, <1>3
    <2>5. \A k \in 1..Len(t) : \/ k \in 1..l
                               \/ k = l + 1
                               \/ k = l + 2
                               \/ k = l + 3 /\ script[n].body
      BY <1>2, <2>4
    <2>. QED BY <2>2, <2>3, <2>4, <2>5
  <1>7. Orderly(t)
    <2>1. ASSUME NEW k \in 1..Len(t), t[k].part = "head"
          PROVE  k < Len(t) /\ t[k + 1] = Piece(t[k].req, "end")
      <3>1. CASE k \in 1..l
        <4>1. k < l /\ s[k + 1] = Piece(s[k].req, "end")
          BY <1>4, <2>1, <3>1 DEF Orderly, l
        <4>. QED BY <1>2, <1>3, <1>4, <3>1, <4>1
      <3>2. CASE k = l + 1
        BY <1>2, <1>6, <3>2
      <3>. QED BY <1>6, <2>1, <3>1, <3>2
    <2>2. ASSUME NEW k \in 1..Len(t), k > 1, t[k].part = "end"
          PROVE  t[k - 1] = Piece(t[k].req, "head")
      <3>1. CASE k \in 1..l
        <4>1. s[k - 1] = Piece(s[k].req, "head")
          BY <1>4, <2>2, <3>1 DEF Orderly, l
        <4>. QED BY <1>2, <1>4, <2>2, <3>1, <4>1
      <3>2. CASE k = l + 2
        BY <1>2, <1>6, <3>2
      <3>. QED BY <1>6, <2>2, <3>1, <3>2
    <2>3. ASSUME NEW k \in 1..Len(t), k > 1, t[k].part = "body"
          PROVE  t[k - 1] = Piece(t[k].req, "end")
      <3>1. CASE k \in 1..l
        <4>1. s[k - 1] = Piece(s[k].req, "end")
          BY <1>4, <2>3, <3>1 DEF Orderly, l
        <4>. QED BY <1>2, <1>4, <2>3, <3>1, <4>1
      <3>2. CASE k = l + 3 /\ script[n].body
        BY <1>2, <1>6, <3>2
      <3>. QED BY <1>6, <2>3, <3>1, <3>2
    <2>4. ASSUME NEW k \in 1..Len(t), t[k].part = "body"
          PROVE  script[t[k].req].body
      <3>1. CASE k \in 1..l
        BY <1>4, <2>4, <3>1 DEF Orderly, l
      <3>. QED BY <1>6, <2>4, <3>1
    <2>5. ASSUME NEW k \in 1..Len(t), t[k].part = "end", script[t[k].req].body
          PROVE  k < Len(t) /\ t[k + 1] = Piece(t[k].req, "body")
      <3>1. CASE k \in 1..l
        <4>1. k < l /\ s[k + 1] = Piece(s[k].req, "body")
          BY <1>4, <2>5, <3>1 DEF Orderly, l
        <4>2. k + 1 \in 1..l
          BY <1>2, <3>1, <4>1
        <4>3. t[k + 1] = s[k + 1] /\ t[k] = s[k] /\ k < Len(t)
          BY <1>2, <1>3, <1>4, <3>1, <4>1, <4>2
        <4>. QED BY <4>1, <4>3
      <3>2. CASE k = l + 2
        BY <1>2, <1>6, <2>5, <3>2
      <3>. QED BY <1>6, <2>5, <3>1, <3>2
    <2>6. ASSUME NEW j \in 1..Len(t), NEW k \in 1..Len(t), t[j] = t[k]
          PROVE  j = k
      <3>1. \A i \in 1..Len(t) : i \notin 1..l => t[i].req = n
        BY <1>6
      <3>2. \A i \in 1..l : t[i].req \in Int /\ t[i].req < n
        BY <1>4, <1>5
      <3>3. CASE j \in 1..l /\ k \in 1..l
        BY <1>4, <2>6, <3>3 DEF Orderly, l
      <3>4. CASE j \in 1..l <=> k \notin 1..l
        BY <2>6, <3>1, <3>2, <3>4
      <3>5. CASE j \notin 1..l /\ k \notin 1..l
        <4>1. t[j].part = t[k].part
          BY <2>6
        <4>. QED BY <1>6, <3>5, <4>1
      <3>. QED BY <3>3, <3>4, <3>5
    <2>. QED BY <2>1, <2>2, <2>3, <2>4, <2>5, <2>6 DEF Orderly
  <1>8. \A k \in 1..Len(t) : t[k].req <= n
    <2>1. \A k \in 1..l : t[k].req <= n
      BY <1>4, <1>5
    <2>. QED BY <1>6, <2>1
  <1>9. t[1].part = "head"
    <2>1. CASE l = 0
      BY <1>6, <2>1
    <2>2. CASE l > 0
      BY <1>4, <1>2, <2>2 DEF l
    <2>. QED BY <1>2, <2>1, <2>2
  <1>. QED BY <1>3, <1>7, <1>8, <1>9 DEF t, p

(* ... so what a client sets out to send is orderly.                        *)
LEMMA FirstStream ==
  ASSUME Init
  PROVE  /\ unsent \in Seq(Pieces) /\ Orderly(unsent)
         /\ unsent # <<>> => unsent[1].part = "head"
         /\ Len(unsent) <= 3 * Len(script)
  <1> DEFINE Step(n, s) == s \o PiecesOf(script[n], n)
             Rule(f, m) == f = [n \in 0..m |-> IF n = 0 THEN <<>> ELSE Step(n, f[n - 1])]
             Fine(s, n) == /\ s \in Seq(Pieces) /\ Orderly(s)
                           /\ \A k \in 1..Len(s) : s[k].req <= n
                           /\ s # <<>> => s[1].part = "head"
                           /\ Len(s) <= 3 * n
  <1>1. script \in Scripts /\ Len(script) \in Nat
    BY DEF Init
  <1>2. Fine(<<>>, 0)
    BY DEF Orderly
  <1>3. ASSUME NEW n \in 1..Len(script), NEW s, Fine(s, n - 1) PROVE Fine(Step(n, s), n)
    <2>1. \A k \in 1..Len(s) : s[k].req < n
      <3>1. \A k \in 1..Len(s) : s[k] \in Pieces
        BY <1>3
      <3>. QED BY <1>3, <3>1, PieceTypes
    <2>2. Len(s \o PiecesOf(script[n], n)) <= 3 * n
      <3> DEFINE p == PiecesOf(script[n], n)
      <3>4. p \in Seq(Pieces) /\ Len(p) \in {2, 3}
        BY <1>1, PiecesOfRequest
      <3>. HIDE DEF p
      <3>5. \A k \in {2, 3} : k <= 3
        OBVIOUS
      <3>1. p \in Seq(Pieces) /\ Len(p) <= 3
        BY <3>4, <3>5, Zenon
      <3>2. Len(s \o p) = Len(s) + Len(p) /\ Len(s) \in Nat /\ Len(p) \in Nat
        BY <1>3, <3>1
      <3>3. Len(s) <= 3 * (n - 1)
        BY <1>3
      <3>. QED BY <1>1, <3>1, <3>2, <3>3 DEF p
    <2>. QED BY <1>1, <1>3, <2>1, <2>2, NextRequest
  <1>. HIDE DEF Step, Fine
  <1> DEFINE Good == {m \in Nat : m <= Len(script) =>
                        \E f : Rule(f, m) /\ \A k \in 0..m : Fine(f[k], k)}
  <1>4. 0 \in Good
    <2> DEFINE g == [k \in 0..0 |-> <<>>]
    <2>1. Rule(g, 0)
      OBVIOUS
    <2>2. \A k \in 0..0 : Fine(g[k], k)
      BY <1>2
    <2>. HIDE DEF g, Rule
    <2>3. \E f : Rule(f, 0) /\ \A k \in 0..0 : Fine(f[k], k)
      BY <2>1, <2>2, Zenon
    <2>. QED BY <2>3
  <1>5. ASSUME NEW i \in Nat, i \in Good PROVE i + 1 \in Good
    <2> SUFFICES ASSUME i + 1 <= Len(script)
                 PROVE  \E f : Rule(f, i + 1) /\ \A k \in 0..(i + 1) : Fine(f[k], k)
      OBVIOUS
    <2>1. PICK f : Rule(f, i) /\ \A k \in 0..i : Fine(f[k], k)
      BY <1>1, <1>5
    <2> DEFINE g == [k \in 0..(i + 1) |-> IF k = i + 1 THEN Step(i + 1, f[i]) ELSE f[k]]
    <2>2. Rule(g, i + 1)
      BY <2>1
    <2>3. \A k \in 0..(i + 1) : Fine(g[k], k)
      <3> SUFFICES ASSUME NEW k \in 0..(i + 1) PROVE Fine(g[k], k)
        OBVIOUS
      <3>1. CASE k = i + 1
        <4>1. i + 1 \in 1..Len(script) /\ (i + 1) - 1 = i /\ i \in 0..i
          BY <1>1
        <4>2. Fine(f[i], i)
          BY <2>1, <4>1
        <4>3. Fine(Step(i + 1, f[i]), i + 1)
          BY <1>3, <4>1, <4>2
        <4>. QED BY <3>1, <4>3
      <3>2. CASE k # i + 1
        BY <2>1, <3>2
      <3>. QED BY <3>1, <3>2
    <2>. HIDE DEF g, Rule
    <2>. QED BY <2>2, <2>3, Zenon
  <1>. HIDE DEF Good
  <1>6. Nat \subseteq Good
    BY <1>4, <1>5, SetInduction
  <1>7. PICK f : Rule(f, Len(script)) /\ \A k \in 0..Len(script) : Fine(f[k], k)
    BY <1>1, <1>6 DEF Good
  <1>8. ASSUME NEW g, Rule(g, Len(script)) PROVE g = f
    <2> DEFINE Same == {m \in Nat : m <= Len(script) => g[m] = f[m]}
    <2>1. 0 \in Same
      BY <1>1, <1>7, <1>8
    <2>2. ASSUME NEW i \in Nat, i \in Same PROVE i + 1 \in Same
      <3> SUFFICES ASSUME i + 1 <= Len(script) PROVE g[i + 1] = f[i + 1]
        OBVIOUS
      <3>1. i + 1 \in 0..Len(script) /\ i + 1 # 0 /\ (i + 1) - 1 = i
        BY <1>1
      <3>2. g[i + 1] = Step(i + 1, g[i]) /\ f[i + 1] = Step(i + 1, f[i])
        BY <1>7, <1>8, <3>1
      <3>3. g[i] = f[i]
        BY <1>1, <2>2
      <3>. QED BY <3>2, <3>3
    <2>. HIDE DEF Same
    <2>3. Nat \subseteq Same
      BY <2>1, <2>2, SetInduction
    <2>4. \A k \in 0..Len(script) : g[k] = f[k]
      BY <1>1, <2>3 DEF Same
    <2>. QED BY <1>7, <1>8, <2>4
  <1>9. unsent = f[Len(script)]
    <2>1. unsent = (CHOOSE g : Rule(g, Len(script)))[Len(script)]
      BY DEF Init, Step
    <2>2. (CHOOSE g : Rule(g, Len(script))) = f
      BY <1>7, <1>8
    <2>. QED BY <2>1, <2>2
  <1>10. Fine(f[Len(script)], Len(script))
    BY <1>1, <1>7
  <1>. QED BY <1>9, <1>10 DEF Fine

(* Reading takes pieces off the front, which leaves the rest orderly.       *)
LEMMA Suffix ==
  ASSUME NEW s \in Seq(Pieces), Orderly(s), NEW m \in 0..Len(s), NEW t,
         t = SubSeq(s, m + 1, Len(s))
  PROVE  /\ t \in Seq(Pieces) /\ Len(t) = Len(s) - m
         /\ \A k \in 1..Len(t) : t[k] = s[k + m]
         /\ Orderly(t)
  <1>1. /\ t \in Seq(Pieces) /\ Len(t) = Len(s) - m
        /\ \A k \in 1..Len(t) : t[k] = s[k + m]
    OBVIOUS
  <1>2. /\ \A k \in 1..Len(t) : k + m \in 1..Len(s) /\ (k > 1 => k - 1 \in 1..Len(t))
        /\ \A k \in 1..Len(t) : (k + 1) + m = (k + m) + 1 /\ (k - 1) + m = (k + m) - 1
        /\ Len(t) \in Nat /\ Len(s) \in Nat
    BY <1>1
  <1>3. \A k \in 1..Len(t) : k < Len(t) => t[k + 1] = s[(k + m) + 1]
    <2> SUFFICES ASSUME NEW k \in 1..Len(t), k < Len(t) PROVE t[k + 1] = s[(k + m) + 1]
      OBVIOUS
    <2>1. k + 1 \in 1..Len(t)
      BY <1>2
    <2>. QED BY <1>1, <1>2, <2>1
  <1>4. \A k \in 1..Len(t) : k > 1 => t[k - 1] = s[(k + m) - 1]
    BY <1>1, <1>2
  <1>5. Orderly(t)
    <2>1. ASSUME NEW k \in 1..Len(t), t[k].part = "head"
          PROVE  k < Len(t) /\ t[k + 1] = Piece(t[k].req, "end")
      <3>1. k + m < Len(s) /\ s[(k + m) + 1] = Piece(t[k].req, "end")
        BY <1>1, <1>2, <2>1 DEF Orderly
      <3>. QED BY <1>1, <1>2, <1>3, <3>1
    <2>2. ASSUME NEW k \in 1..Len(t), k > 1, t[k].part = "end"
          PROVE  t[k - 1] = Piece(t[k].req, "head")
      BY <1>1, <1>2, <1>4, <2>2 DEF Orderly
    <2>3. ASSUME NEW k \in 1..Len(t), k > 1, t[k].part = "body"
          PROVE  t[k - 1] = Piece(t[k].req, "end")
      BY <1>1, <1>2, <1>4, <2>3 DEF Orderly
    <2>4. ASSUME NEW k \in 1..Len(t), t[k].part = "body"
          PROVE  script[t[k].req].body
      BY <1>1, <1>2, <2>4 DEF Orderly
    <2>5. ASSUME NEW k \in 1..Len(t), t[k].part = "end", script[t[k].req].body
          PROVE  k < Len(t) /\ t[k + 1] = Piece(t[k].req, "body")
      <3>1. k + m < Len(s) /\ s[(k + m) + 1] = Piece(t[k].req, "body")
        BY <1>1, <1>2, <2>5 DEF Orderly
      <3>. QED BY <1>1, <1>2, <1>3, <3>1
    <2>6. ASSUME NEW j \in 1..Len(t), NEW k \in 1..Len(t), t[j] = t[k]
          PROVE  j = k
      <3>1. s[j + m] = s[k + m]
        BY <1>1, <2>6
      <3>2. j + m = k + m
        BY <1>2, <3>1 DEF Orderly
      <3>. QED BY <3>2
    <2>. QED BY <2>1, <2>2, <2>3, <2>4, <2>5, <2>6 DEF Orderly
  <1>. QED BY <1>1, <1>5

(* Positions in the socket and behind it, as positions in the stream.       *)
LEMMA Positions ==
  ASSUME rx \in Seq(Pieces), unsent \in Seq(Pieces)
  PROVE  /\ Stream \in Seq(Pieces) /\ Len(Stream) = Len(rx) + Len(unsent)
         /\ \A k \in 1..Len(rx) : Stream[k] = rx[k]
         /\ \A k \in 1..Len(unsent) : Stream[Len(rx) + k] = unsent[k]
         /\ \A m \in 0..Len(rx) :
              SubSeq(rx, m + 1, Len(rx)) \o unsent = SubSeq(Stream, m + 1, Len(Stream))
         /\ unsent = SubSeq(Stream, Len(rx) + 1, Len(Stream))
  <1>1. /\ Stream \in Seq(Pieces) /\ Len(Stream) = Len(rx) + Len(unsent)
        /\ \A k \in 1..Len(rx) : Stream[k] = rx[k]
        /\ \A k \in 1..Len(unsent) : Stream[Len(rx) + k] = unsent[k]
    BY DEF Stream
  <1>2. ASSUME NEW m \in 0..Len(rx)
        PROVE  SubSeq(rx, m + 1, Len(rx)) \o unsent = SubSeq(Stream, m + 1, Len(Stream))
    <2> DEFINE c == SubSeq(rx, m + 1, Len(rx))
               a == c \o unsent
               b == SubSeq(Stream, m + 1, Len(Stream))
    <2>1. c \in Seq(Pieces) /\ Len(c) = Len(rx) - m /\ \A k \in 1..Len(c) : c[k] = rx[k + m]
      OBVIOUS
    <2>2. b \in Seq(Pieces) /\ Len(b) = Len(Stream) - m /\ \A k \in 1..Len(b) : b[k] = Stream[k + m]
      BY <1>1
    <2>. HIDE DEF c, b
    <2>3. /\ a \in Seq(Pieces) /\ Len(a) = Len(c) + Len(unsent)
          /\ \A k \in 1..Len(c) : a[k] = c[k]
          /\ \A k \in 1..Len(unsent) : a[Len(c) + k] = unsent[k]
      <3>1. c \in Seq(Pieces)
        BY <2>1
      <3>. QED BY <3>1
    <2>. HIDE DEF a
    <2>4. Len(a) = Len(b)
      BY <1>1, <2>1, <2>2, <2>3
    <2>5. ASSUME NEW k \in 1..Len(a) PROVE a[k] = b[k]
      <3>1. CASE k \in 1..Len(c)
        BY <1>1, <2>1, <2>2, <2>3, <2>4, <3>1
      <3>2. CASE k \notin 1..Len(c)
        <4>1. k - Len(c) \in 1..Len(unsent) /\ Len(c) + (k - Len(c)) = k
          BY <2>1, <2>3, <3>2
        <4>2. a[k] = unsent[k - Len(c)]
          BY <2>3, <4>1
        <4>3. b[k] = Stream[Len(rx) + (k - Len(c))]
          BY <2>1, <2>2, <2>4
        <4>. QED BY <1>1, <4>1, <4>2, <4>3
      <3>. QED BY <3>1, <3>2
    <2>6. a = b
      BY <2>2, <2>3, <2>4, <2>5, SeqEqual
    <2>. QED BY <2>6 DEF a, b, c
  <1>3. unsent = SubSeq(Stream, Len(rx) + 1, Len(Stream))
    <2>1. SubSeq(rx, Len(rx) + 1, Len(rx)) \o unsent = SubSeq(Stream, Len(rx) + 1, Len(Stream))
      <3>1. Len(rx) \in 0..Len(rx)
        OBVIOUS
      <3>. QED BY <1>2, <3>1
    <2>2. SubSeq(rx, Len(rx) + 1, Len(rx)) \o unsent = unsent
      OBVIOUS
    <2>. QED BY <2>1, <2>2
  <1>. QED BY <1>1, <1>2, <1>3

(* The request that is next on the client's side, in one piece.             *)
LEMMA WholeRequest ==
  ASSUME script \in Scripts, NEW u \in Seq(Pieces), Orderly(u), u # <<>>,
         u[1].part = "head", NEW i, u[1].req = i,
         NEW n \in {2, 3}, n = 3 <=> script[i].body
  PROVE  /\ n \in 2..Len(u) /\ i \in 1..Len(script)
         /\ \A k \in 1..n : u[k].req = i
         /\ u[2].part = "end" /\ (~script[i].body => n = 2)
         /\ n < Len(u) => u[n + 1].part = "head"
  <1>1. u[1] \in Pieces /\ Len(u) >= 1 /\ i \in 1..Len(script)
    <2>1. u[1] \in Pieces /\ Len(u) >= 1
      OBVIOUS
    <2>. QED BY <2>1, PieceTypes
  <1>2. n \in Int /\ (n = 2 \/ n = 3) /\ (n = 3 <=> script[i].body)
    OBVIOUS
  <1>3. \A q : Piece(i, q).req = i /\ Piece(i, q).part = q
    BY DEF Piece
  <1>4. Len(u) >= 2 /\ u[2] = Piece(i, "end") /\ u[2].req = i /\ u[2].part = "end"
    <2>1. Len(u) >= 2 /\ u[2] = Piece(i, "end")
      BY <1>1 DEF Orderly
    <2>. QED BY <1>3, <2>1
  <1>5. n = 3 => Len(u) >= 3 /\ u[3].req = i /\ u[3].part = "body"
    <2>1. n = 3 => 2 < Len(u) /\ u[2 + 1] = Piece(i, "body")
      BY <1>1, <1>2, <1>4 DEF Orderly
    <2>. QED BY <1>3, <1>4, <2>1
  <1>6. n < Len(u) => u[n + 1].part = "head"
    <2> SUFFICES ASSUME n < Len(u) PROVE u[n + 1].part = "head"
      OBVIOUS
    <2>1. n + 1 \in 1..Len(u) /\ n + 1 > 1 /\ (n + 1) - 1 = n
      BY <1>2
    <2>2. u[n + 1].part \in Parts
      <3>1. u[n + 1] \in Pieces
        BY <2>1
      <3>. QED BY <3>1, PieceTypes
    <2>3. u[n].part # "head" /\ u[n].req = i /\ (u[n].part = "end" => n = 2)
      <3>1. CASE n = 2
        BY <1>4, <3>1
      <3>2. CASE n = 3
        BY <1>5, <3>2
      <3>. QED BY <1>2, <3>1, <3>2
    <2>4. u[n + 1].part # "end"
      <3> SUFFICES ASSUME u[n + 1].part = "end" PROVE FALSE
        OBVIOUS
      <3>1. u[n] = Piece(u[n + 1].req, "head")
        BY <2>1 DEF Orderly
      <3>. QED BY <2>3, <3>1 DEF Piece
    <2>5. u[n + 1].part # "body"
      <3> SUFFICES ASSUME u[n + 1].part = "body" PROVE FALSE
        OBVIOUS
      <3>1. u[n] = Piece(u[n + 1].req, "end") /\ script[u[n + 1].req].body
        BY <2>1 DEF Orderly
      <3>2. u[n].part = "end" /\ u[n + 1].req = u[n].req
        BY <3>1 DEF Piece
      <3>3. n = 2 /\ script[i].body
        BY <2>3, <3>1, <3>2
      <3>. QED BY <1>2, <3>3
    <2>. QED BY <2>2, <2>4, <2>5 DEF Parts
  <1>7. \A k \in 1..n : u[k].req = i
    <2>1. \A k \in 1..n : k = 1 \/ k = 2 \/ (k = 3 /\ n = 3)
      BY <1>2
    <2>. QED BY <1>4, <1>5, <2>1
  <1>8. n \in 2..Len(u)
    BY <1>1, <1>2, <1>4, <1>5
  <1>. QED BY <1>1, <1>2, <1>4, <1>6, <1>7, <1>8

(* The first n pieces the client has still to send arrive.                  *)
LEMMA Arrival ==
  ASSUME rx \in Seq(Pieces), unsent \in Seq(Pieces), NEW n \in 0..Len(unsent), Arrive(n),
         script' = script
  PROVE  /\ rx' \in Seq(Pieces) /\ unsent' \in Seq(Pieces) /\ Stream' = Stream
         /\ Len(rx') = Len(rx) + n /\ Len(unsent') = Len(unsent) - n
         /\ \A k \in 1..Len(rx) : rx'[k] = rx[k]
         /\ \A k \in 1..n : rx'[Len(rx) + k] = unsent[k]
         /\ \A k \in 1..Len(unsent') : unsent'[k] = unsent[n + k]
  <1> DEFINE a == SubSeq(unsent, 1, n)
             b == SubSeq(unsent, n + 1, Len(unsent))
  <1>1. a \in Seq(Pieces) /\ Len(a) = n /\ \A k \in 1..n : a[k] = unsent[k]
    OBVIOUS
  <1>2. b \in Seq(Pieces) /\ Len(b) = Len(unsent) - n /\ \A k \in 1..Len(b) : b[k] = unsent[n + k]
    OBVIOUS
  <1>3. rx' = rx \o a /\ unsent' = b
    BY DEF Arrive
  <1>. HIDE DEF a, b
  <1>4. /\ rx' \in Seq(Pieces) /\ Len(rx') = Len(rx) + n
        /\ \A k \in 1..Len(rx) : rx'[k] = rx[k]
        /\ \A k \in 1..n : rx'[Len(rx) + k] = unsent[k]
    <2>1. /\ rx \o a \in Seq(Pieces) /\ Len(rx \o a) = Len(rx) + n
          /\ \A k \in 1..Len(rx) : (rx \o a)[k] = rx[k]
          /\ \A k \in 1..n : (rx \o a)[Len(rx) + k] = a[k]
      BY <1>1
    <2>. QED BY <1>1, <1>3, <2>1
  <1>5. a \o b = unsent
    <2>1. /\ a \o b \in Seq(Pieces) /\ Len(a \o b) = Len(unsent)
          /\ \A k \in 1..n : (a \o b)[k] = a[k]
          /\ \A k \in 1..Len(b) : (a \o b)[n + k] = b[k]
      BY <1>1, <1>2
    <2>2. ASSUME NEW k \in 1..Len(unsent) PROVE (a \o b)[k] = unsent[k]
      <3>1. CASE k \in 1..n
        BY <1>1, <2>1, <3>1
      <3>2. CASE k \notin 1..n
        <4>1. k - n \in 1..Len(b) /\ n + (k - n) = k
          BY <1>2, <3>2
        <4>. QED BY <1>2, <2>1, <4>1
      <3>. QED BY <3>1, <3>2
    <2>. QED BY <2>1, <2>2, SeqEqual
  <1>6. Stream' = Stream
    <2>1. Stream' = (rx \o a) \o b
      BY <1>3 DEF Stream
    <2>2. (rx \o a) \o b = rx \o (a \o b)
      BY <1>1, <1>2, ConcatAssociative
    <2>. QED BY <1>5, <2>1, <2>2 DEF Stream
  <1>. QED BY <1>2, <1>3, <1>4, <1>6

-----------------------------------------------------------------------------
(* What a step does to the stream and to the answers.                       *)

Taken == Discard /\ ParseOk(rx)

Refused ==
  /\ \/ Running("peek") /\ rx # <<>> /\ HeadEnds(rx) = {} /\ rx' = rx
     \/ Running("discard") /\ ~ParseOk(rx) /\ rx' = SubSeq(rx, size + 1, Len(rx))
  /\ Reject

Answered ==
  /\ Running("send")
  /\ \E cut \in BOOLEAN : Responded(cut)
  /\ UNCHANGED <<clientVars, rx, url, closed, dead>>

Quiet ==
  /\ UNCHANGED <<script, manner, unsent, rx, url, answers>>
  /\ Live' => Live

(* What a step does to the requests and the answers.                        *)
LEMMA KindsOfStep ==
  ASSUME Next, ~torn, ~torn'
  PROVE  \/ Send
         \/ HangUpCloses
         \/ Start
         \/ Taken
         \/ Refused
         \/ ParseOverruns
         \/ Answered
         \/ Quiet
  <1>. USE DEF Running
  <1>1. ASSUME HangUp("fin") \/ HangUp("rst") PROVE Quiet
    BY <1>1 DEF HangUp, Quiet, Live, localVars
  <1>2. ASSUME PeekEnds \/ DiscardFails PROVE Quiet
    BY <1>2 DEF PeekEnds, DiscardFails, Cleanup, Quiet, Live, localVars, clientVars
  <1>3. ASSUME PeekEagain PROVE Quiet
    BY <1>3 DEF PeekEagain, Cleanup, Quiet, Live, localVars, clientVars
  <1>4. ASSUME PeekHead PROVE Quiet
    BY <1>4 DEF PeekHead, Quiet, Live, localVars, clientVars
  <1>5. ASSUME PeekPartial PROVE Quiet \/ Refused
    BY <1>5 DEF PeekPartial, Quiet, Live, Refused, localVars, clientVars
  <1>6. ASSUME Discard PROVE Taken \/ Refused
    BY <1>6 DEF Discard, Taken, Refused
  <1>7. ASSUME Build PROVE Quiet
    BY <1>7 DEF Build, Quiet, Live, localVars, clientVars
  <1>8. ASSUME SendResponse PROVE Quiet \/ Answered
    <2>1. PICK n \in 1..(resp.len - resp.sent) :
            /\ resp' = [resp EXCEPT !.sent = @ + n]
            /\ IF resp.sent + n = resp.len THEN Responded(FALSE)
                                           ELSE UNCHANGED <<pc, answers>>
      BY <1>8 DEF SendResponse
    <2>2. UNCHANGED <<clientVars, rx, url, closed, dead>> /\ pc = "send" /\ ~dead
      BY <1>8 DEF SendResponse
    <2>3. CASE resp.sent + n = resp.len
      BY <2>1, <2>2, <2>3 DEF Answered
    <2>4. CASE resp.sent + n # resp.len
      BY <2>1, <2>2, <2>4 DEF Quiet, Live, clientVars
    <2>. QED BY <2>3, <2>4
  <1>9. ASSUME SendEagain PROVE Answered
    BY <1>9 DEF SendEagain, Answered, localVars
  <1>10. ASSUME SendFails PROVE Quiet
    BY <1>10 DEF SendFails, Cleanup, Killed, Quiet, Live, localVars, clientVars
  <1>11. ASSUME SendfileEnds \/ SendfileFails PROVE Quiet
    BY <1>11 DEF SendfileEnds, SendfileFails, Killed, Quiet, Live, localVars, clientVars
  <1>12. ~PeekOldBytes /\ ~DiscardTorn
    BY DEF PeekOldBytes, DiscardTorn
  <1>. QED
    BY <1>1, <1>2, <1>3, <1>4, <1>5, <1>6, <1>7, <1>8, <1>9, <1>10, <1>11, <1>12
    DEF Next, ClientStep, WorkerStep

(* What a client sends: a piece, or a request that no answer is owed for.   *)
LEMMA SendArrives ==
  ASSUME ClientInv, Send
  PROVE  /\ script' = script /\ manner' = manner
         /\ unsent[1].part = "head" => MayStart(unsent[1].req)
         /\ \E n \in 1..Len(unsent) :
              /\ Arrive(n)
              /\ "whole" \notin manner => n = 1
              /\ "whole" \in manner =>
                   /\ unsent[1].part = "head" /\ unsent[2].part = "end"
                   /\ \A k \in 1..n : unsent[k].req = unsent[1].req
                   /\ n = 3 <=> script[unsent[1].req].body
                   /\ n \in {2, 3}
                   /\ n < Len(unsent) => unsent[n + 1].part = "head"
  <1>1. /\ unsent \in Seq(Pieces) /\ script \in Scripts /\ unsent # <<>>
        /\ "whole" \in manner => unsent[1].part = "head"
    BY DEF ClientInv, TypeOK, Pieces, Parts, Send
  <1>2. Orderly(unsent)
    BY DEF ClientInv
  <1>3. Head(unsent) = unsent[1] /\ unsent[1] \in Pieces /\ 1 \in 1..Len(unsent)
    BY <1>1
  <1>4. /\ script' = script /\ manner' = manner
        /\ unsent[1].part = "head" => MayStart(unsent[1].req)
    BY <1>3 DEF Send
  <1>5. CASE "whole" \notin manner
    <2>1. Arrive(1)
      BY <1>5 DEF Send
    <2>. QED BY <1>2, <1>3, <1>4, <1>5, <2>1
  <1>6. CASE "whole" \in manner
    <2> DEFINE i == unsent[1].req
               n == Len(PiecesOf(script[i], i))
    <2>1. i \in 1..Len(script)
      BY <1>3, PieceTypes
    <2>2. Arrive(n)
      BY <1>3, <1>6 DEF Send
    <2>3. (script[i].body => n = 3) /\ (~script[i].body => n = 2)
      BY <1>1, <2>1, PiecesOfRequest
    <2>. HIDE DEF n
    <2>4. n \in {2, 3} /\ (n = 3 <=> script[i].body)
      BY <2>3
    <2>5. /\ n \in 2..Len(unsent)
          /\ \A k \in 1..n : unsent[k].req = i
          /\ unsent[2].part = "end"
          /\ n < Len(unsent) => unsent[n + 1].part = "head"
      BY <1>1, <1>2, <1>6, <2>4, WholeRequest
    <2>6. n \in 1..Len(unsent)
      BY <1>1, <2>5
    <2>7. /\ unsent[1].part = "head" /\ unsent[2].part = "end"
          /\ \A k \in 1..n : unsent[k].req = unsent[1].req
          /\ n = 3 <=> script[unsent[1].req].body
          /\ n \in {2, 3}
          /\ n < Len(unsent) => unsent[n + 1].part = "head"
      BY <1>1, <1>6, <2>4, <2>5
    <2>. HIDE DEF i
    <2>. QED BY <1>2, <1>4, <1>6, <2>2, <2>6, <2>7, Zenon
  <1>. QED BY <1>5, <1>6

(* No step tears the pieces still to be sent apart, and none mends a torn   *)
(* stream.                                                                  *)
LEMMA ClientStays ==
  ASSUME ClientInv, Next
  PROVE  /\ script' = script /\ manner' = manner /\ (torn => torn')
         /\ rx' \in Seq(Pieces) /\ unsent' \in Seq(Pieces) /\ Orderly(unsent')
         /\ "whole" \in manner /\ unsent' # <<>> => unsent'[1].part = "head"
  <1>. USE DEF Running
  <1>1. /\ rx \in Seq(Pieces) /\ unsent \in Seq(Pieces) /\ Orderly(unsent)
        /\ "whole" \in manner /\ unsent # <<>> => unsent[1].part = "head"
        /\ size \in Nat
    BY DEF ClientInv, TypeOK, Pieces, Parts
  <1>2. CASE Send
    <2>1. PICK n \in 1..Len(unsent) :
            /\ Arrive(n) /\ script' = script /\ manner' = manner
            /\ "whole" \in manner /\ n < Len(unsent) => unsent[n + 1].part = "head"
      BY <1>2, SendArrives
    <2>2. n \in 0..Len(unsent)
      BY <1>1
    <2>3. /\ rx' \in Seq(Pieces) /\ unsent' \in Seq(Pieces)
          /\ Len(unsent') = Len(unsent) - n
          /\ \A k \in 1..Len(unsent') : unsent'[k] = unsent[n + k]
      BY <1>1, <2>1, <2>2, Arrival
    <2>4. Orderly(unsent')
      <3>1. unsent' = SubSeq(unsent, n + 1, Len(unsent))
        BY <2>1 DEF Arrive
      <3>. QED BY <1>1, <2>2, <3>1, Suffix
    <2>5. "whole" \in manner /\ unsent' # <<>> => unsent'[1].part = "head"
      <3> SUFFICES ASSUME "whole" \in manner, unsent' # <<>> PROVE unsent'[1].part = "head"
        OBVIOUS
      <3>1. Len(unsent') >= 1
        BY <2>3
      <3>2. unsent'[1] = unsent[n + 1] /\ n < Len(unsent)
        BY <1>1, <2>3, <3>1
      <3>. QED BY <2>1, <3>2
    <2>6. torn' = torn
      BY <1>2 DEF Send
    <2>. QED BY <2>1, <2>3, <2>4, <2>5, <2>6
  <1>3. CASE ~Send
    <2> DEFINE
         Cut == \E n \in Nat : rx' = SubSeq(rx, n + 1, Len(rx))
         Moved == /\ script' = script /\ manner' = manner /\ (torn => torn') /\ unsent' = unsent
                  /\ rx' = rx \/ rx' = <<>> \/ Cut
    <2>4. ASSUME Discard \/ ParseOverruns PROVE Moved
      BY <1>1, <2>4 DEF Discard, ParseOverruns, Reject, Cleanup, Killed, clientVars
    <2>5. ASSUME DiscardTorn PROVE Moved
      <3>1. PICK n \in {size - 1, size} \cap 0..Len(rx) : rx' = SubSeq(rx, n + 1, Len(rx))
        BY <2>5 DEF DiscardTorn
      <3>2. Cut
        BY <1>1, <3>1
      <3>3. UNCHANGED clientVars
        BY <2>5 DEF DiscardTorn, Reject, Cleanup, Killed
      <3>. QED BY <3>2, <3>3 DEF clientVars
    <2>. HIDE DEF Cut
    <2>6. ASSUME \/ HangUp("fin") \/ HangUp("rst") \/ Start \/ HangUpCloses \/ PeekEnds
                 \/ PeekEagain \/ PeekHead \/ PeekOldBytes \/ DiscardFails
          PROVE  Moved
      BY <2>6
      DEF HangUp, Start, HangUpCloses, PeekEnds, PeekEagain, PeekHead, PeekOldBytes,
          DiscardFails, Cleanup, clientVars
    <2>7. ASSUME PeekPartial PROVE Moved
      BY <2>7 DEF PeekPartial, Reject, Cleanup, clientVars
    <2>8. ASSUME SendEagain \/ SendfileEnds PROVE Moved
      <3>1. rx' = rx /\ UNCHANGED clientVars
        BY <2>8 DEF SendEagain, SendfileEnds
      <3>. QED BY <3>1 DEF clientVars
    <2>11. ASSUME SendFails \/ SendfileFails PROVE Moved
      <3>1. rx' = rx /\ UNCHANGED clientVars
        BY <2>11 DEF SendFails, SendfileFails, Cleanup, Killed
      <3>. QED BY <3>1 DEF clientVars
    <2>9. ASSUME Build PROVE Moved
      BY <2>9 DEF Build, clientVars
    <2>10. ASSUME SendResponse PROVE Moved
      BY <2>10 DEF SendResponse, clientVars
    <2>1. Moved
      BY <1>3, <2>4, <2>5, <2>6, <2>7, <2>8, <2>9, <2>10, <2>11
      DEF Next, ClientStep, WorkerStep
    <2>2. rx' \in Seq(Pieces)
      <3>1. \A n \in Nat : SubSeq(rx, n + 1, Len(rx)) \in Seq(Pieces)
        <4>1. \A n \in Nat : \A k \in (n + 1)..Len(rx) : k \in 1..Len(rx)
          BY <1>1
        <4>2. \A k \in 1..Len(rx) : rx[k] \in Pieces
          BY <1>1
        <4>. QED BY <1>1, <4>1, <4>2, SubSeqProperties
      <3>2. Cut => rx' \in Seq(Pieces)
        BY <3>1 DEF Cut
      <3>3. <<>> \in Seq(Pieces)
        OBVIOUS
      <3>. QED BY <1>1, <2>1, <3>2, <3>3
    <2>3. Orderly(unsent')
      BY <1>1, <2>1 DEF Orderly
    <2>. QED BY <1>1, <2>1, <2>2, <2>3
  <1>. QED BY <1>2, <1>3

(* Of the byte stream a step takes a prefix, or nothing; the buffer grows   *)
(* only by what the client sends.                                           *)
LEMMA StreamStep ==
  ASSUME StreamInv, PeekInv, Next, ~torn, ~torn'
  PROVE  /\ script' = script /\ manner' = manner
         /\ rx' \in Seq(Pieces) /\ unsent' \in Seq(Pieces) /\ Orderly(Stream')
         /\ \E m \in 0..Len(Stream) : Stream' = SubSeq(Stream, m + 1, Len(Stream))
  <1>1. /\ rx \in Seq(Pieces) /\ unsent \in Seq(Pieces) /\ Orderly(Stream)
        /\ script \in Scripts
    BY DEF StreamInv, ClientInv, TypeOK, Pieces, Parts
  <1>2. /\ Stream \in Seq(Pieces) /\ Len(Stream) = Len(rx) + Len(unsent)
        /\ \A k \in 1..Len(rx) : Stream[k] = rx[k]
        /\ \A k \in 1..Len(unsent) : Stream[Len(rx) + k] = unsent[k]
        /\ \A m \in 0..Len(rx) :
             SubSeq(rx, m + 1, Len(rx)) \o unsent = SubSeq(Stream, m + 1, Len(Stream))
        /\ unsent = SubSeq(Stream, Len(rx) + 1, Len(Stream))
    BY <1>1, Positions
  <1>3. Len(rx) \in 0..Len(Stream) /\ Len(rx) \in Nat /\ Len(unsent) \in Nat
    BY <1>1, <1>2
  <1>4. /\ script' = script /\ manner' = manner
        /\ rx' \in Seq(Pieces) /\ unsent' \in Seq(Pieces)
    BY ClientStays DEF StreamInv
  <1> SUFFICES \E m \in 0..Len(Stream) : Stream' = SubSeq(Stream, m + 1, Len(Stream))
    <2>1. \A m \in 0..Len(Stream) : \A t : t = SubSeq(Stream, m + 1, Len(Stream)) => Orderly(t)
      BY <1>1, <1>2, Suffix
    <2>. QED BY <1>4, <2>1
  <1>5. CASE Stream' = Stream
    <2>1. 0 \in 0..Len(Stream) /\ Stream = SubSeq(Stream, 0 + 1, Len(Stream))
      BY <1>2
    <2>. QED BY <1>5, <2>1
  <1>6. CASE Send
    <2>1. PICK n \in 1..Len(unsent) : Arrive(n) /\ script' = script
      BY <1>6, SendArrives DEF StreamInv
    <2>2. n \in 0..Len(unsent)
      BY <1>3
    <2>3. Stream' = Stream
      BY <1>1, <2>1, <2>2, Arrival
    <2>. QED BY <1>5, <2>3
  <1>7. CASE HangUpCloses
    <2>1. rx' = <<>> /\ unsent' = unsent
      BY <1>7 DEF HangUpCloses, clientVars
    <2>2. Stream' = SubSeq(Stream, Len(rx) + 1, Len(Stream))
      <3>1. Stream' = <<>> \o unsent
        BY <2>1 DEF Stream
      <3>2. <<>> \o unsent = unsent
        BY <1>1
      <3>. QED BY <1>2, <3>1, <3>2
    <2>. QED BY <1>3, <2>2
  <1>8. CASE Taken \/ ParseOverruns \/ (Refused /\ Running("discard"))
    <2>1. /\ rx' = SubSeq(rx, size + 1, Len(rx)) /\ unsent' = unsent /\ Running("discard")
      BY <1>8 DEF Taken, Discard, ParseOverruns, Killed, Refused, Reject, Cleanup, clientVars,
                  Running
    <2>2. size \in 0..Len(rx)
      BY <2>1 DEF PeekInv, HeadEnds
    <2>3. SubSeq(rx, size + 1, Len(rx)) \o unsent = SubSeq(Stream, size + 1, Len(Stream))
      BY <1>2, <2>2
    <2>4. Stream' = SubSeq(rx, size + 1, Len(rx)) \o unsent
      BY <2>1 DEF Stream
    <2>5. size \in 0..Len(Stream)
      BY <1>2, <1>3, <2>2
    <2>. QED BY <2>3, <2>4, <2>5, Zenon
  <1>9. CASE Start \/ Answered \/ Quiet \/ (Refused /\ ~Running("discard"))
    <2>1. rx' = rx /\ unsent' = unsent
      BY <1>9 DEF Start, Answered, Quiet, Refused, Reject, Cleanup, clientVars
    <2>. QED BY <1>5, <2>1 DEF Stream
  <1>. QED BY <1>6, <1>7, <1>8, <1>9, KindsOfStep

-----------------------------------------------------------------------------
(* Each part of the invariant is kept.                                      *)

Answers == [status : {200, 400, 403, 404}, url : Seq(1..Len(script)), cut : BOOLEAN]

(* An answer is added at the end.                                           *)
LEMMA AnswerAdded ==
  ASSUME TypeOK, ~torn, NEW status \in {200, 400, 403, 404}, NEW cut \in BOOLEAN,
         Answer(status, cut)
  PROVE  /\ answers' \in Seq(Answers)
         /\ Len(answers') = Len(answers) + 1 /\ Len(answers) \in Nat
         /\ \A k \in 1..Len(answers) : answers'[k] = answers[k]
         /\ answers'[Len(answers) + 1].status = status
         /\ answers'[Len(answers) + 1].url = url
  <1> DEFINE a == [status |-> status, url |-> url, cut |-> cut]
  <1>1. a \in Answers /\ a.status = status /\ a.url = url
    BY DEF TypeOK, Answers
  <1>2. answers' = Append(answers, a) /\ answers \in Seq(Answers)
    BY DEF Answer, TypeOK, Answers
  <1>. HIDE DEF a, Answers
  <1>. QED BY <1>1, <1>2

(* A response is 200, 403 or 404.                                           *)
LEMMA StatusTypes == \A t \in Targets : StatusOf(t) \in {200, 403, 404}
  BY DEF Targets, StatusOf

(* A response is as long as it was built, whatever was in the buffer.       *)
LEMMA BuiltTypes ==
  ASSUME NEW t \in Targets, NEW b \in LeftBehind
  PROVE  LengthOf(t) \in Nat /\ Strlen(Written(b.bytes, LengthOf(t))) = LengthOf(t)
  <1>1. LengthOf(t) \in Nat
    BY DEF LengthOf
  <1>. QED BY <1>1, LeftBehindFinite, BuiltLength

(* The file that is opened is one a request of the run may have meant.      *)
LEMMA UrlTargets ==
  ASSUME TypeOK
  PROVE  TargetsOfUrl \subseteq Targets
  <1>1. CASE Len(url) = 1
    <2>1. script \in Seq(Request) /\ url \in Seq(1..Len(script))
      BY ScriptsAssumption DEF TypeOK
    <2>4. url[1] \in 1..Len(script)
      BY <1>1, <2>1
    <2>2. script[url[1]] \in Request
      BY <2>1, <2>4
    <2>3. script[url[1]].target \in Targets
      BY <2>2 DEF Request
    <2>. QED BY <1>1, <2>3 DEF TargetsOfUrl
  <1>2. CASE Len(url) # 1
    BY <1>2 DEF TargetsOfUrl
  <1>. QED BY <1>1, <1>2

(* Every step keeps the types.                                              *)
LEMMA TypesKept ==
  ASSUME ClientInv, ~torn => PeekInv, Next
  PROVE  TypeOK'
  <1> DEFINE Sizes(l, t) == 0..(IF t THEN l + 1 ELSE l)
             Rest ==
        /\ peer \in {"up", "fin", "rst"}
        /\ pc \in {"idle", "peek", "discard", "respond", "send", "sendfile"}
        /\ tries \in 0..(MaxTries - 1)
        /\ length \in Nat /\ size \in Sizes(length, torn)
        /\ url \in Seq(1..Len(script))
        /\ resp \in [target : Targets, len : Nat, sent : Nat] /\ resp.sent <= resp.len
        /\ answers \in Seq(Answers)
        /\ torn \in BOOLEAN /\ edge \in BOOLEAN /\ closed \in BOOLEAN /\ dead \in BOOLEAN
  <1>1. /\ script' = script /\ manner' = manner
        /\ rx' \in Seq(Pieces) /\ unsent' \in Seq(Pieces)
    BY ClientStays
  <1>2. TypeOK /\ rx \in Seq(Pieces) /\ Len(rx) \in Nat
    BY DEF StreamInv, ClientInv, TypeOK, Pieces, Parts
  <1>3. Rest /\ script \in Scripts /\ manner \in Manners
    BY <1>2 DEF TypeOK, Answers
  <1>4. Rest' => TypeOK'
    <2>1. rx' \in Seq([req : 1..Len(script'), part : {"head", "end", "body"}])
          /\ unsent' \in Seq([req : 1..Len(script'), part : {"head", "end", "body"}])
      BY <1>1 DEF Pieces, Parts
    <2>2. script' \in Scripts /\ manner' \in Manners
      BY <1>1, <1>3
    <2> HAVE Rest'
    <2>3. answers' \in Seq([status : {200, 400, 403, 404}, url : Seq(1..Len(script')),
                            cut : BOOLEAN])
      BY Zenon DEF Answers
    <2>4. /\ {unsent', rx'} \subseteq Seq([req : 1..Len(script'), part : {"head", "end", "body"}])
          /\ {torn', edge', closed', dead'} \subseteq BOOLEAN
      BY <2>1
    <2>5. /\ peer' \in {"up", "fin", "rst"}
          /\ pc' \in {"idle", "peek", "discard", "respond", "send", "sendfile"}
          /\ tries' \in 0..(MaxTries - 1)
          /\ length' \in Nat /\ size' \in 0..(IF torn' THEN length' + 1 ELSE length')
          /\ url' \in Seq(1..Len(script'))
          /\ resp' \in [target : Targets, len : Nat, sent : Nat] /\ resp'.sent <= resp'.len
      OBVIOUS
    <2>. QED BY <2>2, <2>3, <2>4, <2>5, Zenon DEF TypeOK
  <1> SUFFICES Rest'
    BY <1>4
  <1>5. Answers' = Answers
    BY <1>1 DEF Answers
  <1>. HIDE DEF Answers
  <1>6. HeadEnds(rx) # {} => FindHeadEnd(rx) \in 1..Len(rx)
    <2>1. HeadEnds(rx) # {} => FindHeadEnd(rx) \in HeadEnds(rx)
      BY HeadEndLeast
    <2>. QED BY <2>1 DEF HeadEnds
  <1>7. ASSUME NEW status \in {200, 400, 403, 404}, NEW cut \in BOOLEAN, Answer(status, cut)
        PROVE  answers' \in Seq(Answers')
    <2>1. CASE torn
      BY <1>3, <1>5, <1>7, <2>1 DEF Answer
    <2>2. CASE ~torn
      BY <1>2, <1>7, <1>5, <2>2, AnswerAdded
    <2>. QED BY <2>1, <2>2
  <1>8. /\ answers' = answers => answers' \in Seq(Answers')
        /\ url' = url => url' \in Seq(1..Len(script'))
        /\ tries' = tries => tries' \in 0..(MaxTries - 1)
        /\ length' = length /\ size' = size /\ torn' = torn =>
             length' \in Nat /\ size' \in Sizes(length', torn') /\ torn' \in BOOLEAN
        /\ resp' = resp => /\ resp' \in [target : Targets, len : Nat, sent : Nat]
                           /\ resp'.sent <= resp'.len
        /\ peer \in {"up", "fin", "rst"}
        /\ pc \in {"idle", "peek", "discard", "respond", "send", "sendfile"}
        /\ edge \in BOOLEAN /\ closed \in BOOLEAN /\ dead \in BOOLEAN
    <2>1. answers' = answers => answers' \in Seq(Answers')
      BY <1>3, <1>5
    <2>2. url' = url => url' \in Seq(1..Len(script'))
      BY <1>1, <1>3
    <2>3. /\ tries' = tries => tries' \in 0..(MaxTries - 1)
          /\ length' = length /\ size' = size /\ torn' = torn =>
               length' \in Nat /\ size' \in Sizes(length', torn') /\ torn' \in BOOLEAN
      BY <1>3
    <2>4. resp' = resp => /\ resp' \in [target : Targets, len : Nat, sent : Nat]
                          /\ resp'.sent <= resp'.len
      BY <1>3
    <2>5. /\ peer \in {"up", "fin", "rst"}
          /\ pc \in {"idle", "peek", "discard", "respond", "send", "sendfile"}
          /\ edge \in BOOLEAN /\ closed \in BOOLEAN /\ dead \in BOOLEAN
      BY <1>3
    <2>. QED BY <2>1, <2>2, <2>3, <2>4, <2>5
  <1>9. Reject => answers' \in Seq(Answers')
    <2>1. Reject => Answer(400, FALSE)
      BY DEF Reject
    <2>2. Answer(400, FALSE) => answers' \in Seq(Answers')
      <3>1. 400 \in {200, 400, 403, 404} /\ FALSE \in BOOLEAN
        OBVIOUS
      <3>. QED BY <1>7, <3>1, Zenon
    <2>. QED BY <2>1, <2>2
  <1>10. CASE Send \/ HangUp("fin") \/ HangUp("rst")
    <2>1. /\ answers' = answers /\ url' = url /\ tries' = tries
          /\ length' = length /\ size' = size /\ resp' = resp
          /\ pc' = pc /\ closed' = closed /\ dead' = dead /\ torn' = torn
      BY <1>10 DEF Send, HangUp, Arrive, localVars
    <2>2. peer' \in {"up", "fin", "rst"} /\ edge' \in BOOLEAN
      BY <1>8, <1>10 DEF Send, HangUp, Arrive
    <2>. QED BY <1>8, <2>1, <2>2
  <1>11. CASE Start
    <2>1. /\ tries' \in 0..(MaxTries - 1) /\ length' \in Nat /\ size' \in Sizes(length', torn')
          /\ url' \in Seq(1..Len(script')) /\ torn' \in BOOLEAN
      BY <1>3, <1>11 DEF Start, MaxTries, clientVars
    <2>. QED BY <1>8, <1>11, <2>1 DEF Start, clientVars
  <1>12. CASE HangUpCloses
    BY <1>8, <1>12 DEF HangUpCloses, clientVars, localVars
  <1>13. CASE PeekEnds \/ PeekEagain \/ DiscardFails
    BY <1>8, <1>13
    DEF PeekEnds, PeekEagain, DiscardFails, Cleanup, clientVars, localVars
  <1>14. CASE PeekHead
    <2>1. length' \in Nat /\ size' \in Sizes(length', torn') /\ torn' \in BOOLEAN
      BY <1>2, <1>3, <1>6, <1>14 DEF PeekHead, RequestSize, clientVars
    <2>. QED BY <1>2, <1>8, <1>14, <2>1 DEF PeekHead, clientVars
  <1>15. CASE PeekPartial
    <2>1. CASE OutOfTries
      BY <1>8, <1>15, <1>9, <2>1 DEF PeekOldBytes, PeekPartial, Reject, Cleanup, clientVars, localVars
    <2>2. CASE ~OutOfTries
      <3>1. tries' \in 0..(MaxTries - 1)
        BY <1>3, <1>15, <2>2 DEF PeekPartial, OutOfTries, MaxTries
      <3>2. length' \in Nat /\ size' \in Sizes(length', torn') /\ torn' \in BOOLEAN
        BY <1>2, <1>3, <1>15, <2>2 DEF PeekPartial, clientVars
      <3>. QED BY <1>8, <1>15, <2>2, <3>1, <3>2 DEF PeekPartial, clientVars
    <2>. QED BY <2>1, <2>2
  <1>16. CASE Discard
    <2>1. CASE ParseOk(rx)
      <3>1. rx # <<>>
        BY <1>2, <1>16 DEF Discard, Running, PeekInv, HeadEnds
      <3>2. rx[1] \in Pieces
        BY <1>2, <3>1
      <3>3. rx[1].req \in 1..Len(script)
        BY <3>2, PieceTypes
      <3>4. <<rx[1].req>> \o url \in Seq(1..Len(script))
        BY <1>3, <3>3
      <3>5. url' \in Seq(1..Len(script'))
        BY <1>1, <1>16, <2>1, <3>4 DEF Discard
      <3>. QED BY <1>8, <1>16, <2>1, <3>5 DEF Discard, clientVars
    <2>2. CASE ~ParseOk(rx)
      BY <1>8, <1>16, <1>9, <2>2 DEF Discard, Reject, Cleanup, clientVars, localVars
    <2>. QED BY <2>1, <2>2
  <1>17. CASE ParseOverruns \/ SendfileFails
    BY <1>8, <1>17 DEF ParseOverruns, SendfileFails, Killed, clientVars, localVars
  <1>18. CASE Build
    <2>1. PICK t \in TargetsOfUrl, b \in LeftBehind :
            resp' = [target |-> t, len |-> Strlen(Written(b.bytes, LengthOf(t))), sent |-> 0]
      BY <1>18 DEF Build
    <2>2. t \in Targets
      BY <1>2, UrlTargets
    <2>3. LengthOf(t) \in Nat /\ resp' = [target |-> t, len |-> LengthOf(t), sent |-> 0]
      BY <2>1, <2>2, BuiltTypes
    <2>4. resp' \in [target : Targets, len : Nat, sent : Nat] /\ resp'.sent <= resp'.len
      BY <2>2, <2>3
    <2>. QED BY <1>8, <1>18, <2>4 DEF Build, clientVars
  <1>19. ASSUME NEW cut \in BOOLEAN, Responded(cut)
         PROVE  /\ answers' \in Seq(Answers')
                /\ pc' \in {"idle", "peek", "discard", "respond", "send", "sendfile"}
    <2>1. StatusOf(resp.target) \in {200, 400, 403, 404}
      BY <1>3, StatusTypes
    <2>. QED BY <1>7, <1>19, <2>1 DEF Responded
  <1>20. CASE SendResponse
    <2>1. PICK n \in 1..(resp.len - resp.sent) :
            /\ resp' = [resp EXCEPT !.sent = @ + n]
            /\ IF resp.sent + n = resp.len THEN Responded(FALSE)
                                           ELSE UNCHANGED <<pc, answers>>
      BY <1>20 DEF SendResponse
    <2>2. resp' \in [target : Targets, len : Nat, sent : Nat] /\ resp'.sent <= resp'.len
      <3>1. /\ resp \in [target : Targets, len : Nat, sent : Nat] /\ resp.len \in Nat
            /\ resp.sent \in Nat /\ resp.sent <= resp.len
        BY <1>3
      <3>2. resp.sent + n \in Nat /\ resp.sent + n <= resp.len
        BY <3>1
      <3>3. resp' = [resp EXCEPT !.sent = resp.sent + n]
        BY <2>1
      <3>4. resp' \in [target : Targets, len : Nat, sent : Nat]
        BY <3>1, <3>2, <3>3
      <3>5. resp'.sent = resp.sent + n /\ resp'.len = resp.len
        BY <3>1, <3>3
      <3>. QED BY <3>2, <3>4, <3>5
    <2>3. /\ answers' \in Seq(Answers')
          /\ pc' \in {"idle", "peek", "discard", "respond", "send", "sendfile"}
      BY <1>8, <1>19, <2>1
    <2>. QED BY <1>8, <1>20, <2>2, <2>3 DEF SendResponse, clientVars
  <1>21. CASE SendEagain
    BY <1>8, <1>19, <1>21 DEF SendEagain, clientVars, localVars
  <1>22. CASE SendFails
    BY <1>8, <1>22 DEF SendFails, Cleanup, Killed, clientVars, localVars
  <1>23. CASE SendfileEnds
    BY <1>8, <1>23 DEF SendfileEnds, clientVars, localVars
  <1>24. CASE PeekOldBytes
    <2>1. length' \in Nat /\ torn' \in BOOLEAN /\ size' \in Sizes(length', torn')
      BY <1>2, <1>24 DEF PeekOldBytes
    <2>. QED BY <1>8, <1>24, <2>1 DEF PeekOldBytes
  <1>25. CASE DiscardTorn
    BY <1>8, <1>9, <1>25 DEF DiscardTorn, Reject, Cleanup, Killed, clientVars, localVars
  <1>. HIDE DEF Rest
  <1>. QED
    BY <1>10, <1>11, <1>12, <1>13, <1>14, <1>15, <1>16, <1>17, <1>18, <1>20, <1>21, <1>22, <1>23,
       <1>24, <1>25
    DEF Next, ClientStep, WorkerStep

(* A client's pieces come in behind what is in the buffer.                  *)
LEMMA SendGrows ==
  ASSUME ClientInv, Send
  PROVE  /\ Len(rx') >= Len(rx) /\ Len(rx) \in Nat /\ Len(rx') \in Nat
         /\ \A k \in 1..Len(rx) : rx'[k] = rx[k]
  <1>1. rx \in Seq(Pieces) /\ unsent \in Seq(Pieces)
    BY DEF StreamInv, ClientInv, TypeOK, Pieces, Parts
  <1>2. PICK n \in 1..Len(unsent) : Arrive(n) /\ script' = script
    BY SendArrives
  <1>3. n \in 0..Len(unsent)
    OBVIOUS
  <1>. QED BY <1>1, <1>2, <1>3, Arrival

(* Every step keeps what the worker knows of the socket: between its peek   *)
(* and its recv only more arrives.                                          *)
LEMMA PeekKept ==
  ASSUME StreamInv, PeekInv, Next, ~torn, ~torn'
  PROVE  PeekInv'
  <1>. USE DEF Running
  <1>1. TypeOK /\ TypeOK' /\ rx \in Seq(Pieces) /\ Len(rx) \in Nat
    BY TypesKept DEF StreamInv, ClientInv, TypeOK, Pieces, Parts
  <1>2. Running("discard")' =>
          /\ length' <= Len(rx')
          /\ size' \in HeadEnds(rx') /\ \A k \in HeadEnds(rx') : size' <= k
    <2> SUFFICES ASSUME pc' = "discard", ~dead'
                 PROVE  /\ length' <= Len(rx')
                        /\ size' \in HeadEnds(rx') /\ \A k \in HeadEnds(rx') : size' <= k
      OBVIOUS
    <2>1. CASE PeekHead
      <3>1. size' \in HeadEnds(rx) /\ \A k \in HeadEnds(rx) : size' <= k
        BY <2>1, HeadEndLeast DEF PeekHead, RequestSize
      <3>. QED BY <1>1, <2>1, <3>1 DEF PeekHead
    <2>2. CASE ~PeekHead
      <3>1. pc = "discard" /\ ~dead /\ length' = length /\ size' = size /\ (rx' = rx \/ Send)
        BY <2>2
        DEF Next, ClientStep, WorkerStep, Send, HangUp, Start, HangUpCloses, PeekEnds, PeekEagain,
            PeekOldBytes, PeekPartial, Reject, Discard, DiscardTorn, DiscardFails, ParseOverruns, Build, SendResponse,
            SendEagain, Responded, SendFails, SendfileEnds, SendfileFails, Cleanup, Killed,
            clientVars, localVars
      <3>2. /\ length <= Len(rx)
            /\ size \in HeadEnds(rx) /\ \A k \in HeadEnds(rx) : size <= k
        BY <3>1 DEF PeekInv
      <3>3. CASE rx' = rx
        BY <3>1, <3>2, <3>3
      <3>4. CASE Send
        <4>1. /\ Len(rx') >= Len(rx) /\ Len(rx') \in Nat
              /\ \A k \in 1..Len(rx) : rx'[k] = rx[k]
          BY <3>4, SendGrows DEF StreamInv
        <4>2. length \in Nat /\ length' <= Len(rx')
          BY <1>1, <3>1, <3>2, <4>1 DEF TypeOK
        <4>3. size \in 1..Len(rx) /\ size \in HeadEnds(rx')
          BY <1>1, <3>2, <4>1 DEF HeadEnds
        <4>4. ASSUME NEW k \in HeadEnds(rx') PROVE size <= k
          <5>1. k \in 1..Len(rx') /\ rx'[k].part = "end"
            BY DEF HeadEnds
          <5>2. CASE k <= Len(rx)
            <6>1. k \in HeadEnds(rx)
              BY <1>1, <4>1, <5>1, <5>2 DEF HeadEnds
            <6>. QED BY <3>2, <6>1
          <5>3. CASE ~(k <= Len(rx))
            BY <1>1, <4>1, <4>3, <5>1, <5>3
          <5>. QED BY <5>2, <5>3
        <4>. QED BY <3>1, <4>2, <4>3, <4>4
      <3>. QED BY <3>1, <3>3, <3>4
    <2>. QED BY <2>1, <2>2
  <1>3. pc' = "peek" /\ length' > 0 => url' # <<>> \/ rx' # <<>>
    <2> SUFFICES ASSUME pc' = "peek", length' > 0, url' = <<>>, rx' = <<>> PROVE FALSE
      OBVIOUS
    <2>1. CASE Taken
      <3>1. url' = <<rx[1].req>> \o url /\ url \in Seq(1..Len(script))
        BY <1>1, <2>1 DEF Taken, Discard, TypeOK
      <3>2. Len(<<rx[1].req>> \o url) = 1 + Len(url) /\ Len(url) \in Nat
        BY <3>1
      <3>3. Len(<<rx[1].req>> \o url) > 0
        BY <3>2
      <3>4. Len(<<>>) = 0
        OBVIOUS
      <3>5. <<rx[1].req>> \o url # <<>>
        BY <3>3, <3>4
      <3>. QED BY <3>1, <3>5, Zenon
    <2>2. CASE Send
      <3>1. Len(rx') >= Len(rx) /\ pc = "peek" /\ length > 0 /\ url = <<>>
        BY <2>2, SendGrows DEF StreamInv, Send, localVars
      <3>2. Len(rx) > 0
        BY <1>1, <3>1 DEF PeekInv
      <3>. QED BY <1>1, <3>1, <3>2
    <2>3. CASE ~Taken /\ ~Send
      BY <2>3
      DEF PeekInv, Next, ClientStep, WorkerStep, HangUp, Start, HangUpCloses, PeekEnds, PeekEagain,
          PeekHead, PeekOldBytes, PeekPartial, Reject, Discard, DiscardTorn, Taken, DiscardFails, ParseOverruns, Build,
          SendResponse, SendEagain, Responded, SendFails, SendfileEnds, SendfileFails, Cleanup,
          Killed, clientVars, localVars
    <2>. QED BY <2>1, <2>2, <2>3
  <1>4. pc' \in {"respond", "send"} => url' # <<>>
    <2> SUFFICES ASSUME pc' \in {"respond", "send"} PROVE url' # <<>>
      OBVIOUS
    <2>1. CASE PeekEagain
      <3>1. rx = <<>> /\ pc = "peek" /\ length # 0 /\ url' = url
        BY <2>1 DEF PeekEagain, Cleanup, localVars
      <3>2. length > 0
        BY <1>1, <3>1 DEF TypeOK
      <3>. QED BY <3>1, <3>2 DEF PeekInv
    <2>2. CASE ~PeekEagain
      <3>1. pc \in {"respond", "send"} /\ url' = url
        BY <2>2
        DEF Next, ClientStep, WorkerStep, Send, HangUp, Start, HangUpCloses, PeekEnds, PeekHead,
            PeekOldBytes, PeekPartial, Reject, Discard, DiscardTorn, DiscardFails, ParseOverruns, Build, SendResponse,
            SendEagain, Responded, SendFails, SendfileEnds, SendfileFails, Cleanup, Killed,
            clientVars, localVars
      <3>. QED BY <3>1 DEF PeekInv
    <2>. QED BY <2>1, <2>2
  <1>5. closed' => pc' = "idle"
    BY DEF PeekInv, Next, ClientStep, WorkerStep, Send, HangUp, Start, HangUpCloses, PeekEnds,
           PeekEagain, PeekHead, PeekOldBytes, PeekPartial, Reject, Discard, DiscardTorn, DiscardFails, ParseOverruns, Build,
           SendResponse, SendEagain, Responded, SendFails, SendfileEnds, SendfileFails, Cleanup,
           Killed, clientVars, localVars
  <1>6. Rejected' => closed'
    <2> SUFFICES ASSUME Rejected' PROVE closed'
      OBVIOUS
    <2>1. CASE Refused
      BY <2>1 DEF Refused, Reject, Cleanup
    <2>2. CASE Answered
      <3>1. PICK cut \in BOOLEAN : Responded(cut)
        BY <2>2 DEF Answered
      <3>2. StatusOf(resp.target) \in {200, 403, 404}
        <4>1. resp.target \in Targets
          BY <1>1 DEF TypeOK
        <4>. QED BY <4>1, StatusTypes
      <3>3. /\ Len(answers') = Len(answers) + 1 /\ Len(answers) \in Nat
            /\ \A k \in 1..Len(answers) : answers'[k] = answers[k]
            /\ answers'[Len(answers) + 1].status = StatusOf(resp.target)
        BY <1>1, <3>1, <3>2, AnswerAdded DEF Responded
      <3>4. ~Rejected
        BY <2>2 DEF Answered, PeekInv
      <3>5. \A k \in 1..Len(answers') : answers'[k].status # 400
        BY <3>2, <3>3, <3>4 DEF Rejected
      <3>. QED BY <3>5 DEF Rejected
    <2>3. CASE answers' = answers
      <3>1. closed
        BY <2>3 DEF Rejected, PeekInv
      <3>. QED
        BY <3>1
        DEF Next, ClientStep, WorkerStep, Send, HangUp, Start, HangUpCloses, PeekEnds,
            PeekEagain, PeekHead, PeekOldBytes, PeekPartial, Reject, Discard, DiscardTorn, DiscardFails, ParseOverruns, Build,
            SendResponse, SendEagain, Responded, SendFails, SendfileEnds, SendfileFails, Cleanup,
            Killed, clientVars, localVars
    <2>. QED
      BY <2>1, <2>2, <2>3, KindsOfStep
      DEF Send, HangUpCloses, Start, Taken, Discard, ParseOverruns, Killed, Quiet
  <1>7. pc' = "send" => resp'.target \in TargetsOfUrl'
    <2> SUFFICES ASSUME pc' = "send" PROVE resp'.target \in TargetsOfUrl'
      OBVIOUS
    <2>1. CASE Build
      <3>1. resp'.target \in TargetsOfUrl
        BY <2>1 DEF Build
      <3>2. url' = url /\ script' = script
        BY <2>1 DEF Build, clientVars
      <3>. QED BY <3>1, <3>2 DEF TargetsOfUrl
    <2>2. CASE ~Build
      <3>1. pc = "send" /\ url' = url /\ script' = script /\ (resp' = resp \/ SendResponse)
        BY <2>2
        DEF Next, ClientStep, WorkerStep, Send, HangUp, Start, HangUpCloses, PeekEnds, PeekEagain,
            PeekHead, PeekOldBytes, PeekPartial, Reject, Discard, DiscardTorn, DiscardFails, ParseOverruns, SendResponse,
            SendEagain, Responded, SendFails, SendfileEnds, SendfileFails, Cleanup, Killed,
            clientVars, localVars
      <3>2. SendResponse => resp'.target = resp.target
        BY <1>1 DEF SendResponse, TypeOK
      <3>3. resp'.target = resp.target
        BY <3>1, <3>2
      <3>. QED BY <3>1, <3>3 DEF PeekInv, TargetsOfUrl
    <2>. QED BY <2>1, <2>2
  <1>. QED BY <1>2, <1>3, <1>4, <1>5, <1>6, <1>7 DEF PeekInv

(* No step leaves unannounced input behind.                                 *)
LEMMA UnreadKept ==
  ASSUME ClientInv, UnreadIsAnnounced, Next
  PROVE  UnreadIsAnnounced'
  BY DEF UnreadIsAnnounced, Next, ClientStep, WorkerStep, Send, Arrive, HangUp, Start,
         HangUpCloses, PeekEnds, PeekEagain, PeekHead, PeekOldBytes, PeekPartial, Reject, Discard, DiscardTorn, DiscardFails,
         ParseOverruns, Build, SendResponse, SendEagain, Responded, SendFails, SendfileEnds,
         SendfileFails, Cleanup, Killed, Running, clientVars, localVars

(* No step takes bytes of another response along.                           *)
LEMMA ResponsesKept ==
  ASSUME ClientInv, ResponsesIntact, Next
  PROVE  ResponsesIntact'
  <1>1. TypeOK
    BY DEF ClientInv
  <1> SUFFICES ASSUME pc' \in {"send", "sendfile"} PROVE resp'.len = LengthOf(resp'.target)
    BY DEF ResponsesIntact
  <1>2. CASE Build
    <2>1. PICK t \in TargetsOfUrl, b \in LeftBehind :
            resp' = [target |-> t, len |-> Strlen(Written(b.bytes, LengthOf(t))), sent |-> 0]
      BY <1>2 DEF Build
    <2>2. t \in Targets
      BY <1>1, UrlTargets
    <2>3. Strlen(Written(b.bytes, LengthOf(t))) = LengthOf(t)
      BY <2>2, BuiltTypes
    <2>. QED BY <2>1, <2>3
  <1>3. CASE ~Build
    <2>1. pc \in {"send", "sendfile"} /\ (resp' = resp \/ SendResponse)
      BY <1>3
      DEF Next, ClientStep, WorkerStep, Send, HangUp, Start, HangUpCloses, PeekEnds, PeekEagain,
          PeekHead, PeekOldBytes, PeekPartial, Reject, Discard, DiscardTorn, DiscardFails, ParseOverruns, SendResponse,
          SendEagain, Responded, SendFails, SendfileEnds, SendfileFails, Cleanup, Killed, Running,
          clientVars, localVars
    <2>2. SendResponse => resp'.target = resp.target /\ resp'.len = resp.len
      BY <1>1 DEF SendResponse, TypeOK
    <2>3. resp'.target = resp.target /\ resp'.len = resp.len
      BY <2>1, <2>2
    <2>. QED BY <2>1, <2>3 DEF ResponsesIntact
  <1>. QED BY <1>2, <1>3

(* The request that Discard takes: its head and its end are at the front of *)
(* the stream, and go.                                                      *)
LEMMA TakenRequest ==
  ASSUME StreamInv, PeekInv, Taken
  PROVE  /\ Len(rx) >= 2 /\ rx[1].req \in 1..Len(script) /\ size = 2
         /\ rx' = SubSeq(rx, 3, Len(rx)) /\ url' = <<rx[1].req>> \o url
         /\ Stream' = SubSeq(Stream, 3, Len(Stream))
         /\ rx[1].req \in EndsUnread
         /\ \A k \in 1..Len(Stream) : k > 2 => Stream[k] # Piece(rx[1].req, "end")
  <1>1. /\ rx \in Seq(Pieces) /\ unsent \in Seq(Pieces) /\ Orderly(Stream)
    BY DEF StreamInv, ClientInv, TypeOK, Pieces, Parts
  <1>2. /\ Stream \in Seq(Pieces) /\ Len(Stream) = Len(rx) + Len(unsent)
        /\ \A k \in 1..Len(rx) : Stream[k] = rx[k]
        /\ \A m \in 0..Len(rx) :
             SubSeq(rx, m + 1, Len(rx)) \o unsent = SubSeq(Stream, m + 1, Len(Stream))
    BY <1>1, Positions
  <1>3. /\ size \in HeadEnds(rx) /\ \A k \in HeadEnds(rx) : size <= k
        /\ rx[1].part = "head" /\ FindHeadEnd(rx) = 2
        /\ rx' = SubSeq(rx, size + 1, Len(rx)) /\ unsent' = unsent
        /\ url' = <<rx[1].req>> \o url
    BY DEF Taken, Discard, PeekInv, ParseOk, clientVars
  <1>4. size = 2 /\ 2 \in HeadEnds(rx)
    <2>1. 2 \in HeadEnds(rx) /\ \A k \in HeadEnds(rx) : 2 <= k
      BY <1>3, HeadEndLeast
    <2>2. size <= 2 /\ 2 <= size /\ size \in Int
      BY <1>3, <2>1 DEF HeadEnds
    <2>. QED BY <2>1, <2>2
  <1>5. Len(rx) \in Nat /\ Len(unsent) \in Nat /\ Len(rx) >= 2 /\ rx[2].part = "end"
    BY <1>1, <1>4 DEF HeadEnds
  <1>6. 1 \in 1..Len(Stream) /\ 2 \in 1..Len(Stream) /\ Stream[1] = rx[1] /\ Stream[2] = rx[2]
    BY <1>2, <1>5
  <1>7. Stream[2] = Piece(rx[1].req, "end")
    <2>1. Stream[1 + 1] = Piece(Stream[1].req, "end")
      BY <1>1, <1>3, <1>6 DEF Orderly
    <2>. QED BY <1>6, <2>1
  <1>8. rx[1].req \in EndsUnread
    <2>1. Stream[2].part = "end" /\ Stream[2].req = rx[1].req
      BY <1>7 DEF Piece
    <2>. QED BY <1>6, <2>1 DEF EndsUnread
  <1>9. \A k \in 1..Len(Stream) : k > 2 => Stream[k] # Piece(rx[1].req, "end")
    BY <1>1, <1>6, <1>7 DEF Orderly
  <1>10. rx[1].req \in 1..Len(script)
    <2>1. rx[1] \in Pieces
      BY <1>1, <1>5
    <2>. QED BY <2>1, PieceTypes
  <1>11. Stream' = SubSeq(Stream, 3, Len(Stream))
    <2>1. 2 \in 0..Len(rx)
      BY <1>5
    <2>2. SubSeq(rx, 2 + 1, Len(rx)) \o unsent = SubSeq(Stream, 2 + 1, Len(Stream))
      BY <1>2, <2>1
    <2>3. Stream' = SubSeq(rx, size + 1, Len(rx)) \o unsent
      BY <1>3 DEF Stream
    <2>4. size + 1 = 3 /\ 2 + 1 = 3
      BY <1>4
    <2>. QED BY <2>2, <2>3, <2>4, Zenon
  <1>. QED BY <1>3, <1>4, <1>5, <1>8, <1>9, <1>10, <1>11

(* An answer is added by Refused and by Answered, and by nothing else.      *)
LEMMA AnswerSteps ==
  ASSUME StreamInv, PeekInv, Next, ~torn, ~torn'
  PROVE  \/ answers' = answers /\ ~Refused /\ ~Answered
         \/ /\ Refused /\ url' = url /\ ~Live'
            /\ Len(answers') = Len(answers) + 1 /\ Len(answers) \in Nat
            /\ \A k \in 1..Len(answers) : answers'[k] = answers[k]
            /\ answers'[Len(answers) + 1].status = 400
         \/ /\ Answered /\ url' = url /\ ~Live' /\ pc = "send"
            /\ Len(answers') = Len(answers) + 1 /\ Len(answers) \in Nat
            /\ \A k \in 1..Len(answers) : answers'[k] = answers[k]
            /\ answers'[Len(answers) + 1].status = StatusOf(resp.target)
            /\ answers'[Len(answers) + 1].status # 400
            /\ answers'[Len(answers) + 1].url = url
  <1>1. TypeOK
    BY DEF StreamInv, ClientInv
  <1>2. ASSUME Refused
        PROVE  /\ url' = url /\ ~Live'
               /\ Len(answers') = Len(answers) + 1 /\ Len(answers) \in Nat
               /\ \A k \in 1..Len(answers) : answers'[k] = answers[k]
               /\ answers'[Len(answers) + 1].status = 400
    <2>1. Answer(400, FALSE) /\ url' = url /\ ~Live'
      BY <1>2 DEF Refused, Reject, Cleanup, Live, localVars
    <2>2. 400 \in {200, 400, 403, 404} /\ FALSE \in BOOLEAN
      OBVIOUS
    <2>3. PICK cut \in BOOLEAN : Answer(400, cut)
      BY <2>1, <2>2
    <2>. QED BY <1>1, <2>1, <2>2, <2>3, AnswerAdded
  <1>3. ASSUME Answered
        PROVE  /\ url' = url /\ ~Live' /\ pc = "send"
               /\ Len(answers') = Len(answers) + 1 /\ Len(answers) \in Nat
               /\ \A k \in 1..Len(answers) : answers'[k] = answers[k]
               /\ answers'[Len(answers) + 1].status = StatusOf(resp.target)
               /\ answers'[Len(answers) + 1].status # 400
               /\ answers'[Len(answers) + 1].url = url
    <2>1. PICK cut \in BOOLEAN : Responded(cut)
      BY <1>3 DEF Answered
    <2>2. StatusOf(resp.target) \in {200, 403, 404}
      <3>1. resp.target \in Targets
        BY <1>1 DEF TypeOK
      <3>. QED BY <3>1, StatusTypes
    <2>3. Answer(StatusOf(resp.target), cut) /\ url' = url /\ ~Live' /\ pc = "send"
      BY <1>3, <2>1 DEF Answered, Responded, Live, Running
    <2>. QED BY <1>1, <2>2, <2>3, AnswerAdded
  <1>4. CASE ~Refused /\ ~Answered
    BY <1>4, KindsOfStep
    DEF Send, HangUpCloses, Start, Taken, Discard, ParseOverruns, Killed, Quiet
  <1>. QED BY <1>2, <1>3, <1>4

(* Heads are read, and none is put back.                                    *)
LEMMA EndsShrink ==
  ASSUME StreamInv, PeekInv, Next, ~torn, ~torn'
  PROVE  EndsUnread' \subseteq EndsUnread
  <1>1. Stream \in Seq(Pieces) /\ Orderly(Stream) /\ Len(Stream) \in Nat
    <2>1. rx \in Seq(Pieces) /\ unsent \in Seq(Pieces) /\ Orderly(Stream)
      BY DEF StreamInv, ClientInv, TypeOK, Pieces, Parts
    <2>. QED BY <2>1, Positions
  <1>2. PICK m \in 0..Len(Stream) : Stream' = SubSeq(Stream, m + 1, Len(Stream))
    BY StreamStep
  <1>3. Len(Stream') = Len(Stream) - m /\ \A k \in 1..Len(Stream') : Stream'[k] = Stream[k + m]
    BY <1>1, <1>2, Suffix
  <1>4. \A k \in 1..Len(Stream') : k + m \in 1..Len(Stream)
    BY <1>1, <1>3
  <1>. QED BY <1>3, <1>4 DEF EndsUnread

(* No step answers a request for the second time.                           *)
LEMMA OnceKept ==
  ASSUME StreamInv, PeekInv, OnceInv, Next, ~torn, ~torn'
  PROVE  OnceInv'
  <1>1. EndsUnread' \subseteq EndsUnread
    BY EndsShrink
  <1>2. /\ ReqsOf(url) \cap EndsUnread = {}
        /\ \A k \in Accepted :
             /\ ReqsOf(answers[k].url) # {}
             /\ ReqsOf(answers[k].url) \cap EndsUnread = {}
             /\ Live => ReqsOf(answers[k].url) \cap ReqsOf(url) = {}
             /\ \A j \in Accepted : j # k =>
                  ReqsOf(answers[k].url) \cap ReqsOf(answers[j].url) = {}
    BY DEF OnceInv
  <1>3. CASE Refused
    <2>1. /\ url' = url /\ ~Live'
          /\ Len(answers') = Len(answers) + 1 /\ Len(answers) \in Nat
          /\ \A k \in 1..Len(answers) : answers'[k] = answers[k]
          /\ answers'[Len(answers) + 1].status = 400
      <3>1. ~(Answered /\ pc = "send")
        BY <1>3 DEF Refused, Running
      <3>. QED BY <1>3, <3>1, AnswerSteps
    <2>2. Accepted' = Accepted /\ \A k \in Accepted : answers'[k] = answers[k]
      BY <2>1 DEF Accepted
    <2>3. ReqsOf(url') = ReqsOf(url)
      BY <2>1
    <2>4. \A k \in Accepted : ReqsOf(answers'[k].url) = ReqsOf(answers[k].url)
      BY <2>2
    <2>5. ASSUME NEW k \in Accepted'
          PROVE  /\ ReqsOf(answers'[k].url) # {}
                 /\ ReqsOf(answers'[k].url) \cap EndsUnread' = {}
                 /\ \A j \in Accepted' : j # k =>
                      ReqsOf(answers'[k].url) \cap ReqsOf(answers'[j].url) = {}
      BY <1>1, <1>2, <2>2, <2>4
    <2>6. ReqsOf(url') \cap EndsUnread' = {}
      BY <1>1, <1>2, <2>3
    <2>. QED BY <2>1, <2>5, <2>6 DEF OnceInv, ReqsOf
  <1>4. CASE Answered
    <2> DEFINE n == Len(answers) + 1
    <2>1. /\ url' = url /\ ~Live' /\ pc = "send"
          /\ Len(answers') = n /\ Len(answers) \in Nat
          /\ \A k \in 1..Len(answers) : answers'[k] = answers[k]
          /\ answers'[n].status # 400 /\ answers'[n].url = url
      <3>1. ~Refused
        BY <1>4 DEF Answered, Refused, Running
      <3>. QED BY <1>4, <3>1, AnswerSteps
    <2>2. Accepted' = Accepted \cup {n} /\ n \notin Accepted
          /\ \A k \in Accepted : answers'[k] = answers[k]
      BY <2>1 DEF Accepted
    <2>3. ReqsOf(url') = ReqsOf(url) /\ ReqsOf(answers'[n].url) = ReqsOf(url)
          /\ \A k \in Accepted : ReqsOf(answers'[k].url) = ReqsOf(answers[k].url)
      BY <2>1, <2>2
    <2>4. ReqsOf(url) # {} /\ Live
      <3>1. url # <<>> /\ url \in Seq(1..Len(script))
        BY <2>1 DEF PeekInv, StreamInv, ClientInv, TypeOK
      <3>2. 1 \in 1..Len(url)
        BY <3>1
      <3>. QED BY <2>1, <3>2 DEF ReqsOf, Live
    <2>. HIDE DEF n
    <2>5. ASSUME NEW k \in Accepted'
          PROVE  /\ ReqsOf(answers'[k].url) # {}
                 /\ ReqsOf(answers'[k].url) \cap EndsUnread' = {}
                 /\ \A j \in Accepted' : j # k =>
                      ReqsOf(answers'[k].url) \cap ReqsOf(answers'[j].url) = {}
      BY <1>1, <1>2, <2>2, <2>3, <2>4
    <2>6. ReqsOf(url') \cap EndsUnread' = {}
      BY <1>1, <1>2, <2>3
    <2>. QED BY <2>1, <2>5, <2>6 DEF OnceInv, ReqsOf
  <1>5. CASE Taken
    <2>1. answers' = answers
      BY <1>5 DEF Taken, Discard
    <2>2. /\ url' = <<rx[1].req>> \o url /\ rx[1].req \in EndsUnread
          /\ Len(rx) >= 2 /\ Stream' = SubSeq(Stream, 3, Len(Stream))
          /\ \A k \in 1..Len(Stream) : k > 2 => Stream[k] # Piece(rx[1].req, "end")
          /\ rx[1].req \in 1..Len(script)
      BY <1>5, TakenRequest
    <2>3. ReqsOf(url') = ReqsOf(url) \cup {rx[1].req}
      <3> DEFINE i == rx[1].req
      <3>1. url \in Seq(1..Len(script)) /\ Len(url) \in Nat
        BY DEF StreamInv, ClientInv, TypeOK
      <3>2. /\ Len(<<i>> \o url) = Len(url) + 1 /\ (<<i>> \o url)[1] = i
            /\ \A k \in 1..Len(url) : (<<i>> \o url)[k + 1] = url[k]
        BY <2>2, <3>1
      <3>. HIDE DEF i
      <3>3. Len(url') = Len(url) + 1 /\ url'[1] = i /\ \A k \in 1..Len(url) : url'[k + 1] = url[k]
        BY <2>2, <3>2 DEF i
      <3>4. \A k \in 1..Len(url') : k = 1 \/ (k - 1 \in 1..Len(url) /\ url'[k] = url[k - 1])
        <4> SUFFICES ASSUME NEW k \in 1..Len(url'), k # 1
                     PROVE  k - 1 \in 1..Len(url) /\ url'[k] = url[k - 1]
          OBVIOUS
        <4>1. k - 1 \in 1..Len(url) /\ (k - 1) + 1 = k
          BY <3>1, <3>3
        <4>. QED BY <3>3, <4>1
      <3>5. 1 \in 1..Len(url') /\ \A k \in 1..Len(url) : k + 1 \in 1..Len(url')
        BY <3>1, <3>3
      <3>6. ReqsOf(url') \subseteq ReqsOf(url) \cup {i}
        BY <3>3, <3>4 DEF ReqsOf
      <3>7. i \in ReqsOf(url') /\ ReqsOf(url) \subseteq ReqsOf(url')
        BY <3>3, <3>5 DEF ReqsOf
      <3>. QED BY <3>6, <3>7 DEF i
    <2>4. rx[1].req \notin EndsUnread'
      <3>1. Stream \in Seq(Pieces) /\ Orderly(Stream) /\ Len(Stream) \in Nat /\ Len(Stream) >= 2
        <4>1. rx \in Seq(Pieces) /\ unsent \in Seq(Pieces) /\ Orderly(Stream)
          BY DEF StreamInv, ClientInv, TypeOK, Pieces, Parts
        <4>. QED BY <2>2, <4>1, Positions
      <3>2. \A t, m : m \in 0..Len(Stream) /\ t = SubSeq(Stream, m + 1, Len(Stream)) =>
              /\ t \in Seq(Pieces) /\ Len(t) = Len(Stream) - m
              /\ \A k \in 1..Len(t) : t[k] = Stream[k + m]
        BY <3>1, Suffix
      <3>3. /\ Stream' \in Seq(Pieces) /\ Len(Stream') = Len(Stream) - 2
            /\ \A k \in 1..Len(Stream') : Stream'[k] = Stream[k + 2]
        <4>1. 2 \in 0..Len(Stream) /\ Stream' = SubSeq(Stream, 2 + 1, Len(Stream))
          <5>1. 2 \in 0..Len(Stream) /\ 2 + 1 = 3
            BY <3>1
          <5>. QED BY <2>2, <5>1
        <4>. QED BY <3>2, <4>1, Zenon
      <3>4. ASSUME NEW k \in 1..Len(Stream'), Stream'[k].part = "end", Stream'[k].req = rx[1].req
            PROVE  FALSE
        <4>1. k + 2 \in 1..Len(Stream) /\ k + 2 > 2
          BY <3>1, <3>3
        <4>2. Stream'[k] \in Pieces
          BY <3>3
        <4>3. Stream'[k] = Piece(rx[1].req, "end")
          BY <3>4, <4>2 DEF Pieces, Piece
        <4>. QED BY <2>2, <3>3, <4>1, <4>3
      <3>. QED BY <3>4 DEF EndsUnread
    <2>5. Live /\ Live'
      BY <1>5 DEF Taken, Discard, Live, Running
    <2>6. Accepted' = Accepted
      BY <2>1 DEF Accepted
    <2>7. ReqsOf(url') \cap EndsUnread' = {}
      BY <1>1, <1>2, <2>3, <2>4
    <2>8. ASSUME NEW k \in Accepted
          PROVE  /\ ReqsOf(answers[k].url) # {}
                 /\ ReqsOf(answers[k].url) \cap EndsUnread' = {}
                 /\ ReqsOf(answers[k].url) \cap ReqsOf(url') = {}
                 /\ \A j \in Accepted : j # k =>
                      ReqsOf(answers[k].url) \cap ReqsOf(answers[j].url) = {}
      <3>1. \A r \in EndsUnread : r \notin ReqsOf(answers[k].url)
        BY <1>2
      <3>2. ReqsOf(answers[k].url) \cap ReqsOf(url) = {}
        BY <1>2, <2>5
      <3>3. ReqsOf(answers[k].url) \cap ReqsOf(url') = {}
        BY <2>2, <2>3, <3>1, <3>2, Zenon
      <3>. QED BY <1>1, <1>2, <3>3
    <2>9. ASSUME NEW k \in Accepted'
          PROVE  /\ ReqsOf(answers'[k].url) # {}
                 /\ ReqsOf(answers'[k].url) \cap EndsUnread' = {}
                 /\ ReqsOf(answers'[k].url) \cap ReqsOf(url') = {}
                 /\ \A j \in Accepted' : j # k =>
                      ReqsOf(answers'[k].url) \cap ReqsOf(answers'[j].url) = {}
      BY <2>1, <2>6, <2>8
    <2>. QED BY <2>7, <2>9 DEF OnceInv, ReqsOf
  <1>6. CASE Start
    <2>1. answers' = answers /\ url' = <<>>
      BY <1>6 DEF Start
    <2>2. ReqsOf(url') = {} /\ Accepted' = Accepted
      BY <2>1 DEF ReqsOf, Accepted
    <2>. QED BY <1>1, <1>2, <2>1, <2>2 DEF OnceInv
  <1>7. CASE Send \/ HangUpCloses \/ ParseOverruns \/ Quiet
    <2>1. answers' = answers /\ url' = url /\ (Live' => Live)
      BY <1>7 DEF Send, HangUpCloses, ParseOverruns, Killed, Quiet, Live, localVars
    <2>2. ReqsOf(url') = ReqsOf(url) /\ Accepted' = Accepted
      BY <2>1 DEF Accepted
    <2>. QED BY <1>1, <1>2, <2>1, <2>2 DEF OnceInv
  <1>. QED BY <1>3, <1>4, <1>5, <1>6, <1>7, KindsOfStep

(* With a client that waits, every step keeps the answers matched.          *)
LEMMA SerialKept ==
  ASSUME StreamInv, PeekInv, OnceInv, SerialInv, Next, ~torn, ~torn'
  PROVE  SerialInv'
  <1>1. /\ rx \in Seq(Pieces) /\ unsent \in Seq(Pieces) /\ Len(rx) \in Nat
        /\ Len(answers) \in Nat /\ Due \in Nat /\ TypeOK
    BY DEF StreamInv, ClientInv, TypeOK, Pieces, Parts, Due
  <1>2. script' = script /\ manner' = manner
    BY StreamStep
  <1> SUFFICES ASSUME "serial" \in manner
               PROVE  /\ \A k \in 1..Len(rx') : rx'[k].req <= Due'
                      /\ unsent' # <<>> /\ unsent'[1].part # "head" => unsent'[1].req <= Due'
                      /\ Live' => url' \in {<<>>, <<Due'>>}
                      /\ AnswersMatch'
    BY <1>2 DEF SerialInv
  <1>3. /\ \A k \in 1..Len(rx) : rx[k].req <= Due
        /\ unsent # <<>> /\ unsent[1].part # "head" => unsent[1].req <= Due
        /\ Live => url \in {<<>>, <<Due>>}
        /\ AnswersMatch
    BY DEF SerialInv
  <1>4. ASSUME answers' = answers PROVE Due' = Due /\ AnswersMatch'
    BY <1>2, <1>3, <1>4 DEF Due, AnswersMatch
  <1>5. \A k \in 1..Len(rx) : rx[k].req \in Int
    <2>1. \A k \in 1..Len(rx) : rx[k] \in Pieces
      BY <1>1
    <2>. QED BY <2>1, PieceTypes
  <1>6. unsent # <<>> => unsent[1].req \in Int
    <2>1. unsent # <<>> => unsent[1] \in Pieces
      BY <1>1
    <2>. QED BY <2>1, PieceTypes
  <1>7. ASSUME NEW m \in 0..Len(rx), rx' = SubSeq(rx, m + 1, Len(rx))
        PROVE  \A k \in 1..Len(rx') : rx'[k].req <= Due
    <2>1. Len(rx') = Len(rx) - m /\ \A k \in 1..Len(rx') : rx'[k] = rx[k + m]
      BY <1>1, <1>7
    <2>2. \A k \in 1..Len(rx') : k + m \in 1..Len(rx)
      BY <1>1, <2>1
    <2>. QED BY <1>3, <2>1, <2>2
  <1>8. CASE Send
    <2>1. answers' = answers /\ url' = url /\ (Live' => Live)
      BY <1>8 DEF Send, Live, localVars
    <2>2. Orderly(unsent) /\ unsent # <<>>
      BY <1>8 DEF StreamInv, ClientInv, Send
    <2>3. unsent[1].req <= Due
      <3>1. CASE unsent[1].part = "head"
        <4>1. MayStart(unsent[1].req)
          BY <1>8, <3>1, SendArrives DEF StreamInv
        <4>2. Len(answers) = unsent[1].req - 1
          BY <4>1 DEF MayStart
        <4>. QED BY <1>1, <1>6, <2>2, <4>2 DEF Due
      <3>. QED BY <1>3, <2>2, <3>1
    <2>4. PICK n \in 1..Len(unsent) :
            /\ Arrive(n)
            /\ "whole" \notin manner => n = 1
            /\ "whole" \in manner => /\ \A k \in 1..n : unsent[k].req = unsent[1].req
                                     /\ n < Len(unsent) => unsent[n + 1].part = "head"
      BY <1>8, SendArrives DEF StreamInv
    <2>5. n \in 0..Len(unsent)
      OBVIOUS
    <2>6. /\ Len(rx') = Len(rx) + n /\ Len(unsent') = Len(unsent) - n
          /\ \A k \in 1..Len(rx) : rx'[k] = rx[k]
          /\ \A k \in 1..n : rx'[Len(rx) + k] = unsent[k]
          /\ \A k \in 1..Len(unsent') : unsent'[k] = unsent[n + k]
          /\ unsent' \in Seq(Pieces)
      BY <1>1, <1>2, <2>4, <2>5, Arrival
    <2>7. \A k \in 1..n : unsent[k].req = unsent[1].req
      <3>1. CASE "whole" \in manner
        BY <2>4, <3>1
      <3>2. CASE "whole" \notin manner
        BY <2>4, <3>2
      <3>. QED BY <3>1, <3>2
    <2>8. ASSUME NEW k \in 1..Len(rx') PROVE rx'[k].req <= Due
      <3>1. CASE k <= Len(rx)
        BY <1>1, <1>3, <2>6, <3>1
      <3>2. CASE ~(k <= Len(rx))
        <4>1. k - Len(rx) \in 1..n /\ Len(rx) + (k - Len(rx)) = k
          BY <1>1, <2>6, <3>2
        <4>2. rx'[k] = unsent[k - Len(rx)]
          BY <2>6, <4>1
        <4>. QED BY <2>3, <2>7, <4>1, <4>2
      <3>. QED BY <3>1, <3>2
    <2>9. unsent' # <<>> /\ unsent'[1].part # "head" => unsent'[1].req <= Due
      <3> SUFFICES ASSUME unsent' # <<>>, unsent'[1].part # "head" PROVE unsent'[1].req <= Due
        OBVIOUS
      <3>1. Len(unsent') >= 1 /\ Len(unsent) \in Nat /\ unsent'[1] \in Pieces
        BY <1>1, <2>6
      <3>2. unsent'[1] = unsent[n + 1] /\ n < Len(unsent)
        BY <2>6, <3>1
      <3>3. n = 1 /\ unsent[1 + 1].part # "head"
        BY <2>4, <3>2
      <3>4. unsent[2].part \in Parts /\ 2 \in 1..Len(unsent) /\ unsent'[1] = unsent[2]
        BY <3>1, <3>2, <3>3, PieceTypes
      <3>5. unsent[2 - 1] = Piece(unsent[2].req, "head") \/ unsent[2 - 1] = Piece(unsent[2].req, "end")
        BY <2>2, <3>3, <3>4 DEF Orderly, Parts
      <3>6. unsent[1].req = unsent[2].req
        BY <3>5 DEF Piece
      <3>. QED BY <2>3, <3>4, <3>6
    <2>. QED BY <1>3, <1>4, <2>1, <2>8, <2>9
  <1>9. CASE Taken
    <2>1. /\ rx[1].req \in 1..Len(script) /\ size = 2 /\ Len(rx) >= 2
          /\ rx' = SubSeq(rx, 3, Len(rx)) /\ url' = <<rx[1].req>> \o url
          /\ rx[1].req \in EndsUnread
      BY <1>9, TakenRequest
    <2>2. answers' = answers /\ unsent' = unsent /\ pc = "discard" /\ Live
      BY <1>9 DEF Taken, Discard, Running, Live, clientVars
    <2>3. \A k \in 1..Len(rx') : rx'[k].req <= Due
      <3>1. 2 \in 0..Len(rx) /\ rx' = SubSeq(rx, 2 + 1, Len(rx))
        <4>1. 2 \in 0..Len(rx) /\ 2 + 1 = 3
          BY <1>1, <2>1
        <4>. QED BY <2>1, <4>1
      <3>. QED BY <1>7, <3>1
    <2>4. rx[1].req <= Due /\ rx[1].req \in Int /\ rx[1].req >= 1
      BY <1>1, <1>3, <2>1
    <2>5. \A k \in 1..Len(answers) : rx[1].req # k
      <3> SUFFICES ASSUME NEW k \in 1..Len(answers) PROVE rx[1].req # k
        OBVIOUS
      <3>1. answers[k].status # 400
        BY <2>2 DEF PeekInv, Rejected
      <3>2. answers[k].url = <<k>> /\ k \in Accepted
        BY <1>3, <3>1 DEF AnswersMatch, Accepted
      <3>3. k \in ReqsOf(answers[k].url)
        BY <3>2 DEF ReqsOf
      <3>4. ReqsOf(answers[k].url) \cap EndsUnread = {}
        BY <3>2 DEF OnceInv
      <3>. QED BY <2>1, <3>3, <3>4
    <2>6. rx[1].req = Due
      BY <1>1, <2>4, <2>5 DEF Due
    <2>7. url = <<>>
      <3> SUFFICES ASSUME url = <<Due>> PROVE FALSE
        BY <1>3, <2>2
      <3>1. Due \in ReqsOf(url)
        BY DEF ReqsOf
      <3>. QED BY <2>1, <2>6, <3>1 DEF OnceInv
    <2>8. url' = <<Due>>
      BY <2>1, <2>6, <2>7
    <2>. QED BY <1>3, <1>4, <2>2, <2>3, <2>8
  <1>10. CASE Refused
    <2>1. /\ unsent' = unsent /\ ~Live' /\ Len(answers') = Len(answers) + 1
          /\ \A k \in 1..Len(answers) : answers'[k] = answers[k]
          /\ answers'[Len(answers) + 1].status = 400
      <3>1. ~(Answered /\ pc = "send")
        BY <1>10 DEF Refused, Running
      <3>2. unsent' = unsent
        BY <1>10 DEF Refused, Reject, Cleanup, clientVars
      <3>. QED BY <1>10, <3>1, <3>2, AnswerSteps
    <2>2. Due' = Due + 1
      BY <1>1, <2>1 DEF Due
    <2>3. \A k \in 1..Len(rx') : rx'[k].req <= Due
      <3>1. CASE rx' = rx
        BY <1>3, <3>1
      <3>2. CASE Running("discard") /\ rx' = SubSeq(rx, size + 1, Len(rx))
        <4>1. size \in 0..Len(rx)
          BY <3>2 DEF PeekInv, HeadEnds
        <4>. QED BY <1>7, <3>2, <4>1
      <3>. QED BY <1>10, <3>1, <3>2 DEF Refused
    <2>4. \A k \in 1..Len(rx') : rx'[k].req \in Int
      <3>1. rx' \in Seq(Pieces)
        BY StreamStep
      <3>2. \A k \in 1..Len(rx') : rx'[k] \in Pieces
        BY <3>1
      <3>. QED BY <3>2, PieceTypes
    <2>5. \A k \in 1..Len(rx') : rx'[k].req <= Due'
      BY <1>1, <2>2, <2>3, <2>4
    <2>6. unsent' # <<>> /\ unsent'[1].part # "head" => unsent'[1].req <= Due'
      BY <1>1, <1>3, <1>6, <2>1, <2>2
    <2>7. AnswersMatch'
      <3>1. \A k \in 1..Len(answers') : answers'[k].status # 400 => k \in 1..Len(answers)
        BY <1>1, <2>1
      <3>. QED BY <1>2, <1>3, <2>1, <3>1 DEF AnswersMatch
    <2>. QED BY <2>1, <2>5, <2>6, <2>7
  <1>11. CASE Answered
    <2>1. /\ ~Live' /\ pc = "send" /\ Len(answers') = Len(answers) + 1
          /\ \A k \in 1..Len(answers) : answers'[k] = answers[k]
          /\ answers'[Due].status = StatusOf(resp.target)
          /\ answers'[Due].url = url
      <3>1. ~Refused
        BY <1>11 DEF Answered, Refused, Running
      <3>. QED BY <1>11, <3>1, AnswerSteps DEF Due
    <2>2. unsent' = unsent /\ rx' = rx
      BY <1>11 DEF Answered, clientVars
    <2>3. Due' = Due + 1
      BY <1>1, <2>1 DEF Due
    <2>4. url = <<Due>>
      BY <1>3, <2>1 DEF PeekInv, Live
    <2>5. resp.target = script[Due].target
      <3>1. resp.target \in TargetsOfUrl
        BY <2>1 DEF PeekInv
      <3>2. Len(url) = 1 /\ url[1] = Due
        BY <2>4
      <3>. QED BY <3>1, <3>2 DEF TargetsOfUrl
    <2>6. AnswersMatch'
      <3>1. \A k \in 1..Len(answers') : k \in 1..Len(answers) \/ k = Due
        BY <1>1, <2>1 DEF Due
      <3>. QED BY <1>2, <1>3, <2>1, <2>4, <2>5, <3>1 DEF AnswersMatch
    <2>7. \A k \in 1..Len(rx') : rx'[k].req <= Due'
      BY <1>1, <1>3, <1>5, <2>2, <2>3
    <2>8. unsent' # <<>> /\ unsent'[1].part # "head" => unsent'[1].req <= Due'
      BY <1>1, <1>3, <1>6, <2>2, <2>3
    <2>. QED BY <2>1, <2>6, <2>7, <2>8
  <1>12. CASE Start \/ Quiet
    <2>1. /\ answers' = answers /\ unsent' = unsent /\ rx' = rx
          /\ url' = <<>> \/ (url' = url /\ (Live' => Live))
      BY <1>12 DEF Start, Quiet, clientVars
    <2>. QED BY <1>3, <1>4, <2>1
  <1>13. CASE HangUpCloses
    <2>1. answers' = answers /\ unsent' = unsent /\ rx' = <<>> /\ ~Live'
      BY <1>13 DEF HangUpCloses, Running, Live, clientVars
    <2>2. \A k \in 1..Len(rx') : rx'[k].req <= Due'
      <3>1. Len(rx') = 0
        BY <2>1
      <3>. QED BY <3>1
    <2>. QED BY <1>3, <1>4, <2>1, <2>2
  <1>14. CASE ParseOverruns
    <2>1. /\ answers' = answers /\ unsent' = unsent /\ url' = url /\ Live
          /\ rx' = SubSeq(rx, size + 1, Len(rx)) /\ Running("discard")
      BY <1>14 DEF ParseOverruns, Killed, Running, Live, clientVars, localVars
    <2>2. size \in 0..Len(rx)
      BY <2>1 DEF PeekInv, HeadEnds
    <2>. QED BY <1>3, <1>4, <1>7, <2>1, <2>2
  <1>. QED BY <1>8, <1>9, <1>10, <1>11, <1>12, <1>13, <1>14, KindsOfStep

(* With whole requests without bodies, no step is a rejection.              *)
LEMMA PoliteKept ==
  ASSUME StreamInv, PeekInv, PoliteInv, Next, ~torn, ~torn'
  PROVE  PoliteInv'
  <1>1. /\ rx \in Seq(Pieces) /\ unsent \in Seq(Pieces) /\ Len(rx) \in Nat /\ Orderly(Stream)
        /\ script \in Scripts
    BY DEF StreamInv, ClientInv, TypeOK, Pieces, Parts
  <1>2. script' = script /\ manner' = manner
    BY StreamStep
  <1> SUFFICES ASSUME Polite
               PROVE  /\ rx' # <<>> => rx'[1].part = "head" /\ rx'[Len(rx')].part = "end"
                      /\ ~Rejected'
    BY <1>2 DEF PoliteInv, Polite
  <1>3. /\ rx # <<>> => rx[1].part = "head" /\ rx[Len(rx)].part = "end"
        /\ ~Rejected
    BY DEF PoliteInv
  <1>4. "whole" \in manner /\ \A i \in 1..Len(script) : script[i].valid /\ ~script[i].body
    BY DEF Polite, Plain
  <1>5. /\ Stream \in Seq(Pieces) /\ Len(Stream) = Len(rx) + Len(unsent)
        /\ \A k \in 1..Len(rx) : Stream[k] = rx[k]
    BY <1>1, Positions
  <1>6. rx # <<>> => HeadEnds(rx) # {} /\ Len(rx) >= 1
    <2> SUFFICES ASSUME rx # <<>> PROVE HeadEnds(rx) # {} /\ Len(rx) >= 1
      OBVIOUS
    <2>1. Len(rx) \in 1..Len(rx)
      BY <1>1
    <2>. QED BY <1>3, <2>1 DEF HeadEnds
  (* What is left when a whole head has been read.                          *)
  <1>7. ASSUME Running("discard"), rx' = SubSeq(rx, size + 1, Len(rx))
        PROVE  /\ rx' # <<>> => rx'[1].part = "head" /\ rx'[Len(rx')].part = "end"
               /\ ParseOk(rx)
    <2>1. size \in HeadEnds(rx) /\ \A k \in HeadEnds(rx) : size <= k
      BY <1>7 DEF PeekInv
    <2>2. size \in 1..Len(rx) /\ rx[size].part = "end" /\ rx # <<>>
      BY <1>1, <2>1 DEF HeadEnds
    <2>3. rx[1] \in Pieces /\ rx[1].part = "head" /\ 1 \in 1..Len(rx)
      BY <1>1, <1>3, <2>2
    <2>4. Len(rx) >= 2 /\ rx[2].part = "end"
      <3>1. Len(rx) >= 2
        <4>1. \A k \in 1..Len(rx) : k = 1 \/ Len(rx) >= 2
          BY <1>1
        <4>2. size # 1
          BY <2>2, <2>3
        <4>. QED BY <2>2, <4>1, <4>2
      <3>2. 1 \in 1..Len(Stream) /\ Stream[1].part = "head" /\ 2 \in 1..Len(rx)
        <4>1. 2 \in 1..Len(rx) /\ Len(unsent) \in Nat
          BY <1>1, <3>1
        <4>2. 1 \in 1..Len(Stream)
          BY <1>1, <1>5, <4>1
        <4>3. Stream[1] = rx[1]
          BY <1>5, <2>3
        <4>. QED BY <2>3, <4>1, <4>2, <4>3
      <3>3. Stream[1 + 1] = Piece(Stream[1].req, "end")
        BY <1>1, <3>2 DEF Orderly
      <3>. QED BY <1>5, <3>2, <3>3 DEF Piece
    <2>5. 2 \in HeadEnds(rx) /\ 1 \notin HeadEnds(rx)
      BY <1>1, <2>3, <2>4 DEF HeadEnds
    <2>6. size = 2 /\ FindHeadEnd(rx) = 2
      <3>1. FindHeadEnd(rx) \in HeadEnds(rx) /\ FindHeadEnd(rx) <= 2
        BY <2>5, HeadEndLeast
      <3>2. \A k \in HeadEnds(rx) : k \in Int /\ k >= 2
        BY <2>5 DEF HeadEnds
      <3>. QED BY <2>1, <2>5, <3>1, <3>2
    <2>7. ParseOk(rx)
      <3>1. rx[1].req \in 1..Len(script)
        BY <2>3, PieceTypes
      <3>. QED BY <1>4, <2>3, <2>6, <3>1 DEF ParseOk
    <2>8. Len(rx') = Len(rx) - 2 /\ \A k \in 1..Len(rx') : rx'[k] = rx[k + 2]
      <3>1. \A m \in 0..Len(rx) :
              /\ Len(SubSeq(rx, m + 1, Len(rx))) = Len(rx) - m
              /\ \A k \in 1..(Len(rx) - m) : SubSeq(rx, m + 1, Len(rx))[k] = rx[k + m]
        BY <1>1
      <3>2. size \in 0..Len(rx)
        BY <2>2
      <3>3. /\ Len(rx') = Len(rx) - size
            /\ \A k \in 1..(Len(rx) - size) : rx'[k] = rx[k + size]
        BY <1>7, <3>1, <3>2
      <3>. QED BY <2>6, <3>3
    <2>9. rx' # <<>> => rx'[1].part = "head" /\ rx'[Len(rx')].part = "end"
      <3> SUFFICES ASSUME rx' # <<>>
                   PROVE  rx'[1].part = "head" /\ rx'[Len(rx')].part = "end"
        OBVIOUS
      <3>1. Len(rx') >= 1 /\ rx' \in Seq(Pieces)
        <4>1. rx' \in Seq(Pieces)
          BY StreamStep
        <4>. QED BY <4>1
      <3>2. rx'[Len(rx')] = rx[Len(rx)] /\ rx'[1] = rx[3] /\ 3 \in 1..Len(rx)
        BY <1>1, <2>8, <3>1
      <3>3. 3 \in 1..Len(Stream) /\ Stream[3] = rx[3] /\ Stream[2] = rx[2] /\ rx[3] \in Pieces
        BY <1>1, <1>5, <2>4, <3>2
      <3>4. rx[3].part # "end"
        <4> SUFFICES ASSUME rx[3].part = "end" PROVE FALSE
          OBVIOUS
        <4>1. Stream[3 - 1] = Piece(Stream[3].req, "head")
          BY <1>1, <3>3 DEF Orderly
        <4>. QED BY <2>4, <3>3, <4>1 DEF Piece
      <3>5. rx[3].part # "body"
        <4>1. rx[3].part = "body" => script[rx[3].req].body
          BY <1>1, <3>3 DEF Orderly
        <4>. QED BY <1>4, <3>3, <4>1, PieceTypes
      <3>6. rx[3].part \in Parts
        BY <3>3, PieceTypes
      <3>. QED BY <1>3, <2>2, <3>2, <3>4, <3>5, <3>6 DEF Parts
    <2>. QED BY <2>7, <2>9
  <1>8. ASSUME answers' = answers PROVE ~Rejected'
    BY <1>3, <1>8 DEF Rejected
  <1>9. CASE Send
    <2>1. answers' = answers /\ unsent # <<>>
      BY <1>9 DEF Send
    <2>2. PICK n \in 1..Len(unsent) :
            /\ Arrive(n) /\ n \in {2, 3}
            /\ unsent[1].part = "head" /\ unsent[2].part = "end"
            /\ n = 3 <=> script[unsent[1].req].body
      BY <1>4, <1>9, SendArrives DEF StreamInv
    <2>3. n = 2
      <3>1. unsent[1] \in Pieces
        BY <1>1, <2>1
      <3>2. unsent[1].req \in 1..Len(script)
        BY <3>1, PieceTypes
      <3>. QED BY <1>4, <2>2, <3>2
    <2>4. /\ Len(rx') = Len(rx) + n
          /\ \A k \in 1..Len(rx) : rx'[k] = rx[k]
          /\ \A k \in 1..n : rx'[Len(rx) + k] = unsent[k]
      <3>1. n \in 0..Len(unsent)
        OBVIOUS
      <3>. QED BY <1>1, <1>2, <2>2, <3>1, Arrival
    <2>5. rx'[Len(rx) + 1] = unsent[1] /\ rx'[Len(rx) + 2] = unsent[2] /\ Len(rx') = Len(rx) + 2
      BY <2>3, <2>4
    <2>6. rx'[1].part = "head"
      <3>1. CASE rx = <<>>
        <4>1. Len(rx) + 1 = 1
          BY <3>1
        <4>. QED BY <2>2, <2>5, <4>1
      <3>2. CASE rx # <<>>
        BY <1>1, <1>3, <1>6, <2>4, <3>2
      <3>. QED BY <3>1, <3>2
    <2>. QED BY <1>8, <2>1, <2>2, <2>5, <2>6
  <1>10. CASE HangUpCloses
    BY <1>8, <1>10 DEF HangUpCloses
  <1>11. CASE Taken
    <2>1. /\ Running("discard") /\ rx' = SubSeq(rx, size + 1, Len(rx)) /\ answers' = answers
      BY <1>11 DEF Taken, Discard
    <2>. QED BY <1>7, <1>8, <2>1
  <1>12. CASE ParseOverruns
    <2>1. /\ Running("discard") /\ rx' = SubSeq(rx, size + 1, Len(rx)) /\ answers' = answers
      BY <1>12 DEF ParseOverruns, Killed
    <2>. QED BY <1>7, <1>8, <2>1
  <1>13. CASE Refused
    BY <1>6, <1>7, <1>13 DEF Refused
  <1>14. CASE Answered
    <2>1. rx' = rx
      BY <1>14 DEF Answered
    <2>2. ~Rejected'
      <3>1. /\ Len(answers') = Len(answers) + 1 /\ Len(answers) \in Nat
            /\ \A k \in 1..Len(answers) : answers'[k] = answers[k]
            /\ answers'[Len(answers) + 1].status # 400
        <4>1. ~Refused
          BY <1>14 DEF Answered, Refused, Running
        <4>. QED BY <1>14, <4>1, AnswerSteps
      <3>2. \A k \in 1..Len(answers') : k \in 1..Len(answers) \/ k = Len(answers) + 1
        BY <3>1
      <3>. QED BY <1>3, <3>1, <3>2 DEF Rejected
    <2>. QED BY <1>3, <2>1, <2>2
  <1>15. CASE Start \/ Quiet
    <2>1. rx' = rx /\ answers' = answers
      BY <1>15 DEF Start, Quiet
    <2>. QED BY <1>3, <1>8, <2>1
  <1>. QED BY <1>9, <1>10, <1>11, <1>12, <1>13, <1>14, <1>15, KindsOfStep

-----------------------------------------------------------------------------
(* The invariant, and the theorems it gives.                                *)

(* The invariant holds initially.                                           *)
LEMMA InvInit == Init => WorkerInv
  <1> SUFFICES ASSUME Init PROVE WorkerInv
    OBVIOUS
  <1>1. /\ unsent \in Seq(Pieces) /\ Orderly(unsent)
        /\ unsent # <<>> => unsent[1].part = "head"
    BY FirstStream
  <1>2. /\ script \in Scripts /\ manner \in Manners /\ rx = <<>> /\ url = <<>> /\ answers = <<>>
        /\ peer = "up" /\ edge = FALSE /\ pc = "idle" /\ tries = 0 /\ length = 0 /\ size = 0
        /\ resp = [target |-> "missing", len |-> 0, sent |-> 0]
        /\ torn = FALSE /\ closed = FALSE /\ dead = FALSE
    BY DEF Init
  <1>3. TypeOK
    <2>1. resp \in [target : Targets, len : Nat, sent : Nat] /\ resp.sent <= resp.len
      BY <1>2 DEF Targets
    <2>2. {unsent, rx} \subseteq Seq([req : 1..Len(script), part : {"head", "end", "body"}])
      BY <1>1, <1>2 DEF Pieces, Parts
    <2>3. /\ tries \in 0..(MaxTries - 1) /\ length \in Nat /\ size \in 0..(IF torn THEN length + 1 ELSE length)
          /\ url \in Seq(1..Len(script))
          /\ answers \in Seq([status : {200, 400, 403, 404}, url : Seq(1..Len(script)),
                              cut : BOOLEAN])
      BY <1>2 DEF MaxTries
    <2>4. /\ script \in Scripts /\ manner \in Manners
          /\ peer \in {"up", "fin", "rst"}
          /\ pc \in {"idle", "peek", "discard", "respond", "send", "sendfile"}
          /\ {torn, edge, closed, dead} \subseteq BOOLEAN
      BY <1>2
    <2>. QED BY <2>1, <2>2, <2>3, <2>4 DEF TypeOK
  <1>4. Stream = unsent
    BY <1>1, <1>2 DEF Stream
  <1>5. StreamInv
    BY <1>1, <1>2, <1>3, <1>4 DEF StreamInv, ClientInv
  <1>6. ~Live /\ Accepted = {} /\ ReqsOf(url) = {} /\ ~Rejected
    BY <1>2 DEF Live, Accepted, ReqsOf, Rejected
  <1>7. PeekInv
    BY <1>2, <1>6 DEF PeekInv, Running
  <1>8. UnreadIsAnnounced /\ ResponsesIntact
    BY <1>2 DEF UnreadIsAnnounced, ResponsesIntact
  <1>9. OnceInv
    BY <1>6 DEF OnceInv
  <1>10. SerialInv
    <2>1. AnswersMatch /\ \A k \in 1..Len(rx) : rx[k].req <= Due
      BY <1>2 DEF AnswersMatch
    <2>. QED BY <1>1, <1>6, <2>1 DEF SerialInv
  <1>11. PoliteInv
    BY <1>2, <1>6 DEF PoliteInv
  <1>. QED BY <1>2, <1>5, <1>7, <1>8, <1>9, <1>10, <1>11 DEF WorkerInv, StreamInv

(* A client that waits, or sends whole heads only, never has its stream     *)
(* torn.                                                                    *)
LEMMA NeverTorn ==
  ASSUME StreamInv, PeekInv, OnceInv, SerialInv, PoliteInv, PeekOldBytes, ~torn
  PROVE  "serial" \notin manner /\ ~Polite
  <1> DEFINE l == Len(rx)
  <1>1. /\ rx \in Seq(Pieces) /\ unsent \in Seq(Pieces) /\ Orderly(Stream)
        /\ answers \in Seq(Answers) /\ url # <<>> /\ url \in Seq(1..Len(script))
        /\ rx # <<>> /\ rx[l].part = "head" /\ pc = "peek"
    BY DEF StreamInv, ClientInv, TypeOK, Pieces, Parts, Answers, PeekOldBytes, OldBytesFit,
           Running
  <1>2. l \in 1..l /\ l \in Nat
    BY <1>1
  <1>3. ~Polite
    BY <1>1 DEF PoliteInv
  <1>4. ASSUME "serial" \in manner PROVE FALSE
    <2> DEFINE i == rx[l].req
    <2>1. i \in 1..Len(script) /\ i <= Due
      BY <1>1, <1>2, <1>4, PieceTypes DEF SerialInv
    <2>2. url = <<Due>>
      BY <1>1, <1>4 DEF SerialInv, Live
    <2>3. i \in EndsUnread
      <3>1. /\ Stream \in Seq(Pieces) /\ Stream[l] = rx[l]
            /\ l \in 1..Len(Stream)
        <4>1. Len(unsent) \in Nat
          BY <1>1
        <4>. QED BY <1>1, <1>2, <4>1, Positions
      <3>2. l < Len(Stream) /\ Stream[l + 1] = Piece(i, "end")
        BY <1>1, <3>1 DEF Orderly
      <3>3. l + 1 \in 1..Len(Stream)
        BY <1>2, <3>1, <3>2
      <3>4. Stream[l + 1].part = "end" /\ Stream[l + 1].req = i
        BY <3>2 DEF Piece
      <3>. QED BY <3>3, <3>4 DEF EndsUnread
    <2>4. i # Due
      <3>1. 1 \in 1..Len(url) /\ url[1] = Due
        BY <2>2
      <3>2. Due \in ReqsOf(url)
        BY <3>1 DEF ReqsOf
      <3>. QED BY <2>3, <3>2 DEF OnceInv
    <2>5. i \in 1..Len(answers)
      BY <1>1, <2>1, <2>4 DEF Due
    <2>6. answers[i].status # 400
      BY <1>1, <2>5 DEF PeekInv, Rejected
    <2>7. answers[i].url = <<i>>
      BY <1>4, <2>5, <2>6 DEF SerialInv, AnswersMatch
    <2>8. i \in ReqsOf(answers[i].url)
      <3>1. 1 \in 1..Len(answers[i].url) /\ answers[i].url[1] = i
        BY <2>7
      <3>. QED BY <3>1 DEF ReqsOf
    <2>9. i \in Accepted
      BY <2>5, <2>6 DEF Accepted
    <2>. QED BY <2>3, <2>8, <2>9 DEF OnceInv
  <1>. QED BY <1>3, <1>4

(* What holds of every stream, torn or not, is kept.                        *)
LEMMA ClientKept ==
  ASSUME ClientInv, ~torn => PeekInv, Next
  PROVE  ClientInv'
  <1>. USE DEF Running
  <1>1. TypeOK' /\ rx \in Seq(Pieces) /\ length \in Nat
    BY TypesKept DEF ClientInv, TypeOK, Pieces, Parts
  <1>2. /\ script' = script /\ manner' = manner /\ Orderly(unsent')
        /\ "whole" \in manner /\ unsent' # <<>> => unsent'[1].part = "head"
    BY ClientStays
  <1>3. Orderly(unsent)'
    BY <1>2 DEF Orderly
  <1>4. closed' => pc' = "idle"
    BY DEF ClientInv, Next, ClientStep, WorkerStep, Send, HangUp, Start, HangUpCloses, PeekEnds,
           PeekEagain, PeekHead, PeekOldBytes, PeekPartial, Reject, Discard, DiscardTorn,
           DiscardFails, ParseOverruns, Build, SendResponse, SendEagain, Responded, SendFails,
           SendfileEnds, SendfileFails, Cleanup, Killed, clientVars, localVars
  <1>5. pc' = "discard" => length' > 0
    <2> SUFFICES ASSUME pc' = "discard" PROVE length' > 0
      OBVIOUS
    <2>1. CASE PeekHead \/ PeekOldBytes
      <3>1. rx # <<>> /\ length' = Len(rx)
        BY <1>1, <2>1 DEF PeekHead, PeekOldBytes, HeadEnds
      <3>. QED BY <1>1, <3>1
    <2>2. CASE ~PeekHead /\ ~PeekOldBytes
      <3>1. pc = "discard" /\ length' = length
        BY <2>2
        DEF Next, ClientStep, WorkerStep, Send, HangUp, Start, HangUpCloses, PeekEnds,
            PeekEagain, PeekPartial, Reject, Discard, DiscardTorn, DiscardFails, ParseOverruns,
            Build, SendResponse, SendEagain, Responded, SendFails, SendfileEnds,
            SendfileFails, Cleanup, Killed, clientVars, localVars
      <3>. QED BY <3>1 DEF ClientInv
    <2>. QED BY <2>1, <2>2
  <1>. QED BY <1>1, <1>2, <1>3, <1>4, <1>5 DEF ClientInv

(* Every step keeps the invariant.                                          *)
LEMMA InvNext == WorkerInv /\ [Next]_vars => WorkerInv'
  <1> SUFFICES ASSUME WorkerInv, [Next]_vars PROVE WorkerInv'
    OBVIOUS
  <1>1. CASE Next
    <2>1. /\ script' = script /\ manner' = manner /\ (torn => torn')
          /\ torn \in BOOLEAN
      BY <1>1, ClientStays DEF WorkerInv, ClientInv, TypeOK
    <2>2. ClientInv' /\ UnreadIsAnnounced' /\ ResponsesIntact'
      BY <1>1, ClientKept, UnreadKept, ResponsesKept DEF WorkerInv
    <2>3. torn' => "serial" \notin manner' /\ ~Polite'
      <3> SUFFICES ASSUME torn' PROVE "serial" \notin manner /\ ~Polite
        BY <2>1 DEF Polite
      <3>1. CASE torn
        BY <3>1 DEF WorkerInv
      <3>2. CASE ~torn
        <4>1. PeekOldBytes
          BY <1>1, <3>2
          DEF Next, ClientStep, WorkerStep, Send, HangUp, Start, HangUpCloses, PeekEnds,
              PeekEagain, PeekHead, PeekPartial, Reject, Discard, DiscardTorn, DiscardFails,
              ParseOverruns, Build, SendResponse, SendEagain, SendFails, SendfileEnds,
              SendfileFails, Cleanup, Killed, clientVars
        <4>. QED BY <3>2, <4>1, NeverTorn DEF WorkerInv
      <3>. QED BY <3>1, <3>2
    <2>4. ASSUME ~torn'
          PROVE  StreamInv' /\ PeekInv' /\ OnceInv' /\ SerialInv' /\ PoliteInv'
      <3>1. ~torn /\ StreamInv /\ PeekInv /\ OnceInv /\ SerialInv /\ PoliteInv
        BY <2>1, <2>4 DEF WorkerInv
      <3>2. Orderly(Stream')
        BY <1>1, <2>4, <3>1, StreamStep
      <3>3. StreamInv'
        BY <2>1, <2>2, <3>2 DEF StreamInv, Orderly
      <3>4. PeekInv' /\ OnceInv' /\ SerialInv' /\ PoliteInv'
        BY <1>1, <2>4, <3>1, PeekKept, OnceKept, SerialKept, PoliteKept
      <3>. QED BY <3>3, <3>4
    <2>. QED BY <2>2, <2>3, <2>4 DEF WorkerInv
  <1>2. CASE UNCHANGED vars
    <2>. USE <1>2 DEF vars, clientVars, localVars, WorkerInv
    <2>1. ClientInv' /\ (StreamInv => StreamInv')
      <3>1. TypeOK'
        BY DEF ClientInv, TypeOK
      <3>2. Orderly(unsent)' /\ (Orderly(Stream) => Orderly(Stream)')
        BY DEF ClientInv, Orderly, Stream
      <3>3. ClientInv'
        BY <3>1, <3>2 DEF ClientInv
      <3>. QED BY <3>2, <3>3 DEF StreamInv
    <2>2. PeekInv => PeekInv'
      BY DEF PeekInv, Running, HeadEnds, TargetsOfUrl, Rejected
    <2>3. UnreadIsAnnounced' /\ ResponsesIntact'
      BY DEF UnreadIsAnnounced, ResponsesIntact
    <2>4. OnceInv => OnceInv'
      <3> SUFFICES ASSUME OnceInv PROVE OnceInv'
        OBVIOUS
      <3>1. OnceInv /\ url' = url /\ answers' = answers
        OBVIOUS
      <3>2. Accepted' = Accepted /\ EndsUnread' = EndsUnread /\ (Live' <=> Live)
        BY DEF Accepted, EndsUnread, Stream, Live
      <3>3. ReqsOf(url)' = ReqsOf(url)
        BY DEF ReqsOf
      <3>4. \A k \in Accepted : ReqsOf(answers[k].url)' = ReqsOf(answers[k].url)
        BY DEF ReqsOf
      <3>5. \A k, j \in Accepted : ReqsOf(answers'[k].url) = ReqsOf(answers[k].url)
                                 /\ ReqsOf(answers'[j].url) = ReqsOf(answers[j].url)
        BY <3>1
      <3>6. ReqsOf(url') = ReqsOf(url)
        BY <3>1
      <3>7. /\ ReqsOf(url') \cap EndsUnread' = {}
            /\ \A k \in Accepted' :
                 /\ ReqsOf(answers'[k].url) # {}
                 /\ ReqsOf(answers'[k].url) \cap EndsUnread' = {}
                 /\ Live' => ReqsOf(answers'[k].url) \cap ReqsOf(url') = {}
                 /\ \A j \in Accepted' : j # k =>
                      ReqsOf(answers'[k].url) \cap ReqsOf(answers'[j].url) = {}
        BY <3>1, <3>2, <3>5, <3>6 DEF OnceInv
      <3>. QED BY <3>7 DEF OnceInv, ReqsOf
    <2>5. SerialInv => SerialInv'
      BY DEF SerialInv, Due, Live, AnswersMatch
    <2>6. (PoliteInv => PoliteInv') /\ (Polite' <=> Polite)
      BY DEF PoliteInv, Polite, Rejected
    <2>7. torn' = torn /\ manner' = manner
      OBVIOUS
    <2>. QED BY <2>1, <2>2, <2>3, <2>4, <2>5, <2>6, <2>7
  <1>. QED BY <1>1, <1>2

(* The invariant holds in every state.                                      *)
LEMMA InvAlways == Spec => []WorkerInv
  BY InvInit, InvNext, PTL DEF Spec

(* Every variable of the worker, its connection and its client keeps its    *)
(* type: Tries stays below its limit, the response sent within the response *)
(* built, and RequestSize within what was peeked, but for one piece more    *)
(* where the end of a head was found in old bytes.                          *)
THEOREM WorkerTypes == Spec => []TypeOK
  <1>1. WorkerInv => TypeOK
    BY DEF WorkerInv, ClientInv
  <1>. QED BY <1>1, InvAlways, PTL

(* EpollHttpWorker leaves nothing unread that epoll will not announce.      *)
THEOREM NothingStranded == Spec => []UnreadIsAnnounced
  <1>1. WorkerInv => UnreadIsAnnounced
    BY DEF WorkerInv
  <1>. QED BY <1>1, InvAlways, PTL

(* The response built in the shared ResponseMalloced is sent without what   *)
(* earlier responses left in it.                                            *)
THEOREM ResponseAsBuilt == Spec => []ResponsesIntact
  <1>1. WorkerInv => ResponsesIntact
    BY DEF WorkerInv
  <1>. QED BY <1>1, InvAlways, PTL

(* No request is answered twice, and none before its head was sent, as long *)
(* as no head of the connection was found to end in old bytes.              *)
THEOREM NoSecondAnswer == Spec => []AnsweredOnce
  <1>1. WorkerInv => AnsweredOnce
    <2> SUFFICES ASSUME WorkerInv, ~torn PROVE AnsweredOnce
      BY DEF AnsweredOnce
    <2>1. \A k \in Accepted :
            /\ ReqsOf(answers[k].url) # {}
            /\ ReqsOf(answers[k].url) \cap EndsUnread = {}
            /\ \A j \in Accepted : j # k =>
                 ReqsOf(answers[k].url) \cap ReqsOf(answers[j].url) = {}
      BY DEF WorkerInv, OnceInv
    <2>2. \A n \in 1..Len(unsent) : unsent[n].part = "end" => unsent[n].req \in EndsUnread
      <3>1. rx \in Seq(Pieces) /\ unsent \in Seq(Pieces)
        BY DEF WorkerInv, StreamInv, ClientInv, TypeOK, Pieces, Parts
      <3>2. /\ Len(Stream) = Len(rx) + Len(unsent)
            /\ \A k \in 1..Len(unsent) : Stream[Len(rx) + k] = unsent[k]
        BY <3>1, Positions
      <3>3. \A k \in 1..Len(unsent) : Len(rx) + k \in 1..Len(Stream)
        BY <3>1, <3>2
      <3>. QED BY <3>2, <3>3 DEF EndsUnread
    <2>3. /\ \A k \in Accepted : ReqsOf(answers[k].url) # {}
          /\ \A k \in Accepted : \A j \in Accepted \ {k} :
               ReqsOf(answers[k].url) \cap ReqsOf(answers[j].url) = {}
          /\ \A k \in Accepted, n \in 1..Len(unsent) :
               unsent[n].part = "end" => unsent[n].req \notin ReqsOf(answers[k].url)
      BY <2>1, <2>2
    <2>. QED BY <2>3 DEF AnsweredOnce, Accepted, ReqsOf
  <1>. QED BY <1>1, InvAlways, PTL

(* A client that waits for each answer gets the one to its own request.     *)
THEOREM AnswersToTheirRequests == Spec => []AnswersMatch
  <1>1. WorkerInv => AnswersMatch
    BY DEF WorkerInv, SerialInv, AnswersMatch
  <1>. QED BY <1>1, InvAlways, PTL

(* Requests that are well-formed, have no body and arrive whole never draw  *)
(* a 400.                                                                   *)
THEOREM NoFalseRejection == Spec => []WellFormedNotRejected
  <1>1. WorkerInv => WellFormedNotRejected
    BY DEF WorkerInv, PoliteInv, Polite, WellFormedNotRejected
  <1>. QED BY <1>1, InvAlways, PTL
=============================================================================

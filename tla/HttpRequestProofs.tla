-------------------------- MODULE HttpRequestProofs -------------------------
(***************************************************************************)
(* Heads are taken out of the socket one by one and whole, for all streams  *)
(* of heads whose lines are not empty and hold no line ends, in one segment *)
(* or in two, cut anywhere, whether they fit StringPool or not.             *)
(***************************************************************************)
EXTENDS HttpRequest, DataFacts

-----------------------------------------------------------------------------
(* Concatenations of many sequences.                                        *)

(* f[i] is the concatenation of the first i.                                *)
Sums(f, s, S) ==
  /\ f[0] = <<>>
  /\ \A i \in 0..Len(s) : f[i] \in Seq(S)
  /\ \A i \in 1..Len(s) : f[i] = f[i - 1] \o s[i]

LEMMA FlattenSums ==
  ASSUME NEW S, NEW s \in Seq(Seq(S))
  PROVE  \E f : Sums(f, s, S) /\ FlattenSeq(s) = f[Len(s)]
  <1> DEFINE n == Len(s)
             Step(g, i) == IF i = 1 THEN s[i] ELSE g[i - 1] \o s[i]
             Rule(g, m) == g = [i \in 1..m |-> IF i = 1 THEN s[i] ELSE g[i - 1] \o s[i]]
  <1>1. n \in Nat /\ \A i \in 1..n : s[i] \in Seq(S)
    OBVIOUS
  <1>2. ASSUME NEW m \in Nat PROVE \E g : Rule(g, m)
    <2> DEFINE Good == {i \in Nat : \E g : Rule(g, i)}
    <2>1. 0 \in Good
      <3>1. Rule([i \in 1..0 |-> s[i]], 0)
        OBVIOUS
      <3>. HIDE DEF Rule
      <3>. QED BY <3>1
    <2>2. ASSUME NEW j \in Nat, j \in Good PROVE j + 1 \in Good
      <3>1. PICK g : Rule(g, j)
        BY <2>2
      <3> DEFINE x == Step(g, j + 1)
                 h == [i \in 1..(j + 1) |-> IF i = j + 1 THEN x ELSE g[i]]
      <3>2. Rule(h, j + 1) /\ j + 1 \in Nat
        <4>1. ASSUME NEW i \in 1..(j + 1)
              PROVE  h[i] = IF i = 1 THEN s[i] ELSE h[i - 1] \o s[i]
          <5>1. CASE i = j + 1
            <6>1. h[i] = x
              BY <5>1
            <6>2. i # 1 => i - 1 \in 1..j /\ h[i - 1] = g[i - 1]
              BY <5>1
            <6>. QED BY <5>1, <6>1, <6>2
          <5>2. CASE i # j + 1
            <6>1. i \in 1..j
              BY <5>2
            <6>2. h[i] = g[i] /\ g[i] = IF i = 1 THEN s[i] ELSE g[i - 1] \o s[i]
              BY <3>1, <6>1
            <6>3. i # 1 => h[i - 1] = g[i - 1]
              BY <6>1
            <6>. QED BY <6>2, <6>3
          <5>. QED BY <5>1, <5>2
        <4>2. h = [i \in 1..(j + 1) |-> h[i]] /\ j + 1 \in Nat
          OBVIOUS
        <4>. HIDE DEF h
        <4>. QED BY <4>1, <4>2
      <3>. HIDE DEF h, Rule
      <3>. QED BY <3>2, Zenon
    <2>. HIDE DEF Good
    <2>3. Nat \subseteq Good
      BY <2>1, <2>2, SetInduction
    <2>. QED BY <2>3 DEF Good
  <1> DEFINE g == CHOOSE x : Rule(x, n)
  <1>3. Rule(g, n)
    BY <1>1, <1>2
  <1>4. n # 0 => FlattenSeq(s) = g[n]
    BY DEF FlattenSeq
  <1>. HIDE DEF g
  <1> DEFINE f == [i \in 0..n |-> IF i = 0 THEN <<>> ELSE g[i]]
  <1>5. f[0] = <<>>
    BY <1>1
  <1> DEFINE Good == {i \in Nat : i <= n => f[i] \in Seq(S) /\ (i > 0 => f[i] = f[i - 1] \o s[i])}
  <1>6. 0 \in Good
    BY <1>5
  <1>7. ASSUME NEW j \in Nat, j \in Good PROVE j + 1 \in Good
    <2>0. (j + 1) - 1 = j /\ j + 1 > 0
      OBVIOUS
    <2> SUFFICES ASSUME j + 1 <= n
                 PROVE  f[j + 1] \in Seq(S) /\ f[j + 1] = f[j] \o s[j + 1]
      <3>. SUFFICES ASSUME j + 1 <= n => f[j + 1] \in Seq(S) /\ f[j + 1] = f[j] \o s[j + 1]
                    PROVE  j + 1 \in Good
        OBVIOUS
      <3>1. j + 1 <= n => f[j + 1] \in Seq(S) /\ (j + 1 > 0 => f[j + 1] = f[(j + 1) - 1] \o s[j + 1])
        <4>. HIDE DEF f, n, Good
        <4>. QED BY <2>0
      <3>2. j + 1 \in Nat
        OBVIOUS
      <3>. HIDE DEF f, n
      <3>. QED BY <3>1, <3>2
    <2>1. /\ j + 1 \in 1..n /\ j \in 0..n /\ j + 1 \in 0..n /\ j + 1 # 0 /\ (j + 1) - 1 = j
          /\ f[j] \in Seq(S) /\ s[j + 1] \in Seq(S)
      <3>. HIDE DEF f
      <3>1. j + 1 \in 1..n /\ j \in 0..n /\ j + 1 \in 0..n /\ j + 1 # 0 /\ j <= n
        BY <1>1
      <3>2. f[j] \in Seq(S)
        BY <1>7, <3>1 DEF Good
      <3>. QED BY <1>1, <2>0, <3>1, <3>2
    <2>2. f[j + 1] = g[j + 1]
      BY <2>1
    <2>3. g[j + 1] = IF j + 1 = 1 THEN s[j + 1] ELSE g[j] \o s[j + 1]
      <3>. HIDE DEF f
      <3>. QED BY <1>3, <2>1
    <2>4. CASE j = 0
      <3>. HIDE DEF f, Good
      <3>1. f[j + 1] = s[j + 1] /\ f[j] = <<>>
        BY <1>5, <2>2, <2>3, <2>4
      <3>. QED BY <2>1, <3>1
    <2>5. CASE j # 0
      <3>1. f[j] = g[j]
        BY <2>1, <2>5
      <3>2. f[j + 1] = f[j] \o s[j + 1]
        <4>1. j + 1 # 1
          BY <2>5
        <4>. HIDE DEF f, Good
        <4>. QED BY <2>2, <2>3, <3>1, <4>1, Zenon
      <3>. HIDE DEF f, Good
      <3>. QED BY <2>1, <3>2
    <2>. QED BY <2>4, <2>5
  <1>. HIDE DEF f, Good
  <1>8. Nat \subseteq Good
    BY <1>6, <1>7, SetInduction
  <1>9. Sums(f, s, S)
    <2>1. ASSUME NEW i \in 0..n PROVE f[i] \in Seq(S) /\ (i > 0 => f[i] = f[i - 1] \o s[i])
      <3>1. i \in Nat /\ i <= n
        BY <1>1
      <3>. QED BY <1>8, <3>1 DEF Good
    <2>2. \A i \in 1..n : i \in 0..n /\ i > 0
      BY <1>1
    <2>. QED BY <1>5, <2>1, <2>2 DEF Sums
  <1>10. FlattenSeq(s) = f[n]
    <2>1. CASE n = 0
      <3>1. FlattenSeq(s) = s /\ s = <<>>
        BY <2>1 DEF FlattenSeq
      <3>. QED BY <1>5, <2>1, <3>1
    <2>2. CASE n # 0
      <3>1. n \in 0..n
        BY <1>1
      <3>. QED BY <1>4, <2>2, <3>1 DEF f
    <2>. QED BY <2>1, <2>2
  <1>. QED BY <1>9, <1>10, Zenon

LEMMA EmptyConcats ==
  ASSUME NEW S, NEW u \in Seq(S)
  PROVE  u \o <<>> = u /\ <<>> \o u = u
  OBVIOUS

Joined(a, b, c) == (a \o b) \o c = a \o (b \o c)

LEMMA Associative ==
  ASSUME NEW S, NEW a \in Seq(S), NEW b \in Seq(S), NEW c \in Seq(S)
  PROVE  Joined(a, b, c)
  <1> DEFINE u == (a \o b) \o c
             w == a \o (b \o c)
             l == Len(a)
             m == Len(b)
             n == Len(c)
  <1>1. l \in Nat /\ m \in Nat /\ n \in Nat
    OBVIOUS
  <1>2. /\ a \o b \in Seq(S) /\ Len(a \o b) = l + m
        /\ \A k \in 1..l : (a \o b)[k] = a[k]
        /\ \A k \in (l + 1)..(l + m) : (a \o b)[k] = b[k - l]
    BY Concats
  <1>3. /\ b \o c \in Seq(S) /\ Len(b \o c) = m + n
        /\ \A k \in 1..m : (b \o c)[k] = b[k]
        /\ \A k \in (m + 1)..(m + n) : (b \o c)[k] = c[k - m]
    BY Concats
  <1> DEFINE x == a \o b
             y == b \o c
  <1>. HIDE DEF x, y
  <1>4. /\ u \in Seq(S) /\ Len(u) = l + m + n
        /\ \A k \in 1..(l + m) : u[k] = x[k]
        /\ \A k \in (l + m + 1)..(l + m + n) : u[k] = c[k - (l + m)]
    <2>1. /\ x \o c \in Seq(S) /\ Len(x \o c) = Len(x) + Len(c)
          /\ \A k \in 1..Len(x) : (x \o c)[k] = x[k]
          /\ \A k \in (Len(x) + 1)..(Len(x) + Len(c)) : (x \o c)[k] = c[k - Len(x)]
      <3>1. x \in Seq(S) /\ c \in Seq(S)
        BY <1>2 DEF x
      <3>. HIDE DEF u, l, m, n
      <3>. QED BY <3>1, Concats
    <2>2. Len(x) = l + m /\ u = x \o c
      BY <1>2 DEF x
    <2>. HIDE DEF u
    <2>. QED BY <2>1, <2>2
  <1>5. /\ w \in Seq(S) /\ Len(w) = l + m + n
        /\ \A k \in 1..l : w[k] = a[k]
        /\ \A k \in (l + 1)..(l + m + n) : w[k] = y[k - l]
    <2>1. /\ a \o y \in Seq(S) /\ Len(a \o y) = Len(a) + Len(y)
          /\ \A k \in 1..Len(a) : (a \o y)[k] = a[k]
          /\ \A k \in (Len(a) + 1)..(Len(a) + Len(y)) : (a \o y)[k] = y[k - Len(a)]
      BY <1>3, Concats DEF y
    <2>2. Len(y) = m + n /\ w = a \o y
      BY <1>3 DEF y
    <2>3. Len(a) + Len(y) = l + m + n
      BY <1>1, <2>2
    <2>. HIDE DEF w
    <2>. QED BY <2>1, <2>2, <2>3
  <1>. HIDE DEF u, w, l, m, n
  <1>6. ASSUME NEW k \in 1..(l + m + n) PROVE u[k] = w[k]
    <2>1. CASE k \in 1..l
      <3>1. k \in 1..(l + m)
        BY <1>1, <2>1
      <3>. QED BY <1>2, <1>4, <1>5, <2>1, <3>1 DEF x
    <2>2. CASE k \in (l + 1)..(l + m)
      <3>1. k \in 1..(l + m) /\ k \in (l + 1)..(l + m + n) /\ k - l \in 1..m
        BY <1>1, <2>2
      <3>2. u[k] = b[k - l]
        BY <1>2, <1>4, <2>2, <3>1 DEF x
      <3>3. w[k] = b[k - l]
        BY <1>3, <1>5, <3>1 DEF y
      <3>. QED BY <3>2, <3>3
    <2>3. CASE k \in (l + m + 1)..(l + m + n)
      <3>1. k \in (l + 1)..(l + m + n) /\ k - l \in (m + 1)..(m + n) /\ (k - l) - m = k - (l + m)
        BY <1>1, <2>3
      <3>2. u[k] = c[k - (l + m)]
        BY <1>4, <2>3
      <3>3. w[k] = c[(k - l) - m]
        BY <1>3, <1>5, <3>1 DEF y
      <3>. QED BY <3>1, <3>2, <3>3
    <2>. QED BY <1>1, <2>1, <2>2, <2>3
  <1>7. u = w
    <2>1. Len(u) = Len(w) /\ \A k \in 1..Len(w) : u[k] = w[k]
      BY <1>4, <1>5, <1>6
    <2>. QED BY <1>4, <1>5, <2>1, SameItems
  <1>. QED BY <1>7 DEF u, w, Joined

LEMMA FlattenCons ==
  ASSUME NEW S, NEW s \in Seq(Seq(S)), s # <<>>
  PROVE  /\ FlattenSeq(s) \in Seq(S) /\ FlattenSeq(Tail(s)) \in Seq(S)
         /\ FlattenSeq(s) = s[1] \o FlattenSeq(Tail(s))
  <1> DEFINE n == Len(s)
             t == Tail(s)
  <1>1. /\ n \in Nat \ {0} /\ t \in Seq(Seq(S)) /\ Len(t) = n - 1
        /\ \A i \in 1..n : s[i] \in Seq(S)
        /\ \A i \in 1..(n - 1) : t[i] = s[i + 1]
    OBVIOUS
  <1>. HIDE DEF t
  <1>2. PICK f : Sums(f, s, S) /\ FlattenSeq(s) = f[n]
    BY FlattenSums
  <1>3. PICK g : Sums(g, t, S) /\ FlattenSeq(t) = g[n - 1]
    <2>1. \E g : Sums(g, t, S) /\ FlattenSeq(t) = g[Len(t)]
      BY <1>1, FlattenSums
    <2>. QED BY <1>1, <2>1
  <1>. HIDE DEF n
  <1>4. /\ f[0] = <<>> /\ (\A i \in 0..n : f[i] \in Seq(S))
        /\ \A i \in 1..n : f[i] = f[i - 1] \o s[i]
    BY <1>2 DEF Sums, n
  <1>5. /\ g[0] = <<>> /\ (\A i \in 0..(n - 1) : g[i] \in Seq(S))
        /\ \A i \in 1..(n - 1) : g[i] = g[i - 1] \o t[i]
    BY <1>1, <1>3 DEF Sums
  <1> DEFINE Good == {i \in Nat : i <= n - 1 => f[i + 1] = s[1] \o g[i]}
  <1>6. 0 \in Good
    <2>1. 1 \in 1..n /\ s[1] \in Seq(S) /\ 1 - 1 = 0 /\ 0 + 1 = 1
      BY <1>1
    <2>2. f[1] = f[0] \o s[1]
      BY <1>4, <2>1
    <2>3. f[1] = s[1] /\ s[1] \o g[0] = s[1]
      BY <1>4, <1>5, <2>1, <2>2, EmptyConcats
    <2>. QED BY <2>1, <2>3
  <1>7. ASSUME NEW j \in Nat, j \in Good PROVE j + 1 \in Good
    <2> SUFFICES ASSUME j + 1 <= n - 1 PROVE f[(j + 1) + 1] = s[1] \o g[j + 1]
      <3>1. j + 1 \in Nat
        OBVIOUS
      <3>. QED BY <3>1 DEF Good
    <2>1. /\ j + 2 \in 1..n /\ j + 1 \in 1..(n - 1) /\ j \in 0..(n - 1) /\ 1 \in 1..n /\ j <= n - 1
          /\ (j + 2) - 1 = j + 1 /\ (j + 1) - 1 = j /\ (j + 1) + 1 = j + 2
      BY <1>1
    <2>2. f[j + 2] = f[j + 1] \o s[j + 2] /\ g[j + 1] = g[j] \o s[j + 2]
      BY <1>1, <1>4, <1>5, <2>1
    <2>3. f[j + 1] = s[1] \o g[j]
      BY <1>7, <2>1
    <2>4. s[1] \in Seq(S) /\ g[j] \in Seq(S) /\ s[j + 2] \in Seq(S)
      BY <1>1, <1>5, <2>1
    <2>. HIDE DEF Good
    <2>5. (s[1] \o g[j]) \o s[j + 2] = s[1] \o (g[j] \o s[j + 2])
      <3>1. Joined(s[1], g[j], s[j + 2])
        BY <2>4, Associative, Zenon
      <3>. QED BY <3>1, Zenon DEF Joined
    <2>6. f[j + 2] = s[1] \o g[j + 1]
      BY <2>2, <2>3, <2>5, Zenon
    <2>. QED BY <2>1, <2>6 DEF Good
  <1>. HIDE DEF Good
  <1>8. Nat \subseteq Good
    BY <1>6, <1>7, SetInduction
  <1>9. f[n] = s[1] \o g[n - 1]
    <2>1. n - 1 \in Nat /\ n - 1 <= n - 1 /\ (n - 1) + 1 = n
      BY <1>1
    <2>. QED BY <1>8, <2>1 DEF Good
  <1>10. f[n] \in Seq(S) /\ g[n - 1] \in Seq(S)
    <2>1. n \in 0..n /\ n - 1 \in 0..(n - 1)
      BY <1>1
    <2>. QED BY <1>4, <1>5, <2>1
  <1>. QED BY <1>2, <1>3, <1>9, <1>10 DEF t

-----------------------------------------------------------------------------
(* What a head looks like.                                                  *)

(* The provers do not know that CR and LF are strings.                      *)
Tokens == STRING \cup {CR, LF}

(* Lines that are not empty, each with its end, and none of them with line  *)
(* ends inside.                                                             *)
Block(t) ==
  /\ t \in Seq(Tokens) /\ Len(t) >= 3 /\ t[1] # CR
  /\ t[Len(t) - 2] \notin {CR, LF} /\ t[Len(t) - 1] = CR /\ t[Len(t)] = LF
  /\ \A i \in 1..(Len(t) - 2) : t[i] = CR => t[i + 2] # CR

(* Such lines and an empty one: two line ends follow each other at the end  *)
(* and nowhere before it.                                                   *)
HeadText(t) ==
  /\ t \in Seq(Tokens) /\ Len(t) >= 5 /\ t[Len(t) - 4] \notin {CR, LF}
  /\ t[Len(t) - 3] = CR /\ t[Len(t) - 2] = LF /\ t[Len(t) - 1] = CR /\ t[Len(t)] = LF
  /\ \A i \in 1..(Len(t) - 4) : t[i] = CR => t[i + 2] # CR

LEMMA LineEnds ==
  /\ CRLF \in Seq(Tokens) /\ Len(CRLF) = 2 /\ CRLF[1] = CR /\ CRLF[2] = LF /\ CR # LF
  /\ Len(CRLF2) = 4 /\ CRLF2[1] = CR /\ CRLF2[2] = LF /\ CRLF2[3] = CR /\ CRLF2[4] = LF
  /\ NUL \notin {CR, LF}
  <1>1. CR # LF /\ NUL \notin {CR, LF} /\ CR \in Tokens /\ LF \in Tokens
    <2>1. CR # LF
      BY DEF CR, LF
    <2>2. NUL # CR
      BY DEF CR, NUL
    <2>3. NUL # LF
      BY DEF LF, NUL
    <2>. QED BY <2>1, <2>2, <2>3 DEF Tokens
  <1>2. CRLF \in Seq(Tokens) /\ Len(CRLF) = 2 /\ CRLF[1] = CR /\ CRLF[2] = LF
    BY <1>1 DEF CRLF
  <1>3. /\ Len(CRLF2) = Len(CRLF) + Len(CRLF)
        /\ \A k \in 1..Len(CRLF) : CRLF2[k] = CRLF[k]
        /\ \A k \in (Len(CRLF) + 1)..(Len(CRLF) + Len(CRLF)) : CRLF2[k] = CRLF[k - Len(CRLF)]
    BY <1>2, Concats DEF CRLF2
  <1>4. Len(CRLF2) = 4 /\ CRLF2[1] = CRLF[1] /\ CRLF2[2] = CRLF[2]
    BY <1>2, <1>3
  <1>5. CRLF2[3] = CRLF[3 - 2] /\ CRLF2[4] = CRLF[4 - 2] /\ 3 - 2 = 1 /\ 4 - 2 = 2
    BY <1>2, <1>3
  <1>. QED BY <1>1, <1>2, <1>4, <1>5

LEMMA LineBlock ==
  ASSUME NEW u, IsLine(u)
  PROVE  Block(u \o CRLF)
  <1> DEFINE n == Len(u)
             t == u \o CRLF
  <1>1. /\ u \in Seq(Tokens) /\ n \in Nat \ {0}
        /\ \A k \in 1..n : u[k] \notin {CR, LF}
    BY DEF IsLine, Tokens
  <1>2. /\ t \in Seq(Tokens) /\ Len(t) = n + Len(CRLF)
        /\ \A k \in 1..n : t[k] = u[k]
        /\ \A k \in (n + 1)..(n + Len(CRLF)) : t[k] = CRLF[k - n]
    <2>1. CRLF \in Seq(Tokens)
      BY LineEnds
    <2>. QED BY <1>1, <2>1, Concats
  <1>. HIDE DEF n, t
  <1>3. Len(t) = n + 2 /\ t[n + 1] = CR /\ t[n + 2] = LF
    <2>1. /\ n + 1 \in (n + 1)..(n + Len(CRLF)) /\ n + 2 \in (n + 1)..(n + Len(CRLF))
          /\ (n + 1) - n = 1 /\ (n + 2) - n = 2
      BY <1>1, LineEnds
    <2>2. t[n + 1] = CRLF[(n + 1) - n] /\ t[n + 2] = CRLF[(n + 2) - n]
      BY <1>2, <2>1
    <2>. QED BY <1>2, <2>1, <2>2, LineEnds
  <1>4. /\ Len(t) - 2 = n /\ Len(t) - 1 = n + 1 /\ Len(t) = n + 2 /\ Len(t) >= 3
        /\ 1 \in 1..n /\ n \in 1..n
    BY <1>1, <1>3
  <1>5. \A k \in 1..n : t[k] \notin {CR, LF}
    BY <1>1, <1>2
  <1>6. Block(t)
    BY <1>2, <1>3, <1>4, <1>5 DEF Block
  <1>. QED BY <1>6 DEF t

LEMMA BlocksJoin ==
  ASSUME NEW a, NEW b, Block(a), Block(b)
  PROVE  Block(a \o b)
  <1> DEFINE t == a \o b
             l == Len(a)
             n == Len(b)
  <1>1. a \in Seq(Tokens) /\ b \in Seq(Tokens) /\ l \in Nat /\ n \in Nat /\ l >= 3 /\ n >= 3
    BY DEF Block
  <1>2. /\ t \in Seq(Tokens) /\ Len(t) = l + n
        /\ \A k \in 1..l : t[k] = a[k]
        /\ \A k \in (l + 1)..(l + n) : t[k] = b[k - l]
    BY <1>1, Concats
  <1>3. /\ a[1] # CR /\ a[l - 1] = CR /\ a[l] = LF /\ b[1] # CR
        /\ b[n - 2] \notin {CR, LF} /\ b[n - 1] = CR /\ b[n] = LF
        /\ \A i \in 1..(l - 2) : a[i] = CR => a[i + 2] # CR
        /\ \A i \in 1..(n - 2) : b[i] = CR => b[i + 2] # CR
    BY DEF Block
  <1>. HIDE DEF t, l, n
  <1>4. \A k \in 1..n : t[l + k] = b[k]
    <2>1. \A k \in 1..n : l + k \in (l + 1)..(l + n) /\ (l + k) - l = k
      BY <1>1
    <2>. QED BY <1>2, <2>1
  <1>5. t[1] # CR /\ t[l] = LF
    <2>1. 1 \in 1..l /\ l \in 1..l
      BY <1>1
    <2>. QED BY <1>2, <1>3, <2>1
  <1>6. t[l + n - 2] \notin {CR, LF} /\ t[l + n - 1] = CR /\ t[l + n] = LF
    <2>1. /\ n - 2 \in 1..n /\ n - 1 \in 1..n /\ n \in 1..n
          /\ l + (n - 2) = l + n - 2 /\ l + (n - 1) = l + n - 1
      BY <1>1
    <2>2. t[l + (n - 2)] = b[n - 2] /\ t[l + (n - 1)] = b[n - 1] /\ t[l + n] = b[n]
      BY <1>4, <2>1
    <2>. QED BY <1>3, <2>1, <2>2
  <1>7. ASSUME NEW i \in 1..(l + n - 2), t[i] = CR PROVE t[i + 2] # CR
    <2>1. CASE i <= l - 2
      <3>1. i \in 1..(l - 2) /\ i \in 1..l /\ i + 2 \in 1..l
        BY <1>1, <2>1
      <3>. QED BY <1>2, <1>3, <1>7, <3>1
    <2>2. CASE i = l - 1
      <3>1. i + 2 = l + 1 /\ 1 \in 1..n
        BY <1>1, <2>2
      <3>. QED BY <1>3, <1>4, <3>1
    <2>3. CASE i = l
      BY <1>5, <1>7, <2>3, LineEnds
    <2>4. CASE i > l
      <3> DEFINE k == i - l
      <3>1. k \in 1..(n - 2) /\ k \in 1..n /\ k + 2 \in 1..n /\ l + k = i /\ l + (k + 2) = i + 2
        BY <1>1, <2>4
      <3>. HIDE DEF k
      <3>2. t[l + k] = b[k] /\ t[l + (k + 2)] = b[k + 2]
        BY <1>4, <3>1
      <3>. QED BY <1>3, <1>7, <3>1, <3>2
    <2>. QED BY <1>1, <2>1, <2>2, <2>3, <2>4
  <1>8. /\ Len(t) - 2 = l + n - 2 /\ Len(t) - 1 = l + n - 1 /\ Len(t) = l + n /\ Len(t) >= 3
    BY <1>1, <1>2
  <1>9. Block(t)
    BY <1>2, <1>5, <1>6, <1>7, <1>8 DEF Block
  <1>. QED BY <1>9 DEF t

LEMMA HeadEnds ==
  ASSUME NEW t, Block(t)
  PROVE  HeadText(t \o CRLF)
  <1> DEFINE w == t \o CRLF
             n == Len(t)
  <1>1. /\ t \in Seq(Tokens) /\ n \in Nat /\ n >= 3
        /\ t[n - 2] \notin {CR, LF} /\ t[n - 1] = CR /\ t[n] = LF
        /\ \A i \in 1..(n - 2) : t[i] = CR => t[i + 2] # CR
    BY DEF Block
  <1>2. /\ w \in Seq(Tokens) /\ Len(w) = n + Len(CRLF)
        /\ \A k \in 1..n : w[k] = t[k]
        /\ \A k \in (n + 1)..(n + Len(CRLF)) : w[k] = CRLF[k - n]
    <2>1. CRLF \in Seq(Tokens)
      BY LineEnds
    <2>. QED BY <1>1, <2>1, Concats
  <1>. HIDE DEF n, w
  <1>3. Len(w) = n + 2 /\ w[n + 1] = CR /\ w[n + 2] = LF
    <2>1. /\ n + 1 \in (n + 1)..(n + Len(CRLF)) /\ n + 2 \in (n + 1)..(n + Len(CRLF))
          /\ (n + 1) - n = 1 /\ (n + 2) - n = 2
      BY <1>1, LineEnds
    <2>2. w[n + 1] = CRLF[(n + 1) - n] /\ w[n + 2] = CRLF[(n + 2) - n]
      BY <1>2, <2>1
    <2>. QED BY <1>2, <2>1, <2>2, LineEnds
  <1>4. w[n - 2] \notin {CR, LF} /\ w[n - 1] = CR /\ w[n] = LF
    <2>1. n - 2 \in 1..n /\ n - 1 \in 1..n /\ n \in 1..n
      BY <1>1
    <2>. QED BY <1>1, <1>2, <2>1
  <1>5. ASSUME NEW i \in 1..(n - 2), w[i] = CR PROVE w[i + 2] # CR
    <2>1. i \in 1..n /\ i + 2 \in 1..n
      BY <1>1
    <2>. QED BY <1>1, <1>2, <1>5, <2>1
  <1>6. /\ Len(w) - 4 = n - 2 /\ Len(w) - 3 = n - 1 /\ Len(w) - 2 = n /\ Len(w) - 1 = n + 1
        /\ Len(w) = n + 2 /\ Len(w) >= 5
    BY <1>1, <1>3
  <1>7. HeadText(w)
    BY <1>2, <1>3, <1>4, <1>5, <1>6 DEF HeadText
  <1>. QED BY <1>7 DEF w

LEMMA BlocksAppend ==
  ASSUME NEW t, Block(t), NEW s \in Seq(Seq(Tokens)), \A n \in 1..Len(s) : Block(s[n])
  PROVE  Block(t \o FlattenSeq(s))
  <1> DEFINE n == Len(s)
  <1>1. t \in Seq(Tokens) /\ n \in Nat
    BY DEF Block
  <1>2. PICK f : Sums(f, s, Tokens) /\ FlattenSeq(s) = f[n]
    BY FlattenSums
  <1>3. /\ f[0] = <<>> /\ (\A i \in 0..n : f[i] \in Seq(Tokens))
        /\ \A i \in 1..n : f[i] = f[i - 1] \o s[i]
    BY <1>2 DEF Sums
  <1> DEFINE Good == {i \in Nat : i <= n => Block(t \o f[i])}
  <1>. HIDE DEF n
  <1>4. 0 \in Good
    <2>1. t \o f[0] = t
      BY <1>1, <1>3, EmptyConcats
    <2>. QED BY <2>1
  <1>5. ASSUME NEW j \in Nat, j \in Good PROVE j + 1 \in Good
    <2> SUFFICES ASSUME j + 1 <= n PROVE Block(t \o f[j + 1])
      <3>1. j + 1 \in Nat
        OBVIOUS
      <3>. QED BY <3>1
    <2>1. j + 1 \in 1..n /\ j \in 0..n /\ (j + 1) - 1 = j /\ j <= n
      BY <1>1
    <2>2. f[j + 1] = f[j] \o s[j + 1] /\ f[j] \in Seq(Tokens)
      BY <1>3, <2>1
    <2>3. Block(s[j + 1]) /\ s[j + 1] \in Seq(Tokens)
      BY <2>1 DEF n, Block
    <2>4. Block(t \o f[j])
      BY <1>5, <2>1
    <2>. HIDE DEF Good
    <2>5. Joined(t, f[j], s[j + 1])
      BY <1>1, <2>2, <2>3, Associative, Zenon
    <2>6. t \o f[j + 1] = (t \o f[j]) \o s[j + 1]
      BY <2>2, <2>5, Zenon DEF Joined
    <2>7. Block((t \o f[j]) \o s[j + 1])
      BY <2>3, <2>4, BlocksJoin, Zenon
    <2>. QED BY <2>6, <2>7, Zenon
  <1>. HIDE DEF Good
  <1>6. n \in Good
    BY <1>1, <1>4, <1>5, SetInduction
  <1>. QED BY <1>1, <1>2, <1>6 DEF Good

LEMMA HeadIs ==
  ASSUME NEW h, IsHead(h)
  PROVE  HeadText(Raw(h))
  <1> DEFINE hs == h.headers
             s == [n \in DOMAIN hs |-> RawHeader(hs[n])]
             b == RequestLine(h) \o CRLF
  <1>1. Block(b)
    BY LineBlock DEF IsHead
  <1>2. /\ hs \in Seq(Range(hs)) /\ DOMAIN hs = 1..Len(hs) /\ Len(hs) \in Nat
        /\ \A n \in 1..Len(hs) : Block(s[n])
    <2>1. hs \in Seq(Range(hs)) /\ \A n \in DOMAIN hs : IsLine(HeaderLine(hs[n]))
      BY DEF IsHead
    <2>. HIDE DEF hs
    <2>2. DOMAIN hs = 1..Len(hs) /\ Len(hs) \in Nat
      BY <2>1
    <2>3. ASSUME NEW n \in DOMAIN hs PROVE Block(s[n])
      <3>1. Block(HeaderLine(hs[n]) \o CRLF)
        BY <2>1, LineBlock, Zenon
      <3>. QED BY <3>1 DEF RawHeader
    <2>. HIDE DEF s
    <2>. QED BY <2>1, <2>2, <2>3
  <1>3. s \in Seq(Seq(Tokens)) /\ Len(s) = Len(hs)
    <2> DEFINE n == Len(hs)
    <2>1. \A i \in 1..n : s[i] \in Seq(Tokens)
      BY <1>2 DEF Block
    <2>. HIDE DEF hs
    <2>2. s \in [1..n -> Seq(Tokens)] /\ n \in Nat
      BY <1>2, <2>1
    <2>. HIDE DEF s, n
    <2>. QED BY <2>2, ListIsSequence DEF n
  <1>4. Raw(h) = (b \o FlattenSeq(s)) \o CRLF
    BY DEF Raw, RawHeaders
  <1>. HIDE DEF s, b, hs
  <1>5. Block(b \o FlattenSeq(s))
    BY <1>1, <1>2, <1>3, BlocksAppend
  <1>. QED BY <1>4, <1>5, HeadEnds

-----------------------------------------------------------------------------
(* The stream behind the first k heads.                                     *)

Heads(hs) == hs \in Seq(Range(hs)) /\ \A n \in 1..Len(hs) : HeadText(Raw(hs[n]))

Spelt(hs, k) == LET x == SubSeq(hs, k + 1, Len(hs)) IN [i \in DOMAIN x |-> Raw(x[i])]
Rest(hs, k)  == FlattenSeq(Spelt(hs, k))

LEMMA SpeltIs ==
  ASSUME NEW hs, Heads(hs), NEW k \in 0..Len(hs)
  PROVE  /\ Spelt(hs, k) \in Seq(Seq(Tokens)) /\ Len(Spelt(hs, k)) = Len(hs) - k
         /\ \A i \in 1..(Len(hs) - k) : Spelt(hs, k)[i] = Raw(hs[k + i])
  <1> DEFINE n == Len(hs)
             x == SubSeq(hs, k + 1, n)
             s == Spelt(hs, k)
  <1>1. n \in Nat /\ k \in Nat /\ k <= n /\ n - k \in Nat
    BY DEF Heads
  <1>2. /\ DOMAIN x = 1..(n - k)
        /\ \A i \in 1..(n - k) : x[i] = hs[k + i]
    BY <1>1 DEF Heads
  <1>3. s = [i \in DOMAIN x |-> Raw(x[i])]
    BY DEF Spelt
  <1>. HIDE DEF x, s
  <1>4. \A i \in 1..(n - k) : s[i] = Raw(hs[k + i])
    <2>. HIDE DEF n
    <2>. QED BY <1>2, <1>3
  <1>5. ASSUME NEW i \in 1..(n - k) PROVE s[i] \in Seq(Tokens)
    <2>1. k + i \in 1..n
      BY <1>1
    <2>2. HeadText(Raw(hs[k + i]))
      BY <2>1 DEF Heads
    <2>. QED BY <1>4, <2>2 DEF HeadText
  <1> DEFINE m == n - k
  <1>6. s \in [1..m -> Seq(Tokens)]
    BY <1>2, <1>3, <1>5
  <1>. HIDE DEF m
  <1>7. s \in Seq(Seq(Tokens)) /\ Len(s) = m
    BY <1>1, <1>6, ListIsSequence DEF m
  <1>. QED BY <1>4, <1>7 DEF m, s

LEMMA RestIs ==
  ASSUME NEW hs, Heads(hs), NEW k \in 0..Len(hs)
  PROVE  /\ Rest(hs, k) \in Seq(Tokens)
         /\ k = Len(hs) => Rest(hs, k) = <<>>
         /\ k < Len(hs) => Rest(hs, k) = Raw(hs[k + 1]) \o Rest(hs, k + 1)
  <1> DEFINE n == Len(hs)
             s == Spelt(hs, k)
             t == Spelt(hs, k + 1)
  <1>1. n \in Nat /\ k \in Nat /\ k <= n
    BY DEF Heads
  <1>2. s \in Seq(Seq(Tokens)) /\ Len(s) = n - k /\ \A i \in 1..(n - k) : s[i] = Raw(hs[k + i])
    BY SpeltIs
  <1>3. CASE k = n
    <2>. HIDE DEF s
    <2>1. s = <<>> /\ Len(s) = 0
      BY <1>1, <1>2, <1>3
    <2>2. FlattenSeq(s) = <<>>
      BY <2>1 DEF FlattenSeq
    <2>. QED BY <1>3, <2>2 DEF Rest, s
  <1>4. CASE k < n
    <2>1. k + 1 \in 0..n
      BY <1>1, <1>4
    <2>2. /\ t \in Seq(Seq(Tokens)) /\ Len(t) = n - (k + 1)
          /\ \A i \in 1..(n - (k + 1)) : t[i] = Raw(hs[(k + 1) + i])
      BY <2>1, SpeltIs
    <2>. HIDE DEF s, t
    <2>3. s # <<>> /\ s[1] = Raw(hs[k + 1])
      BY <1>1, <1>2, <1>4
    <2>4. Tail(s) = t
      <3> DEFINE x == Tail(s)
      <3>1. x \in Seq(Seq(Tokens)) /\ Len(x) = n - k - 1 /\ \A i \in 1..(n - k - 1) : x[i] = s[i + 1]
        BY <1>1, <1>2, <2>3
      <3>. HIDE DEF x, n
      <3>2. ASSUME NEW i \in 1..Len(t) PROVE x[i] = t[i]
        <4>1. i \in 1..(n - k - 1) /\ i + 1 \in 1..(n - k) /\ i \in 1..(n - (k + 1)) /\ k + (i + 1) = (k + 1) + i
          BY <1>1, <2>2
        <4>2. x[i] = Raw(hs[k + (i + 1)]) /\ t[i] = Raw(hs[(k + 1) + i])
          BY <1>2, <2>2, <3>1, <4>1
        <4>. QED BY <4>1, <4>2
      <3>3. Len(x) = Len(t)
        BY <1>1, <2>2, <3>1
      <3>4. x = t
        BY <2>2, <3>1, <3>2, <3>3, SameItems
      <3>. QED BY <3>4 DEF x
    <2>5. FlattenSeq(s) \in Seq(Tokens) /\ FlattenSeq(s) = s[1] \o FlattenSeq(Tail(s))
      BY <1>2, <2>3, FlattenCons
    <2>6. Rest(hs, k) = Raw(hs[k + 1]) \o Rest(hs, k + 1) /\ Rest(hs, k) \in Seq(Tokens)
      BY <2>3, <2>4, <2>5 DEF Rest, s, t
    <2>. QED BY <1>4, <2>6
  <1>. QED BY <1>1, <1>3, <1>4

-----------------------------------------------------------------------------
(* The end of the head, in the bytes of the pool.                           *)

(* The first l bytes begin like t.                                          *)
Starts(d, l, t) == \A i \in 1..Len(t) : i <= l => d[i] = t[i]

(* The bytes of the pool.                                                   *)
Bytes(d) == d = [i \in 1..PoolSize |-> d[i]]

DoubleEnd(d, i) == d[i] = CR /\ d[i + 1] = LF /\ d[i + 2] = CR /\ d[i + 3] = LF

LEMMA MatchesDoubleEnd ==
  ASSUME NEW d, Len(d) \in Nat, NEW i \in Nat
  PROVE  MatchesAt(d, i, CRLF2) <=> i + 3 <= Len(d) /\ DoubleEnd(d, i)
  <1>1. /\ 1..Len(CRLF2) = {1, 2, 3, 4}
        /\ i + 1 - 1 = i /\ i + 2 - 1 = i + 1 /\ i + 3 - 1 = i + 2 /\ i + 4 - 1 = i + 3
    BY LineEnds
  <1>2. MatchesAt(d, i, CRLF2) <=>
          \A k \in {1, 2, 3, 4} : i + k - 1 <= Len(d) /\ d[i + k - 1] = CRLF2[k]
    BY <1>1 DEF MatchesAt
  <1>. QED BY <1>1, <1>2, LineEnds DEF DoubleEnd

(* x is what VString_FindSubstring returns of the bytes d when it begins a  *)
(* comparison at each of the first l.                                       *)
FoundIn(x, d, l) ==
  LET at == {i \in 1..l : MatchesAt(d, i, CRLF2)}
  IN  x = IF at = {} THEN 0 ELSE Min(at) - 1 + Len(CRLF2)

LEMMA FindsIn ==
  ASSUME NEW s, NEW b
  PROVE  FoundIn(VString_FindSubstring(s, b, CRLF2), s.Data \o b, s.Length)
  BY Zenon DEF FoundIn, VString_FindSubstring

(* VString_FindSubstring stops at the first of them that begins before      *)
(* Length.                                                                  *)
LEMMA FindsFirst ==
  ASSUME NEW d, Len(d) \in Nat, NEW l \in Nat, l <= Len(d), NEW x, FoundIn(x, d, l)
  PROVE  \/ x = 0
         \/ /\ x - 3 \in 1..l /\ x \in Nat /\ x <= Len(d) /\ DoubleEnd(d, x - 3)
            /\ \A i \in 1..l : i + 3 <= Len(d) /\ DoubleEnd(d, i) => x - 3 <= i
  <1> DEFINE at == {i \in 1..l : MatchesAt(d, i, CRLF2)}
  <1>1. x = IF at = {} THEN 0 ELSE Min(at) - 1 + 4
    BY LineEnds DEF FoundIn
  <1>2. \A i \in 1..l : i \in at <=> i + 3 <= Len(d) /\ DoubleEnd(d, i)
    BY MatchesDoubleEnd
  <1>3. at \in SUBSET Nat /\ \A i \in at : i \in 1..l
    OBVIOUS
  <1>. HIDE DEF at
  <1>4. CASE at = {}
    BY <1>1, <1>4
  <1>5. CASE at # {}
    <2>1. Min(at) \in at /\ \A i \in at : Min(at) <= i
      BY <1>3, <1>5, LeastChosen DEF Min
    <2>2. Min(at) \in Nat /\ Min(at) \in 1..l
      BY <1>3, <2>1
    <2> DEFINE y == Min(at)
    <2>. HIDE DEF y
    <2>3. x = y + 3 /\ x - 3 = y /\ x \in Nat
      BY <1>1, <1>5, <2>2 DEF y
    <2>4. y + 3 <= Len(d) /\ DoubleEnd(d, y)
      BY <1>2, <2>1, <2>2 DEF y
    <2>5. \A i \in 1..l : i + 3 <= Len(d) /\ DoubleEnd(d, i) => y <= i
      BY <1>2, <2>1 DEF y
    <2>. QED BY <2>2, <2>3, <2>4, <2>5 DEF y
  <1>. QED BY <1>4, <1>5

(* That is the end of the head the bytes begin with, if it lies before      *)
(* Length.                                                                  *)
LEMMA FindsHead ==
  ASSUME NEW t, HeadText(t), NEW d, Len(d) \in Nat, NEW l \in Nat, l <= Len(d),
         NEW x, FoundIn(x, d, l), Starts(d, l, t), x > 0, x <= l
  PROVE  x = Len(t)
  <1> DEFINE m == Len(t)
  <1>1. /\ m \in Nat /\ m >= 5
        /\ t[m - 3] = CR /\ t[m - 2] = LF /\ t[m - 1] = CR /\ t[m] = LF
        /\ \A i \in 1..(m - 4) : t[i] = CR => t[i + 2] # CR
    BY DEF HeadText
  <1>2. /\ x - 3 \in 1..l /\ x \in Nat /\ DoubleEnd(d, x - 3)
        /\ \A i \in 1..l : i + 3 <= Len(d) /\ DoubleEnd(d, i) => x - 3 <= i
    BY FindsFirst
  <1>3. \A i \in 1..m : i <= l => d[i] = t[i]
    BY DEF Starts
  <1>. HIDE DEF m
  <1>4. x >= m
    <2> SUFFICES ASSUME x < m PROVE FALSE
      BY <1>1, <1>2
    <2>1. /\ x - 3 \in 1..(m - 4) /\ x - 3 \in 1..m /\ (x - 3) + 2 \in 1..m
          /\ x - 3 <= l /\ (x - 3) + 2 <= l
      BY <1>1, <1>2
    <2>2. d[x - 3] = CR /\ d[(x - 3) + 2] = CR
      BY <1>2 DEF DoubleEnd
    <2>. QED BY <1>1, <1>3, <2>1, <2>2
  <1>5. DoubleEnd(d, m - 3)
    <2>1. /\ m - 3 \in 1..m /\ m - 2 \in 1..m /\ m - 1 \in 1..m /\ m \in 1..m /\ m <= l
          /\ m - 3 <= l /\ m - 2 <= l /\ m - 1 <= l
          /\ (m - 3) + 1 = m - 2 /\ (m - 3) + 2 = m - 1 /\ (m - 3) + 3 = m
      BY <1>1, <1>2, <1>4
    <2>2. d[m - 3] = CR /\ d[m - 2] = LF /\ d[m - 1] = CR /\ d[m] = LF
      BY <1>1, <1>3, <2>1
    <2>. QED BY <2>1, <2>2 DEF DoubleEnd
  <1>6. m - 3 \in 1..l /\ (m - 3) + 3 <= Len(d)
    BY <1>1, <1>2, <1>4
  <1>7. x - 3 <= m - 3
    BY <1>2, <1>5, <1>6
  <1>. QED BY <1>1, <1>2, <1>4, <1>7 DEF m

(* Behind Length nothing is found as long as no head was parsed and the     *)
(* pool is not full.                                                        *)
LEMMA FindsWithin ==
  ASSUME NEW d, Len(d) \in Nat, NEW l \in Nat, l <= Len(d), NEW x, FoundIn(x, d, l),
         NEW m \in Nat, l + 3 <= m, \A i \in (l + 1)..m : d[i] = NUL
  PROVE  x <= l
  <1>1. CASE x = 0
    BY <1>1
  <1>2. CASE x - 3 \in 1..l /\ x \in Nat /\ x <= Len(d) /\ DoubleEnd(d, x - 3)
    <2>1. (x - 3) + 3 = x
      BY <1>2
    <2>2. d[x] = LF
      BY <1>2, <2>1 DEF DoubleEnd
    <2> SUFFICES ASSUME ~(x <= l) PROVE FALSE
      OBVIOUS
    <2>3. x \in (l + 1)..m
      BY <1>2
    <2>. QED BY <2>2, <2>3, LineEnds
  <1>. QED BY <1>1, <1>2, FindsFirst

(* The search goes on in what lies behind the allocation.                   *)
LEMMA BytesSearched ==
  ASSUME NEW d, Bytes(d), NEW b \in Behind
  PROVE  /\ Len(d \o b) = PoolSize + 3
         /\ \A i \in 1..PoolSize : (d \o b)[i] = d[i]
  <1> DEFINE S == {d[i] : i \in 1..PoolSize} \cup {CR, LF, Junk}
  <1>1. d \in [1..PoolSize -> S] /\ PoolSize \in Nat
    BY RequestAssumption DEF Bytes
  <1>2. b \in [1..3 -> S]
    BY DEF Behind
  <1>. HIDE DEF S
  <1>3. d \in Seq(S) /\ Len(d) = PoolSize /\ b \in Seq(S) /\ Len(b) = 3
    BY <1>1, <1>2, ListIsSequence
  <1>4. Len(d \o b) = Len(d) + Len(b) /\ \A i \in 1..Len(d) : (d \o b)[i] = d[i]
    BY <1>3, Concats
  <1> DEFINE e == d \o b
  <1>5. Len(e) = Len(d) + Len(b) /\ \A i \in 1..Len(d) : e[i] = d[i]
    BY <1>4
  <1>. HIDE DEF e
  <1>6. Len(e) = PoolSize + 3 /\ \A i \in 1..PoolSize : e[i] = d[i]
    BY <1>3, <1>5
  <1>. QED BY <1>6 DEF e

LEMMA SmallerOf ==
  ASSUME NEW m \in Nat, NEW n \in Nat
  PROVE  Min({m, n}) \in {m, n} /\ Min({m, n}) <= m /\ Min({m, n}) <= n
  <1>1. {m, n} \in SUBSET Nat /\ {m, n} # {}
    OBVIOUS
  <1>. QED BY <1>1, LeastChosen DEF Min

-----------------------------------------------------------------------------
(* The loop of VString_SplitBySubstring.                                    *)

Views       == [at : Int, len : Int]
SplitStates == [views : Seq(Views), start : Int, check : Nat, full : BOOLEAN]

SplitStart(v) == [views |-> <<>>, start |-> v.at, check |-> 0, full |-> FALSE]

(* f holds its states.                                                      *)
SplitLoop(f, data, v, sub, most) ==
  /\ f[0] = SplitStart(v)
  /\ \A n \in 1..v.len : f[n] = SplitStep(f[n - 1], data, v.at + n - 1, sub, most)
  /\ Split(data, v, sub, most) = f[v.len]

LEMMA SplitLoops ==
  ASSUME NEW data, NEW v, v.len \in Nat, NEW sub, NEW most
  PROVE  \E f : SplitLoop(f, data, v, sub, most)
  <1> DEFINE n == v.len
             first == [views |-> <<>>, start |-> v.at, check |-> 0, full |-> FALSE]
             Step(x, k) == SplitStep(x, data, v.at + k - 1, sub, most)
             Rule(f, m) == f = [k \in 0..m |-> IF k = 0 THEN first ELSE Step(f[k - 1], k)]
  <1>1. n \in Nat
    OBVIOUS
  <1>. HIDE DEF first, Step, n
  <1>2. ASSUME NEW m \in Nat PROVE \E f : Rule(f, m)
    <2> DEFINE Good == {i \in Nat : \E f : Rule(f, i)}
    <2>1. 0 \in Good
      <3>1. Rule([k \in 0..0 |-> first], 0)
        OBVIOUS
      <3>. HIDE DEF Rule
      <3>. QED BY <3>1
    <2>2. ASSUME NEW i \in Nat, i \in Good PROVE i + 1 \in Good
      <3>1. PICK f : Rule(f, i)
        BY <2>2
      <3> DEFINE g == [k \in 0..(i + 1) |-> IF k = i + 1 THEN Step(f[i], k) ELSE f[k]]
      <3>2. Rule(g, i + 1) /\ i + 1 \in Nat
        BY <3>1
      <3>. HIDE DEF g, Rule
      <3>. QED BY <3>2, Zenon
    <2>. HIDE DEF Good
    <2>3. Nat \subseteq Good
      BY <2>1, <2>2, SetInduction
    <2>. QED BY <2>3 DEF Good
  <1> DEFINE After == CHOOSE f : Rule(f, n)
  <1>3. Rule(After, n)
    BY <1>1, <1>2
  <1>4. Split(data, v, sub, most) = After[n]
    BY DEF Split, n, first, Step
  <1>. HIDE DEF After
  <1>6. After[0] = SplitStart(v)
    <2>1. After[0] = first
      BY <1>1, <1>3
    <2>. QED BY <2>1 DEF first, SplitStart
  <1>7. ASSUME NEW k \in 1..n PROVE After[k] = SplitStep(After[k - 1], data, v.at + k - 1, sub, most)
    <2>1. k \in 0..n /\ k # 0
      BY <1>1
    <2>2. After[k] = Step(After[k - 1], k)
      BY <1>3, <2>1
    <2>. QED BY <2>2 DEF Step
  <1>8. SplitLoop(After, data, v, sub, most)
    BY <1>4, <1>6, <1>7, Zenon DEF SplitLoop, n
  <1>. QED BY <1>8, Zenon

LEMMA StepKeepsState ==
  ASSUME NEW a \in SplitStates, NEW data, NEW i \in Int, NEW sub, Len(sub) \in Nat, NEW most
  PROVE  SplitStep(a, data, i, sub, most) \in SplitStates
  <1> DEFINE b == SplitStep(a, data, i, sub, most)
             len == i + 1 - Len(sub) - a.start
             views == IF len = 0 THEN a.views ELSE Append(a.views, View(a.start, len))
  <1>1. /\ a.views \in Seq(Views) /\ a.start \in Int /\ a.check \in Nat /\ a.full \in BOOLEAN
        /\ len \in Int
    BY DEF SplitStates
  <1>2. views \in Seq(Views)
    <2>1. View(a.start, len) \in Views
      BY <1>1 DEF View, Views
    <2>. HIDE DEF len
    <2>. QED BY <1>1, <2>1
  <1>3. \/ b = a
        \/ b = [a EXCEPT !.check = 0]
        \/ b = [a EXCEPT !.check = @ + 1]
        \/ b = [a EXCEPT !.full = TRUE]
        \/ b = [a EXCEPT !.views = views, !.start = i + 1, !.check = 0]
    BY DEF SplitStep
  <1>. HIDE DEF b, views, len
  <1> SUFFICES b \in SplitStates
    BY DEF b
  <1>4. CASE b = a
    BY <1>4
  <1>5. CASE b = [a EXCEPT !.check = 0]
    BY <1>1, <1>5 DEF SplitStates
  <1>6. CASE b = [a EXCEPT !.check = @ + 1]
    <2>1. a.check + 1 \in Nat
      BY <1>1
    <2>. QED BY <1>6, <2>1 DEF SplitStates
  <1>7. CASE b = [a EXCEPT !.full = TRUE]
    BY <1>1, <1>7 DEF SplitStates
  <1>8. CASE b = [a EXCEPT !.views = views, !.start = i + 1, !.check = 0]
    <2>1. i + 1 \in Int
      OBVIOUS
    <2>. QED BY <1>2, <1>8, <2>1 DEF SplitStates
  <1>. QED BY <1>3, <1>4, <1>5, <1>6, <1>7, <1>8

LEMMA FullHasViews ==
  ASSUME NEW a \in SplitStates, a.full => a.views # <<>>, NEW data, NEW i, NEW sub,
         NEW most \in Nat \ {0}, SplitStep(a, data, i, sub, most).full
  PROVE  SplitStep(a, data, i, sub, most).views # <<>>
  <1> DEFINE b == SplitStep(a, data, i, sub, most)
  <1>1. /\ a.views \in Seq(Views) /\ a.full \in BOOLEAN
        /\ Len(a.views) = most => a.views # <<>>
    BY DEF SplitStates
  <1>2. CASE a.full
    <2>1. b = a
      BY <1>2 DEF SplitStep
    <2>. HIDE DEF b
    <2>2. b.views # <<>>
      BY <1>2, <2>1
    <2>. QED BY <2>2 DEF b
  <1>3. CASE ~a.full /\ b = [a EXCEPT !.full = TRUE] /\ Len(a.views) = most
    <2>. HIDE DEF b
    <2>1. b.views = a.views
      BY <1>3 DEF SplitStates
    <2>2. b.views # <<>>
      BY <1>1, <1>3, <2>1
    <2>. QED BY <2>2 DEF b
  <1>4. CASE /\ ~a.full
             /\ \/ b = [a EXCEPT !.check = 0]
                \/ b = [a EXCEPT !.check = @ + 1]
                \/ \E x, y : b = [a EXCEPT !.views = x, !.start = y, !.check = 0]
    <2>. HIDE DEF b
    <2>1. b.full = a.full
      BY <1>4 DEF SplitStates
    <2>2. ~b.full
      BY <1>4, <2>1
    <2>. QED BY <2>2 DEF b
  <1>. QED BY <1>2, <1>3, <1>4 DEF SplitStep

(* There is at least one piece.                                             *)
LEMMA SplitsToViews ==
  ASSUME NEW data, NEW v, v.at \in Int, v.len \in Nat, NEW sub, Len(sub) \in Nat,
         NEW most \in Nat \ {0}
  PROVE  /\ VString_SplitBySubstring(data, v, sub, most).views \in Seq(Views)
         /\ VString_SplitBySubstring(data, v, sub, most).views # <<>>
  <1> DEFINE n == v.len
  <1>1. PICK f : SplitLoop(f, data, v, sub, most)
    BY SplitLoops
  <1>2. /\ f[0] = SplitStart(v)
        /\ \A k \in 1..n : f[k] = SplitStep(f[k - 1], data, v.at + k - 1, sub, most)
        /\ Split(data, v, sub, most) = f[n]
    BY <1>1 DEF SplitLoop
  <1> DEFINE Good == {i \in Nat : i <= n => f[i] \in SplitStates /\ (f[i].full => f[i].views # <<>>)}
  <1>3. 0 \in Good
    <2>1. SplitStart(v) \in SplitStates /\ ~SplitStart(v).full
      BY DEF SplitStart, SplitStates
    <2>. QED BY <1>2, <2>1
  <1>4. ASSUME NEW i \in Nat, i \in Good PROVE i + 1 \in Good
    <2> SUFFICES ASSUME i + 1 <= n
                 PROVE  f[i + 1] \in SplitStates /\ (f[i + 1].full => f[i + 1].views # <<>>)
      <3>1. i + 1 \in Nat
        OBVIOUS
      <3>. QED BY <3>1
    <2>1. i + 1 \in 1..n /\ (i + 1) - 1 = i /\ i <= n /\ v.at + (i + 1) - 1 \in Int
      OBVIOUS
    <2>2. f[i] \in SplitStates /\ (f[i].full => f[i].views # <<>>)
      BY <1>4, <2>1
    <2> DEFINE k == v.at + (i + 1) - 1
               b == SplitStep(f[i], data, k, sub, most)
    <2>3. f[i + 1] = b
      BY <1>2, <2>1
    <2>. HIDE DEF Good, k
    <2>4. b \in SplitStates
      BY <2>1, <2>2, StepKeepsState DEF k
    <2>5. b.full => b.views # <<>>
      BY <2>2, FullHasViews
    <2>. HIDE DEF b
    <2>. QED BY <2>3, <2>4, <2>5
  <1>. HIDE DEF Good
  <1>5. n \in Good
    BY <1>3, <1>4, SetInduction
  <1> DEFINE e == f[n]
             w == View(e.start, v.at + v.len - e.start)
  <1>6. e \in SplitStates /\ (e.full => e.views # <<>>)
    BY <1>5 DEF Good
  <1>7. VString_SplitBySubstring(data, v, sub, most).views = IF e.full THEN e.views ELSE Append(e.views, w)
    BY <1>2 DEF VString_SplitBySubstring
  <1>. HIDE DEF e
  <1>8. e.views \in Seq(Views) /\ e.start \in Int
    BY <1>6 DEF SplitStates
  <1>9. w \in Views
    BY <1>8 DEF View, Views
  <1>. HIDE DEF w
  <1>10. Append(e.views, w) \in Seq(Views) /\ Append(e.views, w) # <<>>
    BY <1>8, <1>9
  <1>. QED BY <1>6, <1>7, <1>8, <1>10

(* After k bytes of the split into heads: no view before the first head's   *)
(* last byte, and no more than CR LF of a separator matched before its last *)
(* line ends.                                                               *)
HeadCut(a, d, m, k) ==
  /\ a \in SplitStates
  /\ k < m => a.views = <<>> /\ a.start = 1 /\ ~a.full
  /\ k <= m - 5 => \/ a.check = 0
                   \/ a.check = 1 /\ k >= 1 /\ d[k] = CR
                   \/ a.check = 2 /\ k >= 2 /\ d[k - 1] = CR
  /\ m - 4 <= k /\ k < m => a.check = k - (m - 4)
  /\ m <= k => a.views # <<>> /\ a.views[1] = View(1, m - 4)

LEMMA HeadCutKeeps ==
  ASSUME NEW t, HeadText(t), NEW d, NEW l \in Nat, Len(t) <= l, Starts(d, l, t),
         NEW k \in Nat, k < l, NEW a, HeadCut(a, d, Len(t), k)
  PROVE  HeadCut(SplitStep(a, d, k + 1, CRLF2, 2), d, Len(t), k + 1)
  <1> DEFINE m == Len(t)
             b == SplitStep(a, d, k + 1, CRLF2, 2)
  <1>1. /\ m \in Nat /\ m >= 5 /\ t[m - 4] \notin {CR, LF}
        /\ t[m - 3] = CR /\ t[m - 2] = LF /\ t[m - 1] = CR /\ t[m] = LF
        /\ \A i \in 1..(m - 4) : t[i] = CR => t[i + 2] # CR
    BY DEF HeadText
  <1>2. \A i \in 1..m : d[i] = t[i]
    BY <1>1 DEF Starts
  <1>3. a \in SplitStates /\ a.views \in Seq(Views) /\ a.check \in Nat
    BY DEF HeadCut, SplitStates
  <1>4. b \in SplitStates
    BY <1>3, LineEnds, StepKeepsState
  <1>. HIDE DEF m, b
  <1>5. CASE k <= m - 5
    <2>1. /\ a.views = <<>> /\ a.start = 1 /\ ~a.full /\ k < m /\ k + 1 < m /\ k + 1 \in 1..m
          /\ \/ a.check = 0
             \/ a.check = 1 /\ k >= 1 /\ d[k] = CR
             \/ a.check = 2 /\ k >= 2 /\ d[k - 1] = CR
      BY <1>1, <1>5 DEF HeadCut, m
    <2>2. CASE d[k + 1] # CRLF2[a.check + 1]
      <3>1. b = [a EXCEPT !.check = 0]
        BY <2>1, <2>2 DEF b, SplitStep
      <3>2. b.views = <<>> /\ b.start = 1 /\ ~b.full /\ b.check = 0
        BY <1>3, <2>1, <3>1 DEF SplitStates
      <3>3. m - 4 <= k + 1 => (k + 1) - (m - 4) = 0
        BY <1>1, <1>5
      <3>4. ~(m <= k + 1)
        BY <1>1, <1>5
      <3>5. HeadCut(b, d, m, k + 1)
        BY <1>4, <3>2, <3>3, <3>4 DEF HeadCut
      <3>. QED BY <3>5 DEF b, m
    <2>3. CASE d[k + 1] = CRLF2[a.check + 1]
      <3>1. CRLF2[a.check + 1] \in {CR, LF} /\ (a.check \in {0, 2} => CRLF2[a.check + 1] = CR)
        <4>1. CASE a.check = 0
          BY <4>1, LineEnds
        <4>2. CASE a.check = 1
          <5>1. a.check + 1 = 2
            BY <4>2
          <5>. QED BY <4>2, <5>1, LineEnds
        <4>3. CASE a.check = 2
          <5>1. a.check + 1 = 3
            BY <4>3
          <5>. QED BY <4>3, <5>1, LineEnds
        <4>. QED BY <2>1, <4>1, <4>2, <4>3
      <3>2. k + 1 # m - 4
        BY <1>1, <1>2, <2>1, <2>3, <3>1
      <3>3. a.check # 2
        <4> SUFFICES ASSUME a.check = 2 PROVE FALSE
          OBVIOUS
        <4>1. k - 1 \in 1..(m - 4) /\ k - 1 \in 1..m /\ (k - 1) + 2 = k + 1
          BY <1>1, <1>5, <2>1
        <4>2. t[k - 1] = CR /\ t[(k - 1) + 2] = CR
          BY <1>2, <2>1, <2>3, <3>1, <4>1
        <4>. QED BY <1>1, <4>1, <4>2
      <3>4. b = [a EXCEPT !.check = @ + 1]
        <4>1. a.check + 1 < 4 /\ Len(CRLF2) = 4
          BY <2>1, LineEnds
        <4>. QED BY <2>1, <2>3, <4>1 DEF b, SplitStep
      <3>5. b.views = <<>> /\ b.start = 1 /\ ~b.full /\ b.check = a.check + 1
        BY <1>3, <2>1, <3>4 DEF SplitStates
      <3>6. k + 1 <= m - 5 /\ ~(m - 4 <= k + 1) /\ ~(m <= k + 1) /\ (k + 1) - 1 = k
        BY <1>1, <1>5, <3>2
      <3>7. \/ b.check = 1 /\ k + 1 >= 1 /\ d[k + 1] = CR
            \/ b.check = 2 /\ k + 1 >= 2 /\ d[(k + 1) - 1] = CR
        <4>1. CASE a.check = 0
          BY <2>3, <3>1, <3>5, <4>1
        <4>2. CASE a.check = 1
          BY <2>1, <3>5, <3>6, <4>2
        <4>. QED BY <2>1, <3>3, <4>1, <4>2
      <3>8. HeadCut(b, d, m, k + 1)
        BY <1>4, <3>5, <3>6, <3>7 DEF HeadCut
      <3>. QED BY <3>8 DEF b, m
    <2>. QED BY <2>2, <2>3
  <1>6. CASE m - 4 <= k /\ k < m
    <2>1. a.views = <<>> /\ a.start = 1 /\ ~a.full /\ a.check = k - (m - 4) /\ k + 1 \in 1..m
      BY <1>1, <1>6 DEF HeadCut, m
    <2>2. d[k + 1] = CRLF2[a.check + 1] /\ a.check \in 0..3
      <3>1. k = m - 4 \/ k = m - 3 \/ k = m - 2 \/ k = m - 1
        BY <1>1, <1>6
      <3>2. CASE k = m - 4
        <4>1. k + 1 = m - 3 /\ a.check + 1 = 1
          BY <1>1, <2>1, <3>2
        <4>. QED BY <1>1, <1>2, <2>1, <3>2, <4>1, LineEnds
      <3>3. CASE k = m - 3
        <4>1. k + 1 = m - 2 /\ a.check + 1 = 2
          BY <1>1, <2>1, <3>3
        <4>. QED BY <1>1, <1>2, <2>1, <3>3, <4>1, LineEnds
      <3>4. CASE k = m - 2
        <4>1. k + 1 = m - 1 /\ a.check + 1 = 3
          BY <1>1, <2>1, <3>4
        <4>. QED BY <1>1, <1>2, <2>1, <3>4, <4>1, LineEnds
      <3>5. CASE k = m - 1
        <4>1. k + 1 = m /\ a.check + 1 = 4
          BY <1>1, <2>1, <3>5
        <4>. QED BY <1>1, <1>2, <2>1, <3>5, <4>1, LineEnds
      <3>. QED BY <3>1, <3>2, <3>3, <3>4, <3>5
    <2>3. CASE a.check < 3
      <3>1. a.check + 1 < 4 /\ Len(CRLF2) = 4
        BY <2>2, <2>3, LineEnds
      <3>2. b = [a EXCEPT !.check = @ + 1]
        BY <2>1, <2>2, <3>1 DEF b, SplitStep
      <3>3. b.views = <<>> /\ b.start = 1 /\ ~b.full /\ b.check = a.check + 1
        BY <1>3, <2>1, <3>2 DEF SplitStates
      <3>4. ~(k + 1 <= m - 5) /\ ~(m <= k + 1) /\ a.check + 1 = (k + 1) - (m - 4)
        BY <1>1, <1>6, <2>1, <2>3
      <3>5. HeadCut(b, d, m, k + 1)
        BY <1>4, <3>3, <3>4 DEF HeadCut
      <3>. QED BY <3>5 DEF b, m
    <2>4. CASE a.check = 3
      <3> DEFINE len == (k + 1) + 1 - Len(CRLF2) - a.start
      <3>1. k + 1 = m /\ len = m - 4 /\ len # 0 /\ ~(a.check + 1 < Len(CRLF2)) /\ Len(a.views) # 2
        BY <1>1, <1>6, <2>1, <2>4, LineEnds
      <3>2. b = [a EXCEPT !.views = IF len = 0 THEN @ ELSE Append(@, View(a.start, len)),
                          !.start = (k + 1) + 1, !.check = 0]
        BY <2>1, <2>2, <3>1 DEF b, SplitStep
      <3>3. b.views = Append(<<>>, View(1, m - 4))
        <4>. HIDE DEF len
        <4>. QED BY <1>3, <2>1, <3>1, <3>2 DEF SplitStates
      <3>4. b.views # <<>> /\ b.views[1] = View(1, m - 4)
        BY <3>3
      <3>5. ~(k + 1 <= m - 5) /\ ~(k + 1 < m)
        BY <1>1, <3>1
      <3>6. HeadCut(b, d, m, k + 1)
        BY <1>4, <3>4, <3>5 DEF HeadCut
      <3>. QED BY <3>6 DEF b, m
    <2>. QED BY <2>2, <2>3, <2>4
  <1>7. CASE m <= k
    <2>1. a.views # <<>> /\ a.views[1] = View(1, m - 4)
      BY <1>1, <1>7 DEF HeadCut, m
    <2>2. b.views = a.views \/ \E x \in Views : b.views = Append(a.views, x)
      <3> DEFINE len == (k + 1) + 1 - Len(CRLF2) - a.start
      <3>1. View(a.start, len) \in Views
        <4>1. a.start \in Int /\ len \in Int
          BY <1>3, LineEnds DEF SplitStates
        <4>. QED BY <4>1 DEF View, Views
      <3>2. \/ b = a
            \/ b = [a EXCEPT !.check = 0]
            \/ b = [a EXCEPT !.check = @ + 1]
            \/ b = [a EXCEPT !.full = TRUE]
            \/ b = [a EXCEPT !.views = IF len = 0 THEN @ ELSE Append(@, View(a.start, len)),
                             !.start = (k + 1) + 1, !.check = 0]
        BY DEF b, SplitStep
      <3>. HIDE DEF len
      <3>. QED BY <1>3, <3>1, <3>2 DEF SplitStates
    <2>3. b.views # <<>> /\ b.views[1] = View(1, m - 4)
      BY <1>3, <2>1, <2>2
    <2>4. ~(k + 1 <= m - 5) /\ ~(k + 1 < m)
      BY <1>1, <1>7
    <2>5. HeadCut(b, d, m, k + 1)
      BY <1>4, <2>3, <2>4 DEF HeadCut
    <2>. QED BY <2>5 DEF b, m
  <1>. QED BY <1>1, <1>5, <1>6, <1>7

(* The first view is the head without its end.                              *)
LEMMA SplitsHead ==
  ASSUME NEW t, HeadText(t), NEW d, NEW l \in Nat, Len(t) <= l, Starts(d, l, t)
  PROVE  VString_SplitBySubstring(d, View(1, l), CRLF2, 2).views[1] = View(1, Len(t) - 4)
  <1> DEFINE v == View(1, l)
             m == Len(t)
  <1>1. v.at = 1 /\ v.len = l /\ l \in Nat /\ m \in Nat /\ m >= 5 /\ m <= l
    BY DEF View, HeadText
  <1>. HIDE DEF v, m
  <1>2. PICK f : SplitLoop(f, d, v, CRLF2, 2)
    BY <1>1, SplitLoops
  <1>3. /\ f[0] = SplitStart(v)
        /\ \A k \in 1..l : f[k] = SplitStep(f[k - 1], d, v.at + k - 1, CRLF2, 2)
        /\ Split(d, v, CRLF2, 2) = f[l]
    BY <1>1, <1>2 DEF SplitLoop
  <1> DEFINE Good == {i \in Nat : i <= l => HeadCut(f[i], d, m, i)}
  <1>4. 0 \in Good
    <2>1. /\ SplitStart(v) \in SplitStates /\ SplitStart(v).views = <<>> /\ SplitStart(v).start = 1
          /\ ~SplitStart(v).full /\ SplitStart(v).check = 0
      BY <1>1 DEF SplitStart, SplitStates
    <2>2. ~(m <= 0) /\ ~(m - 4 <= 0)
      BY <1>1
    <2>3. HeadCut(SplitStart(v), d, m, 0)
      BY <2>1, <2>2 DEF HeadCut
    <2>. QED BY <1>3, <2>3
  <1>5. ASSUME NEW i \in Nat, i \in Good PROVE i + 1 \in Good
    <2> SUFFICES ASSUME i + 1 <= l PROVE HeadCut(f[i + 1], d, m, i + 1)
      <3>1. i + 1 \in Nat
        OBVIOUS
      <3>. QED BY <3>1
    <2>1. i + 1 \in 1..l /\ (i + 1) - 1 = i /\ i <= l /\ i < l /\ 1 + (i + 1) - 1 = i + 1
      BY <1>1
    <2>2. HeadCut(f[i], d, m, i)
      BY <1>5, <2>1
    <2>. HIDE DEF Good
    <2>3. f[i + 1] = SplitStep(f[i], d, i + 1, CRLF2, 2)
      <3>1. f[i + 1] = SplitStep(f[(i + 1) - 1], d, v.at + (i + 1) - 1, CRLF2, 2)
        BY <1>3, <2>1
      <3>. QED BY <1>1, <2>1, <3>1
    <2>4. HeadCut(SplitStep(f[i], d, i + 1, CRLF2, 2), d, m, i + 1)
      BY <2>1, <2>2, HeadCutKeeps DEF m
    <2>. QED BY <2>3, <2>4, Zenon
  <1>. HIDE DEF Good
  <1>6. l \in Good
    BY <1>4, <1>5, SetInduction
  <1> DEFINE e == f[l]
             w == View(e.start, v.at + v.len - e.start)
  <1>7. HeadCut(e, d, m, l)
    BY <1>1, <1>6 DEF Good
  <1>8. VString_SplitBySubstring(d, v, CRLF2, 2).views = IF e.full THEN e.views ELSE Append(e.views, w)
    BY <1>3 DEF VString_SplitBySubstring
  <1>. HIDE DEF e
  <1>9. e.views \in Seq(Views) /\ e.start \in Int /\ e.views # <<>> /\ e.views[1] = View(1, m - 4)
    BY <1>1, <1>7 DEF HeadCut, SplitStates
  <1>10. w \in Views
    BY <1>1, <1>9 DEF View, Views
  <1>. HIDE DEF w
  <1>11. Append(e.views, w)[1] = View(1, m - 4)
    BY <1>9, <1>10
  <1>12. VString_SplitBySubstring(d, v, CRLF2, 2).views[1] = View(1, m - 4)
    BY <1>8, <1>9, <1>11
  <1>. QED BY <1>12 DEF m, v

-----------------------------------------------------------------------------
(* What parsing keeps.                                                      *)

Verdicts  == {"ok", "bad", "undefined"}
Parsing(a) ==
  /\ a = [verdict |-> a.verdict, clobbers |-> a.clobbers, data |-> a.data, headers |-> a.headers]
  /\ Bytes(a.data) /\ a.verdict \in Verdicts

LEMMA BytesAre ==
  ASSUME NEW d, Bytes(d)
  PROVE  DOMAIN d = 1..PoolSize /\ Len(d) = PoolSize
  <1> DEFINE S == {d[i] : i \in 1..PoolSize}
  <1>1. DOMAIN d = 1..PoolSize
    BY DEF Bytes
  <1>2. d \in [1..PoolSize -> S]
    BY DEF Bytes
  <1>. HIDE DEF S
  <1>. QED BY <1>1, <1>2, ListIsSequence, RequestAssumption

LEMMA HeaderParsing ==
  ASSUME NEW a, Parsing(a), NEW line
  PROVE  Parsing(ParseHeader(a, line))
  <1> DEFINE idx   == ColonOf(a.data, line)
             value == View(line.at + idx + 1, line.len - idx)
             trim  == VString_Trim(a.data, value)
             key   == TextOf(a.data, View(line.at, idx))
             txt   == SubSeq(trim.Data, value.at, value.at + trim.Length - 1)
             new   == [verdict  |-> "ok",
                       clobbers |-> TRUE,
                       data     |-> [trim.Data EXCEPT ![value.at + trim.Length] = NUL],
                       headers  |-> (key :> txt) @@ a.headers]
             b     == ParseHeader(a, line)
  <1>1. \/ b = a
        \/ b = [a EXCEPT !.verdict = "undefined"] /\ a.verdict = "ok"
        \/ b = [a EXCEPT !.verdict = "undefined", !.clobbers = TRUE]
        \/ b = [a EXCEPT !.verdict = "bad"] /\ a.verdict = "ok"
        \/ b = new
    BY DEF ParseHeader
  <1>2. Bytes(new.data)
    <2>1. DOMAIN a.data = 1..PoolSize
      BY BytesAre DEF Parsing
    <2>2. DOMAIN trim.Data = 1..PoolSize
      BY <2>1 DEF VString_Trim
    <2>. HIDE DEF trim, value
    <2>3. new.data = [trim.Data EXCEPT ![value.at + trim.Length] = NUL]
      OBVIOUS
    <2>. HIDE DEF new
    <2>. QED BY <2>2, <2>3 DEF Bytes
  <1>3. new.verdict = "ok" /\ new = [verdict |-> new.verdict, clobbers |-> new.clobbers,
                                     data |-> new.data, headers |-> new.headers]
    <2>. HIDE DEF trim, txt, key, value
    <2>. QED OBVIOUS
  <1>. HIDE DEF b, new
  <1> SUFFICES Parsing(b)
    BY DEF b
  <1>4. CASE b = a
    BY <1>4
  <1>5. CASE b = [a EXCEPT !.verdict = "undefined"]
    BY <1>5 DEF Parsing, Verdicts
  <1>6. CASE b = [a EXCEPT !.verdict = "bad"]
    BY <1>6 DEF Parsing, Verdicts
  <1>8. CASE b = [a EXCEPT !.verdict = "undefined", !.clobbers = TRUE]
    BY <1>8 DEF Parsing, Verdicts
  <1>7. CASE b = new
    BY <1>2, <1>3, <1>7 DEF Parsing, Verdicts
  <1>. QED BY <1>1, <1>4, <1>5, <1>6, <1>7, <1>8

LEMMA HeadersParsing ==
  ASSUME NEW a, Parsing(a), NEW lines, Len(lines) \in Nat
  PROVE  Parsing(ParseHeaders(a, lines))
  <1> DEFINE n == Len(lines)
             Rule(f, m) == f = [k \in 0..m |-> IF k = 0 THEN a ELSE ParseHeader(f[k - 1], lines[k])]
  <1>1. n \in Nat
    OBVIOUS
  <1>. HIDE DEF n
  <1>2. ASSUME NEW m \in Nat PROVE \E f : Rule(f, m)
    <2> DEFINE Good == {i \in Nat : \E f : Rule(f, i)}
    <2>1. 0 \in Good
      <3>1. Rule([k \in 0..0 |-> a], 0)
        OBVIOUS
      <3>. HIDE DEF Rule
      <3>. QED BY <3>1
    <2>2. ASSUME NEW i \in Nat, i \in Good PROVE i + 1 \in Good
      <3>1. PICK f : Rule(f, i)
        BY <2>2
      <3> DEFINE g == [k \in 0..(i + 1) |-> IF k = i + 1 THEN ParseHeader(f[i], lines[k]) ELSE f[k]]
      <3>2. Rule(g, i + 1) /\ i + 1 \in Nat
        BY <3>1
      <3>. HIDE DEF g, Rule
      <3>. QED BY <3>2, Zenon
    <2>. HIDE DEF Good
    <2>3. Nat \subseteq Good
      BY <2>1, <2>2, SetInduction
    <2>. QED BY <2>3 DEF Good
  <1> DEFINE After == CHOOSE f : Rule(f, n)
  <1>3. Rule(After, n)
    BY <1>1, <1>2
  <1>4. ParseHeaders(a, lines) = After[n]
    BY DEF ParseHeaders, n
  <1>. HIDE DEF After
  <1> DEFINE Good == {i \in Nat : i <= n => Parsing(After[i])}
  <1>5. 0 \in Good
    <2>1. After[0] = a
      BY <1>1, <1>3
    <2>. QED BY <2>1
  <1>6. ASSUME NEW i \in Nat, i \in Good PROVE i + 1 \in Good
    <2> SUFFICES ASSUME i + 1 <= n PROVE Parsing(After[i + 1])
      <3>1. i + 1 \in Nat
        OBVIOUS
      <3>. QED BY <3>1
    <2>1. i + 1 \in 0..n /\ i + 1 # 0 /\ (i + 1) - 1 = i /\ i <= n
      BY <1>1
    <2>2. After[i + 1] = ParseHeader(After[i], lines[i + 1])
      BY <1>3, <2>1
    <2>3. Parsing(After[i])
      BY <1>6, <2>1
    <2>4. Parsing(ParseHeader(After[i], lines[i + 1]))
      BY <2>3, HeaderParsing, Zenon
    <2>. QED BY <2>2, <2>4, Zenon
  <1>. HIDE DEF Good
  <1>7. n \in Good
    BY <1>1, <1>5, <1>6, SetInduction
  <1>. QED BY <1>1, <1>4, <1>7 DEF Good

LEMMA HeadParsing ==
  ASSUME NEW t, HeadText(t), Bytes(pool.Data), pool.Length \in Nat,
         Len(t) <= pool.Length, Starts(pool.Data, pool.Length, t)
  PROVE  /\ Bytes(Parse(pool.Data, request).data)
         /\ Parse(pool.Data, request).verdict \in Verdicts
         /\ Parse(pool.Data, request).verdict = "ok" =>
              Parse(pool.Data, request).request.Length = Len(t)
  <1> DEFINE data  == pool.Data
             req   == request
             split == VString_SplitBySubstring(data, Whole(pool), CRLF2, 2)
             head  == split.views[1]
             lines == VString_SplitBySubstring(data, head, CRLF, MaxLines)
             hs    == ParseHeaders([verdict |-> "ok", clobbers |-> split.overrun \/ lines.overrun,
                                    data |-> data, headers |-> req.Headers],
                                   HeaderLines(lines.views))
             words == VString_SplitBySubstring(hs.data, lines.views[1], <<SP>>, 3)
             Word(n) == TextOf(hs.data, words.views[n])
             method  == MethodOf(hs.data[words.views[1].at])
             verdict == IF hs.verdict # "ok" THEN hs.verdict ELSE LineVerdict(hs.data, words.views)
             new     == [Method    |-> method,
                         StrMethod |-> VString_CopyCString(req.StrMethod, <<method>>),
                         Url       |-> InsertUrl(req.Url, DecodeUrl(Word(2))),
                         Headers   |-> hs.headers,
                         Length    |-> head.len + 4]
             over    == hs.clobbers \/ (hs.verdict = "ok" /\ words.overrun)
             r       == Parse(pool.Data, request)
  <1>1. r = [verdict |-> verdict, clobbers |-> over, data |-> hs.data,
             request |-> IF verdict # "ok" THEN req ELSE new]
    BY Zenon DEF Parse, Outcome
  <1>2. head = View(1, Len(t) - 4)
    BY SplitsHead DEF Whole
  <1>3. /\ head.at \in Int /\ head.len \in Nat /\ head.len + 4 = Len(t)
    <2>1. Len(t) \in Nat /\ Len(t) >= 5
      BY DEF HeadText
    <2>. HIDE DEF head
    <2>. QED BY <1>2, <2>1 DEF View
  <1>4. Len(HeaderLines(lines.views)) \in Nat
    <2>1. MaxLines \in Nat \ {0} /\ Len(CRLF) \in Nat
      BY LineEnds, RequestAssumption
    <2>. HIDE DEF head
    <2>2. lines.views \in Seq(Views) /\ lines.views # <<>>
      BY <1>3, <2>1, SplitsToViews
    <2>. HIDE DEF lines
    <2>. QED BY <2>2 DEF HeaderLines
  <1>5. Parsing(hs)
    <2> DEFINE a == [verdict |-> "ok", clobbers |-> split.overrun \/ lines.overrun,
                     data |-> data, headers |-> req.Headers]
    <2>1. Parsing(a)
      BY DEF Parsing, Verdicts
    <2>. HIDE DEF a, lines
    <2>2. Parsing(ParseHeaders(a, HeaderLines(lines.views)))
      BY <1>4, <2>1, HeadersParsing
    <2>. QED BY <2>2, Zenon DEF a
  <1>. HIDE DEF split, head, lines, hs
  <1>6. verdict \in Verdicts
    <2>1. LineVerdict(hs.data, words.views) \in Verdicts
      BY DEF LineVerdict, Verdicts
    <2>. HIDE DEF words
    <2>. QED BY <1>5, <2>1 DEF Parsing
  <1>7. new.Length = head.len + 4
    <2>. HIDE DEF method, Word
    <2>. QED OBVIOUS
  <1>. HIDE DEF verdict, over, new, r
  <1>8. /\ r.verdict = verdict /\ r.data = hs.data
        /\ verdict = "ok" => r.request = new
    BY <1>1
  <1>9. Bytes(r.data) /\ r.verdict \in Verdicts /\ (r.verdict = "ok" => r.request.Length = Len(t))
    BY <1>3, <1>5, <1>6, <1>7, <1>8 DEF Parsing
  <1>. QED BY <1>9 DEF r

-----------------------------------------------------------------------------
(* The stream between the client and the parser.                            *)

(* x is the n tokens of b behind the first o.                               *)
Copied(x, S, b, o, n) == x \in Seq(S) /\ Len(x) = n /\ \A i \in 1..n : x[i] = b[o + i]

LEMMA SubSeqCopies ==
  ASSUME NEW S, NEW b \in Seq(S), NEW n \in 0..Len(b)
  PROVE  /\ Copied(SubSeq(b, 1, n), S, b, 0, n)
         /\ Copied(SubSeq(b, n + 1, Len(b)), S, b, n, Len(b) - n)
  BY DEF Copied

(* A segment moves from the client to the socket.                           *)
Moved(S, a, b, n, x, y) ==
  /\ a \o x \in Seq(S) /\ y \in Seq(S) /\ Len(a \o x) = Len(a) + n /\ Len(y) = Len(b) - n
  /\ \A i \in 1..Len(a) : (a \o x)[i] = a[i]
  /\ (a \o x) \o y = a \o b

LEMMA Moves ==
  ASSUME NEW S, NEW a \in Seq(S), NEW b \in Seq(S), NEW n \in 0..Len(b), NEW x, NEW y,
         Copied(x, S, b, 0, n), Copied(y, S, b, n, Len(b) - n)
  PROVE  Moved(S, a, b, n, x, y)
  <1>1. Len(a) \in Nat /\ Len(b) \in Nat /\ n \in Nat /\ n <= Len(b)
    OBVIOUS
  <1>2. x \in Seq(S) /\ Len(x) = n /\ \A i \in 1..n : x[i] = b[i]
    BY DEF Copied
  <1>3. y \in Seq(S) /\ Len(y) = Len(b) - n /\ \A i \in 1..(Len(b) - n) : y[i] = b[n + i]
    BY DEF Copied
  <1>4. x \o y = b
    <2>1. /\ x \o y \in Seq(S) /\ Len(x \o y) = Len(x) + Len(y)
          /\ \A k \in 1..Len(x) : (x \o y)[k] = x[k]
          /\ \A k \in (Len(x) + 1)..(Len(x) + Len(y)) : (x \o y)[k] = y[k - Len(x)]
      <3>1. x \in Seq(S) /\ y \in Seq(S)
        BY <1>2, <1>3
      <3>. QED BY <3>1, Concats, Zenon
    <2>2. Len(x \o y) = Len(b)
      BY <1>1, <1>2, <1>3, <2>1
    <2>3. ASSUME NEW k \in 1..Len(b) PROVE (x \o y)[k] = b[k]
      <3>0. k \in Nat
        BY <1>1
      <3>1. CASE k <= n
        <4>1. k \in 1..n
          BY <1>1, <3>1
        <4>. QED BY <1>2, <2>1, <4>1
      <3>2. CASE k > n
        <4>1. k - n \in 1..(Len(b) - n) /\ k \in (n + 1)..(n + (Len(b) - n)) /\ n + (k - n) = k
          BY <1>1, <3>2
        <4>2. (x \o y)[k] = y[k - n]
          BY <1>2, <1>3, <2>1, <4>1
        <4>. QED BY <1>3, <4>1, <4>2
      <3>3. k <= n \/ k > n
        BY <1>1, <3>0
      <3>. QED BY <3>1, <3>2, <3>3, Zenon
    <2>. QED BY <2>1, <2>2, <2>3, SameItems
  <1>5. Joined(a, x, y)
    BY <1>2, <1>3, Associative, Zenon
  <1>6. (a \o x) \o y = a \o b
    BY <1>4, <1>5, Zenon DEF Joined
  <1>7. /\ a \o x \in Seq(S) /\ Len(a \o x) = Len(a) + Len(x)
        /\ \A k \in 1..Len(a) : (a \o x)[k] = a[k]
    BY <1>2, Concats
  <1>. QED BY <1>2, <1>3, <1>6, <1>7 DEF Moved

(* A head is taken out of the socket.                                       *)
Alike(a, b, t, r) == a \o b = t \o r

LEMMA Drops ==
  ASSUME NEW S, NEW a \in Seq(S), NEW b \in Seq(S), NEW t \in Seq(S), NEW r \in Seq(S),
         NEW z, Alike(a, b, t, r), Len(t) <= Len(a), Copied(z, S, a, Len(t), Len(a) - Len(t))
  PROVE  z \in Seq(S) /\ Len(z) = Len(a) - Len(t) /\ Alike(z, b, <<>>, r)
  <1> DEFINE m == Len(t)
             l == Len(a)
             n == Len(b)
             w == a \o b
  <1>1. m \in Nat /\ l \in Nat /\ n \in Nat /\ m <= l /\ m \in 0..l
    OBVIOUS
  <1>2. z \in Seq(S) /\ Len(z) = l - m /\ \A i \in 1..(l - m) : z[i] = a[m + i]
    BY DEF Copied
  <1>3. /\ Len(w) = l + n
        /\ \A k \in 1..l : w[k] = a[k]
        /\ \A k \in (l + 1)..(l + n) : w[k] = b[k - l]
    BY Concats
  <1>4. /\ Len(w) = m + Len(r)
        /\ \A k \in (m + 1)..(m + Len(r)) : w[k] = r[k - m]
    <2>1. /\ Len(t \o r) = Len(t) + Len(r)
          /\ \A k \in (Len(t) + 1)..(Len(t) + Len(r)) : (t \o r)[k] = r[k - Len(t)]
      BY Concats
    <2>. QED BY <2>1 DEF Alike
  <1>5. /\ z \o b \in Seq(S) /\ Len(z \o b) = Len(z) + n
        /\ \A k \in 1..Len(z) : (z \o b)[k] = z[k]
        /\ \A k \in (Len(z) + 1)..(Len(z) + n) : (z \o b)[k] = b[k - Len(z)]
    BY <1>2, Concats
  <1> DEFINE q == z \o b
  <1>. HIDE DEF m, l, n, w, q
  <1>6. Len(r) = l + n - m /\ Len(r) \in Nat
    <2> DEFINE k == Len(r)
    <2>1. k \in Nat
      OBVIOUS
    <2>2. l + n = m + k
      BY <1>3, <1>4
    <2>. HIDE DEF k
    <2>3. k = l + n - m
      BY <1>1, <2>1, <2>2
    <2>. QED BY <2>1, <2>3 DEF k
  <1>7. Len(q) = Len(r)
    BY <1>1, <1>2, <1>5, <1>6 DEF q
  <1>8. ASSUME NEW k \in 1..Len(r) PROVE q[k] = r[k]
    <2>1. r[k] = w[m + k]
      <3>1. m + k \in (m + 1)..(m + Len(r)) /\ (m + k) - m = k
        BY <1>1, <1>6
      <3>2. w[m + k] = r[(m + k) - m]
        BY <1>4, <3>1
      <3>. QED BY <3>1, <3>2
    <2>2. CASE k <= l - m
      <3>1. k \in 1..(l - m) /\ m + k \in 1..l
        BY <1>1, <2>2
      <3>2. q[k] = a[m + k]
        BY <1>2, <1>5, <3>1 DEF q
      <3>. QED BY <1>3, <2>1, <3>1, <3>2
    <2>3. CASE k > l - m
      <3>1. /\ k \in (l - m + 1)..(l - m + n) /\ m + k \in (l + 1)..(l + n)
            /\ k - (l - m) = (m + k) - l
        BY <1>1, <1>6, <2>3
      <3>2. q[k] = b[k - (l - m)]
        BY <1>2, <1>5, <3>1 DEF q
      <3>3. w[m + k] = b[(m + k) - l]
        BY <1>3, <3>1
      <3>. QED BY <2>1, <3>1, <3>2, <3>3
    <2>. QED BY <1>1, <1>6, <2>2, <2>3
  <1>9. q = r
    BY <1>5, <1>7, <1>8, SameItems DEF q
  <1>10. <<>> \o r = r
    BY EmptyConcats
  <1>. QED BY <1>2, <1>9, <1>10 DEF q, m, l, Alike

-----------------------------------------------------------------------------
(* The invariant.  As long as no comparison has run on behind Length to an  *)
(* old head's bytes, what the socket holds and what the client has not sent *)
(* are the heads that were not parsed; a head that is about to be parsed is *)
(* whole, and at the beginning of the pool.                                 *)

HeadPeeked ==
  /\ parsed < Len(heads) /\ size = Len(Raw(heads[parsed + 1]))
  /\ size <= pool.Length /\ pool.Length <= Len(rx)
  /\ \A i \in 1..pool.Length : pool.Data[i] = rx[i]

(* Nothing is behind Length, in the pool, before a head was parsed.         *)
Fresh ==
  /\ pool.Length <= Len(rx)
  /\ \A i \in (pool.Length + 1)..PoolSize : pool.Data[i] = NUL

Stands ==
  /\ parsed \in 0..Len(heads)
  /\ pool = [Data |-> pool.Data, Length |-> pool.Length]
  /\ Bytes(pool.Data) /\ pool.Length \in Nat
  /\ rx \in Seq(Tokens) /\ unsent \in Seq(Tokens)
  /\ rx \o unsent = Rest(heads, parsed)
  /\ parsed = 0 => Fresh
  /\ pc = "read" /\ parsed > 0 /\ size > 0 => request.Length = size
  /\ pc = "parse" => HeadPeeked

HeadsInv ==
  /\ Heads(heads) /\ parsed \in Nat
  /\ straddled /\ ~(parsed > 0) => pc # "read" /\ pool.Length + 3 > PoolSize
  /\ ~straddled /\ pc \in {"read", "parse"} => Stands

LEMMA RawIsRest ==
  ASSUME NEW hs, Heads(hs)
  PROVE  /\ RawAll(hs) = Rest(hs, 0)
         /\ \A k \in 0..Len(hs) : RawAll(SubSeq(hs, k + 1, Len(hs))) = Rest(hs, k)
  <1>1. SubSeq(hs, 0 + 1, Len(hs)) = hs
    BY DEF Heads
  <1>2. \A k \in 0..Len(hs) : RawAll(SubSeq(hs, k + 1, Len(hs))) = Rest(hs, k)
    BY Zenon DEF RawAll, Rest, Spelt
  <1>3. 0 \in 0..Len(hs)
    BY DEF Heads
  <1>4. RawAll(SubSeq(hs, 0 + 1, Len(hs))) = Rest(hs, 0)
    BY <1>2, <1>3, Zenon
  <1>. QED BY <1>1, <1>2, <1>4, Zenon

LEMMA StreamHeads ==
  ASSUME NEW hs \in Streams
  PROVE  Heads(hs)
  <1>1. hs \in Seq(Range(hs)) /\ \A n \in DOMAIN hs : IsHead(hs[n])
    BY StreamsAssumption, Zenon
  <1>2. DOMAIN hs = 1..Len(hs)
    BY <1>1
  <1>3. \A n \in 1..Len(hs) : HeadText(Raw(hs[n]))
    BY <1>1, <1>2, HeadIs, Zenon
  <1>. QED BY <1>1, <1>3 DEF Heads

LEMMA InvBegins == RequestInit => HeadsInv
  <1> SUFFICES ASSUME RequestInit PROVE HeadsInv
    OBVIOUS
  <1>1. /\ heads \in Streams /\ unsent = RawAll(heads) /\ rx = <<>> /\ pool = VString_Init(PoolSize)
        /\ parsed = 0 /\ pc = "read" /\ straddled = FALSE
    BY DEF RequestInit
  <1>2. Heads(heads)
    BY <1>1, StreamHeads
  <1>3. Len(heads) \in Nat /\ 0 \in 0..Len(heads)
    BY <1>2 DEF Heads
  <1>4. unsent = Rest(heads, 0) /\ unsent \in Seq(Tokens)
    BY <1>1, <1>2, <1>3, RawIsRest, RestIs
  <1>5. pool = [Data |-> [i \in 1..PoolSize |-> NUL], Length |-> 0]
    BY <1>1 DEF VString_Init
  <1>6. /\ pool.Data = [i \in 1..PoolSize |-> NUL] /\ pool.Length = 0
        /\ pool = [Data |-> pool.Data, Length |-> pool.Length]
    BY <1>5
  <1>7. Bytes(pool.Data) /\ \A i \in 1..PoolSize : pool.Data[i] = NUL
    BY <1>6 DEF Bytes
  <1>8. rx \in Seq(Tokens) /\ Len(rx) = 0 /\ rx \o unsent = unsent
    BY <1>1, <1>4, EmptyConcats
  <1>9. Fresh
    BY <1>6, <1>7, <1>8 DEF Fresh
  <1>11. Stands
    BY <1>1, <1>3, <1>4, <1>6, <1>7, <1>8, <1>9 DEF Stands
  <1>. QED BY <1>1, <1>2, <1>11 DEF HeadsInv

LEMMA ArriveKeeps ==
  ASSUME HeadsInv, NEW n \in 1..Len(unsent), Arrive(n)
  PROVE  HeadsInv'
  <1>1. /\ rx' = rx \o SubSeq(unsent, 1, n) /\ unsent' = SubSeq(unsent, n + 1, Len(unsent))
        /\ heads' = heads /\ pool' = pool /\ size' = size /\ request' = request
        /\ parsed' = parsed /\ pc' = pc /\ straddled' = straddled
    BY DEF Arrive
  <1>2. ASSUME Stands PROVE Stands'
    <2>1. rx \in Seq(Tokens) /\ unsent \in Seq(Tokens) /\ rx \o unsent = Rest(heads, parsed)
      BY <1>2 DEF Stands
    <2>2. n \in 0..Len(unsent) /\ Len(unsent) \in Nat /\ Len(rx) \in Nat /\ n \in Nat
      BY <2>1
    <2>3. /\ Copied(SubSeq(unsent, 1, n), Tokens, unsent, 0, n)
          /\ Copied(unsent', Tokens, unsent, n, Len(unsent) - n)
      BY <1>1, <2>1, <2>2, SubSeqCopies
    <2>4. /\ rx' \in Seq(Tokens) /\ unsent' \in Seq(Tokens)
          /\ Len(rx') = Len(rx) + n /\ Len(unsent') = Len(unsent) - n
          /\ \A i \in 1..Len(rx) : rx'[i] = rx[i]
          /\ rx' \o unsent' = rx \o unsent
      <3> DEFINE x == SubSeq(unsent, 1, n)
                 y == unsent'
      <3>1. Copied(x, Tokens, unsent, 0, n) /\ Copied(y, Tokens, unsent, n, Len(unsent) - n) /\ rx' = rx \o x
        BY <1>1, <2>3
      <3>. HIDE DEF x, y
      <3>2. /\ rx \o x \in Seq(Tokens) /\ y \in Seq(Tokens) /\ Len(rx \o x) = Len(rx) + n
            /\ Len(y) = Len(unsent) - n /\ \A i \in 1..Len(rx) : (rx \o x)[i] = rx[i]
            /\ (rx \o x) \o y = rx \o unsent
        <4>1. Moved(Tokens, rx, unsent, n, x, y)
          BY <2>1, <2>2, <3>1, Moves, Zenon
        <4>. QED BY <4>1, Zenon DEF Moved
      <3>. QED BY <3>1, <3>2 DEF y
    <2>5. Len(rx) <= Len(rx')
      BY <2>2, <2>4
    <2>6. pool.Length \in Nat
      BY <1>2 DEF Stands
    <2>7. Fresh => Fresh'
      BY <1>1, <2>2, <2>4, <2>5, <2>6 DEF Fresh
    <2>8. HeadPeeked => HeadPeeked'
      <3> SUFFICES ASSUME HeadPeeked PROVE HeadPeeked'
        OBVIOUS
      <3>1. pool.Length <= Len(rx') /\ \A i \in 1..pool.Length : i \in 1..Len(rx)
        BY <2>2, <2>4, <2>5, <2>6 DEF HeadPeeked
      <3>2. \A i \in 1..pool.Length : pool.Data[i] = rx'[i]
        BY <2>4, <3>1 DEF HeadPeeked
      <3>. QED BY <1>1, <3>1, <3>2 DEF HeadPeeked
    <2>. QED BY <1>1, <1>2, <2>1, <2>4, <2>5, <2>7, <2>8 DEF Stands
  <1>. QED BY <1>1, <1>2 DEF HeadsInv

(* What was received begins with the next head.                             *)
LEMMA NextHead ==
  ASSUME Heads(heads), Stands, parsed < Len(heads)
  PROVE  /\ HeadText(Raw(heads[parsed + 1])) /\ Raw(heads[parsed + 1]) \in Seq(Tokens)
         /\ Rest(heads, parsed + 1) \in Seq(Tokens)
         /\ rx \o unsent = Raw(heads[parsed + 1]) \o Rest(heads, parsed + 1)
         /\ Starts(rx, Len(rx), Raw(heads[parsed + 1]))
  <1> DEFINE t == Raw(heads[parsed + 1])
             r == Rest(heads, parsed + 1)
  <1>1. /\ Len(heads) \in Nat /\ parsed \in 0..Len(heads) /\ parsed + 1 \in 1..Len(heads)
        /\ parsed + 1 \in 0..Len(heads)
        /\ rx \in Seq(Tokens) /\ unsent \in Seq(Tokens) /\ rx \o unsent = Rest(heads, parsed)
    BY DEF Stands, Heads
  <1>2. HeadText(t)
    BY <1>1 DEF Heads
  <1>3. t \in Seq(Tokens) /\ r \in Seq(Tokens)
    BY <1>1, <1>2, RestIs DEF HeadText
  <1>4. rx \o unsent = t \o r
    BY <1>1, RestIs
  <1>. HIDE DEF t, r
  <1>5. \A k \in 1..Len(rx) : (rx \o unsent)[k] = rx[k]
    BY <1>1, Concats
  <1>6. \A k \in 1..Len(t) : (t \o r)[k] = t[k]
    BY <1>3, Concats
  <1>7. ASSUME NEW i \in 1..Len(t), i <= Len(rx) PROVE rx[i] = t[i]
    <2>1. i \in 1..Len(rx)
      BY <1>1, <1>3, <1>7
    <2>2. (rx \o unsent)[i] = rx[i] /\ (t \o r)[i] = t[i]
      BY <1>5, <1>6, <2>1
    <2>. QED BY <1>4, <2>2, Zenon
  <1>8. Starts(rx, Len(rx), t)
    BY <1>7 DEF Starts
  <1>. QED BY <1>2, <1>3, <1>4, <1>8 DEF t, r

LEMMA PeekKeeps ==
  ASSUME HeadsInv, Peek
  PROVE  HeadsInv'
  <1> DEFINE d == [i \in DOMAIN pool.Data |-> IF i <= Len(rx) THEN rx[i] ELSE pool.Data[i]]
             l == Min({Len(rx), PoolSize})
             p == [Data |-> d, Length |-> l]
  <1>0. PICK b \in Behind :
          /\ pool' = p /\ size' = VString_FindSubstring(p, b, CRLF2)
          /\ straddled' = (straddled \/ size' > p.Length)
    BY DEF Peek
  <1>1. /\ pc = "read" /\ rx # <<>>
        /\ pool' = p /\ size' = VString_FindSubstring(p, b, CRLF2)
        /\ straddled' = (straddled \/ size' > l)
        /\ pc' = IF size' > 0 THEN "parse" ELSE "read"
        /\ heads' = heads /\ unsent' = unsent /\ rx' = rx /\ request' = request /\ parsed' = parsed
    BY <1>0 DEF Peek
  <1>2. p.Data = d /\ p.Length = l /\ p = [Data |-> p.Data, Length |-> p.Length]
    OBVIOUS
  <1>3. Heads(heads) /\ parsed \in Nat
    BY DEF HeadsInv
  <1>4. CASE straddled
    <2>1. parsed > 0 /\ straddled'
      BY <1>1, <1>4 DEF HeadsInv
    <2>. HIDE DEF p
    <2>. QED BY <1>1, <1>3, <2>1 DEF HeadsInv
  <1>5. CASE ~straddled
    <2>1. Stands
      BY <1>1, <1>5 DEF HeadsInv
    <2>2. /\ rx \in Seq(Tokens) /\ unsent \in Seq(Tokens) /\ Len(rx) \in Nat /\ Len(rx) > 0
          /\ Len(unsent) \in Nat /\ l \in Nat /\ l > 0 /\ l <= Len(rx) /\ l <= PoolSize
          /\ l = Len(rx) \/ l = PoolSize
          /\ Bytes(pool.Data) /\ pool.Length \in Nat /\ PoolSize \in Nat
          /\ parsed \in 0..Len(heads) /\ rx \o unsent = Rest(heads, parsed)
      <3>1. /\ rx \in Seq(Tokens) /\ unsent \in Seq(Tokens)
            /\ Bytes(pool.Data) /\ pool.Length \in Nat
            /\ parsed \in 0..Len(heads) /\ rx \o unsent = Rest(heads, parsed)
        BY <2>1 DEF Stands
      <3>2. Len(rx) \in Nat /\ Len(rx) > 0 /\ Len(unsent) \in Nat
        BY <1>1, <3>1
      <3>3. PoolSize \in Nat \ {0}
        BY RequestAssumption
      <3>4. l \in {Len(rx), PoolSize} /\ l <= Len(rx) /\ l <= PoolSize
        BY <3>2, <3>3, SmallerOf
      <3>. HIDE DEF l
      <3>. QED BY <3>1, <3>2, <3>3, <3>4
    <2>3. DOMAIN pool.Data = 1..PoolSize
      BY <2>2, BytesAre
    <2>4. /\ Bytes(d)
          /\ \A i \in 1..l : d[i] = rx[i]
          /\ \A i \in (Len(rx) + 1)..PoolSize : d[i] = pool.Data[i]
      <3>1. d = [i \in 1..PoolSize |-> IF i <= Len(rx) THEN rx[i] ELSE pool.Data[i]]
        BY <2>3
      <3>. HIDE DEF d, l
      <3>2. Bytes(d)
        BY <3>1 DEF Bytes
      <3>. QED BY <2>2, <3>1, <3>2
    <2>. HIDE DEF d, l
    <2> DEFINE e == p.Data \o b
    <2>5. Len(e) = PoolSize + 3 /\ p.Length \in Nat /\ p.Length <= Len(e) /\ Len(e) \in Nat
          /\ \A i \in 1..PoolSize : e[i] = d[i]
      <3>1. Len(e) = PoolSize + 3 /\ \A i \in 1..PoolSize : e[i] = d[i]
        BY <1>2, <2>4, BytesSearched
      <3>. HIDE DEF e
      <3>. QED BY <1>2, <2>2, <3>1
    <2>. HIDE DEF p, e
    <2>0. FoundIn(size', e, p.Length)
      BY <1>1, FindsIn, Zenon DEF e
    <2>6. parsed = 0 => \A i \in (l + 1)..PoolSize : d[i] = NUL
      <3>1. parsed = 0 => Fresh
        BY <2>1 DEF Stands
      <3>2. ASSUME Fresh, NEW i \in (l + 1)..PoolSize PROVE d[i] = NUL
        <4>1. l = Len(rx)
          BY <2>2, <3>2
        <4>2. i \in (pool.Length + 1)..PoolSize /\ i \in (Len(rx) + 1)..PoolSize
          BY <2>2, <3>2, <4>1 DEF Fresh
        <4>. QED BY <2>4, <3>2, <4>2 DEF Fresh
      <3>. QED BY <3>1, <3>2
    <2>7. parsed = 0 /\ l + 3 <= PoolSize => size' <= l
      <3> SUFFICES ASSUME parsed = 0, l + 3 <= PoolSize PROVE size' <= l
        OBVIOUS
      <3>1. \A i \in (p.Length + 1)..PoolSize : i \in 1..PoolSize /\ e[i] = NUL
        <4> SUFFICES ASSUME NEW i \in (p.Length + 1)..PoolSize
                     PROVE  i \in 1..PoolSize /\ e[i] = NUL
          OBVIOUS
        <4>1. i \in (l + 1)..PoolSize
          BY <1>2
        <4>2. i \in 1..PoolSize
          BY <2>2, <4>1
        <4>3. d[i] = NUL
          BY <2>6, <4>1
        <4>. QED BY <2>5, <4>2, <4>3
      <3>2. p.Length + 3 <= PoolSize /\ PoolSize \in Nat
        BY <1>2, <2>2
      <3>3. size' <= p.Length
        BY <2>0, <2>5, <3>1, <3>2, FindsWithin
      <3>. QED BY <1>2, <3>3
    <2>8. size' = 0 \/ size' \in Nat
      BY <2>0, <2>5, FindsFirst
    <2>9. straddled' /\ ~(parsed' > 0) => pc' # "read" /\ pool'.Length + 3 > PoolSize
      <3>1. straddled' => size' > l
        BY <1>1, <1>5
      <3>2. size' > l => size' > 0
        BY <2>2, <2>8
      <3>3. ~(parsed > 0) /\ size' > l => l + 3 > PoolSize
        <4>1. ~(parsed > 0) => parsed = 0
          BY <1>3
        <4>. QED BY <2>2, <2>7, <2>8, <4>1
      <3>4. pool'.Length = l
        BY <1>1, <1>2
      <3>. QED BY <1>1, <3>1, <3>2, <3>3, <3>4
    <2>10. parsed < Len(heads)
      <3> SUFFICES ASSUME parsed = Len(heads) PROVE FALSE
        BY <2>2
      <3>1. Rest(heads, parsed) = <<>>
        BY <1>3, <2>2, RestIs
      <3>2. Len(rx \o unsent) = Len(rx) + Len(unsent)
        BY <2>2
      <3>. QED BY <2>2, <3>1, <3>2
    <2> DEFINE t == Raw(heads[parsed + 1])
    <2>11. HeadText(t) /\ Starts(rx, l, t)
      <3>1. HeadText(t) /\ Starts(rx, Len(rx), t)
        BY <1>3, <2>1, <2>10, NextHead
      <3>2. \A i \in 1..Len(t) : i <= l => i <= Len(rx)
        BY <2>2, <3>1 DEF HeadText
      <3>. HIDE DEF t
      <3>. QED BY <3>1, <3>2 DEF Starts
    <2>. HIDE DEF t
    <2>12. Starts(d, l, t)
      <3>1. ASSUME NEW i \in 1..Len(t), i <= l PROVE d[i] = t[i]
        <4>1. i \in 1..l
          BY <2>2, <3>1
        <4>2. rx[i] = t[i]
          BY <2>11, <3>1 DEF Starts
        <4>. QED BY <2>4, <4>1, <4>2
      <3>. QED BY <3>1 DEF Starts
    <2>13. ASSUME ~straddled', size' > 0 PROVE size' = Len(t) /\ size' <= l
      <3>1. size' <= l
        <4>1. ~(size' > l)
          BY <1>1, <2>13, Zenon
        <4>. HIDE DEF t
        <4>. QED BY <2>2, <2>8, <4>1
      <3>2. Starts(e, p.Length, t) /\ size' <= p.Length
        <4>1. \A i \in 1..Len(t) : i <= l => i \in 1..PoolSize
          BY <2>2, <2>11 DEF HeadText
        <4>2. Starts(e, l, t)
          BY <2>5, <2>12, <4>1 DEF Starts
        <4>. QED BY <1>2, <3>1, <4>2
      <3>3. size' = Len(t)
        BY <2>0, <2>5, <2>11, <2>13, <3>2, FindsHead
      <3>. QED BY <3>1, <3>3
    <2>14. pool'.Data = d /\ pool'.Length = l /\ pool' = [Data |-> pool'.Data, Length |-> pool'.Length]
      BY <1>1, <1>2
    <2>15. ASSUME ~straddled' PROVE Stands'
      <3>1. (parsed = 0 => Fresh)'
        BY <1>1, <2>2, <2>6, <2>14 DEF Fresh
      <3>2. (pc = "parse" => HeadPeeked)'
        <4> SUFFICES ASSUME pc' = "parse" PROVE HeadPeeked'
          OBVIOUS
        <4>1. size' > 0
          BY <1>1
        <4>2. size' = Len(t) /\ size' <= l
          BY <2>13, <2>15, <4>1
        <4>. QED BY <1>1, <2>2, <2>4, <2>10, <2>14, <4>2 DEF HeadPeeked, t
      <3>3. pc' = "read" => ~(size' > 0)
        BY <1>1
      <3>4. (pool = [Data |-> pool.Data, Length |-> pool.Length])'
        BY <2>14
      <3>5. Bytes(pool.Data)' /\ pool'.Length \in Nat
        BY <2>2, <2>4, <2>14 DEF Bytes
      <3>. QED BY <1>1, <2>2, <3>1, <3>2, <3>3, <3>4, <3>5 DEF Stands
    <2>. QED BY <1>1, <1>3, <2>9, <2>15 DEF HeadsInv
  <1>. QED BY <1>4, <1>5

LEMMA ParseKeeps ==
  ASSUME HeadsInv, ParseHead
  PROVE  HeadsInv'
  <1> DEFINE r == Parse(pool.Data, request)
  <1>1. /\ pc = "parse" /\ rx' = SubSeq(rx, size + 1, Len(rx))
        /\ heads' = heads /\ unsent' = unsent /\ size' = size /\ straddled' = straddled
        /\ \/ /\ r.verdict = "ok"
              /\ pool' = [pool EXCEPT !.Data = r.data] /\ request' = r.request
              /\ parsed' = parsed + 1 /\ pc' = "read"
           \/ /\ r.verdict \in {"bad", "undefined"} /\ pc' = r.verdict
              /\ UNCHANGED <<pool, request, parsed>>
           \/ r.clobbers /\ pc' = "clobbered" /\ UNCHANGED <<pool, request, parsed>>
    BY DEF ParseHead
  <1>. HIDE DEF r
  <1>2. /\ Heads(heads) /\ parsed \in Nat
        /\ straddled /\ ~(parsed > 0) => pool.Length + 3 > PoolSize
    BY DEF HeadsInv
  <1>3. parsed' \in Nat /\ (parsed' = parsed \/ parsed' = parsed + 1)
    BY <1>1, <1>2
  <1>4. straddled' /\ ~(parsed' > 0) => pc' # "read" /\ pool'.Length + 3 > PoolSize
    <2>1. CASE parsed' = parsed + 1
      BY <1>2, <2>1
    <2>2. CASE pc' \in {"bad", "undefined"} /\ UNCHANGED <<pool, request, parsed>>
      BY <1>1, <1>2, <2>2
    <2>3. CASE pc' = "clobbered" /\ UNCHANGED <<pool, request, parsed>>
      BY <1>1, <1>2, <2>3
    <2>. QED BY <1>1, <2>1, <2>2, <2>3
  <1>5. ASSUME ~straddled, pc' \in {"read", "parse"} PROVE Stands'
    <2>1. Stands /\ HeadPeeked
      BY <1>1, <1>5 DEF HeadsInv, Stands
    <2> DEFINE t == Raw(heads[parsed + 1])
    <2>2. /\ parsed < Len(heads) /\ size = Len(t) /\ size <= pool.Length /\ pool.Length <= Len(rx)
          /\ \A i \in 1..pool.Length : pool.Data[i] = rx[i]
      BY <2>1 DEF HeadPeeked
    <2>3. /\ HeadText(t) /\ t \in Seq(Tokens) /\ Rest(heads, parsed + 1) \in Seq(Tokens)
          /\ rx \o unsent = t \o Rest(heads, parsed + 1)
          /\ Starts(rx, Len(rx), t)
      BY <1>2, <2>1, <2>2, NextHead
    <2>4. /\ rx \in Seq(Tokens) /\ unsent \in Seq(Tokens)
          /\ pool = [Data |-> pool.Data, Length |-> pool.Length]
          /\ Bytes(pool.Data) /\ pool.Length \in Nat /\ parsed \in 0..Len(heads)
      BY <2>1 DEF Stands
    <2>5. size \in Nat /\ size >= 5 /\ Len(rx) \in Nat /\ Len(unsent) \in Nat /\ Len(heads) \in Nat
      <3>1. Len(t) \in Nat /\ Len(t) >= 5
        BY <2>3 DEF HeadText
      <3>2. Len(heads) \in Nat
        BY <1>2 DEF Heads
      <3>. HIDE DEF t
      <3>. QED BY <2>2, <2>4, <3>1, <3>2
    <2>. HIDE DEF t
    <2>6. Starts(pool.Data, pool.Length, t)
      <3>1. ASSUME NEW i \in 1..Len(t), i <= pool.Length PROVE pool.Data[i] = t[i]
        <4>1. i \in 1..pool.Length /\ i <= Len(rx)
          BY <2>2, <2>4, <2>5, <3>1
        <4>. QED BY <2>2, <2>3, <4>1 DEF Starts
      <3>. QED BY <3>1 DEF Starts
    <2>7. /\ Bytes(r.data) /\ r.verdict \in Verdicts
          /\ r.verdict = "ok" => r.request.Length = Len(t)
      BY <2>2, <2>3, <2>4, <2>6, HeadParsing DEF r
    <2>8. /\ r.verdict = "ok" /\ pool' = [pool EXCEPT !.Data = r.data] /\ request' = r.request
          /\ parsed' = parsed + 1 /\ pc' = "read"
      BY <1>1, <1>5, <2>7 DEF Verdicts
    <2>9. rx' \in Seq(Tokens) /\ Len(rx') = Len(rx) - size /\ rx' \o unsent = Rest(heads, parsed + 1)
      <3>1. size \in 0..Len(rx)
        BY <2>2, <2>4, <2>5
      <3>2. Copied(rx', Tokens, rx, Len(t), Len(rx) - Len(t))
        BY <1>1, <2>2, <2>4, <3>1, SubSeqCopies
      <3>3. Len(t) <= Len(rx)
        BY <2>2, <3>1
      <3> DEFINE q == Rest(heads, parsed + 1)
                 z == rx'
      <3>. HIDE DEF q, z
      <3>4. Alike(rx, unsent, t, q) /\ q \in Seq(Tokens) /\ t \in Seq(Tokens)
        BY <2>3 DEF Alike, q
      <3>5. Copied(z, Tokens, rx, Len(t), Len(rx) - Len(t))
        BY <3>2 DEF z
      <3>6. z \in Seq(Tokens) /\ Len(z) = Len(rx) - Len(t) /\ Alike(z, unsent, <<>>, q)
        BY <2>4, <3>3, <3>4, <3>5, Drops, Zenon
      <3>7. <<>> \o q = q
        BY <3>4, EmptyConcats
      <3>. QED BY <2>2, <3>6, <3>7 DEF q, z, Alike
    <2>10. /\ pool'.Data = r.data /\ pool'.Length = pool.Length
           /\ pool' = [Data |-> pool'.Data, Length |-> pool'.Length]
      BY <2>4, <2>8
    <2>11. Bytes(pool.Data)'
      BY <2>7, <2>10 DEF Bytes
    <2>12. parsed' \in 0..Len(heads) /\ parsed' # 0
      <3>1. parsed' = parsed + 1 /\ parsed < Len(heads)
        BY <2>2, <2>8
      <3>. QED BY <2>4, <2>5, <3>1
    <2>13. request'.Length = size'
      BY <1>1, <2>2, <2>7, <2>8
    <2>14. pc' # "parse"
      BY <2>8
    <2>. QED BY <1>1, <2>4, <2>8, <2>9, <2>10, <2>11, <2>12, <2>13, <2>14 DEF Stands
  <1>. QED BY <1>1, <1>2, <1>3, <1>4, <1>5 DEF HeadsInv

LEMMA BuildKeeps ==
  ASSUME HeadsInv, BuildPath
  PROVE  HeadsInv'
  BY DEF HeadsInv, BuildPath

(* Heads are taken out of the socket one by one and whole: the number of    *)
(* bytes EpollHttpWorker takes (line 166) is the one VHttpRequest_Parse      *)
(* counts, and what it leaves begins with the next head.  Only a comparison  *)
(* that ran on behind Length can break this, and only after another head,   *)
(* or when less than three bytes of the pool are free.                      *)
THEOREM HeadsAreTakenExactly == RequestSpec => []HeadsTakenExactly
  <1>1. RequestInit => HeadsInv
    BY InvBegins
  <1>2. HeadsInv /\ [RequestNext]_requestVars => HeadsInv'
    <2> SUFFICES ASSUME HeadsInv, [RequestNext]_requestVars PROVE HeadsInv'
      OBVIOUS
    <2>1. ASSUME NEW n \in 1..Len(unsent), Arrive(n) PROVE HeadsInv'
      BY <2>1, ArriveKeeps
    <2>2. CASE Peek
      BY <2>2, PeekKeeps
    <2>3. CASE ParseHead
      BY <2>3, ParseKeeps
    <2>4. CASE BuildPath
      BY <2>4, BuildKeeps
    <2>5. CASE UNCHANGED requestVars
      BY <2>5 DEF requestVars, HeadsInv, Heads, Stands, Bytes, Fresh, HeadPeeked
    <2>. QED BY <2>1, <2>2, <2>3, <2>4, <2>5 DEF RequestNext
  <1>3. HeadsInv => HeadsTakenExactly
    <2> SUFFICES ASSUME HeadsInv PROVE HeadsTakenExactly
      OBVIOUS
    <2>1. straddled => parsed > 0 \/ pool.Length + 3 > PoolSize
      BY DEF HeadsInv
    <2>2. ASSUME pc = "read", ~straddled
          PROVE  /\ rx \o unsent = RawAll(SubSeq(heads, parsed + 1, Len(heads)))
                 /\ parsed > 0 /\ size > 0 => request.Length = size
      <3>1. Heads(heads) /\ Stands
        BY <2>2 DEF HeadsInv
      <3>2. parsed \in 0..Len(heads) /\ rx \o unsent = Rest(heads, parsed)
        BY <3>1 DEF Stands
      <3>3. RawAll(SubSeq(heads, parsed + 1, Len(heads))) = Rest(heads, parsed)
        BY <3>1, <3>2, RawIsRest, Zenon
      <3>. QED BY <2>2, <3>1, <3>2, <3>3 DEF Stands
    <2>. QED BY <2>1, <2>2 DEF HeadsTakenExactly
  <1>. QED BY <1>1, <1>2, <1>3, PTL DEF RequestSpec
=============================================================================

----------------------------- MODULE ScriptProofs -----------------------------
(*****************************************************************************)
(* A script arrives whole, for every set of runs, every script, every size   *)
(* of a piece and every ceiling, wherever the socket breaks and whoever      *)
(* leaves.  First what cutting up a script makes of it, by induction over    *)
(* its characters; then where its pieces lie on their way; then the          *)
(* invariant: what has gone before and what is to come make up the script,   *)
(* on either side of the socket.                                             *)
(*****************************************************************************)
EXTENDS ScriptTransfer, Induction, SequenceTheorems

-----------------------------------------------------------------------------
(* Cutting up a script *)

Char == [at : Nat, width : 1 .. PieceSize]

\* The size of a beginning is the size of one that is shorter by a character, and the
\* width of that.
LEMMA BytesSum ==
    ASSUME NEW t \in Seq(Char)
    PROVE  /\ Bytes(t) \in [0 .. Len(t) -> Nat] /\ Bytes(t)[0] = 0
           /\ \A n \in 1 .. Len(t) : Bytes(t)[n] = Bytes(t)[n - 1] + t[n].width
<1> DEFINE N == Len(t)
           step == [p \in (1 .. N) \X Nat |-> p[2] + t[p[1]].width]
<1>1. N \in Nat
  BY LenProperties
<1>2. \A n \in 1 .. N : t[n].width \in Nat
  <2> TAKE n \in 1 .. N
  <2>1. t[n] \in Char
    BY ElementOfSeq
  <2> QED
    BY <2>1, SourcesAssumption DEF Char
<1>3. step \in [(1 .. N) \X Nat -> Nat]
  BY <1>2
<1>4. \A n \in 1 .. N, x \in Nat : step[<<n, x>>] = x + t[n].width
  OBVIOUS
<1> HIDE DEF step, N
<1>5. PICK f \in [0 .. N -> Nat] : f[0] = 0 /\ \A k \in 1 .. N : f[k] = step[<<k, f[k - 1]>>]
  <2>1. 0 \in Nat
    OBVIOUS
  <2>2. \E f : Recurs(f, N, Nat, 0, step)
    BY <1>1, <1>3, <2>1, Recursion, Zenon
  <2> QED
    BY <2>2 DEF Recurs
<1>6. \A k \in 1 .. N : f[k] = f[k - 1] + t[k].width
  <2> TAKE k \in 1 .. N
  <2>1. k - 1 \in 0 .. N
    BY <1>1
  <2> QED
    BY <2>1, <1>4, <1>5
<1> DEFINE body(g) == [n \in 0 .. N |-> IF n = 0 THEN 0 ELSE g[n - 1] + t[n].width]
<1>7. f = body(f)
  BY <1>1, <1>5, <1>6
<1> DEFINE b == Bytes(t)
<1>8. b = CHOOSE g : g = body(g)
  BY DEF Bytes, N
<1> HIDE DEF b
<1>9. b = body(b)
  BY <1>7, <1>8
<1>10. b[0] = 0 /\ \A n \in 1 .. N : b[n] = b[n - 1] + t[n].width
  BY <1>1, <1>9
<1> DEFINE S == {n \in 0 .. N : b[n] \in Nat}
<1>11. 0 \in S
  BY <1>1, <1>10
<1>12. \A n \in 0 .. N - 1 : n \in S => n + 1 \in S
  <2> SUFFICES ASSUME NEW n \in 0 .. N - 1, n \in S PROVE n + 1 \in S
    OBVIOUS
  <2>1. n + 1 \in 1 .. N /\ n + 1 - 1 = n
    BY <1>1
  <2>2. b[n + 1] = b[n] + t[n + 1].width
    BY <2>1, <1>10
  <2> QED
    BY <2>1, <2>2, <1>2
<1> HIDE DEF S
<1>13. \A n \in 0 .. N : n \in S
  BY <1>1, <1>11, <1>12, NatUpTo
<1>14. \A n \in 0 .. N : b[n] \in Nat
  BY <1>13 DEF S
<1>15. b \in [0 .. N -> Nat]
  BY <1>9, <1>14
<1> QED
  BY <1>10, <1>15 DEF b, N

\* A character is at least a byte and at most a piece.
LEMMA BytesGrow ==
    ASSUME NEW t \in Seq(Char)
    PROVE  /\ Len(t) \in Nat
           /\ Bytes(t) \in [0 .. Len(t) -> Nat] /\ Bytes(t)[0] = 0
           /\ \A n \in 1 .. Len(t) : Bytes(t)[n] - Bytes(t)[n - 1] \in 1 .. PieceSize
<1>1. Len(t) \in Nat
  BY LenProperties
<1>2. ASSUME NEW n \in 1 .. Len(t) PROVE Bytes(t)[n] - Bytes(t)[n - 1] \in 1 .. PieceSize
  <2>1. t[n] \in Char
    BY ElementOfSeq
  <2>2. t[n].width \in 1 .. PieceSize
    BY <2>1 DEF Char
  <2>3. n - 1 \in 0 .. Len(t)
    BY <1>1
  <2>4. Bytes(t)[n - 1] \in Nat /\ Bytes(t)[n] = Bytes(t)[n - 1] + t[n].width
    BY <2>3, BytesSum
  <2> QED
    BY <2>2, <2>4, SourcesAssumption
<1> QED
  BY <1>1, <1>2, BytesSum

\* What does not fit is cut, before its end, to what does.
LEMMA CutWithin ==
    ASSUME NEW t \in Seq(Char), NEW n \in 0 .. Len(t), ~ Fits(t, n, Len(t))
    PROVE  Cut(t, n) \in n + 1 .. Len(t) - 1 /\ Fits(t, n, Cut(t, n))
<1> DEFINE L == Len(t)
           b == Bytes(t)
           T == {m \in n .. L : ~ (b[m] - b[n] <= PieceSize)}
<1>1. L \in Nat /\ b \in [0 .. L -> Nat] /\ \A m \in 1 .. L : b[m] - b[m - 1] \in 1 .. PieceSize
  BY BytesGrow
<1>2. L \in T /\ T \in SUBSET Nat
  BY <1>1 DEF Fits
<1>3. PICK m \in T : \A k \in T : m <= k
  <2> HIDE DEF T
  <2> QED
    BY <1>2, NatLeast
<1>4. m \in n .. L /\ ~ (b[m] - b[n] <= PieceSize)
  OBVIOUS
<1> HIDE DEF b, L
<1>5. PieceSize \in Nat
  BY SourcesAssumption
<1>6. n \in 0 .. L
  BY DEF L
<1>7. m # n
  <2>1. b[n] \in Nat
    BY <1>1, <1>6
  <2> QED
    BY <1>4, <1>5, <2>1
<1>8. m # n + 1
  <2> SUFFICES ASSUME m = n + 1 PROVE FALSE
    OBVIOUS
  <2>1. n + 1 \in 1 .. L /\ n + 1 - 1 = n
    BY <1>1, <1>4, <1>6
  <2>2. b[n + 1] - b[n] \in 1 .. PieceSize
    BY <1>1, <2>1
  <2> QED
    BY <1>4, <2>2
<1>9. m - 1 \in n + 1 .. L - 1 /\ m - 1 + 1 = m
  BY <1>1, <1>4, <1>6, <1>7, <1>8
<1>10. m - 1 \notin T
  BY <1>3, <1>9
<1>11. b[m - 1] - b[n] <= PieceSize
  BY <1>1, <1>6, <1>9, <1>10
<1>12. m - 1 \in n + 1 .. Len(t) - 1 /\ Fits(t, n, m - 1) /\ ~ Fits(t, n, m - 1 + 1)
  BY <1>4, <1>9, <1>11 DEF Fits, b, L
<1> QED
  BY <1>12 DEF Cut

\* p is t from its n-th character on, cut at the places c.
CutUp(t, n, p, c) ==
    /\ p \in Seq(Seq(Char)) /\ Len(p) # 0
    /\ c \in [0 .. Len(p) -> 0 .. Len(t)] /\ c[0] = n /\ c[Len(p)] = Len(t)
    /\ \A i \in 1 .. Len(p) : /\ c[i - 1] < c[i] /\ Fits(t, c[i - 1], c[i])
                             /\ p[i] = SubSeq(t, c[i - 1] + 1, c[i])

LEMMA PieceType ==
    ASSUME NEW t \in Seq(Char), NEW n \in 0 .. Len(t), NEW m \in n .. Len(t)
    PROVE  /\ SubSeq(t, n + 1, m) \in Seq(Char) /\ Len(SubSeq(t, n + 1, m)) = m - n
           /\ \A i \in 1 .. m - n : SubSeq(t, n + 1, m)[i] = t[n + i]
<1>1. Len(t) \in Nat
  BY LenProperties
<1>2. \A i \in n + 1 .. m : t[i] \in Char
  BY <1>1, ElementOfSeq
<1>3. n + 1 \in Int /\ m \in Int
  BY <1>1
<1>4. /\ SubSeq(t, n + 1, m) \in Seq(Char)
      /\ Len(SubSeq(t, n + 1, m)) = IF n + 1 <= m THEN m - (n + 1) + 1 ELSE 0
      /\ \A i \in 1 .. m - (n + 1) + 1 : SubSeq(t, n + 1, m)[i] = t[(n + 1) + i - 1]
  BY <1>2, <1>3, SubSeqProperties
<1> QED
  BY <1>1, <1>3, <1>4

LEMMA CutUpLast ==
    ASSUME NEW t \in Seq(Char), NEW n \in 0 .. Len(t) - 1, Fits(t, n, Len(t))
    PROVE  \E c : CutUp(t, n, <<SubSeq(t, n + 1, Len(t))>>, c)
<1> DEFINE L == Len(t)
           q == SubSeq(t, n + 1, L)
           c == [i \in 0 .. 1 |-> IF i = 0 THEN n ELSE L]
<1>1. L \in Nat
  BY LenProperties
<1>2. q \in Seq(Char)
  BY <1>1, PieceType
<1> DEFINE p == <<q>>
<1>3. p \in Seq(Seq(Char)) /\ Len(p) = 1 /\ p[1] = q
  BY <1>2
<1>4. c \in [0 .. 1 -> 0 .. L] /\ c[0] = n /\ c[1] = L /\ n < L
  BY <1>1
<1> HIDE DEF c, p
<1>5. ASSUME NEW i \in 1 .. Len(p)
      PROVE  c[i - 1] < c[i] /\ Fits(t, c[i - 1], c[i]) /\ p[i] = SubSeq(t, c[i - 1] + 1, c[i])
  <2>1. i = 1 /\ i - 1 = 0
    BY <1>3
  <2> QED
    BY <2>1, <1>3, <1>4
<1>6. CutUp(t, n, p, c)
  BY <1>3, <1>4, <1>5 DEF CutUp
<1> QED
  BY <1>6 DEF p

LEMMA CutUpMore ==
    ASSUME NEW t \in Seq(Char), NEW n \in 0 .. Len(t) - 1, NEW m \in n + 1 .. Len(t) - 1, Fits(t, n, m),
           NEW q, NEW d, CutUp(t, m, q, d)
    PROVE  \E c : CutUp(t, n, <<SubSeq(t, n + 1, m)>> \o q, c)
<1> DEFINE L == Len(t)
           N == Len(q)
           h == SubSeq(t, n + 1, m)
           p == <<h>> \o q
           c == [i \in 0 .. N + 1 |-> IF i = 0 THEN n ELSE d[i - 1]]
<1>1. L \in Nat /\ N \in Nat
  BY LenProperties DEF CutUp
<1>2. h \in Seq(Char)
  BY <1>1, PieceType
<1>3. <<h>> \in Seq(Seq(Char)) /\ Len(<<h>>) = 1 /\ <<h>>[1] = h /\ q \in Seq(Seq(Char))
  BY <1>2 DEF CutUp
<1> HIDE DEF h
<1>4. /\ p \in Seq(Seq(Char)) /\ Len(p) = N + 1
      /\ \A i \in 1 .. N + 1 : p[i] = IF i <= 1 THEN <<h>>[i] ELSE q[i - 1]
  <2>1. /\ <<h>> \o q \in Seq(Seq(Char)) /\ Len(<<h>> \o q) = Len(<<h>>) + Len(q)
        /\ \A i \in 1 .. Len(<<h>>) + Len(q) : (<<h>> \o q)[i] = IF i <= Len(<<h>>) THEN <<h>>[i] ELSE q[i - Len(<<h>>)]
    BY <1>3, ConcatProperties
  <2> QED
    BY <2>1, <1>1, <1>3
<1>5. d \in [0 .. N -> 0 .. L] /\ d[0] = m /\ d[N] = L
  BY DEF CutUp
<1>6. /\ c \in [0 .. N + 1 -> 0 .. L] /\ c[0] = n /\ \A i \in 1 .. N + 1 : c[i] = d[i - 1]
  <2> HIDE DEF L, N
  <2>1. n \in 0 .. L
    BY <1>1 DEF L
  <2>2. \A i \in 1 .. N + 1 : i - 1 \in 0 .. N
    BY <1>1
  <2> QED
    BY <1>1, <1>5, <2>1, <2>2
<1> HIDE DEF c, p
<1>7. c[N + 1] = L
  <2>1. N + 1 \in 1 .. N + 1 /\ N + 1 - 1 = N
    BY <1>1
  <2> QED
    BY <2>1, <1>5, <1>6
<1>8. ASSUME NEW i \in 1 .. N + 1
      PROVE  c[i - 1] < c[i] /\ Fits(t, c[i - 1], c[i]) /\ p[i] = SubSeq(t, c[i - 1] + 1, c[i])
  <2>1. CASE i = 1
    <3>1. 1 \in 1 .. N + 1 /\ 1 - 1 = 0
      BY <1>1
    <3>2. c[i - 1] = n /\ c[i] = m
      BY <2>1, <3>1, <1>5, <1>6
    <3>3. p[i] = h
      BY <2>1, <3>1, <1>3, <1>4
    <3> QED
      BY <3>2, <3>3 DEF h
  <2>2. CASE i # 1
    <3>1. i - 1 \in 1 .. N /\ i - 1 \in 1 .. N + 1 /\ i \in 1 .. N + 1
      BY <2>2, <1>1
    <3>2. c[i] = d[i - 1] /\ c[i - 1] = d[i - 1 - 1]
      BY <3>1, <1>6
    <3>4. p[i] = q[i - 1]
      <4> HIDE DEF N, L
      <4>1. ~ (i <= 1)
        BY <2>2, <1>1
      <4> QED
        BY <4>1, <3>1, <1>4
    <3>3. /\ d[i - 1 - 1] < d[i - 1] /\ Fits(t, d[i - 1 - 1], d[i - 1])
          /\ q[i - 1] = SubSeq(t, d[i - 1 - 1] + 1, d[i - 1])
      BY <3>1 DEF CutUp
    <3> QED
      BY <3>2, <3>3, <3>4
  <2> QED
    BY <2>1, <2>2
<1>9. CutUp(t, n, p, c)
  BY <1>1, <1>4, <1>6, <1>7, <1>8 DEF CutUp
<1> QED
  BY <1>9 DEF p, h

\* The pieces of a script are all of it, in order, each within the limit.
LEMMA PiecesSplit ==
    ASSUME NEW t \in Seq(Char), t # <<>>
    PROVE  \E c : CutUp(t, 0, PiecesOf(t), c)
<1> DEFINE L == Len(t)
           piece(f, n) == IF Fits(t, n, L) THEN <<SubSeq(t, n + 1, L)>>
                          ELSE <<SubSeq(t, n + 1, Cut(t, n))>> \o f[Cut(t, n)]
           from == CHOOSE f : f = [n \in 0 .. L |-> piece(f, n)]
<1>1. L \in Nat /\ L # 0
  BY LenProperties, EmptySeq
<1>2. \A n \in 0 .. L : ~ Fits(t, n, L) => Cut(t, n) \in n + 1 .. L - 1 /\ Fits(t, n, Cut(t, n))
  BY CutWithin
<1>3. PiecesOf(t) = from[0]
  BY DEF PiecesOf
<1> HIDE DEF L
<1>4. \A k \in 0 .. L : \E f : f = [n \in L - k .. L |-> piece(f, n)]
  <2> DEFINE Solved(k) == \E f : f = [n \in L - k .. L |-> piece(f, n)]
             S == {k \in 0 .. L : Solved(k)}
  <2>1. 0 \in S
    <3> DEFINE g == [n \in L - 0 .. L |-> <<SubSeq(t, n + 1, L)>>]
    <3>1. Fits(t, L, L)
      <4>1. Bytes(t)[L] \in Nat
        BY <1>1, BytesSum DEF L
      <4> QED
        BY <4>1, SourcesAssumption DEF Fits
    <3>2. \A n \in L - 0 .. L : piece(g, n) = g[n]
      BY <1>1, <3>1
    <3>3. g = [n \in L - 0 .. L |-> piece(g, n)]
      BY <3>2
    <3> HIDE DEF g, piece
    <3> QED
      BY <1>1, <3>3
  <2>2. ASSUME NEW k \in 0 .. L - 1, k \in S PROVE k + 1 \in S
    <3>1. PICK f : f = [n \in L - k .. L |-> piece(f, n)]
      BY <2>2
    <3> DEFINE m == L - (k + 1)
               g == [n \in m .. L |-> piece(f, n)]
    <3>2. m \in 0 .. L - 1 /\ m + 1 = L - k
      BY <1>1
    <3>3. \A n \in m + 1 .. L : g[n] = f[n]
      <4> HIDE DEF piece, m
      <4> TAKE n \in m + 1 .. L
      <4>1. n \in L - k .. L /\ n \in m .. L
        BY <1>1, <3>2
      <4>2. g[n] = piece(f, n)
        BY <4>1
      <4> QED
        BY <4>1, <4>2, <3>1
    <3>4. ASSUME NEW n \in m .. L PROVE piece(g, n) = piece(f, n)
      <4> HIDE DEF g, m
      <4>1. n \in 0 .. L
        BY <1>1, <3>2
      <4>2. CASE Fits(t, n, L)
        BY <4>2
      <4>3. CASE ~ Fits(t, n, L)
        <5>1. Cut(t, n) \in m + 1 .. L
          BY <4>1, <4>3, <1>1, <1>2, <3>2
        <5> QED
          BY <5>1, <4>3, <3>3
      <4> QED
        BY <4>2, <4>3
    <3>5. g = [n \in m .. L |-> piece(g, n)]
      <4> HIDE DEF piece
      <4> QED
        BY <3>4
    <3>6. Solved(k + 1)
      <4> HIDE DEF g, piece
      <4> QED
        BY <3>5
    <3> QED
      BY <3>6, <1>1
  <2> HIDE DEF S
  <2>3. \A k \in 0 .. L : k \in S
    BY <1>1, <2>1, <2>2, NatUpTo
  <2> QED
    BY <2>3 DEF S
<1>5. from = [n \in 0 .. L |-> piece(from, n)]
  <2> HIDE DEF piece
  <2>1. L \in 0 .. L /\ L - L = 0
    BY <1>1
  <2>2. \E f : f = [n \in L - L .. L |-> piece(f, n)]
    BY <2>1, <1>4
  <2>3. \E f : f = [n \in 0 .. L |-> piece(f, n)]
    BY <2>1, <2>2
  <2> QED
    BY <2>3
<1> HIDE DEF from
<1> DEFINE Done(m) == \E c : CutUp(t, m, from[m], c)
           S == {k \in 0 .. L - 1 : \A m \in L - 1 - k .. L - 1 : Done(m)}
<1>6. ASSUME NEW m \in 0 .. L - 1, \A n \in m + 1 .. L - 1 : Done(n) PROVE Done(m)
  <2>1. m \in 0 .. L /\ from[m] = piece(from, m)
    <3> HIDE DEF piece
    <3>1. m \in 0 .. L
      BY <1>1
    <3> QED
      BY <3>1, <1>5
  <2>2. CASE Fits(t, m, L)
    <3>1. from[m] = <<SubSeq(t, m + 1, L)>>
      BY <2>1, <2>2
    <3> QED
      BY <3>1, <2>2, CutUpLast DEF L
  <2>3. CASE ~ Fits(t, m, L)
    <3>1. Cut(t, m) \in m + 1 .. L - 1 /\ Fits(t, m, Cut(t, m))
      BY <2>1, <2>3, <1>2
    <3>2. from[m] = <<SubSeq(t, m + 1, Cut(t, m))>> \o from[Cut(t, m)]
      BY <2>1, <2>3
    <3>3. PICK d : CutUp(t, Cut(t, m), from[Cut(t, m)], d)
      BY <3>1, <1>6
    <3> QED
      BY <3>1, <3>2, <3>3, CutUpMore DEF L
  <2> QED
    BY <2>2, <2>3
<1> HIDE DEF Done
<1>7. 0 \in S
  <2>1. \A n \in L - 1 + 1 .. L - 1 : Done(n)
    BY <1>1
  <2>2. Done(L - 1)
    BY <1>1, <1>6, <2>1
  <2> QED
    BY <1>1, <2>2
<1>8. ASSUME NEW k \in 0 .. L - 1 - 1, k \in S PROVE k + 1 \in S
  <2> DEFINE m == L - 1 - (k + 1)
  <2>1. m \in 0 .. L - 1 /\ m + 1 = L - 1 - k /\ k + 1 \in 0 .. L - 1
    BY <1>1
  <2>2. \A n \in m + 1 .. L - 1 : Done(n)
    BY <1>8, <2>1
  <2>3. Done(m)
    BY <1>6, <2>1, <2>2
  <2>4. \A n \in m .. L - 1 : n = m \/ n \in m + 1 .. L - 1
    BY <1>1, <2>1
  <2>5. \A n \in m .. L - 1 : Done(n)
    BY <2>2, <2>3, <2>4
  <2> QED
    BY <2>1, <2>5
<1> HIDE DEF S
<1>9. L - 1 \in Nat
  BY <1>1
<1>10. \A k \in 0 .. L - 1 : k \in S
  BY <1>7, <1>8, <1>9, NatUpTo
<1>11. L - 1 \in S
  BY <1>9, <1>10
<1>12. 0 \in L - 1 - (L - 1) .. L - 1
  BY <1>1
<1>13. Done(0)
  BY <1>11, <1>12 DEF S
<1> QED
  BY <1>3, <1>13 DEF Done

\* The size of a stretch of a script is the difference of the sizes of what ends with it
\* and of what comes before it.
LEMMA SizeOfPiece ==
    ASSUME NEW t \in Seq(Char), NEW n \in 0 .. Len(t), NEW m \in n .. Len(t)
    PROVE  Size(SubSeq(t, n + 1, m)) = Bytes(t)[m] - Bytes(t)[n]
<1> DEFINE q == SubSeq(t, n + 1, m)
           b == Bytes(t)
           d == Bytes(q)
           S == {k \in 0 .. m - n : d[k] = b[n + k] - b[n]}
<1>1. Len(t) \in Nat /\ m - n \in Nat
  BY LenProperties
<1>2. q \in Seq(Char) /\ Len(q) = m - n /\ \A i \in 1 .. m - n : q[i] = t[n + i]
  BY PieceType
<1>3. /\ b \in [0 .. Len(t) -> Nat] /\ \A k \in 1 .. Len(t) : b[k] = b[k - 1] + t[k].width
  BY BytesSum
<1>4. /\ d \in [0 .. m - n -> Nat] /\ d[0] = 0
      /\ \A k \in 1 .. m - n : d[k] = d[k - 1] + q[k].width
  <2> HIDE DEF q
  <2>1. d \in [0 .. Len(q) -> Nat] /\ d[0] = 0 /\ \A k \in 1 .. Len(q) : d[k] = d[k - 1] + q[k].width
    BY <1>2, BytesSum
  <2> QED
    BY <1>2, <2>1
<1> HIDE DEF q, b, d
<1>5. 0 \in S
  <2>1. b[n] \in Nat
    BY <1>3
  <2> QED
    BY <1>1, <1>4, <2>1
<1>6. ASSUME NEW k \in 0 .. m - n - 1, k \in S PROVE k + 1 \in S
  <2>1. k + 1 \in 1 .. m - n /\ k + 1 - 1 = k /\ n + (k + 1) \in 1 .. Len(t) /\ n + (k + 1) - 1 = n + k
    BY <1>1
  <2>2. d[k + 1] = d[k] + q[k + 1].width /\ q[k + 1] = t[n + (k + 1)]
    BY <1>2, <1>4, <2>1
  <2>3. b[n + (k + 1)] = b[n + k] + t[n + (k + 1)].width
    BY <1>3, <2>1
  <2>4. t[n + (k + 1)] \in Char
    BY <2>1, ElementOfSeq
  <2>5. t[n + (k + 1)].width \in Nat
    <3>1. t[n + (k + 1)].width \in 1 .. PieceSize
      BY <2>4 DEF Char
    <3> QED
      BY <3>1, SourcesAssumption
  <2>6. b[n + k] \in Nat /\ b[n] \in Nat /\ d[k] = b[n + k] - b[n]
    <3>1. n + k \in 0 .. Len(t) /\ n \in 0 .. Len(t)
      BY <1>1
    <3>2. b[n + k] \in Nat /\ b[n] \in Nat
      BY <3>1, <1>3
    <3>3. d[k] = b[n + k] - b[n]
      BY <1>6
    <3> QED
      BY <3>2, <3>3
  <2>7. d[k + 1] = b[n + (k + 1)] - b[n]
    BY <2>2, <2>3, <2>5, <2>6
  <2> QED
    BY <1>1, <2>1, <2>7
<1> HIDE DEF S
<1>7. \A k \in 0 .. m - n : k \in S
  BY <1>1, <1>5, <1>6, NatUpTo
<1>8. m - n \in S
  BY <1>1, <1>7
<1>9. d[m - n] = b[n + (m - n)] - b[n] /\ n + (m - n) = m
  BY <1>1, <1>8 DEF S
<1> QED
  BY <1>2, <1>9 DEF Size, q, b, d

-----------------------------------------------------------------------------
(* A script is made of its messages *)

Number(t) == Len(PiecesOf(t))
Cuts(t) == CHOOSE c : CutUp(t, 0, PiecesOf(t), c)
Made(t, i) == SubSeq(t, 1, Cuts(t)[i])

Piece == {x \in Seq(Char) : Size(x) <= PieceSize}
Message == [kind : {"run", "chunk", "kill"}, run : Uploads, text : Piece, more : BOOLEAN]

LEMMA MadeOf ==
    ASSUME NEW t \in Seq(Char), t # <<>>
    PROVE  /\ Number(t) \in Nat \ {0}
           /\ \A i \in 0 .. Number(t) : Made(t, i) \in Seq(Char) /\ (Made(t, i) = <<>>) = (i = 0)
           /\ Made(t, Number(t)) = t
           /\ \A i \in 1 .. Number(t) :
                 PiecesOf(t)[i] \in Piece /\ Made(t, i - 1) \o PiecesOf(t)[i] = Made(t, i)
<1> DEFINE c == Cuts(t)
           p == PiecesOf(t)
           N == Len(p)
           L == Len(t)
<1>1. CutUp(t, 0, p, c)
  BY PiecesSplit DEF Cuts
<1>2. L \in Nat
  BY LenProperties
<1> HIDE DEF c, p
<1>3. /\ p \in Seq(Seq(Char)) /\ c \in [0 .. N -> 0 .. L] /\ c[0] = 0 /\ c[N] = L /\ N # 0
      /\ \A i \in 1 .. N : /\ c[i - 1] < c[i] /\ Fits(t, c[i - 1], c[i])
                           /\ p[i] = SubSeq(t, c[i - 1] + 1, c[i])
  BY <1>1 DEF CutUp
<1>4. N \in Nat \ {0}
  BY <1>3, LenProperties
<1> HIDE DEF N, L
<1>5. \A i \in 1 .. N : c[i] > 0
  <2> TAKE i \in 1 .. N
  <2>1. c[i - 1] \in 0 .. L /\ c[i] \in 0 .. L /\ c[i - 1] < c[i]
    <3>1. i - 1 \in 0 .. N /\ i \in 0 .. N
      BY <1>4
    <3>2. c[i - 1] < c[i]
      BY <1>3
    <3> QED
      BY <1>3, <3>1, <3>2
  <2> QED
    BY <2>1
<1>6. ASSUME NEW i \in 0 .. N
      PROVE  SubSeq(t, 1, c[i]) \in Seq(Char) /\ (SubSeq(t, 1, c[i]) = <<>>) = (i = 0)
  <2>1. c[i] \in 0 .. L /\ 0 \in 0 .. L /\ 0 + 1 = 1
    BY <1>2, <1>3
  <2>2. SubSeq(t, 1, c[i]) \in Seq(Char) /\ Len(SubSeq(t, 1, c[i])) = c[i] - 0
    BY <2>1, PieceType DEF L
  <2>3. (SubSeq(t, 1, c[i]) = <<>>) = (c[i] = 0)
    BY <1>2, <2>1, <2>2, EmptySeq
  <2>4. (c[i] = 0) = (i = 0)
    <3>1. CASE i = 0
      BY <3>1, <1>3
    <3>2. CASE i # 0
      <4>1. i \in 1 .. N
        BY <3>2, <1>4
      <4>2. c[i] > 0
        BY <4>1, <1>5
      <4> QED
        BY <3>2, <4>2, <2>1
    <3> QED
      BY <3>1, <3>2
  <2> QED
    BY <2>2, <2>3, <2>4
<1>7. SubSeq(t, 1, c[N]) = t
  BY <1>3, SubSeqFull DEF L
<1>8. ASSUME NEW i \in 1 .. N
      PROVE  p[i] \in Piece /\ SubSeq(t, 1, c[i - 1]) \o p[i] = SubSeq(t, 1, c[i])
  <2>1. c[i - 1] \in 0 .. L /\ c[i] \in 0 .. L /\ c[i - 1] < c[i]
    <3>1. i - 1 \in 0 .. N /\ i \in 0 .. N
      BY <1>4
    <3>2. c[i - 1] < c[i]
      BY <1>3
    <3> QED
      BY <1>3, <3>1, <3>2
  <2>2. p[i] = SubSeq(t, c[i - 1] + 1, c[i]) /\ Fits(t, c[i - 1], c[i])
    BY <1>3
  <2>3. c[i] \in c[i - 1] .. L
    BY <1>2, <2>1
  <2>4. p[i] \in Seq(Char)
    BY <2>1, <2>2, <2>3, PieceType DEF L
  <2>5. Size(p[i]) = Bytes(t)[c[i]] - Bytes(t)[c[i - 1]]
    BY <2>1, <2>2, <2>3, SizeOfPiece DEF L
  <2>6. p[i] \in Piece
    BY <2>2, <2>4, <2>5 DEF Piece, Fits
  <2>7. SubSeq(t, 1, c[i - 1]) \o SubSeq(t, c[i - 1] + 1, c[i]) = SubSeq(t, 1, c[i])
    <3>1. 1 \in 1 .. L + 1 /\ c[i - 1] \in 1 - 1 .. L /\ c[i] \in c[i - 1] .. L
      BY <1>2, <2>1
    <3> QED
      BY <3>1, ConcatAdjacentSubSeq DEF L
  <2> QED
    BY <2>2, <2>6, <2>7
<1> QED
  BY <1>4, <1>6, <1>7, <1>8 DEF Number, Made, c, p, N

\* The i-th message has the i-th piece.
LEMMA MessagesAre ==
    ASSUME NEW t \in Seq(Char), t # <<>>, NEW r \in Uploads
    PROVE  /\ Messages(r, t) \in Seq(Message) /\ Len(Messages(r, t)) = Number(t)
           /\ \A i \in 1 .. Number(t) :
                 Messages(r, t)[i] = [kind |-> IF i = 1 THEN "run" ELSE "chunk", run |-> r,
                                      text |-> PiecesOf(t)[i], more |-> i < Number(t)]
<1> DEFINE N == Number(t)
           p == PiecesOf(t)
           m(i) == [kind |-> IF i = 1 THEN "run" ELSE "chunk", run |-> r, text |-> p[i], more |-> i < N]
<1>1. N \in Nat /\ \A i \in 1 .. N : p[i] \in Piece
  BY MadeOf
<1>2. PICK c : CutUp(t, 0, p, c)
  BY PiecesSplit
<1>3. DOMAIN p = 1 .. N
  BY <1>2, LenProperties DEF CutUp, Number
<1>4. Messages(r, t) = [i \in 1 .. N |-> m(i)]
  BY <1>3 DEF Messages, Number
<1> HIDE DEF N, p
<1>5. \A i \in 1 .. N : m(i) \in Message
  BY <1>1 DEF Message
<1> HIDE DEF m
<1>6. [i \in 1 .. N |-> m(i)] \in [1 .. N -> Message]
  BY <1>5
<1>7. Messages(r, t) \in Seq(Message)
  BY <1>1, <1>4, <1>6, SeqDef
<1>8. Len(Messages(r, t)) = N
  BY <1>1, <1>4, <1>7, LenProperties
<1>9. \A i \in 1 .. N : Messages(r, t)[i] = m(i)
  BY <1>4
<1> QED
  BY <1>7, <1>8, <1>9 DEF m, N, p

LEMMA MessageIs ==
    ASSUME NEW t \in Seq(Char), t # <<>>, NEW r \in Uploads, NEW i \in 1 .. Number(t)
    PROVE  /\ Messages(r, t)[i].kind = (IF i = 1 THEN "run" ELSE "chunk")
           /\ Messages(r, t)[i].run = r /\ Messages(r, t)[i].text = PiecesOf(t)[i]
           /\ Messages(r, t)[i].more = (i < Number(t))
<1>1. Messages(r, t)[i] = [kind |-> IF i = 1 THEN "run" ELSE "chunk", run |-> r,
                           text |-> PiecesOf(t)[i], more |-> i < Number(t)]
  BY MessagesAre
<1> QED
  BY <1>1

-----------------------------------------------------------------------------
(* Pieces on their way *)

\* Of the messages for r, those from the i-th on are in q, o places further on than in the
\* script, and behind them at most a kill.
Laid(q, r, t, i, o) ==
    /\ i \in 0 .. Number(t) /\ o \in Int /\ o + Number(t) <= Len(q)
    /\ \A k \in i + 1 .. Number(t) : o + k \in 1 .. Len(q) /\ q[o + k] = Messages(r, t)[k]
    /\ \A p \in 1 .. Len(q) :
          q[p].run = r => \/ p - o \in i + 1 .. Number(t)
                          \/ q[p].kind = "kill" /\ p - o > Number(t)

\* No message in q is for r.
Free(q, r) == \A p \in 1 .. Len(q) : q[p].run # r

\* z is what q is from its n-th message on.
After(q, n, z) == Len(z) = Len(q) - n /\ \A p \in 1 .. Len(q) - n : z[p] = q[n + p]

LEMMA LaidAfter ==
    ASSUME NEW q \in Seq(Message), NEW n \in 0 .. Len(q), NEW z \in Seq(Message), After(q, n, z),
           NEW r \in Uploads, NEW t \in Seq(Char), t # <<>>, NEW i, NEW o, Laid(q, r, t, i, o)
    PROVE  /\ n - o <= i => Laid(z, r, t, i, o - n)
           /\ n - o \in i .. Number(t) => Laid(z, r, t, n - o, o - n)
           /\ n - o > Number(t) => Laid(z, r, t, Number(t), o - n)
           /\ n - o > i /\ i < Number(t) => \E p \in 1 .. n : q[p].run = r
<1> DEFINE N == Number(t)
           M == Messages(r, t)
           L == Len(q)
<1>1. N \in Nat \ {0} /\ L \in Nat /\ Len(z) \in Nat
  BY MadeOf, LenProperties
<1>2. \A k \in 1 .. N : M[k].run = r
  BY MessageIs
<1> HIDE DEF N, M
<1>3. /\ i \in 0 .. N /\ o \in Int /\ o + N <= L
      /\ \A k \in i + 1 .. N : o + k \in 1 .. L /\ q[o + k] = M[k]
      /\ \A p \in 1 .. L : q[p].run = r => p - o \in i + 1 .. N \/ (q[p].kind = "kill" /\ p - o > N)
  BY DEF Laid, N, M
<1>4. Len(z) = L - n /\ n \in 0 .. L /\ \A p \in 1 .. L - n : z[p] = q[n + p]
  BY DEF After
<1> HIDE DEF L
<1>5. ASSUME NEW j \in i .. N, n - o <= j, j = i \/ j <= n - o
      PROVE  Laid(z, r, t, j, o - n)
  <2>1. j \in 0 .. N /\ o - n \in Int /\ (o - n) + N <= Len(z)
    BY <1>1, <1>3, <1>4
  <2>2. ASSUME NEW k \in j + 1 .. N PROVE (o - n) + k \in 1 .. Len(z) /\ z[(o - n) + k] = M[k]
    <3>1. k \in i + 1 .. N
      BY <1>1, <1>3
    <3>2. o + k \in 1 .. L /\ q[o + k] = M[k]
      BY <1>3, <3>1
    <3>3. (o - n) + k \in 1 .. L - n /\ n + ((o - n) + k) = o + k
      BY <1>1, <1>3, <1>4, <1>5, <3>2
    <3> QED
      BY <1>4, <3>2, <3>3
  <2>3. ASSUME NEW p \in 1 .. Len(z), z[p].run = r
        PROVE  p - (o - n) \in j + 1 .. N \/ (z[p].kind = "kill" /\ p - (o - n) > N)
    <3>1. n + p \in 1 .. L /\ z[p] = q[n + p] /\ p \in 1 .. L - n
      BY <1>1, <1>4
    <3>2. (n + p) - o \in i + 1 .. N \/ (q[n + p].kind = "kill" /\ (n + p) - o > N)
      BY <1>3, <2>3, <3>1
    <3>3. (n + p) - o = p - (o - n) /\ (n + p) - o > n - o
      BY <1>1, <1>3, <1>4
    <3>4. CASE (n + p) - o \in i + 1 .. N
      BY <3>3, <3>4, <1>1, <1>3, <1>4, <1>5
    <3>5. CASE q[n + p].kind = "kill" /\ (n + p) - o > N
      BY <3>1, <3>3, <3>5
    <3> QED
      BY <3>2, <3>4, <3>5
  <2> QED
    BY <2>1, <2>2, <2>3 DEF Laid, N, M
<1>6. n - o <= i => Laid(z, r, t, i, o - n)
  BY <1>1, <1>3, <1>5
<1>7. n - o \in i .. N => Laid(z, r, t, n - o, o - n)
  BY <1>1, <1>3, <1>5
<1>8. ASSUME n - o > N PROVE Laid(z, r, t, N, o - n)
  <2>1. (o - n) + N <= Len(z) /\ N \in 0 .. N /\ o - n \in Int
    BY <1>1, <1>3, <1>4
  <2>2. \A k \in N + 1 .. N : FALSE
    BY <1>1
  <2>3. ASSUME NEW p \in 1 .. Len(z), z[p].run = r
        PROVE  z[p].kind = "kill" /\ p - (o - n) > N
    <3>1. n + p \in 1 .. L /\ z[p] = q[n + p]
      BY <1>1, <1>4
    <3>2. (n + p) - o = p - (o - n) /\ (n + p) - o > N
      BY <1>1, <1>3, <1>4, <1>8
    <3>3. (n + p) - o \in i + 1 .. N \/ (q[n + p].kind = "kill" /\ (n + p) - o > N)
      BY <1>3, <2>3, <3>1
    <3> QED
      BY <3>1, <3>2, <3>3, <1>1, <1>3
  <2> QED
    BY <2>1, <2>2, <2>3 DEF Laid, N, M
<1>9. ASSUME n - o > i, i < N PROVE \E p \in 1 .. n : q[p].run = r
  <2>1. i + 1 \in i + 1 .. N /\ i + 1 \in 1 .. N
    BY <1>1, <1>3, <1>9
  <2>2. o + (i + 1) \in 1 .. L /\ q[o + (i + 1)] = M[i + 1]
    BY <1>3, <2>1
  <2>3. o + (i + 1) \in 1 .. n
    BY <1>1, <1>3, <1>4, <1>9, <2>2
  <2> QED
    BY <1>2, <2>1, <2>2, <2>3
<1> QED
  BY <1>6, <1>7, <1>8, <1>9 DEF N

\* The first message is for another run, the next piece, or a kill after the last one.
LEMMA LaidTail ==
    ASSUME NEW q \in Seq(Message), q # <<>>,
           NEW r \in Uploads, NEW t \in Seq(Char), t # <<>>, NEW i, NEW o, Laid(q, r, t, i, o)
    PROVE  \/ Head(q).run # r /\ Laid(Tail(q), r, t, i, o - 1)
           \/ /\ i + 1 \in 1 .. Number(t) /\ Head(q) = Messages(r, t)[i + 1]
              /\ Laid(Tail(q), r, t, i + 1, o - 1)
           \/ Head(q).kind = "kill" /\ Head(q).run = r /\ i = Number(t) /\ Laid(Tail(q), r, t, i, o - 1)
<1> DEFINE N == Number(t)
           M == Messages(r, t)
           L == Len(q)
           z == Tail(q)
<1>1. N \in Nat \ {0} /\ L \in Nat \ {0}
  BY MadeOf, LenProperties, EmptySeq
<1>2. z \in Seq(Message) /\ Len(z) = L - 1 /\ \A p \in 1 .. Len(z) : z[p] = q[p + 1]
  BY HeadTailProperties
<1>3. Head(q) = q[1]
  OBVIOUS
<1> HIDE DEF z
<1>4. After(q, 1, z) /\ 1 \in 0 .. Len(q)
  BY <1>1, <1>2 DEF After
<1>5. /\ 1 - o <= i => Laid(z, r, t, i, o - 1)
      /\ 1 - o \in i .. N => Laid(z, r, t, 1 - o, o - 1)
      /\ 1 - o > N => Laid(z, r, t, N, o - 1)
      /\ 1 - o > i /\ i < N => \E p \in 1 .. 1 : q[p].run = r
  BY <1>2, <1>4, LaidAfter
<1> HIDE DEF N, M, L
<1>6. /\ i \in 0 .. N /\ o \in Int /\ o + N <= L
      /\ \A k \in i + 1 .. N : o + k \in 1 .. L /\ q[o + k] = M[k]
      /\ \A p \in 1 .. L : q[p].run = r => p - o \in i + 1 .. N \/ (q[p].kind = "kill" /\ p - o > N)
  BY DEF Laid, N, M, L
<1>7. CASE q[1].run # r
  <2>1. ~ (1 - o > i /\ i < N)
    BY <1>5, <1>7
  <2>2. 1 - o <= i \/ (i = N /\ 1 - o > N)
    BY <2>1, <1>1, <1>6
  <2>3. Laid(z, r, t, i, o - 1)
    BY <2>2, <1>5
  <2> QED
    BY <2>3, <1>3, <1>7 DEF z
<1>8. CASE q[1].run = r
  <2>1. 1 \in 1 .. L
    BY <1>1
  <2>2. 1 - o \in i + 1 .. N \/ (q[1].kind = "kill" /\ 1 - o > N)
    BY <1>6, <1>8, <2>1
  <2>3. CASE 1 - o \in i + 1 .. N
    <3>1. i + 1 \in i + 1 .. N /\ i + 1 \in 1 .. N
      BY <2>3, <1>1, <1>6
    <3>2. o + (i + 1) \in 1 .. L /\ q[o + (i + 1)] = M[i + 1]
      BY <3>1, <1>6
    <3>3. 1 - o = i + 1 /\ o + (i + 1) = 1 /\ 1 - o \in i .. N
      BY <2>3, <3>2, <1>1, <1>6
    <3>4. Laid(z, r, t, i + 1, o - 1)
      BY <3>3, <1>5
    <3> QED
      BY <3>1, <3>2, <3>3, <3>4, <1>3 DEF N, M, z
  <2>4. CASE q[1].kind = "kill" /\ 1 - o > N
    <3>1. i = N
      <4> SUFFICES ASSUME i # N PROVE FALSE
        OBVIOUS
      <4>1. N \in i + 1 .. N
        BY <1>1, <1>6
      <4>2. o + N \in 1 .. L
        BY <4>1, <1>6
      <4> QED
        BY <4>2, <2>4, <1>1, <1>6
    <3>2. Laid(z, r, t, i, o - 1)
      BY <3>1, <2>4, <1>5
    <3> QED
      BY <3>1, <3>2, <2>4, <1>3, <1>8 DEF N, z
  <2> QED
    BY <2>2, <2>3, <2>4
<1> QED
  BY <1>7, <1>8

\* z is q with more behind it.
Extends(q, z) == Len(z) >= Len(q) /\ \A p \in 1 .. Len(q) : z[p] = q[p]

\* What comes behind the messages is for other runs or a kill.
LEMMA LaidMore ==
    ASSUME NEW q \in Seq(Message), NEW z \in Seq(Message), Extends(q, z),
           NEW r \in Uploads, NEW t \in Seq(Char), t # <<>>, NEW i, NEW o, Laid(q, r, t, i, o),
           \A p \in Len(q) + 1 .. Len(z) : z[p].run = r => z[p].kind = "kill"
    PROVE  Laid(z, r, t, i, o)
<1> DEFINE N == Number(t)
           M == Messages(r, t)
           L == Len(q)
<1>1. N \in Nat \ {0} /\ L \in Nat /\ Len(z) \in Nat /\ Len(z) >= L /\ \A p \in 1 .. L : z[p] = q[p]
  BY MadeOf, LenProperties DEF Extends
<1>2. \A p \in L + 1 .. Len(z) : z[p].run = r => z[p].kind = "kill"
  OBVIOUS
<1> HIDE DEF N, M, L
<1>3. /\ i \in 0 .. N /\ o \in Int /\ o + N <= L
      /\ \A k \in i + 1 .. N : o + k \in 1 .. L /\ q[o + k] = M[k]
      /\ \A p \in 1 .. L : q[p].run = r => p - o \in i + 1 .. N \/ (q[p].kind = "kill" /\ p - o > N)
  BY DEF Laid, N, M, L
<1>4. i \in 0 .. N /\ o \in Int /\ o + N <= Len(z)
  BY <1>1, <1>3
<1>5. ASSUME NEW k \in i + 1 .. N PROVE o + k \in 1 .. Len(z) /\ z[o + k] = M[k]
  <2>1. o + k \in 1 .. L /\ q[o + k] = M[k]
    BY <1>3
  <2> QED
    BY <2>1, <1>1
<1>6. ASSUME NEW p \in 1 .. Len(z), z[p].run = r
      PROVE  p - o \in i + 1 .. N \/ (z[p].kind = "kill" /\ p - o > N)
  <2>1. CASE p <= L
    <3>1. p \in 1 .. L /\ z[p] = q[p]
      BY <2>1, <1>1
    <3> QED
      BY <3>1, <1>3, <1>6
  <2>2. CASE p > L
    <3>1. p \in L + 1 .. Len(z)
      BY <2>2, <1>1
    <3>2. z[p].kind = "kill"
      BY <3>1, <1>2, <1>6
    <3>3. p - o > N
      BY <2>2, <1>1, <1>3
    <3> QED
      BY <3>2, <3>3
  <2> QED
    BY <2>1, <2>2, <1>1
<1> QED
  BY <1>4, <1>5, <1>6 DEF Laid, N, M

\* A run is sent whole.
LEMMA LaidNew ==
    ASSUME NEW q \in Seq(Message), NEW r \in Uploads, NEW t \in Seq(Char), t # <<>>, Free(q, r)
    PROVE  Laid(q \o Messages(r, t), r, t, 0, Len(q))
<1> DEFINE N == Number(t)
           M == Messages(r, t)
           L == Len(q)
           z == q \o M
<1>1. N \in Nat \ {0} /\ L \in Nat /\ M \in Seq(Message) /\ Len(M) = N
  BY MadeOf, MessagesAre, LenProperties
<1> HIDE DEF N, M
<1>2. /\ Len(z) = L + N
      /\ \A p \in 1 .. L + N : z[p] = IF p <= L THEN q[p] ELSE M[p - L]
  BY <1>1, ConcatProperties
<1>3. \A p \in 1 .. L : q[p].run # r
  BY DEF Free
<1> HIDE DEF L, z
<1>4. ASSUME NEW k \in 0 + 1 .. N PROVE L + k \in 1 .. Len(z) /\ z[L + k] = M[k]
  <2>1. L + k \in 1 .. L + N /\ ~ (L + k <= L) /\ (L + k) - L = k
    BY <1>1
  <2> QED
    BY <2>1, <1>2
<1>5. ASSUME NEW p \in 1 .. Len(z), z[p].run = r PROVE p - L \in 0 + 1 .. N
  <2>1. p \in 1 .. L + N
    BY <1>2
  <2>2. ~ (p <= L)
    <3> SUFFICES ASSUME p <= L PROVE FALSE
      OBVIOUS
    <3>1. p \in 1 .. L /\ z[p] = q[p]
      BY <2>1, <1>1, <1>2
    <3> QED
      BY <3>1, <1>3, <1>5
  <2> QED
    BY <2>1, <2>2, <1>1
<1>6. 0 \in 0 .. N /\ L \in Int /\ L + N <= Len(z)
  BY <1>1, <1>2
<1>7. Laid(z, r, t, 0, L)
  BY <1>4, <1>5, <1>6 DEF Laid, N, M
<1> QED
  BY <1>7 DEF z, M, L

LEMMA FreeAfter ==
    ASSUME NEW q \in Seq(Message), NEW n \in 0 .. Len(q), NEW z, After(q, n, z), NEW r, Free(q, r)
    PROVE  Free(z, r)
<1>1. Len(q) \in Nat
  BY LenProperties
<1>2. ASSUME NEW p \in 1 .. Len(q) - n PROVE z[p].run # r
  <2>1. n + p \in 1 .. Len(q)
    BY <1>1
  <2> QED
    BY <2>1 DEF After, Free
<1> QED
  BY <1>2 DEF After, Free

LEMMA FreeMore ==
    ASSUME NEW q \in Seq(Message), NEW z \in Seq(Message), Extends(q, z), NEW r, Free(q, r),
           \A p \in Len(q) + 1 .. Len(z) : z[p].run # r
    PROVE  Free(z, r)
<1>1. Len(q) \in Nat /\ Len(z) \in Nat
  BY LenProperties
<1>2. ASSUME NEW p \in 1 .. Len(z) PROVE z[p].run # r
  <2>1. CASE p <= Len(q)
    <3>1. p \in 1 .. Len(q) /\ z[p] = q[p]
      BY <2>1, <1>1 DEF Extends
    <3> QED
      BY <3>1 DEF Free
  <2>2. CASE p > Len(q)
    <3>1. p \in Len(q) + 1 .. Len(z)
      BY <2>2, <1>1
    <3> QED
      BY <3>1
  <2> QED
    BY <2>1, <2>2, <1>1
<1> QED
  BY <1>2 DEF Free

-----------------------------------------------------------------------------
(* Where a script is *)

TransferTypes ==
    /\ source \in [Uploads -> Texts]
    /\ upload \in [Uploads -> [at : {"idle", "refused", "on", "gone"}, rest : Seq(Message)]]
    /\ stream \in [Uploads -> Seq(Message)]
    /\ intake \in [Uploads -> {"none", "reading", "refused", "active", "abandoned"}]
    /\ gathered \in [Uploads -> {x \in Seq(Char) : Size(x) <= MaxScript}]
    /\ lane \in Seq(Message) /\ socket \in Seq(Message)
    /\ plugged \in BOOLEAN /\ breaks \in 0 .. MaxBreaks /\ torn \in SUBSET Uploads
    /\ stash \in [Uploads -> Seq(Char)]
    /\ starts \in [Uploads -> Seq(Seq(Char))]

\* Between the client and the master: the messages up to the j-th have been read, those
\* up to the k-th sent.
Fed(r, t, up, on, in, text, j, k) ==
    /\ j \in 0 .. Number(t) /\ k \in j .. Number(t)
    /\ Len(on) = k - j /\ \A p \in 1 .. k - j : on[p] = Messages(r, t)[j + p]
    /\ up.at = "idle" => k = 0
    /\ up.at = "on" => /\ Len(up.rest) = Number(t) - k
                       /\ \A p \in 1 .. Number(t) - k : up.rest[p] = Messages(r, t)[k + p]
    /\ in \in {"none", "reading"} => text = Made(t, j)
Feeding(r) ==
    \E j, k \in Nat : Fed(r, source[r], upload[r], stream[r], intake[r], gathered[r], j, k)

\* At the plugin, when i pieces have been read or lost: s is what it has put together, x what
\* it has executed; unless a piece was lost that is all there is of the i pieces.
Received(t, i, s, x, whole) ==
    /\ s = <<>> \/ s = Made(t, i)
    /\ i = 0 \/ i = Number(t) => s = <<>>
    /\ i < Number(t) => x = <<>> /\ (i > 0 /\ whole => s = Made(t, i))
    /\ i = Number(t) => (x = <<>> \/ x = <<t>>) /\ (whole => x = <<t>>)

Wire == socket \o lane
SentOn(r) == intake[r] \in {"active", "abandoned"}
Coming(r) ==
    \E i \in Nat, o \in Int : /\ Laid(Wire, r, source[r], i, o)
                              /\ Received(source[r], i, stash[r], starts[r], r \notin torn)
Untouched(r) == Free(Wire, r) /\ stash[r] = <<>> /\ starts[r] = <<>>
AtPlugin(r) == IF SentOn(r) THEN Coming(r) ELSE Untouched(r)

\* Without a socket nothing is on it, and no handler has put anything together.
NoSocket == ~ plugged => socket = <<>> /\ \A r \in Uploads : stash[r] = <<>>

TransferInv ==
    /\ TransferTypes
    /\ \A r \in Uploads : Feeding(r) /\ AtPlugin(r)
    /\ NoSocket

LEMMA SourceText ==
    ASSUME NEW ws \in Sources
    PROVE  Text(ws) \in Seq(Char) /\ Text(ws) # <<>>
<1>1. ws \in Seq(1 .. PieceSize) /\ ws # <<>>
  BY SourcesAssumption
<1>2. Len(ws) \in Nat \ {0} /\ DOMAIN ws = 1 .. Len(ws) /\ \A i \in 1 .. Len(ws) : ws[i] \in 1 .. PieceSize
  BY <1>1, LenProperties, EmptySeq, ElementOfSeq
<1>3. \A i \in 1 .. Len(ws) : [at |-> i, width |-> ws[i]] \in Char
  BY <1>2 DEF Char
<1>4. Text(ws) \in [1 .. Len(ws) -> Char]
  BY <1>2, <1>3 DEF Text
<1>5. Text(ws) \in Seq(Char)
  BY <1>2, <1>4, SeqDef
<1>6. Len(Text(ws)) = Len(ws)
  BY <1>2, <1>4, <1>5, LenProperties
<1> QED
  BY <1>2, <1>5, <1>6, EmptySeq

LEMMA IsText ==
    ASSUME TransferTypes, NEW r \in Uploads
    PROVE  source[r] \in Seq(Char) /\ source[r] # <<>>
<1>1. source[r] \in Texts
  BY DEF TransferTypes
<1> QED
  BY <1>1, SourceText DEF Texts

LEMMA EmptySize == <<>> \in Seq(Char) /\ Size(<<>>) = 0 /\ <<>> \in Piece
<1>1. <<>> \in Seq(Char) /\ Len(<<>>) = 0
  BY EmptySeq
<1>2. Bytes(<<>>)[0] = 0
  BY <1>1, BytesSum
<1>3. Size(<<>>) = 0
  BY <1>1, <1>2 DEF Size
<1> QED
  BY <1>1, <1>3, SourcesAssumption DEF Piece

\* Nothing has been submitted.
LEMMA TransferStarts == ScriptInit => TransferInv
<1> SUFFICES ASSUME ScriptInit PROVE TransferInv
  OBVIOUS
<1>1. TransferTypes
  BY EmptySize, EmptySeq, SourcesAssumption DEF ScriptInit, TransferTypes
<1>2. ASSUME NEW r \in Uploads PROVE Feeding(r)
  <2>1. source[r] \in Seq(Char) /\ source[r] # <<>>
    BY <1>1, IsText
  <2>2. Number(source[r]) \in Nat \ {0}
    BY <2>1, MadeOf
  <2>3. Made(source[r], 0) = <<>>
    <3>1. \A i \in 0 .. Number(source[r]) : (Made(source[r], i) = <<>>) = (i = 0)
      BY <2>1, MadeOf
    <3>2. 0 \in 0 .. Number(source[r])
      BY <2>2
    <3> QED
      BY <3>1, <3>2
  <2>4. /\ upload[r] = [at |-> "idle", rest |-> <<>>] /\ stream[r] = <<>> /\ gathered[r] = <<>>
    BY DEF ScriptInit
  <2>5. Fed(r, source[r], upload[r], stream[r], intake[r], gathered[r], 0, 0)
    BY <2>2, <2>3, <2>4 DEF Fed
  <2> QED
    BY <2>5 DEF Feeding
<1>3. ASSUME NEW r \in Uploads PROVE AtPlugin(r)
  <2>1. Wire = <<>>
    BY DEF ScriptInit, Wire
  <2>2. Free(Wire, r)
    BY <2>1 DEF Free
  <2> QED
    BY <2>2 DEF ScriptInit, AtPlugin, SentOn, Untouched
<1>4. NoSocket
  BY DEF ScriptInit, NoSocket
<1> QED
  BY <1>1, <1>2, <1>3, <1>4 DEF TransferInv

\* What does not touch a run leaves it where it is.
LEMMA FeedingKept ==
    ASSUME NEW r \in Uploads, Feeding(r), source' = source, upload'[r] = upload[r], stream'[r] = stream[r],
           intake'[r] = intake[r], gathered'[r] = gathered[r]
    PROVE  Feeding(r)'
BY DEF Feeding

LEMMA PluginKept ==
    ASSUME NEW r \in Uploads, AtPlugin(r), source' = source, SentOn(r)' = SentOn(r), Wire' = Wire,
           stash'[r] = stash[r], starts'[r] = starts[r], (r \in torn') = (r \in torn)
    PROVE  AtPlugin(r)'
BY DEF AtPlugin, Coming, Untouched

-----------------------------------------------------------------------------
(* The client *)

ClientKeeps == UNCHANGED <<source, masterSide, lane, socket, pluginSide>>

LEMMA ClientStep ==
    ASSUME TransferInv, ClientKeeps, TransferTypes', \A r \in Uploads : Feeding(r)'
    PROVE  TransferInv'
<1>1. Wire' = Wire /\ source' = source /\ stash' = stash /\ starts' = starts /\ torn' = torn /\ intake' = intake
  BY DEF ClientKeeps, masterSide, pluginSide, Wire
<1>2. ASSUME NEW r \in Uploads PROVE AtPlugin(r)'
  <2>1. AtPlugin(r) /\ SentOn(r)' = SentOn(r)
    BY <1>1 DEF TransferInv, SentOn
  <2> QED
    BY <1>1, <2>1, PluginKept
<1>3. NoSocket'
  BY DEF TransferInv, NoSocket, ClientKeeps, pluginSide
<1> QED
  BY <1>2, <1>3 DEF TransferInv

LEMMA SubmitsKeeps ==
    ASSUME TransferInv, NEW r \in Uploads, Submits(r)
    PROVE  TransferInv'
<1> DEFINE t == source[r]
           M == Messages(r, t)
<1>1. TransferTypes /\ ClientKeeps /\ stream' = stream
  BY DEF TransferInv, Submits, ClientKeeps
<1>2. t \in Seq(Char) /\ t # <<>>
  BY <1>1, IsText
<1>3. M \in Seq(Message) /\ Len(M) = Number(t) /\ Number(t) \in Nat
  BY <1>2, MessagesAre, MadeOf
<1>4. upload[r] \in [at : {"idle", "refused", "on", "gone"}, rest : Seq(Message)]
  BY <1>1 DEF TransferTypes
<1>5. PICK new \in [at : {"idle", "refused", "on", "gone"}, rest : Seq(Message)] :
         /\ upload' = [upload EXCEPT ![r] = new]
         /\ new.at # "idle"
         /\ new.at = "on" => new.rest = M
  <2>1. CASE upload' = [upload EXCEPT ![r].at = "refused"]
    <3> DEFINE new == [upload[r] EXCEPT !.at = "refused"]
    <3>1. new \in [at : {"idle", "refused", "on", "gone"}, rest : Seq(Message)] /\ new.at = "refused"
      BY <1>4
    <3>2. upload' = [upload EXCEPT ![r] = new]
      BY <2>1
    <3> QED
      BY <3>1, <3>2
  <2>2. CASE upload' = [upload EXCEPT ![r] = [at |-> "on", rest |-> M]]
    <3> DEFINE new == [at |-> "on", rest |-> M]
    <3>1. new \in [at : {"idle", "refused", "on", "gone"}, rest : Seq(Message)] /\ new.at = "on" /\ new.rest = M
      BY <1>3
    <3> HIDE DEF M
    <3> QED
      BY <2>2, <3>1
  <2> QED
    BY <2>1, <2>2 DEF Submits
<1> HIDE DEF M
<1>6. TransferTypes'
  BY <1>1, <1>5 DEF TransferTypes, ClientKeeps, masterSide, pluginSide
<1>7. ASSUME NEW u \in Uploads PROVE Feeding(u)'
  <2>1. Feeding(u)
    BY DEF TransferInv
  <2>2. stream'[u] = stream[u] /\ source' = source /\ intake'[u] = intake[u] /\ gathered'[u] = gathered[u]
    BY <1>1 DEF ClientKeeps, masterSide
  <2>3. CASE u # r
    <3>1. upload'[u] = upload[u]
      BY <2>3, <1>1, <1>5 DEF TransferTypes
    <3> QED
      BY <2>1, <2>2, <3>1, FeedingKept
  <2>4. CASE u = r
    <3>1. PICK j, k \in Nat : Fed(r, t, upload[r], stream[r], intake[r], gathered[r], j, k)
      BY <2>1, <2>4 DEF Feeding
    <3>2. upload[r].at = "idle"
      BY DEF Submits
    <3>3. k = 0 /\ j = 0
      BY <3>1, <3>2, <1>3 DEF Fed
    <3>4. upload'[r] = new
      BY <1>1, <1>5 DEF TransferTypes
    <3>5. Fed(r, t, new, stream[r], intake[r], gathered[r], 0, 0)
      BY <3>1, <3>3, <1>3, <1>5 DEF Fed, M
    <3> QED
      BY <2>2, <2>4, <3>4, <3>5 DEF Feeding
  <2> QED
    BY <2>3, <2>4
<1> QED
  BY <1>1, <1>6, <1>7, ClientStep

LEMMA SendsKeeps ==
    ASSUME TransferInv, NEW r \in Uploads, Sends(r)
    PROVE  TransferInv'
<1> DEFINE t == source[r]
           N == Number(t)
           M == Messages(r, t)
           up == upload[r]
           m == Head(up.rest)
           more == Tail(up.rest)
           on == Append(stream[r], m)
<1>1. TransferTypes /\ ClientKeeps
  BY DEF TransferInv, Sends, ClientKeeps
<1>2. t \in Seq(Char) /\ t # <<>> /\ N \in Nat
  BY <1>1, IsText, MadeOf
<1>3. up.at = "on" /\ up.rest \in Seq(Message) /\ up.rest # <<>> /\ stream[r] \in Seq(Message)
  BY <1>1 DEF TransferTypes, Sends
<1>4. /\ m \in Message /\ m = up.rest[1] /\ more \in Seq(Message) /\ Len(more) = Len(up.rest) - 1
      /\ \A p \in 1 .. Len(more) : more[p] = up.rest[p + 1]
  BY <1>3, HeadTailProperties
<1> HIDE DEF m, more
<1>5. /\ on \in Seq(Message) /\ Len(on) = Len(stream[r]) + 1
      /\ \A p \in 1 .. Len(stream[r]) : on[p] = stream[r][p]
      /\ on[Len(stream[r]) + 1] = m
  BY <1>3, <1>4, AppendProperties
<1> HIDE DEF on
<1> DEFINE new == [up EXCEPT !.rest = more]
<1>6. /\ new \in [at : {"idle", "refused", "on", "gone"}, rest : Seq(Message)] /\ new.at = "on" /\ new.rest = more
  <2>1. up \in [at : {"idle", "refused", "on", "gone"}, rest : Seq(Message)]
    BY <1>1 DEF TransferTypes
  <2> HIDE DEF up
  <2> QED
    BY <2>1, <1>3, <1>4
<1>7. upload' = [upload EXCEPT ![r] = new] /\ stream' = [stream EXCEPT ![r] = on]
  BY DEF Sends, m, more, on
<1> HIDE DEF new
<1>8. TransferTypes'
  BY <1>1, <1>5, <1>6, <1>7 DEF TransferTypes, ClientKeeps, masterSide, pluginSide
<1>9. ASSUME NEW u \in Uploads PROVE Feeding(u)'
  <2>1. Feeding(u)
    BY DEF TransferInv
  <2>2. source' = source /\ intake'[u] = intake[u] /\ gathered'[u] = gathered[u]
    BY <1>1 DEF ClientKeeps, masterSide
  <2>3. CASE u # r
    <3>1. upload'[u] = upload[u] /\ stream'[u] = stream[u]
      BY <2>3, <1>1, <1>7 DEF TransferTypes
    <3> QED
      BY <2>1, <2>2, <3>1, FeedingKept
  <2>4. CASE u = r
    <3>1. PICK j, k \in Nat : Fed(r, t, up, stream[r], intake[r], gathered[r], j, k)
      BY <2>1, <2>4 DEF Feeding
    <3>2. /\ j \in 0 .. N /\ k \in j .. N /\ Len(stream[r]) = k - j
          /\ \A p \in 1 .. k - j : stream[r][p] = M[j + p]
          /\ Len(up.rest) = N - k /\ \A p \in 1 .. N - k : up.rest[p] = M[k + p]
          /\ intake[r] \in {"none", "reading"} => gathered[r] = Made(t, j)
      BY <3>1, <1>3 DEF Fed
    <3> HIDE DEF N, M, up
    <3>3. Len(up.rest) \in Nat \ {0}
      BY <1>3, EmptySeq
    <3>4. k < N /\ k + 1 \in j .. N
      BY <1>2, <3>2, <3>3
    <3>5. m = M[k + 1]
      BY <1>4, <3>2, <3>4
    <3>6. Len(on) = (k + 1) - j
      BY <1>5, <3>2
    <3>7. ASSUME NEW p \in 1 .. (k + 1) - j PROVE on[p] = M[j + p]
      <4>1. CASE p = (k + 1) - j
        <5>1. p = Len(stream[r]) + 1 /\ j + p = k + 1
          BY <4>1, <3>2
        <5> QED
          BY <5>1, <1>5, <3>5
      <4>2. CASE p # (k + 1) - j
        <5>1. p \in 1 .. k - j
          BY <4>2, <3>2
        <5> QED
          BY <5>1, <1>5, <3>2
      <4> QED
        BY <4>1, <4>2
    <3>8. Len(more) = N - (k + 1)
      BY <1>2, <1>4, <3>2
    <3>9. ASSUME NEW p \in 1 .. N - (k + 1) PROVE more[p] = M[(k + 1) + p]
      <4>1. p \in 1 .. Len(more) /\ p + 1 \in 1 .. N - k /\ k + (p + 1) = (k + 1) + p
        BY <3>8, <1>2, <3>2
      <4>2. more[p] = up.rest[p + 1]
        BY <4>1, <1>4
      <4> QED
        BY <4>1, <4>2, <3>2
    <3>10. Fed(r, t, new, on, intake[r], gathered[r], j, k + 1)
      BY <1>6, <3>2, <3>4, <3>6, <3>7, <3>8, <3>9 DEF Fed, N, M
    <3>11. upload'[r] = new /\ stream'[r] = on /\ k + 1 \in Nat
      BY <1>1, <1>7 DEF TransferTypes
    <3> QED
      BY <2>2, <2>4, <3>10, <3>11 DEF Feeding
  <2> QED
    BY <2>3, <2>4
<1> QED
  BY <1>1, <1>8, <1>9, ClientStep

LEMMA QuitsKeeps ==
    ASSUME TransferInv, NEW r \in Uploads, Quits(r)
    PROVE  TransferInv'
<1> DEFINE t == source[r]
           N == Number(t)
           M == Messages(r, t)
           new == [at |-> "gone", rest |-> <<>>]
<1>1. TransferTypes /\ ClientKeeps /\ upload' = [upload EXCEPT ![r] = new]
  BY DEF TransferInv, Quits, ClientKeeps
<1>2. t \in Seq(Char) /\ t # <<>> /\ N \in Nat
  BY <1>1, IsText, MadeOf
<1>3. stream[r] \in Seq(Message) /\ Len(stream[r]) \in Nat
  BY <1>1, LenProperties DEF TransferTypes
<1>4. PICK n \in 0 .. Len(stream[r]) : stream' = [stream EXCEPT ![r] = SubSeq(@, 1, n)]
  BY DEF Quits
<1> DEFINE on == SubSeq(stream[r], 1, n)
<1>5. on \in Seq(Message) /\ Len(on) = n /\ \A p \in 1 .. n : on[p] = stream[r][p]
  <2>1. \A p \in 1 .. n : stream[r][p] \in Message
    BY <1>3, ElementOfSeq
  <2>2. /\ on \in Seq(Message) /\ Len(on) = IF 1 <= n THEN n - 1 + 1 ELSE 0
        /\ \A p \in 1 .. n - 1 + 1 : on[p] = stream[r][1 + p - 1]
    BY <1>3, <2>1, SubSeqProperties
  <2> QED
    BY <1>3, <2>2
<1>6. stream' = [stream EXCEPT ![r] = on]
  BY <1>4
<1> HIDE DEF on
<1>7. TransferTypes'
  BY <1>1, <1>5, <1>6, EmptySeq DEF TransferTypes, ClientKeeps, masterSide, pluginSide
<1>8. ASSUME NEW u \in Uploads PROVE Feeding(u)'
  <2>1. Feeding(u)
    BY DEF TransferInv
  <2>2. source' = source /\ intake'[u] = intake[u] /\ gathered'[u] = gathered[u]
    BY <1>1 DEF ClientKeeps, masterSide
  <2>3. CASE u # r
    <3>1. upload'[u] = upload[u] /\ stream'[u] = stream[u]
      BY <2>3, <1>1, <1>6 DEF TransferTypes
    <3> QED
      BY <2>1, <2>2, <3>1, FeedingKept
  <2>4. CASE u = r
    <3>1. PICK j, k \in Nat : Fed(r, t, upload[r], stream[r], intake[r], gathered[r], j, k)
      BY <2>1, <2>4 DEF Feeding
    <3> HIDE DEF N
    <3>2. /\ j \in 0 .. N /\ k \in j .. N /\ Len(stream[r]) = k - j
          /\ \A p \in 1 .. k - j : stream[r][p] = M[j + p]
          /\ intake[r] \in {"none", "reading"} => gathered[r] = Made(t, j)
      BY <3>1 DEF Fed, N
    <3> HIDE DEF M
    <3>3. j + n \in j .. N /\ (j + n) - j = n /\ n <= k - j
      BY <1>2, <1>3, <3>2
    <3>4. \A p \in 1 .. n : on[p] = M[j + p]
      BY <1>5, <3>2, <3>3
    <3>5. Fed(r, t, new, on, intake[r], gathered[r], j, j + n)
      BY <1>5, <3>2, <3>3, <3>4 DEF Fed, N, M
    <3>6. upload'[r] = new /\ stream'[r] = on /\ j + n \in Nat
      BY <1>1, <1>3, <1>6 DEF TransferTypes
    <3> QED
      BY <2>2, <2>4, <3>5, <3>6 DEF Feeding
  <2> QED
    BY <2>3, <2>4
<1> QED
  BY <1>1, <1>7, <1>8, ClientStep

-----------------------------------------------------------------------------
(* The master *)

LEMMA WireType ==
    ASSUME TransferTypes
    PROVE  /\ Wire \in Seq(Message) /\ Len(Wire) = Len(socket) + Len(lane)
           /\ \A p \in 1 .. Len(Wire) : Wire[p] = IF p <= Len(socket) THEN socket[p] ELSE lane[p - Len(socket)]
BY ConcatProperties DEF TransferTypes, Wire

\* Three lanes in a row are one wire, however they are put together.
LEMMA ConcatThree == \A x, y, z \in Seq(Message) : (x \o y) \o z = x \o (y \o z)
BY ConcatAssociative

\* More is sent to the backend.
LEMMA WireGrows ==
    ASSUME TransferTypes, NEW b \in Seq(Message), lane' = lane \o b, socket' = socket
    PROVE  /\ lane' \in Seq(Message) /\ Wire' = Wire \o b /\ Wire' \in Seq(Message)
           /\ Extends(Wire, Wire')
           /\ \A p \in Len(Wire) + 1 .. Len(Wire') : p - Len(Wire) \in 1 .. Len(b) /\ Wire'[p] = b[p - Len(Wire)]
<1>1. socket \in Seq(Message) /\ lane \in Seq(Message)
  BY DEF TransferTypes
<1>2. lane \o b \in Seq(Message) /\ (socket \o lane) \o b = socket \o (lane \o b)
  <2>1. lane \o b \in Seq(Message)
    BY <1>1, ConcatProperties
  <2>2. (socket \o lane) \o b = socket \o (lane \o b)
    BY <1>1, ConcatThree, Zenon
  <2> QED
    BY <2>1, <2>2
<1>3. Wire' = Wire \o b
  BY <1>2 DEF Wire
<1>4. Wire \in Seq(Message)
  BY WireType
<1> DEFINE w == Wire
           z == w \o b
<1>5. /\ z \in Seq(Message) /\ Len(z) = Len(w) + Len(b)
      /\ \A p \in 1 .. Len(w) + Len(b) : z[p] = IF p <= Len(w) THEN w[p] ELSE b[p - Len(w)]
  BY <1>4, ConcatProperties
<1>6. Len(w) \in Nat /\ Len(b) \in Nat
  BY <1>4, LenProperties
<1> HIDE DEF z, w
<1>7. Extends(w, z)
  BY <1>5, <1>6 DEF Extends
<1>8. \A p \in Len(w) + 1 .. Len(z) : p - Len(w) \in 1 .. Len(b) /\ z[p] = b[p - Len(w)]
  BY <1>5, <1>6
<1> QED
  BY <1>2, <1>3, <1>5, <1>7, <1>8 DEF z, w

\* It is of no interest to a run what is sent for others, or a kill after it has been sent.
LEMMA ComingMore ==
    ASSUME TransferTypes, NEW b \in Seq(Message), lane' = lane \o b, socket' = socket,
           NEW r \in Uploads, AtPlugin(r), source' = source, SentOn(r)' = SentOn(r),
           stash'[r] = stash[r], starts'[r] = starts[r], (r \in torn') = (r \in torn),
           \A p \in 1 .. Len(b) : b[p].run = r => SentOn(r) /\ b[p].kind = "kill"
    PROVE  AtPlugin(r)'
<1> DEFINE z == Wire'
<1>1. Wire \in Seq(Message) /\ source[r] \in Seq(Char) /\ source[r] # <<>>
  BY WireType, IsText
<1>2. /\ z \in Seq(Message) /\ Extends(Wire, z)
      /\ \A p \in Len(Wire) + 1 .. Len(z) : p - Len(Wire) \in 1 .. Len(b) /\ z[p] = b[p - Len(Wire)]
  BY WireGrows
<1>3. CASE SentOn(r)
  <2>1. PICK i \in Nat, o \in Int : /\ Laid(Wire, r, source[r], i, o)
                                    /\ Received(source[r], i, stash[r], starts[r], r \notin torn)
    BY <1>3 DEF AtPlugin, Coming
  <2>2. \A p \in Len(Wire) + 1 .. Len(z) : z[p].run = r => z[p].kind = "kill"
    BY <1>2
  <2>3. Laid(z, r, source[r], i, o)
    <3> HIDE DEF z
    <3> QED
      BY <1>1, <1>2, <2>1, <2>2, LaidMore
  <2>4. Received(source[r], i, stash'[r], starts'[r], r \notin torn')
    BY <2>1
  <2>5. Coming(r)'
    BY <2>3, <2>4 DEF Coming
  <2> QED
    BY <2>5, <1>3 DEF AtPlugin
<1>4. CASE ~ SentOn(r)
  <2>1. Untouched(r)
    BY <1>4 DEF AtPlugin
  <2>2. \A p \in Len(Wire) + 1 .. Len(z) : z[p].run # r
    BY <1>2, <1>4
  <2>3. Free(z, r)
    <3> HIDE DEF z
    <3>1. Free(Wire, r)
      BY <2>1 DEF Untouched
    <3> QED
      BY <1>1, <1>2, <2>2, <3>1, FreeMore
  <2>4. Untouched(r)'
    BY <2>1, <2>3 DEF Untouched
  <2> QED
    BY <2>4, <1>4 DEF AtPlugin
<1> QED
  BY <1>3, <1>4

\* A run that is sent is on its way whole.
LEMMA ComingNew ==
    ASSUME TransferTypes, NEW r \in Uploads, lane' = lane \o Messages(r, source[r]), socket' = socket,
           AtPlugin(r), ~ SentOn(r), SentOn(r)', source' = source, stash'[r] = stash[r], starts'[r] = starts[r]
    PROVE  AtPlugin(r)'
<1> DEFINE t == source[r]
           M == Messages(r, t)
<1>1. Wire \in Seq(Message) /\ t \in Seq(Char) /\ t # <<>>
  BY WireType, IsText
<1>2. M \in Seq(Message) /\ Number(t) \in Nat \ {0}
  BY <1>1, MessagesAre, MadeOf
<1>3. Wire' = Wire \o M
  BY <1>2, WireGrows
<1>4. Free(Wire, r) /\ stash[r] = <<>> /\ starts[r] = <<>>
  BY DEF AtPlugin, Untouched
<1>5. Laid(Wire', r, t, 0, Len(Wire))
  BY <1>1, <1>3, <1>4, LaidNew
<1>6. Received(t, 0, stash'[r], starts'[r], r \notin torn')
  BY <1>2, <1>4 DEF Received
<1>7. Len(Wire) \in Int
  BY <1>1, LenProperties
<1>8. Coming(r)'
  BY <1>5, <1>6, <1>7 DEF Coming
<1> QED
  BY <1>8 DEF AtPlugin

\* What the master has put together with the next message.
LEMMA MasterText ==
    ASSUME TransferTypes, NEW r \in Uploads, Feeding(r), intake[r] \in {"none", "reading"}, stream[r] # <<>>
    PROVE  /\ Head(stream[r]) \in Message /\ gathered[r] \o Head(stream[r]).text \in Seq(Char)
           /\ \E j, k \in Nat :
                 /\ \A in, text : (in \in {"none", "reading"} => text = Made(source[r], j)) =>
                       Fed(r, source[r], upload[r], Tail(stream[r]), in, text, j, k)
                 /\ gathered[r] \o Head(stream[r]).text = Made(source[r], j)
                 /\ ~ Head(stream[r]).more => Made(source[r], j) = source[r]
<1> DEFINE t == source[r]
           N == Number(t)
           M == Messages(r, t)
           on == stream[r]
           m == Head(on)
           z == Tail(on)
<1>1. t \in Seq(Char) /\ t # <<>>
  BY IsText
<1>2. /\ N \in Nat \ {0} /\ Made(t, N) = t
      /\ \A i \in 1 .. N : Made(t, i - 1) \o PiecesOf(t)[i] = Made(t, i)
  BY <1>1, MadeOf
<1>3. on \in Seq(Message) /\ on # <<>> /\ gathered[r] \in Seq(Char)
  BY DEF TransferTypes
<1>4. /\ m \in Message /\ m = on[1] /\ Len(z) = Len(on) - 1
      /\ \A p \in 1 .. Len(z) : z[p] = on[p + 1]
  BY <1>3, HeadTailProperties
<1>5. Len(on) \in Nat \ {0}
  BY <1>3, EmptySeq
<1>6. gathered[r] \o m.text \in Seq(Char)
  <2>1. m.text \in Seq(Char)
    BY <1>4 DEF Message, Piece
  <2> QED
    BY <1>3, <2>1, ConcatProperties
<1>7. PICK j, k \in Nat : Fed(r, t, upload[r], on, intake[r], gathered[r], j, k)
  BY DEF Feeding
<1> HIDE DEF on, z, m, N
<1>8. /\ j \in 0 .. N /\ k \in j .. N /\ Len(on) = k - j
      /\ \A p \in 1 .. k - j : on[p] = M[j + p]
      /\ upload[r].at = "idle" => k = 0
      /\ upload[r].at = "on" => /\ Len(upload[r].rest) = N - k
                                /\ \A p \in 1 .. N - k : upload[r].rest[p] = M[k + p]
      /\ gathered[r] = Made(t, j)
  BY <1>7 DEF Fed, N
<1> HIDE DEF M
<1>9. j < k /\ j + 1 \in 1 .. N /\ k \in j + 1 .. N /\ j + 1 \in 0 .. N /\ upload[r].at # "idle"
  BY <1>2, <1>5, <1>8
<1>10. m = M[j + 1]
  BY <1>4, <1>8, <1>9
<1>11. m.text = PiecesOf(t)[j + 1] /\ m.more = (j + 1 < N)
  BY <1>1, <1>9, <1>10, MessageIs DEF M, N
<1>12. gathered[r] \o m.text = Made(t, j + 1)
  <2>1. (j + 1) - 1 = j
    BY <1>8
  <2>2. Made(t, (j + 1) - 1) \o PiecesOf(t)[j + 1] = Made(t, j + 1)
    BY <1>2, <1>9
  <2> QED
    BY <1>8, <1>11, <2>1, <2>2
<1>13. ~ m.more => Made(t, j + 1) = t
  <2> SUFFICES ASSUME ~ m.more PROVE Made(t, j + 1) = t
    OBVIOUS
  <2>1. ~ (j + 1 < N)
    BY <1>11
  <2>2. j + 1 = N
    BY <2>1, <1>2, <1>9
  <2> QED
    BY <2>2, <1>2
<1>14. Len(z) = k - (j + 1)
  BY <1>4, <1>8
<1>15. ASSUME NEW p \in 1 .. k - (j + 1) PROVE z[p] = M[(j + 1) + p]
  <2>1. p \in 1 .. Len(z)
    BY <1>14
  <2>3. p + 1 \in 1 .. k - j /\ j + (p + 1) = (j + 1) + p
    BY <1>2, <1>8
  <2> QED
    BY <2>1, <2>3, <1>4, <1>8
<1>16. ASSUME NEW in, NEW text, in \in {"none", "reading"} => text = Made(t, j + 1)
       PROVE  Fed(r, t, upload[r], z, in, text, j + 1, k)
  BY <1>8, <1>9, <1>14, <1>15, <1>16 DEF Fed, M, N
<1>17. j + 1 \in Nat
  BY <1>8
<1> QED
  BY <1>4, <1>6, <1>12, <1>13, <1>16, <1>17 DEF m, z, on

MasterKeeps == UNCHANGED <<source, upload, socket, pluginSide>>

\* What the master reads of one run changes nothing for the others.
LEMMA MasterStep ==
    ASSUME TransferInv, MasterKeeps, NEW r \in Uploads, NEW b \in Seq(Message), lane' = lane \o b,
           \A p \in 1 .. Len(b) : b[p].run = r,
           TransferTypes', Feeding(r)', AtPlugin(r)',
           \A u \in Uploads \ {r} :
              stream'[u] = stream[u] /\ intake'[u] = intake[u] /\ gathered'[u] = gathered[u]
    PROVE  TransferInv'
<1>1. TransferTypes /\ socket' = socket /\ source' = source /\ upload' = upload
      /\ stash' = stash /\ starts' = starts /\ torn' = torn /\ plugged' = plugged
  BY DEF TransferInv, MasterKeeps, pluginSide
<1>2. ASSUME NEW u \in Uploads \ {r} PROVE Feeding(u)' /\ AtPlugin(u)'
  <2>1. Feeding(u) /\ AtPlugin(u) /\ u \in Uploads
    BY DEF TransferInv
  <2>2. SentOn(u)' = SentOn(u)
    BY DEF SentOn
  <2>3. Feeding(u)'
    BY <1>1, <2>1, FeedingKept
  <2>4. \A p \in 1 .. Len(b) : b[p].run = u => SentOn(u) /\ b[p].kind = "kill"
    OBVIOUS
  <2>5. AtPlugin(u)'
    BY <1>1, <2>1, <2>2, <2>4, ComingMore
  <2> QED
    BY <2>3, <2>5
<1>3. NoSocket'
  BY <1>1 DEF TransferInv, NoSocket
<1> QED
  BY <1>2, <1>3 DEF TransferInv

LEMMA MasterSendsNothing ==
    ASSUME TransferInv, MasterKeeps, NEW r \in Uploads, lane' = lane, ~ SentOn(r), ~ SentOn(r)',
           TransferTypes', Feeding(r)',
           \A u \in Uploads \ {r} :
              stream'[u] = stream[u] /\ intake'[u] = intake[u] /\ gathered'[u] = gathered[u]
    PROVE  TransferInv'
<1> DEFINE b == <<>>
<1>1. lane \in Seq(Message)
  BY DEF TransferInv, TransferTypes
<1>2. b \in Seq(Message) /\ lane' = lane \o b /\ Len(b) = 0
  BY <1>1, EmptySeq, ConcatEmptySeq
<1> HIDE DEF b
<1>3. \A p \in 1 .. Len(b) : b[p].run = r
  BY <1>2
<1>4. Wire' = Wire /\ source' = source /\ stash' = stash /\ starts' = starts /\ torn' = torn
  BY DEF MasterKeeps, pluginSide, Wire
<1>5. SentOn(r)' = SentOn(r) /\ AtPlugin(r)
  BY DEF SentOn, TransferInv
<1>6. AtPlugin(r)'
  BY <1>4, <1>5, PluginKept
<1> QED
  BY <1>2, <1>3, <1>6, MasterStep

LEMMA MasterReadsKeeps ==
    ASSUME TransferInv, NEW r \in Uploads, MasterReads(r)
    PROVE  TransferInv'
<1> DEFINE t == source[r]
           m == Head(stream[r])
           z == Tail(stream[r])
           text == gathered[r] \o m.text
           M == Messages(r, t)
<1>1. TransferTypes /\ MasterKeeps /\ Feeding(r) /\ AtPlugin(r)
  BY DEF TransferInv, MasterReads, MasterKeeps
<1>2. intake[r] \in {"none", "reading"} /\ stream[r] # <<>> /\ stream' = [stream EXCEPT ![r] = z]
  BY DEF MasterReads
<1>3. t \in Seq(Char) /\ t # <<>>
  BY <1>1, IsText
<1>4. M \in Seq(Message) /\ Len(M) = Number(t) /\ \A i \in 1 .. Len(M) : M[i].run = r
  BY <1>3, MessagesAre, MessageIs
<1>5. m \in Message /\ text \in Seq(Char)
  BY <1>1, <1>2, MasterText
<1>6. PICK j, k \in Nat :
         /\ \A in, x : (in \in {"none", "reading"} => x = Made(t, j)) => Fed(r, t, upload[r], z, in, x, j, k)
         /\ text = Made(t, j)
         /\ ~ m.more => Made(t, j) = t
  BY <1>1, <1>2, MasterText
<1>7. z \in Seq(Message)
  BY <1>1, <1>2, HeadTailProperties DEF TransferTypes
<1>8. <<>> \in Seq(Char) /\ Size(<<>>) <= MaxScript
  BY EmptySize, SourcesAssumption
<1>9. source' = source /\ upload' = upload /\ socket' = socket /\ stash' = stash /\ starts' = starts /\ torn' = torn
  BY <1>1 DEF MasterKeeps, pluginSide
<1>10. ~ SentOn(r)
  BY <1>2 DEF SentOn
<1>11. stream'[r] = z /\ \A u \in Uploads \ {r} : stream'[u] = stream[u]
  BY <1>1, <1>2 DEF TransferTypes
<1> HIDE DEF m, z, text, M
<1>12. CASE Size(text) > MaxScript
  <2>1. intake' = [intake EXCEPT ![r] = "refused"] /\ gathered' = gathered /\ lane' = lane
    BY <1>12 DEF MasterReads, m, text
  <2>2. intake'[r] = "refused" /\ \A u \in Uploads \ {r} : intake'[u] = intake[u]
    BY <2>1, <1>1 DEF TransferTypes
  <2>3. TransferTypes'
    BY <2>1, <1>1, <1>2, <1>7 DEF TransferTypes, MasterKeeps, pluginSide
  <2>4. Fed(r, t, upload[r], z, "refused", gathered[r], j, k)
    BY <1>6
  <2>5. Feeding(r)'
    BY <2>1, <2>2, <2>4, <1>9, <1>11 DEF Feeding
  <2>6. ~ SentOn(r)'
    BY <2>2 DEF SentOn
  <2> QED
    BY <2>1, <2>2, <2>3, <2>5, <2>6, <1>1, <1>10, <1>11, MasterSendsNothing
<1>13. CASE ~ (Size(text) > MaxScript) /\ m.more
  <2>1. /\ intake' = [intake EXCEPT ![r] = "reading"] /\ gathered' = [gathered EXCEPT ![r] = text]
        /\ lane' = lane
    BY <1>13 DEF MasterReads, m, text
  <2>2. /\ intake'[r] = "reading" /\ gathered'[r] = text
        /\ \A u \in Uploads \ {r} : intake'[u] = intake[u] /\ gathered'[u] = gathered[u]
    BY <2>1, <1>1 DEF TransferTypes
  <2>3. Size(text) <= MaxScript
    <3>1. Len(text) \in Nat /\ Bytes(text) \in [0 .. Len(text) -> Nat]
      BY <1>5, BytesSum, LenProperties
    <3>2. Size(text) \in Nat
      BY <3>1 DEF Size
    <3> QED
      BY <3>2, <1>13, SourcesAssumption
  <2>4. TransferTypes'
    BY <2>1, <2>3, <1>1, <1>2, <1>5, <1>7 DEF TransferTypes, MasterKeeps, pluginSide
  <2>5. Fed(r, t, upload[r], z, "reading", text, j, k)
    BY <1>6
  <2>6. Feeding(r)'
    BY <2>2, <2>5, <1>9, <1>11 DEF Feeding
  <2>7. ~ SentOn(r)'
    BY <2>2 DEF SentOn
  <2> QED
    BY <2>1, <2>2, <2>4, <2>6, <2>7, <1>1, <1>10, <1>11, MasterSendsNothing
<1>14. CASE ~ (Size(text) > MaxScript) /\ ~ m.more
  <2>1. text = t
    BY <1>6, <1>14
  <2>2. /\ intake' = [intake EXCEPT ![r] = "active"] /\ gathered' = [gathered EXCEPT ![r] = <<>>]
        /\ lane' = lane \o M
    BY <2>1, <1>14 DEF MasterReads, Dispatches, m, text, M
  <2>3. /\ intake'[r] = "active" /\ gathered'[r] = <<>>
        /\ \A u \in Uploads \ {r} : intake'[u] = intake[u] /\ gathered'[u] = gathered[u]
    BY <2>2, <1>1 DEF TransferTypes
  <2>4. lane' \in Seq(Message)
    BY <2>2, <1>1, <1>4, ConcatProperties DEF TransferTypes
  <2>5. TransferTypes'
    BY <2>2, <2>4, <1>1, <1>2, <1>7, <1>8 DEF TransferTypes, MasterKeeps, pluginSide
  <2>6. Fed(r, t, upload[r], z, "active", <<>>, j, k)
    BY <1>6
  <2>7. Feeding(r)'
    BY <2>3, <2>6, <1>9, <1>11 DEF Feeding
  <2>8. SentOn(r)'
    BY <2>3 DEF SentOn
  <2>9. AtPlugin(r)'
    BY <2>2, <2>8, <1>1, <1>9, <1>10, ComingNew DEF M
  <2> QED
    BY <2>2, <2>3, <2>5, <2>7, <2>9, <1>1, <1>4, <1>11, MasterStep
<1> QED
  BY <1>12, <1>13, <1>14

LEMMA MasterReadsEndKeeps ==
    ASSUME TransferInv, NEW r \in Uploads, MasterReadsEnd(r)
    PROVE  TransferInv'
<1>1. TransferTypes /\ MasterKeeps /\ Feeding(r) /\ AtPlugin(r) /\ stream' = stream /\ gathered' = gathered
  BY DEF TransferInv, MasterReadsEnd, MasterKeeps, clientSide
<1>2. source' = source /\ upload' = upload /\ socket' = socket /\ stash' = stash /\ starts' = starts /\ torn' = torn
  BY <1>1 DEF MasterKeeps, pluginSide
<1>4. PICK j, k \in Nat : Fed(r, source[r], upload[r], stream[r], intake[r], gathered[r], j, k)
  BY <1>1 DEF Feeding
<1>5. ASSUME NEW in, in \notin {"none", "reading"}, intake'[r] = in PROVE Feeding(r)'
  <2>1. Fed(r, source[r], upload[r], stream[r], in, gathered[r], j, k)
    BY <1>4, <1>5 DEF Fed
  <2> QED
    BY <2>1, <1>1, <1>2, <1>5 DEF Feeding
<1>6. CASE intake[r] \in {"none", "reading"} /\ intake' = [intake EXCEPT ![r] = "refused"] /\ lane' = lane
  <2>1. intake'[r] = "refused" /\ \A u \in Uploads \ {r} : intake'[u] = intake[u]
    BY <1>1, <1>6 DEF TransferTypes
  <2>2. TransferTypes'
    BY <1>1, <1>6 DEF TransferTypes, MasterKeeps, pluginSide
  <2>3. Feeding(r)'
    BY <2>1, <1>5
  <2>4. ~ SentOn(r) /\ ~ SentOn(r)'
    BY <2>1, <1>6 DEF SentOn
  <2> QED
    BY <2>1, <2>2, <2>3, <2>4, <1>1, <1>6, MasterSendsNothing
<1>7. ASSUME intake[r] = "active", intake' = [intake EXCEPT ![r] = "abandoned"],
             lane' = Append(lane, [kind |-> "kill", run |-> r, text |-> <<>>, more |-> FALSE])
      PROVE  TransferInv'
  <2> DEFINE m == [kind |-> "kill", run |-> r, text |-> <<>>, more |-> FALSE]
             b == <<m>>
  <2>1. intake'[r] = "abandoned" /\ \A u \in Uploads \ {r} : intake'[u] = intake[u]
    BY <1>1, <1>7 DEF TransferTypes
  <2>2. m \in Message /\ m.run = r /\ m.kind = "kill"
    BY EmptySize DEF Message
  <2>3. lane \in Seq(Message) /\ lane' = Append(lane, m)
    BY <1>1, <1>7 DEF TransferTypes
  <2> HIDE DEF m
  <2>4. b \in Seq(Message) /\ Len(b) = 1 /\ b[1] = m
    BY <2>2
  <2>5. lane' = lane \o b
    BY <2>2, <2>3, AppendIsConcat
  <2> HIDE DEF b
  <2>6. \A p \in 1 .. Len(b) : b[p].run = r /\ b[p].kind = "kill"
    BY <2>2, <2>4
  <2>7. lane' \in Seq(Message)
    BY <2>3, <2>4, <2>5, ConcatProperties
  <2>8. TransferTypes'
    BY <2>7, <1>1, <1>7 DEF TransferTypes, MasterKeeps, pluginSide
  <2>9. Feeding(r)'
    BY <2>1, <1>5
  <2>10. SentOn(r) /\ SentOn(r)'
    BY <2>1, <1>7 DEF SentOn
  <2>11. AtPlugin(r)'
    BY <2>4, <2>5, <2>6, <2>10, <1>1, <1>2, ComingMore
  <2> QED
    BY <2>1, <2>4, <2>5, <2>6, <2>8, <2>9, <2>11, <1>1, MasterStep
<1> QED
  BY <1>6, <1>7 DEF MasterReadsEnd

-----------------------------------------------------------------------------
(* The plugin *)

LEMMA MadeNone ==
    ASSUME NEW t \in Seq(Char), t # <<>>
    PROVE  Made(t, 0) = <<>>
<1>1. \A i \in 0 .. Number(t) : (Made(t, i) = <<>>) = (i = 0)
  BY MadeOf
<1>2. Number(t) \in Nat
  BY MadeOf
<1>3. 0 \in 0 .. Number(t)
  BY <1>2
<1> QED
  BY <1>1, <1>3

\* A run that has lost pieces has at most been executed before.
LEMMA ReceivedLoses ==
    ASSUME NEW t \in Seq(Char), t # <<>>, NEW i \in 0 .. Number(t), NEW j \in i .. Number(t), NEW s, NEW x, NEW w,
           Received(t, i, s, x, w)
    PROVE  Received(t, j, <<>>, x, FALSE)
<1>1. Number(t) \in Nat \ {0}
  BY MadeOf
<1>2. x = <<>> \/ (i = Number(t) /\ x = <<t>>)
  BY <1>1 DEF Received
<1> QED
  BY <1>1, <1>2 DEF Received

PluginKeeps == UNCHANGED <<clientSide, masterSide>>

LEMMA PluginStep ==
    ASSUME TransferInv, PluginKeeps, TransferTypes', NoSocket', \A r \in Uploads : AtPlugin(r)'
    PROVE  TransferInv'
<1>1. ASSUME NEW r \in Uploads PROVE Feeding(r)'
  <2>1. Feeding(r)
    BY DEF TransferInv
  <2> QED
    BY <2>1, FeedingKept DEF PluginKeeps, clientSide, masterSide
<1> QED
  BY <1>1 DEF TransferInv

\* What has gone from the wire was for a run that has not been sent, or one that is
\* left with fewer messages.
LEMMA WireLoses ==
    ASSUME TransferTypes, NEW n \in 0 .. Len(Wire), NEW z \in Seq(Message), After(Wire, n, z), Wire' = z,
           PluginKeeps, NEW r \in Uploads, AtPlugin(r), stash'[r] = <<>>, starts'[r] = starts[r],
           r \in torn => r \in torn',
           stash[r] # <<>> => r \in torn',
           \A p \in 1 .. n : Wire[p].run = r => r \in torn'
    PROVE  AtPlugin(r)'
<1> DEFINE t == source[r]
<1>1. Wire \in Seq(Message) /\ t \in Seq(Char) /\ t # <<>> /\ Number(t) \in Nat \ {0}
  BY WireType, IsText, MadeOf
<1>2. source' = source /\ SentOn(r)' = SentOn(r)
  BY DEF PluginKeeps, clientSide, masterSide, SentOn
<1>3. CASE SentOn(r)
  <2>1. PICK i \in Nat, o \in Int : Laid(Wire, r, t, i, o) /\ Received(t, i, stash[r], starts[r], r \notin torn)
    BY <1>3 DEF AtPlugin, Coming
  <2>2. i \in 0 .. Number(t) /\ o \in Int
    BY <2>1 DEF Laid
  <2>3. /\ n - o <= i => Laid(z, r, t, i, o - n)
        /\ n - o \in i .. Number(t) => Laid(z, r, t, n - o, o - n)
        /\ n - o > Number(t) => Laid(z, r, t, Number(t), o - n)
        /\ n - o > i /\ i < Number(t) => \E p \in 1 .. n : Wire[p].run = r
    BY <1>1, <2>1, LaidAfter
  <2>4. n \in Int /\ o - n \in Int
    BY <1>1, <2>2, LenProperties
  <2>5. \E j \in i .. Number(t) : Laid(z, r, t, j, o - n) /\ (j = i \/ \E p \in 1 .. n : Wire[p].run = r)
    <3>1. CASE n - o <= i
      <4>1. i \in i .. Number(t)
        BY <1>1, <2>2
      <4> QED
        BY <4>1, <3>1, <2>3
    <3>2. CASE n - o > i /\ n - o <= Number(t)
      <4>1. n - o \in i .. Number(t) /\ i < Number(t)
        BY <3>2, <1>1, <2>2, <2>4
      <4> QED
        BY <4>1, <3>2, <2>3
    <3>3. CASE n - o > Number(t)
      <4>1. Number(t) \in i .. Number(t) /\ (i = Number(t) \/ (i < Number(t) /\ n - o > i))
        BY <3>3, <1>1, <2>2, <2>4
      <4> QED
        BY <4>1, <3>3, <2>3
    <3> QED
      BY <3>1, <3>2, <3>3, <1>1, <2>2, <2>4
  <2>6. PICK j \in i .. Number(t) : Laid(z, r, t, j, o - n) /\ (j = i \/ \E p \in 1 .. n : Wire[p].run = r)
    BY <2>5
  <2>7. Received(t, j, <<>>, starts[r], r \notin torn')
    <3>1. CASE r \in torn'
      <4>1. Received(t, j, <<>>, starts[r], FALSE)
        BY <1>1, <2>1, <2>2, ReceivedLoses
      <4>2. (r \notin torn') = FALSE
        BY <3>1
      <4> QED
        BY <4>1, <4>2
    <3>2. CASE r \notin torn'
      <4>1. j = i /\ stash[r] = <<>> /\ (r \notin torn') = (r \notin torn)
        BY <3>2, <2>6
      <4> QED
        BY <4>1, <2>1
    <3> QED
      BY <3>1, <3>2
  <2>8. j \in Nat
    BY <1>1, <2>2
  <2>9. Coming(r)'
    BY <1>2, <2>4, <2>6, <2>7, <2>8 DEF Coming
  <2> QED
    BY <2>9, <1>2, <1>3 DEF AtPlugin
<1>4. CASE ~ SentOn(r)
  <2>1. Untouched(r)
    BY <1>4 DEF AtPlugin
  <2>2. Free(z, r)
    <3>1. Free(Wire, r)
      BY <2>1 DEF Untouched
    <3> QED
      BY <3>1, <1>1, FreeAfter
  <2>3. Untouched(r)'
    BY <2>1, <2>2 DEF Untouched
  <2> QED
    BY <2>3, <1>2, <1>4 DEF AtPlugin
<1> QED
  BY <1>3, <1>4

LEMMA HandsKeeps ==
    ASSUME TransferInv, BackendHands
    PROVE  TransferInv'
<1> DEFINE h == Head(lane)
           z == Tail(lane)
<1>1. TransferTypes /\ PluginKeeps /\ lane # <<>> /\ lane' = z
  BY DEF TransferInv, BackendHands, PluginKeeps
<1>2. lane \in Seq(Message) /\ socket \in Seq(Message)
  BY <1>1 DEF TransferTypes
<1>3. /\ h \in Message /\ h = lane[1] /\ z \in Seq(Message) /\ Len(z) = Len(lane) - 1
      /\ \A p \in 1 .. Len(z) : z[p] = lane[p + 1]
  BY <1>1, <1>2, HeadTailProperties
<1>4. plugged' = plugged /\ stash' = stash /\ starts' = starts
  BY DEF BackendHands
<1>5. Len(lane) \in Nat \ {0}
  BY <1>1, <1>2, EmptySeq
<1>6. source' = source /\ intake' = intake
  BY <1>1 DEF PluginKeeps, clientSide, masterSide
<1>7. h.run \in Uploads
  BY <1>3 DEF Message
<1>8. CASE plugged
  <2>1. socket' = Append(socket, h) /\ torn' = torn
    BY <1>8 DEF BackendHands
  <2> HIDE DEF h, z
  <2>2. Append(socket, h) \in Seq(Message)
    BY <1>2, <1>3, AppendProperties
  <2>3. TransferTypes'
    BY <2>1, <2>2, <1>1, <1>3 DEF TransferTypes, BackendHands, PluginKeeps, clientSide, masterSide
  <2>4. Append(socket, h) \o z = socket \o lane
    <3>1. Append(socket, h) = socket \o <<h>> /\ <<h>> \in Seq(Message)
      BY <1>2, <1>3, AppendIsConcat
    <3>2. <<h>> \o z = lane
      <4> DEFINE w == <<h>> \o z
      <4>1. /\ w \in Seq(Message) /\ Len(w) = Len(<<h>>) + Len(z)
            /\ \A p \in 1 .. Len(<<h>>) + Len(z) : w[p] = IF p <= Len(<<h>>) THEN <<h>>[p] ELSE z[p - Len(<<h>>)]
        BY <3>1, <1>3, ConcatProperties
      <4>2. Len(<<h>>) = 1 /\ <<h>>[1] = h
        OBVIOUS
      <4> HIDE DEF w
      <4>3. Len(w) = Len(lane)
        BY <4>1, <4>2, <1>3, <1>5
      <4>4. ASSUME NEW p \in 1 .. Len(w) PROVE w[p] = lane[p]
        <5>1. CASE p = 1
          BY <5>1, <4>1, <4>2, <4>3, <1>3, <1>5
        <5>2. CASE p # 1
          <6>1. p - 1 \in 1 .. Len(z) /\ (p - 1) + 1 = p /\ ~ (p <= 1) /\ p \in 1 .. 1 + Len(z)
            BY <5>2, <4>3, <1>3, <1>5
          <6>2. z[p - 1] = lane[p]
            BY <6>1, <1>3
          <6> QED
            BY <6>1, <6>2, <4>1, <4>2
        <5> QED
          BY <5>1, <5>2
      <4>5. w = lane
        BY <4>1, <4>3, <4>4, <1>2, SeqEqual
      <4> QED
        BY <4>5 DEF w
    <3> DEFINE b == <<h>>
    <3>3. b \in Seq(Message) /\ Append(socket, h) = socket \o b /\ b \o z = lane
      BY <3>1, <3>2
    <3> HIDE DEF b
    <3>4. (socket \o b) \o z = socket \o (b \o z)
      <4>1. socket \in Seq(Message) /\ b \in Seq(Message) /\ z \in Seq(Message)
        BY <3>3, <1>2, <1>3
      <4> QED
        BY <4>1, ConcatThree, Zenon
    <3> QED
      BY <3>3, <3>4
  <2>5. Wire' = Wire
    BY <2>1, <2>4, <1>1 DEF Wire
  <2>6. ASSUME NEW r \in Uploads PROVE AtPlugin(r)'
    <3>1. AtPlugin(r) /\ SentOn(r)' = SentOn(r)
      BY <1>6 DEF TransferInv, SentOn
    <3> QED
      BY <3>1, <2>1, <2>5, <1>4, <1>6, PluginKept
  <2>7. NoSocket'
    BY <1>4, <1>8 DEF NoSocket
  <2> QED
    BY <2>3, <2>6, <2>7, <1>1, PluginStep
<1>9. CASE ~ plugged
  <2>1. socket' = socket /\ torn' = torn \union {h.run}
    BY <1>9 DEF BackendHands
  <2>2. socket = <<>> /\ \A r \in Uploads : stash[r] = <<>>
    BY <1>9 DEF TransferInv, NoSocket
  <2> HIDE DEF h, z
  <2>3. TransferTypes'
    BY <2>1, <1>1, <1>3, <1>7 DEF TransferTypes, BackendHands, PluginKeeps, clientSide, masterSide
  <2>4. Wire = lane /\ Wire' = z
    BY <2>1, <2>2, <1>1, <1>2, <1>3, ConcatEmptySeq DEF Wire
  <2>5. After(Wire, 1, z) /\ 1 \in 0 .. Len(Wire)
    BY <2>4, <1>3, <1>5 DEF After
  <2>6. ASSUME NEW r \in Uploads PROVE AtPlugin(r)'
    <3>1. \A p \in 1 .. 1 : Wire[p].run = r => r \in torn'
      BY <2>1, <2>4, <1>3
    <3>2. AtPlugin(r) /\ stash'[r] = <<>> /\ stash[r] = <<>> /\ (r \in torn => r \in torn') /\ starts'[r] = starts[r]
      BY <2>1, <2>2, <1>4 DEF TransferInv
    <3> QED
      BY <3>1, <3>2, <2>4, <2>5, <1>1, <1>3, WireLoses
  <2>7. NoSocket'
    BY <2>1, <2>2, <1>4 DEF NoSocket
  <2> QED
    BY <2>3, <2>6, <2>7, <1>1, PluginStep
<1> QED
  BY <1>1, <1>8, <1>9 DEF TransferTypes

LEMMA RewiresKeeps ==
    ASSUME TransferInv, Rewires
    PROVE  TransferInv'
<1> DEFINE built == {r \in Uploads : stash[r] # <<>>}
           held == {socket[i].run : i \in DOMAIN socket}
<1>1. TransferTypes /\ PluginKeeps /\ lane' = lane /\ starts' = starts /\ breaks' = breaks + 1 /\ breaks < MaxBreaks
  BY DEF TransferInv, Rewires, PluginKeeps
<1>2. stash' = [r \in Uploads |-> <<>>]
  BY DEF Rewires
<1>3. lane \in Seq(Message) /\ socket \in Seq(Message) /\ <<>> \in Seq(Message) /\ <<>> \in Seq(Char)
  BY <1>1, EmptySeq DEF TransferTypes
<1>4. Wire \in Seq(Message) /\ Len(Wire) = Len(socket) + Len(lane) /\ Len(socket) \in Nat /\ Len(lane) \in Nat
      /\ \A p \in 1 .. Len(Wire) : Wire[p] = IF p <= Len(socket) THEN socket[p] ELSE lane[p - Len(socket)]
  BY <1>1, <1>3, WireType, LenProperties
<1>5. DOMAIN socket = 1 .. Len(socket) /\ held \in SUBSET Uploads
  <2>1. DOMAIN socket = 1 .. Len(socket)
    BY <1>3, LenProperties
  <2>2. \A i \in 1 .. Len(socket) : socket[i] \in Message
    BY <1>3, ElementOfSeq
  <2> QED
    BY <2>1, <2>2 DEF Message
<1>6. breaks' \in 0 .. MaxBreaks
  BY <1>1, SourcesAssumption DEF TransferTypes
<1>7. CASE socket' = socket /\ plugged' = plugged /\ torn' = torn \union built
  <2>1. TransferTypes'
    BY <1>1, <1>2, <1>3, <1>6, <1>7 DEF TransferTypes, PluginKeeps, clientSide, masterSide
  <2>2. Wire' = Wire
    BY <1>1, <1>7 DEF Wire
  <2>3. After(Wire, 0, Wire) /\ 0 \in 0 .. Len(Wire)
    BY <1>4 DEF After
  <2>4. ASSUME NEW r \in Uploads PROVE AtPlugin(r)'
    <3>1. /\ AtPlugin(r) /\ stash'[r] = <<>> /\ starts'[r] = starts[r]
          /\ (r \in torn => r \in torn') /\ (stash[r] # <<>> => r \in torn')
      BY <1>1, <1>2, <1>7 DEF TransferInv
    <3>2. \A p \in 1 .. 0 : Wire[p].run = r => r \in torn'
      OBVIOUS
    <3> QED
      BY <3>1, <3>2, <2>2, <2>3, <1>1, <1>4, WireLoses
  <2>5. NoSocket'
    BY <1>2, <1>7 DEF TransferInv, NoSocket
  <2> QED
    BY <2>1, <2>4, <2>5, <1>1, PluginStep
<1>8. CASE plugged' = FALSE /\ socket' = <<>> /\ torn' = (torn \union built) \union held
  <2>1. TransferTypes'
    BY <1>1, <1>2, <1>3, <1>5, <1>6, <1>8 DEF TransferTypes, PluginKeeps, clientSide, masterSide
  <2>2. Wire' = lane
    BY <1>1, <1>3, <1>8, ConcatEmptySeq DEF Wire
  <2>3. Len(socket) \in 0 .. Len(Wire)
    BY <1>4
  <2>4. After(Wire, Len(socket), lane)
    <3>1. Len(lane) = Len(Wire) - Len(socket)
      BY <1>4
    <3>2. ASSUME NEW p \in 1 .. Len(Wire) - Len(socket) PROVE lane[p] = Wire[Len(socket) + p]
      <4>1. Len(socket) + p \in 1 .. Len(Wire) /\ ~ (Len(socket) + p <= Len(socket)) /\ (Len(socket) + p) - Len(socket) = p
        BY <1>4
      <4> QED
        BY <4>1, <1>4
    <3> QED
      BY <3>1, <3>2 DEF After
  <2>5. ASSUME NEW r \in Uploads PROVE AtPlugin(r)'
    <3>1. /\ AtPlugin(r) /\ stash'[r] = <<>> /\ starts'[r] = starts[r]
          /\ (r \in torn => r \in torn') /\ (stash[r] # <<>> => r \in torn')
      BY <1>1, <1>2, <1>8 DEF TransferInv
    <3>2. ASSUME NEW p \in 1 .. Len(socket), Wire[p].run = r PROVE r \in torn'
      <4>1. Wire[p] = socket[p]
        BY <1>4
      <4> QED
        BY <4>1, <3>2, <1>5, <1>8
    <3> QED
      BY <3>1, <3>2, <2>2, <2>3, <2>4, <1>1, <1>3, WireLoses
  <2>6. NoSocket'
    BY <1>2, <1>8 DEF NoSocket
  <2> QED
    BY <2>1, <2>5, <2>6, <1>1, PluginStep
<1> QED
  BY <1>7, <1>8 DEF Rewires

LEMMA RedialsKeeps ==
    ASSUME TransferInv, Redials
    PROVE  TransferInv'
<1>1. TransferTypes /\ PluginKeeps /\ TransferTypes' /\ NoSocket'
  BY DEF TransferInv, Redials, PluginKeeps, TransferTypes, NoSocket, clientSide, masterSide
<1>2. ASSUME NEW r \in Uploads PROVE AtPlugin(r)'
  <2>1. AtPlugin(r) /\ SentOn(r)' = SentOn(r)
    BY DEF TransferInv, SentOn, Redials, masterSide
  <2>2. Wire' = Wire /\ source' = source /\ stash' = stash /\ starts' = starts /\ torn' = torn
    BY DEF Redials, Wire, clientSide
  <2> QED
    BY <2>1, <2>2, PluginKept
<1> QED
  BY <1>1, <1>2, PluginStep

\* The first message on the socket is the first one on the wire.
LEMMA WireHead ==
    ASSUME TransferTypes, socket # <<>>, socket' = Tail(socket), lane' = lane
    PROVE  /\ Wire \in Seq(Message) /\ Wire # <<>> /\ Head(Wire) = Head(socket) /\ Wire' = Tail(Wire)
           /\ Head(socket) \in Message
<1> DEFINE z == Tail(socket)
           w == Wire
           v == z \o lane
<1>1. socket \in Seq(Message) /\ lane \in Seq(Message) /\ Len(socket) \in Nat \ {0} /\ Len(lane) \in Nat
  BY EmptySeq, LenProperties DEF TransferTypes
<1>2. /\ Head(socket) \in Message /\ Head(socket) = socket[1] /\ z \in Seq(Message)
      /\ Len(z) = Len(socket) - 1 /\ \A p \in 1 .. Len(z) : z[p] = socket[p + 1]
  BY <1>1, HeadTailProperties
<1> HIDE DEF z
<1>3. /\ w \in Seq(Message) /\ Len(w) = Len(socket) + Len(lane)
      /\ \A p \in 1 .. Len(w) : w[p] = IF p <= Len(socket) THEN socket[p] ELSE lane[p - Len(socket)]
  BY WireType
<1>4. /\ v \in Seq(Message) /\ Len(v) = Len(z) + Len(lane)
      /\ \A p \in 1 .. Len(z) + Len(lane) : v[p] = IF p <= Len(z) THEN z[p] ELSE lane[p - Len(z)]
  BY <1>1, <1>2, ConcatProperties
<1> HIDE DEF v, w
<1>5. w # <<>> /\ 1 \in 1 .. Len(w)
  BY <1>1, <1>3, EmptySeq
<1>6. /\ Head(w) = w[1] /\ Tail(w) \in Seq(Message) /\ Len(Tail(w)) = Len(w) - 1
      /\ \A p \in 1 .. Len(Tail(w)) : Tail(w)[p] = w[p + 1]
  BY <1>3, <1>5, HeadTailProperties
<1>7. Head(w) = socket[1]
  BY <1>1, <1>3, <1>5, <1>6
<1>8. Len(v) = Len(Tail(w))
  BY <1>1, <1>2, <1>3, <1>4, <1>6
<1>9. ASSUME NEW p \in 1 .. Len(v) PROVE v[p] = Tail(w)[p]
  <2>1. p + 1 \in 1 .. Len(w) /\ p \in 1 .. Len(z) + Len(lane)
    BY <1>1, <1>2, <1>3, <1>4
  <2>2. Tail(w)[p] = w[p + 1]
    BY <1>6, <1>8
  <2>3. CASE p <= Len(z)
    <3>1. p \in 1 .. Len(z) /\ p + 1 <= Len(socket)
      BY <2>3, <1>1, <1>2
    <3> QED
      BY <2>1, <2>2, <2>3, <3>1, <1>2, <1>3, <1>4
  <2>4. CASE ~ (p <= Len(z))
    <3>1. ~ (p + 1 <= Len(socket)) /\ (p + 1) - Len(socket) = p - Len(z)
      BY <2>4, <1>1, <1>2
    <3> QED
      BY <2>1, <2>2, <2>4, <3>1, <1>3, <1>4
  <2> QED
    BY <2>3, <2>4
<1>10. v = Tail(w)
  BY <1>4, <1>6, <1>8, <1>9, SeqEqual
<1> QED
  BY <1>2, <1>3, <1>5, <1>7, <1>10 DEF v, w, z, Wire

\* What the handler makes of a message of a run, and what then is there of the run.
Handles(m, s, x, s2, x2) ==
    \/ m.kind = "run" /\ m.more /\ s2 = m.text /\ x2 = x
    \/ m.kind = "run" /\ ~ m.more /\ s2 = <<>> /\ x2 = Append(x, m.text)
    \/ m.kind = "chunk" /\ s = <<>> /\ s2 = s /\ x2 = x
    \/ m.kind = "chunk" /\ s # <<>> /\ m.more /\ s2 = s \o m.text /\ x2 = x
    \/ m.kind = "chunk" /\ s # <<>> /\ ~ m.more /\ s2 = <<>> /\ x2 = Append(x, s \o m.text)
    \/ m.kind = "kill" /\ s2 = <<>> /\ x2 = x

LEMMA PieceHandled ==
    ASSUME NEW t \in Seq(Char), t # <<>>, NEW r \in Uploads, NEW i \in Nat, i + 1 \in 1 .. Number(t),
           NEW s, NEW x, NEW w \in BOOLEAN, Received(t, i, s, x, w),
           NEW s2, NEW x2, Handles(Messages(r, t)[i + 1], s, x, s2, x2)
    PROVE  Received(t, i + 1, s2, x2, w)
<1> DEFINE N == Number(t)
           m == Messages(r, t)[i + 1]
           p == PiecesOf(t)[i + 1]
<1>1. /\ N \in Nat \ {0} /\ Made(t, N) = t /\ Made(t, 0) = <<>> /\ p \in Piece
      /\ Made(t, (i + 1) - 1) \o p = Made(t, i + 1)
  BY MadeOf, MadeNone
<1>2. (i + 1) - 1 = i /\ i < N /\ i \in 0 .. N /\ (i + 1 = 1) = (i = 0)
  BY <1>1
<1>3. Made(t, i) \o p = Made(t, i + 1)
  BY <1>1, <1>2
<1>4. m.kind = (IF i + 1 = 1 THEN "run" ELSE "chunk") /\ m.text = p /\ m.more = (i + 1 < N)
  BY MessageIs
<1>5. (Made(t, i) = <<>>) = (i = 0)
  BY <1>2, MadeOf
<1>6. /\ s = <<>> \/ s = Made(t, i)
      /\ i = 0 => s = <<>>
      /\ x = <<>> /\ (i > 0 /\ w => s = Made(t, i))
  BY <1>2 DEF Received
<1>7. Append(<<>>, t) = <<t>>
  OBVIOUS
<1>8. Handles(m, s, x, s2, x2)
  OBVIOUS
<1> HIDE DEF m, p, N
<1>9. CASE i = 0
  <2>1. p \in Seq(Char)
    BY <1>1 DEF Piece
  <2>2. Made(t, 1) = p
    BY <2>1, <1>1, <1>3, <1>9, ConcatEmptySeq
  <2>3. m.kind = "run"
    BY <1>4, <1>9
  <2>4. \/ 1 < N /\ s2 = p /\ x2 = <<>>
        \/ ~ (1 < N) /\ s2 = <<>> /\ x2 = Append(<<>>, p)
    BY <2>3, <1>4, <1>6, <1>8, <1>9 DEF Handles
  <2>5. CASE 1 < N /\ s2 = p /\ x2 = <<>>
    BY <2>2, <2>5, <1>1, <1>9 DEF Received, N
  <2>6. CASE ~ (1 < N) /\ s2 = <<>> /\ x2 = Append(<<>>, p)
    <3>1. N = 1
      BY <2>6, <1>1
    <3>2. p = t
      BY <3>1, <2>2, <1>1
    <3>3. x2 = <<t>>
      BY <3>2, <2>6, <1>7
    <3> QED
      BY <3>1, <3>3, <2>6, <1>9 DEF Received, N
  <2> QED
    BY <2>4, <2>5, <2>6
<1>10. CASE i # 0
  <2>1. m.kind = "chunk" /\ i > 0
    BY <1>2, <1>4, <1>10
  <2>2. \/ s = <<>> /\ s2 = <<>> /\ x2 = <<>>
        \/ s # <<>> /\ i + 1 < N /\ s2 = s \o p /\ x2 = <<>>
        \/ s # <<>> /\ ~ (i + 1 < N) /\ s2 = <<>> /\ x2 = Append(<<>>, s \o p)
    BY <2>1, <1>4, <1>6, <1>8 DEF Handles
  <2>3. CASE s = <<>> /\ s2 = <<>> /\ x2 = <<>>
    <3>1. w = FALSE
      BY <2>1, <2>3, <1>5, <1>6, <1>10
    <3> QED
      BY <3>1, <2>3 DEF Received
  <2>4. CASE s # <<>> /\ i + 1 < N /\ s2 = s \o p /\ x2 = <<>>
    <3>1. s2 = Made(t, i + 1)
      BY <2>4, <1>3, <1>6
    <3> QED
      BY <3>1, <2>4, <1>1, <1>2 DEF Received, N
  <2>5. CASE s # <<>> /\ ~ (i + 1 < N) /\ s2 = <<>> /\ x2 = Append(<<>>, s \o p)
    <3>1. i + 1 = N
      BY <2>5, <1>1, <1>2
    <3>2. s \o p = t
      BY <3>1, <2>5, <1>1, <1>3, <1>6
    <3>3. x2 = <<t>>
      BY <3>2, <2>5, <1>7
    <3> QED
      BY <3>1, <3>3, <2>5 DEF Received, N
  <2> QED
    BY <2>2, <2>3, <2>4, <2>5
<1> QED
  BY <1>9, <1>10

LEMMA ReadsKeeps ==
    ASSUME TransferInv, PluginReads
    PROVE  TransferInv'
<1> DEFINE m == Head(socket)
           r == m.run
<1>1. TransferTypes /\ PluginKeeps /\ lane' = lane /\ socket # <<>> /\ socket' = Tail(socket)
      /\ plugged' = plugged /\ breaks' = breaks /\ torn' = torn
  BY DEF TransferInv, PluginReads, PluginKeeps
<1>2. /\ Wire \in Seq(Message) /\ Wire # <<>> /\ Head(Wire) = m /\ Wire' = Tail(Wire) /\ m \in Message
  BY <1>1, WireHead
<1>3. m.kind \in {"run", "chunk", "kill"} /\ r \in Uploads /\ m.text \in Seq(Char) /\ m.more \in BOOLEAN
  BY <1>2 DEF Message, Piece
<1>4. socket' \in Seq(Message)
  BY <1>1, HeadTailProperties DEF TransferTypes
<1>5. PICK s2, x2 : /\ Handles(m, stash[r], starts[r], s2, x2)
                    /\ stash' = [stash EXCEPT ![r] = s2] /\ starts' = [starts EXCEPT ![r] = x2]
  <2>1. stash = [stash EXCEPT ![r] = stash[r]] /\ starts = [starts EXCEPT ![r] = starts[r]]
    BY <1>1, <1>3 DEF TransferTypes
  <2>2. CASE m.kind = "run" /\ m.more /\ stash' = [stash EXCEPT ![r] = m.text] /\ starts' = starts
    <3>1. Handles(m, stash[r], starts[r], m.text, starts[r])
      BY <2>2 DEF Handles
    <3> QED
      BY <3>1, <2>1, <2>2
  <2>3. CASE m.kind = "run" /\ ~ m.more /\ Starts(r, m.text)
    <3>1. Handles(m, stash[r], starts[r], <<>>, Append(starts[r], m.text))
      BY <2>3 DEF Handles
    <3> QED
      BY <3>1, <2>3 DEF Starts
  <2>4. CASE m.kind = "chunk" /\ stash[r] = <<>> /\ stash' = stash /\ starts' = starts
    <3>1. Handles(m, stash[r], starts[r], stash[r], starts[r])
      BY <2>4 DEF Handles
    <3> QED
      BY <3>1, <2>1, <2>4
  <2>5. CASE m.kind = "chunk" /\ stash[r] # <<>> /\ m.more /\ stash' = [stash EXCEPT ![r] = @ \o m.text] /\ starts' = starts
    <3>1. Handles(m, stash[r], starts[r], stash[r] \o m.text, starts[r])
      BY <2>5 DEF Handles
    <3>2. stash' = [stash EXCEPT ![r] = stash[r] \o m.text]
      BY <2>5
    <3> QED
      BY <3>1, <3>2, <2>1, <2>5
  <2>6. CASE m.kind = "chunk" /\ stash[r] # <<>> /\ ~ m.more /\ Starts(r, stash[r] \o m.text)
    <3>1. Handles(m, stash[r], starts[r], <<>>, Append(starts[r], stash[r] \o m.text))
      BY <2>6 DEF Handles
    <3> QED
      BY <3>1, <2>6 DEF Starts
  <2>7. CASE m.kind = "kill" /\ stash' = [stash EXCEPT ![r] = <<>>] /\ starts' = starts
    <3>1. Handles(m, stash[r], starts[r], <<>>, starts[r])
      BY <2>7 DEF Handles
    <3> QED
      BY <3>1, <2>1, <2>7
  <2> QED
    BY <2>2, <2>3, <2>4, <2>5, <2>6, <2>7 DEF PluginReads
<1> HIDE DEF m
<1>6. /\ stash'[r] = s2 /\ starts'[r] = x2
      /\ \A u \in Uploads \ {r} : stash'[u] = stash[u] /\ starts'[u] = starts[u]
  BY <1>1, <1>3, <1>5 DEF TransferTypes
<1>7. stash[r] \in Seq(Char) /\ starts[r] \in Seq(Seq(Char)) /\ <<>> \in Seq(Char)
  BY <1>1, <1>3, EmptySeq DEF TransferTypes
<1>8. s2 \in Seq(Char) /\ x2 \in Seq(Seq(Char))
  <2>1. stash[r] \o m.text \in Seq(Char)
    BY <1>3, <1>7, ConcatProperties
  <2>2. /\ Append(starts[r], m.text) \in Seq(Seq(Char))
        /\ Append(starts[r], stash[r] \o m.text) \in Seq(Seq(Char))
    BY <2>1, <1>3, <1>7, AppendProperties
  <2> QED
    BY <2>1, <2>2, <1>3, <1>5, <1>7 DEF Handles
<1>9. TransferTypes'
  BY <1>1, <1>4, <1>5, <1>8 DEF TransferTypes, PluginKeeps, clientSide, masterSide
<1>10. NoSocket'
  BY <1>1 DEF TransferInv, NoSocket
<1>11. source' = source /\ intake' = intake
  BY <1>1 DEF PluginKeeps, clientSide, masterSide
<1>12. ASSUME NEW u \in Uploads, SentOn(u) PROVE AtPlugin(u)'
  <2> DEFINE t == source[u]
  <2>1. t \in Seq(Char) /\ t # <<>>
    BY <1>1, IsText
  <2>2. AtPlugin(u)
    BY DEF TransferInv
  <2>3. PICK i \in Nat, o \in Int : Laid(Wire, u, t, i, o) /\ Received(t, i, stash[u], starts[u], u \notin torn)
    BY <2>2, <1>12 DEF AtPlugin, Coming
  <2>4. \/ m.run # u /\ Laid(Wire', u, t, i, o - 1)
        \/ i + 1 \in 1 .. Number(t) /\ m = Messages(u, t)[i + 1] /\ Laid(Wire', u, t, i + 1, o - 1)
        \/ m.kind = "kill" /\ m.run = u /\ i = Number(t) /\ Laid(Wire', u, t, i, o - 1)
    <3>1. \/ Head(Wire).run # u /\ Laid(Tail(Wire), u, t, i, o - 1)
          \/ /\ i + 1 \in 1 .. Number(t) /\ Head(Wire) = Messages(u, t)[i + 1]
             /\ Laid(Tail(Wire), u, t, i + 1, o - 1)
          \/ Head(Wire).kind = "kill" /\ Head(Wire).run = u /\ i = Number(t) /\ Laid(Tail(Wire), u, t, i, o - 1)
      BY <2>1, <2>3, <1>2, LaidTail
    <3> QED
      BY <3>1, <1>2
  <2>5. o - 1 \in Int /\ SentOn(u)'
    BY <1>11, <1>12 DEF SentOn
  <2>6. ASSUME NEW j \in Nat, Laid(Wire', u, t, j, o - 1), Received(t, j, stash'[u], starts'[u], u \notin torn')
        PROVE  AtPlugin(u)'
    <3>1. Coming(u)'
      BY <2>5, <2>6, <1>11 DEF Coming
    <3> QED
      BY <3>1, <2>5 DEF AtPlugin
  <2>7. CASE m.run # u /\ Laid(Wire', u, t, i, o - 1)
    <3>1. stash'[u] = stash[u] /\ starts'[u] = starts[u]
      BY <2>7, <1>6
    <3>2. Received(t, i, stash'[u], starts'[u], u \notin torn')
      BY <3>1, <2>3, <1>1
    <3> QED
      BY <3>2, <2>6, <2>7
  <2>8. CASE i + 1 \in 1 .. Number(t) /\ m = Messages(u, t)[i + 1] /\ Laid(Wire', u, t, i + 1, o - 1)
    <3>1. m.run = u
      BY <2>1, <2>8, MessageIs
    <3>2. Handles(Messages(u, t)[i + 1], stash[u], starts[u], s2, x2)
      BY <3>1, <2>8, <1>5
    <3>3. (u \notin torn) \in BOOLEAN
      OBVIOUS
    <3>4. Received(t, i + 1, s2, x2, u \notin torn)
      BY <3>2, <3>3, <2>1, <2>3, <2>8, PieceHandled
    <3>5. Received(t, i + 1, stash'[u], starts'[u], u \notin torn')
      BY <3>1, <3>4, <1>1, <1>6
    <3> QED
      BY <3>5, <2>6, <2>8
  <2>9. CASE m.kind = "kill" /\ m.run = u /\ i = Number(t) /\ Laid(Wire', u, t, i, o - 1)
    <3>1. stash'[u] = <<>> /\ starts'[u] = starts[u]
      BY <2>9, <1>5, <1>6 DEF Handles
    <3>2. stash[u] = <<>>
      BY <2>3, <2>9 DEF Received
    <3>3. Received(t, i, stash'[u], starts'[u], u \notin torn')
      BY <3>1, <3>2, <2>3, <1>1
    <3> QED
      BY <3>3, <2>6, <2>9
  <2> QED
    BY <2>4, <2>7, <2>8, <2>9
<1>13. ASSUME NEW u \in Uploads, ~ SentOn(u) PROVE AtPlugin(u)'
  <2>1. Free(Wire, u) /\ stash[u] = <<>> /\ starts[u] = <<>>
    BY <1>13 DEF TransferInv, AtPlugin, Untouched
  <2>2. Len(Wire) \in Nat \ {0} /\ Head(Wire) = Wire[1]
    BY <1>2, EmptySeq
  <2>3. u # r
    BY <2>1, <2>2, <1>2 DEF Free
  <2>4. stash'[u] = <<>> /\ starts'[u] = <<>>
    BY <2>1, <2>3, <1>6
  <2>5. /\ Len(Tail(Wire)) = Len(Wire) - 1
        /\ \A p \in 1 .. Len(Tail(Wire)) : Tail(Wire)[p] = Wire[p + 1]
    BY <1>2, HeadTailProperties
  <2>6. After(Wire, 1, Tail(Wire)) /\ 1 \in 0 .. Len(Wire)
    BY <2>2, <2>5 DEF After
  <2>7. Free(Wire', u)
    BY <2>1, <2>6, <1>2, FreeAfter
  <2>8. Untouched(u)' /\ ~ SentOn(u)'
    BY <2>4, <2>7, <1>11, <1>13 DEF Untouched, SentOn
  <2> QED
    BY <2>8 DEF AtPlugin
<1> QED
  BY <1>1, <1>9, <1>10, <1>12, <1>13, PluginStep

-----------------------------------------------------------------------------
(* The theorem *)

LEMMA TransferStep == TransferInv /\ [ScriptNext]_transferVars => TransferInv'
<1> SUFFICES ASSUME TransferInv, [ScriptNext]_transferVars PROVE TransferInv'
  OBVIOUS
<1>1. CASE UNCHANGED transferVars
  BY <1>1 DEF transferVars, TransferInv, TransferTypes, Feeding, AtPlugin, Coming, Untouched, SentOn,
              Wire, NoSocket
<1>2. ASSUME NEW r \in Uploads, Submits(r) \/ Sends(r) \/ Quits(r) \/ MasterReads(r) \/ MasterReadsEnd(r)
      PROVE  TransferInv'
  BY <1>2, SubmitsKeeps, SendsKeeps, QuitsKeeps, MasterReadsKeeps, MasterReadsEndKeeps
<1>3. CASE BackendHands \/ PluginReads \/ Rewires \/ Redials
  BY <1>3, HandsKeeps, ReadsKeeps, RewiresKeeps, RedialsKeeps
<1> QED
  BY <1>1, <1>2, <1>3 DEF ScriptNext

LEMMA TransferArrives == TransferInv => ScriptArrivesWhole
<1> SUFFICES ASSUME TransferInv, NEW r \in Uploads
             PROVE  /\ starts[r] \in {<<>>, <<source[r]>>}
                    /\ SentOn(r) /\ ~ OnItsWay(r) /\ r \notin torn => starts[r] # <<>>
  BY DEF ScriptArrivesWhole, SentOn
<1> DEFINE t == source[r]
<1>1. TransferTypes /\ AtPlugin(r)
  BY DEF TransferInv
<1>2. t \in Seq(Char) /\ t # <<>>
  BY <1>1, IsText
<1>3. CASE ~ SentOn(r)
  BY <1>1, <1>3 DEF AtPlugin, Untouched
<1>4. CASE SentOn(r)
  <2>1. PICK i \in Nat, o \in Int : Laid(Wire, r, t, i, o) /\ Received(t, i, stash[r], starts[r], r \notin torn)
    BY <1>1, <1>4 DEF AtPlugin, Coming
  <2>2. Number(t) \in Nat \ {0} /\ i \in 0 .. Number(t)
    BY <2>1, <1>2, MadeOf DEF Laid
  <2>3. starts[r] \in {<<>>, <<t>>}
    <3>1. i < Number(t) \/ i = Number(t)
      BY <2>2
    <3> QED
      BY <2>1, <3>1 DEF Received
  <2>4. ASSUME ~ OnItsWay(r) PROVE i = Number(t)
    <3> SUFFICES ASSUME i # Number(t) PROVE FALSE
      OBVIOUS
    <3>1. i + 1 \in i + 1 .. Number(t) /\ i + 1 \in 1 .. Number(t)
      BY <2>2
    <3>2. o + (i + 1) \in 1 .. Len(Wire) /\ Wire[o + (i + 1)] = Messages(r, t)[i + 1]
      BY <2>1, <3>1 DEF Laid
    <3>3. Messages(r, t)[i + 1].run = r
      BY <1>2, <3>1, MessageIs
    <3>4. PICK p \in 1 .. Len(Wire) : Wire[p].run = r
      BY <3>2, <3>3
    <3>5. /\ Len(Wire) = Len(socket) + Len(lane) /\ Len(socket) \in Nat /\ Len(lane) \in Nat
          /\ Wire[p] = IF p <= Len(socket) THEN socket[p] ELSE lane[p - Len(socket)]
      BY <1>1, WireType, LenProperties DEF TransferTypes
    <3>6. DOMAIN socket = 1 .. Len(socket) /\ DOMAIN lane = 1 .. Len(lane)
      BY <1>1, LenProperties DEF TransferTypes
    <3>7. CASE p <= Len(socket)
      <4>1. p \in DOMAIN socket /\ socket[p].run = r
        BY <3>4, <3>5, <3>6, <3>7
      <4> QED
        BY <4>1, <2>4 DEF OnItsWay
    <3>8. CASE ~ (p <= Len(socket))
      <4>1. p - Len(socket) \in DOMAIN lane /\ lane[p - Len(socket)].run = r
        BY <3>4, <3>5, <3>6, <3>8
      <4> QED
        BY <4>1, <2>4 DEF OnItsWay
    <3> QED
      BY <3>7, <3>8
  <2>5. ASSUME ~ OnItsWay(r), r \notin torn PROVE starts[r] = <<t>>
    BY <2>1, <2>4, <2>5 DEF Received
  <2> QED
    BY <2>3, <2>5
<1> QED
  BY <1>3, <1>4

LEMMA TransferSafe == ScriptSpec => []TransferInv
<1>1. ScriptInit => TransferInv
  BY TransferStarts
<1>2. TransferInv /\ [ScriptNext]_transferVars => TransferInv'
  BY TransferStep
<1> QED
  BY <1>1, <1>2, PTL DEF ScriptSpec

\* The plugin executes nothing but the scripts that were submitted, whole and once, and all
\* of those that lost no piece: for any scripts, pieces and runs, whoever leaves when.
THEOREM ScriptsArriveWhole == ScriptSpec => []ScriptArrivesWhole
<1>1. ScriptSpec => []TransferInv
  BY TransferSafe
<1>2. TransferInv => ScriptArrivesWhole
  BY TransferArrives
<1> QED
  BY <1>1, <1>2, PTL

\* What is on its way is small enough to be sent.
LEMMA TransferTypesOK == TransferTypes => ScriptTypeOK
<1> SUFFICES ASSUME TransferTypes PROVE ScriptTypeOK
  OBVIOUS
<1>1. \A q \in Seq(Message) : \A i \in DOMAIN q : Size(q[i].text) <= PieceSize
  <2> TAKE q \in Seq(Message)
  <2> TAKE i \in DOMAIN q
  <2>1. i \in 1 .. Len(q)
    BY LenProperties
  <2>2. q[i] \in Message
    BY <2>1, ElementOfSeq
  <2>3. q[i].text \in Piece
    BY <2>2 DEF Message
  <2> QED
    BY <2>3 DEF Piece
<1>2. source \in [Uploads -> Texts] /\ lane \in Seq(Message) /\ stream \in [Uploads -> Seq(Message)]
  BY DEF TransferTypes
<1>3. \A i \in DOMAIN lane : Size(lane[i].text) <= PieceSize
  BY <1>1, <1>2
<1>4. \A r \in Uploads : \A i \in DOMAIN stream[r] : Size(stream[r][i].text) <= PieceSize
  BY <1>1, <1>2
<1>5. \A r \in Uploads : /\ upload[r].at \in {"idle", "refused", "on", "gone"}
                         /\ intake[r] \in {"none", "reading", "refused", "active", "abandoned"}
                         /\ Size(gathered[r]) <= MaxScript
  <2> TAKE r \in Uploads
  <2>1. upload[r] \in [at : {"idle", "refused", "on", "gone"}, rest : Seq(Message)]
    BY DEF TransferTypes
  <2>2. gathered[r] \in {x \in Seq(Char) : Size(x) <= MaxScript}
    BY DEF TransferTypes
  <2>3. intake[r] \in {"none", "reading", "refused", "active", "abandoned"}
    BY DEF TransferTypes
  <2> QED
    BY <2>1, <2>2, <2>3
<1>6. plugged \in BOOLEAN /\ breaks \in 0 .. MaxBreaks /\ torn \subseteq Uploads
  BY DEF TransferTypes
<1> QED
  BY <1>2, <1>3, <1>4, <1>5, <1>6 DEF ScriptTypeOK
===============================================================================

---------------------------- MODULE EditorProofs ----------------------------
(***************************************************************************)
(* Theorems about the texts of Editor, for every keyboard and every length *)
(* of text: what the scanner of the parser, the editor's copy of it, and   *)
(* the search under the cursor compute.                                    *)
(*                                                                         *)
(* The loops are recursive functions of a LET, of which TLA+ knows that    *)
(* they satisfy their equation only when some function does.  Recursion    *)
(* shows that one does, OneRecursion that it is the one defined, by the    *)
(* induction of SetInduction, which speaks of a set of numbers and so      *)
(* needs no operator as its parameter.                                     *)
(***************************************************************************)
EXTENDS Editor, FiniteSetTheorems, SequenceTheorems, WellFoundedInduction, TLAPS

\* A set that has 0, and with each number the next, has all of them: the least
\* number outside of it would have one before it.
LEMMA SetInduction ==
  ASSUME NEW S, 0 \in S, \A n \in Nat : n \in S => n + 1 \in S
  PROVE  Nat \subseteq S
<1> DEFINE R == {p \in Nat \X Nat : p[1] < p[2]}
           T == Nat \ S
<1>1. IsWellFoundedOn(R, Nat)
  BY NatLessThanWellFounded DEF OpToRel
<1> SUFFICES ASSUME T # {} PROVE FALSE
  OBVIOUS
<1>2. PICK x \in T : \A y \in T : ~(<<y, x>> \in R)
  <2> HIDE DEF R
  <2>1. T \subseteq Nat OBVIOUS
  <2> HIDE DEF T
  <2> QED BY <1>1, <2>1, WFMin
<1>3. x \in Nat /\ x # 0
  OBVIOUS
<1>4. x - 1 \in Nat /\ <<x - 1, x>> \in R
  BY <1>3
<1>5. x - 1 \in S
  BY <1>2, <1>4
<1>6. x - 1 + 1 \in S
  BY <1>4, <1>5
<1>7. x - 1 + 1 = x
  BY <1>3
<1> QED BY <1>6, <1>7

\* f is built up from a in n steps, each of which G makes of the value before.
Steps(D, n) == [D \X (1 .. n) -> D]
Built(f, D, a, n, G) ==
  f \in [0 .. n -> D] /\ f[0] = a /\ \A i \in 1 .. n : f[i] = G[<<f[i - 1], i>>]

\* Such a function exists.
LEMMA Recursion ==
  ASSUME NEW D, NEW a \in D, NEW n \in Nat, NEW G \in Steps(D, n)
  PROVE  \E f : Built(f, D, a, n, G)
<1> DEFINE S == {k \in Nat : k <= n => \E f : Built(f, D, a, k, G)}
<1>1. 0 \in S
  <2>1. Built([i \in 0 .. 0 |-> a], D, a, 0, G)
    BY DEF Built
  <2> QED BY <2>1
<1>2. ASSUME NEW k \in Nat, k \in S PROVE k + 1 \in S
  <2> SUFFICES ASSUME k + 1 <= n PROVE \E f : Built(f, D, a, k + 1, G)
    OBVIOUS
  <2>1. PICK f : Built(f, D, a, k, G)
    BY <1>2
  <2>2. f[k] \in D /\ k + 1 \in 1 .. n
    BY <2>1 DEF Built
  <2> DEFINE v == G[<<f[k], k + 1>>]
             g == [i \in 0 .. k + 1 |-> IF i = k + 1 THEN v ELSE f[i]]
  <2>3. v \in D
    BY <2>2 DEF Steps
  <2> HIDE DEF v
  <2>4. g \in [0 .. k + 1 -> D]
    BY <2>1, <2>3 DEF Built
  <2>5. g[0] = a
    BY <2>1 DEF Built
  <2>6. ASSUME NEW i \in 1 .. k + 1 PROVE g[i] = G[<<g[i - 1], i>>]
    <3>1. CASE i = k + 1
      <4>1. g[i] = v /\ g[i - 1] = f[k]
        BY <3>1
      <4> QED BY <3>1, <4>1 DEF v
    <3>2. CASE i # k + 1
      <4>1. i \in 1 .. k /\ i \in 0 .. k + 1 /\ i - 1 \in 0 .. k + 1 /\ i - 1 # k + 1
        BY <3>2
      <4>2. g[i] = f[i] /\ g[i - 1] = f[i - 1]
        BY <3>2, <4>1
      <4> QED BY <2>1, <4>1, <4>2 DEF Built
    <3> QED BY <3>1, <3>2
  <2>7. Built(g, D, a, k + 1, G)
    BY <2>4, <2>5, <2>6 DEF Built
  <2> QED BY <2>7
<1>3. n \in S
  BY <1>1, <1>2, SetInduction
<1> QED BY <1>3

\* Whatever starts at a and goes on as G says is that function.
Follows(g, D, a, n, G) ==
  g[0] = a /\ \A i \in 1 .. n : g[i - 1] \in D => g[i] = G[<<g[i - 1], i>>]

LEMMA OneRecursion ==
  ASSUME NEW D, NEW a \in D, NEW n \in Nat, NEW G \in Steps(D, n),
         NEW f, Built(f, D, a, n, G), NEW g, Follows(g, D, a, n, G)
  PROVE  \A i \in 0 .. n : g[i] = f[i]
<1> DEFINE S == {k \in Nat : k <= n => g[k] = f[k]}
<1>1. 0 \in S
  BY DEF Built, Follows
<1>2. ASSUME NEW k \in Nat, k \in S PROVE k + 1 \in S
  <2> SUFFICES ASSUME k + 1 <= n PROVE g[k + 1] = f[k + 1]
    OBVIOUS
  <2> DEFINE j == k + 1
  <2>1. j \in 1 .. n /\ j - 1 = k /\ k \in 0 .. n
    OBVIOUS
  <2>2. g[k] = f[k] /\ f[k] \in D
    BY <1>2, <2>1 DEF Built
  <2> HIDE DEF j
  <2>3. f[j] = G[<<f[j - 1], j>>] /\ g[j] = G[<<g[j - 1], j>>]
    BY <2>1, <2>2 DEF Built, Follows
  <2>4. g[j] = f[j]
    BY <2>1, <2>2, <2>3
  <2> QED BY <2>4 DEF j
<1>3. \A k \in Nat : k \in S
  BY <1>1, <1>2, SetInduction
<1> QED BY <1>3

-----------------------------------------------------------------------------
\* Pieces of text over the characters C.
Valued(P, C) == \A x \in P : x.value \in Seq(C)

\* TextOf joins the pieces from the first to the last.
LEMMA TextJoined ==
  ASSUME NEW C, NEW P, Valued(P, C), NEW p \in Seq(P)
  PROVE  \E f \in [0 .. Len(p) -> Seq(C)] :
           /\ f[0] = <<>> /\ \A i \in 1 .. Len(p) : f[i] = f[i - 1] \o p[i].value
           /\ TextOf(p) = f[Len(p)]
<1> DEFINE n == Len(p)
           D == Seq(C)
           a == <<>>
           G == [z \in D \X (1 .. n) |-> z[1] \o p[z[2]].value]
           J(x, i) == x \o p[i].value
           F(f) == [i \in 0 .. n |-> IF i = 0 THEN a ELSE J(f[i - 1], i)]
           join == CHOOSE f : f = F(f)
<1>1. G \in Steps(D, n) /\ n \in Nat /\ a \in D
  <2>1. ASSUME NEW z \in D \X (1 .. n) PROVE z[1] \o p[z[2]].value \in D
    <3>1. p[z[2]] \in P
      OBVIOUS
    <3> QED BY <3>1 DEF Valued
  <2> QED BY <2>1 DEF Steps
<1>2. PICK f : Built(f, D, a, n, G)
  <2> HIDE DEF G, D, n, a
  <2> QED BY <1>1, Recursion
<1>3. \A x \in D, i \in 1 .. n : G[<<x, i>>] = J(x, i)
  OBVIOUS
<1> HIDE DEF G
<1>4. /\ f \in [0 .. n -> D] /\ f[0] = a
      /\ \A i \in 1 .. n : f[i] = J(f[i - 1], i)
  <2> HIDE DEF D, n, J
  <2>1. f \in [0 .. n -> D] /\ f[0] = a
    BY <1>2 DEF Built
  <2>2. ASSUME NEW i \in 1 .. n PROVE f[i] = J(f[i - 1], i)
    <3>1. f[i - 1] \in D
      BY <1>1, <2>1
    <3>2. f[i] = G[<<f[i - 1], i>>]
      BY <1>2 DEF Built
    <3> QED BY <1>3, <3>1, <3>2
  <2> QED BY <2>1, <2>2
<1>5. f = F(f)
  <2> HIDE DEF D, n, a, J
  <2> QED BY <1>1, <1>4
<1>6. join = F(join)
  BY <1>5
<1>7. TextOf(p) = join[n]
  BY DEF TextOf, join
<1> HIDE DEF join
<1>8. Follows(join, D, a, n, G)
  <2> HIDE DEF D, n, a, J
  <2> QED BY <1>1, <1>3, <1>6 DEF Follows
<1>9. \A i \in 0 .. n : join[i] = f[i]
  <2> HIDE DEF D, n, a
  <2> QED BY <1>1, <1>2, <1>8, OneRecursion
<1>10. TextOf(p) = f[n]
  BY <1>1, <1>7, <1>9
<1> QED BY <1>4, <1>10

LEMMA TextEmpty == TextOf(<<>>) = <<>>
<1>1. Valued({}, {}) /\ <<>> \in Seq({})
  BY DEF Valued
<1>2. PICK f \in [0 .. Len(<<>>) -> Seq({})] : f[0] = <<>> /\ TextOf(<<>>) = f[Len(<<>>)]
  BY <1>1, TextJoined
<1> QED BY <1>2

\* A piece more at the end is its value more at the end.
LEMMA TextAppend ==
  ASSUME NEW C, NEW P, Valued(P, C), NEW p \in Seq(P), NEW x \in P
  PROVE  /\ TextOf(p) \in Seq(C)
         /\ TextOf(Append(p, x)) = TextOf(p) \o x.value
<1> DEFINE q == Append(p, x)
           n == Len(p)
<1>1. /\ q \in Seq(P) /\ n \in Nat /\ Len(q) = n + 1 /\ q[n + 1] = x
      /\ \A i \in 1 .. n : q[i] = p[i]
  OBVIOUS
<1> HIDE DEF q
<1>2. PICK f \in [0 .. n -> Seq(C)] :
        /\ f[0] = <<>> /\ \A i \in 1 .. n : f[i] = f[i - 1] \o p[i].value
        /\ TextOf(p) = f[n]
  BY TextJoined
<1>3. PICK g \in [0 .. n + 1 -> Seq(C)] :
        /\ g[0] = <<>> /\ \A i \in 1 .. n + 1 : g[i] = g[i - 1] \o q[i].value
        /\ TextOf(q) = g[n + 1]
  <2>1. PICK g \in [0 .. Len(q) -> Seq(C)] :
          /\ g[0] = <<>> /\ \A i \in 1 .. Len(q) : g[i] = g[i - 1] \o q[i].value
          /\ TextOf(q) = g[Len(q)]
    BY <1>1, TextJoined
  <2> QED BY <1>1, <2>1
<1> DEFINE S == {k \in Nat : k <= n => f[k] = g[k]}
<1>4. 0 \in S
  BY <1>2, <1>3
<1>5. ASSUME NEW k \in Nat, k \in S PROVE k + 1 \in S
  <2> SUFFICES ASSUME k + 1 <= n PROVE f[k + 1] = g[k + 1]
    OBVIOUS
  <2> DEFINE j == k + 1
  <2>1. j \in 1 .. n /\ j \in 1 .. n + 1 /\ j - 1 = k
    BY <1>1
  <2>2. f[k] = g[k]
    BY <1>1, <1>5
  <2> HIDE DEF j
  <2>3. f[j] = f[j - 1] \o p[j].value /\ g[j] = g[j - 1] \o q[j].value /\ q[j] = p[j]
    BY <1>1, <1>2, <1>3, <2>1
  <2>4. f[j] = g[j]
    BY <2>1, <2>2, <2>3
  <2> QED BY <2>4 DEF j
<1>6. n \in S
  BY <1>1, <1>4, <1>5, SetInduction
<1>7. g[n + 1] = g[n] \o q[n + 1].value
  <2> DEFINE j == n + 1
  <2>1. j \in 1 .. n + 1 /\ j - 1 = n
    BY <1>1
  <2> HIDE DEF j
  <2>2. g[j] = g[j - 1] \o q[j].value
    BY <1>3, <2>1
  <2> QED BY <2>1, <2>2 DEF j
<1>8. g[n] = f[n]
  BY <1>1, <1>6
<1>9. TextOf(q) = TextOf(p) \o x.value
  BY <1>1, <1>2, <1>3, <1>7, <1>8
<1> QED BY <1>1, <1>2, <1>9 DEF q

LEMMA AdvanceType ==
  ASSUME NEW at \in Position, NEW c
  PROVE  Advance(at, c) \in Position
BY DEF Advance, Position

\* RangeEnd advances over the characters from the first to the last.
LEMMA RangeWalked ==
  ASSUME NEW from \in Position, NEW C, NEW v \in Seq(C)
  PROVE  \E f \in [0 .. Len(v) -> Position] :
           /\ f[0] = from /\ \A i \in 1 .. Len(v) : f[i] = Advance(f[i - 1], v[i])
           /\ RangeEnd(from, v) = f[Len(v)]
<1> DEFINE n == Len(v)
           G == [z \in Position \X (1 .. n) |-> Advance(z[1], v[z[2]])]
           F(f) == [i \in 0 .. Len(v) |-> IF i = 0 THEN from ELSE Advance(f[i - 1], v[i])]
           end == CHOOSE f : f = F(f)
<1>1. G \in Steps(Position, n) /\ n \in Nat
  <2>1. ASSUME NEW z \in Position \X (1 .. n) PROVE Advance(z[1], v[z[2]]) \in Position
    BY AdvanceType
  <2> QED BY <2>1 DEF Steps
<1>2. PICK f : Built(f, Position, from, n, G)
  <2> HIDE DEF G, n
  <2> QED BY <1>1, Recursion
<1>3. \A x \in Position, i \in 1 .. n : G[<<x, i>>] = Advance(x, v[i])
  OBVIOUS
<1> HIDE DEF G
<1>4. /\ f \in [0 .. n -> Position] /\ f[0] = from
      /\ \A i \in 1 .. n : f[i] = Advance(f[i - 1], v[i])
  <2> HIDE DEF n
  <2>1. f \in [0 .. n -> Position] /\ f[0] = from
    BY <1>2 DEF Built
  <2>2. ASSUME NEW i \in 1 .. n PROVE f[i] = Advance(f[i - 1], v[i])
    <3>1. f[i - 1] \in Position
      BY <1>1, <2>1
    <3>2. f[i] = G[<<f[i - 1], i>>]
      BY <1>2 DEF Built
    <3> QED BY <1>3, <3>1, <3>2
  <2> QED BY <2>1, <2>2
<1>5. f = F(f)
  BY <1>1, <1>4
<1>6. end = F(end)
  BY <1>5
<1>7. RangeEnd(from, v) = end[n]
  BY DEF RangeEnd, end
<1> HIDE DEF end
<1>8. Follows(end, Position, from, n, G)
  BY <1>3, <1>6 DEF Follows
<1>9. \A i \in 0 .. n : end[i] = f[i]
  <2> HIDE DEF n
  <2> QED BY <1>1, <1>2, <1>8, OneRecursion
<1>10. RangeEnd(from, v) = f[n]
  BY <1>1, <1>7, <1>9
<1> QED BY <1>4, <1>10

LEMMA RangeEndType ==
  ASSUME NEW from \in Position, NEW C, NEW v \in Seq(C)
  PROVE  RangeEnd(from, v) \in Position
BY RangeWalked

\* Within a line, columns count characters.
LEMMA RangeInLine ==
  ASSUME NEW from \in Position, NEW C, NEW v \in Seq(C), OneLine(v)
  PROVE  RangeEnd(from, v) = [line |-> from.line, col |-> from.col + Len(v)]
<1> DEFINE n == Len(v)
<1>1. PICK f \in [0 .. n -> Position] :
           /\ f[0] = from /\ \A i \in 1 .. n : f[i] = Advance(f[i - 1], v[i])
           /\ RangeEnd(from, v) = f[n]
  BY RangeWalked
<1>2. n \in Nat
  OBVIOUS
<1> DEFINE At(k) == [line |-> from.line, col |-> from.col + k]
           S == {k \in Nat : k <= n => f[k] = At(k)}
<1>3. 0 \in S
  BY <1>1 DEF Position
<1>4. ASSUME NEW k \in Nat, k \in S PROVE k + 1 \in S
  <2> SUFFICES ASSUME k + 1 <= n PROVE f[k + 1] = At(k + 1)
    OBVIOUS
  <2>1. f[k] = At(k)
    BY <1>2, <1>4
  <2>2. Advance(At(k), v[k + 1]) = At(k + 1)
    BY <1>2 DEF Advance, OneLine, Position
  <2> DEFINE j == k + 1
  <2>3. j \in 1 .. n /\ j - 1 = k
    BY <1>2
  <2> HIDE DEF j
  <2>4. f[j] = Advance(f[j - 1], v[j])
    BY <1>1, <2>3
  <2> QED BY <2>1, <2>2, <2>3, <2>4 DEF j
<1>5. n \in S
  BY <1>2, <1>3, <1>4, SetInduction
<1> QED BY <1>1, <1>2, <1>5

-----------------------------------------------------------------------------
(* The scanner. *)

BufferSet(C) == [value : Seq(C), ws : BOOLEAN, op : BOOLEAN, from : Position]
TokenSet(C)  == [value : Seq(C) \ {<<>>}, index : Int, level : Int, isWord : BOOLEAN, isComment : BOOLEAN,
                 isJinja : BOOLEAN, from : Position, to : Position]
ScanSet(C)   == [tokens : Seq(TokenSet(C)), cur : BufferSet(C), at : Position, index : Int,
                 mode : Modes, was : Modes, level : Int]

\* What has been read: the tokens, and the one that is open.
ReadText(s) == TextOf(s.tokens) \o s.cur.value

LEMMA TokensValued == ASSUME NEW C PROVE Valued(TokenSet(C), C)
BY DEF Valued, TokenSet

LEMMA FreshBuffer ==
  ASSUME NEW C, NEW at \in Position
  PROVE  Fresh(at) \in BufferSet(C) /\ Fresh(at).value = <<>> /\ Fresh(at).from = at
BY DEF Fresh, BufferSet

LEMMA AddBuffer ==
  ASSUME NEW C, NEW token \in BufferSet(C), NEW c \in C
  PROVE  /\ Add(token, c) \in BufferSet(C)
         /\ Add(token, c).value = Append(token.value, c)
         /\ Add(token, c).from = token.from
<1>1. /\ Append(token.value, c) \in Seq(C)
      /\ (c \in WhiteSpace /\ (token.ws \/ token.value = <<>>)) \in BOOLEAN
      /\ (c \in Operator /\ (token.op \/ token.value = <<>>)) \in BOOLEAN
  BY DEF BufferSet
<1> QED BY <1>1 DEF Add, BufferSet

LEMMA Finalized ==
  ASSUME NEW C, NEW s \in ScanSet(C), s.cur.value # <<>>
  PROVE  /\ Finalize(s) \in TokenSet(C) /\ Finalize(s).value = s.cur.value
         /\ Finalize(s).index = s.index /\ Finalize(s).from = s.cur.from
         /\ Finalize(s).to = RangeEnd(s.cur.from, s.cur.value)
<1>1. s.cur \in BufferSet(C) /\ s.index \in Int /\ s.level \in Int
  BY DEF ScanSet
<1>2. s.cur.from \in Position /\ s.cur.value \in Seq(C)
  BY <1>1 DEF BufferSet
<1>3. RangeEnd(s.cur.from, s.cur.value) \in Position
  BY <1>2, RangeEndType
<1>4. IsWord(s.cur) \in BOOLEAN
  BY DEF IsWord
<1> QED BY <1>1, <1>2, <1>3, <1>4 DEF Finalize, TokenSet

LEMMA TextTyped ==
  ASSUME NEW C, NEW P, Valued(P, C), NEW p \in Seq(P)
  PROVE  TextOf(p) \in Seq(C)
<1>1. PICK f \in [0 .. Len(p) -> Seq(C)] : TextOf(p) = f[Len(p)]
  BY TextJoined
<1>2. Len(p) \in 0 .. Len(p)
  OBVIOUS
<1> QED BY <1>1, <1>2

\* With no token open, the tokens are what has been read.
LEMMA EmptyOpen ==
  ASSUME NEW C, NEW s \in ScanSet(C), s.cur.value = <<>>
  PROVE  ReadText(s) = TextOf(s.tokens)
<1>1. TextOf(s.tokens) \in Seq(C)
  BY TokensValued, TextTyped DEF ScanSet
<1> QED BY <1>1 DEF ReadText

\* addToken pushes the open token, unless it is empty, and loses nothing.
LEMMA TokenAdded ==
  ASSUME NEW C, NEW s \in ScanSet(C)
  PROVE  /\ AddToken(s) \in ScanSet(C)
         /\ AddToken(s).cur.value = <<>> /\ AddToken(s).cur.from = s.at
         /\ AddToken(s).tokens = IF s.cur.value = <<>> THEN s.tokens ELSE Append(s.tokens, Finalize(s))
         /\ AddToken(s).at = s.at /\ AddToken(s).index = s.index /\ AddToken(s).mode = s.mode
         /\ AddToken(s).was = s.was /\ AddToken(s).level = s.level
         /\ TextOf(AddToken(s).tokens) = ReadText(s)
<1>1. /\ s.tokens \in Seq(TokenSet(C)) /\ s.cur \in BufferSet(C) /\ s.at \in Position
      /\ s.cur.value \in Seq(C)
  BY DEF ScanSet, BufferSet
<1> DEFINE ts == IF s.cur.value = <<>> THEN s.tokens ELSE Append(s.tokens, Finalize(s))
<1>2. ts \in Seq(TokenSet(C))
  BY <1>1, Finalized
<1>3. TextOf(ts) = ReadText(s)
  <2>1. TextOf(s.tokens) \in Seq(C)
    BY <1>1, TokensValued, TextTyped
  <2>2. CASE s.cur.value = <<>>
    BY <2>1, <2>2 DEF ReadText
  <2>3. CASE s.cur.value # <<>>
    <3>1. Finalize(s) \in TokenSet(C) /\ Finalize(s).value = s.cur.value
      BY <2>3, Finalized
    <3>2. TextOf(Append(s.tokens, Finalize(s))) = TextOf(s.tokens) \o s.cur.value
      <4> DEFINE p == s.tokens
                 x == Finalize(s)
                 P == TokenSet(C)
      <4>1. p \in Seq(P) /\ x \in P /\ Valued(P, C)
        BY <1>1, <3>1, TokensValued
      <4>2. TextOf(Append(p, x)) = TextOf(p) \o x.value
        <5> HIDE DEF p, x, P
        <5> QED BY <4>1, TextAppend, Zenon
      <4> QED BY <3>1, <4>2
    <3> QED BY <2>3, <3>2 DEF ReadText
  <2> QED BY <2>2, <2>3
<1>4. AddToken(s) = [s EXCEPT !.tokens = ts, !.cur = Fresh(s.at)]
  BY DEF AddToken
<1> HIDE DEF ts
<1>5. Fresh(s.at) \in BufferSet(C) /\ Fresh(s.at).value = <<>> /\ Fresh(s.at).from = s.at
  BY <1>1, FreshBuffer
<1>6. /\ AddToken(s) \in ScanSet(C) /\ AddToken(s).cur = Fresh(s.at) /\ AddToken(s).tokens = ts
      /\ AddToken(s).at = s.at /\ AddToken(s).index = s.index /\ AddToken(s).mode = s.mode
      /\ AddToken(s).was = s.was /\ AddToken(s).level = s.level
  BY <1>2, <1>4, <1>5 DEF ScanSet
<1> QED BY <1>3, <1>5, <1>6 DEF ts

LEMMA AppendOpen ==
  ASSUME NEW C, NEW u \in Seq(C), NEW v \in Seq(C), NEW c \in C
  PROVE  u \o Append(v, c) = Append(u \o v, c)
<1>1. <<c>> \in Seq(C) /\ u \o v \in Seq(C)
  OBVIOUS
<1>2. Append(v, c) = v \o <<c>> /\ Append(u \o v, c) = (u \o v) \o <<c>>
  BY <1>1, AppendIsConcat
<1>3. u \o (v \o <<c>>) = (u \o v) \o <<c>>
  BY <1>1, ConcatAssociative
<1> QED BY <1>2, <1>3

LEMMA CharacterTaken ==
  ASSUME NEW C, NEW s \in ScanSet(C), NEW c \in C, NEW r, r = [s EXCEPT !.cur = Add(@, c)]
  PROVE  /\ r \in ScanSet(C) /\ r.tokens = s.tokens /\ r.at = s.at /\ r.index = s.index
         /\ r.mode = s.mode /\ r.cur.value = Append(s.cur.value, c) /\ r.cur.from = s.cur.from
         /\ ReadText(r) = Append(ReadText(s), c)
<1>1. s.cur \in BufferSet(C) /\ s.cur.value \in Seq(C) /\ s.tokens \in Seq(TokenSet(C))
  BY DEF ScanSet, BufferSet
<1>2. /\ Add(s.cur, c) \in BufferSet(C) /\ Add(s.cur, c).value = Append(s.cur.value, c)
      /\ Add(s.cur, c).from = s.cur.from
  BY <1>1, AddBuffer
<1>3. /\ r \in ScanSet(C) /\ r.tokens = s.tokens /\ r.at = s.at /\ r.index = s.index
      /\ r.mode = s.mode /\ r.cur = Add(s.cur, c)
  BY <1>2 DEF ScanSet
<1>4. TextOf(s.tokens) \in Seq(C)
  BY <1>1, TokensValued, TextTyped
<1>5. TextOf(s.tokens) \o Append(s.cur.value, c) = Append(TextOf(s.tokens) \o s.cur.value, c)
  <2> DEFINE u == TextOf(s.tokens)
             v == s.cur.value
  <2>1. u \in Seq(C) /\ v \in Seq(C)
    BY <1>1, <1>4
  <2> HIDE DEF u, v
  <2>2. u \o Append(v, c) = Append(u \o v, c)
    BY <2>1, AppendOpen
  <2> QED BY <2>2 DEF u, v
<1>6. ReadText(r) = Append(ReadText(s), c)
  BY <1>2, <1>3, <1>5 DEF ReadText
<1> QED BY <1>2, <1>3, <1>6

\* A turn of the loop reads its character, and the last one leaves no token open.
LEMMA TurnReads ==
  ASSUME NEW C, NEW s \in ScanSet(C), NEW w, w.c \in C, NEW m \in Modes, NEW level \in Int,
         NEW closes, NEW last, NEW r, r = Turn(s, w, m, level, closes, last)
  PROVE  /\ r \in ScanSet(C) /\ r.mode = m /\ r.at = Advance(s.at, w.c)
         /\ ReadText(r) = Append(ReadText(s), w.c)
         /\ last => r.cur.value = <<>>
<1> DEFINE read == [s EXCEPT !.at = Advance(@, w.c), !.index = Len(s.tokens),
                             !.mode = m, !.level = level,
                             !.was = IF s.mode # m THEN s.mode ELSE "none"]
           Apart == \/ (s.mode \in CommentModes) # (m \in CommentModes)
                    \/ (s.mode = "jinja") # (m = "jinja")
           a     == IF Apart THEN AddToken(read) ELSE read
           taken == [a EXCEPT !.cur = Add(@, w.c)]
<1>1. /\ read \in ScanSet(C) /\ read.tokens = s.tokens /\ read.cur = s.cur
      /\ read.at = Advance(s.at, w.c) /\ read.index = Len(s.tokens) /\ read.mode = m
  <2>1. Advance(s.at, w.c) \in Position /\ Len(s.tokens) \in Int
    BY AdvanceType DEF ScanSet
  <2>2. s.mode \in Modes /\ "none" \in Modes
    BY DEF ScanSet, Modes
  <2> QED BY <2>1, <2>2 DEF ScanSet
<1>2. r = IF EndsToken(m, w, closes, last) THEN AddToken(taken) ELSE taken
  BY DEF Turn
<1> HIDE DEF read, Apart
<1>3. /\ a \in ScanSet(C) /\ a.at = read.at /\ a.mode = m /\ ReadText(a) = ReadText(s)
  <2>1. ReadText(read) = ReadText(s)
    BY <1>1 DEF ReadText
  <2>2. CASE Apart
    <3>1. /\ AddToken(read) \in ScanSet(C) /\ AddToken(read).cur.value = <<>>
          /\ AddToken(read).at = read.at /\ AddToken(read).mode = m
          /\ TextOf(AddToken(read).tokens) = ReadText(read)
      BY <1>1, TokenAdded
    <3>2. ReadText(AddToken(read)) = ReadText(read)
      BY <3>1, EmptyOpen
    <3> QED BY <2>1, <2>2, <3>1, <3>2
  <2>3. CASE ~Apart
    BY <1>1, <2>1, <2>3
  <2> QED BY <2>2, <2>3
<1> HIDE DEF a
<1>4. /\ taken \in ScanSet(C) /\ taken.at = a.at /\ taken.mode = m
      /\ ReadText(taken) = Append(ReadText(a), w.c)
  <2>1. a \in ScanSet(C)
    BY <1>3
  <2>2. /\ taken \in ScanSet(C) /\ taken.at = a.at /\ taken.mode = a.mode
        /\ ReadText(taken) = Append(ReadText(a), w.c)
    BY <2>1, CharacterTaken
  <2> QED BY <1>3, <2>2
<1> HIDE DEF taken
<1>5. /\ AddToken(taken) \in ScanSet(C) /\ AddToken(taken).cur.value = <<>>
      /\ AddToken(taken).at = taken.at /\ AddToken(taken).mode = taken.mode
      /\ TextOf(AddToken(taken).tokens) = ReadText(taken)
  BY <1>4, TokenAdded
<1>6. ReadText(AddToken(taken)) = ReadText(taken)
  BY <1>5, EmptyOpen
<1>7. /\ r \in ScanSet(C) /\ r.mode = m /\ r.at = Advance(s.at, w.c)
      /\ ReadText(r) = Append(ReadText(s), w.c)
  BY <1>1, <1>2, <1>3, <1>4, <1>5, <1>6
<1>8. last => r.cur.value = <<>>
  BY <1>2, <1>5 DEF EndsToken
<1> QED BY <1>7, <1>8

-----------------------------------------------------------------------------
(* The modes. *)

LineModes == {"none", "double", "tick", "bracket"}

LEMMA PairMode ==
  ASSUME NEW S, NEW m \in S, NEW c, NEW open, NEW close, NEW name \in S, "none" \in S
  PROVE  Pair(m, c, open, close, name) \in S
BY DEF Pair

LEMMA NameQuotesMode ==
  ASSUME NEW S, LineModes \subseteq S, NEW m \in S, NEW c
  PROVE  NameQuotes(m, c) \in S
<1>1. "none" \in S /\ "double" \in S /\ "tick" \in S /\ "bracket" \in S
  BY DEF LineModes
<1>2. DoubleQuotes(m, c) \in S
  BY <1>1, PairMode DEF DoubleQuotes
<1>3. BackTickQuotes(DoubleQuotes(m, c), c) \in S
  BY <1>1, <1>2, PairMode DEF BackTickQuotes
<1>4. BracketQuotes(BackTickQuotes(DoubleQuotes(m, c), c), c) \in S
  BY <1>1, <1>3, PairMode DEF BracketQuotes
<1> QED BY <1>4 DEF NameQuotes

LEMMA ModeSteps ==
  ASSUME NEW m \in Modes, NEW w, NEW closed
  PROVE  /\ Jinja(m, w, closed) \in Modes /\ Comment(m, w, closed) \in Modes
         /\ Quotes(m, w.c) \in Modes
<1>1. /\ "none" \in Modes /\ "jinja" \in Modes /\ "line" \in Modes /\ "multi" \in Modes
      /\ "single" \in Modes /\ "escaped" \in Modes
  BY DEF Modes, CommentModes, QuoteModes
<1>2. Jinja(m, w, closed) \in Modes
  BY <1>1 DEF Jinja
<1>3. Comment(m, w, closed) \in Modes
  BY <1>1 DEF Comment
<1>4. Quotes(m, w.c) \in Modes
  BY <1>1 DEF Quotes
<1> QED BY <1>2, <1>3, <1>4

LEMMA TextModeType ==
  ASSUME NEW m \in Modes, NEW w
  PROVE  TextMode(m, w) \in Modes
<1> DEFINE a == Jinja(m, w, w.pp = "}" /\ w.p = "}")
           b == Comment(a, w, w.pp = "*" /\ w.p = "/")
           d == Quotes(b, w.c)
<1>1. a \in Modes
  BY ModeSteps
<1> HIDE DEF a
<1>2. b \in Modes
  BY <1>1, ModeSteps
<1> HIDE DEF b
<1>3. d \in Modes
  BY <1>2, ModeSteps
<1> HIDE DEF d
<1>4. LineModes \subseteq Modes
  BY DEF LineModes, Modes, QuoteModes
<1>5. NameQuotes(d, w.c) \in Modes
  BY <1>3, <1>4, NameQuotesMode
<1> QED BY <1>5 DEF TextMode, a, b, d

LEMMA LineModeType ==
  ASSUME NEW m \in LineModes, NEW w
  PROVE  LineMode(m, w) \in LineModes
BY NameQuotesMode DEF LineMode

LEMMA DeltaType == ASSUME NEW m, NEW c PROVE Delta(m, c) \in Int
BY DEF Delta

LEMMA StartType ==
  ASSUME NEW C
  PROVE  Start \in ScanSet(C) /\ ReadText(Start) = <<>>
<1>1. [line |-> 1, col |-> 1] \in Position /\ "none" \in Modes
  BY DEF Position, Modes
<1>2. Fresh([line |-> 1, col |-> 1]) \in BufferSet(C) /\ Fresh([line |-> 1, col |-> 1]).value = <<>>
  BY <1>1, FreshBuffer
<1>3. Start \in ScanSet(C) /\ Start.tokens = <<>> /\ Start.cur.value = <<>>
  BY <1>1, <1>2 DEF Start, ScanSet
<1> QED BY <1>3, TextEmpty, EmptyOpen

LEMMA WindowOfText ==
  ASSUME NEW C, NEW t \in Seq(C), NEW i \in 1 .. Len(t)
  PROVE  Window(t, i).c = t[i] /\ t[i] \in C
<1>1. i \in DOMAIN t /\ t[i] \in C
  OBVIOUS
<1>2. Window(t, i).c = Char(t, i)
  BY DEF Window
<1> QED BY <1>1, <1>2 DEF Char

-----------------------------------------------------------------------------
(* The text and its tokens. *)

TextTurn(s, t, i) ==
  LET w == Window(t, i)
      m == TextMode(s.mode, w)
  IN  Turn(s, w, m, s.level + Delta(m, w.c), w.c = "/" /\ w.p = "*", i = Len(t))

LEMMA TextTurnReads ==
  ASSUME NEW C, NEW t \in Seq(C), NEW i \in 1 .. Len(t), NEW s \in ScanSet(C)
  PROVE  /\ TextTurn(s, t, i) \in ScanSet(C)
         /\ ReadText(TextTurn(s, t, i)) = Append(ReadText(s), t[i])
         /\ i = Len(t) => TextTurn(s, t, i).cur.value = <<>>
<1> DEFINE w == Window(t, i)
           m == TextMode(s.mode, w)
           level == s.level + Delta(m, w.c)
           closes == w.c = "/" /\ w.p = "*"
           last == i = Len(t)
<1>1. w.c \in C /\ w.c = t[i]
  BY WindowOfText
<1>2. m \in Modes /\ level \in Int
  BY TextModeType, DeltaType DEF ScanSet
<1>3. TextTurn(s, t, i) = Turn(s, w, m, level, closes, last)
  BY DEF TextTurn
<1> HIDE DEF w, m, level, closes, last
<1>4. /\ Turn(s, w, m, level, closes, last) \in ScanSet(C)
      /\ ReadText(Turn(s, w, m, level, closes, last)) = Append(ReadText(s), w.c)
      /\ last => Turn(s, w, m, level, closes, last).cur.value = <<>>
  BY <1>1, <1>2, TurnReads
<1> QED BY <1>1, <1>3, <1>4 DEF last

\* The scan of a text from its start, turn by turn.
LEMMA TextScanned ==
  ASSUME NEW C, NEW t \in Seq(C)
  PROVE  \E f \in [0 .. Len(t) -> ScanSet(C)] :
           /\ f[0] = Start /\ \A i \in 1 .. Len(t) : f[i] = TextTurn(f[i - 1], t, i)
           /\ Tokenize(t) = f[Len(t)].tokens
<1> DEFINE n == Len(t)
           D == ScanSet(C)
           G == [z \in D \X (1 .. n) |-> TextTurn(z[1], t, z[2])]
           F(f) == [i \in 0 .. Len(t) |-> IF i = 0 THEN Start ELSE TextTurn(f[i - 1], t, i)]
           scan == CHOOSE f : f = F(f)
<1>1. G \in Steps(D, n) /\ n \in Nat /\ Start \in D
  <2>1. ASSUME NEW z \in D \X (1 .. n) PROVE TextTurn(z[1], t, z[2]) \in D
    BY TextTurnReads
  <2> QED BY <2>1, StartType DEF Steps
<1>2. PICK f : Built(f, D, Start, n, G)
  <2> HIDE DEF G, D, n
  <2> QED BY <1>1, Recursion
<1>3. \A x \in D, i \in 1 .. n : G[<<x, i>>] = TextTurn(x, t, i)
  OBVIOUS
<1> HIDE DEF G
<1>4. /\ f \in [0 .. n -> D] /\ f[0] = Start
      /\ \A i \in 1 .. n : f[i] = TextTurn(f[i - 1], t, i)
  <2> HIDE DEF D
  <2>1. f \in [0 .. n -> D] /\ f[0] = Start
    BY <1>2 DEF Built
  <2>2. ASSUME NEW i \in 1 .. n PROVE f[i] = TextTurn(f[i - 1], t, i)
    <3>1. f[i - 1] \in D
      BY <1>1, <2>1
    <3>2. f[i] = G[<<f[i - 1], i>>]
      BY <1>2 DEF Built
    <3> QED BY <1>3, <3>1, <3>2
  <2> QED BY <2>1, <2>2
<1>5. f = F(f)
  <2> HIDE DEF D
  <2> QED BY <1>1, <1>4
<1>6. scan = F(scan)
  BY <1>5
<1>7. Tokenize(t) = scan[n].tokens
  BY DEF Tokenize, TextTurn
<1> HIDE DEF scan
<1>8. Follows(scan, D, Start, n, G)
  <2> HIDE DEF D
  <2> QED BY <1>3, <1>6 DEF Follows
<1>9. \A i \in 0 .. n : scan[i] = f[i]
  <2> HIDE DEF D, n
  <2> QED BY <1>1, <1>2, <1>8, OneRecursion
<1>10. Tokenize(t) = f[n].tokens
  BY <1>1, <1>7, <1>9
<1> QED BY <1>4, <1>10

LEMMA Prefixes ==
  ASSUME NEW C, NEW t \in Seq(C)
  PROVE  /\ SubSeq(t, 1, 0) = <<>> /\ SubSeq(t, 1, Len(t)) = t
         /\ \A k \in Nat : k + 1 <= Len(t) =>
              SubSeq(t, 1, k + 1) = Append(SubSeq(t, 1, k), t[k + 1])
OBVIOUS

\* The tokens of a text are all of it.
LEMMA TokenizeReads ==
  ASSUME NEW C, NEW t \in Seq(C)
  PROVE  TextOf(Tokenize(t)) = t /\ Tokenize(t) \in Seq(TokenSet(C))
<1> DEFINE n == Len(t)
<1>1. PICK f \in [0 .. n -> ScanSet(C)] :
           /\ f[0] = Start /\ \A i \in 1 .. n : f[i] = TextTurn(f[i - 1], t, i)
           /\ Tokenize(t) = f[n].tokens
  BY TextScanned
<1>2. n \in Nat
  OBVIOUS
<1> DEFINE S == {k \in Nat : k <= n => ReadText(f[k]) = SubSeq(t, 1, k)}
<1>3. 0 \in S
  BY <1>1, StartType, Prefixes
<1>4. ASSUME NEW k \in Nat, k \in S PROVE k + 1 \in S
  <2> SUFFICES ASSUME k + 1 <= n PROVE ReadText(f[k + 1]) = SubSeq(t, 1, k + 1)
    OBVIOUS
  <2> DEFINE j == k + 1
  <2>1. j \in 1 .. n /\ j - 1 = k /\ f[k] \in ScanSet(C)
    BY <1>1, <1>2
  <2>2. ReadText(f[k]) = SubSeq(t, 1, k) /\ SubSeq(t, 1, j) = Append(SubSeq(t, 1, k), t[j])
    BY <1>2, <1>4, Prefixes
  <2> HIDE DEF j
  <2>3. f[j] = TextTurn(f[k], t, j)
    BY <1>1, <2>1
  <2>4. ReadText(TextTurn(f[k], t, j)) = Append(ReadText(f[k]), t[j])
    BY <2>1, TextTurnReads
  <2>5. ReadText(f[j]) = SubSeq(t, 1, j)
    BY <2>2, <2>3, <2>4
  <2> QED BY <2>5 DEF j
<1>5. n \in S
  BY <1>2, <1>3, <1>4, SetInduction
<1>6. ReadText(f[n]) = t /\ f[n] \in ScanSet(C)
  BY <1>1, <1>2, <1>5, Prefixes
<1>7. f[n].cur.value = <<>>
  <2>1. CASE n = 0
    BY <1>1, <2>1 DEF Start, Fresh
  <2>2. CASE n # 0
    <3>1. n \in 1 .. n /\ f[n - 1] \in ScanSet(C) /\ f[n] = TextTurn(f[n - 1], t, n)
      BY <1>1, <1>2, <2>2
    <3> DEFINE x == f[n - 1]
    <3>2. x \in ScanSet(C) /\ f[n] = TextTurn(x, t, n)
      BY <3>1
    <3> HIDE DEF x
    <3>3. TextTurn(x, t, n).cur.value = <<>>
      BY <3>1, <3>2, TextTurnReads
    <3> QED BY <3>2, <3>3
  <2> QED BY <2>1, <2>2
<1> QED BY <1>1, <1>6, <1>7, EmptyOpen DEF ScanSet

-----------------------------------------------------------------------------
(* A line and its tokens. *)

\* After the character c, the open token of s is v; it goes on, or ends.
GoesOn(C, s, r, v, c) ==
  \/ /\ r.tokens = s.tokens /\ r.cur.value = v /\ r.cur.from = s.cur.from
  \/ /\ r.cur.from = Advance(s.at, c) /\ r.cur.value = <<>>
     /\ \E x \in TokenSet(C) :
          /\ r.tokens = Append(s.tokens, x) /\ x.value = v /\ x.index = Len(s.tokens)
          /\ x.from = s.cur.from /\ x.to = RangeEnd(x.from, v)

\* A turn that opens or closes neither comment nor jinja goes on with the open
\* token, or ends it with the character.
LEMMA TurnInLine ==
  ASSUME NEW C, NEW s \in ScanSet(C), NEW w, w.c \in C, NEW m \in LineModes,
         s.mode \in LineModes, NEW closes, NEW last, NEW r, r = Turn(s, w, m, s.level, closes, last),
         NEW v, v = Append(s.cur.value, w.c)
  PROVE  GoesOn(C, s, r, v, w.c)
<1> DEFINE read == [s EXCEPT !.at = Advance(@, w.c), !.index = Len(s.tokens),
                             !.mode = m, !.level = s.level,
                             !.was = IF s.mode # m THEN s.mode ELSE "none"]
           Apart == \/ (s.mode \in CommentModes) # (m \in CommentModes)
                    \/ (s.mode = "jinja") # (m = "jinja")
           a     == IF Apart THEN AddToken(read) ELSE read
           taken == [a EXCEPT !.cur = Add(@, w.c)]
<1>1. /\ read \in ScanSet(C) /\ read.tokens = s.tokens /\ read.cur = s.cur
      /\ read.at = Advance(s.at, w.c) /\ read.index = Len(s.tokens) /\ read.mode = m
  <2>1. Advance(s.at, w.c) \in Position /\ Len(s.tokens) \in Int /\ s.level \in Int
    BY AdvanceType DEF ScanSet
  <2>2. s.mode \in Modes /\ "none" \in Modes /\ m \in Modes
    BY DEF ScanSet, Modes, LineModes, QuoteModes
  <2> QED BY <2>1, <2>2 DEF ScanSet
<1>2. r = IF EndsToken(m, w, closes, last) THEN AddToken(taken) ELSE taken
  BY DEF Turn
<1>3. ~Apart
  BY DEF LineModes, CommentModes
<1> HIDE DEF read, Apart
<1>4. a = read
  BY <1>3
<1> HIDE DEF a
<1>5. /\ taken \in ScanSet(C) /\ taken.at = Advance(s.at, w.c) /\ taken.index = Len(s.tokens)
      /\ taken.tokens = s.tokens /\ taken.cur.value = v /\ taken.cur.from = s.cur.from
  <2>1. a \in ScanSet(C)
    BY <1>1, <1>4
  <2>2. /\ taken \in ScanSet(C) /\ taken.tokens = a.tokens /\ taken.at = a.at
        /\ taken.index = a.index /\ taken.cur.value = Append(a.cur.value, w.c)
        /\ taken.cur.from = a.cur.from
    BY <2>1, CharacterTaken
  <2> HIDE DEF taken
  <2> QED BY <1>1, <1>4, <2>2
<1>6. v # <<>> /\ v \in Seq(C)
  BY DEF ScanSet, BufferSet
<1> HIDE DEF taken
<1>7. /\ AddToken(taken).cur.value = <<>> /\ AddToken(taken).cur.from = taken.at
      /\ AddToken(taken).tokens = Append(taken.tokens, Finalize(taken))
  BY <1>5, <1>6, TokenAdded
<1>8. /\ Finalize(taken) \in TokenSet(C) /\ Finalize(taken).value = v
      /\ Finalize(taken).index = Len(s.tokens) /\ Finalize(taken).from = s.cur.from
      /\ Finalize(taken).to = RangeEnd(s.cur.from, v)
  BY <1>5, <1>6, Finalized
<1>9. CASE EndsToken(m, w, closes, last)
  <2>1. r = AddToken(taken)
    BY <1>2, <1>9
  <2> QED BY <1>5, <1>7, <1>8, <2>1 DEF GoesOn
<1>10. CASE ~EndsToken(m, w, closes, last)
  <2>1. r = taken
    BY <1>2, <1>10
  <2> QED BY <1>5, <2>1 DEF GoesOn
<1> QED BY <1>9, <1>10

\* Where pieces end, when one more is put behind them.
LEMMA EndsAppend ==
  ASSUME NEW C, NEW P, Valued(P, C), NEW p \in Seq(P), NEW x \in P
  PROVE  /\ \A k \in 0 .. Len(p) : EndOf(Append(p, x), k) = EndOf(p, k) /\ EndOf(p, k) \in Nat
         /\ EndOf(p, Len(p)) = Len(TextOf(p))
         /\ EndOf(Append(p, x), Len(p) + 1) = Len(TextOf(p)) + Len(x.value)
         /\ Len(TextOf(Append(p, x))) = Len(TextOf(p)) + Len(x.value)
<1> DEFINE q == Append(p, x)
<1>1. /\ q \in Seq(P) /\ Len(q) = Len(p) + 1 /\ Len(p) \in Nat
      /\ SubSeq(q, 1, Len(p) + 1) = q /\ SubSeq(p, 1, Len(p)) = p
      /\ \A k \in 0 .. Len(p) : SubSeq(q, 1, k) = SubSeq(p, 1, k) /\ SubSeq(p, 1, k) \in Seq(P)
  OBVIOUS
<1>2. TextOf(p) \in Seq(C) /\ x.value \in Seq(C)
  BY TextTyped DEF Valued
<1>3. Len(TextOf(q)) = Len(TextOf(p)) + Len(x.value)
  <2>1. TextOf(q) = TextOf(p) \o x.value
    BY TextAppend
  <2> QED BY <1>2, <2>1
<1> HIDE DEF q
<1>4. \A k \in 0 .. Len(p) : EndOf(q, k) = EndOf(p, k)
  BY <1>1 DEF EndOf
<1>5. ASSUME NEW k \in 0 .. Len(p) PROVE EndOf(p, k) \in Nat
  <2>1. TextOf(SubSeq(p, 1, k)) \in Seq(C)
    BY <1>1, TextTyped
  <2> QED BY <2>1 DEF EndOf
<1>6. EndOf(p, Len(p)) = Len(TextOf(p)) /\ EndOf(q, Len(p) + 1) = Len(TextOf(q))
  BY <1>1 DEF EndOf
<1> QED BY <1>3, <1>4, <1>5, <1>6 DEF q

\* Where each piece begins and ends, with its value, is in R.
Spans(p, R) == \A k \in 1 .. Len(p) : <<EndOf(p, k - 1), EndOf(p, k), p[k].value>> \in R

LEMMA SpansAppend ==
  ASSUME NEW C, NEW P, Valued(P, C), NEW p \in Seq(P), NEW x \in P, NEW R, Spans(p, R),
         <<Len(TextOf(p)), Len(TextOf(p)) + Len(x.value), x.value>> \in R
  PROVE  Spans(Append(p, x), R)
<1> DEFINE q == Append(p, x)
           n == Len(p)
<1>1. /\ n \in Nat /\ Len(q) = n + 1 /\ q[n + 1] = x /\ \A k \in 1 .. n : q[k] = p[k]
  OBVIOUS
<1>2. /\ \A k \in 0 .. n : EndOf(q, k) = EndOf(p, k) /\ EndOf(p, k) \in Nat
      /\ EndOf(p, n) = Len(TextOf(p)) /\ EndOf(q, n + 1) = Len(TextOf(p)) + Len(x.value)
  BY EndsAppend
<1> HIDE DEF q, n
<1> SUFFICES ASSUME NEW k \in 1 .. n + 1
             PROVE  <<EndOf(q, k - 1), EndOf(q, k), q[k].value>> \in R
  BY <1>1 DEF Spans, q
<1>3. CASE k \in 1 .. n
  <2>1. k - 1 \in 0 .. n /\ k \in 0 .. n
    BY <1>1, <1>3
  <2>2. EndOf(q, k - 1) = EndOf(p, k - 1) /\ EndOf(q, k) = EndOf(p, k) /\ q[k] = p[k]
    BY <1>1, <1>2, <1>3, <2>1
  <2>3. <<EndOf(p, k - 1), EndOf(p, k), p[k].value>> \in R
    BY <1>3 DEF Spans, n
  <2> QED BY <2>2, <2>3
<1>4. CASE k = n + 1
  <2>1. k - 1 = n /\ n \in 0 .. n
    BY <1>1, <1>4
  <2> QED BY <1>1, <1>2, <1>4, <2>1
<1> QED BY <1>1, <1>3, <1>4

LEMMA TokenLength ==
  ASSUME NEW C, NEW p \in Seq(TokenSet(C)), NEW x \in TokenSet(C)
  PROVE  Len(TextOf(Append(p, x))) = Len(TextOf(p)) + Len(x.value)
BY TokensValued, EndsAppend

\* Tokens that carry their own index and, in one line, their own place.
Placed(p) ==
  \A k \in 1 .. Len(p) : /\ p[k].index = k - 1
                         /\ p[k].from.col = EndOf(p, k - 1) + 1
                         /\ p[k].to.col = EndOf(p, k) + 1

LEMMA PlacedAppend ==
  ASSUME NEW C, NEW p \in Seq(TokenSet(C)), Placed(p), NEW x \in TokenSet(C),
         x.index = Len(p), x.from.col = Len(TextOf(p)) + 1,
         x.to.col = Len(TextOf(p)) + Len(x.value) + 1
  PROVE  Placed(Append(p, x))
<1> DEFINE q == Append(p, x)
           n == Len(p)
<1>1. /\ n \in Nat /\ Len(q) = n + 1 /\ q[n + 1] = x /\ \A k \in 1 .. n : q[k] = p[k]
  OBVIOUS
<1>2. /\ \A k \in 0 .. n : EndOf(q, k) = EndOf(p, k) /\ EndOf(p, k) \in Nat
      /\ EndOf(p, n) = Len(TextOf(p)) /\ EndOf(q, n + 1) = Len(TextOf(p)) + Len(x.value)
  BY TokensValued, EndsAppend
<1> HIDE DEF q, n
<1> SUFFICES ASSUME NEW k \in 1 .. n + 1
             PROVE  /\ q[k].index = k - 1 /\ q[k].from.col = EndOf(q, k - 1) + 1
                    /\ q[k].to.col = EndOf(q, k) + 1
  BY <1>1 DEF Placed, q
<1>3. CASE k \in 1 .. n
  <2>1. k - 1 \in 0 .. n /\ k \in 0 .. n
    BY <1>1, <1>3
  <2>2. /\ p[k].index = k - 1 /\ p[k].from.col = EndOf(p, k - 1) + 1
        /\ p[k].to.col = EndOf(p, k) + 1
    BY <1>3 DEF Placed, n
  <2> QED BY <1>1, <1>2, <1>3, <2>1, <2>2
<1>4. CASE k = n + 1
  <2>1. k - 1 = n /\ n \in 0 .. n
    BY <1>1, <1>4
  <2>2. x.index = n /\ x.from.col = Len(TextOf(p)) + 1 /\ x.to.col = Len(TextOf(p)) + Len(x.value) + 1
    BY DEF n
  <2> QED BY <1>1, <1>2, <1>4, <2>1, <2>2
<1> QED BY <1>1, <1>3, <1>4

\* A scan of the first i characters of the line t.
LineRead(s, t, i) ==
  /\ s.mode \in LineModes /\ ReadText(s) = SubSeq(t, 1, i)
  /\ OneLine(t) => /\ s.at = [line |-> 1, col |-> i + 1]
                   /\ s.cur.from = [line |-> 1, col |-> Len(TextOf(s.tokens)) + 1]
                   /\ Placed(s.tokens)

LineTurn(s, t, i) ==
  LET w == Window(t, i)
  IN  Turn(s, w, LineMode(s.mode, w), s.level, FALSE, i = Len(t))

LEMMA LineTurnReads ==
  ASSUME NEW C, NEW t \in Seq(C), NEW i \in 1 .. Len(t), NEW s \in ScanSet(C),
         s.mode \in LineModes
  PROVE  /\ LineTurn(s, t, i) \in ScanSet(C) /\ LineTurn(s, t, i).mode \in LineModes
         /\ ReadText(LineTurn(s, t, i)) = Append(ReadText(s), t[i])
         /\ i = Len(t) => LineTurn(s, t, i).cur.value = <<>>
<1> DEFINE w == Window(t, i)
           m == LineMode(s.mode, w)
           level == s.level
           closes == FALSE
           last == i = Len(t)
           r == Turn(s, w, m, level, closes, last)
<1>1. w.c \in C /\ w.c = t[i]
  BY WindowOfText
<1>2. m \in LineModes
  BY LineModeType
<1>3. LineTurn(s, t, i) = r
  BY DEF LineTurn
<1>4. m \in Modes /\ level \in Int
  BY <1>2 DEF LineModes, Modes, QuoteModes, ScanSet
<1> HIDE DEF w, m, level, closes, last
<1>5. /\ r \in ScanSet(C) /\ r.mode = m /\ ReadText(r) = Append(ReadText(s), w.c)
      /\ last => r.cur.value = <<>>
  BY <1>1, <1>4, TurnReads
<1> HIDE DEF r
<1> QED BY <1>1, <1>2, <1>3, <1>5 DEF last

LEMMA LineTurnPlaces ==
  ASSUME NEW C, NEW t \in Seq(C), NEW i \in 1 .. Len(t), NEW s \in ScanSet(C),
         LineRead(s, t, i - 1)
  PROVE  LineRead(LineTurn(s, t, i), t, i)
<1> DEFINE w == Window(t, i)
           m == LineMode(s.mode, w)
           last == i = Len(t)
           r == LineTurn(s, t, i)
           v == Append(s.cur.value, w.c)
<1>1. w.c \in C /\ w.c = t[i]
  BY WindowOfText
<1>2. m \in LineModes /\ s.mode \in LineModes
  BY LineModeType DEF LineRead
<1>3. r \in ScanSet(C) /\ r.mode \in LineModes /\ ReadText(r) = Append(ReadText(s), t[i])
  BY <1>2, LineTurnReads
<1>4. ReadText(r) = SubSeq(t, 1, i)
  <2>1. SubSeq(t, 1, i) = Append(SubSeq(t, 1, i - 1), t[i])
    OBVIOUS
  <2> QED BY <1>3, <2>1 DEF LineRead
<1>5. GoesOn(C, s, r, v, w.c)
  <2> DEFINE closes == FALSE
  <2>1. r = Turn(s, w, m, s.level, closes, last)
    BY DEF LineTurn
  <2>2. w.c \in C /\ v = Append(s.cur.value, w.c)
    BY <1>1
  <2> HIDE DEF w, m, closes, last, r, v
  <2> QED BY <1>2, <2>1, <2>2, TurnInLine
<1>6. r.at = Advance(s.at, w.c)
  <2> DEFINE level == s.level
             closes == FALSE
  <2>1. r = Turn(s, w, m, level, closes, last)
    BY DEF LineTurn
  <2>2. m \in Modes /\ level \in Int
    BY <1>2 DEF LineModes, Modes, QuoteModes, ScanSet
  <2> HIDE DEF w, m, level, closes, last, r
  <2>3. Turn(s, w, m, level, closes, last).at = Advance(s.at, w.c)
    BY <1>1, <2>2, TurnReads
  <2> QED BY <2>1, <2>3
<1>7. ASSUME OneLine(t)
      PROVE  /\ r.at = [line |-> 1, col |-> i + 1]
             /\ r.cur.from = [line |-> 1, col |-> Len(TextOf(r.tokens)) + 1]
             /\ Placed(r.tokens)
  <2>1. /\ s.at = [line |-> 1, col |-> i]
        /\ s.cur.from = [line |-> 1, col |-> Len(TextOf(s.tokens)) + 1]
        /\ Placed(s.tokens)
    <3>1. i - 1 + 1 = i
      OBVIOUS
    <3> QED BY <1>7, <3>1 DEF LineRead
  <2>2. w.c # "\n"
    BY <1>1, <1>7 DEF OneLine
  <2> HIDE DEF w, m, last, r
  <2>3. r.at = [line |-> 1, col |-> i + 1]
    BY <1>6, <2>1, <2>2 DEF Advance
  <2>4. s.tokens \in Seq(TokenSet(C)) /\ s.cur.value \in Seq(C) /\ v \in Seq(C)
    BY <1>1 DEF ScanSet, BufferSet
  <2>5. CASE r.tokens = s.tokens /\ r.cur.from = s.cur.from
    BY <2>1, <2>3, <2>5
  <2>6. CASE /\ r.cur.from = Advance(s.at, w.c) /\ r.cur.value = <<>>
             /\ \E x \in TokenSet(C) :
                  /\ r.tokens = Append(s.tokens, x) /\ x.value = v /\ x.index = Len(s.tokens)
                  /\ x.from = s.cur.from /\ x.to = RangeEnd(x.from, v)
    <3>1. PICK x \in TokenSet(C) :
                 /\ r.tokens = Append(s.tokens, x) /\ x.value = v /\ x.index = Len(s.tokens)
                 /\ x.from = s.cur.from /\ x.to = RangeEnd(x.from, v)
      BY <2>6
    <3>2. /\ TextOf(s.tokens) \in Seq(C) /\ TextOf(s.tokens) \o v = SubSeq(t, 1, i)
          /\ Len(TextOf(s.tokens)) + Len(v) = i
      <4>1. TextOf(s.tokens) \in Seq(C)
        BY <2>4, TokensValued, TextTyped
      <4>2. TextOf(s.tokens) \o v = Append(TextOf(s.tokens) \o s.cur.value, w.c)
        <5> DEFINE u == TextOf(s.tokens)
                   z == s.cur.value
        <5>1. u \in Seq(C) /\ z \in Seq(C)
          BY <2>4, <4>1
        <5> HIDE DEF u, z
        <5>2. u \o Append(z, w.c) = Append(u \o z, w.c)
          BY <1>1, <5>1, AppendOpen
        <5> QED BY <5>2 DEF u, z
      <4>3. TextOf(s.tokens) \o v = SubSeq(t, 1, i)
        BY <1>1, <1>3, <1>4, <4>2 DEF ReadText
      <4>4. Len(TextOf(s.tokens) \o v) = Len(TextOf(s.tokens)) + Len(v)
        BY <2>4, <4>1
      <4>5. Len(SubSeq(t, 1, i)) = i
        OBVIOUS
      <4> QED BY <4>1, <4>3, <4>4, <4>5
    <3>3. OneLine(v)
      <4> DEFINE u == TextOf(s.tokens)
      <4>1. u \in Seq(C) /\ v \in Seq(C) /\ u \o v = SubSeq(t, 1, i) /\ Len(u) + Len(v) = i
        BY <2>4, <3>2
      <4> HIDE DEF u, v
      <4>2. ASSUME NEW j \in DOMAIN v PROVE v[j] # "\n"
        <5>1. /\ (u \o v)[Len(u) + j] = v[j] /\ Len(u) + j \in 1 .. i
          BY <4>1
        <5>2. SubSeq(t, 1, i)[Len(u) + j] = t[Len(u) + j] /\ Len(u) + j \in DOMAIN t
          BY <5>1
        <5> QED BY <1>7, <4>1, <5>1, <5>2 DEF OneLine
      <4> QED BY <4>2 DEF OneLine
    <3>4. x.from \in Position /\ x.to = [line |-> x.from.line, col |-> x.from.col + Len(v)]
      <4>1. x.from \in Position
        BY DEF TokenSet
      <4> QED BY <2>4, <3>1, <3>3, <4>1, RangeInLine
    <3>5. /\ x.from.col = Len(TextOf(s.tokens)) + 1
          /\ x.to.col = Len(TextOf(s.tokens)) + Len(x.value) + 1
      <4>1. x.from.col = Len(TextOf(s.tokens)) + 1
        BY <2>1, <3>1
      <4>2. x.to.col = x.from.col + Len(v) /\ Len(x.value) = Len(v)
        BY <3>1, <3>4
      <4>3. Len(v) \in Nat /\ Len(TextOf(s.tokens)) \in Nat
        BY <2>4, <3>2
      <4> HIDE DEF v
      <4> QED BY <4>1, <4>2, <4>3
    <3>6. Placed(r.tokens)
      BY <2>1, <2>4, <3>1, <3>5, PlacedAppend
    <3>7. Len(TextOf(r.tokens)) = i
      <4>1. Len(TextOf(Append(s.tokens, x))) = Len(TextOf(s.tokens)) + Len(x.value)
        BY <2>4, TokenLength
      <4> QED BY <3>1, <3>2, <4>1
    <3> QED BY <1>6, <2>3, <2>6, <3>6, <3>7
  <2> QED BY <1>5, <2>5, <2>6 DEF GoesOn
<1> QED BY <1>3, <1>4, <1>7 DEF LineRead

LineSet(C) == {s \in ScanSet(C) : s.mode \in LineModes}

LEMMA StartInLine ==
  ASSUME NEW C, NEW t \in Seq(C)
  PROVE  Start \in LineSet(C) /\ LineRead(Start, t, 0)
<1>1. /\ Start \in ScanSet(C) /\ ReadText(Start) = <<>> /\ Start.mode = "none"
      /\ Start.at = [line |-> 1, col |-> 1] /\ Start.tokens = <<>>
      /\ Start.cur.from = [line |-> 1, col |-> 1]
  BY StartType DEF Start, Fresh
<1>2. Len(TextOf(Start.tokens)) = 0 /\ Placed(Start.tokens)
  BY <1>1, TextEmpty DEF Placed
<1>3. SubSeq(t, 1, 0) = <<>>
  BY Prefixes
<1>4. Start.mode \in LineModes
  BY <1>1 DEF LineModes
<1> QED BY <1>1, <1>2, <1>3, <1>4 DEF LineSet, LineRead

\* The scan of a line from its start, turn by turn.
LEMMA LineScanned ==
  ASSUME NEW C, NEW t \in Seq(C)
  PROVE  \E f \in [0 .. Len(t) -> LineSet(C)] :
           /\ f[0] = Start /\ \A i \in 1 .. Len(t) : f[i] = LineTurn(f[i - 1], t, i)
           /\ TokenizeLine(t) = f[Len(t)].tokens
<1> DEFINE n == Len(t)
           D == LineSet(C)
           G == [z \in D \X (1 .. n) |-> LineTurn(z[1], t, z[2])]
           F(f) == [i \in 0 .. Len(t) |-> IF i = 0 THEN Start ELSE LineTurn(f[i - 1], t, i)]
           scan == CHOOSE f : f = F(f)
<1>1. G \in Steps(D, n) /\ n \in Nat /\ Start \in D
  <2>1. ASSUME NEW z \in D \X (1 .. n) PROVE LineTurn(z[1], t, z[2]) \in D
    BY LineTurnReads DEF LineSet
  <2> QED BY <2>1, StartInLine DEF Steps
<1>2. PICK f : Built(f, D, Start, n, G)
  <2> HIDE DEF G, D, n
  <2> QED BY <1>1, Recursion
<1>3. \A x \in D, i \in 1 .. n : G[<<x, i>>] = LineTurn(x, t, i)
  OBVIOUS
<1> HIDE DEF G
<1>4. /\ f \in [0 .. n -> D] /\ f[0] = Start
      /\ \A i \in 1 .. n : f[i] = LineTurn(f[i - 1], t, i)
  <2> HIDE DEF D
  <2>1. f \in [0 .. n -> D] /\ f[0] = Start
    BY <1>2 DEF Built
  <2>2. ASSUME NEW i \in 1 .. n PROVE f[i] = LineTurn(f[i - 1], t, i)
    <3>1. f[i - 1] \in D
      BY <1>1, <2>1
    <3>2. f[i] = G[<<f[i - 1], i>>]
      BY <1>2 DEF Built
    <3> QED BY <1>3, <3>1, <3>2
  <2> QED BY <2>1, <2>2
<1>5. f = F(f)
  <2> HIDE DEF D
  <2> QED BY <1>1, <1>4
<1>6. scan = F(scan)
  BY <1>5
<1>7. TokenizeLine(t) = scan[n].tokens
  BY DEF TokenizeLine, LineTurn
<1> HIDE DEF scan
<1>8. Follows(scan, D, Start, n, G)
  <2> HIDE DEF D
  <2> QED BY <1>3, <1>6 DEF Follows
<1>9. \A i \in 0 .. n : scan[i] = f[i]
  <2> HIDE DEF D, n
  <2> QED BY <1>1, <1>2, <1>8, OneRecursion
<1>10. TokenizeLine(t) = f[n].tokens
  BY <1>1, <1>7, <1>9
<1> QED BY <1>4, <1>10

\* The tokens of a line are all of it, and carry their places.
LEMMA TokenizeLineReads ==
  ASSUME NEW C, NEW t \in Seq(C)
  PROVE  /\ TokenizeLine(t) \in Seq(TokenSet(C)) /\ TextOf(TokenizeLine(t)) = t
         /\ OneLine(t) => Placed(TokenizeLine(t))
<1> DEFINE n == Len(t)
<1>1. PICK f \in [0 .. n -> LineSet(C)] :
           /\ f[0] = Start /\ \A i \in 1 .. n : f[i] = LineTurn(f[i - 1], t, i)
           /\ TokenizeLine(t) = f[n].tokens
  BY LineScanned
<1>2. n \in Nat
  OBVIOUS
<1> DEFINE S == {k \in Nat : k <= n => LineRead(f[k], t, k)}
<1>3. 0 \in S
  BY <1>1, StartInLine
<1>4. ASSUME NEW k \in Nat, k \in S PROVE k + 1 \in S
  <2> SUFFICES ASSUME k + 1 <= n PROVE LineRead(f[k + 1], t, k + 1)
    OBVIOUS
  <2> DEFINE j == k + 1
             x == f[k]
  <2>1. j \in 1 .. n /\ j - 1 = k /\ x \in ScanSet(C) /\ LineRead(x, t, k)
    BY <1>1, <1>2, <1>4 DEF LineSet
  <2> HIDE DEF j
  <2>2. f[j] = LineTurn(x, t, j)
    BY <1>1, <2>1
  <2> HIDE DEF x
  <2>3. LineRead(LineTurn(x, t, j), t, j)
    BY <2>1, LineTurnPlaces
  <2>4. LineRead(f[j], t, j)
    BY <2>2, <2>3
  <2> QED BY <2>4 DEF j
<1>5. n \in S
  BY <1>2, <1>3, <1>4, SetInduction
<1>6. LineRead(f[n], t, n) /\ f[n] \in ScanSet(C)
  BY <1>1, <1>2, <1>5 DEF LineSet
<1>7. f[n].cur.value = <<>>
  <2>1. CASE n = 0
    BY <1>1, <2>1 DEF Start, Fresh
  <2>2. CASE n # 0
    <3> DEFINE x == f[n - 1]
    <3>1. n \in 1 .. n /\ x \in LineSet(C) /\ f[n] = LineTurn(x, t, n)
      BY <1>1, <1>2, <2>2
    <3> HIDE DEF x
    <3>2. x \in ScanSet(C) /\ x.mode \in LineModes
      BY <3>1 DEF LineSet
    <3>3. LineTurn(x, t, n).cur.value = <<>>
      BY <3>1, <3>2, LineTurnReads
    <3> QED BY <3>1, <3>3
  <2> QED BY <2>1, <2>2
<1>8. TextOf(f[n].tokens) = t
  BY <1>6, <1>7, EmptyOpen, Prefixes DEF LineRead
<1> QED BY <1>1, <1>6, <1>8 DEF LineRead, ScanSet

-----------------------------------------------------------------------------
\* The text is one of the characters of its keyboard.
TextInv == text \in Seq(keys.chars)

LEMMA TextOfKeys == Spec => []TextInv
<1>1. Init => TextInv
  BY DEF Init, TextInv
<1>2. TextInv /\ [Next]_vars => TextInv'
  BY DEF TextInv, Next, Type, vars
<1> QED BY <1>1, <1>2, PTL DEF Spec

LEMMA AllTile == TextInv => TokensTile
<1> SUFFICES ASSUME TextInv PROVE TokensTile
  OBVIOUS
<1> DEFINE C == keys.chars
           tokens == TokenizeLine(text)
<1>1. text \in Seq(C)
  BY DEF TextInv
<1> HIDE DEF C
<1>2. TextOf(Tokenize(text)) = text
  BY <1>1, TokenizeReads
<1>3. tokens \in Seq(TokenSet(C)) /\ TextOf(tokens) = text /\ (OneLine(text) => Placed(tokens))
  BY <1>1, TokenizeLineReads
<1>4. DOMAIN tokens = 1 .. Len(tokens)
  BY <1>3
<1> HIDE DEF tokens
<1> QED BY <1>2, <1>3, <1>4 DEF TokensTile, Placed, tokens

\* Every text is tiled by its tokens, also one cut into a single line, whose
\* tokens carry their index and their place (Tokenize and TokenizeLine of token.ts).
THEOREM TextsAreTiled == Spec => []TokensTile
BY TextOfKeys, AllTile, PTL

-----------------------------------------------------------------------------
(***************************************************************************)
(* The statements of a text.                                               *)
(***************************************************************************)
BlockSet(C) == [value : Seq(C), from : [line : Int, col : Int], to : [line : Int, col : Int]]
CutSet(C)   == [mode : Modes, at : Position, block : BlockSet(C), blocks : Seq(BlockSet(C))]

LEMMA BlocksValued == ASSUME NEW C PROVE Valued(BlockSet(C), C)
BY DEF Valued, BlockSet

BlockStart == [mode |-> "none", at |-> [line |-> 1, col |-> 1], block |-> NoBlock, blocks |-> <<>>]

\* The open block with the character w.c.
Longer(s, w) ==
  [value |-> Append(s.block.value, w.c),
   from  |-> IF s.block = NoBlock THEN s.at ELSE s.block.from,
   to    |-> IF w.c = "\n" THEN Advance(s.at, w.c) ELSE s.at]

BlockTurn(s, t, i) ==
  LET w == Window(t, i)
      m == BlockMode(s.mode, w)
      next == Advance(s.at, w.c)
  IN  IF EndsBlock(m, w.c, i = Len(t))
      THEN [mode |-> m, at |-> next, block |-> NoBlock, blocks |-> Append(s.blocks, Longer(s, w))]
      ELSE [mode |-> m, at |-> next, block |-> Longer(s, w), blocks |-> s.blocks]

LEMMA BlockModeType ==
  ASSUME NEW m \in Modes, NEW w
  PROVE  BlockMode(m, w) \in Modes
<1> DEFINE a == Jinja(m, w, w.p = "}" /\ w.c = "}")
           b == Comment(a, w, w.p = "*" /\ w.c = "/")
           d == Quotes(b, w.c)
<1>1. a \in Modes
  BY ModeSteps
<1> HIDE DEF a
<1>2. b \in Modes
  BY <1>1, ModeSteps
<1> HIDE DEF b
<1>3. d \in Modes
  BY <1>2, ModeSteps
<1> HIDE DEF d
<1>4. LineModes \subseteq Modes
  BY DEF LineModes, Modes, QuoteModes
<1>5. NameQuotes(d, w.c) \in Modes
  BY <1>3, <1>4, NameQuotesMode
<1> QED BY <1>5 DEF BlockMode, a, b, d

LEMMA NoBlockType ==
  ASSUME NEW C
  PROVE  NoBlock \in BlockSet(C) /\ BlockStart \in CutSet(C)
<1>1. NoBlock \in BlockSet(C)
  BY DEF NoBlock, BlockSet
<1>2. [line |-> 1, col |-> 1] \in Position /\ "none" \in Modes
  BY DEF Position, Modes
<1> QED BY <1>1, <1>2 DEF BlockStart, CutSet

LEMMA LongerBlock ==
  ASSUME NEW C, NEW s \in CutSet(C), NEW w, w.c \in C
  PROVE  Longer(s, w) \in BlockSet(C) /\ Longer(s, w).value = Append(s.block.value, w.c)
<1>1. /\ s.block \in BlockSet(C) /\ s.at \in Position /\ Advance(s.at, w.c) \in Position
  BY AdvanceType DEF CutSet
<1>2. s.block.value \in Seq(C) /\ s.block.from \in [line : Int, col : Int]
  BY <1>1 DEF BlockSet
<1>3. Position \subseteq [line : Int, col : Int]
  BY DEF Position
<1>4. /\ Append(s.block.value, w.c) \in Seq(C)
      /\ (IF s.block = NoBlock THEN s.at ELSE s.block.from) \in [line : Int, col : Int]
      /\ (IF w.c = "\n" THEN Advance(s.at, w.c) ELSE s.at) \in [line : Int, col : Int]
  BY <1>1, <1>2, <1>3
<1> QED BY <1>4 DEF Longer, BlockSet

\* What a turn does: it ends the block with the character, or goes on with it.
EndsOrGoesOn(C, t, i, s, r) ==
  LET b == Longer(s, Window(t, i))
  IN  /\ r \in CutSet(C) /\ r.mode = BlockMode(s.mode, Window(t, i))
      /\ b \in BlockSet(C) /\ b.value = Append(s.block.value, t[i])
      /\ (r.mode = "none" /\ t[i] = ";") \/ i = Len(t)
           => r.block = NoBlock /\ r.blocks = Append(s.blocks, b)
      /\ ~((r.mode = "none" /\ t[i] = ";") \/ i = Len(t))
           => r.block = b /\ r.blocks = s.blocks

LEMMA BlockTurned ==
  ASSUME NEW C, NEW t \in Seq(C), NEW i \in 1 .. Len(t), NEW s \in CutSet(C),
         NEW r, r = BlockTurn(s, t, i)
  PROVE  EndsOrGoesOn(C, t, i, s, r)
<1> DEFINE w == Window(t, i)
           m == BlockMode(s.mode, w)
           next == Advance(s.at, w.c)
           b == Longer(s, w)
           last == i = Len(t)
<1>1. w.c \in C /\ w.c = t[i]
  BY WindowOfText
<1>2. m \in Modes /\ next \in Position
  BY BlockModeType, AdvanceType DEF CutSet
<1>3. r = IF EndsBlock(m, w.c, last)
          THEN [mode |-> m, at |-> next, block |-> NoBlock, blocks |-> Append(s.blocks, b)]
          ELSE [mode |-> m, at |-> next, block |-> b, blocks |-> s.blocks]
  BY DEF BlockTurn
<1> HIDE DEF w, m, next, b, last
<1>4. b \in BlockSet(C) /\ b.value = Append(s.block.value, w.c)
  BY <1>1, LongerBlock DEF b
<1>5. EndsBlock(m, w.c, last) <=> (m = "none" /\ t[i] = ";") \/ last
  BY <1>1 DEF EndsBlock
<1>6. s.blocks \in Seq(BlockSet(C)) /\ Append(s.blocks, b) \in Seq(BlockSet(C))
  BY <1>4 DEF CutSet
<1> DEFINE over == (m = "none" /\ t[i] = ";") \/ last
           x == IF over THEN NoBlock ELSE b
           bs == IF over THEN Append(s.blocks, b) ELSE s.blocks
<1>7. r = [mode |-> m, at |-> next, block |-> x, blocks |-> bs]
  BY <1>3, <1>5
<1>8. x \in BlockSet(C) /\ bs \in Seq(BlockSet(C))
  BY <1>4, <1>6, NoBlockType
<1>9. over => x = NoBlock /\ bs = Append(s.blocks, b)
  OBVIOUS
<1>10. ~over => x = b /\ bs = s.blocks
  OBVIOUS
<1> HIDE DEF over, x, bs
<1>11. r \in CutSet(C)
  BY <1>2, <1>7, <1>8 DEF CutSet
<1>12. r.mode = m /\ r.block = x /\ r.blocks = bs
  BY <1>7
<1>13. /\ r \in CutSet(C) /\ r.mode = m
      /\ IF over
         THEN r.block = NoBlock /\ r.blocks = Append(s.blocks, b)
         ELSE r.block = b /\ r.blocks = s.blocks
  BY <1>9, <1>10, <1>11, <1>12
<1> QED BY <1>1, <1>4, <1>13 DEF w, m, b, last, over, EndsOrGoesOn

\* The scan for blocks from the start of the text, turn by turn.
LEMMA BlocksScanned ==
  ASSUME NEW C, NEW t \in Seq(C)
  PROVE  \E f \in [0 .. Len(t) -> CutSet(C)] :
           /\ f[0] = BlockStart /\ \A i \in 1 .. Len(t) : f[i] = BlockTurn(f[i - 1], t, i)
           /\ GetBlocks(t) = f[Len(t)].blocks
<1> DEFINE n == Len(t)
           D == CutSet(C)
           G == [z \in D \X (1 .. n) |-> BlockTurn(z[1], t, z[2])]
           F(f) == [i \in 0 .. Len(t) |-> IF i = 0 THEN BlockStart ELSE BlockTurn(f[i - 1], t, i)]
           scan == CHOOSE f : f = F(f)
<1>1. G \in Steps(D, n) /\ n \in Nat /\ BlockStart \in D
  <2>1. ASSUME NEW z \in D \X (1 .. n) PROVE BlockTurn(z[1], t, z[2]) \in D
    <3> DEFINE r == BlockTurn(z[1], t, z[2])
               x == z[1]
               i == z[2]
    <3>1. x \in D /\ i \in 1 .. n /\ r = BlockTurn(x, t, i)
      OBVIOUS
    <3> HIDE DEF r, x, i
    <3>2. r \in D
      BY <3>1, BlockTurned DEF EndsOrGoesOn
    <3> QED BY <3>2 DEF r
  <2> QED BY <2>1, NoBlockType DEF Steps
<1>2. PICK f : Built(f, D, BlockStart, n, G)
  <2> HIDE DEF G, D, n
  <2> QED BY <1>1, Recursion
<1>3. \A x \in D, i \in 1 .. n : G[<<x, i>>] = BlockTurn(x, t, i)
  OBVIOUS
<1> HIDE DEF G
<1>4. /\ f \in [0 .. n -> D] /\ f[0] = BlockStart
      /\ \A i \in 1 .. n : f[i] = BlockTurn(f[i - 1], t, i)
  <2> HIDE DEF D
  <2>1. f \in [0 .. n -> D] /\ f[0] = BlockStart
    BY <1>2 DEF Built
  <2>2. ASSUME NEW i \in 1 .. n PROVE f[i] = BlockTurn(f[i - 1], t, i)
    <3>1. f[i - 1] \in D
      BY <1>1, <2>1
    <3>2. f[i] = G[<<f[i - 1], i>>]
      BY <1>2 DEF Built
    <3> QED BY <1>3, <3>1, <3>2
  <2> QED BY <2>1, <2>2
<1>5. f = F(f)
  <2> HIDE DEF D
  <2> QED BY <1>1, <1>4
<1>6. scan = F(scan)
  BY <1>5
<1>7. GetBlocks(t) = scan[n].blocks
  BY DEF GetBlocks, BlockTurn, BlockStart, Longer
<1> HIDE DEF scan
<1>8. Follows(scan, D, BlockStart, n, G)
  <2> HIDE DEF D
  <2> QED BY <1>3, <1>6 DEF Follows
<1>9. \A i \in 0 .. n : scan[i] = f[i]
  <2> HIDE DEF D, n
  <2> QED BY <1>1, <1>2, <1>8, OneRecursion
<1>10. GetBlocks(t) = f[n].blocks
  BY <1>1, <1>7, <1>9
<1> QED BY <1>4, <1>10

\* The mode does not depend on the character before, outside of all modes.
LEMMA BlockModeLocal ==
  ASSUME NEW m, NEW w, NEW v, w.c = v.c, w.n = v.n, w.p = v.p \/ m = "none"
  PROVE  BlockMode(m, w) = BlockMode(m, v)
<1>1. CASE w.p = v.p
  BY <1>1 DEF BlockMode, Jinja, Comment
<1>2. CASE m = "none"
  <2>1. Jinja(m, w, w.p = "}" /\ w.c = "}") = Jinja(m, v, v.p = "}" /\ v.c = "}")
    BY <1>2 DEF Jinja
  <2>2. Jinja(m, w, w.p = "}" /\ w.c = "}") # "multi"
    BY <1>2 DEF Jinja
  <2> DEFINE a == Jinja(m, w, w.p = "}" /\ w.c = "}")
  <2>3. a = Jinja(m, v, v.p = "}" /\ v.c = "}") /\ a # "multi"
    BY <2>1, <2>2
  <2> HIDE DEF a
  <2>4. Comment(a, w, w.p = "*" /\ w.c = "/") = Comment(a, v, v.p = "*" /\ v.c = "/")
    BY <2>3 DEF Comment
  <2> QED BY <2>3, <2>4 DEF BlockMode, a
<1> QED BY <1>1, <1>2

-----------------------------------------------------------------------------
(* Where the statements of a text begin and end, seen from its scan f.      *)
Cut(f, t, i)  == i = 0 \/ (i \in 1 .. Len(t) /\ f[i].mode = "none" /\ t[i] = ";")
Open(f, t, a, z) == a \in 0 .. Len(t) /\ Cut(f, t, a) /\ \A j \in a + 1 .. z : ~Cut(f, t, j)
Piece(f, t, v) == \E a \in 0 .. Len(t), z \in 1 .. Len(t) :
                    a < z /\ Open(f, t, a, z - 1) /\ v = SubSeq(t, a + 1, z)

\* Where they are, and what: each ends with the next cut, or with the text.
Pieced(f, t) ==
  {s \in {<<a, z, SubSeq(t, a + 1, z)>> : a \in 0 .. Len(t), z \in 1 .. Len(t)} :
     s[1] < s[2] /\ Open(f, t, s[1], s[2] - 1) /\ (Cut(f, t, s[2]) \/ s[2] = Len(t))}

CutText(f, t) ==
  f[0] = BlockStart /\ \A i \in 1 .. Len(t) : f[i] = BlockTurn(f[i - 1], t, i)

LEMMA CutAt0 ==
  ASSUME NEW C, NEW t \in Seq(C), NEW f, CutText(f, t)
  PROVE  f[0].mode = "none" /\ f[0].blocks = <<>> /\ f[0].block.value = <<>>
BY DEF CutText, BlockStart, NoBlock

\* What the blocks have read of the text.
ReadBlocks(s) == TextOf(s.blocks) \o s.block.value

\* A turn reads its character.
LEMMA BlockTurnReads ==
  ASSUME NEW C, NEW t \in Seq(C), NEW i \in 1 .. Len(t), NEW s \in CutSet(C),
         NEW r, r = BlockTurn(s, t, i)
  PROVE  ReadBlocks(r) = Append(ReadBlocks(s), t[i])
<1>1. EndsOrGoesOn(C, t, i, s, r)
  BY BlockTurned
<1> DEFINE b == Longer(s, Window(t, i))
           P == BlockSet(C)
           p == s.blocks
           u == TextOf(p)
           v == s.block.value
           over == (r.mode = "none" /\ t[i] = ";") \/ i = Len(t)
<1>2. r \in CutSet(C) /\ b \in P /\ b.value = Append(v, t[i])
  BY <1>1 DEF EndsOrGoesOn
<1>3. over => r.block = NoBlock /\ r.blocks = Append(p, b)
  BY <1>1 DEF EndsOrGoesOn
<1>4. ~over => r.block = b /\ r.blocks = p
  BY <1>1 DEF EndsOrGoesOn
<1>5. p \in Seq(P) /\ Valued(P, C) /\ t[i] \in C
  BY BlocksValued DEF CutSet
<1>6. v \in Seq(C)
  BY DEF CutSet, BlockSet
<1> HIDE DEF b, P, p, v, over
<1>7. u \in Seq(C)
  BY <1>5, TextTyped
<1>8. TextOf(Append(p, b)) = u \o b.value
  <2>1. TextOf(Append(p, b)) = TextOf(p) \o b.value
    <3>1. b \in P /\ p \in Seq(P) /\ Valued(P, C)
      BY <1>2, <1>5
    <3> QED BY <3>1, TextAppend
  <2> QED BY <2>1
<1> HIDE DEF u
<1>9. u \o Append(v, t[i]) = Append(u \o v, t[i]) /\ Append(u \o v, t[i]) \in Seq(C)
  <2> DEFINE c == t[i]
  <2>1. c \in C
    BY <1>5
  <2> HIDE DEF c
  <2>2. u \o Append(v, c) = Append(u \o v, c) /\ Append(u \o v, c) \in Seq(C)
    BY <1>6, <1>7, <2>1, AppendOpen
  <2> QED BY <2>2 DEF c
<1>10. ReadBlocks(s) = u \o v
  BY DEF ReadBlocks, u, v, p
<1>11. ReadBlocks(r) = TextOf(r.blocks) \o r.block.value
  BY DEF ReadBlocks
<1>12. CASE over
  <2>1. r.blocks = Append(p, b) /\ r.block = NoBlock
    BY <1>3, <1>12
  <2>2. r.block.value = <<>>
    BY <2>1 DEF NoBlock
  <2>3. TextOf(r.blocks) = TextOf(Append(p, b))
    BY <2>1, Zenon
  <2>4. u \o b.value = u \o Append(v, t[i])
    BY <1>2, Zenon
  <2>5. r.block.value = <<>> /\ TextOf(r.blocks) = u \o Append(v, t[i])
    BY <1>8, <2>2, <2>3, <2>4
  <2>6. TextOf(r.blocks) = Append(u \o v, t[i]) /\ TextOf(r.blocks) \in Seq(C)
    BY <1>9, <2>5
  <2>7. TextOf(r.blocks) \o <<>> = TextOf(r.blocks)
    BY <2>6
  <2> QED BY <1>10, <1>11, <2>5, <2>6, <2>7
<1>13. CASE ~over
  <2>1. r.block.value = Append(v, t[i]) /\ TextOf(r.blocks) = u
    BY <1>2, <1>4, <1>13 DEF u
  <2> QED BY <1>9, <1>10, <1>11, <2>1
<1> QED BY <1>12, <1>13

LEMMA Pieces ==
  ASSUME NEW C, NEW t \in Seq(C), NEW a \in 0 .. Len(t)
  PROVE  /\ SubSeq(t, a + 1, a) = <<>>
         /\ \A z \in a .. Len(t) - 1 : SubSeq(t, a + 1, z + 1) = Append(SubSeq(t, a + 1, z), t[z + 1])
         /\ \A z \in a .. Len(t) : /\ SubSeq(t, a + 1, z) \in Seq(C)
                                   /\ Len(SubSeq(t, a + 1, z)) = z - a
                                   /\ \A j \in 1 .. z - a : SubSeq(t, a + 1, z)[j] = t[a + j]
<1>1. SubSeq(t, a + 1, a) = <<>>
  OBVIOUS
<1>2. ASSUME NEW z \in a .. Len(t) - 1
      PROVE SubSeq(t, a + 1, z + 1) = Append(SubSeq(t, a + 1, z), t[z + 1])
  OBVIOUS
<1>3. ASSUME NEW z \in a .. Len(t)
      PROVE  /\ SubSeq(t, a + 1, z) \in Seq(C)
             /\ Len(SubSeq(t, a + 1, z)) = z - a
             /\ \A j \in 1 .. z - a : SubSeq(t, a + 1, z)[j] = t[a + j]
  OBVIOUS
<1> QED BY <1>1, <1>2, <1>3

\* Up to i, the closed blocks are statements, and the open one is what follows
\* the last of them.
CutUpTo(f, t, i) ==
  /\ ReadBlocks(f[i]) = SubSeq(t, 1, i)
  /\ Spans(f[i].blocks, Pieced(f, t))
  /\ i = Len(t) => f[i].block.value = <<>>
  /\ i < Len(t) => \E a \in 0 .. i : Open(f, t, a, i) /\ f[i].block.value = SubSeq(t, a + 1, i)

\* It stays so with the next character.
LEMMA CutStep ==
  ASSUME NEW C, NEW t \in Seq(C), NEW f \in [0 .. Len(t) -> CutSet(C)], CutText(f, t),
         NEW j \in 1 .. Len(t), CutUpTo(f, t, j - 1)
  PROVE  CutUpTo(f, t, j)
<1> DEFINE n == Len(t)
           i == j - 1
           s == f[i]
           r == f[j]
           b == Longer(s, Window(t, j))
           cut == r.mode = "none" /\ t[j] = ";"
<1>1. /\ n \in Nat /\ i \in 0 .. n /\ j \in 1 .. n /\ i < n /\ i + 1 = j
      /\ s \in CutSet(C) /\ r \in CutSet(C)
  OBVIOUS
<1>2. r = BlockTurn(s, t, j)
  BY DEF CutText
<1>3. /\ ReadBlocks(s) = SubSeq(t, 1, i)
      /\ Spans(s.blocks, Pieced(f, t))
  BY DEF CutUpTo
<1>4. PICK a \in 0 .. i : Open(f, t, a, i) /\ s.block.value = SubSeq(t, a + 1, i)
  BY <1>1 DEF CutUpTo
<1>5. cut <=> Cut(f, t, j)
  <2>1. j # 0 /\ j \in 1 .. Len(t)
    BY <1>1
  <2> HIDE DEF n
  <2> QED BY <2>1, Zenon DEF Cut
<1> HIDE DEF s, r
<1>6. EndsOrGoesOn(C, t, j, s, r)
  BY <1>1, <1>2, BlockTurned
<1>7. /\ b \in BlockSet(C) /\ b.value = Append(s.block.value, t[j])
      /\ cut \/ j = n => r.block = NoBlock /\ r.blocks = Append(s.blocks, b)
      /\ ~(cut \/ j = n) => r.block = b /\ r.blocks = s.blocks
  BY <1>6 DEF EndsOrGoesOn
<1> HIDE DEF b, cut, n, i
<1>8. b.value = SubSeq(t, a + 1, j)
  <2>1. a \in 0 .. n /\ i \in a .. n - 1
    BY <1>1
  <2>2. SubSeq(t, a + 1, i + 1) = Append(SubSeq(t, a + 1, i), t[i + 1])
    BY <2>1, Pieces DEF n
  <2> QED BY <1>1, <1>4, <1>7, <2>2
<1>9. ReadBlocks(r) = SubSeq(t, 1, j)
  <2>1. ReadBlocks(r) = Append(ReadBlocks(s), t[j])
    BY <1>1, <1>2, BlockTurnReads
  <2>2. SubSeq(t, 1, i + 1) = Append(SubSeq(t, 1, i), t[i + 1])
    BY <1>1, Prefixes DEF n
  <2> QED BY <1>1, <1>3, <2>1, <2>2
<1>10. ASSUME cut \/ j = n
       PROVE  <<Len(TextOf(s.blocks)), Len(TextOf(s.blocks)) + Len(b.value), b.value>> \in Pieced(f, t)
  <2>1. Len(TextOf(s.blocks)) = a
    <3> DEFINE u == TextOf(s.blocks)
               v == s.block.value
    <3>1. u \in Seq(C) /\ v \in Seq(C)
      BY <1>1, BlocksValued, TextTyped DEF CutSet, BlockSet
    <3>2. u \o v = SubSeq(t, 1, i) /\ v = SubSeq(t, a + 1, i)
      BY <1>3, <1>4 DEF ReadBlocks
    <3>3. a \in 0 .. n /\ i \in a .. n /\ 0 \in 0 .. n /\ i \in 0 .. n
      BY <1>1
    <3>4. Len(SubSeq(t, 0 + 1, i)) = i - 0 /\ Len(v) = i - a
      BY <3>2, <3>3, Pieces DEF n
    <3> HIDE DEF u, v
    <3>5. Len(u \o v) = Len(u) + Len(v) /\ Len(u) \in Nat
      BY <3>1
    <3>6. Len(u \o v) = i
      BY <3>2, <3>3, <3>4
    <3>7. Len(v) = i - a /\ a \in Nat /\ i \in Nat
      BY <1>1, <3>3, <3>4
    <3>8. Len(u) = a
      <4> DEFINE k == Len(u \o v)
                 l == Len(u)
                 m == Len(v)
      <4>1. k = l + m /\ l \in Nat /\ k = i /\ m = i - a
        BY <3>5, <3>6, <3>7
      <4> HIDE DEF k, l, m
      <4>2. l = a
        BY <3>7, <4>1
      <4> QED BY <4>2 DEF l
    <3> QED BY <3>8 DEF u
  <2>2. Len(b.value) = j - a
    BY <1>1, <1>8, Pieces DEF n
  <2>3. a \in 0 .. Len(t) /\ j \in 1 .. Len(t) /\ a + (j - a) = j /\ a < j /\ j - 1 = i
    BY <1>1 DEF n
  <2>4. Cut(f, t, j) \/ j = Len(t)
    BY <1>5, <1>10 DEF n
  <2>5. <<a, j, SubSeq(t, a + 1, j)>> \in Pieced(f, t)
    BY <1>4, <2>3, <2>4 DEF Pieced
  <2> QED BY <1>8, <2>1, <2>2, <2>3, <2>5
<1>11. Spans(r.blocks, Pieced(f, t))
  <2>1. CASE cut \/ j = n
    <3> DEFINE p == s.blocks
               R == Pieced(f, t)
    <3>1. p \in Seq(BlockSet(C)) /\ Valued(BlockSet(C), C)
      BY <1>1, BlocksValued DEF CutSet
    <3>2. Spans(p, R) /\ <<Len(TextOf(p)), Len(TextOf(p)) + Len(b.value), b.value>> \in R
      BY <1>3, <1>10, <2>1
    <3>3. r.blocks = Append(p, b)
      BY <1>7, <2>1
    <3> HIDE DEF p, R
    <3>4. Spans(Append(p, b), R)
      BY <1>7, <3>1, <3>2, SpansAppend
    <3> QED BY <3>3, <3>4 DEF R
  <2>2. CASE ~(cut \/ j = n)
    <3>1. r.blocks = s.blocks
      BY <1>7, <2>2
    <3> QED BY <1>3, <3>1
  <2> QED BY <2>1, <2>2
<1>12. j = n => r.block.value = <<>>
  BY <1>7 DEF NoBlock
<1>13. ASSUME j < n
       PROVE  \E e \in 0 .. j : Open(f, t, e, j) /\ r.block.value = SubSeq(t, e + 1, j)
  <2>1. CASE cut
    <3>1. Open(f, t, j, j)
      BY <1>1, <1>5, <2>1 DEF Open, n
    <3>2. r.block.value = <<>>
      BY <1>7, <2>1 DEF NoBlock
    <3>3. SubSeq(t, j + 1, j) = <<>>
      BY <1>1, Pieces DEF n
    <3> QED BY <1>1, <3>1, <3>2, <3>3
  <2>2. CASE ~cut
    <3>1. Open(f, t, a, j)
      BY <1>1, <1>4, <1>5, <2>2 DEF Open, n
    <3>2. j # n
      BY <1>1, <1>13
    <3>3. r.block.value = SubSeq(t, a + 1, j)
      BY <1>7, <1>8, <2>2, <3>2
    <3> QED BY <1>1, <3>1, <3>3
  <2> QED BY <2>1, <2>2
<1> QED BY <1>9, <1>11, <1>12, <1>13 DEF CutUpTo, r, n

\* The blocks of a text are all of it, and statements of it.
LEMMA BlocksCut ==
  ASSUME NEW C, NEW t \in Seq(C), NEW f \in [0 .. Len(t) -> CutSet(C)], CutText(f, t)
  PROVE  /\ TextOf(f[Len(t)].blocks) = t
         /\ Spans(f[Len(t)].blocks, Pieced(f, t))
         /\ \A b \in DOMAIN f[Len(t)].blocks : Piece(f, t, f[Len(t)].blocks[b].value)
<1> DEFINE n == Len(t)
           S == {k \in Nat : k <= n => CutUpTo(f, t, k)}
<1>1. n \in Nat
  OBVIOUS
<1>2. 0 \in S
  <2>1. f[0].blocks = <<>> /\ f[0].block.value = <<>>
    BY CutAt0
  <2>2. <<>> \o <<>> = <<>> /\ SubSeq(t, 1, 0) = <<>>
    BY Prefixes
  <2>3. ReadBlocks(f[0]) = SubSeq(t, 1, 0)
    BY <2>1, <2>2, TextEmpty, Zenon DEF ReadBlocks
  <2>4. Open(f, t, 0, 0) /\ SubSeq(t, 0 + 1, 0) = <<>>
    BY Prefixes DEF Open, Cut
  <2>5. CutUpTo(f, t, 0)
    <3>1. Spans(<<>>, Pieced(f, t))
      BY DEF Spans
    <3> QED BY <2>1, <2>3, <2>4, <3>1 DEF CutUpTo
  <2> QED BY <2>5
<1>3. ASSUME NEW k \in Nat, k \in S PROVE k + 1 \in S
  <2> SUFFICES ASSUME k + 1 <= n PROVE CutUpTo(f, t, k + 1)
    OBVIOUS
  <2> DEFINE j == k + 1
  <2>1. j \in 1 .. n /\ CutUpTo(f, t, j - 1)
    BY <1>1, <1>3
  <2> HIDE DEF j
  <2>2. CutUpTo(f, t, j)
    BY <2>1, CutStep
  <2> QED BY <2>2 DEF j
<1>4. n \in S
  BY <1>1, <1>2, <1>3, SetInduction
<1>5. CutUpTo(f, t, n)
  BY <1>1, <1>4
<1> DEFINE s == f[n]
<1>6. s \in CutSet(C) /\ s.block.value = <<>> /\ ReadBlocks(s) = t
  BY <1>1, <1>5, Prefixes DEF CutUpTo
<1>7. Spans(s.blocks, Pieced(f, t))
  BY <1>5 DEF CutUpTo
<1> HIDE DEF s
<1>8. TextOf(s.blocks) \in Seq(C)
  BY <1>6, BlocksValued, TextTyped DEF CutSet
<1>9. TextOf(s.blocks) = t
  BY <1>6, <1>8 DEF ReadBlocks
<1>10. ASSUME NEW k \in DOMAIN s.blocks PROVE Piece(f, t, s.blocks[k].value)
  <2> DEFINE x == <<EndOf(s.blocks, k - 1), EndOf(s.blocks, k), s.blocks[k].value>>
  <2>1. x \in Pieced(f, t)
    <3>1. k \in 1 .. Len(s.blocks)
      BY <1>6 DEF CutSet
    <3> QED BY <1>7, <3>1 DEF Spans
  <2>2. x[3] = s.blocks[k].value
    OBVIOUS
  <2> HIDE DEF x
  <2>3. PICK a \in 0 .. Len(t), z \in 1 .. Len(t) : x = <<a, z, SubSeq(t, a + 1, z)>>
    BY <2>1 DEF Pieced
  <2>4. a < z /\ Open(f, t, a, z - 1)
    BY <2>1, <2>3 DEF Pieced
  <2> QED BY <2>2, <2>3, <2>4 DEF Piece
<1> QED BY <1>7, <1>9, <1>10 DEF s

LEMMA WindowAt ==
  ASSUME NEW C, NEW t \in Seq(C), NEW i \in 1 .. Len(t)
  PROVE  /\ Window(t, i).c = t[i]
         /\ i + 1 \in 1 .. Len(t) => Window(t, i).n = t[i + 1]
         /\ i - 1 \in 1 .. Len(t) => Window(t, i).p = t[i - 1]
<1>1. DOMAIN t = 1 .. Len(t)
  OBVIOUS
<1>2. /\ Window(t, i).c = Char(t, i) /\ Window(t, i).n = Char(t, i + 1)
      /\ Window(t, i).p = Char(t, i - 1)
  BY DEF Window
<1> QED BY <1>1, <1>2, Zenon DEF Char

\* A statement of a text, taken alone, is one statement: its own scan begins
\* outside of all modes, as the scan of the text did there, and goes the same way.
LEMMA PieceIsOne ==
  ASSUME NEW C, NEW t \in Seq(C), NEW f \in [0 .. Len(t) -> CutSet(C)], CutText(f, t),
         NEW v, Piece(f, t, v)
  PROVE  Len(GetBlocks(v)) = 1
<1>1. PICK a \in 0 .. Len(t), z \in 1 .. Len(t) :
        a < z /\ Open(f, t, a, z - 1) /\ v = SubSeq(t, a + 1, z)
  BY DEF Piece
<1> DEFINE m == z - a
<1>2. m \in Nat /\ m # 0 /\ z \in a .. Len(t) /\ a \in Nat /\ Len(t) \in Nat
  BY <1>1
<1>3. v \in Seq(C) /\ Len(v) = m /\ \A j \in 1 .. m : v[j] = t[a + j]
  BY <1>1, <1>2, Pieces
<1>4. PICK g \in [0 .. Len(v) -> CutSet(C)] :
        /\ g[0] = BlockStart /\ \A i \in 1 .. Len(v) : g[i] = BlockTurn(g[i - 1], v, i)
        /\ GetBlocks(v) = g[Len(v)].blocks
  <2>1. v \in Seq(C)
    BY <1>3
  <2> QED BY <2>1, BlocksScanned
<1>5. /\ g \in [0 .. m -> CutSet(C)]
      /\ g[0] = BlockStart /\ \A i \in 1 .. m : g[i] = BlockTurn(g[i - 1], v, i)
      /\ GetBlocks(v) = g[m].blocks
  BY <1>3, <1>4
<1>6. CutText(g, v)
  BY <1>3, <1>5 DEF CutText
<1> HIDE DEF m
<1> DEFINE S == {k \in Nat : k < m => g[k].mode = f[a + k].mode /\ g[k].blocks = <<>>}
<1>7. 0 \in S
  <2>1. g[0].mode = "none" /\ g[0].blocks = <<>>
    BY <1>3, <1>6, CutAt0
  <2>2. f[a].mode = "none"
    BY <1>1, CutAt0 DEF Open, Cut
  <2> QED BY <1>2, <2>1, <2>2
<1>8. ASSUME NEW k \in Nat, k \in S PROVE k + 1 \in S
  <2> SUFFICES ASSUME k + 1 < m
               PROVE  g[k + 1].mode = f[a + (k + 1)].mode /\ g[k + 1].blocks = <<>>
    OBVIOUS
  <2> DEFINE j == k + 1
             h == a + j
             w == Window(v, j)
             y == Window(t, h)
  <2>1. /\ j \in 1 .. m /\ j # m /\ j - 1 = k /\ j + 1 \in 1 .. m
        /\ h \in 1 .. Len(t) /\ h + 1 \in 1 .. Len(t) /\ h - 1 = a + k /\ h + 1 = a + (j + 1)
        /\ h \in a + 1 .. z - 1 /\ k \in 0 .. m /\ a + k \in 0 .. Len(t)
    BY <1>2 DEF m
  <2>2. g[k].mode = f[a + k].mode /\ g[k].blocks = <<>>
    BY <1>2, <1>8, <2>1
  <2> HIDE DEF h, j
  <2>3. w.c = y.c /\ w.n = y.n
    <3>1. w.c = v[j] /\ w.n = v[j + 1]
      BY <1>3, <2>1, WindowAt
    <3>2. y.c = t[h] /\ y.n = t[h + 1]
      BY <2>1, WindowAt
    <3> QED BY <1>3, <2>1, <3>1, <3>2 DEF h
  <2>4. w.p = y.p \/ f[a + k].mode = "none"
    <3>1. CASE k = 0
      BY <1>7, <3>1, <1>2, <2>2, <1>3, <1>6, CutAt0
    <3>2. CASE k # 0
      <4>1. k \in 1 .. m /\ j - 1 \in 1 .. m /\ h - 1 \in 1 .. Len(t)
        BY <1>2, <2>1, <3>2
      <4>2. w.p = v[j - 1]
        BY <1>3, <2>1, <4>1, WindowAt
      <4>3. y.p = t[h - 1]
        BY <2>1, <4>1, WindowAt
      <4> QED BY <1>3, <2>1, <4>1, <4>2, <4>3
    <3> QED BY <3>1, <3>2
  <2> DEFINE q == f[a + k].mode
  <2>5. BlockMode(q, w) = BlockMode(q, y)
    <3>1. w.p = y.p \/ q = "none"
      BY <2>4
    <3> HIDE DEF w, y, q
    <3> QED BY <2>3, <3>1, BlockModeLocal
  <2>6. EndsOrGoesOn(C, v, j, g[k], g[j])
    <3> DEFINE s == g[k]
               r == g[j]
    <3>1. s \in CutSet(C) /\ r = BlockTurn(s, v, j) /\ j \in 1 .. Len(v)
      BY <1>3, <1>5, <2>1
    <3> HIDE DEF s, r
    <3>2. EndsOrGoesOn(C, v, j, s, r)
      BY <1>3, <3>1, BlockTurned
    <3> QED BY <3>2 DEF s, r
  <2>7. EndsOrGoesOn(C, t, h, f[a + k], f[h])
    <3> DEFINE s == f[a + k]
               r == f[h]
    <3>1. s \in CutSet(C) /\ r = BlockTurn(s, t, h)
      BY <2>1 DEF CutText
    <3> HIDE DEF s, r
    <3>2. EndsOrGoesOn(C, t, h, s, r)
      BY <2>1, <3>1, BlockTurned
    <3> QED BY <3>2 DEF s, r
  <2>8. g[j].mode = f[h].mode
    <3>1. g[j].mode = BlockMode(g[k].mode, w)
      BY <2>6 DEF EndsOrGoesOn
    <3>2. f[h].mode = BlockMode(q, y)
      BY <2>7 DEF EndsOrGoesOn
    <3> QED BY <2>2, <2>5, <3>1, <3>2
  <2>9. ~(f[h].mode = "none" /\ t[h] = ";")
    <3>1. ~Cut(f, t, h)
      BY <1>1, <2>1 DEF Open
    <3> QED BY <2>1, <3>1, Zenon DEF Cut
  <2>10. v[j] = t[h]
    BY <1>3, <2>1 DEF h
  <2>11. ~((g[j].mode = "none" /\ v[j] = ";") \/ j = Len(v))
    BY <1>3, <2>1, <2>8, <2>9, <2>10
  <2>12. g[j].blocks = g[k].blocks
    BY <2>6, <2>11 DEF EndsOrGoesOn
  <2> QED BY <2>2, <2>8, <2>12 DEF h, j
<1>9. m - 1 \in S /\ m - 1 \in Nat
  <2>1. m - 1 \in Nat
    BY <1>2
  <2> HIDE DEF S
  <2> QED BY <1>7, <1>8, <2>1, SetInduction
<1> DEFINE s == g[m - 1]
           r == g[m]
<1>10. s.blocks = <<>>
  BY <1>2, <1>9
<1>11. s \in CutSet(C) /\ r = BlockTurn(s, v, m) /\ m \in 1 .. Len(v) /\ m = Len(v)
  BY <1>2, <1>3, <1>5
<1>12. GetBlocks(v) = r.blocks
  BY <1>5
<1> HIDE DEF s, r, S
<1>13. EndsOrGoesOn(C, v, m, s, r)
  BY <1>3, <1>11, BlockTurned
<1>14. \E b : r.blocks = Append(<<>>, b)
  BY <1>10, <1>11, <1>13 DEF EndsOrGoesOn
<1>15. \A b : Len(Append(<<>>, b)) = 1
  OBVIOUS
<1> QED BY <1>12, <1>14, <1>15

LEMMA AllStatements == TextInv => BlocksAreStatements
<1> SUFFICES ASSUME TextInv PROVE BlocksAreStatements
  OBVIOUS
<1> DEFINE C == keys.chars
           bs == GetBlocks(text)
<1>1. text \in Seq(C)
  BY DEF TextInv
<1> HIDE DEF C
<1>2. PICK f \in [0 .. Len(text) -> CutSet(C)] :
        /\ f[0] = BlockStart /\ \A i \in 1 .. Len(text) : f[i] = BlockTurn(f[i - 1], text, i)
        /\ bs = f[Len(text)].blocks
  BY <1>1, BlocksScanned
<1>3. CutText(f, text)
  BY <1>2 DEF CutText
<1>4. TextOf(bs) = text /\ \A k \in DOMAIN bs : Piece(f, text, bs[k].value)
  BY <1>1, <1>2, <1>3, BlocksCut
<1>5. \A k \in DOMAIN bs : Len(GetBlocks(bs[k].value)) = 1
  BY <1>1, <1>3, <1>4, PieceIsOne
<1> QED BY <1>4, <1>5 DEF BlocksAreStatements

\* Every text is cut into statements, each of which is one when it is sent alone
\* (getBlocks of monaco.ts).
THEOREM TextsAreCut == Spec => []BlocksAreStatements
BY TextOfKeys, AllStatements, PTL

-----------------------------------------------------------------------------
(* The name under the cursor.                                              *)

\* A set of numbers up to n has a largest one.
LEMMA LargestUpTo ==
  ASSUME NEW n \in Nat, NEW Q, NEW e \in Q, Q \subseteq 1 .. n
  PROVE  \E l \in Q : \A k \in Q : k <= l
<1> DEFINE S == {m \in Nat : m <= n /\ (\A k \in Q : k <= m) => \E l \in Q : \A k \in Q : k <= l}
<1>1. 0 \in S
  OBVIOUS
<1>2. ASSUME NEW m \in Nat, m \in S PROVE m + 1 \in S
  <2> SUFFICES ASSUME m + 1 <= n, \A k \in Q : k <= m + 1
               PROVE  \E l \in Q : \A k \in Q : k <= l
    OBVIOUS
  <2>1. CASE m + 1 \in Q
    BY <2>1
  <2>2. CASE m + 1 \notin Q
    <3>1. \A k \in Q : k <= m
      BY <2>2
    <3> QED BY <1>2, <3>1
  <2> QED BY <2>1, <2>2
<1>3. n \in S
  BY <1>1, <1>2, SetInduction
<1>4. \A k \in Q : k <= n
  OBVIOUS
<1> QED BY <1>3, <1>4

\* Pieces that are not empty.
Filled(P, C) == \A x \in P : x.value \in Seq(C) /\ x.value # <<>>

LEMMA FilledTokens == ASSUME NEW C PROVE Filled(TokenSet(C), C)
BY DEF Filled, TokenSet

\* Each of them ends behind the one before.
LEMMA EndsGrow ==
  ASSUME NEW C, NEW P, Filled(P, C), NEW p \in Seq(P)
  PROVE  /\ EndOf(p, 0) = 0 /\ EndOf(p, Len(p)) = Len(TextOf(p))
         /\ \A k \in 0 .. Len(p) : EndOf(p, k) \in Nat
         /\ \A k \in 1 .. Len(p) : EndOf(p, k - 1) < EndOf(p, k)
<1>1. Valued(P, C)
  BY DEF Filled, Valued
<1>2. EndOf(p, 0) = 0
  <2>1. SubSeq(p, 1, 0) = <<>> /\ Len(<<>>) = 0
    OBVIOUS
  <2> QED BY <2>1, TextEmpty, Zenon DEF EndOf
<1>3. EndOf(p, Len(p)) = Len(TextOf(p))
  <2>1. SubSeq(p, 1, Len(p)) = p
    OBVIOUS
  <2> QED BY <2>1, Zenon DEF EndOf
<1>4. ASSUME NEW k \in 0 .. Len(p) PROVE EndOf(p, k) \in Nat
  <2>1. SubSeq(p, 1, k) \in Seq(P)
    OBVIOUS
  <2>2. TextOf(SubSeq(p, 1, k)) \in Seq(C)
    BY <1>1, <2>1, TextTyped
  <2> QED BY <2>2 DEF EndOf
<1>5. ASSUME NEW k \in 1 .. Len(p) PROVE EndOf(p, k - 1) < EndOf(p, k)
  <2> DEFINE q == SubSeq(p, 1, k - 1)
             x == p[k]
  <2>1. q \in Seq(P) /\ x \in P /\ SubSeq(p, 1, k) = Append(q, x)
    OBVIOUS
  <2>2. EndOf(p, k - 1) = Len(TextOf(q)) /\ EndOf(p, k) = Len(TextOf(Append(q, x)))
    BY <2>1 DEF EndOf
  <2> HIDE DEF q, x
  <2>3. Len(TextOf(Append(q, x))) = Len(TextOf(q)) + Len(x.value)
    BY <1>1, <2>1, EndsAppend
  <2>4. TextOf(q) \in Seq(C)
    BY <1>1, <2>1, TextTyped
  <2>5. x.value \in Seq(C) /\ x.value # <<>>
    BY <2>1 DEF Filled
  <2>6. Len(TextOf(q)) \in Nat /\ Len(x.value) \in Nat /\ Len(x.value) > 0
    BY <2>4, <2>5
  <2> QED BY <2>2, <2>3, <2>6
<1> QED BY <1>2, <1>3, <1>4, <1>5

\* And behind all before it.
LEMMA EndsOrdered ==
  ASSUME NEW C, NEW P, Filled(P, C), NEW p \in Seq(P), NEW l \in 0 .. Len(p), NEW k \in 0 .. Len(p),
         k < l
  PROVE  EndOf(p, k) < EndOf(p, l)
<1> DEFINE n == Len(p)
           E(i) == EndOf(p, i)
           S == {m \in Nat : m <= n => \A i \in 0 .. n : i < m => E(i) < E(m)}
<1>1. /\ \A i \in 0 .. n : E(i) \in Nat
      /\ \A i \in 1 .. n : E(i - 1) < E(i)
  BY EndsGrow
<1>2. n \in Nat
  OBVIOUS
<1> HIDE DEF n, E
<1>3. 0 \in S
  OBVIOUS
<1>4. ASSUME NEW m \in Nat, m \in S PROVE m + 1 \in S
  <2> SUFFICES ASSUME m + 1 <= n, NEW i \in 0 .. n, i < m + 1 PROVE E(i) < E(m + 1)
    OBVIOUS
  <2> DEFINE j == m + 1
  <2>1. j \in 1 .. n /\ j - 1 = m /\ m \in 0 .. n /\ j \in 0 .. n
    BY <1>2
  <2>2. i = m \/ i < m
    OBVIOUS
  <2>3. i = m \/ E(i) < E(m)
    BY <1>4, <2>1, <2>2
  <2> HIDE DEF j
  <2>4. E(m) < E(j)
    BY <1>1, <2>1
  <2>5. E(i) \in Nat /\ E(m) \in Nat /\ E(j) \in Nat
    BY <1>1, <2>1
  <2> QED BY <2>3, <2>4, <2>5 DEF j
<1>5. l \in S
  <2>1. l \in Nat
    OBVIOUS
  <2> HIDE DEF S
  <2> QED BY <1>3, <1>4, <2>1, SetInduction
<1>6. l <= n
  BY DEF n
<1>7. \A i \in 0 .. n : i < l => E(i) < E(l)
  BY <1>5, <1>6
<1> QED BY <1>7 DEF n, E

\* The cursor at col is on the k-th token or at one of its ends.
At(p, k, col) == k \in 1 .. Len(p) /\ EndOf(p, k - 1) + 1 <= col /\ col <= EndOf(p, k) + 1

\* There is a last token at the cursor; the one before it may be as well.
LEMMA LastAt ==
  ASSUME NEW C, NEW p \in Seq(TokenSet(C)), p # <<>>, NEW col \in 1 .. Len(TextOf(p)) + 1
  PROVE  \E l \in 1 .. Len(p) : /\ At(p, l, col)
                                /\ \A k \in 1 .. Len(p) : At(p, k, col) => k <= l /\ l <= k + 1
<1> DEFINE n == Len(p)
           E(k) == EndOf(p, k)
           Q == {k \in 1 .. n : E(k - 1) + 1 <= col}
<1>1. /\ E(0) = 0 /\ E(n) = Len(TextOf(p)) /\ \A k \in 0 .. n : E(k) \in Nat
      /\ \A k \in 1 .. n : E(k - 1) < E(k)
  BY FilledTokens, EndsGrow
<1>2. n \in Nat /\ n # 0
  OBVIOUS
<1> HIDE DEF n, E
<1>3. 1 \in Q
  <2>1. E(1 - 1) = 0
    BY <1>1
  <2> QED BY <1>1, <1>2, <2>1
<1>4. PICK l \in Q : \A k \in Q : k <= l
  <2>1. Q \subseteq 1 .. n
    OBVIOUS
  <2> HIDE DEF Q
  <2> QED BY <1>2, <1>3, <2>1, LargestUpTo
<1>5. l \in 1 .. n /\ E(l - 1) + 1 <= col /\ l \in 0 .. n /\ E(l) \in Nat
  BY <1>1, <1>2, <1>4
<1>6. col <= E(l) + 1
  <2>1. CASE l = n
    BY <1>1, <2>1
  <2>2. CASE l # n
    <3>1. l + 1 \in 1 .. n /\ ~(l + 1 <= l) /\ (l + 1) - 1 = l
      BY <1>2, <1>5, <2>2
    <3>2. ~(E((l + 1) - 1) + 1 <= col)
      BY <1>4, <3>1
    <3> QED BY <1>1, <1>5, <3>1, <3>2
  <2> QED BY <2>1, <2>2
<1>7. At(p, l, col)
  BY <1>5, <1>6 DEF At, n, E
<1>8. ASSUME NEW k \in 1 .. n, At(p, k, col) PROVE k <= l /\ l <= k + 1
  <2>1. E(k - 1) + 1 <= col /\ col <= E(k) + 1
    BY <1>8 DEF At, E
  <2>2. k \in Q
    BY <2>1
  <2>3. k <= l
    BY <1>4, <2>2
  <2>4. ASSUME k + 1 < l PROVE FALSE
    <3>1. k + 1 \in 1 .. n /\ (k + 1) - 1 = k /\ l - 1 \in k + 1 .. n
      BY <1>2, <1>5, <2>4
    <3>2. k \in 0 .. n /\ l - 1 \in 0 .. n /\ k < l - 1
      BY <1>2, <1>5, <2>4
    <3>3. E(k) < E(l - 1)
      BY <3>2, FilledTokens, EndsOrdered DEF n, E
    <3>4. E(k) \in Nat /\ E(l - 1) \in Nat
      BY <1>1, <3>2
    <3>5. col \in Int
      OBVIOUS
    <3> QED BY <1>5, <2>1, <3>3, <3>4, <3>5
  <2> QED BY <1>2, <1>5, <2>3, <2>4
<1> QED BY <1>5, <1>7, <1>8 DEF n

\* A word next to the token o, when o is none; and one turn of the loop.
BesideOf(tokens, o) ==
  IF o.isWord THEN o
  ELSE LET p == IF Previous(tokens, o).isWord THEN Previous(tokens, o) ELSE o
       IN  IF NextOf(tokens, p).isWord THEN NextOf(tokens, p) ELSE p
Look(tokens, col, i, o) == BesideOf(tokens, IF StandsOn(tokens[i], col) THEN tokens[i] ELSE o)

ObjectSet(C) == TokenSet(C) \cup {NoToken}

LEMMA AtIndexType ==
  ASSUME NEW C, NEW p \in Seq(TokenSet(C)), NEW i \in Int
  PROVE  AtIndex(p, i) \in ObjectSet(C)
<1>1. CASE i >= 0 /\ i < Len(p)
  <2>1. i + 1 \in 1 .. Len(p)
    BY <1>1
  <2>2. p[i + 1] \in TokenSet(C)
    BY <2>1
  <2> QED BY <1>1, <2>2 DEF AtIndex, ObjectSet
<1>2. CASE ~(i >= 0 /\ i < Len(p))
  BY <1>2 DEF AtIndex, ObjectSet
<1> QED BY <1>1, <1>2

LEMMA ObjectIndex == ASSUME NEW C, NEW o \in ObjectSet(C) PROVE o.index \in Int
<1>1. CASE o = NoToken
  BY <1>1 DEF NoToken
<1>2. CASE o \in TokenSet(C)
  BY <1>2 DEF TokenSet
<1> QED BY <1>1, <1>2 DEF ObjectSet

LEMMA LookType ==
  ASSUME NEW C, NEW p \in Seq(TokenSet(C)), NEW col, NEW i \in 1 .. Len(p), NEW o \in ObjectSet(C)
  PROVE  Look(p, col, i, o) \in ObjectSet(C)
<1> DEFINE x == IF StandsOn(p[i], col) THEN p[i] ELSE o
           y == IF Previous(p, x).isWord THEN Previous(p, x) ELSE x
<1>1. x \in ObjectSet(C)
  BY DEF ObjectSet
<1> HIDE DEF x
<1>2. y \in ObjectSet(C)
  BY <1>1, AtIndexType, ObjectIndex DEF Previous
<1>3. NextOf(p, y) \in ObjectSet(C)
  BY <1>2, AtIndexType, ObjectIndex DEF NextOf
<1>4. BesideOf(p, x) = IF x.isWord THEN x ELSE IF NextOf(p, y).isWord THEN NextOf(p, y) ELSE y
  BY DEF BesideOf
<1> HIDE DEF y
<1>5. BesideOf(p, x) \in ObjectSet(C)
  BY <1>1, <1>2, <1>3, <1>4, Zenon
<1> QED BY <1>5 DEF Look, x

\* The search from the first token to the last.
Sought(f, p, col) ==
  f[0] = NoToken /\ \A i \in 1 .. Len(p) : f[i] = Look(p, col, i, f[i - 1])

LEMMA ObjectSought ==
  ASSUME NEW C, NEW t \in Seq(C), NEW col, NEW p, p = TokenizeLine(t)
  PROVE  \E f \in [0 .. Len(p) -> ObjectSet(C)] :
           Sought(f, p, col) /\ GetCurrentObject(t, col) = f[Len(p)]
<1> DEFINE n == Len(p)
           D == ObjectSet(C)
           G == [z \in D \X (1 .. n) |-> Look(p, col, z[2], z[1])]
           F(f) == [i \in 0 .. Len(p) |-> IF i = 0 THEN NoToken ELSE Look(p, col, i, f[i - 1])]
           seen == CHOOSE f : f = F(f)
<1>1. p \in Seq(TokenSet(C))
  BY TokenizeLineReads
<1>2. G \in Steps(D, n) /\ n \in Nat /\ NoToken \in D
  <2>1. ASSUME NEW z \in D \X (1 .. n) PROVE Look(p, col, z[2], z[1]) \in D
    BY <1>1, LookType
  <2> QED BY <1>1, <2>1 DEF Steps, ObjectSet
<1>3. PICK f : Built(f, D, NoToken, n, G)
  <2> HIDE DEF G, D, n
  <2> QED BY <1>2, Recursion
<1>4. \A x \in D, i \in 1 .. n : G[<<x, i>>] = Look(p, col, i, x)
  OBVIOUS
<1> HIDE DEF G
<1>5. /\ f \in [0 .. n -> D] /\ f[0] = NoToken
      /\ \A i \in 1 .. n : f[i] = Look(p, col, i, f[i - 1])
  <2> HIDE DEF D
  <2>1. f \in [0 .. n -> D] /\ f[0] = NoToken
    BY <1>3 DEF Built
  <2>2. ASSUME NEW i \in 1 .. n PROVE f[i] = Look(p, col, i, f[i - 1])
    <3>1. f[i - 1] \in D
      BY <1>2, <2>1
    <3>2. f[i] = G[<<f[i - 1], i>>]
      BY <1>3 DEF Built
    <3> QED BY <1>4, <3>1, <3>2
  <2> QED BY <2>1, <2>2
<1>6. f = F(f)
  <2> HIDE DEF D
  <2> QED BY <1>2, <1>5
<1>7. seen = F(seen)
  BY <1>6
<1>8. GetCurrentObject(t, col) = seen[n]
  BY DEF GetCurrentObject, Look, BesideOf
<1> HIDE DEF seen
<1>9. Follows(seen, D, NoToken, n, G)
  <2> HIDE DEF D
  <2>1. seen[0] = NoToken
    BY <1>2, <1>7
  <2>2. ASSUME NEW i \in 1 .. n, seen[i - 1] \in D PROVE seen[i] = G[<<seen[i - 1], i>>]
    <3>1. seen[i] = Look(p, col, i, seen[i - 1])
      BY <1>2, <1>7
    <3> QED BY <1>4, <2>2, <3>1
  <2> QED BY <2>1, <2>2 DEF Follows
<1>10. \A i \in 0 .. n : seen[i] = f[i]
  <2> HIDE DEF D, n
  <2> QED BY <1>2, <1>3, <1>9, OneRecursion
<1>11. GetCurrentObject(t, col) = f[n]
  BY <1>2, <1>8, <1>10
<1> QED BY <1>5, <1>11 DEF Sought

\* The neighbours of the l-th token; outside of the line they are no words.
LEMMA Neighbours ==
  ASSUME NEW C, NEW p \in Seq(TokenSet(C)), Placed(p), NEW l \in 1 .. Len(p)
  PROVE  /\ Previous(p, p[l]) = IF l > 1 THEN p[l - 1] ELSE NoToken
         /\ NextOf(p, p[l]) = IF l < Len(p) THEN p[l + 1] ELSE NoToken
<1>1. p[l].index = l - 1 /\ Len(p) \in Nat /\ l \in Int
  BY DEF Placed
<1>2. Previous(p, p[l]) = AtIndex(p, l - 2) /\ NextOf(p, p[l]) = AtIndex(p, l)
  <2>1. p[l].index - 1 = l - 2 /\ p[l].index + 1 = l
    BY <1>1
  <2> QED BY <2>1, Zenon DEF Previous, NextOf
<1>3. AtIndex(p, l - 2) = IF l > 1 THEN p[l - 1] ELSE NoToken
  BY <1>1 DEF AtIndex
<1>4. AtIndex(p, l) = IF l < Len(p) THEN p[l + 1] ELSE NoToken
  BY <1>1 DEF AtIndex
<1> QED BY <1>2, <1>3, <1>4

\* What stands for the l-th token: itself or a neighbour, and a word if one of
\* them is; looking once more changes nothing.
LEMMA BesideToken ==
  ASSUME NEW C, NEW p \in Seq(TokenSet(C)), Placed(p), NEW l \in 1 .. Len(p),
         NEW o, o = BesideOf(p, p[l])
  PROVE  /\ BesideOf(p, o) = o
         /\ p[l].isWord => o = p[l]
         /\ ~p[l].isWord /\ l > 1 => (p[l - 1].isWord => o = p[l - 1])
         /\ \E k \in 1 .. Len(p) : o = p[k] /\ k - l \in -1 .. 1
<1>1. /\ Previous(p, p[l]) = IF l > 1 THEN p[l - 1] ELSE NoToken
      /\ NextOf(p, p[l]) = IF l < Len(p) THEN p[l + 1] ELSE NoToken
  BY Neighbours
<1>2. ~NoToken.isWord
  BY DEF NoToken
<1>3. Len(p) \in Nat /\ l \in Int /\ l >= 1 /\ l <= Len(p)
  OBVIOUS
<1> DEFINE prev == Previous(p, p[l])
           next == NextOf(p, p[l])
<1>4. \A x : x.isWord => BesideOf(p, x) = x
  BY DEF BesideOf
<1>5. CASE p[l].isWord
  <2>1. o = p[l]
    BY <1>4, <1>5
  <2> QED BY <1>3, <1>4, <1>5, <2>1
<1>6. CASE ~p[l].isWord /\ prev.isWord
  <2>1. l > 1 /\ prev = p[l - 1]
    BY <1>1, <1>2, <1>6
  <2>2. l - 1 \in 1 .. Len(p) /\ l - 1 < Len(p) /\ (l - 1) + 1 = l
    BY <1>3, <2>1
  <2>3. NextOf(p, p[l - 1]) = p[l]
    <3> DEFINE k == l - 1
    <3>1. k \in 1 .. Len(p) /\ k < Len(p) /\ k + 1 = l
      BY <2>2
    <3> HIDE DEF k
    <3>2. NextOf(p, p[k]) = IF k < Len(p) THEN p[k + 1] ELSE NoToken
      BY <3>1, Neighbours
    <3> QED BY <3>1, <3>2 DEF k
  <2>4. NextOf(p, prev) = p[l]
    BY <2>1, <2>3
  <2>5. o = prev
    BY <1>6, <2>4 DEF BesideOf
  <2> QED BY <1>3, <1>4, <1>6, <2>1, <2>2, <2>5
<1>7. CASE ~p[l].isWord /\ ~prev.isWord /\ next.isWord
  <2>1. o = next
    BY <1>7 DEF BesideOf
  <2>2. l < Len(p) /\ next = p[l + 1]
    BY <1>1, <1>2, <1>7
  <2>3. l + 1 \in 1 .. Len(p) /\ (l + 1) - l \in -1 .. 1
    BY <1>3, <2>2
  <2>4. l > 1 => ~p[l - 1].isWord
    BY <1>1, <1>7
  <2> QED BY <1>4, <1>7, <2>1, <2>2, <2>3, <2>4
<1>8. CASE ~p[l].isWord /\ ~prev.isWord /\ ~next.isWord
  <2>1. o = p[l]
    BY <1>8 DEF BesideOf
  <2>2. l > 1 => ~p[l - 1].isWord
    BY <1>1, <1>8
  <2>3. l - l \in -1 .. 1
    BY <1>3
  <2> QED BY <1>8, <2>1, <2>2, <2>3
<1> QED BY <1>5, <1>6, <1>7, <1>8

\* The object found stands for a word that the cursor touches, if there is one,
\* and is at most the token after one that it touches.
FindsWord(p, o, col) ==
  LET n == Len(p)
      Touches(x) == x.from.col <= col /\ col <= x.to.col
  IN  /\ (\E k \in 1 .. n : p[k].isWord /\ Touches(p[k])) => \E k \in 1 .. n : o = p[k] /\ p[k].isWord /\ Touches(p[k])
      /\ \E k \in 1 .. n : Touches(p[k]) /\ o.index - p[k].index \in -1 .. 1

\* What the last token at the cursor gives is what the search ends with.
LEMMA WordFound ==
  ASSUME NEW C, NEW t \in Seq(C), OneLine(t), NEW col \in 1 .. Len(t) + 1
  PROVE  TokenizeLine(t) # <<>> => FindsWord(TokenizeLine(t), GetCurrentObject(t, col), col)
<1> DEFINE p == TokenizeLine(t)
           n == Len(p)
           o == GetCurrentObject(t, col)
           Touches(x) == x.from.col <= col /\ col <= x.to.col
<1>1. t \in Seq(C)
  OBVIOUS
<1>2. p \in Seq(TokenSet(C)) /\ TextOf(p) = t /\ Placed(p)
  BY <1>1, TokenizeLineReads
<1>3. PICK f : Sought(f, p, col) /\ o = f[n]
  <2>1. p = TokenizeLine(t) /\ o = GetCurrentObject(t, col) /\ n = Len(p)
    OBVIOUS
  <2> HIDE DEF p, o, n
  <2>2. \E f \in [0 .. Len(p) -> ObjectSet(C)] :
          Sought(f, p, col) /\ GetCurrentObject(t, col) = f[Len(p)]
    BY <1>1, <2>1, ObjectSought
  <2> QED BY <2>1, <2>2
<1> HIDE DEF p, o
<1>4. DOMAIN p = 1 .. n /\ n \in Nat /\ (p = <<>> => n = 0) /\ col \in Int
  BY <1>1, <1>2
<1> SUFFICES ASSUME p # <<>>
             PROVE  /\ (\E k \in 1 .. n : p[k].isWord /\ Touches(p[k])) => \E k \in 1 .. n : o = p[k] /\ p[k].isWord /\ Touches(p[k])
                    /\ \E k \in 1 .. n : Touches(p[k]) /\ o.index - p[k].index \in -1 .. 1
  BY DEF FindsWord, p, o
<1>5. PICK l \in 1 .. n : /\ At(p, l, col)
                          /\ \A k \in 1 .. n : At(p, k, col) => k <= l /\ l <= k + 1
  <2>1. col \in 1 .. Len(TextOf(p)) + 1
    BY <1>2
  <2> QED BY <1>2, <2>1, LastAt
<1>6. \A k \in 1 .. n : Touches(p[k]) <=> At(p, k, col)
  BY <1>2 DEF Placed, At
<1>7. \A k \in 1 .. n : StandsOn(p[k], col) <=> Touches(p[k])
  <2>1. ASSUME NEW k \in 1 .. n PROVE StandsOn(p[k], col) <=> Touches(p[k])
    <3>1. p[k] \in TokenSet(C)
      BY <1>2
    <3>2. p[k].from.col \in Int /\ p[k].to.col \in Int
      BY <3>1 DEF TokenSet, Position
    <3> QED BY <1>4, <3>2 DEF StandsOn
  <2> QED BY <2>1
<1> DEFINE b == BesideOf(p, p[l])
<1>8. /\ BesideOf(p, b) = b
      /\ p[l].isWord => b = p[l]
      /\ ~p[l].isWord /\ l > 1 => (p[l - 1].isWord => b = p[l - 1])
      /\ \E k \in 1 .. n : b = p[k] /\ k - l \in -1 .. 1
  BY <1>2, BesideToken
<1> DEFINE S == {m \in Nat : l + m <= n => f[l + m] = b}
<1>9. 0 \in S
  <2>1. f[l] = Look(p, col, l, f[l - 1]) /\ StandsOn(p[l], col)
    BY <1>3, <1>5, <1>6, <1>7 DEF Sought
  <2>2. f[l] = b
    BY <2>1, Zenon DEF Look
  <2>3. l + 0 = l
    BY <1>4
  <2> QED BY <2>2, <2>3
<1>10. ASSUME NEW m \in Nat, m \in S PROVE m + 1 \in S
  <2> SUFFICES ASSUME l + (m + 1) <= n PROVE f[l + (m + 1)] = b
    OBVIOUS
  <2> DEFINE j == l + (m + 1)
  <2>1. j \in 1 .. n /\ j - 1 = l + m /\ l + m <= n /\ ~(j <= l)
    BY <1>4
  <2>2. f[l + m] = b
    BY <1>10, <2>1
  <2> HIDE DEF j, b
  <2>3. f[j] = Look(p, col, j, b)
    BY <1>3, <2>1, <2>2 DEF Sought
  <2>4. ~StandsOn(p[j], col)
    BY <1>5, <1>6, <1>7, <2>1
  <2>5. Look(p, col, j, b) = BesideOf(p, b)
    BY <2>4, Zenon DEF Look
  <2> QED BY <1>8, <2>3, <2>5 DEF j
<1>11. o = b
  <2>1. n - l \in Nat /\ l + (n - l) = n
    BY <1>4
  <2> HIDE DEF S
  <2>2. n - l \in S
    BY <1>9, <1>10, <2>1, SetInduction
  <2> QED BY <1>3, <2>1, <2>2 DEF S
<1> HIDE DEF b
<1>12. ASSUME NEW k \in 1 .. n, p[k].isWord, Touches(p[k])
       PROVE  \E j \in 1 .. n : o = p[j] /\ p[j].isWord /\ Touches(p[j])
  <2>1. k = l \/ k = l - 1
    BY <1>5, <1>6, <1>12
  <2>2. Touches(p[l])
    BY <1>5, <1>6
  <2>3. CASE p[l].isWord
    BY <1>8, <1>11, <2>2, <2>3
  <2>4. CASE ~p[l].isWord
    <3>1. k = l - 1 /\ l > 1
      BY <1>12, <2>1, <2>4
    <3>2. o = p[k]
      BY <1>8, <1>11, <1>12, <2>4, <3>1
    <3> QED BY <1>12, <3>2
  <2> QED BY <2>3, <2>4
<1>13. \E k \in 1 .. n : Touches(p[k]) /\ o.index - p[k].index \in -1 .. 1
  <2>1. PICK k \in 1 .. n : o = p[k] /\ k - l \in -1 .. 1
    BY <1>8, <1>11
  <2>2. p[k].index = k - 1 /\ p[l].index = l - 1
    BY <1>2 DEF Placed
  <2>3. o.index - p[l].index \in -1 .. 1
    BY <2>1, <2>2
  <2> QED BY <1>5, <1>6, <2>3
<1> QED BY <1>12, <1>13

LEMMA AllFound == TextInv => ObjectAtCursor
<1> SUFFICES ASSUME TextInv, OneLine(text), NEW col \in 1 .. Len(text) + 1
             PROVE  LET tokens == TokenizeLine(text)
                        Touches(o, c) == o.from.col <= c /\ c <= o.to.col
                        o == GetCurrentObject(text, col)
                    IN  /\ (\E k \in DOMAIN tokens : tokens[k].isWord /\ Touches(tokens[k], col))
                             => o.isWord /\ Touches(o, col)
                        /\ tokens # <<>> => \E k \in DOMAIN tokens :
                             Touches(tokens[k], col) /\ o.index - tokens[k].index \in -1 .. 1
  BY DEF ObjectAtCursor
<1> DEFINE C == keys.chars
           p == TokenizeLine(text)
           n == Len(p)
           o == GetCurrentObject(text, col)
           Touches(x) == x.from.col <= col /\ col <= x.to.col
<1>1. text \in Seq(C)
  BY DEF TextInv
<1> HIDE DEF C
<1>2. p \in Seq(TokenSet(C)) /\ Placed(p)
  BY <1>1, TokenizeLineReads
<1>3. p = TokenizeLine(text) /\ o = GetCurrentObject(text, col)
  OBVIOUS
<1> HIDE DEF p, o
<1>4. DOMAIN p = 1 .. n /\ n \in Nat /\ (p = <<>> => n = 0)
  BY <1>2
<1> SUFFICES ASSUME p # <<>>
             PROVE  /\ (\E k \in 1 .. n : p[k].isWord /\ Touches(p[k])) => o.isWord /\ Touches(o)
                    /\ \E k \in 1 .. n : Touches(p[k]) /\ o.index - p[k].index \in -1 .. 1
  BY <1>4 DEF p, o
<1>5. FindsWord(p, o, col)
  BY <1>1, <1>3, WordFound
<1>6. (\E k \in 1 .. n : p[k].isWord /\ Touches(p[k])) => \E k \in 1 .. n : o = p[k] /\ p[k].isWord /\ Touches(p[k])
  BY <1>5, Zenon DEF FindsWord
<1>7. \E k \in 1 .. n : Touches(p[k]) /\ o.index - p[k].index \in -1 .. 1
  BY <1>5, Zenon DEF FindsWord
<1> HIDE DEF n, Touches
<1> QED BY <1>6, <1>7, Zenon

\* Object Details takes a word that the cursor touches, if there is one, and
\* never a token further than the next (getCurrentObject of monaco.ts).
THEOREM CursorFindsItsWord == Spec => []ObjectAtCursor
BY TextOfKeys, AllFound, PTL

-----------------------------------------------------------------------------
(***************************************************************************)
(* The two scanners.                                                       *)
(***************************************************************************)

\* What quotes make of a mode that is neither opened nor closed before.
Quoting(m, c) == NameQuotes(Quotes(m, c), c)

LEMMA QuotingApart ==
  ASSUME NEW m \in {"jinja", "line", "multi"}, NEW c
  PROVE  Quoting(m, c) = m
<1>1. Quotes(m, c) = m
  BY DEF Quotes
<1>2. \A o, e, name : name \in {"double", "tick", "bracket"} => Pair(m, c, o, e, name) = m
  BY DEF Pair
<1>3. DoubleQuotes(m, c) = m /\ BackTickQuotes(m, c) = m /\ BracketQuotes(m, c) = m
  BY <1>2 DEF DoubleQuotes, BackTickQuotes, BracketQuotes
<1> QED BY <1>1, <1>3 DEF Quoting, NameQuotes

\* Characters that no quote begins or ends with.
LEMMA QuotingNone ==
  ASSUME NEW c \in {"}", "/", ";"}
  PROVE  Quoting("none", c) = "none"
<1>1. Quotes("none", c) = "none"
  BY DEF Quotes
<1>2. DoubleQuotes("none", c) = "none" /\ BackTickQuotes("none", c) = "none"
      /\ BracketQuotes("none", c) = "none"
  BY DEF DoubleQuotes, BackTickQuotes, BracketQuotes, Pair, BackTick
<1> QED BY <1>1, <1>2 DEF Quoting, NameQuotes

LEMMA QuotingSemicolon ==
  ASSUME NEW m \in QuoteModes
  PROVE  Quoting(m, ";") \in QuoteModes
<1> DEFINE q == Quotes(m, ";")
<1>1. q \in QuoteModes
  BY DEF Quotes, QuoteModes
<1> HIDE DEF q
<1>2. DoubleQuotes(q, ";") = q /\ BackTickQuotes(q, ";") = q /\ BracketQuotes(q, ";") = q
  BY <1>1 DEF DoubleQuotes, BackTickQuotes, BracketQuotes, Pair, BackTick, QuoteModes
<1> QED BY <1>1, <1>2 DEF Quoting, NameQuotes, q

\* Quotes lead to no comment and to no jinja block.
LEMMA QuotingModes ==
  ASSUME NEW m \in {"none"} \cup QuoteModes, NEW c
  PROVE  Quoting(m, c) \in {"none"} \cup QuoteModes
<1> DEFINE S == {"none"} \cup QuoteModes
           q == Quotes(m, c)
<1>1. q \in S
  BY DEF Quotes, QuoteModes
<1>2. LineModes \subseteq S
  BY DEF LineModes, QuoteModes
<1> HIDE DEF q, S
<1>3. NameQuotes(q, c) \in S
  BY <1>1, <1>2, NameQuotesMode
<1> QED BY <1>3 DEF Quoting, q, S

\* The mode after the character w.c, when j says that it closes a jinja block
\* and k that it closes a comment in slashes.
AnyMode(m, w, j, k) == Quoting(Comment(Jinja(m, w, j), w, k), w.c)

LEMMA BothModes ==
  ASSUME NEW m, NEW w
  PROVE  /\ TextMode(m, w) = AnyMode(m, w, w.pp = "}" /\ w.p = "}", w.pp = "*" /\ w.p = "/")
         /\ BlockMode(m, w) = AnyMode(m, w, w.p = "}" /\ w.c = "}", w.p = "*" /\ w.c = "/")
BY DEF TextMode, BlockMode, AnyMode, Quoting

LEMMA SameOutside ==
  ASSUME NEW m \in Modes \ {"jinja", "multi"}, NEW w, NEW j, NEW k, NEW i, NEW l
  PROVE  AnyMode(m, w, j, k) = AnyMode(m, w, i, l)
<1> DEFINE a == Jinja(m, w, j)
<1>1. a = Jinja(m, w, i) /\ a \in Modes \ {"multi"}
  BY DEF Jinja, Modes, CommentModes
<1> HIDE DEF a
<1>2. Comment(a, w, k) = Comment(a, w, l)
  BY <1>1 DEF Comment
<1> QED BY <1>1, <1>2 DEF AnyMode, a

LEMMA OpensJinja ==
  ASSUME NEW m \in Modes \ {"jinja"}, NEW w, NEW j, NEW k, AnyMode(m, w, j, k) = "jinja"
  PROVE  m = "none" /\ w.c = "{" /\ w.n = "{"
<1> SUFFICES ASSUME ~(m = "none" /\ w.c = "{" /\ w.n = "{") PROVE FALSE
  OBVIOUS
<1>1. Jinja(m, w, j) = m
  BY DEF Jinja
<1> DEFINE b == Comment(m, w, k)
<1>2. b \in Modes \ {"jinja"}
  BY DEF Comment, Modes, CommentModes
<1> HIDE DEF b
<1>3. b \in {"line", "multi"} \/ b \in {"none"} \cup QuoteModes
  BY <1>2 DEF Modes, CommentModes
<1>4. Quoting(b, w.c) # "jinja"
  BY <1>3, QuotingApart, QuotingModes DEF QuoteModes
<1> QED BY <1>1, <1>4 DEF AnyMode, b

LEMMA OpensComment ==
  ASSUME NEW m \in Modes \ {"multi"}, NEW w, NEW j, NEW k, AnyMode(m, w, j, k) = "multi"
  PROVE  w.c = "/" /\ w.n = "*"
<1> SUFFICES ASSUME ~(w.c = "/" /\ w.n = "*") PROVE FALSE
  OBVIOUS
<1> DEFINE a == Jinja(m, w, j)
<1>1. a \in Modes \ {"multi"}
  BY DEF Jinja, Modes, CommentModes
<1> HIDE DEF a
<1> DEFINE b == Comment(a, w, k)
<1>2. b \in Modes \ {"multi"}
  BY <1>1 DEF Comment, Modes, CommentModes
<1> HIDE DEF b
<1>3. b \in {"jinja", "line"} \/ b \in {"none"} \cup QuoteModes
  BY <1>2 DEF Modes, CommentModes
<1>4. Quoting(b, w.c) # "multi"
  BY <1>3, QuotingApart, QuotingModes DEF QuoteModes
<1> QED BY <1>4 DEF AnyMode, a, b

LEMMA InJinja ==
  ASSUME NEW w, NEW j, NEW k
  PROVE  /\ ~j => AnyMode("jinja", w, j, k) = "jinja"
         /\ j /\ w.c = "}" => AnyMode("jinja", w, j, k) = "none"
         /\ j => AnyMode("jinja", w, j, k) = Quoting(Comment("none", w, k), w.c)
<1>1. /\ ~j => Jinja("jinja", w, j) = "jinja"
      /\ j => Jinja("jinja", w, j) = "none"
  BY DEF Jinja
<1>2. Comment("jinja", w, k) = "jinja"
  BY DEF Comment
<1>3. w.c = "}" => Comment("none", w, k) = "none"
  BY DEF Comment
<1>4. Quoting("jinja", w.c) = "jinja" /\ (w.c = "}" => Quoting("none", w.c) = "none")
  BY QuotingApart, QuotingNone
<1> QED BY <1>1, <1>2, <1>3, <1>4 DEF AnyMode

LEMMA InComment ==
  ASSUME NEW w, NEW j, NEW k
  PROVE  /\ ~k => AnyMode("multi", w, j, k) = "multi"
         /\ k /\ w.c = "/" => AnyMode("multi", w, j, k) = "none"
         /\ k => AnyMode("multi", w, j, k) = Quoting("none", w.c)
<1>1. Jinja("multi", w, j) = "multi"
  BY DEF Jinja
<1>2. /\ ~k => Comment("multi", w, k) = "multi"
      /\ k => Comment("multi", w, k) = "none"
  BY DEF Comment
<1>3. Quoting("multi", w.c) = "multi" /\ (w.c = "/" => Quoting("none", w.c) = "none")
  BY QuotingApart, QuotingNone
<1> QED BY <1>1, <1>2, <1>3 DEF AnyMode

LEMMA OutsideAll ==
  ASSUME NEW w, NEW j, NEW k, ~(w.c = "{" /\ w.n = "{")
  PROVE  /\ AnyMode("none", w, j, k) = Quoting(Comment("none", w, k), w.c)
         /\ ~(w.c = "-" /\ w.n = "-") /\ ~(w.c = "/" /\ w.n = "*")
              => AnyMode("none", w, j, k) = Quoting("none", w.c)
<1>1. Jinja("none", w, j) = "none"
  BY DEF Jinja
<1>2. ~(w.c = "-" /\ w.n = "-") /\ ~(w.c = "/" /\ w.n = "*") => Comment("none", w, k) = "none"
  BY DEF Comment
<1> QED BY <1>1, <1>2 DEF AnyMode

\* The modes x of the editor and y of the parser after the characters v.p and v.c:
\* the same, unless these two end a block that only the editor has left.
Agree(x, y, v) ==
  \/ /\ x = y
     /\ x = "jinja" => ~(v.p = "}" /\ v.c = "}")
     /\ x = "multi" => ~(v.p = "*" /\ v.c = "/")
  \/ x = "none" /\ y = "jinja" /\ v.p = "}" /\ v.c = "}"
  \/ x = "none" /\ y = "multi" /\ v.p = "*" /\ v.c = "/"

\* The window w is not at the place that Opened looks for.
Closed(w) ==
  /\ ~(w.pp = "}" /\ w.p = "}" /\ w.c = "{" /\ w.n = "{")
  /\ ~(w.pp = "*" /\ w.p = "/" /\ w.c = "{" /\ w.n = "{")
  /\ ~(w.pp = "*" /\ w.p = "/" /\ w.c = "-" /\ w.n = "-")
  /\ ~(w.pp = "*" /\ w.p = "/" /\ w.c = "/" /\ w.n = "*")
  /\ ~(w.p = "*" /\ w.c = "/" /\ w.n = "*")

\* Outside of jinja blocks and comments in slashes, and in both, they go on alike.
LEMMA AgreeAnew ==
  ASSUME NEW m \in Modes, NEW w, Closed(w), NEW x, NEW j, NEW k, x = AnyMode(m, w, j, k),
         m # "jinja", m # "multi"
  PROVE  Agree(x, x, w)
<1>1. x = "jinja" => w.c = "{"
  BY OpensJinja
<1>2. x = "multi" => w.c = "/" /\ w.n = "*"
  BY OpensComment
<1> QED BY <1>1, <1>2 DEF Agree, Closed

LEMMA ModesAgree ==
  ASSUME NEW x \in Modes, NEW y \in Modes, NEW v, NEW w, Agree(x, y, v), Closed(w),
         w.pp = v.p, w.p = v.c
  PROVE  Agree(BlockMode(x, w), TextMode(y, w), w)
<1> DEFINE j == w.pp = "}" /\ w.p = "}"
           k == w.pp = "*" /\ w.p = "/"
           i == w.p = "}" /\ w.c = "}"
           l == w.p = "*" /\ w.c = "/"
           b == BlockMode(x, w)
           t == TextMode(y, w)
<1>1. b = AnyMode(x, w, i, l) /\ t = AnyMode(y, w, j, k)
  BY BothModes
<1>2. /\ j <=> v.p = "}" /\ v.c = "}"
      /\ k <=> v.p = "*" /\ v.c = "/"
  OBVIOUS
<1>3. "none" \in Modes /\ "none" # "jinja" /\ "none" # "multi"
  BY DEF Modes
<1>4. CASE x = y /\ x # "jinja" /\ x # "multi"
  <2> HIDE DEF i, j, k, l, b, t
  <2>1. b = t
    BY <1>1, <1>4, SameOutside
  <2>2. Agree(b, b, w)
    BY <1>1, <1>4, AgreeAnew
  <2> QED BY <2>1, <2>2 DEF b, t
<1>5. CASE x = "jinja" /\ y = "jinja" /\ ~j
  <2>1. t = "jinja" /\ (~i => b = "jinja") /\ (i => b = "none")
    <3>1. i => w.c = "}"
      OBVIOUS
    <3> HIDE DEF i, j, k, l, b, t
    <3> QED BY <1>1, <1>5, <3>1, InJinja
  <2> HIDE DEF b, t
  <2>2. Agree(b, t, w)
    BY <2>1 DEF Agree
  <2> QED BY <2>2 DEF b, t
<1>6. CASE x = "multi" /\ y = "multi" /\ ~k
  <2>1. t = "multi" /\ (~l => b = "multi") /\ (l => b = "none")
    <3>1. l => w.c = "/"
      OBVIOUS
    <3> HIDE DEF i, j, k, l, b, t
    <3> QED BY <1>1, <1>6, <3>1, InComment
  <2> HIDE DEF b, t
  <2>2. Agree(b, t, w)
    BY <2>1 DEF Agree
  <2> QED BY <2>2 DEF b, t
<1>7. CASE x = "none" /\ y = "jinja" /\ j
  <2>1. ~(w.c = "{" /\ w.n = "{")
    BY <1>7 DEF Closed
  <2> HIDE DEF i, j, k, l, b, t
  <2>2. t = Quoting(Comment("none", w, k), w.c)
    BY <1>1, <1>7, InJinja
  <2>3. b = Quoting(Comment("none", w, l), w.c)
    BY <1>1, <1>7, <2>1, OutsideAll
  <2>4. Comment("none", w, k) = Comment("none", w, l)
    BY DEF Comment
  <2>5. Agree(b, b, w)
    BY <1>1, <1>3, <1>7, AgreeAnew
  <2> QED BY <2>2, <2>3, <2>4, <2>5 DEF b, t
<1>8. CASE x = "none" /\ y = "multi" /\ k
  <2>1. ~(w.c = "{" /\ w.n = "{") /\ ~(w.c = "-" /\ w.n = "-") /\ ~(w.c = "/" /\ w.n = "*")
    BY <1>8 DEF Closed
  <2> HIDE DEF i, j, k, l, b, t
  <2>2. t = Quoting("none", w.c)
    BY <1>1, <1>8, InComment
  <2>3. b = Quoting("none", w.c)
    BY <1>1, <1>8, <2>1, OutsideAll
  <2>4. Agree(b, b, w)
    BY <1>1, <1>3, <1>8, AgreeAnew
  <2> QED BY <2>2, <2>3, <2>4 DEF b, t
<1> HIDE DEF b, t
<1>9. \/ x = y /\ x # "jinja" /\ x # "multi"
      \/ x = "jinja" /\ y = "jinja" /\ ~j
      \/ x = "multi" /\ y = "multi" /\ ~k
      \/ x = "none" /\ y = "jinja" /\ j
      \/ x = "none" /\ y = "multi" /\ k
  BY <1>2 DEF Agree
<1> QED BY <1>4, <1>5, <1>6, <1>7, <1>8, <1>9

\* A character seen through a window is there.
IsChar(c) == c # ""

LEMMA CharThere ==
  ASSUME NEW C, NEW t \in Seq(C), NEW j \in Int, NEW a, IsChar(a), Char(t, j) = a
  PROVE  j \in 1 .. Len(t) /\ t[j] = a /\ a \in C
<1>1. DOMAIN t = 1 .. Len(t) /\ \A k \in 1 .. Len(t) : t[k] \in C
  OBVIOUS
<1>2. j \in DOMAIN t /\ t[j] = a
  BY Zenon DEF Char, IsChar
<1> QED BY <1>1, <1>2

\* And so is a part of the text.
LEMMA SeenFour ==
  ASSUME NEW C, NEW t \in Seq(C), NEW i \in 1 .. Len(t), NEW a, NEW b, NEW c, NEW d,
         IsChar(a), IsChar(b), IsChar(c), IsChar(d),
         Window(t, i).pp = a, Window(t, i).p = b, Window(t, i).c = c, Window(t, i).n = d
  PROVE  Has(t, <<a, b, c, d>>)
<1>1. Char(t, i - 2) = a /\ Char(t, i - 1) = b /\ Char(t, i) = c /\ Char(t, i + 1) = d
  BY DEF Window
<1>2. /\ i - 2 \in 1 .. Len(t) /\ t[i - 2] = a /\ a \in C /\ t[i - 1] = b /\ b \in C
      /\ t[i] = c /\ c \in C /\ i + 1 \in 1 .. Len(t) /\ t[i + 1] = d /\ d \in C
  <2>1. i - 2 \in Int /\ i - 1 \in Int /\ i \in Int /\ i + 1 \in Int
    OBVIOUS
  <2>2. i - 2 \in 1 .. Len(t) /\ t[i - 2] = a /\ a \in C
    BY <1>1, <2>1, CharThere
  <2>3. t[i - 1] = b /\ b \in C
    BY <1>1, <2>1, CharThere
  <2>4. t[i] = c /\ c \in C
    BY <1>1, <2>1, CharThere
  <2>5. i + 1 \in 1 .. Len(t) /\ t[i + 1] = d /\ d \in C
    BY <1>1, <2>1, CharThere
  <2> QED BY <2>2, <2>3, <2>4, <2>5
<1> DEFINE h == i - 3
           part == <<a, b, c, d>>
           u == SubSeq(t, h + 1, h + 4)
<1>3. /\ h \in Nat /\ h + 4 <= Len(t) /\ Len(t) \in Nat
      /\ h + 1 = i - 2 /\ h + 2 = i - 1 /\ h + 3 = i /\ h + 4 = i + 1
  BY <1>2
<1>4. Len(part) = 4 /\ part \in Seq(C)
  BY <1>2
<1>5. part[1] = a /\ part[2] = b /\ part[3] = c /\ part[4] = d
  OBVIOUS
<1> HIDE DEF h
<1>6. u \in Seq(C) /\ Len(u) = 4
  BY <1>3
<1>7. u[1] = t[h + 1] /\ u[2] = t[h + 2] /\ u[3] = t[h + 3] /\ u[4] = t[h + 4]
  BY <1>3
<1> HIDE DEF u, part
<1>8. u = part
  <2>1. u[1] = part[1] /\ u[2] = part[2] /\ u[3] = part[3] /\ u[4] = part[4]
    BY <1>2, <1>3, <1>5, <1>7
  <2>2. \A k \in 1 .. 4 : k = 1 \/ k = 2 \/ k = 3 \/ k = 4
    OBVIOUS
  <2>3. \A k \in 1 .. Len(u) : u[k] = part[k]
    BY <1>6, <2>1, <2>2
  <2> QED BY <1>4, <1>6, <2>3, SeqEqual
<1>9. h \in 0 .. Len(t) - Len(part) /\ h + Len(part) = h + 4
  BY <1>3, <1>4
<1>10. Has(t, part)
  BY <1>8, <1>9 DEF Has, IsInfix, u
<1> QED BY <1>10 DEF part

LEMMA SeenThree ==
  ASSUME NEW C, NEW t \in Seq(C), NEW i \in 1 .. Len(t), NEW b, NEW c, NEW d,
         IsChar(b), IsChar(c), IsChar(d),
         Window(t, i).p = b, Window(t, i).c = c, Window(t, i).n = d
  PROVE  Has(t, <<b, c, d>>)
<1>1. Char(t, i - 1) = b /\ Char(t, i) = c /\ Char(t, i + 1) = d
  BY DEF Window
<1>2. /\ i - 1 \in 1 .. Len(t) /\ t[i - 1] = b /\ b \in C
      /\ t[i] = c /\ c \in C /\ i + 1 \in 1 .. Len(t) /\ t[i + 1] = d /\ d \in C
  <2>1. i - 1 \in Int /\ i \in Int /\ i + 1 \in Int
    OBVIOUS
  <2>2. i - 1 \in 1 .. Len(t) /\ t[i - 1] = b /\ b \in C
    BY <1>1, <2>1, CharThere
  <2>3. t[i] = c /\ c \in C
    BY <1>1, <2>1, CharThere
  <2>4. i + 1 \in 1 .. Len(t) /\ t[i + 1] = d /\ d \in C
    BY <1>1, <2>1, CharThere
  <2> QED BY <2>2, <2>3, <2>4
<1> DEFINE h == i - 2
           part == <<b, c, d>>
           u == SubSeq(t, h + 1, h + 3)
<1>3. /\ h \in Nat /\ h + 3 <= Len(t) /\ Len(t) \in Nat
      /\ h + 1 = i - 1 /\ h + 2 = i /\ h + 3 = i + 1
  BY <1>2
<1>4. Len(part) = 3 /\ part \in Seq(C)
  BY <1>2
<1>5. part[1] = b /\ part[2] = c /\ part[3] = d
  OBVIOUS
<1> HIDE DEF h
<1>6. u \in Seq(C) /\ Len(u) = 3
  BY <1>3
<1>7. u[1] = t[h + 1] /\ u[2] = t[h + 2] /\ u[3] = t[h + 3]
  BY <1>3
<1> HIDE DEF u, part
<1>8. u = part
  <2>1. u[1] = part[1] /\ u[2] = part[2] /\ u[3] = part[3]
    BY <1>2, <1>3, <1>5, <1>7
  <2>2. \A k \in 1 .. 3 : k = 1 \/ k = 2 \/ k = 3
    OBVIOUS
  <2>3. \A k \in 1 .. Len(u) : u[k] = part[k]
    BY <1>6, <2>1, <2>2
  <2> QED BY <1>4, <1>6, <2>3, SeqEqual
<1>9. h \in 0 .. Len(t) - Len(part) /\ h + Len(part) = h + 3
  BY <1>3, <1>4
<1>10. Has(t, part)
  BY <1>8, <1>9 DEF Has, IsInfix, u
<1> QED BY <1>10 DEF part

LEMMA TwoAndTwo ==
  ASSUME NEW a, NEW b, NEW c, NEW d
  PROVE  <<a, b>> \o <<c, d>> = <<a, b, c, d>>
<1> DEFINE C == {a, b, c, d}
           u == <<a, b>> \o <<c, d>>
           v == <<a, b, c, d>>
<1>1. <<a, b>> \in Seq(C) /\ <<c, d>> \in Seq(C) /\ Len(<<a, b>>) = 2 /\ Len(<<c, d>>) = 2
  OBVIOUS
<1>2. v \in Seq(C) /\ Len(v) = 4 /\ v[1] = a /\ v[2] = b /\ v[3] = c /\ v[4] = d
  OBVIOUS
<1>3. u \in Seq(C) /\ Len(u) = 4
  BY <1>1
<1>4. u[1] = a /\ u[2] = b /\ u[3] = c /\ u[4] = d
  OBVIOUS
<1> HIDE DEF u, v
<1>5. \A k \in 1 .. 4 : k = 1 \/ k = 2 \/ k = 3 \/ k = 4
  OBVIOUS
<1>6. \A k \in 1 .. Len(u) : u[k] = v[k]
  BY <1>2, <1>3, <1>4, <1>5
<1>7. u = v
  BY <1>2, <1>3, <1>6, SeqEqual
<1> QED BY <1>7 DEF u, v

LEMMA NowhereOpened ==
  ASSUME NEW C, NEW t \in Seq(C), ~Opened(t), NEW i \in 1 .. Len(t)
  PROVE  Closed(Window(t, i))
<1> DEFINE w == Window(t, i)
<1>1. ~Has(t, <<"}", "}", "{", "{">>) /\ ~Has(t, <<"*", "/", "*">>)
  BY DEF Opened
<1>2. /\ ~Has(t, <<"*", "/", "{", "{">>) /\ ~Has(t, <<"*", "/", "-", "-">>)
      /\ ~Has(t, <<"*", "/", "/", "*">>)
  <2>1. \A open \in {<<"{", "{">>, <<"-", "-">>, <<"/", "*">>} : ~Has(t, <<"*", "/">> \o open)
    BY DEF Opened
  <2>2. /\ <<"*", "/">> \o <<"{", "{">> = <<"*", "/", "{", "{">>
        /\ <<"*", "/">> \o <<"-", "-">> = <<"*", "/", "-", "-">>
        /\ <<"*", "/">> \o <<"/", "*">> = <<"*", "/", "/", "*">>
    BY TwoAndTwo
  <2>3. /\ ~Has(t, <<"*", "/">> \o <<"{", "{">>) /\ ~Has(t, <<"*", "/">> \o <<"-", "-">>)
        /\ ~Has(t, <<"*", "/">> \o <<"/", "*">>)
    BY <2>1
  <2> QED BY <2>2, <2>3
<1>3. IsChar("*") /\ IsChar("/") /\ IsChar("{") /\ IsChar("}") /\ IsChar("-")
  BY Zenon DEF IsChar
<1>4. ~(w.pp = "}" /\ w.p = "}" /\ w.c = "{" /\ w.n = "{")
  BY <1>1, <1>3, SeenFour
<1>5. ~(w.pp = "*" /\ w.p = "/" /\ w.c = "{" /\ w.n = "{")
  BY <1>2, <1>3, SeenFour
<1>6. ~(w.pp = "*" /\ w.p = "/" /\ w.c = "-" /\ w.n = "-")
  BY <1>2, <1>3, SeenFour
<1>7. ~(w.pp = "*" /\ w.p = "/" /\ w.c = "/" /\ w.n = "*")
  BY <1>2, <1>3, SeenFour
<1>8. ~(w.p = "*" /\ w.c = "/" /\ w.n = "*")
  BY <1>1, <1>3, SeenThree
<1> QED BY <1>4, <1>5, <1>6, <1>7, <1>8 DEF Closed

-----------------------------------------------------------------------------
\* Every place of a text is in one of the pieces that make it.
LEMMA PieceFound ==
  ASSUME NEW C, NEW P, Filled(P, C), NEW p \in Seq(P), NEW i \in 1 .. Len(TextOf(p))
  PROVE  /\ PieceOf(p, i) \in 1 .. Len(p)
         /\ EndOf(p, PieceOf(p, i) - 1) < i /\ i <= EndOf(p, PieceOf(p, i))
<1> DEFINE n == Len(p)
           E(k) == EndOf(p, k)
           Q == {k \in 1 .. n : E(k - 1) < i}
<1>1. /\ E(0) = 0 /\ E(n) = Len(TextOf(p)) /\ \A k \in 0 .. n : E(k) \in Nat
  BY EndsGrow
<1>2. n \in Nat
  OBVIOUS
<1>3. 1 \in Q
  <2>1. n # 0
    <3> SUFFICES ASSUME n = 0 PROVE FALSE
      OBVIOUS
    <3>1. Len(TextOf(p)) = 0
      BY <1>1
    <3> QED BY <3>1
  <2> HIDE DEF n, E
  <2>2. i > 0 /\ E(1 - 1) = E(0)
    BY <1>1
  <2> QED BY <1>1, <1>2, <2>1, <2>2
<1>4. i <= E(n) /\ i \in Nat
  BY <1>1
<1> HIDE DEF n, E
<1>5. PICK l \in Q : \A k \in Q : k <= l
  <2>1. Q \subseteq 1 .. n
    OBVIOUS
  <2> HIDE DEF Q
  <2> QED BY <1>2, <1>3, <2>1, LargestUpTo
<1>6. E(l - 1) < i /\ i <= E(l) /\ l \in 1 .. n
  <2>1. CASE l = n
    BY <1>4, <1>5, <2>1
  <2>2. CASE l # n
    <3> DEFINE k == l + 1
    <3>1. k \in 1 .. n /\ k - 1 = l /\ l \in 0 .. n /\ ~(k <= l)
      BY <1>2, <1>5, <2>2
    <3> HIDE DEF k
    <3>2. ~(E(l) < i)
      BY <1>5, <3>1
    <3>3. i <= E(l)
      BY <1>1, <1>4, <3>1, <3>2
    <3> QED BY <1>5, <3>3
  <2> QED BY <2>1, <2>2
<1>7. \E k \in DOMAIN p : EndOf(p, k - 1) < i /\ i <= EndOf(p, k)
  BY <1>6 DEF n, E
<1>8. PieceOf(p, i) \in DOMAIN p /\ EndOf(p, PieceOf(p, i) - 1) < i /\ i <= EndOf(p, PieceOf(p, i))
  BY <1>7, Zenon DEF PieceOf
<1> QED BY <1>8

\* Two modes with the end of a token between them.
Parted(m, k) == \/ ~(m \in CommentModes <=> k \in CommentModes)
                \/ ~(m = "jinja" <=> k = "jinja")

\* A semicolon opens nothing, and closes only what is parted from it.
OpensNothing(m, k) ==
  /\ m = "none" => k = "none"
  /\ k # "none" => ~Parted(m, k)
  /\ m # "none" /\ k = "none" => Parted(m, k)

LEMMA SemicolonTurn ==
  ASSUME NEW m \in Modes, NEW w, w.c = ";", NEW k, k = TextMode(m, w)
  PROVE  OpensNothing(m, k)
<1> DEFINE j == w.pp = "}" /\ w.p = "}"
           l == w.pp = "*" /\ w.p = "/"
<1>1. k = AnyMode(m, w, j, l)
  BY BothModes
<1>2. ~(w.c = "{" /\ w.n = "{") /\ ~(w.c = "-" /\ w.n = "-") /\ ~(w.c = "/" /\ w.n = "*")
      /\ w.c # "\n"
  OBVIOUS
<1>3. Quoting("none", w.c) = "none"
  BY QuotingNone
<1> HIDE DEF j, l
<1>4. CASE m = "none"
  <2>1. k = "none"
    BY <1>1, <1>2, <1>3, <1>4, OutsideAll
  <2> QED BY <1>4, <2>1 DEF OpensNothing, Parted
<1>5. CASE m = "jinja"
  <2>1. Comment("none", w, l) = "none"
    BY <1>2 DEF Comment
  <2>2. k = "jinja" \/ k = "none"
    BY <1>1, <1>3, <1>5, <2>1, InJinja
  <2> QED BY <1>5, <2>2 DEF OpensNothing, Parted
<1>6. CASE m = "multi"
  <2>1. k = "multi" \/ k = "none"
    BY <1>1, <1>3, <1>6, InComment
  <2> QED BY <1>6, <2>1 DEF OpensNothing, Parted, CommentModes
<1>7. CASE m = "line"
  <2>1. Jinja(m, w, j) = "line"
    BY <1>7 DEF Jinja
  <2>2. Comment("line", w, l) = "line"
    BY <1>2 DEF Comment
  <2>3. k = "line"
    BY <1>1, <2>1, <2>2, QuotingApart DEF AnyMode
  <2> QED BY <1>7, <2>3 DEF OpensNothing, Parted
<1>8. CASE m \in QuoteModes
  <2>1. Jinja(m, w, j) = m
    BY <1>8 DEF Jinja, QuoteModes
  <2>2. Comment(m, w, l) = m
    BY <1>8 DEF Comment, QuoteModes
  <2>3. k \in QuoteModes
    BY <1>1, <1>8, <2>1, <2>2, QuotingSemicolon DEF AnyMode
  <2>4. \A q \in QuoteModes : q \notin CommentModes /\ q # "jinja" /\ q # "none"
    BY DEF QuoteModes, CommentModes
  <2>5. /\ m \notin CommentModes /\ m # "jinja" /\ m # "none"
        /\ k \notin CommentModes /\ k # "jinja" /\ k # "none"
    BY <1>8, <2>3, <2>4
  <2> QED BY <2>5 DEF OpensNothing, Parted
<1> QED BY <1>4, <1>5, <1>6, <1>7, <1>8 DEF Modes, CommentModes

\* The tokens p with one more of the value v, unless v is empty.
Pushed(C, p, v, q) ==
  /\ v = <<>> => q = p
  /\ v # <<>> => \E x \in TokenSet(C) : x.value = v /\ q = Append(p, x)

\* A turn that parts two modes pushes the open token; then it takes the character,
\* and pushes the open token if it ends here.
TurnPushes(C, s, w, m, ends, r) ==
  \E p \in Seq(TokenSet(C)), v \in Seq(C) :
    /\ Parted(s.mode, m) => Pushed(C, s.tokens, s.cur.value, p) /\ v = <<>>
    /\ ~Parted(s.mode, m) => p = s.tokens /\ v = s.cur.value
    /\ ends => Pushed(C, p, Append(v, w.c), r.tokens) /\ r.cur.value = <<>>
    /\ ~ends => r.tokens = p /\ r.cur.value = Append(v, w.c)

LEMMA AddPushes ==
  ASSUME NEW C, NEW s \in ScanSet(C)
  PROVE  Pushed(C, s.tokens, s.cur.value, AddToken(s).tokens)
<1>1. AddToken(s).tokens = IF s.cur.value = <<>> THEN s.tokens ELSE Append(s.tokens, Finalize(s))
  BY TokenAdded
<1>2. s.cur.value # <<>> => Finalize(s) \in TokenSet(C) /\ Finalize(s).value = s.cur.value
  BY Finalized
<1> QED BY <1>1, <1>2 DEF Pushed

LEMMA EveryTurnPushes ==
  ASSUME NEW C, NEW s \in ScanSet(C), NEW w, w.c \in C, NEW m \in Modes, NEW level \in Int,
         NEW closes, NEW last, NEW r, r = Turn(s, w, m, level, closes, last)
  PROVE  r \in ScanSet(C) /\ r.mode = m /\ TurnPushes(C, s, w, m, EndsToken(m, w, closes, last), r)
<1> DEFINE read == [s EXCEPT !.at = Advance(@, w.c), !.index = Len(s.tokens),
                             !.mode = m, !.level = level,
                             !.was = IF s.mode # m THEN s.mode ELSE "none"]
           Apart == \/ (s.mode \in CommentModes) # (m \in CommentModes)
                    \/ (s.mode = "jinja") # (m = "jinja")
           a     == IF Apart THEN AddToken(read) ELSE read
           taken == [a EXCEPT !.cur = Add(@, w.c)]
           ends  == EndsToken(m, w, closes, last)
<1>1. read \in ScanSet(C) /\ read.tokens = s.tokens /\ read.cur = s.cur /\ read.mode = m
  <2>1. Advance(s.at, w.c) \in Position /\ Len(s.tokens) \in Int
    BY AdvanceType DEF ScanSet
  <2>2. s.mode \in Modes /\ "none" \in Modes
    BY DEF ScanSet, Modes
  <2> QED BY <2>1, <2>2 DEF ScanSet
<1>2. r = IF ends THEN AddToken(taken) ELSE taken
  BY DEF Turn
<1>3. Apart <=> Parted(s.mode, m)
  BY DEF Parted
<1> HIDE DEF read, Apart, ends
<1>4. /\ a \in ScanSet(C)
      /\ Parted(s.mode, m) => Pushed(C, s.tokens, s.cur.value, a.tokens) /\ a.cur.value = <<>>
      /\ ~Parted(s.mode, m) => a.tokens = s.tokens /\ a.cur.value = s.cur.value
  <2>1. AddToken(read) \in ScanSet(C) /\ AddToken(read).cur.value = <<>>
    BY <1>1, TokenAdded
  <2>2. Pushed(C, read.tokens, read.cur.value, AddToken(read).tokens)
    BY <1>1, AddPushes
  <2>3. CASE Apart
    BY <1>1, <1>3, <2>1, <2>2, <2>3
  <2>4. CASE ~Apart
    BY <1>1, <1>3, <2>4
  <2> QED BY <2>3, <2>4
<1> HIDE DEF a
<1>5. /\ taken \in ScanSet(C) /\ taken.tokens = a.tokens
      /\ taken.cur.value = Append(a.cur.value, w.c)
  BY <1>4, CharacterTaken
<1> HIDE DEF taken
<1>6. AddToken(taken).cur.value = <<>> /\ Pushed(C, taken.tokens, taken.cur.value, AddToken(taken).tokens)
  BY <1>5, TokenAdded, AddPushes
<1>7. /\ ends => Pushed(C, a.tokens, Append(a.cur.value, w.c), r.tokens) /\ r.cur.value = <<>>
      /\ ~ends => r.tokens = a.tokens /\ r.cur.value = Append(a.cur.value, w.c)
  BY <1>2, <1>5, <1>6
<1>8. a.tokens \in Seq(TokenSet(C)) /\ a.cur.value \in Seq(C)
  BY <1>4 DEF ScanSet, BufferSet
<1>9. TurnPushes(C, s, w, m, ends, r)
  <2> DEFINE p == a.tokens
             v == a.cur.value
  <2>1. /\ p \in Seq(TokenSet(C)) /\ v \in Seq(C)
        /\ Parted(s.mode, m) => Pushed(C, s.tokens, s.cur.value, p) /\ v = <<>>
        /\ ~Parted(s.mode, m) => p = s.tokens /\ v = s.cur.value
        /\ ends => Pushed(C, p, Append(v, w.c), r.tokens) /\ r.cur.value = <<>>
        /\ ~ends => r.tokens = p /\ r.cur.value = Append(v, w.c)
    BY <1>4, <1>7, <1>8
  <2> HIDE DEF p, v
  <2> QED BY <2>1 DEF TurnPushes
<1>10. r \in ScanSet(C) /\ r.mode = m
  BY TurnReads
<1> QED BY <1>9, <1>10 DEF ends

LEMMA AmongAppend ==
  ASSUME NEW C, NEW v \in Seq(C), NEW c \in C, NEW S
  PROVE  Among(Append(v, c), S) <=> Among(v, S) /\ c \in S
<1> DEFINE q == Append(v, c)
<1>1. /\ DOMAIN q = 1 .. Len(v) + 1 /\ q[Len(v) + 1] = c /\ Len(v) \in Nat /\ DOMAIN v = 1 .. Len(v)
      /\ \A i \in 1 .. Len(v) : q[i] = v[i]
  OBVIOUS
<1> HIDE DEF q
<1>2. ASSUME Among(v, S), c \in S PROVE Among(q, S)
  <2> SUFFICES ASSUME NEW i \in DOMAIN q PROVE q[i] \in S
    BY DEF Among
  <2>1. i = Len(v) + 1 \/ i \in DOMAIN v
    BY <1>1
  <2> QED BY <1>1, <1>2, <2>1 DEF Among
<1>3. ASSUME Among(q, S) PROVE Among(v, S) /\ c \in S
  <2>1. \A i \in DOMAIN q : q[i] \in S
    BY <1>3 DEF Among
  <2>2. ASSUME NEW i \in DOMAIN v PROVE v[i] \in S
    <3>1. i \in DOMAIN q /\ q[i] = v[i]
      BY <1>1
    <3> QED BY <2>1, <3>1
  <2>3. Len(v) + 1 \in DOMAIN q
    BY <1>1
  <2> QED BY <1>1, <2>1, <2>2, <2>3 DEF Among
<1> QED BY <1>2, <1>3 DEF q

-----------------------------------------------------------------------------
(* Where the parser cuts a text, seen from its scan g.                      *)
Stops(g, t, j) == g[j].mode = "none" /\ t[j] = ";"

\* A piece v from behind a up to z is semicolons at which it cuts, or has none.
Alike(g, t, a, z, v) ==
  \/ Among(v, Semicolon)  /\ \A j \in a + 1 .. z : Stops(g, t, j)
  \/ ~Among(v, Semicolon) /\ \A j \in a + 1 .. z : ~Stops(g, t, j)

TokenSpans(C, g, t) ==
  {x \in (0 .. Len(t)) \X (0 .. Len(t)) \X Seq(C) : Alike(g, t, x[1], x[2], x[3])}

ReadTokens(t, g) ==
  g[0] = Start /\ \A i \in 1 .. Len(t) : g[i] = TextTurn(g[i - 1], t, i)

\* What has been read is the text up to i.
HasRead(s, t, i) == ReadText(s) = SubSeq(t, 1, i)

\* Up to i, the tokens are such pieces, and the open one is: in a mode it has
\* begun and has no semicolon to cut at, and outside it goes on with its kind.
ReadUpTo(C, g, t, i) ==
  LET s == g[i]
      v == s.cur.value
  IN  /\ HasRead(s, t, i)
      /\ Spans(s.tokens, TokenSpans(C, g, t))
      /\ v # <<>> => Alike(g, t, Len(TextOf(s.tokens)), i, v)
      /\ s.mode # "none" /\ i < Len(t) => v # <<>> /\ ~Among(v, Semicolon)
      /\ s.mode = "none" /\ v # <<>> /\ i < Len(t) => (t[i] = ";" <=> t[i + 1] = ";")

\* What the token v, open behind a, may be when the character at j comes to it.
Awaits(g, t, a, j, v) ==
  LET m == g[j - 1].mode
      k == g[j].mode
  IN  /\ m \in Modes /\ k = TextMode(m, Window(t, j))
      /\ v # <<>> => Alike(g, t, a, j - 1, v)
      /\ Parted(m, k) => v = <<>>
      /\ ~Parted(m, k) /\ m # "none" => v # <<>> /\ ~Among(v, Semicolon)
      /\ m = "none" /\ v # <<>> => (t[j - 1] = ";" <=> t[j] = ";")

\* The open token with one character more.
LEMMA AlikeMore ==
  ASSUME NEW C, NEW t \in Seq(C), NEW g, NEW j \in 1 .. Len(t), NEW a \in 0 .. j - 1,
         NEW v \in Seq(C), Len(v) = j - 1 - a, Awaits(g, t, a, j, v)
  PROVE  /\ Alike(g, t, a, j, Append(v, t[j]))
         /\ g[j].mode # "none" => ~Among(Append(v, t[j]), Semicolon)
<1> DEFINE c == t[j]
           i == j - 1
           m == g[i].mode
           k == g[j].mode
           q == Append(v, c)
           w == Window(t, j)
<1>1. c \in C /\ w.c = c /\ j \in Nat /\ i \in Nat /\ a \in Nat /\ j = i + 1
  <2>1. c \in C /\ w.c = c
    BY WindowOfText
  <2>2. j \in Nat /\ i \in Nat /\ a \in Nat /\ j = i + 1
    OBVIOUS
  <2> QED BY <2>1, <2>2
<1>2. c = ";" => /\ m = "none" => k = "none"
                 /\ k # "none" => ~Parted(m, k)
                 /\ m # "none" /\ k = "none" => Parted(m, k)
  <2>1. m \in Modes /\ k = TextMode(m, w)
    BY DEF Awaits
  <2> HIDE DEF c, w, m, k, i, q
  <2>2. w.c = ";" => OpensNothing(m, k)
    BY <2>1, SemicolonTurn
  <2> QED BY <1>1, <2>2 DEF OpensNothing
<1>3. Stops(g, t, j) <=> k = "none" /\ c = ";"
  BY DEF Stops
<1>4. Among(q, Semicolon) <=> Among(v, Semicolon) /\ c = ";"
  <2>1. Among(Append(v, c), Semicolon) <=> Among(v, Semicolon) /\ c \in Semicolon
    <3> HIDE DEF c
    <3> QED BY <1>1, AmongAppend
  <2> QED BY <2>1 DEF Semicolon
<1>5. Stops(g, t, i) <=> m = "none" /\ t[i] = ";"
  BY DEF Stops
<1>6. /\ Parted(m, k) => v = <<>>
      /\ ~Parted(m, k) /\ m # "none" => v # <<>> /\ ~Among(v, Semicolon)
      /\ m = "none" /\ v # <<>> => (t[i] = ";" <=> c = ";")
      /\ v # <<>> => Alike(g, t, a, i, v)
  BY DEF Awaits
<1>7. \A x \in a + 1 .. j : x = j \/ x \in a + 1 .. i
  BY <1>1
<1>8. CASE v = <<>>
  <2>1. Among(v, Semicolon) /\ a = i
    BY <1>1, <1>8 DEF Among
  <2> HIDE DEF c, i, m, k, q, w
  <2>2. c = ";" => k = "none"
    BY <1>2, <1>6, <1>8
  <2>3. \A x \in a + 1 .. j : x = j
    BY <1>1, <2>1
  <2>4. Alike(g, t, a, j, q) /\ (k # "none" => ~Among(q, Semicolon))
    BY <1>3, <1>4, <2>1, <2>2, <2>3 DEF Alike
  <2> QED BY <2>4 DEF q, c, k
<1>9. CASE v # <<>>
  <2>1. i \in a + 1 .. i
    <3>1. Len(v) # 0
      BY <1>9
    <3> QED BY <1>1, <3>1
  <2> HIDE DEF c, i, m, k, q, w
  <2>2. Alike(g, t, a, i, v)
    BY <1>6, <1>9
  <2>3. CASE m # "none"
    <3>1. ~Among(v, Semicolon) /\ ~Stops(g, t, j)
      BY <1>2, <1>3, <1>6, <1>9, <2>3
    <3>2. \A x \in a + 1 .. i : ~Stops(g, t, x)
      BY <2>2, <3>1 DEF Alike
    <3>3. ~Among(q, Semicolon) /\ \A x \in a + 1 .. j : ~Stops(g, t, x)
      BY <1>4, <1>7, <3>1, <3>2
    <3>4. Alike(g, t, a, j, q) /\ ~Among(q, Semicolon)
      BY <3>3 DEF Alike
    <3> QED BY <3>4 DEF q, c
  <2>4. CASE m = "none" /\ c = ";"
    <3>1. Stops(g, t, i) /\ Stops(g, t, j) /\ k = "none"
      BY <1>2, <1>3, <1>5, <1>6, <1>9, <2>4
    <3>2. Among(v, Semicolon) /\ \A x \in a + 1 .. i : Stops(g, t, x)
      BY <2>1, <2>2, <3>1 DEF Alike
    <3>3. Among(q, Semicolon) /\ \A x \in a + 1 .. j : Stops(g, t, x)
      BY <1>4, <1>7, <2>4, <3>1, <3>2
    <3>4. Alike(g, t, a, j, q) /\ k = "none"
      BY <3>1, <3>3 DEF Alike
    <3> QED BY <3>4 DEF q, c, k
  <2>5. CASE m = "none" /\ c # ";"
    <3>1. ~Stops(g, t, i) /\ ~Stops(g, t, j)
      BY <1>3, <1>5, <1>6, <1>9, <2>5
    <3>2. ~Among(v, Semicolon) /\ \A x \in a + 1 .. i : ~Stops(g, t, x)
      BY <2>1, <2>2, <3>1 DEF Alike
    <3>3. ~Among(q, Semicolon) /\ \A x \in a + 1 .. j : ~Stops(g, t, x)
      BY <1>4, <1>7, <2>5, <3>1, <3>2
    <3>4. Alike(g, t, a, j, q) /\ ~Among(q, Semicolon)
      BY <3>3 DEF Alike
    <3> QED BY <3>4 DEF q, c
  <2> QED BY <2>3, <2>4, <2>5
<1> QED BY <1>8, <1>9

\* Behind the tokens p, the piece v would be in R.
Continues(p, v, R) == v # <<>> => <<Len(TextOf(p)), Len(TextOf(p)) + Len(v), v>> \in R

Continued(p, v, q, R) == Spans(q, R) /\ Len(TextOf(q)) = Len(TextOf(p)) + Len(v)

LEMMA PushedSpans ==
  ASSUME NEW C, NEW p \in Seq(TokenSet(C)), NEW v \in Seq(C), NEW q, Pushed(C, p, v, q),
         NEW R, Spans(p, R), Continues(p, v, R)
  PROVE  Continued(p, v, q, R)
<1> DEFINE P == TokenSet(C)
<1>1. Valued(P, C) /\ p \in Seq(P)
  BY TokensValued
<1>2. TextOf(p) \in Seq(C)
  BY <1>1, TextTyped
<1>3. CASE v = <<>>
  <2>1. q = p
    BY <1>3 DEF Pushed
  <2>2. Len(v) = 0 /\ Len(TextOf(p)) \in Nat
    BY <1>2, <1>3
  <2> QED BY <2>1, <2>2 DEF Continued
<1>4. CASE v # <<>>
  <2>1. PICK x \in P : x.value = v /\ q = Append(p, x)
    BY <1>4 DEF Pushed
  <2> HIDE DEF P
  <2>2. <<Len(TextOf(p)), Len(TextOf(p)) + Len(x.value), x.value>> \in R
    BY <1>4, <2>1 DEF Continues
  <2>3. Spans(Append(p, x), R)
    BY <1>1, <2>2, SpansAppend
  <2>4. Len(TextOf(Append(p, x))) = Len(TextOf(p)) + Len(x.value)
    BY <1>1, EndsAppend
  <2> QED BY <2>1, <2>3, <2>4 DEF Continued
<1> QED BY <1>3, <1>4

LEMMA TextTurnPushes ==
  ASSUME NEW C, NEW t \in Seq(C), NEW i \in 1 .. Len(t), NEW s \in ScanSet(C),
         NEW r, r = TextTurn(s, t, i)
  PROVE  LET w == Window(t, i)
             m == TextMode(s.mode, w)
         IN  /\ r \in ScanSet(C) /\ r.mode = m
             /\ TurnPushes(C, s, w, m, EndsToken(m, w, w.c = "/" /\ w.p = "*", i = Len(t)), r)
<1> DEFINE w == Window(t, i)
           m == TextMode(s.mode, w)
           level == s.level + Delta(m, w.c)
           closes == w.c = "/" /\ w.p = "*"
           last == i = Len(t)
<1>1. w.c \in C
  BY WindowOfText
<1>2. m \in Modes /\ level \in Int
  BY TextModeType, DeltaType DEF ScanSet
<1>3. r = Turn(s, w, m, level, closes, last)
  BY DEF TextTurn
<1> HIDE DEF w, m, level, closes, last
<1>4. r \in ScanSet(C) /\ r.mode = m /\ TurnPushes(C, s, w, m, EndsToken(m, w, closes, last), r)
  BY <1>1, <1>2, <1>3, EveryTurnPushes
<1> QED BY <1>4 DEF w, m, closes, last

\* What comes after a character outside of all modes that ends no token.
LEMMA GoesOnAlike ==
  ASSUME NEW C, NEW t \in Seq(C), NEW i \in 1 .. Len(t), NEW closes, i < Len(t),
         ~EndsToken("none", Window(t, i), closes, i = Len(t))
  PROVE  t[i] = ";" <=> t[i + 1] = ";"
<1> DEFINE w == Window(t, i)
<1>1. w.c = t[i] /\ w.n = t[i + 1]
  <2>1. i + 1 \in 1 .. Len(t)
    OBVIOUS
  <2> QED BY <2>1, WindowAt
<1> HIDE DEF w
<1>2. ~Splits(w, closes)
  BY DEF EndsToken, w
<1>3. (w.c \in Semicolon) = (w.n \in Semicolon)
  BY <1>2, Zenon DEF Splits
<1>4. w.c = ";" <=> w.n = ";"
  BY <1>3 DEF Semicolon
<1> QED BY <1>1, <1>4

\* The open token has what the tokens leave of the text so far.
Leaves(s, i) ==
  LET b == Len(TextOf(s.tokens)) IN b \in 0 .. i /\ b + Len(s.cur.value) = i

LEMMA OpenLength ==
  ASSUME NEW C, NEW t \in Seq(C), NEW i \in 0 .. Len(t), NEW s \in ScanSet(C),
         HasRead(s, t, i)
  PROVE  Leaves(s, i)
<1> DEFINE u == TextOf(s.tokens)
           v == s.cur.value
<1>1. u \in Seq(C) /\ v \in Seq(C)
  BY TokensValued, TextTyped DEF ScanSet, BufferSet
<1>2. u \o v = SubSeq(t, 1, i)
  BY DEF HasRead, ReadText
<1>3. Len(SubSeq(t, 1, i)) = i /\ i \in Nat
  <2>1. 0 \in 0 .. Len(t) /\ i \in 0 .. Len(t) /\ i \in Nat
    OBVIOUS
  <2>2. Len(SubSeq(t, 0 + 1, i)) = i - 0
    BY <2>1, Pieces
  <2> QED BY <2>1, <2>2
<1> HIDE DEF u, v
<1>4. Len(u \o v) = Len(u) + Len(v) /\ Len(u) \in Nat /\ Len(v) \in Nat
  BY <1>1
<1>5. Len(u \o v) = i
  BY <1>2, <1>3
<1> DEFINE k == Len(u \o v)
           l == Len(u)
           m == Len(v)
<1>6. k = l + m /\ l \in Nat /\ m \in Nat /\ k = i
  BY <1>4, <1>5
<1> HIDE DEF k, l, m
<1>7. l \in 0 .. i /\ l + m = i
  BY <1>3, <1>6
<1> QED BY <1>7 DEF l, m, u, v, Leaves

\* A text and one more character.
LEMMA OneLonger ==
  ASSUME NEW C, NEW v \in Seq(C), NEW c \in C, NEW q, q = Append(v, c)
  PROVE  q \in Seq(C) /\ Len(q) = Len(v) + 1 /\ q # <<>> /\ Len(v) \in Nat
OBVIOUS

LEMMA ReadStep ==
  ASSUME NEW C, NEW t \in Seq(C), NEW g \in [0 .. Len(t) -> ScanSet(C)], ReadTokens(t, g),
         NEW j \in 1 .. Len(t), ReadUpTo(C, g, t, j - 1)
  PROVE  ReadUpTo(C, g, t, j)
<1> DEFINE n == Len(t)
           i == j - 1
           s == g[i]
           r == g[j]
           w == Window(t, j)
           m == TextMode(s.mode, w)
           closes == w.c = "/" /\ w.p = "*"
           ends == EndsToken(m, w, closes, j = Len(t))
           R == TokenSpans(C, g, t)
           u == s.cur.value
           c == t[j]
<1>1. /\ n \in Nat /\ i \in 0 .. n /\ j \in 1 .. n /\ i < n /\ i + 1 = j /\ j - 1 = i
      /\ s \in ScanSet(C) /\ r \in ScanSet(C) /\ c \in C
  OBVIOUS
<1>2. r = TextTurn(s, t, j)
  BY DEF ReadTokens
<1>3. /\ HasRead(s, t, i) /\ Spans(s.tokens, R)
      /\ u # <<>> => Alike(g, t, Len(TextOf(s.tokens)), i, u)
      /\ s.mode # "none" => u # <<>> /\ ~Among(u, Semicolon)
      /\ s.mode = "none" /\ u # <<>> => (t[i] = ";" <=> c = ";")
  <2>1. i + 1 = j /\ i < Len(t)
    BY <1>1 DEF n
  <2> QED BY <2>1 DEF ReadUpTo
<1>4. w.c = c
  BY WindowOfText
<1>5. r.mode = m /\ TurnPushes(C, s, w, m, ends, r)
  BY <1>1, <1>2, TextTurnPushes
<1>6. s.mode \in Modes /\ s.tokens \in Seq(TokenSet(C)) /\ u \in Seq(C)
  BY <1>1 DEF ScanSet, BufferSet
<1> HIDE DEF n, i, s, r, w, m, closes, ends, R, u, c
<1>7. PICK p \in Seq(TokenSet(C)), v \in Seq(C) :
        /\ Parted(s.mode, m) => Pushed(C, s.tokens, u, p) /\ v = <<>>
        /\ ~Parted(s.mode, m) => p = s.tokens /\ v = u
        /\ ends => Pushed(C, p, Append(v, c), r.tokens) /\ r.cur.value = <<>>
        /\ ~ends => r.tokens = p /\ r.cur.value = Append(v, c)
  BY <1>4, <1>5 DEF TurnPushes, u
<1> DEFINE a == Len(TextOf(p))
           q == Append(v, c)
<1> DEFINE b == Len(TextOf(s.tokens))
<1>8. b \in 0 .. i /\ b + Len(u) = i
  <2>1. i \in 0 .. Len(t) /\ HasRead(s, t, i)
    BY <1>1, <1>3 DEF n
  <2>2. Leaves(s, i)
    BY <1>1, <2>1, OpenLength
  <2> QED BY <2>2 DEF u, Leaves
<1>9. u # <<>> => <<b, b + Len(u), u>> \in R
  <2> SUFFICES ASSUME u # <<>> PROVE <<b, b + Len(u), u>> \in R
    OBVIOUS
  <2>1. Alike(g, t, b, i, u)
    BY <1>3
  <2> HIDE DEF b
  <2>2. b \in 0 .. Len(t) /\ i \in 0 .. Len(t)
    BY <1>1, <1>8 DEF n
  <2>3. <<b, i, u>> \in R
    BY <1>6, <2>1, <2>2 DEF R, TokenSpans
  <2> QED BY <1>8, <2>3
<1>10. /\ Spans(p, R) /\ a \in 0 .. i /\ Len(v) = i - a
       /\ v # <<>> => v = u /\ a = b
  <2>1. CASE Parted(s.mode, m)
    <3>1. Pushed(C, s.tokens, u, p) /\ v = <<>>
      BY <1>7, <2>1
    <3>2. Continues(s.tokens, u, R)
      BY <1>9 DEF Continues
    <3>3. Continued(s.tokens, u, p, R)
      BY <1>3, <1>6, <3>1, <3>2, PushedSpans
    <3>4. Spans(p, R) /\ a = b + Len(u)
      BY <3>3 DEF Continued
    <3>5. Len(v) = 0
      BY <3>1
    <3> HIDE DEF a, b
    <3>6. a = i
      BY <1>8, <3>4
    <3> QED BY <1>1, <3>1, <3>4, <3>5, <3>6
  <2>2. CASE ~Parted(s.mode, m)
    <3>1. p = s.tokens /\ v = u
      BY <1>7, <2>2
    <3>2. a = b
      BY <3>1
    <3> HIDE DEF a, b
    <3>3. Len(v) = i - a
      BY <1>1, <1>8, <3>1, <3>2
    <3> QED BY <1>3, <1>8, <3>1, <3>2, <3>3
  <2> QED BY <2>1, <2>2
<1>11. Awaits(g, t, a, j, v)
  <2> HIDE DEF a, b, q
  <2>1. g[j - 1].mode = s.mode /\ g[j].mode = m /\ t[j] = c /\ m = TextMode(s.mode, Window(t, j))
        /\ j - 1 = i
    BY <1>1, <1>5 DEF s, r, c, i, m, w
  <2>2. v # <<>> => Alike(g, t, a, i, v)
    BY <1>3, <1>10 DEF b
  <2>3. Parted(s.mode, m) => v = <<>>
    BY <1>7
  <2>4. ~Parted(s.mode, m) /\ s.mode # "none" => v # <<>> /\ ~Among(v, Semicolon)
    BY <1>3, <1>7
  <2>5. s.mode = "none" /\ v # <<>> => (t[i] = ";" <=> c = ";")
    BY <1>3, <1>10
  <2> QED BY <1>6, <2>1, <2>2, <2>3, <2>4, <2>5 DEF Awaits
<1>12. Alike(g, t, a, j, q) /\ (r.mode # "none" => ~Among(q, Semicolon))
  <2>1. a \in 0 .. j - 1 /\ Len(v) = j - 1 - a
    BY <1>1, <1>10
  <2> HIDE DEF a, b
  <2>2. /\ Alike(g, t, a, j, Append(v, t[j]))
        /\ g[j].mode # "none" => ~Among(Append(v, t[j]), Semicolon)
    BY <1>1, <1>11, <2>1, AlikeMore DEF n
  <2> QED BY <2>2 DEF q, c, r
<1>13. HasRead(r, t, j)
  <2>1. ReadText(r) = Append(ReadText(s), c)
    BY <1>1, <1>2, TextTurnReads DEF c
  <2>2. SubSeq(t, 1, i + 1) = Append(SubSeq(t, 1, i), t[i + 1])
    BY <1>1, Prefixes DEF n
  <2>3. ReadText(s) = SubSeq(t, 1, i)
    BY <1>3 DEF HasRead
  <2> QED BY <1>1, <2>1, <2>2, <2>3 DEF HasRead, c
<1>14. q \in Seq(C) /\ q # <<>> /\ a + Len(q) = j /\ a \in 0 .. Len(t) /\ j \in 0 .. Len(t)
  <2>1. q \in Seq(C) /\ Len(q) = Len(v) + 1 /\ q # <<>> /\ Len(v) \in Nat
    <3>1. c \in C /\ v \in Seq(C) /\ Len(v) \in Nat
      BY <1>1
    <3>2. q = Append(v, c)
      OBVIOUS
    <3> HIDE DEF c, q
    <3> QED BY <3>1, <3>2, OneLonger
  <2> HIDE DEF a, q
  <2>2. a + Len(q) = j
    BY <1>1, <1>10, <2>1
  <2>3. a \in 0 .. n /\ j \in 0 .. n
    BY <1>1, <1>10
  <2> QED BY <2>1, <2>2, <2>3 DEF n
<1>15. CASE ends
  <2>1. Pushed(C, p, q, r.tokens) /\ r.cur.value = <<>>
    BY <1>7, <1>15
  <2>2. Continues(p, q, R)
    <3>1. <<a, j, q>> \in R
      <4> HIDE DEF a, q
      <4> QED BY <1>12, <1>14 DEF R, TokenSpans
    <3>2. <<a, a + Len(q), q>> \in R
      <4> HIDE DEF a, q
      <4> QED BY <1>14, <3>1
    <3> QED BY <3>2 DEF Continues
  <2>3. Continued(p, q, r.tokens, R)
    <3> HIDE DEF a, b, q
    <3> QED BY <1>10, <1>14, <2>1, <2>2, PushedSpans
  <2>4. r.mode = "none" \/ j = Len(t)
    BY <1>5, <1>15 DEF ends, EndsToken
  <2> HIDE DEF a, b, q
  <2>5. /\ HasRead(r, t, j) /\ Spans(r.tokens, R) /\ r.cur.value = <<>>
        /\ ~(r.mode # "none" /\ j < Len(t))
    BY <1>13, <2>1, <2>3, <2>4 DEF Continued
  <2> QED BY <2>5 DEF ReadUpTo, R, r
<1>16. CASE ~ends
  <2>1. r.tokens = p /\ r.cur.value = q
    BY <1>7, <1>16
  <2>2. j < Len(t) /\ r.mode = "none" => (t[j] = ";" <=> t[j + 1] = ";")
    <3> SUFFICES ASSUME j < Len(t), r.mode = "none" PROVE t[j] = ";" <=> t[j + 1] = ";"
      OBVIOUS
    <3>1. ~EndsToken("none", Window(t, j), closes, j = Len(t))
      BY <1>5, <1>16 DEF ends, w
    <3> QED BY <3>1, GoesOnAlike
  <2>3. Len(TextOf(r.tokens)) = a
    BY <2>1
  <2> HIDE DEF a, b, q
  <2> QED BY <1>10, <1>12, <1>13, <1>14, <2>1, <2>2, <2>3 DEF ReadUpTo, R, r
<1> QED BY <1>15, <1>16

\* All tokens of a text are semicolons at which the parser cuts, or have none.
LEMMA TokensAlike ==
  ASSUME NEW C, NEW t \in Seq(C), NEW g \in [0 .. Len(t) -> ScanSet(C)], ReadTokens(t, g)
  PROVE  Spans(g[Len(t)].tokens, TokenSpans(C, g, t))
<1> DEFINE n == Len(t)
           S == {k \in Nat : k <= n => ReadUpTo(C, g, t, k)}
<1>1. n \in Nat
  OBVIOUS
<1>2. 0 \in S
  <2>1. g[0] = Start
    BY DEF ReadTokens
  <2>2. Start.tokens = <<>> /\ Start.cur.value = <<>> /\ Start.mode = "none"
    BY DEF Start, Fresh
  <2>3. Spans(<<>>, TokenSpans(C, g, t))
    BY DEF Spans
  <2>4. HasRead(Start, t, 0)
    BY StartType, Prefixes DEF HasRead
  <2>5. ReadUpTo(C, g, t, 0)
    BY <2>1, <2>2, <2>3, <2>4 DEF ReadUpTo
  <2> QED BY <2>5
<1>3. ASSUME NEW k \in Nat, k \in S PROVE k + 1 \in S
  <2> SUFFICES ASSUME k + 1 <= n PROVE ReadUpTo(C, g, t, k + 1)
    OBVIOUS
  <2> DEFINE j == k + 1
  <2>1. j \in 1 .. n /\ j - 1 = k
    BY <1>1
  <2>2. ReadUpTo(C, g, t, k)
    BY <1>3
  <2> HIDE DEF j
  <2>3. ReadUpTo(C, g, t, j - 1)
    BY <2>1, <2>2
  <2>4. ReadUpTo(C, g, t, j)
    BY <2>1, <2>3, ReadStep
  <2> QED BY <2>4 DEF j
<1>4. n \in S
  <2> HIDE DEF S
  <2> QED BY <1>1, <1>2, <1>3, SetInduction
<1>5. ReadUpTo(C, g, t, n)
  BY <1>1, <1>4
<1> QED BY <1>5 DEF ReadUpTo

-----------------------------------------------------------------------------
\* The editor's mode and the parser's agree at every place of the text.
LEMMA ScansAgree ==
  ASSUME NEW C, NEW t \in Seq(C), ~Opened(t),
         NEW f \in [0 .. Len(t) -> CutSet(C)], CutText(f, t),
         NEW g \in [0 .. Len(t) -> ScanSet(C)], ReadTokens(t, g)
  PROVE  \A i \in 0 .. Len(t) : Agree(f[i].mode, g[i].mode, Window(t, i))
<1> DEFINE n == Len(t)
           S == {k \in Nat : k <= n => Agree(f[k].mode, g[k].mode, Window(t, k))}
<1>1. n \in Nat
  OBVIOUS
<1>2. 0 \in S
  <2>1. f[0].mode = "none"
    BY CutAt0
  <2>2. g[0].mode = "none"
    BY DEF ReadTokens, Start
  <2>3. Agree(f[0].mode, g[0].mode, Window(t, 0))
    BY <2>1, <2>2 DEF Agree
  <2> QED BY <2>3
<1>3. ASSUME NEW k \in Nat, k \in S PROVE k + 1 \in S
  <2> SUFFICES ASSUME k + 1 <= n PROVE Agree(f[k + 1].mode, g[k + 1].mode, Window(t, k + 1))
    OBVIOUS
  <2> DEFINE j == k + 1
             v == Window(t, k)
             w == Window(t, j)
             e == f[k]
             s == g[k]
  <2>1. j \in 1 .. n /\ j - 1 = k /\ e \in CutSet(C) /\ s \in ScanSet(C)
    BY <1>1
  <2>2. Agree(e.mode, s.mode, v)
    BY <1>1, <1>3, <2>1
  <2>3. w.pp = v.p /\ w.p = v.c
    <3>1. j - 2 = k - 1 /\ j - 1 = k
      OBVIOUS
    <3> HIDE DEF j
    <3> QED BY <3>1 DEF Window
  <2> HIDE DEF j, v, w, e, s
  <2>4. f[j] = BlockTurn(e, t, j) /\ g[j] = TextTurn(s, t, j)
    BY <2>1 DEF CutText, ReadTokens, e, s
  <2>5. f[j].mode = BlockMode(e.mode, w)
    <3> DEFINE r == f[j]
    <3>1. r = BlockTurn(e, t, j)
      BY <2>4
    <3> HIDE DEF r
    <3>2. EndsOrGoesOn(C, t, j, e, r)
      BY <2>1, <3>1, BlockTurned
    <3>3. r.mode = BlockMode(e.mode, w)
      BY <3>2 DEF EndsOrGoesOn, w
    <3> QED BY <3>3 DEF r
  <2>6. g[j].mode = TextMode(s.mode, w)
    <3> DEFINE r == g[j]
    <3>1. r = TextTurn(s, t, j)
      BY <2>4
    <3> HIDE DEF r
    <3>2. r.mode = TextMode(s.mode, Window(t, j))
      BY <2>1, <3>1, TextTurnPushes
    <3> QED BY <3>2 DEF r, w
  <2>7. e.mode \in Modes /\ s.mode \in Modes
    BY <2>1 DEF CutSet, ScanSet
  <2>8. Closed(w)
    BY <2>1, NowhereOpened DEF w
  <2>9. Agree(BlockMode(e.mode, w), TextMode(s.mode, w), w)
    BY <2>2, <2>3, <2>7, <2>8, ModesAgree
  <2>10. Agree(f[j].mode, g[j].mode, w)
    BY <2>5, <2>6, <2>9
  <2> QED BY <2>10 DEF j, w
<1>4. \A k \in Nat : k \in S
  <2> HIDE DEF S
  <2> QED BY <1>2, <1>3, SetInduction
<1> QED BY <1>1, <1>4

\* So they cut at the same semicolons.
LEMMA CutsAgree ==
  ASSUME NEW C, NEW t \in Seq(C), NEW f, NEW g, NEW i \in 1 .. Len(t),
         Agree(f[i].mode, g[i].mode, Window(t, i))
  PROVE  Cut(f, t, i) <=> Stops(g, t, i)
<1> DEFINE x == f[i].mode
           y == g[i].mode
           v == Window(t, i)
           c == t[i]
<1>1. v.c = c
  BY WindowOfText
<1>2. i # 0
  OBVIOUS
<1>3. Cut(f, t, i) <=> x = "none" /\ c = ";"
  <2> HIDE DEF x, c
  <2> QED BY <1>2, Zenon DEF Cut, x, c
<1>4. Stops(g, t, i) <=> y = "none" /\ c = ";"
  BY DEF Stops
<1>5. Agree(x, y, v)
  OBVIOUS
<1> HIDE DEF x, y, v, c
<1>6. c = ";" => x = y
  BY <1>1, <1>5 DEF Agree
<1> QED BY <1>3, <1>4, <1>6

\* The blocks of a text are not empty.
LEMMA FilledBlocks ==
  ASSUME NEW C, NEW t \in Seq(C), NEW f, NEW p \in Seq(BlockSet(C)),
         \A k \in DOMAIN p : Piece(f, t, p[k].value)
  PROVE  \E P : Filled(P, C) /\ p \in Seq(P)
<1> DEFINE P == {b \in BlockSet(C) : b.value # <<>>}
<1>1. Filled(P, C)
  BY DEF Filled, BlockSet
<1>2. ASSUME NEW k \in 1 .. Len(p) PROVE p[k] \in P
  <2>1. PICK a \in 0 .. Len(t), z \in 1 .. Len(t) : a < z /\ p[k].value = SubSeq(t, a + 1, z)
    BY DEF Piece
  <2>2. Len(SubSeq(t, a + 1, z)) = z - a
    BY <2>1, Pieces
  <2>3. p[k].value # <<>>
    <3> SUFFICES ASSUME p[k].value = <<>> PROVE FALSE
      OBVIOUS
    <3>1. Len(p[k].value) = 0
      OBVIOUS
    <3> QED BY <2>1, <2>2, <3>1
  <2> QED BY <2>3
<1>3. p \in Seq(P)
  <2> HIDE DEF P
  <2> QED BY <1>2
<1> QED BY <1>1, <1>3

\* The block that holds i ends with it if the editor cuts there.
LEMMA BlockEndsAt ==
  ASSUME NEW C, NEW t \in Seq(C), NEW f \in [0 .. Len(t) -> CutSet(C)], CutText(f, t),
         NEW p, p = f[Len(t)].blocks, NEW i \in 1 .. Len(t), i < Len(t)
  PROVE  i = EndOf(p, PieceOf(p, i)) <=> Cut(f, t, i)
<1>1. p \in Seq(BlockSet(C))
  <2>1. f[Len(t)] \in CutSet(C)
    OBVIOUS
  <2> QED BY <2>1 DEF CutSet
<1>2. TextOf(p) = t /\ Spans(p, Pieced(f, t)) /\ \A k \in DOMAIN p : Piece(f, t, p[k].value)
  BY BlocksCut
<1>3. PICK P : Filled(P, C) /\ p \in Seq(P)
  BY <1>1, <1>2, FilledBlocks
<1> DEFINE k == PieceOf(p, i)
           a == EndOf(p, k - 1)
           z == EndOf(p, k)
<1>4. k \in 1 .. Len(p) /\ a < i /\ i <= z
  <2>1. i \in 1 .. Len(TextOf(p))
    BY <1>2
  <2> QED BY <1>3, <2>1, PieceFound
<1>5. <<a, z, p[k].value>> \in Pieced(f, t)
  <2> HIDE DEF k
  <2> QED BY <1>2, <1>4 DEF Spans
<1> HIDE DEF k, a, z
<1> DEFINE x == <<a, z, p[k].value>>
<1>6. x[1] = a /\ x[2] = z
  OBVIOUS
<1>7. /\ a \in 0 .. Len(t) /\ z \in 1 .. Len(t)
      /\ Open(f, t, a, z - 1) /\ (Cut(f, t, z) \/ z = Len(t))
  <2>1. x \in Pieced(f, t)
    BY <1>5
  <2> HIDE DEF x
  <2>2. PICK b \in 0 .. Len(t), y \in 1 .. Len(t) : x = <<b, y, SubSeq(t, b + 1, y)>>
    BY <2>1 DEF Pieced
  <2>3. b = a /\ y = z
    BY <1>6, <2>2
  <2>4. Open(f, t, x[1], x[2] - 1) /\ (Cut(f, t, x[2]) \/ x[2] = Len(t))
    BY <2>1 DEF Pieced
  <2> QED BY <1>6, <2>2, <2>3, <2>4
<1>8. \A j \in a + 1 .. z - 1 : ~Cut(f, t, j)
  BY <1>7 DEF Open
<1>9. i = z => Cut(f, t, i)
  <2>1. i # Len(t)
    OBVIOUS
  <2> QED BY <1>7, <2>1
<1>10. i # z => ~Cut(f, t, i)
  <2>1. i # z => i \in a + 1 .. z - 1
    BY <1>4, <1>7
  <2> QED BY <1>8, <2>1
<1> QED BY <1>9, <1>10 DEF z, k

\* The token that holds i is semicolons if the parser cuts there.
LEMMA TokenStopsAt ==
  ASSUME NEW C, NEW t \in Seq(C), NEW g \in [0 .. Len(t) -> ScanSet(C)], ReadTokens(t, g),
         NEW p, p = g[Len(t)].tokens, TextOf(p) = t, NEW i \in 1 .. Len(t)
  PROVE  Among(p[PieceOf(p, i)].value, Semicolon) <=> Stops(g, t, i)
<1>1. p \in Seq(TokenSet(C))
  <2>1. g[Len(t)] \in ScanSet(C)
    OBVIOUS
  <2> QED BY <2>1 DEF ScanSet
<1>2. Spans(p, TokenSpans(C, g, t))
  BY TokensAlike
<1> DEFINE k == PieceOf(p, i)
           a == EndOf(p, k - 1)
           z == EndOf(p, k)
           v == p[k].value
<1>3. k \in 1 .. Len(p) /\ a < i /\ i <= z
  <2>1. i \in 1 .. Len(TextOf(p)) /\ Filled(TokenSet(C), C)
    BY FilledTokens
  <2> QED BY <1>1, <2>1, PieceFound
<1>4. <<a, z, v>> \in TokenSpans(C, g, t)
  <2> HIDE DEF k
  <2> QED BY <1>2, <1>3 DEF Spans
<1> HIDE DEF k, a, z, v
<1>5. Alike(g, t, a, z, v) /\ a \in 0 .. Len(t) /\ z \in 0 .. Len(t)
  BY <1>4 DEF TokenSpans
<1>6. i \in a + 1 .. z
  BY <1>3, <1>5
<1>7. Among(v, Semicolon) <=> Stops(g, t, i)
  BY <1>5, <1>6 DEF Alike
<1> QED BY <1>7 DEF v, k

LEMMA AllCutAlike == TextInv => ScannersAgree
<1> SUFFICES ASSUME TextInv, ~Opened(text), NEW i \in DOMAIN text, i < Len(text)
             PROVE  LET tokens == Tokenize(text)
                        bs == GetBlocks(text)
                    IN  Among(tokens[PieceOf(tokens, i)].value, Semicolon)
                          <=> i = EndOf(bs, PieceOf(bs, i))
  BY DEF ScannersAgree
<1> DEFINE C == keys.chars
           tokens == Tokenize(text)
           bs == GetBlocks(text)
<1>1. text \in Seq(C)
  BY DEF TextInv
<1>2. i \in 1 .. Len(text)
  BY <1>1
<1> HIDE DEF C
<1>3. PICK f \in [0 .. Len(text) -> CutSet(C)] :
        /\ f[0] = BlockStart /\ \A j \in 1 .. Len(text) : f[j] = BlockTurn(f[j - 1], text, j)
        /\ bs = f[Len(text)].blocks
  BY <1>1, BlocksScanned
<1>4. PICK g \in [0 .. Len(text) -> ScanSet(C)] :
        /\ g[0] = Start /\ \A j \in 1 .. Len(text) : g[j] = TextTurn(g[j - 1], text, j)
        /\ tokens = g[Len(text)].tokens
  BY <1>1, TextScanned
<1>5. CutText(f, text) /\ ReadTokens(text, g)
  BY <1>3, <1>4 DEF CutText, ReadTokens
<1>6. TextOf(tokens) = text
  BY <1>1, TokenizeReads
<1> HIDE DEF tokens, bs
<1>7. Among(tokens[PieceOf(tokens, i)].value, Semicolon) <=> Stops(g, text, i)
  BY <1>1, <1>2, <1>4, <1>5, <1>6, TokenStopsAt
<1>8. i = EndOf(bs, PieceOf(bs, i)) <=> Cut(f, text, i)
  BY <1>1, <1>2, <1>3, <1>5, BlockEndsAt
<1>9. Agree(f[i].mode, g[i].mode, Window(text, i))
  BY <1>1, <1>2, <1>5, ScansAgree
<1>10. Cut(f, text, i) <=> Stops(g, text, i)
  BY <1>1, <1>2, <1>9, CutsAgree
<1> QED BY <1>7, <1>8, <1>10 DEF tokens, bs

\* The editor and the parser cut a text at the same semicolons, but for the texts
\* that Opened names (getBlocks of monaco.ts, tokenize of the parser).
THEOREM ScannersCutAlike == Spec => []ScannersAgree
BY TextOfKeys, AllCutAlike, PTL

-----------------------------------------------------------------------------
(***************************************************************************)
(* The statement under the cursor.                                         *)
(***************************************************************************)
Origin == [line |-> 1, col |-> 1]

\* One character more is one advance more.
LEMMA RangeAppend ==
  ASSUME NEW from \in Position, NEW C, NEW v \in Seq(C), NEW c \in C
  PROVE  RangeEnd(from, Append(v, c)) = Advance(RangeEnd(from, v), c)
<1> DEFINE u == Append(v, c)
           n == Len(v)
<1>1. /\ u \in Seq(C) /\ n \in Nat /\ Len(u) = n + 1 /\ u[n + 1] = c
      /\ \A i \in 1 .. n : u[i] = v[i]
  OBVIOUS
<1> HIDE DEF u
<1>2. PICK f \in [0 .. n -> Position] :
        /\ f[0] = from /\ \A i \in 1 .. n : f[i] = Advance(f[i - 1], v[i])
        /\ RangeEnd(from, v) = f[n]
  BY RangeWalked
<1>3. PICK g \in [0 .. n + 1 -> Position] :
        /\ g[0] = from /\ \A i \in 1 .. n + 1 : g[i] = Advance(g[i - 1], u[i])
        /\ RangeEnd(from, u) = g[n + 1]
  <2>1. PICK g \in [0 .. Len(u) -> Position] :
          /\ g[0] = from /\ \A i \in 1 .. Len(u) : g[i] = Advance(g[i - 1], u[i])
          /\ RangeEnd(from, u) = g[Len(u)]
    BY <1>1, RangeWalked
  <2> QED BY <1>1, <2>1
<1> HIDE DEF n
<1> DEFINE S == {k \in Nat : k <= n => f[k] = g[k]}
<1>4. 0 \in S
  BY <1>2, <1>3
<1>5. ASSUME NEW k \in Nat, k \in S PROVE k + 1 \in S
  <2> SUFFICES ASSUME k + 1 <= n PROVE f[k + 1] = g[k + 1]
    OBVIOUS
  <2> DEFINE j == k + 1
  <2>1. j \in 1 .. n /\ j \in 1 .. n + 1 /\ j - 1 = k
    BY <1>1
  <2>2. f[k] = g[k]
    BY <1>1, <1>5
  <2> HIDE DEF j
  <2>3. f[j] = Advance(f[j - 1], v[j]) /\ g[j] = Advance(g[j - 1], u[j]) /\ u[j] = v[j]
    BY <1>1, <1>2, <1>3, <2>1
  <2>4. f[j] = g[j]
    BY <2>1, <2>2, <2>3
  <2> QED BY <2>4 DEF j
<1>6. f[n] = g[n]
  <2>1. n \in S
    <3> HIDE DEF S
    <3> QED BY <1>1, <1>4, <1>5, SetInduction
  <2> QED BY <1>1, <2>1
<1>7. g[n + 1] = Advance(g[n], u[n + 1])
  <2> DEFINE j == n + 1
  <2>1. j \in 1 .. n + 1 /\ j - 1 = n
    BY <1>1
  <2> HIDE DEF j
  <2>2. g[j] = Advance(g[j - 1], u[j])
    BY <1>3, <2>1
  <2> QED BY <2>1, <2>2 DEF j
<1> QED BY <1>1, <1>2, <1>3, <1>6, <1>7 DEF u

\* The places of a text: from one to the next.
LEMMA PlaceSteps ==
  ASSUME NEW C, NEW t \in Seq(C)
  PROVE  /\ Place(t, 1) = Origin
         /\ \A i \in 1 .. Len(t) : Place(t, i + 1) = Advance(Place(t, i), t[i])
         /\ \A i \in 1 .. Len(t) + 1 : Place(t, i) \in Position
<1>1. Origin \in Position
  BY DEF Origin, Position
<1>2. Place(t, 1) = Origin
  <2> DEFINE v == SubSeq(t, 1, 1 - 1)
  <2>1. v \in Seq(C) /\ Len(v) = 0
    OBVIOUS
  <2>2. Place(t, 1) = RangeEnd(Origin, v)
    BY DEF Place, Origin
  <2> HIDE DEF v
  <2>3. PICK f \in [0 .. Len(v) -> Position] :
          /\ f[0] = Origin /\ \A i \in 1 .. Len(v) : f[i] = Advance(f[i - 1], v[i])
          /\ RangeEnd(Origin, v) = f[Len(v)]
    <3>1. \A w \in Seq(C) :
            \E f \in [0 .. Len(w) -> Position] :
              /\ f[0] = Origin /\ \A i \in 1 .. Len(w) : f[i] = Advance(f[i - 1], w[i])
              /\ RangeEnd(Origin, w) = f[Len(w)]
      BY <1>1, RangeWalked
    <3> QED BY <2>1, <3>1, Zenon
  <2> QED BY <2>1, <2>2, <2>3
<1>3. ASSUME NEW i \in 1 .. Len(t)
      PROVE  Place(t, i + 1) = Advance(Place(t, i), t[i])
  <2> DEFINE v == SubSeq(t, 1, i - 1)
             u == SubSeq(t, 1, i + 1 - 1)
  <2>1. v \in Seq(C) /\ t[i] \in C /\ u = Append(v, t[i])
    OBVIOUS
  <2>2. Place(t, i) = RangeEnd(Origin, v) /\ Place(t, i + 1) = RangeEnd(Origin, u)
    BY DEF Place, Origin
  <2> HIDE DEF v, u
  <2>3. RangeEnd(Origin, Append(v, t[i])) = Advance(RangeEnd(Origin, v), t[i])
    BY <1>1, <2>1, RangeAppend
  <2> QED BY <2>1, <2>3, <2>2
<1>4. ASSUME NEW i \in 1 .. Len(t) + 1
      PROVE  Place(t, i) \in Position
  <2> DEFINE v == SubSeq(t, 1, i - 1)
  <2>1. v \in Seq(C)
    OBVIOUS
  <2>2. Place(t, i) = RangeEnd(Origin, v)
    BY DEF Place, Origin
  <2> HIDE DEF v
  <2> QED BY <1>1, <2>1, <2>2, RangeEndType
<1> QED BY <1>2, <1>3, <1>4

\* From i to j the lines do not go back; without a line end in between, columns count.
Behind(t, i, j) ==
  LET p == Place(t, i)
      q == Place(t, j)
  IN  IF \E l \in i .. j - 1 : t[l] = "\n" THEN p.line < q.line
      ELSE p.line = q.line /\ q.col = p.col + (j - i)

LEMMA PlacesInOrder ==
  ASSUME NEW C, NEW t \in Seq(C), NEW i \in 1 .. Len(t) + 1, NEW j \in i .. Len(t) + 1
  PROVE  Behind(t, i, j)
<1> DEFINE n == Len(t)
           S == {k \in Nat : i + k <= n + 1 => Behind(t, i, i + k)}
<1>1. n \in Nat
  OBVIOUS
<1> HIDE DEF n
<1>2. 0 \in S
  <2>1. Place(t, i) \in Position
    BY PlaceSteps
  <2>2. i + 0 = i /\ i - i = 0 /\ ~(\E l \in i .. i - 1 : t[l] = "\n")
    OBVIOUS
  <2>3. Behind(t, i, i)
    BY <2>1, <2>2 DEF Behind, Position
  <2> QED BY <2>2, <2>3
<1>3. ASSUME NEW k \in Nat, k \in S PROVE k + 1 \in S
  <2> SUFFICES ASSUME i + (k + 1) <= n + 1 PROVE Behind(t, i, i + (k + 1))
    OBVIOUS
  <2> DEFINE h == i + k
             p == Place(t, i)
             q == Place(t, h)
             r == Place(t, h + 1)
  <2>1. h \in 1 .. n /\ h \in 1 .. n + 1 /\ i + (k + 1) = h + 1 /\ h + 1 - 1 = h /\ h - i = k /\ h + 1 - i = k + 1
    BY <1>1
  <2>2. Behind(t, i, h)
    BY <1>1, <1>3, <2>1
  <2> HIDE DEF h
  <2>3. r = Advance(q, t[h]) /\ p \in Position /\ q \in Position
    BY <2>1, PlaceSteps DEF n
  <2>4. (\E l \in i .. h + 1 - 1 : t[l] = "\n") <=> ((\E l \in i .. h - 1 : t[l] = "\n") \/ t[h] = "\n")
    BY <2>1
  <2> HIDE DEF p, q, r
  <2>5. CASE t[h] = "\n"
    <3>1. r.line = q.line + 1
      BY <2>3, <2>5 DEF Advance, Position
    <3>2. p.line <= q.line /\ p.line \in Nat /\ q.line \in Nat
      BY <2>2, <2>3 DEF Behind, p, q, Position
    <3>3. p.line < r.line
      BY <3>1, <3>2
    <3> QED BY <2>1, <2>4, <2>5, <3>3 DEF Behind, p, r
  <2>6. CASE t[h] # "\n"
    <3>1. r.line = q.line /\ r.col = q.col + 1 /\ p.col \in Nat
      BY <2>3, <2>6 DEF Advance, Position
    <3>2. IF \E l \in i .. h - 1 : t[l] = "\n" THEN p.line < q.line
          ELSE p.line = q.line /\ q.col = p.col + (h - i)
      BY <2>2 DEF Behind, p, q
    <3>3. IF \E l \in i .. h - 1 : t[l] = "\n" THEN p.line < r.line
          ELSE p.line = r.line /\ r.col = p.col + (h + 1 - i)
      BY <2>1, <3>1, <3>2
    <3> QED BY <2>1, <2>4, <2>6, <3>3 DEF Behind, p, r
  <2> QED BY <2>5, <2>6
<1>4. j - i \in Nat /\ i + (j - i) = j /\ j <= n + 1
  BY <1>1 DEF n
<1>5. j - i \in S
  <2> HIDE DEF S
  <2> QED BY <1>2, <1>3, <1>4, SetInduction
<1> QED BY <1>4, <1>5

\* What of it is used: lines do not decrease, and columns count within a line.
LEMMA LinesInOrder ==
  ASSUME NEW C, NEW t \in Seq(C), NEW i \in 1 .. Len(t) + 1, NEW j \in i .. Len(t) + 1
  PROVE  /\ Place(t, i).line \in Nat /\ Place(t, j).line \in Nat
         /\ Place(t, i).col \in Nat /\ Place(t, j).col \in Nat
         /\ Place(t, i).line <= Place(t, j).line
         /\ Place(t, i).line = Place(t, j).line => Place(t, j).col = Place(t, i).col + (j - i)
         /\ (\A l \in i .. j - 1 : t[l] # "\n") => Place(t, i).line = Place(t, j).line
<1>1. Behind(t, i, j)
  BY PlacesInOrder
<1>2. Place(t, i) \in Position /\ Place(t, j) \in Position
  BY PlaceSteps
<1> QED BY <1>1, <1>2 DEF Behind, Position

\* The end of the block whose last character is at i.
LastPlace(t, i) == IF t[i] = "\n" THEN Place(t, i + 1) ELSE Place(t, i)

\* Each block carries the place of its first character and of its last.
BlocksStand(t, p) ==
  \A k \in 1 .. Len(p) : /\ p[k].from = Place(t, EndOf(p, k - 1) + 1)
                         /\ p[k].to = LastPlace(t, EndOf(p, k))

LEMMA StandAppend ==
  ASSUME NEW C, NEW t, NEW p \in Seq(BlockSet(C)), BlocksStand(t, p), NEW x \in BlockSet(C),
         x.from = Place(t, Len(TextOf(p)) + 1),
         x.to = LastPlace(t, Len(TextOf(p)) + Len(x.value))
  PROVE  BlocksStand(t, Append(p, x))
<1> DEFINE q == Append(p, x)
           n == Len(p)
<1>1. /\ n \in Nat /\ Len(q) = n + 1 /\ q[n + 1] = x /\ \A k \in 1 .. n : q[k] = p[k]
  OBVIOUS
<1>2. /\ \A k \in 0 .. n : EndOf(q, k) = EndOf(p, k) /\ EndOf(p, k) \in Nat
      /\ EndOf(p, n) = Len(TextOf(p)) /\ EndOf(q, n + 1) = Len(TextOf(p)) + Len(x.value)
  BY BlocksValued, EndsAppend
<1> HIDE DEF q, n
<1> SUFFICES ASSUME NEW k \in 1 .. n + 1
             PROVE  /\ q[k].from = Place(t, EndOf(q, k - 1) + 1)
                    /\ q[k].to = LastPlace(t, EndOf(q, k))
  BY <1>1 DEF BlocksStand, q
<1>3. CASE k \in 1 .. n
  <2>1. k - 1 \in 0 .. n /\ k \in 0 .. n
    BY <1>1, <1>3
  <2>2. p[k].from = Place(t, EndOf(p, k - 1) + 1) /\ p[k].to = LastPlace(t, EndOf(p, k))
    BY <1>3 DEF BlocksStand, n
  <2> QED BY <1>1, <1>2, <1>3, <2>1, <2>2
<1>4. CASE k = n + 1
  <2>1. k - 1 = n /\ n \in 0 .. n
    BY <1>1, <1>4
  <2> QED BY <1>1, <1>2, <1>4, <2>1
<1> QED BY <1>1, <1>3, <1>4

\* Up to i: where the scan is, where the open block began, where the closed ones are.
StandUpTo(f, t, i) ==
  LET s == f[i]
  IN  /\ ReadBlocks(s) = SubSeq(t, 1, i)
      /\ s.at = Place(t, i + 1)
      /\ s.block.value = <<>> <=> s.block = NoBlock
      /\ s.block # NoBlock => s.block.from = Place(t, Len(TextOf(s.blocks)) + 1)
      /\ BlocksStand(t, s.blocks)

LEMMA StandStep ==
  ASSUME NEW C, NEW t \in Seq(C), NEW f \in [0 .. Len(t) -> CutSet(C)], CutText(f, t),
         NEW j \in 1 .. Len(t), StandUpTo(f, t, j - 1)
  PROVE  StandUpTo(f, t, j)
<1> DEFINE n == Len(t)
           i == j - 1
           s == f[i]
           r == f[j]
           w == Window(t, j)
           b == Longer(s, w)
           u == TextOf(s.blocks)
           v == s.block.value
<1>1. /\ n \in Nat /\ i \in 0 .. n /\ j \in 1 .. n /\ i + 1 = j
      /\ s \in CutSet(C) /\ r \in CutSet(C)
  OBVIOUS
<1>2. r = BlockTurn(s, t, j)
  BY DEF CutText
<1>3. /\ ReadBlocks(s) = SubSeq(t, 1, i) /\ s.at = Place(t, i + 1)
      /\ v = <<>> <=> s.block = NoBlock
      /\ s.block # NoBlock => s.block.from = Place(t, Len(u) + 1)
      /\ BlocksStand(t, s.blocks)
  BY DEF StandUpTo
<1>4. w.c = t[j]
  BY WindowOfText
<1>5. r.at = Advance(s.at, t[j])
  <2> HIDE DEF s, r
  <2> QED BY <1>2, <1>4 DEF BlockTurn, w
<1>6. r.at = Place(t, j + 1)
  <2>1. Place(t, j + 1) = Advance(Place(t, j), t[j])
    BY PlaceSteps
  <2> QED BY <1>1, <1>3, <1>5, <2>1
<1> HIDE DEF s, r, w
<1>7. EndsOrGoesOn(C, t, j, s, r)
  BY <1>1, <1>2, BlockTurned
<1> DEFINE over == (r.mode = "none" /\ t[j] = ";") \/ j = n
<1>8. /\ b \in BlockSet(C) /\ b.value = Append(v, t[j])
      /\ over => r.block = NoBlock /\ r.blocks = Append(s.blocks, b)
      /\ ~over => r.block = b /\ r.blocks = s.blocks
  BY <1>7 DEF EndsOrGoesOn, w
<1> HIDE DEF over
<1>9. b.value # <<>> /\ b # NoBlock
  <2>1. v \in Seq(C)
    BY <1>1 DEF CutSet, BlockSet
  <2> HIDE DEF v
  <2>2. Append(v, t[j]) # <<>>
    BY <2>1
  <2> QED BY <1>8, <2>2 DEF NoBlock
<1>10. ReadBlocks(r) = SubSeq(t, 1, j)
  <2>1. ReadBlocks(r) = Append(ReadBlocks(s), t[j])
    BY <1>1, <1>2, BlockTurnReads
  <2>2. SubSeq(t, 1, i + 1) = Append(SubSeq(t, 1, i), t[i + 1])
    BY <1>1, Prefixes DEF n
  <2> QED BY <1>1, <1>3, <2>1, <2>2
<1>11. /\ u \in Seq(C) /\ v \in Seq(C) /\ Len(u) \in Nat /\ Len(v) \in Nat
       /\ Len(u) + Len(v) = i
  <2>1. u \in Seq(C) /\ v \in Seq(C)
    BY <1>1, BlocksValued, TextTyped DEF CutSet, BlockSet
  <2>2. u \o v = SubSeq(t, 1, i)
    BY <1>3 DEF ReadBlocks
  <2>3. Len(SubSeq(t, 1, i)) = i
    BY <1>1 DEF n
  <2> HIDE DEF u, v
  <2>4. Len(u \o v) = Len(u) + Len(v) /\ Len(u) \in Nat /\ Len(v) \in Nat
    BY <2>1
  <2> QED BY <2>1, <2>2, <2>3, <2>4
<1>12. b.from = Place(t, Len(u) + 1)
  <2>1. b.from = IF s.block = NoBlock THEN s.at ELSE s.block.from
    BY DEF Longer
  <2>2. CASE s.block = NoBlock
    <3>1. Len(v) = 0
      BY <1>3, <2>2
    <3>2. Len(u) = i
      BY <1>11, <3>1
    <3> QED BY <1>3, <2>1, <2>2, <3>2
  <2>3. CASE s.block # NoBlock
    BY <1>3, <2>1, <2>3
  <2> QED BY <2>2, <2>3
<1>13. b.to = LastPlace(t, j)
  <2>1. b.to = IF t[j] = "\n" THEN Advance(s.at, t[j]) ELSE s.at
    BY <1>4 DEF Longer
  <2> QED BY <1>1, <1>3, <1>5, <1>6, <2>1 DEF LastPlace
<1>14. Len(u) + Len(b.value) = j
  <2>1. Len(Append(v, t[j])) = Len(v) + 1
    <3> HIDE DEF v
    <3> QED BY <1>11
  <2>2. b.value = Append(v, t[j])
    BY <1>8
  <2> HIDE DEF u, v, b
  <2>3. Len(b.value) = Len(v) + 1
    BY <2>1, <2>2
  <2> QED BY <1>1, <1>11, <2>3
<1>15. CASE over
  <2>1. r.block = NoBlock /\ r.blocks = Append(s.blocks, b) /\ r.block.value = <<>>
    BY <1>8, <1>15 DEF NoBlock
  <2> DEFINE p == s.blocks
  <2>2. p \in Seq(BlockSet(C)) /\ BlocksStand(t, p) /\ u = TextOf(p)
    BY <1>1, <1>3 DEF CutSet
  <2> HIDE DEF p, u, b
  <2>3. BlocksStand(t, Append(p, b))
    BY <1>8, <1>12, <1>13, <1>14, <2>2, StandAppend
  <2> QED BY <1>6, <1>10, <2>1, <2>3 DEF StandUpTo, r, p
<1>16. CASE ~over
  <2>1. r.block = b /\ r.blocks = s.blocks
    BY <1>8, <1>16
  <2> QED BY <1>3, <1>6, <1>9, <1>10, <1>12, <2>1 DEF StandUpTo, r
<1> QED BY <1>15, <1>16

\* The blocks of a text: where they begin and end, what they hold, and that they
\* end with a semicolon, but for the last.
BlocksOf(C, t, p) ==
  /\ p \in Seq(BlockSet(C)) /\ TextOf(p) = t
  /\ \A k \in 1 .. Len(p) :
       LET a == EndOf(p, k - 1)
           z == EndOf(p, k)
       IN  /\ a \in 0 .. Len(t) /\ z \in 1 .. Len(t) /\ a < z
           /\ p[k].value = SubSeq(t, a + 1, z)
           /\ p[k].from = Place(t, a + 1) /\ p[k].to = LastPlace(t, z)
           /\ z = Len(t) \/ t[z] = ";"

LEMMA BlocksPlaced ==
  ASSUME NEW C, NEW t \in Seq(C), NEW f \in [0 .. Len(t) -> CutSet(C)], CutText(f, t),
         NEW p, p = f[Len(t)].blocks
  PROVE  BlocksOf(C, t, p)
<1> DEFINE n == Len(t)
           S == {k \in Nat : k <= n => StandUpTo(f, t, k)}
<1>1. n \in Nat
  OBVIOUS
<1>2. 0 \in S
  <2> DEFINE s == f[0]
  <2>1. s.blocks = <<>> /\ s.block = NoBlock /\ s.block.value = <<>> /\ s.at = Origin
    BY DEF CutText, BlockStart, NoBlock, Origin
  <2>2. SubSeq(t, 1, 0) = <<>> /\ Place(t, 1) = Origin
    BY Prefixes, PlaceSteps
  <2> HIDE DEF s
  <2>3. ReadBlocks(s) = SubSeq(t, 1, 0)
    <3>1. <<>> \o <<>> = <<>>
      OBVIOUS
    <3> QED BY <2>1, <2>2, <3>1, TextEmpty, Zenon DEF ReadBlocks
  <2>4. BlocksStand(t, s.blocks)
    BY <2>1 DEF BlocksStand
  <2>5. StandUpTo(f, t, 0)
    BY <2>1, <2>2, <2>3, <2>4 DEF StandUpTo, s
  <2> QED BY <2>5
<1>3. ASSUME NEW k \in Nat, k \in S PROVE k + 1 \in S
  <2> SUFFICES ASSUME k + 1 <= n PROVE StandUpTo(f, t, k + 1)
    OBVIOUS
  <2> DEFINE j == k + 1
  <2>1. j \in 1 .. n /\ StandUpTo(f, t, j - 1)
    BY <1>1, <1>3
  <2> HIDE DEF j
  <2>2. StandUpTo(f, t, j)
    BY <2>1, StandStep
  <2> QED BY <2>2 DEF j
<1>4. StandUpTo(f, t, n)
  <2>1. n \in S
    <3> HIDE DEF S
    <3> QED BY <1>1, <1>2, <1>3, SetInduction
  <2> QED BY <1>1, <2>1
<1>5. BlocksStand(t, p)
  BY <1>4 DEF StandUpTo
<1>6. TextOf(p) = t /\ Spans(p, Pieced(f, t))
  BY BlocksCut
<1>7. p \in Seq(BlockSet(C))
  <2>1. f[n] \in CutSet(C)
    BY <1>1
  <2> QED BY <2>1 DEF CutSet
<1>8. ASSUME NEW k \in 1 .. Len(p)
      PROVE  LET a == EndOf(p, k - 1)
                 z == EndOf(p, k)
             IN  /\ a \in 0 .. Len(t) /\ z \in 1 .. Len(t) /\ a < z
                 /\ p[k].value = SubSeq(t, a + 1, z)
                 /\ z = Len(t) \/ t[z] = ";"
  <2> DEFINE a == EndOf(p, k - 1)
             z == EndOf(p, k)
             x == <<a, z, p[k].value>>
  <2>1. x \in Pieced(f, t)
    BY <1>6 DEF Spans
  <2>2. x[1] = a /\ x[2] = z /\ x[3] = p[k].value
    OBVIOUS
  <2> HIDE DEF x, a, z
  <2>3. PICK d \in 0 .. Len(t), y \in 1 .. Len(t) : x = <<d, y, SubSeq(t, d + 1, y)>>
    BY <2>1 DEF Pieced
  <2>4. d = a /\ y = z /\ p[k].value = SubSeq(t, a + 1, z)
    BY <2>2, <2>3
  <2>5. a < z /\ (Cut(f, t, z) \/ z = Len(t))
    BY <2>1, <2>2 DEF Pieced
  <2>6. z # 0
    BY <2>3, <2>4
  <2>7. Cut(f, t, z) => t[z] = ";"
    BY <2>6, Zenon DEF Cut
  <2> QED BY <2>3, <2>4, <2>5, <2>7 DEF a, z
<1> QED BY <1>5, <1>6, <1>7, <1>8 DEF BlocksOf, BlocksStand

LEMMA BlockAt ==
  ASSUME NEW C, NEW t \in Seq(C), NEW p \in Seq(BlockSet(C)), BlocksOf(C, t, p), NEW k \in 1 .. Len(p),
         NEW a, a = EndOf(p, k - 1), NEW z, z = EndOf(p, k)
  PROVE  /\ a \in 0 .. Len(t) /\ z \in 1 .. Len(t) /\ a < z
         /\ p[k].value = SubSeq(t, a + 1, z)
         /\ p[k].from = Place(t, a + 1) /\ p[k].to = LastPlace(t, z)
BY DEF BlocksOf

LEMMA BlockEnds ==
  ASSUME NEW C, NEW t \in Seq(C), NEW p \in Seq(BlockSet(C)), BlocksOf(C, t, p), NEW k \in 1 .. Len(p),
         NEW z, z = EndOf(p, k), z # Len(t)
  PROVE  t[z] = ";"
BY DEF BlocksOf

\* Blocks are not empty, so each ends behind the one before.
LEMMA BlocksGrow ==
  ASSUME NEW C, NEW t \in Seq(C), NEW p \in Seq(BlockSet(C)), BlocksOf(C, t, p)
  PROVE  \E P : Filled(P, C) /\ p \in Seq(P)
<1> DEFINE P == {b \in BlockSet(C) : b.value # <<>>}
<1>1. Filled(P, C)
  BY DEF Filled, BlockSet
<1>2. p \in Seq(BlockSet(C))
  BY DEF BlocksOf
<1>3. ASSUME NEW k \in 1 .. Len(p) PROVE p[k] \in P
  <2> DEFINE a == EndOf(p, k - 1)
             z == EndOf(p, k)
  <2>1. a \in 0 .. Len(t) /\ z \in 1 .. Len(t) /\ a < z /\ p[k].value = SubSeq(t, a + 1, z)
    BY DEF BlocksOf
  <2> HIDE DEF a, z
  <2>2. Len(SubSeq(t, a + 1, z)) = z - a
    BY <2>1, Pieces
  <2>3. p[k].value # <<>>
    <3> SUFFICES ASSUME p[k].value = <<>> PROVE FALSE
      OBVIOUS
    <3>1. Len(p[k].value) = 0
      OBVIOUS
    <3> QED BY <2>1, <2>2, <3>1
  <2> QED BY <1>2, <2>3
<1>4. p \in Seq(P)
  <2> HIDE DEF P
  <2> QED BY <1>2, <1>3
<1> QED BY <1>1, <1>4

LEMMA BlocksApart ==
  ASSUME NEW C, NEW t \in Seq(C), NEW p \in Seq(BlockSet(C)), BlocksOf(C, t, p), NEW k \in 1 .. Len(p), NEW j \in 1 .. k - 1
  PROVE  EndOf(p, j) <= EndOf(p, k - 1) /\ EndOf(p, j) < Len(t)
<1>1. PICK P : Filled(P, C) /\ p \in Seq(P)
  BY BlocksGrow
<1>2. Len(p) \in Nat /\ j \in 0 .. Len(p) /\ k - 1 \in 0 .. Len(p) /\ k \in 0 .. Len(p)
  BY <1>1
<1>3. j < k - 1 => EndOf(p, j) < EndOf(p, k - 1)
  BY <1>1, <1>2, EndsOrdered
<1>4. EndOf(p, j) < EndOf(p, k)
  BY <1>1, <1>2, EndsOrdered
<1>5. EndOf(p, k) \in 1 .. Len(t) /\ EndOf(p, k - 1) \in 0 .. Len(t) /\ EndOf(p, j) \in 1 .. Len(t)
  <2>1. EndOf(p, k) \in 1 .. Len(t) /\ EndOf(p, k - 1) \in 0 .. Len(t)
    BY BlockAt
  <2>2. j \in 1 .. Len(p)
    BY <1>2
  <2>3. EndOf(p, j) \in 1 .. Len(t)
    BY <2>2, BlockAt
  <2> QED BY <2>1, <2>3
<1>6. j < k - 1 \/ j = k - 1
  BY <1>2
<1> QED BY <1>3, <1>4, <1>5, <1>6

\* The first block that holds a place is the one found there.
LEMMA FirstHeld ==
  ASSUME NEW C, NEW t \in Seq(C), NEW p \in Seq(BlockSet(C)), BlocksOf(C, t, p), p = GetBlocks(t),
         NEW k \in 1 .. Len(p), NEW at, Holds(p[k], at), \A j \in 1 .. k - 1 : ~Holds(p[j], at)
  PROVE  GetCurrentBlock(t, at) = p[k]
<1>1. p \in Seq(BlockSet(C)) /\ DOMAIN p = 1 .. Len(p) /\ Len(p) \in Nat
  <2>1. p \in Seq(BlockSet(C))
    BY DEF BlocksOf
  <2> QED BY <2>1
<1> DEFINE held == {l \in DOMAIN p : Holds(p[l], at)}
           c == CHOOSE l \in held : \A j \in held : l <= j
<1>2. k \in held /\ \A j \in held : k <= j
  BY <1>1
<1>3. c \in held /\ \A j \in held : c <= j
  BY <1>2
<1>4. c = k
  <2>1. held \subseteq Int
    BY <1>1
  <2> HIDE DEF held, c
  <2> QED BY <1>2, <1>3, <2>1
<1>5. GetCurrentBlock(t, at) = IF held = {} THEN NoBlock ELSE p[c]
  BY DEF GetCurrentBlock
<1>6. held # {}
  BY <1>2
<1> HIDE DEF held, c
<1> QED BY <1>4, <1>5, <1>6

\* A block before does not hold a place on another line than its end.
LEMMA NotHeld ==
  ASSUME NEW C, NEW t \in Seq(C), NEW p \in Seq(BlockSet(C)), BlocksOf(C, t, p), NEW k \in 1 .. Len(p), NEW j \in 1 .. k - 1,
         NEW h \in EndOf(p, k - 1) + 1 .. Len(t) + 1,
         NEW last, last = Place(t, EndOf(p, j)), Place(t, h).line # last.line
  PROVE  ~Holds(p[j], Place(t, h))
<1> DEFINE a == EndOf(p, j - 1)
           z == EndOf(p, j)
           at == Place(t, h)
           from == Place(t, a + 1)
           to == Place(t, z)
<1>1. z <= EndOf(p, k - 1) /\ z < Len(t)
  BY BlocksApart
<1>2. j \in 1 .. Len(p)
  <2>1. p \in Seq(BlockSet(C))
    BY DEF BlocksOf
  <2> QED BY <2>1
<1>3. /\ a \in 0 .. Len(t) /\ z \in 1 .. Len(t) /\ a < z
      /\ p[j].from = Place(t, a + 1) /\ p[j].to = LastPlace(t, z)
  <2>1. a = EndOf(p, j - 1) /\ z = EndOf(p, j)
    OBVIOUS
  <2> HIDE DEF a, z
  <2> QED BY <1>2, <2>1, BlockAt
<1>4. EndOf(p, k - 1) \in 0 .. Len(t)
  BY BlockAt
<1>5. p[j].from = from /\ p[j].to = to
  <2> HIDE DEF a, z
  <2>1. z # Len(t)
    BY <1>1, <1>3
  <2>2. t[z] = ";"
    BY <1>2, <2>1, BlockEnds DEF z
  <2> QED BY <1>3, <2>2 DEF LastPlace
<1> HIDE DEF a, z
<1>6. from.line <= to.line /\ from.line \in Nat /\ to.line \in Nat
  <2>1. a + 1 \in 1 .. Len(t) + 1 /\ z \in a + 1 .. Len(t) + 1
    BY <1>3
  <2> QED BY <2>1, LinesInOrder
<1>7. to.line <= at.line /\ at.line \in Nat
  <2>1. z \in 1 .. Len(t) + 1 /\ h \in z .. Len(t) + 1
    BY <1>1, <1>3, <1>4
  <2> QED BY <2>1, LinesInOrder
<1>8. at.line # to.line
  BY DEF to, z
<1> HIDE DEF at, from, to
<1>9. at.line > from.line /\ at.line > to.line
  BY <1>6, <1>7, <1>8
<1>10. ~Holds(p[j], at)
  BY <1>5, <1>6, <1>7, <1>9 DEF Holds
<1> QED BY <1>10 DEF at

\* A block holds its places, and the one behind a last character that ends no line.
LEMMA OwnHeld ==
  ASSUME NEW C, NEW t \in Seq(C), NEW p \in Seq(BlockSet(C)), BlocksOf(C, t, p), NEW k \in 1 .. Len(p),
         NEW h \in EndOf(p, k - 1) + 1 .. EndOf(p, k) + 1,
         h = EndOf(p, k) + 1 => t[EndOf(p, k)] # "\n"
  PROVE  Holds(p[k], Place(t, h))
<1> DEFINE a == EndOf(p, k - 1)
           z == EndOf(p, k)
           at == Place(t, h)
           from == Place(t, a + 1)
           last == Place(t, z)
           to == LastPlace(t, z)
<1>1. /\ a \in 0 .. Len(t) /\ z \in 1 .. Len(t) /\ a < z
      /\ p[k].from = from /\ p[k].to = to
  <2>1. a = EndOf(p, k - 1) /\ z = EndOf(p, k)
    OBVIOUS
  <2> HIDE DEF a, z
  <2> QED BY <2>1, BlockAt
<1>2. h \in a + 1 .. z + 1 /\ (h = z + 1 => t[z] # "\n")
  OBVIOUS
<1> HIDE DEF a, z
<1>3. /\ from.line \in Nat /\ at.line \in Nat /\ from.col \in Nat /\ at.col \in Nat /\ from.line <= at.line
      /\ from.line = at.line => at.col >= from.col
  <2>1. a + 1 \in 1 .. Len(t) + 1 /\ h \in a + 1 .. Len(t) + 1
    BY <1>1, <1>2
  <2>2. from.line = at.line => at.col = from.col + (h - (a + 1))
    BY <2>1, LinesInOrder
  <2>3. from.line \in Nat /\ at.line \in Nat /\ from.col \in Nat /\ at.col \in Nat /\ from.line <= at.line
    BY <2>1, LinesInOrder
  <2> HIDE DEF at, from
  <2> QED BY <1>1, <1>2, <2>2, <2>3
<1>4. /\ to.line \in Nat /\ to.col \in Nat /\ at.line <= to.line
      /\ at.line = to.line => at.col <= to.col + 1
  <2>1. CASE h = z + 1
    <3>1. z \in 1 .. Len(t) + 1 /\ z + 1 \in z .. Len(t) + 1 /\ t[z] # "\n" /\ z + 1 - z = 1
      BY <1>1, <1>2, <2>1
    <3>2. to = last /\ at = Place(t, z + 1)
      BY <2>1, <3>1 DEF LastPlace
    <3>3. \A l \in z .. z + 1 - 1 : t[l] # "\n"
      BY <1>1, <3>1
    <3>4. /\ Place(t, z).line = Place(t, z + 1).line /\ Place(t, z + 1).col = Place(t, z).col + 1
          /\ Place(t, z).line \in Nat /\ Place(t, z).col \in Nat
      <4> DEFINE y == z + 1
      <4>1. y \in z .. Len(t) + 1 /\ y - z = 1 /\ \A l \in z .. y - 1 : t[l] # "\n"
        BY <3>1, <3>3
      <4> HIDE DEF y
      <4>2. /\ Place(t, z).line = Place(t, y).line /\ Place(t, y).col = Place(t, z).col + (y - z)
            /\ Place(t, z).line \in Nat /\ Place(t, z).col \in Nat
        BY <3>1, <4>1, LinesInOrder
      <4> QED BY <4>1, <4>2 DEF y
    <3> HIDE DEF at, to, last
    <3> QED BY <3>2, <3>4 DEF last
  <2>2. CASE h # z + 1
    <3>1. h \in 1 .. Len(t) + 1 /\ z \in h .. Len(t) + 1 /\ z \in 1 .. Len(t) + 1
      BY <1>1, <1>2, <2>2
    <3>2. /\ at.line <= last.line /\ last.line \in Nat /\ last.col \in Nat
          /\ at.line = last.line => last.col = at.col + (z - h)
      BY <3>1, LinesInOrder
    <3>3. CASE t[z] = "\n"
      <4>1. to = Advance(last, t[z]) /\ last \in Position
        BY <1>1, <3>1, <3>3, PlaceSteps DEF LastPlace
      <4>2. to.line = last.line + 1 /\ to.col = 1
        BY <3>3, <4>1 DEF Advance, Position
      <4> HIDE DEF at, to, last
      <4> QED BY <1>3, <3>2, <4>2
    <3>4. CASE t[z] # "\n"
      <4>1. to = last
        BY <3>4 DEF LastPlace
      <4> HIDE DEF at, to, last
      <4> QED BY <1>3, <3>1, <3>2, <4>1
    <3> QED BY <3>3, <3>4
  <2> QED BY <2>1, <2>2
<1> HIDE DEF at, from, to
<1>5. CASE from.line = at.line
  BY <1>1, <1>3, <1>5 DEF Holds, at
<1>6. CASE from.line # at.line /\ at.line = to.line
  BY <1>1, <1>4, <1>6 DEF Holds, at
<1>7. CASE from.line # at.line /\ at.line # to.line
  BY <1>1, <1>3, <1>4, <1>7 DEF Holds, at
<1> QED BY <1>5, <1>6, <1>7

LEMMA OneFurther ==
  ASSUME NEW a \in Nat, NEW b \in Nat
  PROVE  a + b + 1 = a + (b + 1)
OBVIOUS

\* A run of empty lines.
LEMMA EmptyLines ==
  ASSUME NEW C, NEW t \in Seq(C), NEW i \in 1 .. Len(t) + 1, NEW j \in i .. Len(t) + 1,
         \A l \in i .. j - 1 : t[l] = "\n"
  PROVE  Place(t, j) = IF j = i THEN Place(t, i) ELSE [line |-> Place(t, i).line + (j - i), col |-> 1]
<1> DEFINE n == Len(t)
           EmptyTo(h) == IF h = i THEN Place(t, i) ELSE [line |-> Place(t, i).line + (h - i), col |-> 1]
           S == {k \in Nat : i + k <= j => Place(t, i + k) = EmptyTo(i + k)}
<1>1. n \in Nat /\ i \in Nat /\ j \in Nat /\ j <= n + 1 /\ 1 <= i
  OBVIOUS
<1>2. Place(t, i) \in Position
  BY PlaceSteps
<1> HIDE DEF n
<1>3. 0 \in S
  BY <1>1
<1>4. ASSUME NEW k \in Nat, k \in S PROVE k + 1 \in S
  <2> SUFFICES ASSUME i + (k + 1) <= j PROVE Place(t, i + (k + 1)) = EmptyTo(i + (k + 1))
    OBVIOUS
  <2> DEFINE h == i + k
             p == Place(t, i)
             q == Place(t, h)
  <2>1. h \in 1 .. n /\ h \in i .. j - 1 /\ i + (k + 1) = h + 1 /\ h - i = k /\ h + 1 - i = k + 1 /\ h + 1 # i
    BY <1>1
  <2>2. q = EmptyTo(h)
    BY <1>1, <1>4, <2>1
  <2> HIDE DEF h, S
  <2>3. Place(t, h + 1) = Advance(q, t[h]) /\ t[h] = "\n"
    BY <2>1, PlaceSteps DEF n
  <2>4. q.line = p.line + k
    <3>1. CASE h = i
      BY <1>2, <2>1, <2>2, <3>1 DEF Position
    <3>2. CASE h # i
      BY <2>1, <2>2, <3>2
    <3> QED BY <3>1, <3>2
  <2>5. Place(t, h + 1) = [line |-> q.line + 1, col |-> 1]
    BY <2>3 DEF Advance
  <2>6. q.line + 1 = p.line + (k + 1)
    <3>1. p.line \in Nat
      BY <1>2 DEF Position
    <3> HIDE DEF p, q
    <3>2. p.line + k + 1 = p.line + (k + 1)
      BY <3>1, OneFurther, Zenon
    <3> QED BY <2>4, <3>2, Zenon
  <2> HIDE DEF p, q
  <2>7. EmptyTo(h + 1) = [line |-> p.line + (k + 1), col |-> 1]
    BY <2>1 DEF p
  <2> QED BY <2>1, <2>5, <2>6, <2>7
<1>5. j - i \in Nat /\ i + (j - i) = j
  BY <1>1
<1>6. j - i \in S
  <2> HIDE DEF S
  <2> QED BY <1>3, <1>4, <1>5, SetInduction
<1> QED BY <1>1, <1>5, <1>6

\* The mark stands at the first character that ends no line.
LEMMA MarkAfterEmptyLines ==
  ASSUME NEW C, NEW b, b.value \in Seq(C), NEW m \in Nat, m < Len(b.value),
         \A j \in 1 .. m : b.value[j] = "\n", b.value[m + 1] # "\n"
  PROVE  DecorationFrom(b) = IF m = 0 THEN b.from ELSE [line |-> b.from.line + m, col |-> 1]
<1> DEFINE v == b.value
           lines == {n \in 0 .. Len(v) : Among(SubSeq(v, 1, n), {"\n"})}
<1>1. v \in Seq(C) /\ Len(v) \in Nat /\ m < Len(v) /\ (\A j \in 1 .. m : v[j] = "\n") /\ v[m + 1] # "\n"
  OBVIOUS
<1>2. DecorationFrom(b) = IF Cardinality(lines) - 1 = 0 THEN b.from
                          ELSE [line |-> b.from.line + (Cardinality(lines) - 1), col |-> 1]
  BY DEF DecorationFrom
<1> HIDE DEF v
<1>3. ASSUME NEW n \in 0 .. Len(v)
      PROVE  Among(SubSeq(v, 1, n), {"\n"}) <=> n <= m
  <2> DEFINE u == SubSeq(v, 1, n)
  <2>1. DOMAIN u = 1 .. n /\ \A j \in 1 .. n : u[j] = v[j]
    BY <1>1
  <2> HIDE DEF u
  <2>2. Among(u, {"\n"}) <=> \A j \in 1 .. n : v[j] = "\n"
    BY <2>1 DEF Among
  <2>3. n > m => m + 1 \in 1 .. n
    OBVIOUS
  <2>4. n <= m => \A j \in 1 .. n : j \in 1 .. m
    OBVIOUS
  <2> QED BY <1>1, <2>2, <2>3, <2>4 DEF u
<1>4. lines = 0 .. m
  BY <1>1, <1>3
<1> HIDE DEF lines
<1>5. Cardinality(0 .. m) = m + 1
  <2>1. 0 \in Int /\ m \in Int
    OBVIOUS
  <2>2. Cardinality(0 .. m) = IF 0 > m THEN 0 ELSE m - 0 + 1
    BY <2>1, FS_Interval
  <2> QED BY <2>2
<1> QED BY <1>2, <1>4, <1>5

LEMMA SmallestUpTo ==
  ASSUME NEW n \in Nat, NEW Q, NEW e \in Q, Q \subseteq 1 .. n
  PROVE  \E l \in Q : \A k \in Q : l <= k
<1> DEFINE R == {n + 1 - k : k \in Q}
<1>1. \A k \in Q : k \in 1 .. n /\ n + 1 - k \in 1 .. n /\ n + 1 - k \in R
  OBVIOUS
<1>2. R \subseteq 1 .. n /\ n + 1 - e \in R
  BY <1>1
<1>3. \A r \in R : \E k \in Q : r = n + 1 - k
  OBVIOUS
<1> HIDE DEF R
<1>4. PICK r \in R : \A x \in R : x <= r
  BY <1>2, LargestUpTo
<1>5. PICK l \in Q : r = n + 1 - l
  BY <1>3
<1>6. ASSUME NEW k \in Q PROVE l <= k
  <2>1. n + 1 - k <= r
    BY <1>1, <1>4
  <2> QED BY <1>1, <1>5, <2>1
<1> QED BY <1>6

\* No piece ends before one to its left.
LEMMA EndsUpTo ==
  ASSUME NEW C, NEW P, Filled(P, C), NEW p \in Seq(P),
         NEW l \in 0 .. Len(p), NEW k \in 1 .. Len(p), l < k
  PROVE  EndOf(p, l) <= EndOf(p, k - 1)
<1>1. k - 1 \in 0 .. Len(p) /\ (l = k - 1 \/ l < k - 1)
  OBVIOUS
<1>2. CASE l = k - 1
  <2>1. EndOf(p, l) \in Nat
    BY EndsGrow
  <2> QED BY <1>2, <2>1
<1>3. CASE l < k - 1
  <2>1. EndOf(p, l) < EndOf(p, k - 1) /\ EndOf(p, l) \in Nat /\ EndOf(p, k - 1) \in Nat
    BY <1>1, <1>3, EndsOrdered, EndsGrow
  <2> QED BY <2>1
<1> QED BY <1>1, <1>2, <1>3

\* The only piece that a place is in.
LEMMA PieceIs ==
  ASSUME NEW C, NEW P, Filled(P, C), NEW p \in Seq(P), NEW i \in 1 .. Len(TextOf(p)),
         NEW k \in 1 .. Len(p), EndOf(p, k - 1) < i, i <= EndOf(p, k)
  PROVE  PieceOf(p, i) = k
<1> DEFINE l == PieceOf(p, i)
<1>1. l \in 1 .. Len(p) /\ EndOf(p, l - 1) < i /\ i <= EndOf(p, l)
  BY PieceFound
<1> HIDE DEF l
<1>2. \A m \in 0 .. Len(p) : EndOf(p, m) \in Nat
  BY EndsGrow
<1>3. /\ l - 1 \in 0 .. Len(p) /\ l \in 0 .. Len(p) /\ k - 1 \in 0 .. Len(p) /\ k \in 0 .. Len(p)
      /\ l \in Int /\ k \in Int
  BY <1>1
<1>4. ~(l < k)
  <2> SUFFICES ASSUME l < k PROVE FALSE
    OBVIOUS
  <2>1. EndOf(p, l) <= EndOf(p, k - 1)
    BY <1>3, EndsUpTo
  <2> QED BY <1>1, <1>2, <1>3, <2>1
<1>5. ~(k < l)
  <2> SUFFICES ASSUME k < l PROVE FALSE
    OBVIOUS
  <2>1. EndOf(p, k) <= EndOf(p, l - 1)
    BY <1>3, EndsUpTo
  <2> QED BY <1>1, <1>2, <1>3, <2>1
<1>6. l = k
  BY <1>3, <1>4, <1>5
<1> QED BY <1>6 DEF l

\* The blocks of any text.
LEMMA BlocksKnown ==
  ASSUME NEW C, NEW t \in Seq(C)
  PROVE  BlocksOf(C, t, GetBlocks(t)) /\ GetBlocks(t) \in Seq(BlockSet(C))
<1>1. PICK f \in [0 .. Len(t) -> CutSet(C)] :
        /\ f[0] = BlockStart /\ \A i \in 1 .. Len(t) : f[i] = BlockTurn(f[i - 1], t, i)
        /\ GetBlocks(t) = f[Len(t)].blocks
  BY BlocksScanned
<1>2. CutText(f, t)
  BY <1>1 DEF CutText
<1>3. BlocksOf(C, t, GetBlocks(t))
  BY <1>1, <1>2, BlocksPlaced
<1> QED BY <1>3 DEF BlocksOf

\* The block of the i-th character.
LEMMA BlockOfPlace ==
  ASSUME NEW C, NEW t \in Seq(C), NEW p \in Seq(BlockSet(C)), BlocksOf(C, t, p),
         NEW i \in 1 .. Len(t), NEW k, k = PieceOf(p, i)
  PROVE  k \in 1 .. Len(p) /\ EndOf(p, k - 1) < i /\ i <= EndOf(p, k)
<1>1. PICK P : Filled(P, C) /\ p \in Seq(P)
  BY BlocksGrow
<1>2. TextOf(p) = t
  BY DEF BlocksOf
<1> QED BY <1>1, <1>2, PieceFound

\* The cursor on or behind a character that is not blank, on a line of one
\* statement, finds that statement.
LEMMA CursorHeld ==
  ASSUME NEW C, NEW t \in Seq(C), NEW p \in Seq(BlockSet(C)), BlocksOf(C, t, p), p = GetBlocks(t),
         NEW i \in 1 .. Len(t), t[i] \notin WhiteSpace,
         \A j \in 1 .. Len(t) : t[j] \notin WhiteSpace /\ Place(t, j).line = Place(t, i).line
                                  => PieceOf(p, j) = PieceOf(p, i),
         NEW k, k = PieceOf(p, i), NEW h \in {i, i + 1}
  PROVE  GetCurrentBlock(t, Place(t, h)) = p[k]
<1>1. PICK P : Filled(P, C) /\ p \in Seq(P)
  BY BlocksGrow
<1>2. TextOf(p) = t
  BY DEF BlocksOf
<1>3. k \in 1 .. Len(p) /\ EndOf(p, k - 1) < i /\ i <= EndOf(p, k)
  BY BlockOfPlace
<1> DEFINE a == EndOf(p, k - 1)
           z == EndOf(p, k)
           q == Place(t, h)
<1>4. a \in 0 .. Len(t) /\ z \in 1 .. Len(t)
  BY <1>3, BlockAt
<1>5. t[i] # "\n"
  BY DEF WhiteSpace
<1>6. q.line = Place(t, i).line
  <2>1. i \in 1 .. Len(t) + 1 /\ h \in i .. Len(t) + 1
    OBVIOUS
  <2>2. \A l \in i .. h - 1 : t[l] # "\n"
    BY <1>5
  <2>3. Place(t, i).line = Place(t, h).line
    BY <2>1, <2>2, LinesInOrder
  <2> QED BY <2>3
<1>7. Holds(p[k], q)
  <2>1. h \in a + 1 .. z + 1
    BY <1>3, <1>4
  <2>2. h = z + 1 => i = z
    BY <1>3, <1>4
  <2>3. h = z + 1 => t[z] # "\n"
    BY <1>5, <2>2
  <2> QED BY <1>3, <2>1, <2>3, OwnHeld
<1>8. ASSUME NEW j \in 1 .. k - 1 PROVE ~Holds(p[j], q)
  <2> DEFINE y == EndOf(p, j)
             last == Place(t, y)
  <2>1. y <= a /\ y < Len(t)
    BY <1>3, BlocksApart
  <2>2. j \in 1 .. Len(p) /\ j # k
    BY <1>3
  <2>3. y \in 1 .. Len(t) /\ EndOf(p, j - 1) < y
    BY <2>2, BlockAt
  <2>4. t[y] = ";"
    <3>1. y = EndOf(p, j) /\ y # Len(t)
      BY <2>1, <2>3
    <3> HIDE DEF y
    <3> QED BY <2>2, <3>1, BlockEnds
  <2>5. PieceOf(p, y) = j
    BY <1>1, <1>2, <2>2, <2>3, PieceIs
  <2>6. last.line # Place(t, i).line
    BY <2>2, <2>3, <2>4, <2>5 DEF WhiteSpace
  <2>7. h \in a + 1 .. Len(t) + 1
    BY <1>3, <1>4
  <2>8. q.line # last.line
    BY <1>6, <2>6
  <2> HIDE DEF last, y
  <2>9. ~Holds(p[j], Place(t, h))
    BY <1>3, <2>7, <2>8, NotHeld DEF last, y
  <2> QED BY <2>9
<1>9. GetCurrentBlock(t, q) = p[k]
  <2>1. k \in 1 .. Len(p)
    BY <1>3
  <2> HIDE DEF q
  <2> QED BY <1>7, <1>8, <2>1, FirstHeld
<1> QED BY <1>9

\* What trim leaves, from the first to the last character that is not blank.
LEMMA Trimmed ==
  ASSUME NEW C, NEW v \in Seq(C), NEW l \in 1 .. Len(v), NEW m \in l .. Len(v),
         v[l] \notin WhiteSpace, v[m] \notin WhiteSpace,
         \A i \in 1 .. Len(v) : v[i] \notin WhiteSpace => l <= i /\ i <= m
  PROVE  Trim(v) = SubSeq(v, l, m)
<1> DEFINE kept == {i \in DOMAIN v : v[i] \notin WhiteSpace}
           x == CHOOSE i \in kept : \A j \in kept : i <= j
           y == CHOOSE i \in kept : \A j \in kept : j <= i
<1>1. l \in kept /\ m \in kept /\ kept \subseteq Int /\ \A i \in kept : l <= i /\ i <= m
  OBVIOUS
<1>2. Trim(v) = IF kept = {} THEN <<>> ELSE SubSeq(v, x, y)
  BY DEF Trim
<1> HIDE DEF kept
<1>3. x = l
  <2>1. x \in kept /\ \A j \in kept : x <= j
    BY <1>1
  <2> HIDE DEF x
  <2> QED BY <1>1, <2>1
<1>4. y = m
  <2>1. y \in kept /\ \A j \in kept : j <= y
    BY <1>1
  <2> HIDE DEF y
  <2> QED BY <1>1, <2>1
<1>5. kept # {}
  BY <1>1
<1> HIDE DEF x, y
<1> QED BY <1>2, <1>3, <1>4, <1>5

LEMMA NotBlank ==
  ASSUME NEW C, NEW v \in Seq(C), NEW i \in 1 .. Len(v), v[i] \notin WhiteSpace
  PROVE  Trim(v) # <<>>
<1> DEFINE Q == {j \in 1 .. Len(v) : v[j] \notin WhiteSpace}
<1>1. i \in Q /\ Q \subseteq 1 .. Len(v) /\ Len(v) \in Nat /\ \A j \in Q : v[j] \notin WhiteSpace
  OBVIOUS
<1>2. \A j \in 1 .. Len(v) : v[j] \notin WhiteSpace => j \in Q
  OBVIOUS
<1> HIDE DEF Q
<1>3. PICK l \in Q : \A j \in Q : l <= j
  BY <1>1, SmallestUpTo
<1>4. PICK m \in Q : \A j \in Q : j <= m
  BY <1>1, LargestUpTo
<1>5. l \in 1 .. Len(v) /\ m \in l .. Len(v)
  BY <1>1, <1>3, <1>4
<1>6. Trim(v) = SubSeq(v, l, m)
  BY <1>1, <1>2, <1>3, <1>4, <1>5, Trimmed
<1>7. Len(SubSeq(v, l, m)) = m - l + 1 /\ Len(<<>>) = 0
  BY <1>5
<1> DEFINE u == SubSeq(v, l, m)
<1>8. Len(u) # 0
  BY <1>5, <1>7
<1> HIDE DEF u
<1> QED BY <1>6, <1>7, <1>8 DEF u

\* A statement that is not blank is sent.
LEMMA StatementSent ==
  ASSUME NEW C, NEW t \in Seq(C), NEW a \in 0 .. Len(t), NEW z \in a .. Len(t),
         NEW i \in a + 1 .. z, t[i] \notin WhiteSpace,
         NEW v \in Seq(C), Len(v) = z - a, \A j \in 1 .. z - a : v[j] = t[a + j]
  PROVE  Trim(v) # <<>>
<1> DEFINE h == i - a
<1>1. h \in 1 .. z - a /\ a + h = i /\ z - a \in Nat
  OBVIOUS
<1> HIDE DEF h
<1>2. h \in 1 .. Len(v) /\ v[h] \notin WhiteSpace
  BY <1>1
<1> QED BY <1>2, NotBlank

\* It is marked at its first line that is not empty.
LEMMA StatementMarked ==
  ASSUME NEW C, NEW t \in Seq(C), NEW a \in 0 .. Len(t), NEW z \in a .. Len(t),
         NEW start \in a + 1 .. z, t[start] # "\n", \A j \in a + 1 .. start - 1 : t[j] = "\n",
         NEW b, b.value \in Seq(C), Len(b.value) = z - a,
         \A j \in 1 .. z - a : b.value[j] = t[a + j], b.from = Place(t, a + 1)
  PROVE  DecorationFrom(b) = Place(t, start)
<1> DEFINE v == b.value
           m == start - (a + 1)
           n == z - a
<1>1. v \in Seq(C) /\ Len(v) = n /\ \A j \in 1 .. n : v[j] = t[a + j]
  OBVIOUS
<1>2. /\ n \in Nat /\ m \in Nat /\ m < n
      /\ m + 1 \in 1 .. n /\ a + (m + 1) = start /\ a \in Nat /\ start \in Nat
      /\ a + 1 \in 1 .. Len(t) + 1 /\ start \in a + 1 .. Len(t) + 1
  OBVIOUS
<1> HIDE DEF v, n
<1>3. DecorationFrom(b) = IF m = 0 THEN b.from ELSE [line |-> b.from.line + m, col |-> 1]
  <2>1. m < Len(v) /\ v[m + 1] # "\n"
    <3>1. v[m + 1] = t[a + (m + 1)]
      BY <1>1, <1>2
    <3> QED BY <1>1, <1>2, <3>1
  <2>2. ASSUME NEW j \in 1 .. m PROVE v[j] = "\n"
    <3>1. j \in 1 .. n /\ a + j \in a + 1 .. start - 1
      BY <1>2
    <3> QED BY <1>1, <3>1
  <2> HIDE DEF m
  <2>3. b.value \in Seq(C) /\ m < Len(b.value) /\ b.value[m + 1] # "\n" /\ \A j \in 1 .. m : b.value[j] = "\n"
    BY <1>1, <2>1, <2>2 DEF v
  <2> QED BY <1>2, <2>3, MarkAfterEmptyLines
<1>4. Place(t, start) = IF start = a + 1 THEN Place(t, a + 1)
                        ELSE [line |-> Place(t, a + 1).line + m, col |-> 1]
  <2> DEFINE h == a + 1
  <2>1. h \in 1 .. Len(t) + 1 /\ start \in h .. Len(t) + 1 /\ \A l \in h .. start - 1 : t[l] = "\n"
    BY <1>2
  <2> HIDE DEF h
  <2>2. Place(t, start) = IF start = h THEN Place(t, h) ELSE [line |-> Place(t, h).line + (start - h), col |-> 1]
    BY <2>1, EmptyLines
  <2> QED BY <2>2 DEF h
<1>5. m = 0 <=> start = a + 1
  BY <1>2
<1> QED BY <1>3, <1>4, <1>5

\* What Execute sends and marks, when it takes a statement that is not blank.
LEMMA ExecuteTakes ==
  ASSUME NEW t, NEW i, NEW j, NEW b, BlockToExecute(t, i, j) = b, Trim(b.value) # <<>>
  PROVE  ExecuteSQL(t, i, j).value = QueryText(b.value) /\ ExecuteSQL(t, i, j).from = DecorationFrom(b)
BY DEF ExecuteSQL

\* The mark depends on nothing else than where the statement begins and what it is.
LEMMA MarkedAlike ==
  ASSUME NEW b, NEW d, d.value = b.value, d.from = b.from
  PROVE  DecorationFrom(d) = DecorationFrom(b)
BY Zenon DEF DecorationFrom

\* A statement that holds more than blanks is marked at its first line that is not empty.
LEMMA MarkedAtLine ==
  ASSUME NEW C, NEW t \in Seq(C), NEW a \in 0 .. Len(t), NEW z \in a .. Len(t),
         NEW i \in a + 1 .. z, t[i] \notin WhiteSpace,
         NEW b, b.value \in Seq(C), Len(b.value) = z - a,
         \A j \in 1 .. z - a : b.value[j] = t[a + j], b.from = Place(t, a + 1)
  PROVE  \E s \in a + 1 .. z :
           /\ t[s] # "\n" /\ \A j \in a + 1 .. s - 1 : t[j] = "\n"
           /\ Trim(b.value) # <<>> /\ DecorationFrom(b) = Place(t, s)
<1> DEFINE n == Len(t)
           Q == {x \in a + 1 .. z : t[x] # "\n"}
<1>1. n \in Nat /\ a \in Nat /\ z \in Nat /\ z <= n
  OBVIOUS
<1>2. t[i] # "\n"
  BY DEF WhiteSpace
<1>3. i \in Q /\ Q \subseteq 1 .. n
  BY <1>1, <1>2
<1>4. \A x \in Q : x \in a + 1 .. z /\ t[x] # "\n"
  OBVIOUS
<1>5. \A x \in a + 1 .. z : t[x] # "\n" => x \in Q
  OBVIOUS
<1> HIDE DEF Q, n
<1>6. \E s \in Q : \A x \in Q : s <= x
  BY <1>1, <1>3, SmallestUpTo
<1>7. \E s \in a + 1 .. z : t[s] # "\n" /\ \A j \in a + 1 .. s - 1 : t[j] = "\n"
  <2>1. PICK s \in Q : \A x \in Q : s <= x
    BY <1>6
  <2>2. s \in a + 1 .. z /\ t[s] # "\n"
    BY <1>4
  <2>3. ASSUME NEW j \in a + 1 .. s - 1 PROVE t[j] = "\n"
    <3> SUFFICES ASSUME t[j] # "\n" PROVE FALSE
      OBVIOUS
    <3>1. j \in a + 1 .. z /\ j < s
      BY <1>1, <2>2
    <3>2. j \in Q
      BY <1>5, <3>1
    <3> QED BY <1>1, <2>1, <2>2, <3>1, <3>2
  <2> QED BY <2>2, <2>3
<1>8. PICK s \in a + 1 .. z : t[s] # "\n" /\ \A j \in a + 1 .. s - 1 : t[j] = "\n"
  BY <1>7
<1>9. Trim(b.value) # <<>>
  BY StatementSent
<1>10. DecorationFrom(b) = Place(t, s)
  BY <1>8, StatementMarked
<1> QED BY <1>8, <1>9, <1>10

\* The cursor at h takes the block of the i-th character, and sends and marks it as
\* if it were selected as a whole.
OwnAt(t, p, i, h) ==
  LET l == PieceOf(p, i)
      a == EndOf(p, l - 1)
      z == EndOf(p, l)
  IN  /\ a \in Nat /\ z \in 1 .. Len(t)
      /\ GetCurrentBlock(t, Place(t, h)) = p[l]
      /\ \E s \in a + 1 .. z :
           /\ t[s] # "\n" /\ \A j \in a + 1 .. s - 1 : t[j] = "\n"
           /\ ExecuteSQL(t, h, h).value = ExecuteSQL(t, a + 1, z + 1).value
           /\ ExecuteSQL(t, h, h).from = Place(t, s)
           /\ ExecuteSQL(t, a + 1, z + 1).from = Place(t, s)

LEMMA OwnTaken ==
  ASSUME NEW C, NEW t \in Seq(C), NEW p \in Seq(BlockSet(C)), BlocksOf(C, t, p), p = GetBlocks(t),
         NEW i \in 1 .. Len(t), t[i] \notin WhiteSpace,
         \A j \in 1 .. Len(t) : t[j] \notin WhiteSpace /\ Place(t, j).line = Place(t, i).line
                                  => PieceOf(p, j) = PieceOf(p, i),
         NEW h \in {i, i + 1}
  PROVE  OwnAt(t, p, i, h)
<1> DEFINE l == PieceOf(p, i)
           a == EndOf(p, l - 1)
           z == EndOf(p, l)
           b == p[l]
           d == GetSelectedBlock(t, a + 1, z + 1)
           v == SubSeq(t, a + 1, z)
<1>1. l = PieceOf(p, i) /\ a = EndOf(p, l - 1) /\ z = EndOf(p, l)
  OBVIOUS
<1> HIDE DEF l
<1>2. l \in 1 .. Len(p) /\ a < i /\ i <= z
  BY <1>1, BlockOfPlace
<1>3. GetCurrentBlock(t, Place(t, h)) = b
  BY <1>1, CursorHeld
<1> HIDE DEF a, z
<1>4. a \in 0 .. Len(t) /\ z \in 1 .. Len(t) /\ a < z
  BY <1>1, <1>2, BlockAt
<1>5. b.value = v
  BY <1>2, Zenon DEF BlocksOf, a, z
<1>6. b.from = Place(t, a + 1)
  BY <1>1, <1>2, BlockAt
<1> HIDE DEF b
<1>7. /\ i \in a + 1 .. z /\ z \in a .. Len(t) /\ a \in Nat /\ z \in Nat
      /\ a + 1 # z + 1 /\ z + 1 - 1 = z
  BY <1>2, <1>4
<1>8. /\ v \in Seq(C) /\ Len(v) = z - a /\ \A j \in 1 .. z - a : v[j] = t[a + j]
  BY <1>4, <1>7, Pieces
<1>9. BlockToExecute(t, h, h) = b
  BY <1>3 DEF BlockToExecute
<1>10. BlockToExecute(t, a + 1, z + 1) = d
  BY <1>7 DEF BlockToExecute
<1>11. d.value = v /\ d.from = Place(t, a + 1)
  <2> DEFINE y == z + 1
  <2>1. y - 1 = z /\ d = GetSelectedBlock(t, a + 1, y)
    BY <1>7
  <2> HIDE DEF y
  <2> QED BY <2>1, Zenon DEF GetSelectedBlock
<1> HIDE DEF v, d
<1>12. /\ b.value \in Seq(C) /\ Len(b.value) = z - a
       /\ \A j \in 1 .. z - a : b.value[j] = t[a + j]
  BY <1>5, <1>8
<1>13. d.value = b.value
  BY <1>5, <1>11
<1>14. DecorationFrom(d) = DecorationFrom(b)
  BY <1>6, <1>11, <1>13, MarkedAlike
<1>15. PICK s \in a + 1 .. z :
         /\ t[s] # "\n" /\ \A j \in a + 1 .. s - 1 : t[j] = "\n"
         /\ Trim(b.value) # <<>> /\ DecorationFrom(b) = Place(t, s)
  BY <1>4, <1>6, <1>7, <1>12, MarkedAtLine
<1>16. ExecuteSQL(t, h, h).value = QueryText(b.value) /\ ExecuteSQL(t, h, h).from = DecorationFrom(b)
  BY <1>9, <1>15, ExecuteTakes
<1>17. /\ ExecuteSQL(t, a + 1, z + 1).value = QueryText(d.value)
       /\ ExecuteSQL(t, a + 1, z + 1).from = DecorationFrom(d)
  BY <1>10, <1>13, <1>15, ExecuteTakes
<1>18. /\ ExecuteSQL(t, h, h).value = ExecuteSQL(t, a + 1, z + 1).value
       /\ ExecuteSQL(t, h, h).from = Place(t, s)
       /\ ExecuteSQL(t, a + 1, z + 1).from = Place(t, s)
  BY <1>13, <1>14, <1>15, <1>16, <1>17
<1> QED BY <1>3, <1>4, <1>7, <1>15, <1>18 DEF OwnAt, l, a, z, b

LEMMA CursorOwns == TextInv => CursorTakesOwn
<1> DEFINE C == keys.chars
           p == GetBlocks(text)
           n == Len(text)
           places == [x \in 1 .. Len(text) + 1 |-> Place(text, x)]
           lines == {x \in DOMAIN text : text[x] # "\n"}
<1> SUFFICES ASSUME TextInv, NEW i \in DOMAIN text, text[i] \notin WhiteSpace,
                    \A j \in DOMAIN text : (text[j] \notin WhiteSpace /\ places[j].line = places[i].line)
                                             => PieceOf(p, j) = PieceOf(p, i),
                    NEW at \in {i, i + 1}
             PROVE  LET k     == PieceOf(p, i)
                        first == EndOf(p, k - 1) + 1
                        whole == ExecuteSQL(text, first, EndOf(p, k) + 1)
                        start == CHOOSE x \in lines : x >= first /\ \A j \in lines : j >= first => j >= x
                    IN  /\ GetCurrentBlock(text, places[at]) = p[k]
                        /\ ExecuteSQL(text, at, at).value = whole.value
                        /\ ExecuteSQL(text, at, at).from = places[start] /\ whole.from = places[start]
  BY DEF CursorTakesOwn
<1>1. text \in Seq(C) /\ n \in Nat /\ DOMAIN text = 1 .. n
  BY DEF TextInv
<1> HIDE DEF C
<1>2. \A x \in 1 .. n + 1 : places[x] = Place(text, x)
  OBVIOUS
<1>3. i \in 1 .. n /\ i \in 1 .. n + 1 /\ at \in 1 .. n + 1
  BY <1>1
<1>4. BlocksOf(C, text, p) /\ p \in Seq(BlockSet(C))
  BY <1>1, BlocksKnown
<1>5. \A j \in 1 .. n : text[j] \notin WhiteSpace /\ Place(text, j).line = Place(text, i).line
                          => PieceOf(p, j) = PieceOf(p, i)
  <2> SUFFICES ASSUME NEW j \in 1 .. n, text[j] \notin WhiteSpace, Place(text, j).line = Place(text, i).line
               PROVE  PieceOf(p, j) = PieceOf(p, i)
    OBVIOUS
  <2>1. places[j] = Place(text, j) /\ places[i] = Place(text, i) /\ j \in DOMAIN text
    BY <1>1, <1>2, <1>3
  <2> HIDE DEF places, p
  <2> QED BY <2>1
<1> DEFINE l == PieceOf(p, i)
           a == EndOf(p, l - 1)
           z == EndOf(p, l)
           first == a + 1
           whole == ExecuteSQL(text, first, z + 1)
           start == CHOOSE x \in lines : x >= first /\ \A j \in lines : j >= first => j >= x
<1>6. p = GetBlocks(text) /\ l = PieceOf(p, i) /\ a = EndOf(p, l - 1) /\ z = EndOf(p, l)
  OBVIOUS
<1> HIDE DEF places, p, l, a, z
<1>7. /\ a \in Nat /\ z \in 1 .. Len(text)
      /\ GetCurrentBlock(text, Place(text, at)) = p[l]
      /\ \E s \in a + 1 .. z :
           /\ text[s] # "\n" /\ \A j \in a + 1 .. s - 1 : text[j] = "\n"
           /\ ExecuteSQL(text, at, at).value = ExecuteSQL(text, a + 1, z + 1).value
           /\ ExecuteSQL(text, at, at).from = Place(text, s)
           /\ ExecuteSQL(text, a + 1, z + 1).from = Place(text, s)
  <2>1. i \in 1 .. Len(text) /\ text[i] \notin WhiteSpace
    BY <1>3
  <2>2. \A j \in 1 .. Len(text) : text[j] \notin WhiteSpace /\ Place(text, j).line = Place(text, i).line
                                    => PieceOf(p, j) = PieceOf(p, i)
    BY <1>5
  <2>3. OwnAt(text, p, i, at)
    BY <1>1, <1>4, <1>6, <2>1, <2>2, OwnTaken
  <2> QED BY <2>3 DEF OwnAt, l, a, z
<1>8. PICK s \in a + 1 .. z :
        /\ text[s] # "\n" /\ \A j \in a + 1 .. s - 1 : text[j] = "\n"
        /\ ExecuteSQL(text, at, at).value = whole.value
        /\ ExecuteSQL(text, at, at).from = Place(text, s)
        /\ whole.from = Place(text, s)
  BY <1>7
<1> HIDE DEF whole
<1>9. start = s
  <2>1. s \in lines /\ s >= first
    BY <1>1, <1>7, <1>8
  <2>2. ASSUME NEW j \in lines, j >= first PROVE j >= s
    <3>1. j \in 1 .. n /\ text[j] # "\n"
      BY <1>1
    <3>2. j < s => j \in a + 1 .. s - 1
      BY <1>7, <1>8, <2>2, <3>1
    <3> QED BY <1>7, <1>8, <3>1, <3>2
  <2>3. lines \subseteq Int
    BY <1>1
  <2> DEFINE R(x) == x >= first /\ \A j \in lines : j >= first => j >= x
  <2> HIDE DEF lines, first
  <2>4. R(s)
    BY <2>1, <2>2
  <2>5. start \in lines /\ R(start)
    BY <2>1, <2>4
  <2> HIDE DEF start
  <2>6. start >= s /\ s >= start
    BY <2>1, <2>2, <2>5
  <2> QED BY <2>1, <2>3, <2>5, <2>6
<1>10. places[at] = Place(text, at) /\ places[s] = Place(text, s)
  <2>1. s \in 1 .. n + 1
    BY <1>1, <1>7, <1>8
  <2> QED BY <1>2, <1>3, <2>1
<1> HIDE DEF start, first
<1> QED BY <1>7, <1>8, <1>9, <1>10 DEF p, l, a, z, first, whole, start

\* The i-th character of m line ends and one of the statements appended.
Line(m, i) == IF i <= m THEN "\n" ELSE IF i = m + 1 THEN "b" ELSE ";"

LEMMA LineChars ==
  ASSUME NEW m \in Nat
  PROVE  /\ \A i \in 1 .. m : Line(m, i) = "\n"
         /\ Line(m, m + 1) = "b" /\ Line(m, m + 2) = ";"
         /\ \A i \in Int : Line(m, i) \notin WhiteSpace => m + 1 <= i
         /\ Line(m, m + 1) \notin WhiteSpace /\ Line(m, m + 2) \notin WhiteSpace
BY DEF Line, WhiteSpace

\* Two line ends and one of the statements, appended after n characters.
Appended(t, n) ==
  /\ Len(t) \in {n + 3, n + 4}
  /\ \A i \in 1 .. Len(t) - n : t[n + i] = Line(2, i)

\* The statement alone, and with its semicolon.
LEMMA SingleB ==
  ASSUME NEW C, NEW s \in Seq(C), Len(s) = 1, s[1] = "b"
  PROVE  s = <<"b">> /\ s[Len(s)] # ";" /\ Trim(s) = <<"b">>
<1>1. s = <<"b">> /\ s[Len(s)] # ";" /\ SubSeq(s, 1, 1) = s
  OBVIOUS
<1>2. s[1] \notin WhiteSpace
  BY DEF WhiteSpace
<1>3. 1 \in 1 .. Len(s) /\ \A i \in 1 .. Len(s) : s[i] \notin WhiteSpace => 1 <= i /\ i <= 1
  OBVIOUS
<1>4. Trim(s) = SubSeq(s, 1, 1)
  BY <1>2, <1>3, Trimmed
<1> QED BY <1>1, <1>4, Zenon

LEMMA NotNoPiece ==
  ASSUME NEW C, NEW s \in Seq(C), Len(s) = 2
  PROVE  s # <<>>
OBVIOUS

LEMMA ButLast ==
  ASSUME NEW C, NEW s \in Seq(C), Len(s) = 2
  PROVE  SubSeq(s, 1, Len(s) - 1) \in Seq(C) /\ Len(SubSeq(s, 1, Len(s) - 1)) = 1 /\ SubSeq(s, 1, Len(s) - 1)[1] = s[1]
<1> DEFINE x == SubSeq(s, 1, Len(s) - 1)
<1>1. x \in Seq(C)
  OBVIOUS
<1>2. Len(x) = 1
  OBVIOUS
<1>3. x[1] = s[1]
  OBVIOUS
<1> QED BY <1>1, <1>2, <1>3, Zenon

LEMMA EndedB ==
  ASSUME NEW C, NEW s \in Seq(C), Len(s) = 2, s[1] = "b", NEW c, s[2] = c
  PROVE  s # <<>> /\ s[Len(s)] = c /\ Trim(SubSeq(s, 1, Len(s) - 1)) = <<"b">>
<1> DEFINE x == SubSeq(s, 1, Len(s) - 1)
<1>1. s # <<>> /\ s[Len(s)] = c
  <2>1. s # <<>>
    BY Zenon, NotNoPiece
  <2> QED BY <2>1, Zenon
<1>2. x \in Seq(C) /\ Len(x) = 1 /\ x[1] = "b"
  BY ButLast, Zenon
<1> HIDE DEF x
<1>3. Trim(x) = <<"b">>
  BY <1>2, SingleB
<1> QED BY <1>1, <1>3 DEF x

\* The statement sent, whatever line ends are before it.
LEMMA SentIsB ==
  ASSUME NEW C, NEW v \in Seq(C), NEW m \in Nat, Len(v) \in {m + 1, m + 2},
         \A i \in 1 .. Len(v) : v[i] = Line(m, i)
  PROVE  QueryText(v) = <<"b">>
<1> DEFINE n == Len(v)
           l == m + 1
           s == SubSeq(v, l, n)
           x == SubSeq(s, 1, Len(s) - 1)
<1>1. n \in {m + 1, m + 2} /\ n \in Nat /\ l \in Nat /\ l = m + 1 /\ l \in 1 .. n /\ n \in l .. n
  OBVIOUS
<1>2. v[l] \notin WhiteSpace
  <2>1. v[l] = Line(m, m + 1)
    BY <1>1
  <2> QED BY <2>1, LineChars
<1>3. v[n] \notin WhiteSpace
  <2>1. v[n] = Line(m, m + 1) \/ v[n] = Line(m, m + 2)
    BY <1>1
  <2> QED BY <2>1, LineChars
<1>4. ASSUME NEW i \in 1 .. n, v[i] \notin WhiteSpace PROVE l <= i /\ i <= n
  <2>1. v[i] = Line(m, i)
    OBVIOUS
  <2>2. Line(m, i) \notin WhiteSpace
    BY <1>4, <2>1
  <2>3. i \in Int
    BY <1>1
  <2>4. m + 1 <= i
    BY <2>2, <2>3, LineChars
  <2> QED BY <1>1, <2>4
<1>5. /\ \A i \in 1 .. n : v[i] = Line(m, i)
      /\ n = Len(v)
  OBVIOUS
<1> HIDE DEF n, l, s
<1>6. Trim(v) = s
  <2>1. Trim(v) = SubSeq(v, l, n)
    BY <1>1, <1>2, <1>3, <1>4, <1>5, Trimmed
  <2> QED BY <2>1 DEF s
<1>7. QueryText(v) = IF s # <<>> /\ s[Len(s)] = ";" THEN Trim(x) ELSE s
  BY <1>6, Zenon DEF QueryText
<1>8. s \in Seq(C) /\ Len(s) = n - m /\ \A i \in 1 .. n - m : s[i] = v[m + i]
  <2>1. m \in 0 .. Len(v) /\ n \in m .. Len(v)
    BY <1>1, <1>5
  <2>2. /\ SubSeq(v, m + 1, n) \in Seq(C) /\ Len(SubSeq(v, m + 1, n)) = n - m
        /\ \A i \in 1 .. n - m : SubSeq(v, m + 1, n)[i] = v[m + i]
    BY <2>1, Pieces
  <2> QED BY <2>2, Zenon DEF s, l
<1>9. s[1] = "b"
  <2>1. 1 \in 1 .. n - m /\ m + 1 \in 1 .. n
    BY <1>1
  <2>2. s[1] = v[m + 1] /\ v[m + 1] = Line(m, m + 1)
    BY <1>5, <1>8, <2>1
  <2> QED BY <2>2, LineChars
<1>10. CASE n = m + 1
  <2>1. Len(s) = 1
    BY <1>8, <1>10
  <2>2. s = <<"b">> /\ s[Len(s)] # ";"
    BY <1>8, <1>9, <2>1, SingleB
  <2> HIDE DEF x
  <2> QED BY <1>7, <2>2, Zenon
<1>11. CASE n = m + 2
  <2>1. Len(s) = 2
    BY <1>8, <1>11
  <2>2. s[2] = ";"
    <3>1. 2 \in 1 .. n - m /\ m + 2 \in 1 .. n
      BY <1>1, <1>11
    <3>2. s[2] = v[m + 2] /\ v[m + 2] = Line(m, m + 2)
      BY <1>5, <1>8, <3>1
    <3> QED BY <3>2, LineChars
  <2>3. s # <<>> /\ s[Len(s)] = ";" /\ Trim(x) = <<"b">>
    BY <1>8, <1>9, <2>1, <2>2, EndedB
  <2> HIDE DEF x
  <2> QED BY <1>7, <2>3, Zenon
<1> QED BY <1>1, <1>10, <1>11

\* Its characters.
LEMMA AppendedChars ==
  ASSUME NEW C, NEW t \in Seq(C), NEW n \in Nat, Appended(t, n)
  PROVE  /\ Len(t) \in {n + 3, n + 4}
         /\ t[n + 1] = "\n" /\ t[n + 2] = "\n" /\ t[n + 3] = "b"
<1>1. Len(t) \in {n + 3, n + 4} /\ \A i \in 1 .. Len(t) - n : t[n + i] = Line(2, i)
  BY DEF Appended
<1>2. 1 \in 1 .. Len(t) - n /\ 2 \in 1 .. Len(t) - n /\ 3 \in 1 .. Len(t) - n
  BY <1>1
<1>3. t[n + 1] = Line(2, 1) /\ t[n + 2] = Line(2, 2) /\ t[n + 3] = Line(2, 3)
  BY <1>1, <1>2
<1>4. Line(2, 1) = "\n" /\ Line(2, 2) = "\n" /\ Line(2, 3) = "b"
  BY DEF Line
<1> QED BY <1>1, <1>3, <1>4

\* What is appended behind a cut is the last block.
LEMMA LastIsAppended ==
  ASSUME NEW C, NEW t \in Seq(C), NEW n \in Nat, Appended(t, n),
         NEW f \in [0 .. Len(t) -> CutSet(C)], CutText(f, t), Cut(f, t, n),
         NEW p \in Seq(BlockSet(C)), p = f[Len(t)].blocks, BlocksOf(C, t, p)
  PROVE  \E k \in 1 .. Len(p) : EndOf(p, k - 1) = n /\ EndOf(p, k) = Len(t)
<1>1. /\ Len(t) \in {n + 3, n + 4}
       /\ t[n + 1] = "\n" /\ t[n + 2] = "\n" /\ t[n + 3] = "b"
  BY AppendedChars
<1>2. n + 1 \in 1 .. Len(t) /\ n < Len(t) /\ Len(t) \in Nat
  BY <1>1
<1>3. PICK P : Filled(P, C) /\ p \in Seq(P)
  BY BlocksGrow
<1> DEFINE i == n + 1
           k == PieceOf(p, i)
           a == EndOf(p, k - 1)
           z == EndOf(p, k)
<1>4. i \in 1 .. Len(t) /\ k = PieceOf(p, i)
  BY <1>2
<1> HIDE DEF k
<1> HIDE DEF i
<1>5. k \in 1 .. Len(p) /\ EndOf(p, k - 1) < i /\ i <= EndOf(p, k)
  BY <1>4, BlockOfPlace
<1>6. a = EndOf(p, k - 1) /\ z = EndOf(p, k)
  OBVIOUS
<1> HIDE DEF a, z
<1>7. a \in 0 .. Len(t) /\ z \in 1 .. Len(t) /\ a < z
  BY <1>5, <1>6, BlockAt
<1>8. a <= n /\ n < z
  BY <1>5, <1>6, <1>7 DEF i
<1>9. a = n
  <2>1. CASE n = 0
    BY <1>7, <1>8, <2>1
  <2>2. CASE n # 0
    <3> DEFINE m == PieceOf(p, n)
    <3>1. n \in 1 .. Len(t)
      BY <1>2, <2>2
    <3>2. n = EndOf(p, m)
      BY <1>2, <3>1, BlockEndsAt
    <3>3. m \in 1 .. Len(p)
      BY <3>1, BlockOfPlace
    <3> HIDE DEF m
    <3>4. m \in 0 .. Len(p) /\ k \in 0 .. Len(p) /\ k - 1 \in 0 .. Len(p) /\ m \in Int /\ k \in Int
      BY <1>5, <3>3
    <3>5. ~(k < m)
      <4>1. k < m => EndOf(p, k) < EndOf(p, m)
        BY <1>3, <3>4, EndsOrdered
      <4> QED BY <1>6, <1>7, <1>8, <3>2, <4>1
    <3>6. m # k
      BY <1>6, <1>7, <1>8, <3>2
    <3>7. m = k - 1 \/ m < k - 1
      BY <3>4, <3>5, <3>6
    <3>8. m < k - 1 => EndOf(p, m) < EndOf(p, k - 1)
      BY <1>3, <3>4, EndsOrdered
    <3>9. n <= a
      BY <1>6, <1>7, <3>2, <3>7, <3>8
    <3> QED BY <1>7, <1>8, <3>9
  <2> QED BY <2>1, <2>2
<1>10. z = Len(t)
  <2> SUFFICES ASSUME z # Len(t) PROVE FALSE
    OBVIOUS
  <2>1. t[z] = ";"
    BY <1>5, <1>6, BlockEnds
  <2>2. z = n + 1 \/ z = n + 2 \/ z = n + 3
    BY <1>7, <1>8, <1>1
  <2>3. t[n + 1] # ";" /\ t[n + 2] # ";" /\ t[n + 3] # ";"
    BY <1>1
  <2> QED BY <2>1, <2>2, <2>3
<1> QED BY <1>5, <1>6, <1>9, <1>10

\* On the line of the statement appended stands nothing else.
LEMMA AloneOnItsLine ==
  ASSUME NEW C, NEW t \in Seq(C), NEW n \in Nat, Appended(t, n),
         NEW j \in 1 .. Len(t), t[j] \notin WhiteSpace, Place(t, j).line = Place(t, n + 3).line
  PROVE  n + 3 <= j
<1> SUFFICES ASSUME ~(n + 3 <= j) PROVE FALSE
  OBVIOUS
<1>1. /\ Len(t) \in {n + 3, n + 4}
      /\ t[n + 1] = "\n" /\ t[n + 2] = "\n" /\ t[n + 3] = "b"
  BY AppendedChars
<1> DEFINE h == n + 3
<1>2. h \in j .. Len(t) + 1 /\ j \in 1 .. Len(t) + 1 /\ j <= n + 2
  BY <1>1
<1>3. j # n + 2
  BY <1>1 DEF WhiteSpace
<1>4. n + 2 \in j .. h - 1 /\ t[n + 2] = "\n"
  BY <1>1, <1>2
<1>5. Place(t, j).line = Place(t, h).line
  OBVIOUS
<1> HIDE DEF h
<1>6. Behind(t, j, h)
  BY <1>2, PlacesInOrder
<1>7. \E l \in j .. h - 1 : t[l] = "\n"
  BY <1>4
<1>8. Place(t, j).line < Place(t, h).line
  BY <1>6, <1>7 DEF Behind
<1>9. Place(t, j).line \in Nat
  BY <1>2, PlaceSteps DEF Position
<1> QED BY <1>5, <1>8, <1>9

\* The cursor on the statement appended finds it.
LEMMA LastIsFound ==
  ASSUME NEW C, NEW t \in Seq(C), NEW n \in Nat, Appended(t, n),
         NEW p \in Seq(BlockSet(C)), BlocksOf(C, t, p), p = GetBlocks(t),
         NEW k \in 1 .. Len(p), EndOf(p, k - 1) = n, EndOf(p, k) = Len(t)
  PROVE  GetCurrentBlock(t, Place(t, n + 3)) = p[k]
<1>1. /\ Len(t) \in {n + 3, n + 4}
      /\ t[n + 1] = "\n" /\ t[n + 2] = "\n" /\ t[n + 3] = "b"
  BY AppendedChars
<1> DEFINE h == n + 3
<1>2. h \in 1 .. Len(t) /\ h \in {h, h + 1} /\ n < h /\ h <= Len(t)
  BY <1>1
<1>3. t[h] \notin WhiteSpace
  BY <1>1 DEF WhiteSpace
<1>4. PICK P : Filled(P, C) /\ p \in Seq(P)
  BY BlocksGrow
<1>5. TextOf(p) = t
  BY DEF BlocksOf
<1>6. ASSUME NEW j \in 1 .. Len(t), n < j PROVE PieceOf(p, j) = k
  <2>1. j \in 1 .. Len(TextOf(p)) /\ EndOf(p, k - 1) < j /\ j <= EndOf(p, k)
    BY <1>5, <1>6
  <2> QED BY <1>4, <2>1, PieceIs
<1>7. PieceOf(p, h) = k
  BY <1>2, <1>6
<1>8. ASSUME NEW j \in 1 .. Len(t), t[j] \notin WhiteSpace, Place(t, j).line = Place(t, h).line
      PROVE  PieceOf(p, j) = PieceOf(p, h)
  <2>1. h <= j
    BY <1>8, AloneOnItsLine
  <2>2. PieceOf(p, j) = k
    BY <1>2, <1>6, <2>1
  <2> QED BY <1>7, <2>2
<1> HIDE DEF h
<1>9. GetCurrentBlock(t, Place(t, h)) = p[k]
  BY <1>2, <1>3, <1>7, <1>8, CursorHeld
<1> QED BY <1>9 DEF h

\* It is sent as it was submitted.
LEMMA LastIsSent ==
  ASSUME NEW C, NEW t \in Seq(C), NEW n \in Nat, Appended(t, n),
         NEW v \in Seq(C), Len(v) = Len(t) - n, \A i \in 1 .. Len(t) - n : v[i] = t[n + i]
  PROVE  QueryText(v) = <<"b">>
<1>1. Len(t) \in {n + 3, n + 4} /\ \A i \in 1 .. Len(t) - n : t[n + i] = Line(2, i)
  BY DEF Appended
<1>2. Len(v) \in {2 + 1, 2 + 2}
  BY <1>1
<1>3. \A i \in 1 .. Len(v) : v[i] = Line(2, i)
  BY <1>1
<1> QED BY <1>2, <1>3, SentIsB

\* It is marked where it stands.
LEMMA LastIsMarked ==
  ASSUME NEW C, NEW t \in Seq(C), NEW n \in Nat, Appended(t, n),
         NEW z \in n .. Len(t), n + 3 <= z,
         NEW b, b.value \in Seq(C), Len(b.value) = z - n,
         \A i \in 1 .. z - n : b.value[i] = t[n + i], b.from = Place(t, n + 1)
  PROVE  DecorationFrom(b) = Place(t, n + 3)
<1> DEFINE h == n + 3
<1>1. t[n + 1] = "\n" /\ t[n + 2] = "\n" /\ t[n + 3] = "b"
  BY AppendedChars
<1>2. t[h] # "\n" /\ \A j \in n + 1 .. h - 1 : t[j] = "\n"
  <2>1. \A j \in n + 1 .. h - 1 : j = n + 1 \/ j = n + 2
    OBVIOUS
  <2> QED BY <1>1, <2>1
<1>3. h \in n + 1 .. z /\ n \in 0 .. Len(t)
  OBVIOUS
<1> HIDE DEF h
<1>4. DecorationFrom(b) = Place(t, h)
  BY <1>2, <1>3, StatementMarked
<1> QED BY <1>4 DEF h

\* LinesOf counts the line of the end of a text.
LEMMA LinesCounted ==
  ASSUME NEW C, NEW t \in Seq(C)
  PROVE  Place(t, Len(t) + 1).line = LinesOf(t)
<1> DEFINE n == Len(t)
           K(k) == {i \in 1 .. k : t[i] = "\n"}
           Counted(k) == /\ IsFiniteSet(K(k)) /\ Cardinality(K(k)) \in Nat
                         /\ Place(t, k + 1).line = 1 + Cardinality(K(k))
           S == {k \in Nat : k <= n => Counted(k)}
<1>1. n \in Nat /\ DOMAIN t = 1 .. n
  OBVIOUS
<1>2. \A i \in 1 .. n : Place(t, i + 1) = Advance(Place(t, i), t[i]) /\ Place(t, i) \in Position
  BY PlaceSteps
<1>3. Place(t, 1) = Origin
  BY PlaceSteps
<1> HIDE DEF n
<1>4. 0 \in S
  <2>1. K(0) = {}
    OBVIOUS
  <2>2. IsFiniteSet({}) /\ Cardinality({}) = 0
    BY FS_EmptySet
  <2>3. Place(t, 0 + 1).line = 1
    BY <1>3 DEF Origin
  <2>4. Counted(0)
    BY <2>1, <2>2, <2>3
  <2> QED BY <2>4
<1>5. ASSUME NEW k \in Nat, k \in S PROVE k + 1 \in S
  <2> SUFFICES ASSUME k + 1 <= n PROVE Counted(k + 1)
    OBVIOUS
  <2> DEFINE j == k + 1
             p == Place(t, j)
             q == Place(t, j + 1)
             A == K(k)
             B == K(j)
  <2>1. j \in 1 .. n /\ j \notin A
    BY <1>1
  <2>2. IsFiniteSet(A) /\ Cardinality(A) \in Nat /\ p.line = 1 + Cardinality(A)
    BY <1>1, <1>5
  <2>3. q = Advance(p, t[j]) /\ p \in Position
    BY <1>2, <2>1
  <2>4. t[j] = "\n" => B = A \cup {j}
    OBVIOUS
  <2>5. t[j] # "\n" => B = A
    OBVIOUS
  <2> HIDE DEF A, B, p, q, j
  <2>6. IsFiniteSet(A \cup {j}) /\ Cardinality(A \cup {j}) = Cardinality(A) + 1
    BY <2>1, <2>2, FS_AddElement
  <2>7. CASE t[j] = "\n"
    <3>1. q.line = p.line + 1
      BY <2>3, <2>7 DEF Advance, Position
    <3>2. IsFiniteSet(B) /\ Cardinality(B) = Cardinality(A) + 1
      BY <2>4, <2>6, <2>7
    <3>3. Cardinality(B) \in Nat /\ q.line = 1 + Cardinality(B)
      BY <2>2, <3>1, <3>2
    <3> QED BY <3>2, <3>3 DEF B, q, j
  <2>8. CASE t[j] # "\n"
    <3>1. q.line = p.line
      BY <2>3, <2>8 DEF Advance, Position
    <3>2. B = A
      BY <2>5, <2>8
    <3>3. IsFiniteSet(B) /\ Cardinality(B) \in Nat /\ q.line = 1 + Cardinality(B)
      BY <2>2, <3>1, <3>2
    <3> QED BY <3>3 DEF B, q, j
  <2> QED BY <2>7, <2>8
<1>6. n \in S
  <2> HIDE DEF S
  <2> QED BY <1>1, <1>4, <1>5, SetInduction
<1>7. LinesOf(t) = 1 + Cardinality(K(n))
  BY <1>1, Zenon DEF LinesOf
<1> QED BY <1>1, <1>6, <1>7 DEF n

\* The places of a text are those of what it begins with.
LEMMA SamePlaces ==
  ASSUME NEW C, NEW t \in Seq(C), NEW u \in Seq(C), NEW n \in Nat, n <= Len(t), n <= Len(u),
         \A i \in 1 .. n : t[i] = u[i]
  PROVE  \A i \in 1 .. n + 1 : Place(t, i) = Place(u, i)
<1> DEFINE S == {k \in Nat : k <= n => Place(t, k + 1) = Place(u, k + 1)}
<1>1. 0 \in S
  BY PlaceSteps
<1>2. ASSUME NEW k \in Nat, k \in S PROVE k + 1 \in S
  <2> SUFFICES ASSUME k + 1 <= n PROVE Place(t, k + 1 + 1) = Place(u, k + 1 + 1)
    OBVIOUS
  <2> DEFINE j == k + 1
  <2>1. j \in 1 .. Len(t) /\ j \in 1 .. Len(u) /\ t[j] = u[j] /\ Place(t, j) = Place(u, j)
    BY <1>2
  <2> HIDE DEF j
  <2>2. Place(t, j + 1) = Advance(Place(t, j), t[j])
    BY <2>1, PlaceSteps
  <2>3. Place(u, j + 1) = Advance(Place(u, j), u[j])
    BY <2>1, PlaceSteps
  <2> QED BY <2>1, <2>2, <2>3 DEF j
<1> SUFFICES ASSUME NEW i \in 1 .. n + 1 PROVE Place(t, i) = Place(u, i)
  OBVIOUS
<1>3. i - 1 \in Nat /\ i - 1 <= n /\ i - 1 + 1 = i
  OBVIOUS
<1>4. i - 1 \in S
  <2> HIDE DEF S
  <2> QED BY <1>1, <1>2, <1>3, SetInduction
<1> QED BY <1>3, <1>4

\* The cursor is put where the statement appended begins.
LEMMA SentFrom ==
  ASSUME NEW C, NEW t \in Seq(C), NEW u \in Seq(C), Appended(u, Len(t)),
         \A i \in 1 .. Len(t) : t[i] = u[i]
  PROVE  Place(u, Len(t) + 3) = [line |-> 2 + LinesOf(t), col |-> 1]
<1> DEFINE n == Len(t)
           i == n + 1
           j == n + 3
<1>1. n \in Nat
  OBVIOUS
<1>2. Len(u) \in {n + 3, n + 4} /\ u[n + 1] = "\n" /\ u[n + 2] = "\n"
  BY <1>1, AppendedChars
<1>3. Place(u, i) = Place(t, i)
  <2>1. n <= Len(t) /\ n <= Len(u) /\ i \in 1 .. n + 1 /\ \A k \in 1 .. n : t[k] = u[k]
    BY <1>1, <1>2
  <2> HIDE DEF n, i
  <2> QED BY <1>1, <2>1, SamePlaces
<1>4. Place(t, i).line = LinesOf(t)
  BY LinesCounted
<1>5. /\ i \in 1 .. Len(u) + 1 /\ j \in i .. Len(u) + 1 /\ j # i /\ j - i = 2
      /\ \A l \in i .. j - 1 : l = n + 1 \/ l = n + 2
  BY <1>1, <1>2
<1>6. \A l \in i .. j - 1 : u[l] = "\n"
  BY <1>2, <1>5
<1> HIDE DEF n, i
<1>7. Place(u, i).line \in Nat
  BY <1>5, PlaceSteps DEF Position
<1> HIDE DEF j
<1>8. Place(u, j) = IF j = i THEN Place(u, i) ELSE [line |-> Place(u, i).line + (j - i), col |-> 1]
  BY <1>5, <1>6, EmptyLines
<1>9. Place(u, j) = [line |-> Place(u, i).line + 2, col |-> 1]
  BY <1>5, <1>8
<1>10. Place(u, i).line + 2 = 2 + LinesOf(t)
  BY <1>3, <1>4, <1>7
<1> QED BY <1>9, <1>10 DEF j, n

\* A character that opens nothing together with the one before it.
Quiet(c) == c # "{" /\ c # "-" /\ c # "*"

LEMMA BlockModeNext ==
  ASSUME NEW m, NEW w, NEW v, w.c = v.c, w.p = v.p, Quiet(w.n), Quiet(v.n)
  PROVE  BlockMode(m, w) = BlockMode(m, v)
<1> DEFINE a == Jinja(m, w, w.p = "}" /\ w.c = "}")
<1>1. a = Jinja(m, v, v.p = "}" /\ v.c = "}")
  BY DEF Jinja, Quiet
<1> HIDE DEF a
<1>2. Comment(a, w, w.p = "*" /\ w.c = "/") = Comment(a, v, v.p = "*" /\ v.c = "/")
  BY DEF Comment, Quiet
<1> QED BY <1>1, <1>2 DEF BlockMode, a

\* f is the scan of t for blocks.
BlockScan(C, t, f) == t \in Seq(C) /\ f \in [0 .. Len(t) -> CutSet(C)] /\ CutText(f, t)

\* What a turn does to the mode and to the number of blocks.
Counts(f, t, i) ==
  /\ f[i].mode = BlockMode(f[i - 1].mode, Window(t, i))
  /\ Len(f[i].blocks) = IF (f[i].mode = "none" /\ t[i] = ";") \/ i = Len(t)
                        THEN Len(f[i - 1].blocks) + 1 ELSE Len(f[i - 1].blocks)

LEMMA TurnCounts ==
  ASSUME NEW C, NEW t, NEW f, BlockScan(C, t, f), NEW i \in 1 .. Len(t)
  PROVE  Counts(f, t, i) /\ Len(f[i - 1].blocks) \in Nat
<1> DEFINE s == f[i - 1]
           r == f[i]
           b == Longer(s, Window(t, i))
<1>1. t \in Seq(C) /\ s \in CutSet(C) /\ r = BlockTurn(s, t, i)
  BY DEF CutText, BlockScan
<1>2. s.blocks \in Seq(BlockSet(C))
  BY <1>1 DEF CutSet
<1> HIDE DEF s, r
<1>3. EndsOrGoesOn(C, t, i, s, r)
  BY <1>1, BlockTurned
<1> DEFINE over == (r.mode = "none" /\ t[i] = ";") \/ i = Len(t)
<1>4. /\ r.mode = BlockMode(s.mode, Window(t, i)) /\ b \in BlockSet(C)
      /\ over => r.blocks = Append(s.blocks, b)
      /\ ~over => r.blocks = s.blocks
  BY <1>3 DEF EndsOrGoesOn
<1> HIDE DEF over, b
<1> DEFINE p == s.blocks
<1>5. Len(Append(p, b)) = Len(p) + 1 /\ Len(p) \in Nat
  <2> HIDE DEF p
  <2>1. p \in Seq(BlockSet(C)) /\ b \in BlockSet(C)
    BY <1>2, <1>4 DEF p
  <2> QED BY <2>1
<1>6. Len(r.blocks) = IF over THEN Len(p) + 1 ELSE Len(p)
  BY <1>4, <1>5
<1> QED BY <1>4, <1>5, <1>6, Zenon DEF over, s, r, p, Counts

\* Two texts that begin with the same n characters.
BeginAlike(t, u, n) == n \in 1 .. Len(t) /\ n \in 1 .. Len(u) /\ \A i \in 1 .. n : t[i] = u[i]

LEMMA CharsAlike ==
  ASSUME NEW C, NEW t \in Seq(C), NEW u \in Seq(C), NEW n, BeginAlike(t, u, n), NEW i \in 1 .. n
  PROVE  /\ t[i] = u[i] /\ Char(t, i) = Char(u, i) /\ Char(t, i - 1) = Char(u, i - 1)
         /\ i < n => Char(t, i + 1) = Char(u, i + 1)
<1>1. ASSUME NEW j \in Int, j <= n PROVE Char(t, j) = Char(u, j)
  <2>1. j \in DOMAIN t <=> j \in DOMAIN u
    BY <1>1 DEF BeginAlike
  <2>2. j \in DOMAIN t => t[j] = u[j]
    BY <1>1 DEF BeginAlike
  <2> QED BY <2>1, <2>2, Zenon DEF Char
<1>2. n \in Int /\ i \in Int /\ i - 1 \in Int /\ i + 1 \in Int /\ i <= n /\ i - 1 <= n /\ (i < n => i + 1 <= n)
  BY DEF BeginAlike
<1>3. t[i] = u[i]
  BY DEF BeginAlike
<1> QED BY <1>1, <1>2, <1>3

\* They are scanned alike, but for the last of the characters, which may see a
\* different one behind it.
LEMMA ScannedAlike ==
  ASSUME NEW C, NEW t, NEW f, BlockScan(C, t, f), NEW u, NEW g, BlockScan(C, u, g),
         NEW n, BeginAlike(t, u, n), NEW k \in Nat, k < n
  PROVE  f[k].mode = g[k].mode /\ Len(f[k].blocks) = Len(g[k].blocks)
<1> DEFINE Same(j) == f[j].mode = g[j].mode /\ Len(f[j].blocks) = Len(g[j].blocks)
           S == {j \in Nat : j < n => Same(j)}
<1>1. 0 \in S
  BY DEF CutText, BlockScan
<1>2. ASSUME NEW j \in Nat, j \in S PROVE j + 1 \in S
  <2> SUFFICES ASSUME j + 1 < n PROVE Same(j + 1)
    OBVIOUS
  <2> DEFINE i == j + 1
  <2>1. /\ i \in 1 .. Len(t) /\ i \in 1 .. Len(u) /\ i # Len(t) /\ i # Len(u) /\ i - 1 = j
        /\ i \in 1 .. n /\ i < n /\ t \in Seq(C) /\ u \in Seq(C) /\ j < n
    BY DEF BeginAlike, BlockScan
  <2>2. Same(i - 1)
    BY <1>2, <2>1
  <2> HIDE DEF i
  <2>3. t[i] = u[i] /\ Char(t, i) = Char(u, i) /\ Char(t, i + 1) = Char(u, i + 1) /\ Char(t, i - 1) = Char(u, i - 1)
    BY <2>1, CharsAlike
  <2>4. BlockMode(f[i - 1].mode, Window(t, i)) = BlockMode(g[i - 1].mode, Window(u, i))
    <3> DEFINE w == Window(t, i)
               v == Window(u, i)
               m == f[i - 1].mode
    <3>1. w.c = v.c /\ w.n = v.n /\ w.p = v.p
      BY <2>3, Zenon DEF Window
    <3>2. m = g[i - 1].mode
      BY <2>2
    <3> HIDE DEF w, v, m
    <3>3. BlockMode(m, w) = BlockMode(m, v)
      BY <3>1, BlockModeLocal
    <3> QED BY <3>2, <3>3 DEF w, v, m
  <2>5. Counts(f, t, i) /\ Counts(g, u, i)
    BY <2>1, TurnCounts
  <2>6. f[i].mode = g[i].mode
    BY <2>4, <2>5 DEF Counts
  <2>7. Len(f[i - 1].blocks) = Len(g[i - 1].blocks)
    BY <2>2
  <2>8. Len(f[i].blocks) = Len(g[i].blocks)
    BY <2>1, <2>3, <2>5, <2>6, <2>7, Zenon DEF Counts
  <2> QED BY <2>6, <2>8 DEF i
<1>3. k \in S
  <2> HIDE DEF S
  <2> QED BY <1>1, <1>2, SetInduction
<1> QED BY <1>3

\* So is that last one, if neither text goes on with a character that opens anything.
LEMMA LastScannedAlike ==
  ASSUME NEW C, NEW t, NEW f, BlockScan(C, t, f), NEW u, NEW g, BlockScan(C, u, g),
         NEW n, BeginAlike(t, u, n), Quiet(Char(t, n + 1)), Quiet(Char(u, n + 1))
  PROVE  f[n].mode = g[n].mode
<1> DEFINE k == n - 1
           w == Window(t, n)
           v == Window(u, n)
<1>1. /\ k \in Nat /\ k < n /\ n \in 1 .. Len(t) /\ n \in 1 .. Len(u) /\ n \in 1 .. n
      /\ t \in Seq(C) /\ u \in Seq(C)
  BY DEF BeginAlike, BlockScan
<1>2. f[k].mode = g[k].mode
  <2> HIDE DEF k
  <2> QED BY <1>1, ScannedAlike
<1>3. Char(t, n) = Char(u, n) /\ Char(t, n - 1) = Char(u, n - 1)
  BY <1>1, CharsAlike
<1>4. w.c = v.c /\ w.p = v.p /\ Quiet(w.n) /\ Quiet(v.n)
  BY <1>3, Zenon DEF Window
<1>5. Counts(f, t, n) /\ Counts(g, u, n)
  BY <1>1, TurnCounts
<1>6. f[n].mode = BlockMode(f[k].mode, w) /\ g[n].mode = BlockMode(g[k].mode, v)
  BY <1>5 DEF Counts
<1> HIDE DEF k, w, v
<1>7. BlockMode(f[k].mode, w) = BlockMode(f[k].mode, v)
  BY <1>4, BlockModeNext
<1> QED BY <1>2, <1>6, <1>7

\* The scan that GetBlocks is.
LEMMA ScannedForBlocks ==
  ASSUME NEW C, NEW t \in Seq(C)
  PROVE  \E f : BlockScan(C, t, f) /\ GetBlocks(t) = f[Len(t)].blocks
<1>1. PICK f \in [0 .. Len(t) -> CutSet(C)] :
        /\ f[0] = BlockStart /\ \A i \in 1 .. Len(t) : f[i] = BlockTurn(f[i - 1], t, i)
        /\ GetBlocks(t) = f[Len(t)].blocks
  BY BlocksScanned
<1>2. BlockScan(C, t, f)
  BY <1>1 DEF CutText, BlockScan
<1> QED BY <1>1, <1>2

\* When a character more is a statement more, the text is cut at its end.
LEMMA EndedIsCut ==
  ASSUME NEW C, "b" \in C, NEW t \in Seq(C), t # <<>>, Ended(t),
         NEW x, x = Append(t, "b"), NEW g, BlockScan(C, x, g), GetBlocks(x) = g[Len(x)].blocks
  PROVE  g[Len(t)].mode = "none" /\ t[Len(t)] = ";"
<1> DEFINE n == Len(t)
           k == n - 1
           l == n + 1
<1>1. PICK f : BlockScan(C, t, f) /\ GetBlocks(t) = f[Len(t)].blocks
  BY ScannedForBlocks
<1>2. Len(GetBlocks(x)) = Len(GetBlocks(t)) + 1
  <2>1. t \o <<"b">> = x
    OBVIOUS
  <2> HIDE DEF n
  <2> QED BY <2>1, Zenon DEF Ended
<1>3. /\ n \in 1 .. n /\ n \in Nat /\ k \in Nat /\ k < n /\ k = n - 1 /\ l - 1 = n
      /\ Len(x) = l /\ l \in 1 .. l /\ n \in 1 .. l /\ n # l
      /\ \A i \in 1 .. n : t[i] = x[i]
  OBVIOUS
<1>4. BeginAlike(t, x, n)
  BY <1>3 DEF BeginAlike
<1>5. Len(f[n].blocks) + 1 = Len(g[l].blocks)
  BY <1>1, <1>2, <1>3
<1>6. n = Len(t) /\ l = Len(x)
  BY <1>3
<1> HIDE DEF n, k, l
<1>7. Len(f[k].blocks) = Len(g[k].blocks)
  BY <1>1, <1>3, <1>4, ScannedAlike
<1>8. Counts(f, t, n) /\ Len(f[n - 1].blocks) \in Nat
  BY <1>1, <1>3, <1>6, TurnCounts
<1>9. Counts(g, x, n) /\ Counts(g, x, l)
  BY <1>3, <1>6, TurnCounts
<1>10. Len(f[n].blocks) = Len(f[k].blocks) + 1
  BY <1>3, <1>6, <1>8, Zenon DEF Counts
<1>11. Len(g[l].blocks) = Len(g[n].blocks) + 1
  BY <1>3, <1>6, <1>9, Zenon DEF Counts
<1>12. ~(g[n].mode = "none" /\ x[n] = ";") => Len(g[n].blocks) = Len(g[k].blocks)
  BY <1>3, <1>6, <1>9, Zenon DEF Counts
<1> DEFINE a == Len(f[k].blocks)
           b == Len(g[n].blocks)
           over == g[n].mode = "none" /\ x[n] = ";"
<1>13. a \in Nat
  BY <1>3, <1>8
<1>14. a + 1 + 1 = b + 1 /\ (~over => b = a)
  BY <1>5, <1>7, <1>10, <1>11, <1>12
<1> HIDE DEF a, b, over
<1>15. over
  BY <1>13, <1>14
<1>16. x[n] = t[n]
  BY <1>3
<1> QED BY <1>6, <1>15, <1>16 DEF over

\* What a menu appends to an ended text stands behind a cut.
LEMMA AppendedBehindCut ==
  ASSUME NEW C, "b" \in C, NEW t \in Seq(C), Ended(t), NEW u, NEW h, BlockScan(C, u, h),
         Appended(u, Len(t)), \A i \in 1 .. Len(t) : t[i] = u[i]
  PROVE  Cut(h, u, Len(t))
<1>1. CASE t = <<>>
  BY <1>1, Zenon DEF Cut
<1>2. CASE t # <<>>
  <2> DEFINE n == Len(t)
             x == Append(t, "b")
  <2>1. /\ x \in Seq(C) /\ n \in Nat /\ n \in 1 .. Len(x) /\ n + 1 \in DOMAIN x /\ x[n + 1] = "b"
        /\ \A i \in 1 .. n : x[i] = t[i]
    BY <1>2
  <2>2. x = Append(t, "b")
    OBVIOUS
  <2> HIDE DEF x
  <2>3. PICK g : BlockScan(C, x, g) /\ GetBlocks(x) = g[Len(x)].blocks
    BY <2>1, ScannedForBlocks
  <2>4. g[n].mode = "none" /\ t[n] = ";"
    BY <1>2, <2>2, <2>3, EndedIsCut
  <2> HIDE DEF n
  <2>5. u \in Seq(C) /\ Appended(u, n) /\ \A i \in 1 .. n : t[i] = u[i]
    BY DEF BlockScan, n
  <2>6. Len(u) \in {n + 3, n + 4} /\ u[n + 1] = "\n"
    BY <2>1, <2>5, AppendedChars
  <2>7. n \in 1 .. Len(u) /\ n # 0 /\ n + 1 \in DOMAIN u
    BY <2>1, <2>5, <2>6
  <2>8. u[n] = ";"
    <3>1. n \in 1 .. n
      BY <2>1
    <3>2. t[n] = u[n]
      BY <2>5, <3>1
    <3> QED BY <2>4, <3>2, Zenon
  <2>9. BeginAlike(x, u, n)
    BY <2>1, <2>5, <2>7 DEF BeginAlike
  <2>10. Quiet(Char(x, n + 1)) /\ Quiet(Char(u, n + 1))
    <3>1. Char(x, n + 1) = "b" /\ Char(u, n + 1) = "\n"
      BY <2>1, <2>6, <2>7, Zenon DEF Char
    <3> QED BY <3>1 DEF Quiet
  <2>11. g[n].mode = h[n].mode
    BY <2>3, <2>9, <2>10, LastScannedAlike
  <2>12. h[n].mode = "none"
    BY <2>4, <2>11
  <2>13. Cut(h, u, n)
    BY <2>7, <2>8, <2>12, Zenon DEF Cut
  <2> QED BY <2>13 DEF n
<1> QED BY <1>1, <1>2

\* The statements of a menu, and the empty line before them.
IsSent(C, s) == s \in Seq(C) /\ Len(s) \in {0 + 1, 0 + 2} /\ \A i \in 1 .. Len(s) : s[i] = Line(0, i)
IsGap(C, e)  == e \in Seq(C) /\ Len(e) = 2 /\ \A i \in 1 .. 2 : e[i] = "\n"

LEMMA LineOne == Line(0, 1) = "b"
BY DEF Line
LEMMA LineTwo == Line(0, 2) = ";"
BY DEF Line

LEMMA Single ==
  ASSUME NEW C, NEW a \in C
  PROVE  <<a>> \in Seq(C) /\ Len(<<a>>) = 1 /\ \A i \in 1 .. 1 : <<a>>[i] = a
<1>1. <<a>> \in Seq(C)
  OBVIOUS
<1>2. Len(<<a>>) = 1 /\ <<a>>[1] = a
  OBVIOUS
<1> QED BY <1>1, <1>2

LEMMA SentOne ==
  ASSUME NEW C, NEW s \in Seq(C), Len(s) = 1, s[1] = Line(0, 1)
  PROVE  IsSent(C, s)
BY DEF IsSent

LEMMA SentTwo ==
  ASSUME NEW C, NEW s \in Seq(C), Len(s) = 2, s[1] = Line(0, 1), s[2] = Line(0, 2)
  PROVE  IsSent(C, s)
BY DEF IsSent

LEMMA GapOf ==
  ASSUME NEW C, NEW e \in Seq(C), Len(e) = 2, NEW a, e[1] = a, e[2] = a, a = "\n"
  PROVE  IsGap(C, e)
BY DEF IsGap

LEMMA SentSingle ==
  ASSUME NEW C, NEW a \in C, a = Line(0, 1)
  PROVE  IsSent(C, <<a>>)
<1> DEFINE s == <<a>>
<1>1. s \in Seq(C) /\ Len(s) = 1 /\ s[1] = a
  BY Single
<1> HIDE DEF s
<1>2. s[1] = Line(0, 1)
  BY <1>1, Zenon
<1>3. IsSent(C, s)
  BY <1>1, <1>2, SentOne
<1> QED BY <1>3 DEF s

LEMMA SentPair ==
  ASSUME NEW C, NEW a \in C, NEW b \in C
  PROVE  a = Line(0, 1) /\ b = Line(0, 2) => IsSent(C, <<a, b>>)
<1> DEFINE s == <<a, b>>
<1>1. s \in Seq(C) /\ Len(s) = 2 /\ s[1] = a /\ s[2] = b
  <2>1. s \in Seq(C)
    OBVIOUS
  <2>2. Len(s) = 2 /\ s[1] = a /\ s[2] = b
    OBVIOUS
  <2> QED BY <2>1, <2>2
<1> HIDE DEF s
<1>2. s[1] = Line(0, 1) /\ s[2] = Line(0, 2) => IsSent(C, s)
  BY <1>1, SentTwo
<1>3. a = Line(0, 1) /\ b = Line(0, 2) => IsSent(C, s)
  BY <1>1, <1>2, Zenon
<1> QED BY <1>3, Zenon DEF s

LEMMA GapPair ==
  ASSUME NEW C, NEW a \in C
  PROVE  a = "\n" => IsGap(C, <<a, a>>)
<1> DEFINE e == <<a, a>>
<1>1. e \in Seq(C) /\ Len(e) = 2 /\ e[1] = a /\ e[2] = a
  <2>1. e \in Seq(C)
    OBVIOUS
  <2>2. Len(e) = 2 /\ e[1] = a /\ e[2] = a
    OBVIOUS
  <2> QED BY <2>1, <2>2
<1> HIDE DEF e
<1>2. a = "\n" => IsGap(C, e)
  BY <1>1, GapOf
<1> QED BY <1>2, Zenon DEF e

LEMMA SentAndGap ==
  ASSUME NEW C, "\n" \in C, "b" \in C, ";" \in C
  PROVE  IsSent(C, <<"b">>) /\ IsSent(C, <<"b", ";">>) /\ IsGap(C, <<"\n", "\n">>)
<1>1. IsSent(C, <<"b">>)
  BY LineOne, SentSingle, Zenon
<1>2. IsSent(C, <<"b", ";">>)
  BY LineOne, LineTwo, SentPair, Zenon
<1>3. IsGap(C, <<"\n", "\n">>)
  BY GapPair, Zenon
<1> QED BY <1>1, <1>2, <1>3

LEMMA TwoJoined ==
  ASSUME NEW C, NEW v \in Seq(C), NEW w \in Seq(C)
  PROVE  LET u == v \o w
         IN  /\ u \in Seq(C) /\ Len(u) = Len(v) + Len(w)
             /\ \A i \in 1 .. Len(v) : u[i] = v[i]
             /\ \A i \in 1 .. Len(w) : u[Len(v) + i] = w[i]
<1> DEFINE u == v \o w
<1>1. u \in Seq(C) /\ Len(u) = Len(v) + Len(w)
  OBVIOUS
<1>2. \A i \in 1 .. Len(v) : u[i] = v[i]
  OBVIOUS
<1>3. \A i \in 1 .. Len(w) : u[Len(v) + i] = w[i]
  OBVIOUS
<1> QED BY <1>1, <1>2, <1>3, Zenon

LEMMA LineLater ==
  ASSUME NEW j \in Nat, j > 0
  PROVE  Line(2, 2 + j) = Line(0, j)
<1> DEFINE i == 2 + j
<1>1. ~(i <= 2) /\ ~(j <= 0) /\ (i = 2 + 1 <=> j = 0 + 1)
  OBVIOUS
<1> HIDE DEF i
<1>2. Line(2, i) = Line(0, j)
  BY <1>1, Zenon DEF Line
<1> QED BY <1>2, Zenon DEF i

LEMMA LineEnds == Line(2, 1) = "\n" /\ Line(2, 2) = "\n"
BY DEF Line

LEMMA SubsetSeq ==
  ASSUME NEW B, NEW t \in Seq(B), NEW C, B \subseteq C
  PROVE  t \in Seq(C)
OBVIOUS

\* What appendSqlToTab makes of a text.
LEMMA AppendedText ==
  ASSUME NEW C, NEW t \in Seq(C), NEW e, IsGap(C, e), NEW s, IsSent(C, s)
  PROVE  LET u == t \o e \o s
         IN  u \in Seq(C) /\ Appended(u, Len(t)) /\ \A i \in 1 .. Len(t) : t[i] = u[i]
<1> DEFINE v == t \o e
           u == v \o s
           n == Len(t)
           m == Len(s)
<1>1. e \in Seq(C) /\ Len(e) = 2 /\ \A i \in 1 .. 2 : e[i] = "\n"
  BY DEF IsGap
<1>2. s \in Seq(C) /\ m \in {1, 2} /\ \A i \in 1 .. m : s[i] = Line(0, i)
  BY DEF IsSent
<1>3. /\ v \in Seq(C) /\ Len(v) = n + 2 /\ n \in Nat
      /\ \A i \in 1 .. n : v[i] = t[i]
      /\ \A i \in 1 .. 2 : v[n + i] = e[i]
  <2>1. /\ v \in Seq(C) /\ Len(v) = Len(t) + Len(e)
        /\ \A i \in 1 .. Len(t) : v[i] = t[i]
        /\ \A i \in 1 .. Len(e) : v[Len(t) + i] = e[i]
    <3>1. t \in Seq(C) /\ e \in Seq(C)
      BY <1>1
    <3> QED BY <3>1, TwoJoined
  <2> HIDE DEF v
  <2> QED BY <1>1, <2>1
<1> HIDE DEF v
<1>4. /\ u \in Seq(C) /\ Len(u) = Len(v) + Len(s)
      /\ \A i \in 1 .. Len(v) : u[i] = v[i]
      /\ \A i \in 1 .. Len(s) : u[Len(v) + i] = s[i]
  <2>1. v \in Seq(C) /\ s \in Seq(C)
    BY <1>2, <1>3
  <2> QED BY <2>1, TwoJoined
<1> HIDE DEF u
<1>5. /\ Len(u) = n + 2 + m
      /\ \A i \in 1 .. n + 2 : u[i] = v[i]
      /\ \A i \in 1 .. m : u[n + 2 + i] = s[i]
  BY <1>3, <1>4
<1> HIDE DEF n, m
<1>6. ASSUME NEW i \in 1 .. Len(u) - n PROVE u[n + i] = Line(2, i)
  <2>1. CASE i \in 1 .. 2
    <3>1. u[n + i] = v[n + i]
      BY <1>3, <1>5, <2>1
    <3>2. v[n + i] = "\n"
      BY <1>1, <1>3, <2>1
    <3>3. Line(2, i) = "\n"
      BY <2>1, LineEnds
    <3> QED BY <3>1, <3>2, <3>3
  <2>2. CASE i \notin 1 .. 2
    <3> DEFINE j == i - 2
    <3>1. j \in 1 .. m /\ n + i = n + 2 + j /\ i = 2 + j
      BY <1>2, <1>3, <1>5, <2>2
    <3> HIDE DEF j
    <3>2. u[n + i] = Line(0, j)
      BY <1>2, <1>5, <3>1
    <3>3. Line(2, i) = Line(0, j)
      <4>1. j \in Nat /\ j > 0
        BY <1>2, <3>1
      <4> QED BY <3>1, <4>1, LineLater
    <3> QED BY <3>2, <3>3
  <2> QED BY <2>1, <2>2
<1>7. Len(u) \in {n + 3, n + 4}
  BY <1>2, <1>3, <1>5
<1>8. \A i \in 1 .. n : t[i] = u[i]
  BY <1>3, <1>5
<1>9. Appended(u, Len(t))
  BY <1>6, <1>7 DEF Appended, n
<1> QED BY <1>4, <1>8, <1>9, Zenon DEF u, v, n

\* What a menu sends, and where it marks it.
LEMMA SubmittedFrom ==
  ASSUME NEW C, NEW t, NEW s, IsSent(C, s)
  PROVE  /\ AppendAndSubmit(t, s, {t}).text = t \o <<"\n", "\n">> \o s
         /\ AppendAndSubmit(t, s, {t}).value = <<"b">>
         /\ AppendAndSubmit(t, s, {t}).from = [line |-> 2 + LinesOf(t), col |-> 1]
<1> DEFINE line == AppendSqlToTab(t, s, {t}).line
           b == SelectionToBlock(s, line)
<1>1. AppendSqlToTab(t, s, {t}).text = t \o <<"\n", "\n">> \o s
  BY Zenon DEF AppendSqlToTab
<1>2. line = 2 + LinesOf(t)
  <2>1. (IF {t} = {} THEN AppendSqlToTab(t, s, {t}).text ELSE CHOOSE x \in {t} : TRUE) = t
    OBVIOUS
  <2> QED BY <1>1, <2>1, Zenon DEF AppendSqlToTab
<1> HIDE DEF line
<1>3. b.value = s /\ b.from = [line |-> line, col |-> 1]
  BY DEF SelectionToBlock
<1> HIDE DEF b
<1>4. s \in Seq(C) /\ Len(s) \in {0 + 1, 0 + 2} /\ \A i \in 1 .. Len(s) : s[i] = Line(0, i)
  BY DEF IsSent
<1>5. QueryText(s) = <<"b">>
  BY <1>4, SentIsB
<1>6. DecorationFrom(b) = b.from
  <2> DEFINE m == 0
             v == b.value
  <2>1. v \in Seq(C) /\ Len(v) \in {1, 2} /\ v[1] = "b"
    <3>1. 1 \in 1 .. Len(s) /\ Line(0, 1) = "b"
      BY <1>4, LineOne
    <3> QED BY <1>3, <1>4, <3>1
  <2> HIDE DEF v
  <2>2. m \in Nat /\ m < Len(v) /\ (\A j \in 1 .. m : v[j] = "\n") /\ m + 1 = 1 /\ m = 0
    BY <2>1
  <2> HIDE DEF m
  <2>3. DecorationFrom(b) = IF m = 0 THEN b.from ELSE [line |-> b.from.line + m, col |-> 1]
    BY <2>1, <2>2, MarkAfterEmptyLines DEF v
  <2> QED BY <2>2, <2>3
<1>7. /\ AppendAndSubmit(t, s, {t}).text = AppendSqlToTab(t, s, {t}).text
      /\ AppendAndSubmit(t, s, {t}).value = QueryText(b.value)
      /\ AppendAndSubmit(t, s, {t}).from = DecorationFrom(b)
  BY Zenon DEF AppendAndSubmit, b, line
<1> QED BY <1>1, <1>2, <1>3, <1>5, <1>6, <1>7, Zenon

\* One block holds what was appended, and nothing else.
LEMMA OneBlockAppended ==
  ASSUME NEW C, NEW t, NEW f, BlockScan(C, t, f), GetBlocks(t) = f[Len(t)].blocks,
         NEW n \in Nat, Appended(t, n), Cut(f, t, n)
  PROVE  \E k \in 1 .. Len(GetBlocks(t)) :
            EndOf(GetBlocks(t), k - 1) = n /\ EndOf(GetBlocks(t), k) = Len(t)
<1> DEFINE p == GetBlocks(t)
<1>1. t \in Seq(C) /\ f \in [0 .. Len(t) -> CutSet(C)] /\ CutText(f, t)
  BY Zenon DEF BlockScan
<1>2. BlocksOf(C, t, p) /\ p \in Seq(BlockSet(C))
  BY <1>1, BlocksKnown
<1>3. p = f[Len(t)].blocks
  OBVIOUS
<1> HIDE DEF p
<1>4. \E k \in 1 .. Len(p) : EndOf(p, k - 1) = n /\ EndOf(p, k) = Len(t)
  <2>1. \A q \in Seq(BlockSet(C)) : q = f[Len(t)].blocks /\ BlocksOf(C, t, q) =>
           \E k \in 1 .. Len(q) : EndOf(q, k - 1) = n /\ EndOf(q, k) = Len(t)
    BY <1>1, LastIsAppended
  <2> QED BY <1>2, <1>3, <2>1, Zenon
<1> QED BY <1>4, Zenon DEF p

\* The block of what was appended.
LEMMA AppendedBlock ==
  ASSUME NEW C, "b" \in C, NEW t \in Seq(C), Ended(t), NEW u \in Seq(C), Appended(u, Len(t)),
         \A i \in 1 .. Len(t) : t[i] = u[i]
  PROVE  LET own == GetCurrentBlock(u, Place(u, Len(t) + 3))
         IN  QueryText(own.value) = <<"b">> /\ DecorationFrom(own) = Place(u, Len(t) + 3)
<1> DEFINE n == Len(t)
           p == GetBlocks(u)
           z == Len(u)
<1>1. n \in Nat /\ z \in Nat /\ z \in {n + 3, n + 4}
  BY DEF Appended
<1>2. PICK f : BlockScan(C, u, f) /\ p = f[Len(u)].blocks
  BY ScannedForBlocks
<1>3. BlocksOf(C, u, p) /\ p \in Seq(BlockSet(C)) /\ p = GetBlocks(u)
  BY BlocksKnown
<1>4. Cut(f, u, n)
  BY <1>2, AppendedBehindCut
<1>5. Appended(u, n)
  OBVIOUS
<1> HIDE DEF p, n
<1>6. PICK k \in 1 .. Len(p) : EndOf(p, k - 1) = n /\ EndOf(p, k) = Len(u)
  BY <1>1, <1>2, <1>4, <1>5, OneBlockAppended, Zenon DEF p
<1> DEFINE b == p[k]
           v == SubSeq(u, n + 1, z)
<1>7. GetCurrentBlock(u, Place(u, n + 3)) = b
  BY <1>1, <1>3, <1>5, <1>6, LastIsFound
<1>8. b.value = v
  BY <1>3, <1>6, Zenon DEF BlocksOf
<1>9. b.from = Place(u, n + 1)
  BY <1>3, <1>6, Zenon DEF BlocksOf
<1>10. n \in 0 .. Len(u) /\ z \in n .. Len(u) /\ n + 3 <= z
  BY <1>1
<1>11. v \in Seq(C) /\ Len(v) = z - n /\ \A i \in 1 .. z - n : v[i] = u[n + i]
  BY <1>10, Pieces
<1> HIDE DEF v, b
<1>12. QueryText(v) = <<"b">>
  BY <1>1, <1>5, <1>11, LastIsSent
<1>13. b.value \in Seq(C) /\ Len(b.value) = z - n /\ \A i \in 1 .. z - n : b.value[i] = u[n + i]
  BY <1>8, <1>11, Zenon
<1> HIDE DEF z
<1>14. DecorationFrom(b) = Place(u, n + 3)
  BY <1>1, <1>5, <1>9, <1>10, <1>13, LastIsMarked
<1> QED BY <1>7, <1>8, <1>12, <1>14, Zenon DEF n

LEMMA AppendedOwn ==
  ASSUME NEW C, "b" \in C, text \in Seq(C), Ended(text), NEW s, IsSent(C, s), IsGap(C, <<"\n", "\n">>)
  PROVE  AppendedIsOwn(s)
<1> DEFINE e == <<"\n", "\n">>
           u == text \o e \o s
           from == Place(u, Len(text) + 3)
           sent == AppendAndSubmit(text, s, {text})
           own == GetCurrentBlock(u, from)
<1>1. sent.text = u /\ sent.value = <<"b">> /\ sent.from = [line |-> 2 + LinesOf(text), col |-> 1]
  BY SubmittedFrom
<1>2. IsGap(C, e) /\ u = text \o e \o s
  OBVIOUS
<1> HIDE DEF e, u, sent
<1>3. u \in Seq(C) /\ Appended(u, Len(text)) /\ \A i \in 1 .. Len(text) : text[i] = u[i]
  BY <1>2, AppendedText
<1>4. from = [line |-> 2 + LinesOf(text), col |-> 1]
  BY <1>3, SentFrom
<1>5. QueryText(own.value) = <<"b">> /\ DecorationFrom(own) = from
  BY <1>3, AppendedBlock
<1> HIDE DEF from
<1>6. sent.from = from
  BY <1>1, <1>4
<1> HIDE DEF own
<1>7. own = GetCurrentBlock(sent.text, sent.from)
  BY <1>1, <1>6, Zenon DEF own
<1>8. sent.from = Place(sent.text, Len(text) + 3)
  BY <1>1, <1>6, Zenon DEF from
<1>9. QueryText(own.value) = sent.value /\ DecorationFrom(own) = sent.from
  BY <1>1, <1>5, <1>6, Zenon
<1> QED BY <1>7, <1>8, <1>9, Zenon DEF AppendedIsOwn, sent

LEMMA AppendedOwns == TextInv => AppendedAreOwn
<1> DEFINE C == keys.chars \cup {"\n", "b", ";"}
<1>1. "\n" \in C /\ "b" \in C /\ ";" \in C
  OBVIOUS
<1>2. TextInv => text \in Seq(C)
  <2>1. keys.chars \subseteq C
    OBVIOUS
  <2> HIDE DEF C
  <2> QED BY <2>1, SubsetSeq, Zenon DEF TextInv
<1> HIDE DEF C
<1>3. TextInv /\ Ended(text) => AppendedIsOwn(<<"b">>) /\ AppendedIsOwn(<<"b", ";">>)
  BY <1>1, <1>2, SentAndGap, AppendedOwn
<1> QED BY <1>3, Zenon DEF AppendedAreOwn

\* The cursor finds its own statement, and what a menu appends is its own
\* (getCurrentBlock, getDecorations and executeSQL of monaco.ts and the menus that submit).
THEOREM CursorTakesItsStatement == Spec => []OwnStatement
<1>1. TextInv => OwnStatement
  BY AppendedOwns, CursorOwns DEF OwnStatement
<1> QED BY <1>1, TextOfKeys, PTL

-----------------------------------------------------------------------------
(***************************************************************************)
(* The name under the cursor.  Two scanners read a name: the one of the    *)
(* line, and the one that parses names.  What a scanner makes of two texts *)
(* in a row, it makes of one behind the other.                             *)
(***************************************************************************)
\* From the state a, the characters of v lead to b, by steps of R.
Leads(v, R, S, a, b) ==
  \E g \in [0 .. Len(v) -> S] :
    g[0] = a /\ g[Len(v)] = b /\ \A i \in 1 .. Len(v) : <<g[i - 1], v[i], g[i]>> \in R

\* One character.
LEMMA OneLeads ==
  ASSUME NEW R, NEW S, NEW a \in S, NEW b \in S, NEW C, NEW v \in Seq(C), Len(v) = 1, <<a, v[1], b>> \in R
  PROVE  Leads(v, R, S, a, b)
<1> DEFINE g == [i \in 0 .. 1 |-> IF i = 0 THEN a ELSE b]
<1>1. g \in [0 .. 1 -> S] /\ g[0] = a /\ g[1] = b
  OBVIOUS
<1> HIDE DEF g
<1>2. \A i \in 1 .. 1 : <<g[i - 1], v[i], g[i]>> \in R
  BY <1>1
<1> QED BY <1>1, <1>2 DEF Leads

\* Behind one another.
LEMMA LeadOn ==
  ASSUME NEW C, NEW v \in Seq(C), NEW w \in Seq(C), NEW R, NEW S, NEW a, NEW b, NEW c,
         Leads(v, R, S, a, b), Leads(w, R, S, b, c)
  PROVE  Leads(v \o w, R, S, a, c)
<1> DEFINE u == v \o w
           m == Len(v)
           n == Len(w)
<1>1. /\ u \in Seq(C) /\ Len(u) = m + n
      /\ \A i \in 1 .. m : u[i] = v[i]
      /\ \A i \in 1 .. n : u[m + i] = w[i]
  BY TwoJoined
<1>2. m \in Nat /\ n \in Nat
  OBVIOUS
<1>3. PICK g \in [0 .. m -> S] : g[0] = a /\ g[m] = b /\ \A i \in 1 .. m : <<g[i - 1], v[i], g[i]>> \in R
  BY DEF Leads
<1>4. PICK h \in [0 .. n -> S] : h[0] = b /\ h[n] = c /\ \A i \in 1 .. n : <<h[i - 1], w[i], h[i]>> \in R
  BY DEF Leads
<1> HIDE DEF u, m, n
<1> DEFINE k == [i \in 0 .. m + n |-> IF i <= m THEN g[i] ELSE h[i - m]]
<1>5. k \in [0 .. m + n -> S]
  <2>1. ASSUME NEW i \in 0 .. m + n PROVE (IF i <= m THEN g[i] ELSE h[i - m]) \in S
    <3>1. CASE i <= m
      BY <1>2, <1>3, <3>1
    <3>2. CASE ~(i <= m)
      <4>1. i - m \in 0 .. n
        BY <1>2, <3>2
      <4> QED BY <1>4, <3>2, <4>1
    <3> QED BY <3>1, <3>2
  <2> QED BY <2>1
<1>6. \A i \in 0 .. m : k[i] = g[i]
  BY <1>2
<1>7. \A i \in 0 .. n : k[m + i] = h[i]
  <2> SUFFICES ASSUME NEW i \in 0 .. n PROVE k[m + i] = h[i]
    OBVIOUS
  <2>1. CASE i = 0
    BY <1>2, <1>3, <1>4, <2>1
  <2>2. CASE i # 0
    <3>1. m + i \in 0 .. m + n /\ ~(m + i <= m) /\ (m + i) - m = i
      BY <1>2, <2>2
    <3> QED BY <3>1
  <2> QED BY <2>1, <2>2
<1> HIDE DEF k
<1>8. k[0] = a /\ k[m + n] = c
  <2>1. 0 \in 0 .. m /\ n \in 0 .. n
    BY <1>2
  <2> QED BY <1>3, <1>4, <1>6, <1>7, <2>1
<1>9. ASSUME NEW i \in 1 .. m + n PROVE <<k[i - 1], u[i], k[i]>> \in R
  <2>1. CASE i <= m
    <3>1. i \in 1 .. m /\ i \in 0 .. m /\ i - 1 \in 0 .. m
      BY <1>2, <2>1
    <3> QED BY <1>1, <1>3, <1>6, <3>1
  <2>2. CASE ~(i <= m)
    <3> DEFINE j == i - m
               l == j - 1
    <3>1. j \in 1 .. n /\ j \in 0 .. n /\ l \in 0 .. n /\ m + j = i /\ m + l = i - 1
      BY <1>2, <2>2
    <3>2. <<h[l], w[j], h[j]>> \in R
      BY <1>4, <3>1
    <3> HIDE DEF j, l
    <3>3. u[i] = w[j] /\ k[i] = h[j] /\ k[i - 1] = h[l]
      BY <1>1, <1>7, <3>1
    <3> QED BY <3>2, <3>3
  <2> QED BY <2>1, <2>2
<1>10. Leads(u, R, S, a, c)
  BY <1>1, <1>5, <1>8, <1>9 DEF Leads
<1> QED BY <1>10 DEF u

\* Two in a row, with one character between them.
LEMMA LeadAcross ==
  ASSUME NEW C, NEW v \in Seq(C), NEW w \in Seq(C), NEW x \in C, NEW R, NEW S, NEW a, NEW b \in S, NEW c \in S, NEW e,
         Leads(v, R, S, a, b), <<b, x, c>> \in R, Leads(w, R, S, c, e)
  PROVE  Leads(v \o <<x>> \o w, R, S, a, e)
<1> DEFINE d == <<x>>
<1>1. d \in Seq(C) /\ Len(d) = 1 /\ d[1] = x
  OBVIOUS
<1> HIDE DEF d
<1>2. Leads(d, R, S, b, c)
  BY <1>1, OneLeads
<1>3. v \o d \in Seq(C)
  BY <1>1
<1>4. Leads(v \o d, R, S, a, c)
  BY <1>1, <1>2, LeadOn
<1>5. Leads((v \o d) \o w, R, S, a, e)
  BY <1>3, <1>4, LeadOn
<1> QED BY <1>5 DEF d

\* Between two quotes.
LEMMA LeadsQuoted ==
  ASSUME NEW C, NEW v \in Seq(C), NEW q \in C, NEW R, NEW S, NEW a \in S, NEW b \in S, NEW c \in S, NEW e \in S,
         <<a, q, b>> \in R, Leads(v, R, S, b, c), <<c, q, e>> \in R
  PROVE  <<q>> \o v \o <<q>> \in Seq(C) /\ Leads(<<q>> \o v \o <<q>>, R, S, a, e)
<1> DEFINE d == <<q>>
<1>1. d \in Seq(C) /\ Len(d) = 1 /\ d[1] = q
  OBVIOUS
<1> HIDE DEF d
<1>2. Leads(d, R, S, a, b) /\ Leads(d, R, S, c, e)
  BY <1>1, OneLeads
<1>3. d \o v \in Seq(C) /\ (d \o v) \o d \in Seq(C)
  BY <1>1
<1>4. Leads(d \o v, R, S, a, c)
  BY <1>1, <1>2, LeadOn
<1>5. Leads((d \o v) \o d, R, S, a, e)
  BY <1>1, <1>2, <1>3, <1>4, LeadOn
<1> QED BY <1>3, <1>5 DEF d

\* A state that no character changes.
LEMMA StaysAt ==
  ASSUME NEW C, NEW v \in Seq(C), NEW R, NEW S, NEW a \in S, \A i \in 1 .. Len(v) : <<a, v[i], a>> \in R
  PROVE  Leads(v, R, S, a, a)
<1> DEFINE n == Len(v)
           g == [i \in 0 .. n |-> a]
<1>1. n \in Nat
  OBVIOUS
<1> HIDE DEF n
<1>2. g \in [0 .. n -> S] /\ g[0] = a /\ g[n] = a /\ \A i \in 1 .. n : g[i] = a /\ g[i - 1] = a
  BY <1>1
<1> HIDE DEF g
<1>3. \A i \in 1 .. n : <<g[i - 1], v[i], g[i]>> \in R
  BY <1>2 DEF n
<1> QED BY <1>2, <1>3 DEF Leads, n

\* The dialects: their quotes, and what goes with them.
LEMMA QuotesApart == "\"" # BackTick /\ "\"" # NoQuote /\ BackTick # NoQuote
BY DEF BackTick, NoQuote

LEMMA DialectKinds ==
  ASSUME NEW d \in Dialects
  PROVE  /\ d.quote = "\"" \/ d.quote = BackTick \/ d.quote = NoQuote
         /\ d.parts = 2 \/ d.parts = 3
         /\ d.quote = NoQuote => d.upper = FALSE
<1>1. \E q, u, p : /\ d = [quote |-> q, upper |-> u, parts |-> p]
                   /\ q = "\"" \/ q = BackTick \/ q = NoQuote
                   /\ p = 2 \/ p = 3
                   /\ q = NoQuote => u = FALSE
  BY QuotesApart, Zenon DEF Dialects
<1>2. PICK q, u, p : /\ d = [quote |-> q, upper |-> u, parts |-> p]
                     /\ q = "\"" \/ q = BackTick \/ q = NoQuote
                     /\ p = 2 \/ p = 3
                     /\ q = NoQuote => u = FALSE
  BY <1>1
<1>3. d.quote = q /\ d.upper = u /\ d.parts = p
  BY <1>2
<1> QED BY <1>2, <1>3, Zenon

\* Characters that a name has only in quotes, for else a token ends there.
Apart == WhiteSpace \cup Parenthesis \cup Comma \cup Semicolon \cup Operator
\* Characters that no word has.
Never == Parenthesis \cup Comma \cup {"\n"}

\* Quotes, dots and plain characters end no token.
LEMMA QuotesStay == "\"" \notin Apart \cup Never /\ BackTick \notin Apart \cup Never /\ "." \notin Apart \cup Never
BY DEF Apart, Never, WhiteSpace, Parenthesis, Comma, Semicolon, Operator, BackTick

LEMMA PlainStay == ASSUME NEW c \in Plain PROVE c \notin Apart \cup Never
BY DEF Plain, Apart, Never, WhiteSpace, Parenthesis, Comma, Semicolon, Operator

\* The mode that a quote opens, and closes.
ModeOf(q) == IF q = "\"" THEN "double" ELSE "tick"

\* What quotes make of the modes outside of them and inside.
LEMMA DoubleOpens ==
  /\ NameQuotes("none", "\"") = "double" /\ NameQuotes("double", "\"") = "none"
  /\ \A c : c # "\"" => NameQuotes("double", c) = "double"
BY DEF NameQuotes, DoubleQuotes, BackTickQuotes, BracketQuotes, Pair, BackTick

LEMMA TickOpens ==
  /\ NameQuotes("none", BackTick) = "tick" /\ NameQuotes("tick", BackTick) = "none"
  /\ \A c : c # BackTick => NameQuotes("tick", c) = "tick"
BY DEF NameQuotes, DoubleQuotes, BackTickQuotes, BracketQuotes, Pair, BackTick

LEMMA NoneStays ==
  ASSUME NEW c, c # "\"", c # BackTick, c # "["
  PROVE  NameQuotes("none", c) = "none"
BY DEF NameQuotes, DoubleQuotes, BackTickQuotes, BracketQuotes, Pair

LEMMA QuoteOpens ==
  ASSUME NEW q, q = "\"" \/ q = BackTick
  PROVE  /\ NameQuotes("none", q) = ModeOf(q) /\ NameQuotes(ModeOf(q), q) = "none"
         /\ \A c : c # q => NameQuotes(ModeOf(q), c) = ModeOf(q)
         /\ ModeOf(q) \in LineModes /\ ModeOf(q) # "none"
<1>1. CASE q = "\""
  BY <1>1, DoubleOpens DEF ModeOf, LineModes
<1>2. CASE q = BackTick
  BY <1>2, TickOpens, QuotesApart DEF ModeOf, LineModes
<1> QED BY <1>1, <1>2

LEMMA PlainOutside ==
  ASSUME NEW c, c \in Plain \/ c = "."
  PROVE  NameQuotes("none", c) = "none"
<1>1. c # "\"" /\ c # BackTick /\ c # "["
  BY DEF Plain, BackTick
<1> QED BY <1>1, NoneStays

\* The steps of a scan over a name that is to be one word.
LineSteps(C) == {z \in LineModes \X C \X LineModes :
                   /\ z[3] = NameQuotes(z[1], z[2]) /\ z[2] \notin Never
                   /\ (z[1] = "none" \/ z[3] = "none") => z[2] \notin Apart}

\* A step is one of a quote or of another character.
LEMMA LineStep ==
  ASSUME NEW C, NEW a, NEW b, NEW c
  PROVE  <<a, c, b>> \in LineSteps(C) <=>
           /\ a \in LineModes /\ c \in C /\ b \in LineModes /\ b = NameQuotes(a, c) /\ c \notin Never
           /\ (a = "none" \/ b = "none") => c \notin Apart
BY DEF LineSteps

\* A part of a name that can be written, in quotes or plain.
PartOf(C, v, d) ==
  /\ v \in Seq(C) /\ v # <<>>
  /\ \A i \in 1 .. Len(v) : IF d.quote = NoQuote THEN v[i] \in Plain
                            ELSE v[i] # d.quote /\ v[i] \notin Never

\* A part that is written leads from outside of quotes to outside of them.
LEMMA PartWritten ==
  ASSUME NEW C, NEW d \in Dialects, d.quote # NoQuote => d.quote \in C, NEW v, PartOf(C, v, d)
  PROVE  Quoted(v, d) \in Seq(C) /\ Leads(Quoted(v, d), LineSteps(C), LineModes, "none", "none")
<1>1. v \in Seq(C) /\ "none" \in LineModes
  BY DEF PartOf, LineModes
<1>2. CASE d.quote = NoQuote
  <2>1. ASSUME NEW i \in 1 .. Len(v) PROVE <<"none", v[i], "none">> \in LineSteps(C)
    <3>1. v[i] \in Plain /\ v[i] \in C
      BY <1>1, <1>2 DEF PartOf
    <3>2. v[i] \notin Never /\ v[i] \notin Apart
      BY <3>1, PlainStay
    <3>3. NameQuotes("none", v[i]) = "none"
      BY <3>1, PlainOutside
    <3> QED BY <1>1, <3>1, <3>2, <3>3, LineStep
  <2>2. Leads(v, LineSteps(C), LineModes, "none", "none")
    BY <1>1, <2>1, StaysAt
  <2> QED BY <1>1, <1>2, <2>2 DEF Quoted
<1>3. CASE d.quote # NoQuote
  <2> DEFINE q == d.quote
             m == ModeOf(q)
             R == LineSteps(C)
  <2>1. q \in C /\ (q = "\"" \/ q = BackTick)
    BY <1>3, DialectKinds
  <2>2. q \notin Never /\ q \notin Apart
    BY <2>1, QuotesStay
  <2>3. \A i \in 1 .. Len(v) : v[i] # q /\ v[i] \notin Never /\ v[i] \in C
    BY <1>1, <1>3 DEF PartOf
  <2> HIDE DEF q
  <2>4. /\ NameQuotes("none", q) = m /\ NameQuotes(m, q) = "none"
        /\ \A c : c # q => NameQuotes(m, c) = m
        /\ m \in LineModes /\ m # "none"
    BY <2>1, QuoteOpens
  <2> HIDE DEF m, R
  <2>5. <<"none", q, m>> \in R
    BY <1>1, <2>1, <2>2, <2>4, LineStep DEF R
  <2>6. <<m, q, "none">> \in R
    BY <1>1, <2>1, <2>2, <2>4, LineStep DEF R
  <2>7. \A i \in 1 .. Len(v) : <<m, v[i], m>> \in R
    <3>1. ASSUME NEW i \in 1 .. Len(v) PROVE <<m, v[i], m>> \in R
      <4>1. v[i] # q /\ v[i] \notin Never /\ v[i] \in C
        BY <2>3
      <4>2. NameQuotes(m, v[i]) = m
        BY <2>4, <4>1
      <4> QED BY <2>4, <4>1, <4>2, LineStep DEF R
    <3> QED BY <3>1
  <2>8. Leads(v, R, LineModes, m, m)
    BY <1>1, <2>4, <2>7, StaysAt
  <2>9. <<q>> \o v \o <<q>> \in Seq(C) /\ Leads(<<q>> \o v \o <<q>>, R, LineModes, "none", "none")
    BY <1>1, <2>1, <2>4, <2>5, <2>6, <2>8, LeadsQuoted
  <2>10. Quoted(v, d) = <<q>> \o v \o <<q>>
    BY <1>3, Zenon DEF Quoted, q
  <2> QED BY <2>9, <2>10, Zenon DEF R
<1> QED BY <1>2, <1>3

\* A dot between two parts changes nothing.
LEMMA DotOutside ==
  ASSUME NEW C, "." \in C
  PROVE  <<"none", ".", "none">> \in LineSteps(C) /\ "none" \in LineModes
<1>1. NameQuotes("none", ".") = "none" /\ "." \notin Never /\ "." \notin Apart /\ "none" \in LineModes
  BY PlainOutside, QuotesStay DEF LineModes
<1> QED BY <1>1, LineStep

\* A table whose name can be written.
Writable(C, table, d) ==
  /\ "." \in C /\ (d.quote # NoQuote => d.quote \in C)
  /\ PartOf(C, table.database, d) /\ PartOf(C, table.schema, d) /\ PartOf(C, table.name, d)

\* For the scanner of the line, a name goes on outside of all quotes.
LEMMA NameWritten ==
  ASSUME NEW C, NEW d \in Dialects, NEW table, Writable(C, table, d)
  PROVE  /\ Fdqn(table, d) \in Seq(C) /\ Leads(Fdqn(table, d), LineSteps(C), LineModes, "none", "none")
<1> DEFINE R == LineSteps(C)
           a == Quoted(table.database, d)
           b == Quoted(table.schema, d)
           c == Quoted(table.name, d)
           tail == b \o <<".">> \o c
           dot == "."
<1>1. /\ a \in Seq(C) /\ Leads(a, R, LineModes, "none", "none")
      /\ b \in Seq(C) /\ Leads(b, R, LineModes, "none", "none")
      /\ c \in Seq(C) /\ Leads(c, R, LineModes, "none", "none")
  BY PartWritten DEF Writable
<1>2. dot \in C /\ <<"none", dot, "none">> \in R /\ "none" \in LineModes
  BY DotOutside DEF Writable
<1> HIDE DEF R, a, b, c, dot
<1>3. <<dot>> \in Seq(C)
  BY <1>2
<1>4. b \o <<dot>> \o c \in Seq(C)
  BY <1>1, <1>3
<1>5. Leads(b \o <<dot>> \o c, R, LineModes, "none", "none")
  BY <1>1, <1>2, LeadAcross
<1>6. tail = b \o <<dot>> \o c
  BY Zenon DEF dot
<1> HIDE DEF tail
<1>7. tail \in Seq(C) /\ Leads(tail, R, LineModes, "none", "none")
  BY <1>4, <1>5, <1>6
<1>8. a \o <<dot>> \o tail \in Seq(C)
  BY <1>1, <1>3, <1>7
<1>9. Leads(a \o <<dot>> \o tail, R, LineModes, "none", "none")
  BY <1>1, <1>2, <1>7, LeadAcross
<1>10. Fdqn(table, d) = IF d.parts = 2 THEN tail ELSE a \o <<dot>> \o tail
  BY Zenon DEF Fdqn, tail, a, b, c, dot
<1>11. CASE d.parts = 2
  BY <1>7, <1>10, <1>11, Zenon DEF R
<1>12. CASE d.parts # 2
  BY <1>8, <1>9, <1>10, <1>12, Zenon DEF R
<1> QED BY <1>11, <1>12

-----------------------------------------------------------------------------
(***************************************************************************)
(* The parser of names: of a name that was written it makes the words that *)
(* the name was written from.                                              *)
(***************************************************************************)

\* The states of the parser of names, and its steps.
NameStates(C) == [inQuote : BOOLEAN, words : Seq(Seq(C)), word : Seq(C), statement : BOOLEAN]
NameSteps(C, d) == {z \in NameStates(C) \X C \X NameStates(C) : z[3] = NameChar(z[1], z[2], d)}

\* A step of the parser.
LEMMA NameStep ==
  ASSUME NEW C, NEW d, NEW s, NEW r, NEW c
  PROVE  <<s, c, r>> \in NameSteps(C, d) <=>
           s \in NameStates(C) /\ c \in C /\ r \in NameStates(C) /\ r = NameChar(s, c, d)
BY DEF NameSteps

\* The parser after some words, with a word w that is open.
ReadTo(words, w, q, over) == [inQuote |-> q, words |-> words, word |-> w, statement |-> over]
Said(words, w, q)         == ReadTo(words, w, q, FALSE)

\* Such a state, by its fields.
LEMMA SaidType ==
  ASSUME NEW C, NEW words \in Seq(Seq(C)), NEW w \in Seq(C), NEW q \in BOOLEAN
  PROVE  /\ Said(words, w, q) \in NameStates(C)
         /\ Said(words, w, q).inQuote = q /\ Said(words, w, q).words = words
         /\ Said(words, w, q).word = w /\ Said(words, w, q).statement = FALSE
BY DEF Said, ReadTo, NameStates

\* What a step makes of the states inside of quotes and outside.
OutOf(s, x) == [s EXCEPT !.inQuote = x]

LEMMA ReadOtherwise ==
  ASSUME NEW words, NEW w, NEW q, NEW x, NEW y
  PROVE  OutOf(ReadTo(words, w, q, y), x) = ReadTo(words, w, x, y)
BY DEF ReadTo, OutOf

LEMMA SaidInside ==
  ASSUME NEW words, NEW w
  PROVE  /\ ~Said(words, w, TRUE).statement /\ Said(words, w, TRUE).inQuote
         /\ [Said(words, w, TRUE) EXCEPT !.inQuote = FALSE] = Said(words, w, FALSE)
<1>1. ~Said(words, w, TRUE).statement /\ Said(words, w, TRUE).inQuote
  BY DEF Said, ReadTo
<1>2. \A y, q, x : OutOf(ReadTo(words, w, q, y), x) = ReadTo(words, w, x, y)
  BY ReadOtherwise
<1>3. \A x \in {TRUE} : \A y \in {FALSE} : OutOf(ReadTo(words, w, x, y), y) = ReadTo(words, w, y, y)
  BY <1>2
<1>4. [Said(words, w, TRUE) EXCEPT !.inQuote = FALSE] = Said(words, w, FALSE)
  BY <1>3, Zenon DEF OutOf, Said
<1> QED BY <1>1, <1>4

LEMMA SaidOutside ==
  ASSUME NEW words, NEW w
  PROVE  ~Said(words, w, FALSE).statement /\ ~Said(words, w, FALSE).inQuote
BY DEF Said, ReadTo

\* An open word that is not empty is added.
LEMMA WordAdded ==
  ASSUME NEW words, NEW w, w # <<>>, NEW q
  PROVE  AddWord(Said(words, w, q)) = Said(Append(words, w), <<>>, q)
BY DEF AddWord, Said, ReadTo

LEMMA NoWordAdded ==
  ASSUME NEW words, NEW q
  PROVE  AddWord(Said(words, <<>>, q)) = Said(words, <<>>, q)
BY DEF AddWord, Said, ReadTo

LEMMA WordCloses ==
  ASSUME NEW d, NEW s, NEW c, c # d.quote, ~s.statement, ~s.inQuote, EndsWord(s, c)
  PROVE  NameChar(s, c, d) = AddWord(s)
<1>1. c = "."
  BY DEF EndsWord
<1>2. c \notin StatementChars
  BY <1>1 DEF StatementChars, WhiteSpace, Parenthesis
<1> QED BY <1>2 DEF NameChar

LEMMA QuoteCloses ==
  ASSUME NEW d, NEW s, ~s.statement, s.inQuote
  PROVE  NameChar(s, d.quote, d) = [AddWord(s) EXCEPT !.inQuote = FALSE]
BY DEF NameChar

\* The characters of a part.
LEMMA QuoteRead ==
  ASSUME NEW d, NEW words
  PROVE  /\ NameChar(Said(words, <<>>, FALSE), d.quote, d) = Said(words, <<>>, TRUE)
         /\ \A w : w # <<>> => NameChar(Said(words, w, TRUE), d.quote, d) = Said(Append(words, w), <<>>, FALSE)
<1>1. NameChar(Said(words, <<>>, FALSE), d.quote, d) = Said(words, <<>>, TRUE)
  BY DEF NameChar, Said, ReadTo, EndsWord
<1>2. ASSUME NEW w, w # <<>>
      PROVE NameChar(Said(words, w, TRUE), d.quote, d) = Said(Append(words, w), <<>>, FALSE)
  <2> DEFINE s == Said(words, w, TRUE)
             r == Said(Append(words, w), <<>>, TRUE)
             q == d.quote
  <2>1. AddWord(s) = r
    BY <1>2, WordAdded
  <2>2. ~s.statement /\ s.inQuote
    BY SaidInside, Zenon
  <2>3. [r EXCEPT !.inQuote = FALSE] = Said(Append(words, w), <<>>, FALSE)
    BY SaidInside, Zenon
  <2> HIDE DEF s, r
  <2>4. NameChar(s, q, d) = [AddWord(s) EXCEPT !.inQuote = FALSE]
    BY <2>2, QuoteCloses
  <2> QED BY <2>1, <2>3, <2>4, Zenon DEF s, q
<1> QED BY <1>1, <1>2

\* What each kind of character does to the open word.
LEMMA QuotedChar ==
  ASSUME NEW d, NEW words, NEW w, NEW c, c # d.quote
  PROVE  NameChar(Said(words, w, TRUE), c, d) = Said(words, Append(w, c), TRUE)
BY DEF NameChar, Said, ReadTo, EndsWord

LEMMA PlainRead ==
  ASSUME NEW d, d.quote = NoQuote, d.upper = FALSE, NEW words, NEW w, NEW c \in Plain
  PROVE  NameChar(Said(words, w, FALSE), c, d) = Said(words, Append(w, c), FALSE)
<1>1. c # NoQuote /\ c # "." /\ c \notin StatementChars
  BY DEF Plain, NoQuote, StatementChars, WhiteSpace, Parenthesis
<1> QED BY <1>1 DEF NameChar, Said, ReadTo, EndsWord

LEMMA DotRead ==
  ASSUME NEW d \in Dialects, NEW words, NEW w
  PROVE  NameChar(Said(words, w, FALSE), ".", d) = AddWord(Said(words, w, FALSE))
<1>1. d.quote # "."
  BY DialectKinds DEF NoQuote, BackTick
<1> DEFINE s == Said(words, w, FALSE)
           c == "."
<1>2. ~s.statement /\ ~s.inQuote
  BY SaidOutside, Zenon
<1>3. EndsWord(s, c)
  BY <1>2 DEF EndsWord
<1>4. c # d.quote
  BY <1>1
<1> HIDE DEF s, c
<1>5. NameChar(s, c, d) = AddWord(s)
  BY <1>2, <1>3, <1>4, WordCloses
<1> QED BY <1>5, Zenon DEF s, c

\* Characters that all join the open word.
LEMMA WordGrows ==
  ASSUME NEW C, NEW d, NEW v \in Seq(C), NEW ws \in Seq(Seq(C)), NEW q \in BOOLEAN,
         \A i \in 1 .. Len(v) : \A w : NameChar(Said(ws, w, q), v[i], d) = Said(ws, Append(w, v[i]), q)
  PROVE  Leads(v, NameSteps(C, d), NameStates(C), Said(ws, <<>>, q), Said(ws, v, q))
<1> DEFINE n == Len(v)
           S == NameStates(C)
           R == NameSteps(C, d)
           g == [i \in 0 .. n |-> Said(ws, SubSeq(v, 1, i), q)]
<1>1. n \in Nat /\ \A i \in 1 .. n : v[i] \in C
  OBVIOUS
<1>2. \A i \in 0 .. n : SubSeq(v, 1, i) \in Seq(C)
  OBVIOUS
<1>3. SubSeq(v, 1, 0) = <<>> /\ SubSeq(v, 1, n) = v
  BY Prefixes
<1>4. \A i \in 1 .. n : SubSeq(v, 1, i) = Append(SubSeq(v, 1, i - 1), v[i])
  <2>1. ASSUME NEW i \in 1 .. n PROVE SubSeq(v, 1, i) = Append(SubSeq(v, 1, i - 1), v[i])
    <3> DEFINE k == i - 1
    <3>1. k \in Nat /\ k + 1 = i /\ k + 1 <= Len(v)
      BY <1>1
    <3> HIDE DEF k
    <3>2. SubSeq(v, 1, k + 1) = Append(SubSeq(v, 1, k), v[k + 1])
      BY <3>1, Prefixes
    <3>3. SubSeq(v, 1, i) = Append(SubSeq(v, 1, k), v[i])
      BY <3>1, <3>2, Zenon
    <3> QED BY <3>3, Zenon DEF k
  <2> QED BY <2>1
<1>5. \A w \in Seq(C) : Said(ws, w, q) \in S
  BY SaidType
<1>6. \A i \in 1 .. n : \A w : NameChar(Said(ws, w, q), v[i], d) = Said(ws, Append(w, v[i]), q)
  OBVIOUS
<1> HIDE DEF n, S, R
<1>7. g \in [0 .. n -> S]
  <2>1. \A i \in 0 .. n : Said(ws, SubSeq(v, 1, i), q) \in S
    BY <1>2, <1>5
  <2> QED BY <2>1
<1>8. \A i \in 0 .. n : g[i] = Said(ws, SubSeq(v, 1, i), q)
  OBVIOUS
<1> HIDE DEF g
<1>9. g[0] = Said(ws, <<>>, q) /\ g[n] = Said(ws, v, q)
  <2>1. 0 \in 0 .. n /\ n \in 0 .. n
    BY <1>1
  <2> QED BY <1>3, <1>8, <2>1, Zenon
<1>10. ASSUME NEW i \in 1 .. n PROVE <<g[i - 1], v[i], g[i]>> \in R
  <2> DEFINE w == SubSeq(v, 1, i - 1)
             c == v[i]
  <2>1. i \in 0 .. n /\ i - 1 \in 0 .. n
    BY <1>1
  <2>2. g[i - 1] = Said(ws, w, q) /\ g[i] = Said(ws, Append(w, c), q)
    BY <1>4, <1>8, <2>1, Zenon
  <2>3. g[i - 1] \in S /\ g[i] \in S /\ c \in C
    BY <1>1, <1>7, <2>1
  <2>4. g[i] = NameChar(g[i - 1], c, d)
    BY <1>6, <2>2, Zenon
  <2> HIDE DEF w, c
  <2>5. <<g[i - 1], c, g[i]>> \in R
    BY <2>3, <2>4, NameStep DEF R, S
  <2> QED BY <2>5 DEF c
<1> QED BY <1>7, <1>9, <1>10, Zenon DEF Leads, n, S, R

\* What the parser makes of a part: a dot, or the end, makes a word of it.
Reads(C, d, v, ws, us, u) ==
  /\ us \in Seq(Seq(C)) /\ u \in Seq(C)
  /\ Leads(Quoted(v, d), NameSteps(C, d), NameStates(C), Said(ws, <<>>, FALSE), Said(us, u, FALSE))
  /\ AddWord(Said(us, u, FALSE)) = Said(Append(ws, v), <<>>, FALSE)

\* A part that is written is read as an open word, or as one that its quote closed.
LEMMA PartRead ==
  ASSUME NEW C, NEW d \in Dialects, d.quote # NoQuote => d.quote \in C,
         NEW v, PartOf(C, v, d), NEW ws \in Seq(Seq(C))
  PROVE  \E us, u : Reads(C, d, v, ws, us, u)
<1>1. v \in Seq(C) /\ v # <<>> /\ <<>> \in Seq(C) /\ Append(ws, v) \in Seq(Seq(C))
  BY DEF PartOf
<1>2. CASE d.quote = NoQuote
  <2>1. d.upper = FALSE
    BY <1>2, DialectKinds
  <2>2. ASSUME NEW i \in 1 .. Len(v)
        PROVE \A w : NameChar(Said(ws, w, FALSE), v[i], d) = Said(ws, Append(w, v[i]), FALSE)
    <3>1. v[i] \in Plain
      BY <1>2 DEF PartOf
    <3> QED BY <1>2, <2>1, <3>1, PlainRead
  <2>3. Leads(v, NameSteps(C, d), NameStates(C), Said(ws, <<>>, FALSE), Said(ws, v, FALSE))
    BY <1>1, <2>2, WordGrows
  <2>4. AddWord(Said(ws, v, FALSE)) = Said(Append(ws, v), <<>>, FALSE)
    BY <1>1, WordAdded
  <2>5. Quoted(v, d) = v
    BY <1>2, Zenon DEF Quoted
  <2>6. Reads(C, d, v, ws, ws, v)
    BY <1>1, <2>3, <2>4, <2>5, Zenon DEF Reads
  <2> QED BY <2>6
<1>3. CASE d.quote # NoQuote
  <2> DEFINE q == d.quote
             R == NameSteps(C, d)
             S == NameStates(C)
             x == Append(ws, v)
             s1 == Said(ws, <<>>, FALSE)
             s2 == Said(ws, <<>>, TRUE)
             s3 == Said(ws, v, TRUE)
             s4 == Said(x, <<>>, FALSE)
  <2>1. q \in C /\ \A i \in 1 .. Len(v) : v[i] # q
    BY <1>3 DEF PartOf
  <2>2. /\ NameChar(s1, q, d) = s2 /\ NameChar(s3, q, d) = s4
        /\ \A w, c : c # q => NameChar(Said(ws, w, TRUE), c, d) = Said(ws, Append(w, c), TRUE)
    <3>1. NameChar(s1, q, d) = s2
      BY QuoteRead, Zenon
    <3>2. NameChar(s3, q, d) = s4
      <4>1. \A w : w # <<>> => NameChar(Said(ws, w, TRUE), q, d) = Said(Append(ws, w), <<>>, FALSE)
        BY QuoteRead, Zenon
      <4> QED BY <1>1, <4>1, Zenon
    <3>3. \A w, c : c # q => NameChar(Said(ws, w, TRUE), c, d) = Said(ws, Append(w, c), TRUE)
      BY QuotedChar, Zenon
    <3> QED BY <3>1, <3>2, <3>3, Zenon
  <2> HIDE DEF q, x
  <2>3. s1 \in S /\ s2 \in S /\ s3 \in S /\ s4 \in S
    <3>1. x \in Seq(Seq(C))
      BY <1>1 DEF x
    <3> QED BY <1>1, <3>1, SaidType
  <2>4. Leads(v, R, S, s2, s3)
    <3>1. \A i \in 1 .. Len(v) : \A w : NameChar(Said(ws, w, TRUE), v[i], d) = Said(ws, Append(w, v[i]), TRUE)
      BY <2>1, <2>2
    <3>2. TRUE \in BOOLEAN
      OBVIOUS
    <3> QED BY <1>1, <3>1, <3>2, WordGrows
  <2>5. Quoted(v, d) = <<q>> \o v \o <<q>>
    BY <1>3, Zenon DEF Quoted, q
  <2>6. AddWord(s4) = s4
    BY NoWordAdded, Zenon
  <2> HIDE DEF s1, s2, s3, s4, R, S
  <2>7. <<s1, q, s2>> \in R /\ <<s3, q, s4>> \in R
    BY <2>1, <2>2, <2>3, NameStep DEF R, S
  <2>8. Leads(<<q>> \o v \o <<q>>, R, S, s1, s4)
    BY <1>1, <2>1, <2>3, <2>4, <2>7, LeadsQuoted
  <2>9. Reads(C, d, v, ws, x, <<>>)
    <3>1. x \in Seq(Seq(C)) /\ <<>> \in Seq(C)
      BY <1>1 DEF x
    <3> QED BY <2>5, <2>6, <2>8, <3>1, Zenon DEF Reads, R, S, s1, s4, x
  <2> QED BY <2>9
<1> QED BY <1>2, <1>3

\* A part, a dot, and what follows them.
LEMMA DotFollows ==
  ASSUME NEW C, "." \in C, NEW d \in Dialects, NEW v, NEW ws \in Seq(Seq(C)), NEW us, NEW u, Reads(C, d, v, ws, us, u),
         Quoted(v, d) \in Seq(C), v \in Seq(C), NEW w \in Seq(C), NEW e,
         Leads(w, NameSteps(C, d), NameStates(C), Said(Append(ws, v), <<>>, FALSE), e)
  PROVE  Leads(Quoted(v, d) \o <<".">> \o w, NameSteps(C, d), NameStates(C), Said(ws, <<>>, FALSE), e)
<1> DEFINE R == NameSteps(C, d)
           S == NameStates(C)
           dot == "."
           x == Append(ws, v)
           a == Said(ws, <<>>, FALSE)
           b == Said(us, u, FALSE)
           c == Said(x, <<>>, FALSE)
           y == Quoted(v, d)
<1>1. x \in Seq(Seq(C)) /\ <<>> \in Seq(C) /\ us \in Seq(Seq(C)) /\ u \in Seq(C)
  BY DEF Reads
<1>2. b \in S /\ c \in S
  <2> HIDE DEF x
  <2> QED BY <1>1, SaidType
<1>3. NameChar(b, dot, d) = c /\ Leads(y, R, S, a, b)
  BY DotRead DEF Reads
<1>4. dot \in C /\ y \in Seq(C) /\ Leads(w, R, S, c, e)
  OBVIOUS
<1> HIDE DEF R, S, dot, x, a, b, c, y
<1>5. <<b, dot, c>> \in R
  BY <1>2, <1>3, <1>4, NameStep DEF R, S
<1>6. Leads(y \o <<dot>> \o w, R, S, a, e)
  BY <1>2, <1>3, <1>4, <1>5, LeadAcross
<1> QED BY <1>6, Zenon DEF R, S, dot, a, y

\* The last two parts of a name.
LastTwo(v, w, d) == Quoted(v, d) \o <<".">> \o Quoted(w, d)
TailReads(C, d, v, w, ws, us, u) ==
  /\ Leads(LastTwo(v, w, d), NameSteps(C, d), NameStates(C), Said(ws, <<>>, FALSE), Said(us, u, FALSE))
  /\ AddWord(Said(us, u, FALSE)) = Said(Append(Append(ws, v), w), <<>>, FALSE)

\* The last two parts are read as two words.
LEMMA TailRead ==
  ASSUME NEW C, "." \in C, NEW d \in Dialects, d.quote # NoQuote => d.quote \in C,
         NEW v, PartOf(C, v, d), NEW w, PartOf(C, w, d), NEW ws \in Seq(Seq(C))
  PROVE  \E us, u : TailReads(C, d, v, w, ws, us, u)
<1> DEFINE x == Append(ws, v)
           y == Quoted(w, d)
           S == NameStates(C)
           R == NameSteps(C, d)
<1>1. v \in Seq(C) /\ x \in Seq(Seq(C)) /\ y \in Seq(C) /\ Quoted(v, d) \in Seq(C)
  <2>1. v \in Seq(C)
    BY DEF PartOf
  <2>2. Quoted(v, d) \in Seq(C) /\ y \in Seq(C)
    BY PartWritten
  <2> QED BY <2>1, <2>2
<1>2. PICK us, u : Reads(C, d, v, ws, us, u)
  BY PartRead
<1> HIDE DEF x
<1>3. PICK vs, z : Reads(C, d, w, x, vs, z)
  BY <1>1, PartRead
<1>4. /\ Leads(y, R, S, Said(x, <<>>, FALSE), Said(vs, z, FALSE))
      /\ AddWord(Said(vs, z, FALSE)) = Said(Append(x, w), <<>>, FALSE)
  BY <1>3, Zenon DEF Reads
<1> HIDE DEF y
<1>5. Leads(y, R, S, Said(Append(ws, v), <<>>, FALSE), Said(vs, z, FALSE))
  BY <1>4, Zenon DEF x
<1>6. Leads(Quoted(v, d) \o <<".">> \o y, R, S, Said(ws, <<>>, FALSE), Said(vs, z, FALSE))
  BY <1>1, <1>2, <1>5, DotFollows
<1>7. TailReads(C, d, v, w, ws, vs, z)
  BY <1>4, <1>6, Zenon DEF x, y, LastTwo, TailReads
<1> QED BY <1>7

\* The words of a name are its parts.
WordsOf(table, d) ==
  IF d.parts = 2 THEN Append(Append(<<>>, table.schema), table.name)
  ELSE Append(Append(Append(<<>>, table.database), table.schema), table.name)

\* A name is read as the words of its parts.
LEMMA NameRead ==
  ASSUME NEW C, NEW d \in Dialects, NEW table, Writable(C, table, d)
  PROVE  \E us, u :
           /\ Leads(Fdqn(table, d), NameSteps(C, d), NameStates(C), Said(<<>>, <<>>, FALSE), Said(us, u, FALSE))
           /\ AddWord(Said(us, u, FALSE)) = Said(WordsOf(table, d), <<>>, FALSE)
<1> DEFINE a == table.database
           b == table.schema
           c == table.name
           tail == LastTwo(b, c, d)
           S == NameStates(C)
           R == NameSteps(C, d)
           none == <<>>
<1>1. "." \in C /\ (d.quote # NoQuote => d.quote \in C) /\ PartOf(C, a, d) /\ PartOf(C, b, d) /\ PartOf(C, c, d)
  BY DEF Writable
<1>2. none \in Seq(Seq(C)) /\ Append(none, a) \in Seq(Seq(C)) /\ a \in Seq(C)
  BY <1>1 DEF PartOf
<1>3. Fdqn(table, d) = IF d.parts = 2 THEN tail ELSE Quoted(a, d) \o <<".">> \o tail
  BY Zenon DEF Fdqn, LastTwo
<1>4. CASE d.parts = 2
  <2> HIDE DEF a, b, c, none
  <2>1. PICK us, u : TailReads(C, d, b, c, none, us, u)
    BY <1>1, <1>2, TailRead
  <2> HIDE DEF tail, S, R
  <2>2. Fdqn(table, d) = tail /\ WordsOf(table, d) = Append(Append(none, b), c)
    BY <1>3, <1>4, Zenon DEF WordsOf, none, a, b, c
  <2> QED BY <2>1, <2>2, Zenon DEF none, S, R, tail, TailReads
<1>5. CASE d.parts # 2
  <2> DEFINE x == Append(none, a)
             y == Quoted(a, d)
  <2>1. tail \in Seq(C) /\ y \in Seq(C)
    <3>1. Quoted(b, d) \in Seq(C) /\ Quoted(c, d) \in Seq(C) /\ y \in Seq(C)
      BY <1>1, PartWritten
    <3>2. <<".">> \in Seq(C)
      BY <1>1
    <3>3. tail = Quoted(b, d) \o <<".">> \o Quoted(c, d)
      BY Zenon DEF LastTwo
    <3> HIDE DEF a, b, c, y, tail
    <3> QED BY <3>1, <3>2, <3>3
  <2> HIDE DEF a, b, c, none
  <2>2. PICK us, u : Reads(C, d, a, none, us, u)
    BY <1>1, <1>2, PartRead
  <2> HIDE DEF x
  <2>3. x \in Seq(Seq(C))
    BY <1>2 DEF x
  <2>4. PICK vs, z : TailReads(C, d, b, c, x, vs, z)
    BY <1>1, <2>3, TailRead
  <2>5. Leads(tail, R, S, Said(Append(none, a), <<>>, FALSE), Said(vs, z, FALSE))
    BY <2>4, Zenon DEF x, TailReads
  <2>6. Leads(y \o <<".">> \o tail, R, S, Said(none, <<>>, FALSE), Said(vs, z, FALSE))
    BY <1>1, <1>2, <2>1, <2>2, <2>5, DotFollows
  <2>7. Fdqn(table, d) = y \o <<".">> \o tail /\ WordsOf(table, d) = Append(Append(x, b), c)
    BY <1>3, <1>5, Zenon DEF WordsOf, none, a, b, c, x
  <2>8. AddWord(Said(vs, z, FALSE)) = Said(Append(Append(x, b), c), <<>>, FALSE)
    BY <2>4, Zenon DEF TailReads
  <2> HIDE DEF y, R, S, tail
  <2> QED BY <2>6, <2>7, <2>8, Zenon DEF none, R, S
<1> QED BY <1>4, <1>5

\* The table that the parser makes of its last state.
TableAt(end, database) ==
  LET words == AddWord(end).words
      n == Len(words)
  IN  CASE end.statement \/ (~end.inQuote /\ n > 3) -> NotAName("statement")
        [] ~end.statement /\ (end.inQuote \/ n = 0) -> NotAName("error")
        [] OTHER -> [kind     |-> "table",
                     database |-> IF n = 3 THEN words[1] ELSE database,
                     schema   |-> IF n = 1 THEN <<>> ELSE words[n - 1],
                     name     |-> words[n]]

\* The parser before the first character; what its steps lead to is its last state.
NameStart == [inQuote |-> FALSE, words |-> <<>>, word |-> <<>>, statement |-> FALSE]

LEMMA ParsedTo ==
  ASSUME NEW C, NEW t \in Seq(C), NEW d, NEW database, NEW e,
         Leads(t, NameSteps(C, d), NameStates(C), NameStart, e)
  PROVE  ParseTableName(t, d, database) = TableAt(e, database)
<1> DEFINE n == Len(t)
           S == NameStates(C)
           R == NameSteps(C, d)
           F(f) == [i \in 0 .. Len(t) |-> IF i = 0 THEN NameStart ELSE NameChar(f[i - 1], t[i], d)]
           scan == CHOOSE f : f = F(f)
<1>1. n \in Nat
  OBVIOUS
<1>2. PICK g \in [0 .. n -> S] : g[0] = NameStart /\ g[n] = e /\ \A i \in 1 .. n : <<g[i - 1], t[i], g[i]>> \in R
  BY DEF Leads
<1>3. \A i \in 1 .. n : g[i] = NameChar(g[i - 1], t[i], d)
  <2> HIDE DEF n
  <2>1. ASSUME NEW i \in 1 .. n PROVE g[i] = NameChar(g[i - 1], t[i], d)
    <3>1. <<g[i - 1], t[i], g[i]>> \in NameSteps(C, d)
      BY <1>2
    <3> QED BY <3>1, NameStep
  <2> QED BY <2>1
<1>4. g = F(g)
  <2> HIDE DEF S
  <2> QED BY <1>1, <1>2, <1>3
<1>5. scan = F(scan)
  BY <1>4
<1>6. ParseTableName(t, d, database) = TableAt(scan[n], database)
  BY Zenon DEF ParseTableName, TableAt, NameStart
<1> HIDE DEF scan
<1>7. scan[0] = NameStart /\ \A i \in 1 .. n : scan[i] = NameChar(scan[i - 1], t[i], d)
  BY <1>1, <1>5
<1> HIDE DEF n, S, R, F
<1> DEFINE T == {k \in Nat : k <= n => scan[k] = g[k]}
<1>8. 0 \in T
  BY <1>2, <1>7
<1>9. ASSUME NEW k \in Nat, k \in T PROVE k + 1 \in T
  <2> SUFFICES ASSUME k + 1 <= n PROVE scan[k + 1] = g[k + 1]
    OBVIOUS
  <2> DEFINE j == k + 1
  <2>1. j \in 1 .. n /\ j - 1 = k /\ scan[k] = g[k]
    BY <1>1, <1>9
  <2> HIDE DEF j
  <2>2. scan[j] = NameChar(scan[j - 1], t[j], d) /\ g[j] = NameChar(g[j - 1], t[j], d)
    BY <1>3, <1>7, <2>1
  <2>3. scan[j] = g[j]
    BY <2>1, <2>2, Zenon
  <2> QED BY <2>3 DEF j
<1>10. n \in T
  BY <1>1, <1>8, <1>9, SetInduction
<1>11. scan[n] = e
  BY <1>1, <1>2, <1>10
<1> QED BY <1>6, <1>11, Zenon

\* Lists of two and of three words.
LEMMA TwoAppended ==
  ASSUME NEW C, NEW b \in C, NEW c \in C, NEW words, words = Append(Append(<<>>, b), c)
  PROVE  Len(words) = 2 /\ words[1] = b /\ words[2] = c
OBVIOUS

LEMMA ThreeAppended ==
  ASSUME NEW C, NEW a \in C, NEW b \in C, NEW c \in C, NEW words, words = Append(Append(Append(<<>>, a), b), c)
  PROVE  Len(words) = 3 /\ words[1] = a /\ words[2] = b /\ words[3] = c
OBVIOUS

\* A table by its three parts, and the table of two or three words.
TableNamed(a, b, c) == [kind |-> "table", database |-> a, schema |-> b, name |-> c]

LEMMA TableFields ==
  ASSUME NEW a, NEW b, NEW c
  PROVE  TableNamed(a, b, c).database = a /\ TableNamed(a, b, c).schema = b /\ TableNamed(a, b, c).name = c
BY DEF TableNamed

LEMMA TableOfWords ==
  ASSUME NEW end, NEW words, AddWord(end).words = words, ~end.statement, ~end.inQuote, NEW a, NEW b, NEW c,
         \/ Len(words) = 2 /\ words[1] = b /\ words[2] = c
         \/ Len(words) = 3 /\ words[1] = a /\ words[2] = b /\ words[3] = c
  PROVE  TableAt(end, a) = TableNamed(a, b, c)
<1> DEFINE n == Len(words)
<1>1. \/ n = 2 /\ words[1] = b /\ words[2] = c
      \/ n = 3 /\ words[1] = a /\ words[2] = b /\ words[3] = c
  OBVIOUS
<1>2. /\ ~(n > 3) /\ n # 0 /\ n # 1 /\ words[n - 1] = b /\ words[n] = c
      /\ (IF n = 3 THEN words[1] ELSE a) = a
  <2> HIDE DEF n
  <2>1. CASE n = 2 /\ words[1] = b /\ words[2] = c
    <3>1. n - 1 = 1 /\ ~(n > 3) /\ n # 0 /\ n # 1 /\ n # 3
      BY <2>1
    <3> QED BY <2>1, <3>1
  <2>2. CASE n = 3 /\ words[1] = a /\ words[2] = b /\ words[3] = c
    <3>1. n - 1 = 2 /\ ~(n > 3) /\ n # 0 /\ n # 1
      BY <2>2
    <3> QED BY <2>2, <3>1
  <2> QED BY <1>1, <2>1, <2>2
<1>3. TableAt(end, a) = [kind |-> "table", database |-> IF n = 3 THEN words[1] ELSE a,
                         schema |-> IF n = 1 THEN <<>> ELSE words[n - 1], name |-> words[n]]
  <2>1. ~(end.statement \/ (~end.inQuote /\ n > 3))
    BY <1>2
  <2>2. ~(~end.statement /\ (end.inQuote \/ n = 0))
    BY <1>2
  <2> HIDE DEF n
  <2>3. TableAt(end, a) =
          CASE end.statement \/ (~end.inQuote /\ n > 3) -> NotAName("statement")
            [] ~end.statement /\ (end.inQuote \/ n = 0) -> NotAName("error")
            [] OTHER -> [kind |-> "table", database |-> IF n = 3 THEN words[1] ELSE a,
                         schema |-> IF n = 1 THEN <<>> ELSE words[n - 1], name |-> words[n]]
    BY Zenon DEF TableAt, n
  <2> QED BY <2>1, <2>2, <2>3
<1>4. (IF n = 1 THEN <<>> ELSE words[n - 1]) = b
  BY <1>2
<1> HIDE DEF n
<1> QED BY <1>2, <1>3, <1>4, Zenon DEF TableNamed

\* The name of a table that can be written is read back as the table.
LEMMA NameReadBack ==
  ASSUME NEW C, NEW d \in Dialects, NEW a, NEW b, NEW c, Writable(C, TableNamed(a, b, c), d)
  PROVE  ParseTableName(Fdqn(TableNamed(a, b, c), d), d, a) = TableNamed(a, b, c)
<1> DEFINE table == TableNamed(a, b, c)
           t == Fdqn(table, d)
           words == WordsOf(table, d)
<1>1. table.database = a /\ table.schema = b /\ table.name = c
  BY TableFields
<1> HIDE DEF table
<1>2. a \in Seq(C) /\ b \in Seq(C) /\ c \in Seq(C) /\ t \in Seq(C)
  <2>1. Writable(C, table, d)
    BY Zenon DEF table
  <2> QED BY <1>1, <2>1, NameWritten DEF Writable, PartOf
<1>3. PICK us, u :
        /\ Leads(t, NameSteps(C, d), NameStates(C), Said(<<>>, <<>>, FALSE), Said(us, u, FALSE))
        /\ AddWord(Said(us, u, FALSE)) = Said(words, <<>>, FALSE)
  <2>1. Writable(C, table, d)
    BY Zenon DEF table
  <2> QED BY <2>1, NameRead
<1>4. NameStart = Said(<<>>, <<>>, FALSE)
  BY Zenon DEF NameStart, Said, ReadTo
<1> DEFINE e == Said(us, u, FALSE)
<1>5. ParseTableName(t, d, a) = TableAt(e, a)
  <2> HIDE DEF e, t
  <2>1. Leads(t, NameSteps(C, d), NameStates(C), NameStart, e)
    BY <1>3, <1>4, Zenon DEF e
  <2> QED BY <1>2, <2>1, ParsedTo
<1>6. \/ Len(words) = 2 /\ words[1] = b /\ words[2] = c
      \/ Len(words) = 3 /\ words[1] = a /\ words[2] = b /\ words[3] = c
  <2>1. words = IF d.parts = 2 THEN Append(Append(<<>>, b), c) ELSE Append(Append(Append(<<>>, a), b), c)
    BY <1>1, Zenon DEF WordsOf
  <2> HIDE DEF words
  <2>2. CASE d.parts = 2
    <3>1. words = Append(Append(<<>>, b), c)
      BY <2>1, <2>2
    <3> QED BY <1>2, <3>1, TwoAppended
  <2>3. CASE d.parts # 2
    <3>1. words = Append(Append(Append(<<>>, a), b), c)
      BY <2>1, <2>3
    <3> QED BY <1>2, <3>1, ThreeAppended
  <2> QED BY <2>2, <2>3
<1>7. ~e.statement /\ ~e.inQuote
  BY SaidOutside, Zenon
<1>8. AddWord(e).words = words
  <2>1. Said(words, <<>>, FALSE).words = words
    BY DEF Said, ReadTo
  <2>2. AddWord(e) = Said(words, <<>>, FALSE)
    BY <1>3
  <2> HIDE DEF e, words
  <2> QED BY <2>1, <2>2, Zenon
<1>9. TableAt(e, a) = TableNamed(a, b, c)
  <2> HIDE DEF e, words
  <2> QED BY <1>6, <1>7, <1>8, TableOfWords
<1> QED BY <1>5, <1>9, Zenon DEF t, table

-----------------------------------------------------------------------------
(***************************************************************************)
(* The scanner of the line: a name between two blanks is one token, a word. *)
(***************************************************************************)

\* The open token becomes b; it stays open, or is the last of the tokens.
TakesUp(C, s, r, b, ends) ==
  /\ ~ends => r.tokens = s.tokens /\ r.cur = b
  /\ ends => /\ r.cur.value = <<>>
             /\ \E x \in TokenSet(C) : r.tokens = Append(s.tokens, x) /\ x.value = b.value /\ (x.isWord <=> IsWord(b))

\* A turn of the scan takes up its character.
LEMMA TurnTakesUp ==
  ASSUME NEW C, NEW s \in ScanSet(C), NEW w, w.c \in C, NEW m \in LineModes,
         s.mode \in LineModes, NEW closes, NEW last, NEW r, r = Turn(s, w, m, s.level, closes, last),
         NEW b, b = Add(s.cur, w.c)
  PROVE  TakesUp(C, s, r, b, EndsToken(m, w, closes, last))
<1> DEFINE read == [s EXCEPT !.at = Advance(@, w.c), !.index = Len(s.tokens),
                             !.mode = m, !.level = s.level,
                             !.was = IF s.mode # m THEN s.mode ELSE "none"]
           Breaks == \/ (s.mode \in CommentModes) # (m \in CommentModes)
                    \/ (s.mode = "jinja") # (m = "jinja")
           a     == IF Breaks THEN AddToken(read) ELSE read
           taken == [a EXCEPT !.cur = Add(@, w.c)]
           ends  == EndsToken(m, w, closes, last)
<1>1. read \in ScanSet(C) /\ read.tokens = s.tokens /\ read.cur = s.cur
  <2>1. Advance(s.at, w.c) \in Position /\ Len(s.tokens) \in Int /\ s.level \in Int
    BY AdvanceType DEF ScanSet
  <2>2. s.mode \in Modes /\ "none" \in Modes /\ m \in Modes
    BY DEF ScanSet, Modes, LineModes, QuoteModes
  <2> QED BY <2>1, <2>2 DEF ScanSet
<1>2. r = IF ends THEN AddToken(taken) ELSE taken
  BY DEF Turn
<1>3. ~Breaks
  BY DEF LineModes, CommentModes
<1> HIDE DEF read, Breaks, ends
<1>4. a = read
  BY <1>3
<1> HIDE DEF a
<1>5. a \in ScanSet(C) /\ a.tokens = s.tokens /\ a.cur = s.cur
  BY <1>1, <1>4, Zenon
<1>6. s.cur \in BufferSet(C) /\ s.cur.value \in Seq(C)
  BY DEF ScanSet, BufferSet
<1>7. b \in BufferSet(C) /\ b.value = Append(s.cur.value, w.c)
  BY <1>6, AddBuffer
<1>8. taken \in ScanSet(C) /\ taken.tokens = s.tokens /\ taken.cur = b
  BY <1>5, <1>7 DEF ScanSet
<1>9. b.value # <<>> /\ taken.cur.value # <<>>
  BY <1>6, <1>7, <1>8
<1> HIDE DEF taken
<1>10. /\ AddToken(taken).cur.value = <<>>
       /\ AddToken(taken).tokens = Append(taken.tokens, Finalize(taken))
  BY <1>8, <1>9, TokenAdded
<1>11. Finalize(taken) \in TokenSet(C) /\ Finalize(taken).value = taken.cur.value
  BY <1>8, <1>9, Finalized
<1>12. Finalize(taken).isWord <=> IsWord(taken.cur)
  BY DEF Finalize
<1>13. CASE ends
  <2> DEFINE x == Finalize(taken)
  <2>1. x \in TokenSet(C) /\ x.value = b.value /\ (x.isWord <=> IsWord(b))
    BY <1>8, <1>11, <1>12
  <2>2. r.cur.value = <<>> /\ r.tokens = Append(s.tokens, x)
    BY <1>2, <1>8, <1>10, <1>13
  <2> HIDE DEF x
  <2>3. TakesUp(C, s, r, b, ends)
    BY <1>13, <2>1, <2>2 DEF TakesUp
  <2> QED BY <2>3 DEF ends
<1>14. CASE ~ends
  <2>1. r = taken
    BY <1>2, <1>14
  <2>2. TakesUp(C, s, r, b, ends)
    BY <1>8, <1>14, <2>1 DEF TakesUp
  <2> QED BY <2>2 DEF ends
<1> QED BY <1>13, <1>14

\* The token ends with the i-th character of the line, which leaves the mode m.
EndsAt(t, i, m) == EndsToken(m, Window(t, i), FALSE, i = Len(t))

\* A turn at the i-th character of a line.
LEMMA LineTakesUp ==
  ASSUME NEW C, NEW t \in Seq(C), NEW i \in 1 .. Len(t), NEW s \in LineSet(C),
         NEW r, r = LineTurn(s, t, i), NEW m, m = NameQuotes(s.mode, t[i])
  PROVE  r.mode = m /\ TakesUp(C, s, r, Add(s.cur, t[i]), EndsAt(t, i, m))
<1> DEFINE w == Window(t, i)
           level == s.level
           closes == FALSE
           last == i = Len(t)
<1>1. w.c = t[i] /\ w.c \in C
  BY WindowOfText
<1>2. s \in ScanSet(C) /\ s.mode \in LineModes
  BY DEF LineSet
<1>3. m = LineMode(s.mode, w)
  BY <1>1 DEF LineMode
<1>4. m \in LineModes
  BY <1>2, <1>3, LineModeType
<1>5. r = Turn(s, w, m, s.level, closes, last)
  BY <1>3, Zenon DEF LineTurn
<1>6. m \in Modes /\ level \in Int
  BY <1>2, <1>4 DEF LineModes, Modes, QuoteModes, ScanSet
<1> HIDE DEF w, closes, last
<1>7. TakesUp(C, s, r, Add(s.cur, w.c), EndsToken(m, w, closes, last))
  BY <1>1, <1>2, <1>4, <1>5, TurnTakesUp
<1> HIDE DEF level
<1>8. r.mode = m
  <2>1. r = Turn(s, w, m, level, closes, last)
    BY <1>5 DEF level
  <2> QED BY <1>1, <1>2, <1>6, <2>1, TurnReads
<1> QED BY <1>1, <1>7, <1>8, Zenon DEF EndsAt, w, closes, last

\* Between two characters of words, and in quotes, no token ends.
LEMMA WordGoesOn ==
  ASSUME NEW C, NEW t \in Seq(C), NEW i \in 1 .. Len(t), i + 1 \in 1 .. Len(t), NEW m,
         m = "none" => t[i] \notin Apart /\ t[i + 1] \notin Apart
  PROVE  ~EndsAt(t, i, m)
<1> DEFINE w == Window(t, i)
<1>1. w.c = t[i] /\ w.n = t[i + 1]
  BY WindowAt
<1> HIDE DEF w
<1>2. i # Len(t)
  OBVIOUS
<1>3. ASSUME m = "none", Splits(w, FALSE) PROVE FALSE
  <2>1. /\ w.c \notin WhiteSpace /\ w.c \notin Parenthesis /\ w.c \notin Comma /\ w.c \notin Semicolon /\ w.c \notin Operator
        /\ w.n \notin WhiteSpace /\ w.n \notin Parenthesis /\ w.n \notin Comma /\ w.n \notin Semicolon /\ w.n \notin Operator
    BY <1>1, <1>3 DEF Apart
  <2>2. \A kind \in {WhiteSpace, Parenthesis, Comma, Semicolon} : w.c \notin kind /\ w.n \notin kind
    BY <2>1, Zenon
  <2>3. \A kind \in {WhiteSpace, Parenthesis, Comma, Semicolon} : ~((w.c \in kind) # (w.n \in kind))
    BY <2>2
  <2>4. ~((w.c \in Operator) # (w.n \in Operator))
    BY <2>1
  <2> QED BY <1>3, <2>3, <2>4, Zenon DEF Splits
<1> QED BY <1>2, <1>3 DEF EndsAt, EndsToken, w

\* Outside of quotes a token ends between a blank and another character, and
\* with the line.
LEMMA WordStops ==
  ASSUME NEW C, NEW t \in Seq(C), NEW i \in 1 .. Len(t),
         i + 1 \in 1 .. Len(t) => ~(t[i] \in WhiteSpace <=> t[i + 1] \in WhiteSpace)
  PROVE  EndsAt(t, i, "none")
<1>1. CASE i = Len(t)
  BY <1>1 DEF EndsAt, EndsToken
<1>2. CASE i # Len(t)
  <2> DEFINE w == Window(t, i)
  <2>1. i + 1 \in 1 .. Len(t)
    BY <1>2
  <2>2. w.c = t[i] /\ w.n = t[i + 1]
    BY <2>1, WindowAt
  <2>3. ~(w.c \in WhiteSpace <=> w.n \in WhiteSpace)
    BY <2>1, <2>2
  <2> HIDE DEF w
  <2>4. Splits(w, FALSE)
    BY <2>3, Zenon DEF Splits
  <2> QED BY <2>4 DEF EndsAt, EndsToken, w
<1> QED BY <1>1, <1>2

\* An open token that is becoming a word, of the characters v so far.
InWord(b, v) == b.value = v /\ (v # <<>> => ~b.ws /\ ~b.op)

\* A character of a word keeps the open token one that becomes a word.
LEMMA AddInWord ==
  ASSUME NEW C, NEW v \in Seq(C), NEW b \in BufferSet(C), InWord(b, v), NEW c \in C, v = <<>> => c \notin Apart
  PROVE  InWord(Add(b, c), Append(v, c))
<1>1. Add(b, c).value = Append(v, c)
  BY AddBuffer DEF InWord
<1>2. /\ Add(b, c).ws <=> c \in WhiteSpace /\ (b.ws \/ b.value = <<>>)
      /\ Add(b, c).op <=> c \in Operator /\ (b.op \/ b.value = <<>>)
  BY DEF Add, BufferSet
<1>3. c \notin Apart => c \notin WhiteSpace /\ c \notin Operator
  BY DEF Apart
<1>4. ~Add(b, c).ws /\ ~Add(b, c).op
  BY <1>2, <1>3 DEF InWord
<1> QED BY <1>1, <1>4 DEF InWord

LEMMA WordIsWord ==
  ASSUME NEW b, NEW C, NEW v \in Seq(C), v # <<>>, InWord(b, v), \A i \in 1 .. Len(v) : v[i] \notin Never
  PROVE  IsWord(b)
<1>1. b.value = v /\ ~b.ws /\ ~b.op
  BY DEF InWord
<1>2. \A i \in DOMAIN v : v[i] \notin Parenthesis \cup Comma
  BY DEF Never
<1> QED BY <1>1, <1>2, Zenon DEF IsWord

LEMMA BlankIsNoWord ==
  ASSUME NEW C, NEW b \in BufferSet(C), b.value = <<>>, NEW c, c \in WhiteSpace
  PROVE  ~IsWord(Add(b, c))
<1>1. Add(b, c).ws
  BY DEF Add, BufferSet
<1> QED BY <1>1 DEF IsWord

\* The turns f of the scan of the line t; between two tokens.
LineOf(C, t, f) == f \in [0 .. Len(t) -> LineSet(C)] /\ \A i \in 1 .. Len(t) : f[i] = LineTurn(f[i - 1], t, i)
Between(s) == s.mode = "none" /\ s.cur.value = <<>>

\* From a on, the line t goes on with v, and then with a blank or not at all.
StandsAt(t, a, v) ==
  /\ a \in 0 .. Len(t) /\ a + Len(v) <= Len(t) /\ \A j \in 1 .. Len(v) : t[a + j] = v[j]
  /\ a + Len(v) + 1 \in 1 .. Len(t) => t[a + Len(v) + 1] \in WhiteSpace

\* After k characters of a word.
WordRead(f, g, v, a, k) ==
  /\ f[a + k].mode = g[k] /\ f[a + k].tokens = f[a].tokens
  /\ InWord(f[a + k].cur, SubSeq(v, 1, k))

\* One more character of a word, when no token ends there.
LEMMA StepInWord ==
  ASSUME NEW C, NEW v \in Seq(C), NEW g, g[0] = "none", NEW j \in 1 .. Len(v),
         <<g[j - 1], v[j], g[j]>> \in LineSteps(C),
         NEW s \in LineSet(C), s.mode = g[j - 1], InWord(s.cur, SubSeq(v, 1, j - 1))
  PROVE  NameQuotes(s.mode, v[j]) = g[j] /\ InWord(Add(s.cur, v[j]), SubSeq(v, 1, j))
<1> DEFINE k == j - 1
           c == v[j]
           u == SubSeq(v, 1, k)
<1>1. k \in Nat /\ k + 1 = j /\ k + 1 <= Len(v) /\ c \in C
  OBVIOUS
<1>2. u \in Seq(C) /\ Len(u) = k
  OBVIOUS
<1>3. SubSeq(v, 1, j) = Append(u, c)
  <2> HIDE DEF k, u, c
  <2>1. SubSeq(v, 1, k + 1) = Append(SubSeq(v, 1, k), v[k + 1])
    BY <1>1, Prefixes
  <2> QED BY <1>1, <2>1, Zenon DEF u, c
<1>4. g[j] = NameQuotes(g[k], c) /\ (g[k] = "none" => c \notin Apart)
  <2> HIDE DEF c
  <2> QED BY LineStep DEF c
<1>5. s.cur \in BufferSet(C) /\ s.mode = g[k] /\ InWord(s.cur, u)
  BY DEF LineSet, ScanSet
<1>6. u = <<>> => k = 0
  BY <1>2
<1> HIDE DEF k, u, c
<1>7. u = <<>> => c \notin Apart
  BY <1>4, <1>6
<1>8. InWord(Add(s.cur, c), Append(u, c))
  BY <1>1, <1>2, <1>5, <1>7, AddInWord
<1> QED BY <1>3, <1>4, <1>5, <1>8, Zenon DEF c

\* A word is one token of the line.
LEMMA WordScanned ==
  ASSUME NEW C, NEW t \in Seq(C), NEW f, LineOf(C, t, f), NEW v \in Seq(C), v # <<>>, NEW a, StandsAt(t, a, v),
         Leads(v, LineSteps(C), LineModes, "none", "none"), Between(f[a])
  PROVE  LET r == f[a + Len(v)]
         IN  Between(r) /\ \E x \in TokenSet(C) : r.tokens = Append(f[a].tokens, x) /\ x.value = v /\ x.isWord
<1> DEFINE n == Len(v)
           l == Len(t)
<1>1. n \in Nat /\ n > 0 /\ l \in Nat /\ \A j \in 1 .. n : v[j] \in C
  OBVIOUS
<1>2. /\ a \in 0 .. l /\ a + n <= l /\ \A j \in 1 .. n : t[a + j] = v[j]
      /\ a + n + 1 \in 1 .. l => t[a + n + 1] \in WhiteSpace
  BY DEF StandsAt
<1>3. PICK g \in [0 .. n -> LineModes] :
        g[0] = "none" /\ g[n] = "none" /\ \A j \in 1 .. n : <<g[j - 1], v[j], g[j]>> \in LineSteps(C)
  BY DEF Leads
<1>4. /\ \A i \in 0 .. l : f[i] \in LineSet(C)
      /\ \A i \in 1 .. l : f[i] = LineTurn(f[i - 1], t, i)
  BY DEF LineOf
<1>5. \A j \in 1 .. n : v[j] \notin Never /\ ((g[j - 1] = "none" \/ g[j] = "none") => v[j] \notin Apart)
  <2>1. ASSUME NEW j \in 1 .. n PROVE v[j] \notin Never /\ ((g[j - 1] = "none" \/ g[j] = "none") => v[j] \notin Apart)
    <3>1. <<g[j - 1], v[j], g[j]>> \in LineSteps(C)
      BY <1>3
    <3> QED BY <3>1, LineStep
  <2> QED BY <2>1
<1>6. SubSeq(v, 1, 0) = <<>> /\ SubSeq(v, 1, n) = v
  BY Prefixes
<1>7. Between(f[a]) /\ Len(t) = l
  OBVIOUS
<1> HIDE DEF n, l
\* One more character.
<1>8. ASSUME NEW k \in Nat, k < n, WordRead(f, g, v, a, k)
      PROVE  LET j == k + 1
             IN  /\ f[a + j].mode = g[j]
                 /\ \E b : /\ InWord(b, SubSeq(v, 1, j))
                           /\ TakesUp(C, f[a + k], f[a + j], b, EndsAt(t, a + j, g[j]))
  <2> DEFINE j == k + 1
             i == a + j
             s == f[a + k]
  <2>1. j \in 1 .. n /\ j - 1 = k /\ i \in 1 .. l /\ i - 1 = a + k /\ a + k \in 0 .. l
    BY <1>1, <1>2, <1>8
  <2>2. s \in LineSet(C) /\ f[i] = LineTurn(s, t, i) /\ t[i] = v[j]
    BY <1>2, <1>4, <2>1
  <2>3. s.mode = g[k] /\ InWord(s.cur, SubSeq(v, 1, k))
    BY <1>8, Zenon DEF WordRead
  <2> HIDE DEF i, s, j
  <2>4. NameQuotes(s.mode, v[j]) = g[j] /\ InWord(Add(s.cur, v[j]), SubSeq(v, 1, j))
    <3>1. <<g[j - 1], v[j], g[j]>> \in LineSteps(C) /\ j \in 1 .. Len(v)
      BY <1>3, <2>1 DEF n
    <3>2. s.mode = g[j - 1] /\ InWord(s.cur, SubSeq(v, 1, j - 1))
      BY <2>1, <2>3, Zenon
    <3> QED BY <1>3, <2>2, <3>1, <3>2, StepInWord
  <2> DEFINE b == Add(s.cur, v[j])
             r == f[i]
             m == g[j]
  <2>5. i \in 1 .. Len(t) /\ r = LineTurn(s, t, i) /\ m = NameQuotes(s.mode, t[i]) /\ b = Add(s.cur, t[i])
    BY <1>7, <2>1, <2>2, <2>4
  <2> HIDE DEF b, r, m
  <2>6. r.mode = m /\ TakesUp(C, s, r, Add(s.cur, t[i]), EndsAt(t, i, m))
    BY <2>2, <2>5, LineTakesUp
  <2>7. f[i].mode = g[j] /\ InWord(b, SubSeq(v, 1, j)) /\ TakesUp(C, s, f[i], b, EndsAt(t, i, g[j]))
    BY <2>4, <2>5, <2>6, Zenon DEF b, r, m
  <2> HIDE DEF b
  <2> QED BY <2>7, Zenon DEF i, s, j
<1> DEFINE S == {k \in Nat : k < n => WordRead(f, g, v, a, k)}
<1>9. 0 \in S
  <2>1. a + 0 = a
    BY <1>2
  <2>2. WordRead(f, g, v, a, 0)
    BY <1>3, <1>6, <1>7, <2>1 DEF WordRead, InWord, Between
  <2> QED BY <2>2
<1>10. ASSUME NEW k \in Nat, k \in S PROVE k + 1 \in S
  <2> SUFFICES ASSUME k + 1 < n PROVE WordRead(f, g, v, a, k + 1)
    OBVIOUS
  <2> DEFINE j == k + 1
             i == a + j
  <2>1. k < n /\ WordRead(f, g, v, a, k)
    BY <1>1, <1>10
  <2>2. PICK b : /\ f[i].mode = g[j] /\ InWord(b, SubSeq(v, 1, j))
                 /\ TakesUp(C, f[a + k], f[i], b, EndsAt(t, i, g[j]))
    BY <1>8, <2>1
  <2>3. /\ j \in 1 .. n /\ j + 1 \in 1 .. n /\ (j + 1) - 1 = j /\ i \in 1 .. l /\ i + 1 \in 1 .. l
        /\ i + 1 = a + (j + 1)
    BY <1>1, <1>2
  <2>4. t[i] = v[j] /\ t[i + 1] = v[j + 1]
    BY <1>2, <2>3
  <2> HIDE DEF i, j
  <2>5. g[j] = "none" => v[j] \notin Apart /\ v[j + 1] \notin Apart
    BY <1>5, <2>3
  <2> DEFINE m == g[j]
  <2>6. m = "none" => t[i] \notin Apart /\ t[i + 1] \notin Apart
    BY <2>4, <2>5
  <2> HIDE DEF m
  <2>7. ~EndsAt(t, i, m)
    BY <1>7, <2>3, <2>6, WordGoesOn
  <2>8. f[i].tokens = f[a + k].tokens /\ f[i].cur = b
    BY <2>2, <2>7, Zenon DEF TakesUp, m
  <2>9. f[i].tokens = f[a].tokens
    BY <2>1, <2>8, Zenon DEF WordRead
  <2>10. WordRead(f, g, v, a, j)
    BY <2>2, <2>8, <2>9, Zenon DEF WordRead, i
  <2> QED BY <2>10 DEF j
<1>11. WordRead(f, g, v, a, n - 1)
  <2>1. n - 1 \in Nat /\ n - 1 < n
    BY <1>1
  <2> HIDE DEF S
  <2>2. n - 1 \in S
    BY <1>9, <1>10, <2>1, SetInduction
  <2> QED BY <2>1, <2>2 DEF S
<1> HIDE DEF S
<1> DEFINE e == a + n
           h == n - 1
<1>12. h \in Nat /\ h < n /\ h + 1 = n
  BY <1>1
<1>13. PICK b : /\ f[e].mode = g[n] /\ InWord(b, SubSeq(v, 1, n))
                /\ TakesUp(C, f[a + h], f[e], b, EndsAt(t, e, g[n]))
  <2> HIDE DEF h
  <2>1. WordRead(f, g, v, a, h)
    BY <1>11 DEF h
  <2>2. LET j == h + 1
        IN  /\ f[a + j].mode = g[j]
            /\ \E b : /\ InWord(b, SubSeq(v, 1, j))
                      /\ TakesUp(C, f[a + h], f[a + j], b, EndsAt(t, a + j, g[j]))
    BY <1>8, <1>12, <2>1
  <2> QED BY <1>12, <2>2, Zenon
<1>14. EndsAt(t, e, g[n])
  <2>1. n \in 1 .. n /\ e \in 1 .. l /\ t[e] = v[n]
    BY <1>1, <1>2
  <2>2. v[n] \notin Apart
    BY <1>3, <1>5, <2>1
  <2>3. t[e] \notin WhiteSpace
    BY <2>1, <2>2 DEF Apart
  <2>4. e + 1 \in 1 .. l => t[e + 1] \in WhiteSpace
    BY <1>2
  <2> HIDE DEF e
  <2>5. EndsAt(t, e, "none")
    BY <1>7, <2>1, <2>3, <2>4, WordStops
  <2> QED BY <1>3, <2>5, Zenon
<1>15. IsWord(b)
  <2>1. v \in Seq(C) /\ v # <<>> /\ InWord(b, v) /\ \A i \in 1 .. Len(v) : v[i] \notin Never
    BY <1>5, <1>6, <1>13 DEF n
  <2> QED BY <2>1, WordIsWord
<1>16. /\ f[e].cur.value = <<>>
       /\ \E x \in TokenSet(C) : f[e].tokens = Append(f[a + h].tokens, x) /\ x.value = b.value /\ (x.isWord <=> IsWord(b))
  BY <1>13, <1>14, Zenon DEF TakesUp
<1>17. f[a + h].tokens = f[a].tokens /\ b.value = v
  BY <1>6, <1>11, <1>13, Zenon DEF WordRead, InWord
<1>18. \E x \in TokenSet(C) : f[e].tokens = Append(f[a].tokens, x) /\ x.value = v /\ x.isWord
  <2> HIDE DEF e, h
  <2> QED BY <1>15, <1>16, <1>17
<1>19. Between(f[e])
  BY <1>3, <1>13, <1>16, Zenon DEF Between
<1> QED BY <1>18, <1>19, Zenon DEF e, n

\* And so is a blank between two words.
LEMMA BlankScanned ==
  ASSUME NEW C, NEW t \in Seq(C), NEW f, LineOf(C, t, f), NEW i \in 1 .. Len(t), Between(f[i - 1]),
         t[i] \in WhiteSpace, i + 1 \in 1 .. Len(t) => t[i + 1] \notin WhiteSpace
  PROVE  Between(f[i]) /\ \E x \in TokenSet(C) : f[i].tokens = Append(f[i - 1].tokens, x) /\ Len(x.value) = 1 /\ ~x.isWord
<1> DEFINE s == f[i - 1]
           r == f[i]
           c == t[i]
           b == Add(s.cur, c)
<1>1. s \in LineSet(C) /\ r = LineTurn(s, t, i) /\ c \in C
  <2>1. i - 1 \in 0 .. Len(t)
    OBVIOUS
  <2> QED BY <2>1 DEF LineOf
<1>2. s.cur \in BufferSet(C) /\ s.cur.value = <<>> /\ s.mode = "none"
  BY <1>1 DEF Between, LineSet, ScanSet
<1>3. NameQuotes(s.mode, c) = "none"
  <2>1. c # "\"" /\ c # BackTick /\ c # "["
    BY DEF WhiteSpace, BackTick
  <2> HIDE DEF c, s
  <2> QED BY <1>2, <2>1, NoneStays
<1>4. EndsAt(t, i, "none")
  <2>1. i + 1 \in 1 .. Len(t) => ~(t[i] \in WhiteSpace <=> t[i + 1] \in WhiteSpace)
    OBVIOUS
  <2> QED BY <2>1, WordStops
<1>5. b.value = Append(<<>>, c) /\ ~IsWord(b)
  <2> DEFINE x == s.cur
  <2>1. x \in BufferSet(C) /\ x.value = <<>> /\ c \in C /\ c \in WhiteSpace
    BY <1>1, <1>2
  <2> HIDE DEF x, c
  <2>2. Add(x, c).value = Append(x.value, c)
    BY <2>1, AddBuffer
  <2>3. ~IsWord(Add(x, c))
    BY <2>1, BlankIsNoWord
  <2> QED BY <2>1, <2>2, <2>3, Zenon DEF x
<1>6. r.mode = "none" /\ TakesUp(C, s, r, b, EndsAt(t, i, "none"))
  <2> HIDE DEF s, r
  <2> QED BY <1>1, <1>3, LineTakesUp
<1> HIDE DEF s, r, b
<1>7. r.cur.value = <<>> /\ \E x \in TokenSet(C) : r.tokens = Append(s.tokens, x) /\ x.value = b.value /\ (x.isWord <=> IsWord(b))
  BY <1>4, <1>6, Zenon DEF TakesUp
<1>8. Len(b.value) = 1
  BY <1>1, <1>5
<1>9. \E x \in TokenSet(C) : r.tokens = Append(s.tokens, x) /\ Len(x.value) = 1 /\ ~x.isWord
  BY <1>5, <1>7, <1>8
<1>10. Between(r)
  BY <1>6, <1>7, Zenon DEF Between
<1> QED BY <1>9, <1>10, Zenon DEF s, r

\* One more token.
MoreBy(C, p, m, x, q) ==
  /\ q \in Seq(TokenSet(C)) /\ Len(q) = m + 1 /\ q[m + 1] = x
  /\ \A k \in 1 .. m : q[k] = p[k]
  /\ \A k \in 0 .. m : EndOf(q, k) = EndOf(p, k)
  /\ EndOf(q, m + 1) = EndOf(p, m) + Len(x.value)

\* Appending a token leaves the ends of the others.
LEMMA OneMore ==
  ASSUME NEW C, NEW p \in Seq(TokenSet(C)), NEW x \in TokenSet(C), NEW q, q = Append(p, x)
  PROVE  MoreBy(C, p, Len(p), x, q)
<1> DEFINE m == Len(p)
<1>1. /\ \A k \in 0 .. Len(p) : EndOf(Append(p, x), k) = EndOf(p, k) /\ EndOf(p, k) \in Nat
      /\ EndOf(p, Len(p)) = Len(TextOf(p))
      /\ EndOf(Append(p, x), Len(p) + 1) = Len(TextOf(p)) + Len(x.value)
  BY TokensValued, EndsAppend
<1>2. q \in Seq(TokenSet(C)) /\ Len(q) = m + 1 /\ q[m + 1] = x /\ \A k \in 1 .. m : q[k] = p[k]
  OBVIOUS
<1>3. \A k \in 0 .. m : EndOf(q, k) = EndOf(p, k)
  BY <1>1
<1>4. EndOf(q, m + 1) = EndOf(p, m) + Len(x.value)
  BY <1>1
<1> HIDE DEF m
<1>5. MoreBy(C, p, m, x, q)
  BY <1>2, <1>3, <1>4 DEF MoreBy
<1> QED BY <1>5 DEF m

\* A word v between two others, and the blanks between them.
Framed(p, v) ==
  /\ Len(p) = 5 /\ ~p[2].isWord /\ p[3].isWord /\ p[3].value = v /\ ~p[4].isWord
  /\ EndOf(p, 0) = 0 /\ EndOf(p, 1) = 1 /\ EndOf(p, 2) = 2 /\ EndOf(p, 3) = 2 + Len(v)
  /\ EndOf(p, 4) = 3 + Len(v) /\ EndOf(p, 5) = 4 + Len(v)

\* Five such tokens frame the word.
LEMMA FiveFrame ==
  ASSUME NEW C, NEW v \in Seq(C),
         NEW x1 \in TokenSet(C), NEW x2 \in TokenSet(C), NEW x3 \in TokenSet(C), NEW x4 \in TokenSet(C), NEW x5 \in TokenSet(C),
         Len(x1.value) = 1, Len(x2.value) = 1, ~x2.isWord, x3.value = v, x3.isWord,
         Len(x4.value) = 1, ~x4.isWord, Len(x5.value) = 1,
         NEW p0, p0 = <<>>, NEW p1, p1 = Append(p0, x1), NEW p2, p2 = Append(p1, x2), NEW p3, p3 = Append(p2, x3),
         NEW p4, p4 = Append(p3, x4), NEW p5, p5 = Append(p4, x5)
  PROVE  Framed(p5, v)
<1>1. p0 \in Seq(TokenSet(C)) /\ 0 = Len(p0) /\ EndOf(p0, 0) = 0
  <2>1. p0 \in Seq(TokenSet(C)) /\ 0 = Len(p0)
    OBVIOUS
  <2>2. EndOf(p0, 0) = 0
    BY <2>1, FilledTokens, EndsGrow
  <2> QED BY <2>1, <2>2
<1>2. /\ p1 \in Seq(TokenSet(C)) /\ 1 = Len(p1)
      /\ EndOf(p1, 0) = 0 /\ EndOf(p1, 1) = 1
  <2>1. MoreBy(C, p0, 0, x1, p1)
    <3>1. MoreBy(C, p0, Len(p0), x1, p1)
      BY <1>1, OneMore
    <3> QED BY <1>1, <3>1, Zenon
  <2> QED BY <1>1, <2>1 DEF MoreBy
<1>3. /\ p2 \in Seq(TokenSet(C)) /\ 2 = Len(p2)
      /\ EndOf(p2, 0) = 0 /\ EndOf(p2, 1) = 1 /\ EndOf(p2, 2) = 2 /\ p2[2] = x2
  <2>1. MoreBy(C, p1, 1, x2, p2)
    <3>1. MoreBy(C, p1, Len(p1), x2, p2)
      BY <1>2, OneMore
    <3> QED BY <1>2, <3>1, Zenon
  <2> QED BY <1>2, <2>1 DEF MoreBy
<1>4. /\ p3 \in Seq(TokenSet(C)) /\ 3 = Len(p3)
      /\ EndOf(p3, 0) = 0 /\ EndOf(p3, 1) = 1 /\ EndOf(p3, 2) = 2 /\ EndOf(p3, 3) = 2 + Len(v)
      /\ p3[2] = x2 /\ p3[3] = x3
  <2>1. MoreBy(C, p2, 2, x3, p3)
    <3>1. MoreBy(C, p2, Len(p2), x3, p3)
      BY <1>3, OneMore
    <3> QED BY <1>3, <3>1, Zenon
  <2> QED BY <1>3, <2>1 DEF MoreBy
<1>5. Len(v) \in Nat
  OBVIOUS
<1>6. /\ p4 \in Seq(TokenSet(C)) /\ 4 = Len(p4)
      /\ EndOf(p4, 0) = 0 /\ EndOf(p4, 1) = 1 /\ EndOf(p4, 2) = 2 /\ EndOf(p4, 3) = 2 + Len(v) /\ EndOf(p4, 4) = 3 + Len(v)
      /\ p4[2] = x2 /\ p4[3] = x3 /\ p4[4] = x4
  <2>1. MoreBy(C, p3, 3, x4, p4)
    <3>1. MoreBy(C, p3, Len(p3), x4, p4)
      BY <1>4, OneMore
    <3> QED BY <1>4, <3>1, Zenon
  <2> QED BY <1>4, <1>5, <2>1 DEF MoreBy
<1>7. /\ p5 \in Seq(TokenSet(C)) /\ 5 = Len(p5)
      /\ EndOf(p5, 0) = 0 /\ EndOf(p5, 1) = 1 /\ EndOf(p5, 2) = 2 /\ EndOf(p5, 3) = 2 + Len(v) /\ EndOf(p5, 4) = 3 + Len(v)
      /\ EndOf(p5, 5) = 4 + Len(v)
      /\ p5[2] = x2 /\ p5[3] = x3 /\ p5[4] = x4
  <2>1. MoreBy(C, p4, 4, x5, p5)
    <3>1. MoreBy(C, p4, Len(p4), x5, p5)
      BY <1>6, OneMore
    <3> QED BY <1>6, <3>1, Zenon
  <2> QED BY <1>5, <1>6, <2>1 DEF MoreBy
<1> QED BY <1>7 DEF Framed

\* The cursor on it, or at one of its ends, is on no other word.
LEMMA OnlyWordAt ==
  ASSUME NEW p, NEW C, NEW v \in Seq(C), Framed(p, v), NEW col \in 3 .. Len(v) + 3
  PROVE  At(p, 3, col) /\ \A k \in 1 .. Len(p) : p[k].isWord /\ At(p, k, col) => k = 3
<1> DEFINE n == Len(v)
           E(k) == EndOf(p, k)
<1>1. n \in Nat /\ col \in Int /\ col >= 3 /\ col <= n + 3
  OBVIOUS
<1>2. /\ Len(p) = 5 /\ ~p[2].isWord /\ ~p[4].isWord
      /\ E(1) = 1 /\ E(2) = 2 /\ E(3) = 2 + n /\ E(4) = 3 + n
  BY DEF Framed
<1>3. \A k : At(p, k, col) <=> k \in 1 .. 5 /\ E(k - 1) + 1 <= col /\ col <= E(k) + 1
  BY <1>2 DEF At
<1> HIDE DEF n, E
<1>4. At(p, 3, col)
  <2>1. 3 - 1 = 2 /\ 3 \in 1 .. 5
    OBVIOUS
  <2>2. E(3 - 1) = 2
    BY <1>2, <2>1
  <2> QED BY <1>1, <1>2, <1>3, <2>1, <2>2
<1>5. ~At(p, 1, col)
  BY <1>1, <1>2, <1>3
<1>6. ~At(p, 5, col)
  <2>1. E(5 - 1) = 3 + n
    BY <1>2
  <2> QED BY <1>1, <1>3, <2>1
<1>7. ASSUME NEW k \in 1 .. Len(p), p[k].isWord, At(p, k, col) PROVE k = 3
  <2>1. k \in {1, 2, 3, 4, 5}
    BY <1>2
  <2> QED BY <1>2, <1>5, <1>6, <1>7, <2>1
<1> QED BY <1>4, <1>7

\* Three texts in a row, character by character.
InARow(C, u, v, w) ==
  /\ u \in Seq(C) /\ Len(u) = Len(v) + Len(w)
  /\ \A i \in 1 .. Len(v) : u[i] = v[i]
  /\ \A i \in 1 .. Len(w) : u[Len(v) + i] = w[i]

LEMMA BothJoined ==
  ASSUME NEW C, NEW v \in Seq(C), NEW w \in Seq(C)
  PROVE  InARow(C, v \o w, v, w)
BY TwoJoined DEF InARow

\* A text between two others of two characters.
FrameOf(C, t, v, x, y) ==
  /\ t \in Seq(C) /\ Len(t) = Len(v) + 4 /\ t[1] = x /\ t[2] = y
  /\ t[Len(v) + 3] = y /\ t[Len(v) + 4] = x
  /\ \A j \in 1 .. Len(v) : t[2 + j] = v[j]

\* The line is such a text.
LEMMA FramedText ==
  ASSUME NEW C, NEW v \in Seq(C), NEW x \in C, NEW y \in C, NEW t, t = <<x, y>> \o v \o <<y, x>>
  PROVE  FrameOf(C, t, v, x, y)
<1> DEFINE a == <<x, y>>
           b == <<y, x>>
           n == Len(v)
<1>1. a \in Seq(C) /\ Len(a) = 2 /\ a[1] = x /\ a[2] = y /\ b \in Seq(C) /\ Len(b) = 2 /\ b[1] = y /\ b[2] = x
  OBVIOUS
<1>2. t = (a \o v) \o b
  OBVIOUS
<1>3. n \in Nat
  OBVIOUS
<1> HIDE DEF a, b
<1> DEFINE u == a \o v
<1>4. /\ u \in Seq(C) /\ Len(u) = 2 + n
      /\ \A i \in 1 .. 2 : u[i] = a[i]
      /\ \A i \in 1 .. n : u[2 + i] = v[i]
  <2>1. InARow(C, u, a, v)
    BY <1>1, BothJoined
  <2> HIDE DEF u
  <2> QED BY <1>1, <2>1 DEF InARow, n
<1>5. t = u \o b
  BY <1>2
<1> HIDE DEF u, n
<1>6. /\ t \in Seq(C) /\ Len(t) = Len(u) + 2
      /\ \A i \in 1 .. Len(u) : t[i] = u[i]
      /\ \A i \in 1 .. 2 : t[Len(u) + i] = b[i]
  <2>1. InARow(C, u \o b, u, b)
    BY <1>1, <1>4, BothJoined
  <2>2. InARow(C, t, u, b)
    BY <1>5, <2>1, Zenon
  <2> QED BY <1>1, <2>2 DEF InARow
<1>7. t[1] = x /\ t[2] = y
  <2>1. 1 \in 1 .. 2 /\ 2 \in 1 .. 2 /\ 1 \in 1 .. Len(u) /\ 2 \in 1 .. Len(u)
    BY <1>3, <1>4
  <2> QED BY <1>1, <1>4, <1>6, <2>1
<1>8. t[n + 3] = y /\ t[n + 4] = x
  <2>1. 1 \in 1 .. 2 /\ 2 \in 1 .. 2 /\ Len(u) + 1 = n + 3 /\ Len(u) + 2 = n + 4
    BY <1>3, <1>4
  <2>2. t[Len(u) + 1] = y /\ t[Len(u) + 2] = x
    BY <1>1, <1>6, <2>1
  <2> QED BY <2>1, <2>2
<1>9. ASSUME NEW j \in 1 .. n PROVE t[2 + j] = v[j]
  <2>1. 2 + j \in 1 .. Len(u)
    BY <1>3, <1>4
  <2> QED BY <1>4, <1>6, <2>1
<1>10. Len(t) = n + 4
  BY <1>3, <1>4, <1>6
<1> QED BY <1>6, <1>7, <1>8, <1>9, <1>10 DEF n, FrameOf

\* A word that leads the scanner from outside of quotes to outside of quotes.
WordIn(C, v) == v \in Seq(C) /\ v # <<>> /\ Leads(v, LineSteps(C), LineModes, "none", "none")

\* No character of a word is a parenthesis, a comma or the end of a line, and its first is no blank.
LEMMA WordChars ==
  ASSUME NEW C, NEW v, WordIn(C, v)
  PROVE  v[1] \notin Apart /\ \A j \in 1 .. Len(v) : v[j] \notin Never
<1> DEFINE n == Len(v)
<1>1. n \in Nat /\ n > 0
  BY DEF WordIn
<1>2. PICK g \in [0 .. n -> LineModes] :
        g[0] = "none" /\ g[n] = "none" /\ \A j \in 1 .. n : <<g[j - 1], v[j], g[j]>> \in LineSteps(C)
  BY DEF Leads, WordIn
<1> HIDE DEF n
<1>3. ASSUME NEW j \in 1 .. n PROVE v[j] \notin Never /\ (g[j - 1] = "none" => v[j] \notin Apart)
  <2>1. <<g[j - 1], v[j], g[j]>> \in LineSteps(C)
    BY <1>2
  <2> QED BY <2>1, LineStep
<1>4. v[1] \notin Apart
  <2>1. 1 \in 1 .. n /\ 1 - 1 = 0
    BY <1>1
  <2> QED BY <1>2, <1>3, <2>1
<1> QED BY <1>3, <1>4 DEF n

\* The words around it.
LEMMA XIsWord ==
  ASSUME NEW C, "x" \in C
  PROVE  WordIn(C, <<"x">>) /\ Len(<<"x">>) = 1 /\ <<"x">>[1] = "x" /\ "x" \notin WhiteSpace /\ "x" # "\n"
<1> DEFINE x == "x"
<1>1. x # "\"" /\ x # BackTick /\ x # "[" /\ x \notin WhiteSpace /\ x # "\n" /\ x \notin Apart /\ x \notin Never
  BY DEF BackTick, WhiteSpace, Apart, Never, Parenthesis, Comma, Semicolon, Operator
<1>2. x \in C
  OBVIOUS
<1> HIDE DEF x
<1>3. NameQuotes("none", x) = "none"
  BY <1>1, NoneStays
<1>4. "none" \in LineModes
  BY DEF LineModes
<1>5. <<"none", x, "none">> \in LineSteps(C)
  BY <1>1, <1>2, <1>3, <1>4, LineStep
<1>6. <<x>> \in Seq(C) /\ <<x>> # <<>> /\ Len(<<x>>) = 1 /\ <<x>>[1] = x
  BY <1>2
<1>7. Leads(<<x>>, LineSteps(C), LineModes, "none", "none")
  <2> DEFINE v == <<x>>
  <2>1. v \in Seq(C) /\ Len(v) = 1 /\ v[1] = x
    BY <1>6
  <2> HIDE DEF v
  <2>2. <<"none", v[1], "none">> \in LineSteps(C)
    BY <1>5, <2>1
  <2>3. Leads(v, LineSteps(C), LineModes, "none", "none")
    BY <1>4, <2>1, <2>2, OneLeads
  <2> QED BY <2>3 DEF v
<1> QED BY <1>1, <1>6, <1>7, Zenon DEF x, WordIn

\* The next token is a word v, or a blank.
TakesWord(C, t, f, a, e, v) ==
  Between(f[e]) /\ \E x \in TokenSet(C) : f[e].tokens = Append(f[a].tokens, x) /\ x.value = v /\ x.isWord
TakesBlank(C, t, f, a, e) ==
  Between(f[e]) /\ \E x \in TokenSet(C) : f[e].tokens = Append(f[a].tokens, x) /\ Len(x.value) = 1 /\ ~x.isWord

\* The scan from one token to the next.
LEMMA WordTaken ==
  ASSUME NEW C, NEW t \in Seq(C), NEW f, LineOf(C, t, f), NEW v, WordIn(C, v), NEW a, StandsAt(t, a, v),
         Between(f[a]), NEW e, e = a + Len(v)
  PROVE  TakesWord(C, t, f, a, e, v)
<1>1. v \in Seq(C) /\ v # <<>> /\ Leads(v, LineSteps(C), LineModes, "none", "none")
  BY DEF WordIn
<1>2. LET r == f[a + Len(v)]
      IN  Between(r) /\ \E x \in TokenSet(C) : r.tokens = Append(f[a].tokens, x) /\ x.value = v /\ x.isWord
  BY <1>1, WordScanned
<1> QED BY <1>2, Zenon DEF TakesWord

LEMMA BlankTaken ==
  ASSUME NEW C, NEW t \in Seq(C), NEW f, LineOf(C, t, f), NEW e \in 1 .. Len(t), NEW a, a = e - 1, Between(f[a]),
         t[e] \in WhiteSpace, t[e + 1] \notin WhiteSpace
  PROVE  TakesBlank(C, t, f, a, e)
<1>1. Between(f[e - 1])
  OBVIOUS
<1>2. Between(f[e]) /\ \E x \in TokenSet(C) : f[e].tokens = Append(f[e - 1].tokens, x) /\ Len(x.value) = 1 /\ ~x.isWord
  BY <1>1, BlankScanned
<1> QED BY <1>2, Zenon DEF TakesBlank

\* A word between two others of one character.
LEMMA FramedScan ==
  ASSUME NEW C, NEW t \in Seq(C), NEW v, WordIn(C, v), NEW w, WordIn(C, w), Len(w) = 1,
         NEW n \in Nat, n = Len(v), FrameOf(C, t, v, w[1], t[2]), StandsAt(t, 0, w), StandsAt(t, 2, v), StandsAt(t, n + 3, w),
         t[2] \in WhiteSpace, v[1] \notin WhiteSpace, w[1] \notin WhiteSpace, n > 0
  PROVE  Framed(TokenizeLine(t), v)
<1> DEFINE l == Len(t)
           a == n + 3
           b == n + 2
<1>1. PICK f : LineOf(C, t, f) /\ f[0] = Start /\ TokenizeLine(t) = f[l].tokens
  <2>1. \E f \in [0 .. Len(t) -> LineSet(C)] :
           /\ f[0] = Start /\ \A i \in 1 .. Len(t) : f[i] = LineTurn(f[i - 1], t, i)
           /\ TokenizeLine(t) = f[Len(t)].tokens
    BY LineScanned
  <2> QED BY <2>1, Zenon DEF LineOf
<1>2. Start.tokens = <<>> /\ Between(Start)
  BY DEF Start, Fresh, Between
<1>3. Between(f[0])
  BY <1>1, <1>2, Zenon
<1>4. 1 = 0 + Len(w) /\ b = 2 + Len(v) /\ l = a + Len(w) /\ l = n + 4
  BY DEF FrameOf
<1>5. 2 \in 1 .. Len(t) /\ 2 - 1 = 1 /\ a \in 1 .. Len(t) /\ a - 1 = b
  BY <1>4
<1>6. t[2 + 1] \notin WhiteSpace
  <2>1. 1 \in 1 .. Len(v)
    OBVIOUS
  <2>2. t[2 + 1] = v[1]
    BY <2>1, Zenon DEF FrameOf
  <2> QED BY <2>2
<1>7. t[a] \in WhiteSpace /\ t[a + 1] \notin WhiteSpace
  <2>1. t[a] = t[2]
    BY Zenon DEF FrameOf
  <2>2. t[n + 4] = w[1] /\ a + 1 = n + 4
    BY DEF FrameOf
  <2> QED BY <2>1, <2>2
<1> HIDE DEF l, a, b
<1>8. StandsAt(t, a, w)
  BY DEF a
\* The five tokens.
<1>9. TakesWord(C, t, f, 0, 1, w)
  BY <1>1, <1>3, <1>4, WordTaken
<1>10. TakesBlank(C, t, f, 1, 2)
  <2> DEFINE e == 2
             d == 1
  <2>1. e \in 1 .. Len(t) /\ d = e - 1 /\ t[e] \in WhiteSpace /\ t[e + 1] \notin WhiteSpace
    BY <1>5, <1>6
  <2>2. Between(f[d])
    BY <1>9, Zenon DEF TakesWord
  <2> HIDE DEF e, d
  <2>3. TakesBlank(C, t, f, d, e)
    BY <1>1, <2>1, <2>2, BlankTaken
  <2> QED BY <2>3, Zenon DEF e, d
<1>11. TakesWord(C, t, f, 2, b, v)
  <2>1. Between(f[2])
    BY <1>10, Zenon DEF TakesBlank
  <2> QED BY <1>1, <1>4, <2>1, WordTaken
<1>12. TakesBlank(C, t, f, b, a)
  <2>1. Between(f[b])
    BY <1>11, Zenon DEF TakesWord
  <2>2. a \in 1 .. Len(t) /\ b = a - 1
    BY <1>5
  <2> QED BY <1>1, <1>7, <2>1, <2>2, BlankTaken
<1>13. TakesWord(C, t, f, a, l, w)
  <2>1. Between(f[a])
    BY <1>12, Zenon DEF TakesBlank
  <2> QED BY <1>1, <1>4, <1>8, <2>1, WordTaken
<1>14. PICK x1 \in TokenSet(C) : f[1].tokens = Append(f[0].tokens, x1) /\ x1.value = w
  BY <1>9 DEF TakesWord
<1>15. PICK x2 \in TokenSet(C) : f[2].tokens = Append(f[1].tokens, x2) /\ Len(x2.value) = 1 /\ ~x2.isWord
  BY <1>10 DEF TakesBlank
<1>16. PICK x3 \in TokenSet(C) : f[b].tokens = Append(f[2].tokens, x3) /\ x3.value = v /\ x3.isWord
  BY <1>11 DEF TakesWord
<1>17. PICK x4 \in TokenSet(C) : f[a].tokens = Append(f[b].tokens, x4) /\ Len(x4.value) = 1 /\ ~x4.isWord
  BY <1>12 DEF TakesBlank
<1>18. PICK x5 \in TokenSet(C) : f[l].tokens = Append(f[a].tokens, x5) /\ x5.value = w
  BY <1>13 DEF TakesWord
<1> DEFINE p0 == f[0].tokens
           p1 == f[1].tokens
           p2 == f[2].tokens
           p3 == f[b].tokens
           p4 == f[a].tokens
           p5 == f[l].tokens
<1>19. Len(x1.value) = 1 /\ Len(x5.value) = 1 /\ p0 = <<>>
  BY <1>1, <1>2, <1>14, <1>18, Zenon
<1>20. p1 = Append(p0, x1) /\ p2 = Append(p1, x2) /\ p3 = Append(p2, x3) /\ p4 = Append(p3, x4) /\ p5 = Append(p4, x5)
  BY <1>14, <1>15, <1>16, <1>17, <1>18, Zenon
<1> HIDE DEF p0, p1, p2, p3, p4, p5
<1>21. v \in Seq(C)
  BY DEF WordIn
<1>22. Framed(p5, v)
  BY <1>15, <1>16, <1>17, <1>19, <1>20, <1>21, FiveFrame
<1> QED BY <1>1, <1>22, Zenon DEF p5

\* The places of the words of such a line.
LEMMA FramePlaces ==
  ASSUME NEW C, NEW t, NEW v \in Seq(C), NEW x, NEW y, FrameOf(C, t, v, x, y), NEW w, Len(w) = 1, w[1] = x, y \in WhiteSpace
  PROVE  StandsAt(t, 0, w) /\ StandsAt(t, 2, v) /\ StandsAt(t, Len(v) + 3, w)
<1> DEFINE n == Len(v)
<1>1. /\ n \in Nat /\ t \in Seq(C) /\ Len(t) = n + 4 /\ t[1] = x /\ t[2] = y /\ t[n + 3] = y /\ t[n + 4] = x
      /\ \A j \in 1 .. n : t[2 + j] = v[j]
  BY DEF FrameOf
<1>2. StandsAt(t, 0, w)
  <2>1. 0 \in 0 .. Len(t) /\ 0 + Len(w) <= Len(t) /\ 0 + Len(w) + 1 = 2
    BY <1>1
  <2>2. \A j \in 1 .. Len(w) : t[0 + j] = w[j]
    BY <1>1
  <2> QED BY <1>1, <2>1, <2>2 DEF StandsAt
<1>3. StandsAt(t, 2, v)
  <2>1. 2 \in 0 .. Len(t) /\ 2 + Len(v) <= Len(t) /\ 2 + Len(v) + 1 = n + 3
    BY <1>1
  <2> QED BY <1>1, <2>1 DEF StandsAt
<1>4. StandsAt(t, n + 3, w)
  <2>1. n + 3 \in 0 .. Len(t) /\ (n + 3) + Len(w) <= Len(t) /\ ~((n + 3) + Len(w) + 1 \in 1 .. Len(t))
    BY <1>1
  <2>2. \A j \in 1 .. Len(w) : t[(n + 3) + j] = w[j]
    <3> SUFFICES ASSUME NEW j \in 1 .. Len(w) PROVE t[(n + 3) + j] = w[j]
      OBVIOUS
    <3>1. j = 1 /\ (n + 3) + j = n + 4
      BY <1>1
    <3> QED BY <1>1, <3>1
  <2> HIDE DEF n
  <2> QED BY <2>1, <2>2 DEF StandsAt
<1> QED BY <1>2, <1>3, <1>4

\* A text without a character, and a line around it.
Lacks(t, z) == \A i \in DOMAIN t : t[i] # z

LEMMA FrameLacks ==
  ASSUME NEW C, NEW t, NEW v \in Seq(C), NEW x, NEW y, FrameOf(C, t, v, x, y), NEW z, x # z, y # z, Lacks(v, z)
  PROVE  Lacks(t, z)
<1> DEFINE n == Len(v)
<1>1. /\ n \in Nat /\ t \in Seq(C) /\ Len(t) = n + 4 /\ t[1] = x /\ t[2] = y /\ t[n + 3] = y /\ t[n + 4] = x
      /\ \A j \in 1 .. n : t[2 + j] = v[j]
  BY DEF FrameOf
<1>2. \A j \in 1 .. n : v[j] # z
  BY DEF Lacks
<1>3. DOMAIN t = 1 .. n + 4
  BY <1>1
<1> HIDE DEF n
<1>4. ASSUME NEW i \in 1 .. n + 4 PROVE t[i] # z
  <2>1. i = 1 \/ i = 2 \/ i = n + 3 \/ i = n + 4 \/ i - 2 \in 1 .. n
    BY <1>1
  <2>2. ASSUME i - 2 \in 1 .. n PROVE t[i] # z
    <3> DEFINE j == i - 2
    <3>1. j \in 1 .. n /\ 2 + j = i
      BY <2>2
    <3> HIDE DEF j
    <3> QED BY <1>1, <1>2, <3>1
  <2> QED BY <1>1, <2>1, <2>2
<1> QED BY <1>3, <1>4, Zenon DEF Lacks

\* Facts about texts.
LEMMA NotEmpty ==
  ASSUME NEW C, NEW v \in Seq(C), v # <<>>
  PROVE  Len(v) \in Nat /\ Len(v) > 0
OBVIOUS

LEMMA SpanOf ==
  ASSUME NEW C, NEW v \in Seq(C)
  PROVE  DOMAIN v = 1 .. Len(v)
OBVIOUS

\* A line with a name between two other words.
LineWith(v) == <<"x", " ">> \o v \o <<" ", "x">>

\* Its tokens are the name, two words and two blanks.
LEMMA LineFramed ==
  ASSUME NEW C, "x" \in C, " " \in C, NEW v, WordIn(C, v)
  PROVE  LineWith(v) \in Seq(C) /\ Len(LineWith(v)) = Len(v) + 4 /\ OneLine(LineWith(v)) /\ Framed(TokenizeLine(LineWith(v)), v)
<1> DEFINE x == "x"
           y == " "
           z == "\n"
           w == <<x>>
           t == LineWith(v)
           n == Len(v)
<1>1. WordIn(C, w) /\ Len(w) = 1 /\ w[1] = x /\ x \notin WhiteSpace /\ x # z
  BY XIsWord, Zenon
<1>2. y \in WhiteSpace /\ y # z /\ x \in C /\ y \in C
  BY DEF WhiteSpace
<1>3. t = <<x, y>> \o v \o <<y, x>>
  BY Zenon DEF LineWith
<1>4. v \in Seq(C) /\ v # <<>>
  BY DEF WordIn
<1>5. v[1] \notin WhiteSpace /\ Lacks(v, z)
  <2>1. v[1] \notin Apart /\ \A j \in 1 .. Len(v) : v[j] \notin Never
    BY WordChars
  <2>2. DOMAIN v = 1 .. Len(v)
    BY <1>4, SpanOf
  <2> QED BY <2>1, <2>2 DEF Apart, Never, Lacks
<1> HIDE DEF x, y, z, w, t
<1>6. n \in Nat /\ n > 0 /\ n = Len(v)
  BY <1>4, NotEmpty
<1>7. FrameOf(C, t, v, x, y)
  BY <1>2, <1>3, <1>4, FramedText
<1>8. StandsAt(t, 0, w) /\ StandsAt(t, 2, v) /\ StandsAt(t, Len(v) + 3, w)
  BY <1>1, <1>2, <1>4, <1>7, FramePlaces
<1>9. Lacks(t, z)
  BY <1>1, <1>2, <1>4, <1>5, <1>7, FrameLacks
<1>10. t \in Seq(C) /\ Len(t) = Len(v) + 4 /\ t[2] = y
  BY <1>7, Zenon DEF FrameOf
<1>11. Framed(TokenizeLine(t), v)
  <2>1. StandsAt(t, n + 3, w)
    BY <1>8, Zenon
  <2>2. FrameOf(C, t, v, w[1], t[2])
    BY <1>1, <1>7, <1>10, Zenon
  <2>3. t[2] \in WhiteSpace /\ w[1] \notin WhiteSpace
    BY <1>1, <1>2, <1>10, Zenon
  <2> HIDE DEF n
  <2> QED BY <1>1, <1>5, <1>6, <1>8, <1>10, <2>1, <2>2, <2>3, FramedScan
<1> QED BY <1>9, <1>10, <1>11, Zenon DEF t, z, OneLine, Lacks

\* The bounds of the line, and of its tokens.
LEMMA WithinLine == ASSUME NEW n \in Nat, NEW m, m = n + 4, NEW col \in 3 .. n + 3 PROVE col \in 1 .. m + 1
OBVIOUS

LEMMA FiveTokens == ASSUME NEW p, Len(p) = 5 PROVE 3 \in 1 .. Len(p) /\ p # <<>>
<1>1. 3 \in 1 .. Len(p)
  OBVIOUS
<1>2. Len(<<>>) = 0
  OBVIOUS
<1> QED BY <1>1, <1>2

\* A word between two others is what the cursor finds at it.
LEMMA WordBetween ==
  ASSUME NEW C, "x" \in C, " " \in C, NEW v, WordIn(C, v), NEW col \in 3 .. Len(v) + 3
  PROVE  GetCurrentObject(LineWith(v), col).value = v
<1> DEFINE t == LineWith(v)
           p == TokenizeLine(t)
           o == GetCurrentObject(t, col)
<1>1. t \in Seq(C) /\ Len(t) = Len(v) + 4 /\ OneLine(t) /\ Framed(p, v)
  BY LineFramed
<1>2. v \in Seq(C) /\ v # <<>>
  BY DEF WordIn
<1>3. p = TokenizeLine(t) /\ o = GetCurrentObject(t, col)
  OBVIOUS
<1> HIDE DEF t, p, o
<1>4. Len(p) = 5 /\ p[3].isWord /\ p[3].value = v
  BY <1>1, Zenon DEF Framed
<1>5. p # <<>> /\ col \in 1 .. Len(t) + 1
  <2>1. Len(v) \in Nat
    BY <1>2, NotEmpty
  <2>2. p # <<>>
    BY <1>4, FiveTokens
  <2>3. col \in 1 .. Len(t) + 1
    <3> DEFINE n == Len(v)
    <3>1. n \in Nat /\ col \in 3 .. n + 3 /\ Len(t) = n + 4
      BY <1>1, <2>1
    <3> HIDE DEF n
    <3> QED BY <3>1, WithinLine
  <2> QED BY <2>2, <2>3
<1>6. At(p, 3, col) /\ \A k \in 1 .. Len(p) : p[k].isWord /\ At(p, k, col) => k = 3
  BY <1>1, <1>2, OnlyWordAt
<1>7. (\E k \in 1 .. Len(p) : p[k].isWord /\ At(p, k, col))
        => \E k \in 1 .. Len(p) : o = p[k] /\ p[k].isWord /\ At(p, k, col)
  <2>1. FindsWord(p, o, col)
    BY <1>1, <1>3, <1>5, WordFound
  <2>2. Placed(p)
    BY <1>1, <1>3, TokenizeLineReads
  <2> QED BY <2>1, <2>2 DEF FindsWord, Placed, At
<1>8. 3 \in 1 .. Len(p)
  BY <1>4, FiveTokens
<1>9. PICK k \in 1 .. Len(p) : o = p[k] /\ p[k].isWord /\ At(p, k, col)
  BY <1>6, <1>4, <1>7, <1>8
<1>10. k = 3
  BY <1>6, <1>9
<1>11. o.value = v
  BY <1>4, <1>9, <1>10
<1> QED BY <1>11 DEF o, t

\* Texts behind one another.
LEMMA Glued ==
  ASSUME NEW C, NEW a \in Seq(C), NEW b \in Seq(C)
  PROVE  a \o b \in Seq(C) /\ Len(a \o b) = Len(a) + Len(b) /\ Len(a) \in Nat /\ Len(b) \in Nat
OBVIOUS

LEMMA NotEmptyAround ==
  ASSUME NEW C, NEW a \in Seq(C), NEW b \in Seq(C), NEW c \in C
  PROVE  a \o <<c>> \o b \in Seq(C) /\ a \o <<c>> \o b # <<>>
<1> DEFINE w == <<c>>
<1>1. w \in Seq(C) /\ Len(w) = 1
  OBVIOUS
<1> HIDE DEF w
<1>2. w \o b \in Seq(C) /\ Len(w \o b) = 1 + Len(b) /\ Len(b) \in Nat
  BY <1>1, Glued
<1> DEFINE r == w \o b
<1> HIDE DEF r
<1>3. r \in Seq(C) /\ Len(r) = 1 + Len(b) /\ Len(b) \in Nat
  BY <1>2 DEF r
<1>4. a \o r \in Seq(C) /\ Len(a \o r) = Len(a) + Len(r) /\ Len(a) \in Nat
  BY <1>3, Glued
<1>5. a \o r # <<>>
  BY <1>3, <1>4
<1>6. a \o w \o b = a \o r
  BY <1>1 DEF r
<1> QED BY <1>4, <1>5, <1>6 DEF w

\* A name that is written is a word of a line.
LEMMA NameIsWord ==
  ASSUME NEW C, NEW d \in Dialects, NEW table, Writable(C, table, d)
  PROVE  WordIn(C, Fdqn(table, d))
<1> DEFINE a == Quoted(table.database, d)
           b == Quoted(table.schema, d)
           c == Quoted(table.name, d)
           dot == "."
           w == <<dot>>
           tail == b \o w \o c
<1>1. Fdqn(table, d) \in Seq(C) /\ Leads(Fdqn(table, d), LineSteps(C), LineModes, "none", "none")
  BY NameWritten
<1>2. a \in Seq(C) /\ b \in Seq(C) /\ c \in Seq(C)
  BY PartWritten, Zenon DEF Writable
<1>3. dot \in C
  BY DEF Writable
<1>4. Fdqn(table, d) = IF d.parts = 2 THEN tail ELSE a \o w \o tail
  BY Zenon DEF Fdqn
<1> HIDE DEF a, b, c, dot
<1>5. tail \in Seq(C) /\ tail # <<>>
  BY <1>2, <1>3, NotEmptyAround
<1> HIDE DEF tail
<1>6. a \o w \o tail # <<>>
  BY <1>2, <1>3, <1>5, NotEmptyAround
<1> HIDE DEF w
<1>7. Fdqn(table, d) # <<>>
  BY <1>4, <1>5, <1>6, Zenon
<1> QED BY <1>1, <1>7 DEF WordIn

\* A name that is written is read back.
NameIsBack(C, d, a, b, c) ==
  Writable(C, TableNamed(a, b, c), d) => ParseTableName(Fdqn(TableNamed(a, b, c), d), d, a) = TableNamed(a, b, c)

LEMMA WrittenReadBack == ASSUME NEW C, NEW d \in Dialects, NEW a, NEW b, NEW c PROVE NameIsBack(C, d, a, b, c)
BY NameReadBack DEF NameIsBack

\* The places that are tried.
LEMMA Edges == ASSUME NEW n \in Nat, n > 0, NEW col \in {3, 4, n + 2, n + 3} PROVE col \in 3 .. n + 3
OBVIOUS

\* Object Details reads back the table whose name it finds in a line.
FoundBack(d, database, table) ==
  \A col \in {3, 4, Len(Fdqn(table, d)) + 2, Len(Fdqn(table, d)) + 3} :
    ParseTableName(GetCurrentObject(LineWith(Fdqn(table, d)), col).value, d, database) = table

LEMMA TableOfLine ==
  ASSUME NEW C, "x" \in C, " " \in C, NEW d \in Dialects, NEW a, NEW table, table = TableNamed(a, table.schema, table.name),
         Writable(C, table, d)
  PROVE  FoundBack(d, a, table)
<1> DEFINE v == Fdqn(table, d)
           b == table.schema
           c == table.name
<1>1. WordIn(C, v)
  BY NameIsWord
<1>2. ParseTableName(v, d, a) = table
  <2>1. NameIsBack(C, d, a, b, c)
    BY WrittenReadBack
  <2>2. table = TableNamed(a, b, c)
    OBVIOUS
  <2> HIDE DEF b, c
  <2> QED BY <2>1, <2>2, Zenon DEF NameIsBack
<1> HIDE DEF v, b, c
<1>3. ASSUME NEW col \in {3, 4, Len(v) + 2, Len(v) + 3}
      PROVE  ParseTableName(GetCurrentObject(LineWith(v), col).value, d, a) = table
  <2>1. v \in Seq(C) /\ v # <<>>
    BY <1>1 DEF WordIn
  <2>2. Len(v) \in Nat /\ Len(v) > 0
    BY <2>1, NotEmpty
  <2>3. col \in 3 .. Len(v) + 3
    BY <2>2, Edges
  <2>4. GetCurrentObject(LineWith(v), col).value = v
    BY <1>1, <2>3, WordBetween
  <2> QED BY <1>2, <2>4, Zenon
<1> QED BY <1>3, Zenon DEF FoundBack, v

\* A plain character is a part.
LEMMA OnePart ==
  ASSUME NEW C, NEW d \in Dialects, NEW c \in C, c \in Plain
  PROVE  PartOf(C, <<c>>, d)
<1> DEFINE v == <<c>>
<1>1. v \in Seq(C) /\ v # <<>> /\ Len(v) = 1 /\ v[1] = c
  OBVIOUS
<1> HIDE DEF v
<1>2. c \notin Never
  BY PlainStay
<1>3. c # d.quote
  <2>1. d.quote \in {"\"", BackTick, NoQuote}
    BY DialectKinds
  <2>2. c \in {"a", "b", "s", "d"}
    BY DEF Plain
  <2> QED BY <2>1, <2>2 DEF BackTick, NoQuote
<1>4. \A i \in 1 .. Len(v) : v[i] = c
  BY <1>1
<1> QED BY <1>1, <1>2, <1>3, <1>4 DEF PartOf, v

\* What NameUnderCursor takes for a name is a part of one.
LEMMA TextIsPart ==
  ASSUME NEW C, NEW t \in Seq(C), NEW d \in Dialects, Len(t) \in 1 .. MaxName, OneLine(t),
         IF d.quote = NoQuote THEN Among(t, Plain) ELSE Among(t, AnyChar \ ({d.quote} \cup Parenthesis \cup Comma))
  PROVE  PartOf(C, t, d)
<1>1. DOMAIN t = 1 .. Len(t)
  BY SpanOf
<1>2. t # <<>>
  <2>1. Len(<<>>) = 0
    OBVIOUS
  <2> QED BY <2>1
<1>3. \A i \in 1 .. Len(t) : t[i] # "\n"
  BY <1>1 DEF OneLine
<1>4. ASSUME NEW i \in 1 .. Len(t)
      PROVE  IF d.quote = NoQuote THEN t[i] \in Plain ELSE t[i] # d.quote /\ t[i] \notin Never
  <2>1. IF d.quote = NoQuote THEN t[i] \in Plain ELSE t[i] \notin {d.quote} \cup Parenthesis \cup Comma
    BY <1>1 DEF Among
  <2> QED BY <1>3, <2>1 DEF Never
<1> QED BY <1>2, <1>4 DEF PartOf

\* The table that NameUnderCursor writes.
NamedBy(own, t) == [[kind |-> "table", database |-> <<"d">>, schema |-> <<"s">>, name |-> <<"b">>] EXCEPT ![own] = t]

LEMMA NamedAs ==
  ASSUME NEW own \in {"schema", "name"}, NEW t
  PROVE  \/ NamedBy(own, t) = TableNamed(<<"d">>, t, <<"b">>)
         \/ NamedBy(own, t) = TableNamed(<<"d">>, <<"s">>, t)
<1> DEFINE a == <<"d">>
           b == <<"s">>
           c == <<"b">>
           r == [kind |-> "table", database |-> a, schema |-> b, name |-> c]
<1>1. NamedBy(own, t) = [r EXCEPT ![own] = t]
  BY Zenon DEF NamedBy
<1> HIDE DEF a, b, c
<1>2. [r EXCEPT !["schema"] = t] = TableNamed(a, t, c)
  BY DEF TableNamed
<1>3. [r EXCEPT !["name"] = t] = TableNamed(a, b, t)
  BY DEF TableNamed
<1> HIDE DEF r
<1>4. own = "schema" \/ own = "name"
  OBVIOUS
<1>5. NamedBy(own, t) = TableNamed(a, t, c) \/ NamedBy(own, t) = TableNamed(a, b, t)
  BY <1>1, <1>2, <1>3, <1>4, Zenon
<1> QED BY <1>5, Zenon DEF a, b, c

\* Its other parts are plain.
LEMMA PlainFew == "d" \in Plain /\ "s" \in Plain /\ "b" \in Plain
BY DEF Plain

\* A text over more characters.
LEMMA WiderSeq ==
  ASSUME NEW C, NEW D, C \subseteq D, NEW t \in Seq(C)
  PROVE  t \in Seq(D)
OBVIOUS

\* Each table that has the text for one of its parts is written with the
\* characters of C, and read back.
LEMMA TextTable ==
  ASSUME NEW C, {"d", "s", "b", "x", " ", "."} \subseteq C, NEW d \in Dialects, d.quote \in C, NEW t, PartOf(C, t, d),
         NEW own \in {"schema", "name"}, NEW table, table = NamedBy(own, t)
  PROVE  FoundBack(d, <<"d">>, table)
<1> DEFINE a == <<"d">>
           b == <<"s">>
           c == <<"b">>
<1>1. PartOf(C, a, d) /\ PartOf(C, b, d) /\ PartOf(C, c, d)
  BY PlainFew, OnePart
<1>2. "x" \in C /\ " " \in C /\ "." \in C
  OBVIOUS
<1>3. table = TableNamed(a, t, c) \/ table = TableNamed(a, b, t)
  BY NamedAs, Zenon
<1> HIDE DEF a, b, c
<1>4. ASSUME NEW y, NEW z, PartOf(C, y, d), PartOf(C, z, d), table = TableNamed(a, y, z)
      PROVE  FoundBack(d, a, table)
  <2>1. table.database = a /\ table.schema = y /\ table.name = z
    <3>1. TableNamed(a, y, z).database = a /\ TableNamed(a, y, z).schema = y /\ TableNamed(a, y, z).name = z
      BY DEF TableNamed
    <3> QED BY <1>4, <3>1, Zenon
  <2>2. Writable(C, table, d)
    BY <1>1, <1>2, <1>4, <2>1, Zenon DEF Writable
  <2>3. table = TableNamed(a, table.schema, table.name)
    BY <1>4, <2>1, Zenon
  <2> QED BY <1>2, <2>2, <2>3, TableOfLine
<1>5. FoundBack(d, a, table)
  BY <1>1, <1>3, <1>4, Zenon
<1> QED BY <1>5, Zenon DEF a

\* Every text that is typed.
LEMMA AllNames == TextInv => NameUnderCursor
<1> SUFFICES ASSUME TextInv, NEW d \in Dialects, Len(text) \in 1 .. MaxName, OneLine(text),
                    IF d.quote = NoQuote THEN Among(text, Plain)
                    ELSE Among(text, AnyChar \ ({d.quote} \cup Parenthesis \cup Comma)),
                    NEW own \in {"schema", "name"}
             PROVE  FoundBack(d, <<"d">>, NamedBy(own, text))
  BY Zenon DEF NameUnderCursor, NamedBy, LineWith, FoundBack
<1> DEFINE C == keys.chars \cup {"d", "s", "b", "x", " ", ".", d.quote}
           table == NamedBy(own, text)
<1>1. {"d", "s", "b", "x", " ", "."} \subseteq C /\ d.quote \in C /\ keys.chars \subseteq C
  OBVIOUS
<1>2. table = NamedBy(own, text)
  OBVIOUS
<1> HIDE DEF C, table
<1>3. text \in Seq(C)
  BY <1>1, WiderSeq DEF TextInv
<1>4. PartOf(C, text, d)
  BY <1>3, TextIsPart
<1>5. FoundBack(d, <<"d">>, table)
  BY <1>1, <1>2, <1>4, TextTable
<1> QED BY <1>2, <1>5, Zenon

\* The word that Object Details finds at the cursor is the whole name of a table,
\* and is read as that table (getCurrentObject of monaco.ts, fdqn of schema.ts and
\* parseTableName of connection.ts).
THEOREM NameLeadsToItsTable == Spec => []NameUnderCursor
BY TextOfKeys, AllNames, PTL
=============================================================================

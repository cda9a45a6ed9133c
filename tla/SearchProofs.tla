---------------------------- MODULE SearchProofs ----------------------------
(***************************************************************************)
(* The theorem about what is searched for in Editor: its words, the rows   *)
(* and tables found by them, and the data taken out of what is found, for  *)
(* every keyboard and every length of text.                                *)
(*                                                                         *)
(* Each loop is shown to be a scan, a function that SameScan compares with *)
(* the one defined, turn by turn.  Quotes are counted modulo two, so that  *)
(* a word read from the text and the word read again are in quotes at the  *)
(* same places.  The reader of the copied data is followed by Leads, the   *)
(* composition of steps that NameLeadsToItsTable uses, cell by cell and    *)
(* line by line.                                                           *)
(***************************************************************************)
EXTENDS EditorProofs

LEMMA SpanRead ==
  ASSUME NEW C, NEW b \in Seq(C), NEW i \in Nat, NEW n \in Nat, i + n <= Len(b)
  PROVE  /\ SubSeq(b, i + 1, i + n) \in Seq(C) /\ Len(SubSeq(b, i + 1, i + n)) = n
         /\ \A j \in 1 .. n : SubSeq(b, i + 1, i + n)[j] = b[i + j]
OBVIOUS

LEMMA SameText ==
  ASSUME NEW C, NEW a \in Seq(C), NEW b \in Seq(C), Len(a) = Len(b), \A j \in 1 .. Len(a) : a[j] = b[j]
  PROVE  a = b
OBVIOUS

\* Where a part stands in the whole, character by character.
PartAt(a, b, i) == i \in Nat /\ i + Len(a) <= Len(b) /\ \A j \in 1 .. Len(a) : b[i + j] = a[j]

LEMMA InfixPlace ==
  ASSUME NEW C, NEW a \in Seq(C), NEW b \in Seq(C)
  PROVE  IsInfix(a, b) <=> \E i : PartAt(a, b, i)
<1>1. ASSUME NEW i \in Nat, i + Len(a) <= Len(b)
      PROVE  SubSeq(b, i + 1, i + Len(a)) = a <=> \A j \in 1 .. Len(a) : b[i + j] = a[j]
  <2> DEFINE s == SubSeq(b, i + 1, i + Len(a))
  <2>1. s \in Seq(C) /\ Len(s) = Len(a) /\ \A j \in 1 .. Len(a) : s[j] = b[i + j]
    <3>1. Len(a) \in Nat /\ Len(b) \in Nat
      OBVIOUS
    <3> QED BY <1>1, <3>1, SpanRead
  <2> HIDE DEF s
  <2>2. s = a <=> \A j \in 1 .. Len(a) : s[j] = a[j]
    BY <2>1, SameText
  <2> QED BY <2>1, <2>2 DEF s
<1>2. ASSUME NEW i
      PROVE  i \in 0 .. Len(b) - Len(a) <=> i \in Nat /\ i + Len(a) <= Len(b)
  OBVIOUS
<1> QED BY <1>1, <1>2 DEF IsInfix, PartAt

LEMMA InfixOfSpan ==
  ASSUME NEW C, NEW b \in Seq(C), NEW i \in Nat, NEW n \in Nat, i + n <= Len(b)
  PROVE  IsInfix(SubSeq(b, i + 1, i + n), b)
<1> DEFINE a == SubSeq(b, i + 1, i + n)
<1>1. a \in Seq(C) /\ Len(a) = n /\ \A j \in 1 .. n : a[j] = b[i + j]
  BY SpanRead
<1> HIDE DEF a
<1>2. PartAt(a, b, i)
  BY <1>1 DEF PartAt
<1>3. IsInfix(a, b)
  BY <1>1, <1>2, InfixPlace
<1> QED BY <1>3 DEF a

LEMMA InfixOfPart ==
  ASSUME NEW C, NEW a \in Seq(C), NEW b \in Seq(C), NEW c \in Seq(C), IsInfix(a, b), IsInfix(b, c)
  PROVE  IsInfix(a, c)
<1>1. PICK i : PartAt(a, b, i)
  BY InfixPlace
<1>2. PICK k : PartAt(b, c, k)
  BY InfixPlace
<1>3. Len(a) \in Nat /\ Len(b) \in Nat /\ Len(c) \in Nat
  OBVIOUS
<1>4. i \in Nat /\ k \in Nat /\ i + Len(a) <= Len(b) /\ k + Len(b) <= Len(c)
  BY <1>1, <1>2 DEF PartAt
<1>5. ASSUME NEW j \in 1 .. Len(a) PROVE c[(k + i) + j] = a[j]
  <2>1. b[i + j] = a[j]
    BY <1>1 DEF PartAt
  <2>2. i + j \in 1 .. Len(b) /\ k + (i + j) = (k + i) + j
    BY <1>3, <1>4
  <2>3. c[k + (i + j)] = b[i + j]
    BY <1>2, <2>2 DEF PartAt
  <2> QED BY <2>1, <2>2, <2>3
<1>6. PartAt(a, c, k + i)
  BY <1>3, <1>4, <1>5 DEF PartAt
<1> QED BY <1>6, InfixPlace

\* Lower case changes characters, and no place.
Low(c) == IF c = "A" THEN "a" ELSE c

LEMMA LowerIs ==
  ASSUME NEW C, "a" \in C, NEW t \in Seq(C)
  PROVE  /\ LowerCase(t) \in Seq(C) /\ Len(LowerCase(t)) = Len(t)
         /\ \A i \in 1 .. Len(t) : LowerCase(t)[i] = Low(t[i])
<1> DEFINE n == Len(t)
           f == [i \in 1 .. n |-> Low(t[i])]
<1>1. n \in Nat /\ DOMAIN t = 1 .. n /\ \A i \in 1 .. n : t[i] \in C
  OBVIOUS
<1>2. LowerCase(t) = f
  BY <1>1 DEF LowerCase, Low
<1>3. \A i \in 1 .. n : Low(t[i]) \in C
  BY <1>1 DEF Low
<1> HIDE DEF n
<1>4. f \in Seq(C) /\ Len(f) = n /\ \A i \in 1 .. n : f[i] = Low(t[i])
  BY <1>1, <1>3
<1> QED BY <1>2, <1>4 DEF n

LEMMA InfixInLower ==
  ASSUME NEW C, "a" \in C, NEW a \in Seq(C), NEW b \in Seq(C), IsInfix(a, b)
  PROVE  IsInfix(LowerCase(a), LowerCase(b))
<1> DEFINE x == LowerCase(a)
           y == LowerCase(b)
<1>1. PICK i : PartAt(a, b, i)
  BY InfixPlace
<1>2. Len(a) \in Nat /\ Len(b) \in Nat /\ i \in Nat /\ i + Len(a) <= Len(b)
  BY <1>1 DEF PartAt
<1>3. x \in Seq(C) /\ y \in Seq(C) /\ Len(x) = Len(a) /\ Len(y) = Len(b)
  BY LowerIs
<1>4. /\ \A j \in 1 .. Len(a) : x[j] = Low(a[j])
      /\ \A j \in 1 .. Len(b) : y[j] = Low(b[j])
  BY LowerIs
<1> HIDE DEF x, y
<1>5. ASSUME NEW j \in 1 .. Len(a) PROVE y[i + j] = x[j]
  <2>1. b[i + j] = a[j]
    BY <1>1 DEF PartAt
  <2>2. i + j \in 1 .. Len(b)
    BY <1>2
  <2> QED BY <1>4, <2>1, <2>2
<1>6. PartAt(x, y, i)
  BY <1>2, <1>3, <1>5 DEF PartAt
<1>7. IsInfix(x, y)
  BY <1>3, <1>6, InfixPlace
<1> QED BY <1>7 DEF x, y

\* What trim leaves is blank, or what stands between the first and the last
\* character that is not blank.
TrimmedAt(t, l, m) ==
  /\ l \in 1 .. Len(t) /\ m \in l .. Len(t) /\ t[l] \notin WhiteSpace /\ t[m] \notin WhiteSpace
  /\ \A i \in 1 .. Len(t) : t[i] \notin WhiteSpace => l <= i /\ i <= m
  /\ Trim(t) = SubSeq(t, l, m)

LEMMA TrimLeaves ==
  ASSUME NEW C, NEW t \in Seq(C)
  PROVE  \/ Trim(t) = <<>> /\ \A i \in 1 .. Len(t) : t[i] \in WhiteSpace
         \/ \E l, m : TrimmedAt(t, l, m)
<1> DEFINE Q == {j \in 1 .. Len(t) : t[j] \notin WhiteSpace}
<1>1. Q \subseteq 1 .. Len(t) /\ Len(t) \in Nat /\ \A j \in Q : t[j] \notin WhiteSpace
  OBVIOUS
<1>2. \A j \in 1 .. Len(t) : t[j] \notin WhiteSpace => j \in Q
  OBVIOUS
<1>3. Q = {} => Trim(t) = <<>>
  <2>1. DOMAIN t = 1 .. Len(t)
    OBVIOUS
  <2> QED BY <2>1 DEF Trim
<1> HIDE DEF Q
<1>4. CASE Q = {}
  BY <1>2, <1>3, <1>4
<1>5. ASSUME NEW k \in Q PROVE \E l, m : TrimmedAt(t, l, m)
  <2>1. PICK l \in Q : \A j \in Q : l <= j
    BY <1>1, <1>5, SmallestUpTo
  <2>2. PICK m \in Q : \A j \in Q : j <= m
    BY <1>1, <1>5, LargestUpTo
  <2>3. l \in 1 .. Len(t) /\ m \in l .. Len(t)
    BY <1>1, <2>1, <2>2
  <2>4. Trim(t) = SubSeq(t, l, m)
    BY <1>1, <1>2, <2>1, <2>2, <2>3, Trimmed
  <2>5. TrimmedAt(t, l, m)
    BY <1>1, <1>2, <2>1, <2>2, <2>3, <2>4 DEF TrimmedAt
  <2> QED BY <2>5
<1> QED BY <1>4, <1>5

LEMMA TrimInfix ==
  ASSUME NEW C, NEW t \in Seq(C)
  PROVE  Trim(t) \in Seq(C) /\ IsInfix(Trim(t), t)
<1>1. CASE Trim(t) = <<>>
  <2>1. PICK k \in Nat : k = 0 /\ k + k <= Len(t)
    OBVIOUS
  <2> DEFINE s == SubSeq(t, k + 1, k + k)
  <2>2. s \in Seq(C) /\ Len(s) = 0 /\ IsInfix(s, t)
    BY <2>1, SpanRead, InfixOfSpan
  <2> HIDE DEF s
  <2>3. s = <<>>
    BY <2>2
  <2> QED BY <1>1, <2>2, <2>3
<1>2. ASSUME NEW l, NEW m, TrimmedAt(t, l, m) PROVE Trim(t) \in Seq(C) /\ IsInfix(Trim(t), t)
  <2> DEFINE i == l - 1
             n == m - i
  <2>1. l \in 1 .. Len(t) /\ m \in l .. Len(t) /\ Trim(t) = SubSeq(t, l, m)
    BY <1>2 DEF TrimmedAt
  <2>2. i \in Nat /\ n \in Nat /\ i + 1 = l /\ i + n = m /\ i + n <= Len(t)
    BY <2>1
  <2> HIDE DEF i, n
  <2>3. SubSeq(t, i + 1, i + n) \in Seq(C) /\ IsInfix(SubSeq(t, i + 1, i + n), t)
    BY <2>2, SpanRead, InfixOfSpan
  <2> QED BY <2>1, <2>2, <2>3
<1> QED BY <1>1, <1>2, TrimLeaves

\* Nothing is trimmed of what begins and ends with a character that is not blank.
LEMMA TrimKeeps ==
  ASSUME NEW C, NEW t \in Seq(C), t # <<>>, t[1] \notin WhiteSpace, t[Len(t)] \notin WhiteSpace
  PROVE  Trim(t) = t
<1>1. Len(t) \in Nat /\ 1 \in 1 .. Len(t) /\ Len(t) \in 1 .. Len(t)
  OBVIOUS
<1>2. Trim(t) = SubSeq(t, 1, Len(t))
  <2> DEFINE l == 1
             m == Len(t)
  <2>1. l \in 1 .. Len(t) /\ m \in l .. Len(t) /\ t[l] \notin WhiteSpace /\ t[m] \notin WhiteSpace
    BY <1>1
  <2>2. \A i \in 1 .. Len(t) : t[i] \notin WhiteSpace => l <= i /\ i <= m
    BY <1>1
  <2> HIDE DEF l, m
  <2>3. Trim(t) = SubSeq(t, l, m)
    BY <2>1, <2>2, Trimmed
  <2> QED BY <2>3 DEF l, m
<1>3. SubSeq(t, 1, Len(t)) = t
  BY SubSeqFull
<1> QED BY <1>2, <1>3

\* Two scans that begin alike, and go on alike from where they are alike.
LEMMA SameScan ==
  ASSUME NEW n \in Nat, NEW f, NEW g, f[0] = g[0], \A i \in 1 .. n : f[i - 1] = g[i - 1] => f[i] = g[i]
  PROVE  f[n] = g[n]
<1> DEFINE S == {k \in Nat : k <= n => f[k] = g[k]}
<1>1. 0 \in S
  OBVIOUS
<1>2. ASSUME NEW k \in Nat, k \in S PROVE k + 1 \in S
  <2> SUFFICES ASSUME k + 1 <= n PROVE f[k + 1] = g[k + 1]
    OBVIOUS
  <2> DEFINE j == k + 1
  <2>1. j \in 1 .. n /\ j - 1 = k /\ f[k] = g[k]
    BY <1>2
  <2> HIDE DEF j
  <2>2. f[j] = g[j]
    BY <2>1
  <2> QED BY <2>2 DEF j
<1>3. n \in S
  BY <1>1, <1>2, SetInduction
<1> QED BY <1>3

-----------------------------------------------------------------------------
\* The pieces between separators.
SplitTurn(s, c, sep) == IF c = sep THEN Append(s, <<>>) ELSE [s EXCEPT ![Len(s)] = Append(@, c)]
PieceList(C) == {s \in Seq(Seq(C)) : s # <<>>}

LEMMA SplitTurnType ==
  ASSUME NEW C, NEW s \in PieceList(C), NEW c \in C, NEW sep
  PROVE  SplitTurn(s, c, sep) \in PieceList(C)
<1> DEFINE D == Seq(C)
           m == Len(s)
           x == s[m]
           y == Append(x, c)
           z == <<>>
<1>1. s \in Seq(D) /\ s # <<>> /\ m \in 1 .. Len(s)
  BY DEF PieceList
<1>2. z \in D
  OBVIOUS
<1>3. x \in D
  <2> HIDE DEF D, m
  <2> QED BY <1>1
<1>4. y \in D
  <2> HIDE DEF x
  <2> QED BY <1>3
<1> HIDE DEF D, m, x, y, z
<1>5. Append(s, z) \in Seq(D) /\ Append(s, z) # <<>>
  BY <1>1, <1>2
<1>6. [s EXCEPT ![m] = y] \in Seq(D) /\ [s EXCEPT ![m] = y] # <<>>
  BY <1>1, <1>4
<1>7. SplitTurn(s, c, sep) = IF c = sep THEN Append(s, z) ELSE [s EXCEPT ![m] = y]
  BY Zenon DEF SplitTurn, m, x, y, z
<1>8. SplitTurn(s, c, sep) \in Seq(D) /\ SplitTurn(s, c, sep) # <<>>
  BY <1>5, <1>6, <1>7, Zenon
<1> QED BY <1>8 DEF D, PieceList

LEMMA SplitScanned ==
  ASSUME NEW C, NEW t \in Seq(C), NEW sep
  PROVE  \E g \in [0 .. Len(t) -> PieceList(C)] :
           /\ g[0] = << <<>> >> /\ \A i \in 1 .. Len(t) : g[i] = SplitTurn(g[i - 1], t[i], sep)
           /\ SplitAt(t, sep) = g[Len(t)]
<1> DEFINE n == Len(t)
           D == PieceList(C)
           a == << <<>> >>
           J(s, i) == SplitTurn(s, t[i], sep)
           G == [z \in D \X (1 .. n) |-> J(z[1], z[2])]
           F(f) == [i \in 0 .. n |-> IF i = 0 THEN a ELSE J(f[i - 1], i)]
           scan == CHOOSE f : f = F(f)
<1>1. n \in Nat /\ a \in D
  BY DEF PieceList
<1>2. ASSUME NEW s \in D, NEW i \in 1 .. n PROVE J(s, i) \in D
  BY SplitTurnType
<1>3. SplitAt(t, sep) = scan[n]
  BY Zenon DEF SplitAt, SplitTurn
<1> HIDE DEF n, D, a, J
<1>4. G \in Steps(D, n) /\ \A s \in D, i \in 1 .. n : G[<<s, i>>] = J(s, i)
  BY <1>2 DEF Steps
<1> HIDE DEF G
<1>5. PICK f : Built(f, D, a, n, G)
  BY <1>1, <1>4, Recursion
<1>6. f \in [0 .. n -> D] /\ f[0] = a /\ \A i \in 1 .. n : f[i] = J(f[i - 1], i)
  <2>1. f \in [0 .. n -> D] /\ f[0] = a /\ \A i \in 1 .. n : f[i] = G[<<f[i - 1], i>>]
    BY <1>5, Zenon DEF Built
  <2>2. \A i \in 1 .. n : f[i - 1] \in D
    BY <1>1, <2>1
  <2> QED BY <1>4, <2>1, <2>2, Zenon
<1>7. f = F(f)
  BY <1>1, <1>6
<1>8. scan = F(scan)
  BY <1>7
<1> HIDE DEF scan
<1>9. scan[0] = a /\ \A i \in 1 .. n : scan[i] = J(scan[i - 1], i)
  BY <1>1, <1>8
<1> HIDE DEF F
<1>10. scan[n] = f[n]
  <2>1. \A i \in 1 .. n : scan[i - 1] = f[i - 1] => scan[i] = f[i]
    BY <1>6, <1>9
  <2>2. scan[0] = f[0]
    BY <1>6, <1>9
  <2> QED BY <1>1, <2>1, <2>2, SameScan
<1> QED BY <1>3, <1>6, <1>10, Zenon DEF n, D, a, J

\* After k characters: each piece is a part of the text, the last one up to k.
SplitSoFar(C, t, s, k) ==
  /\ s \in PieceList(C)
  /\ \A j \in 1 .. Len(s) : IsInfix(s[j], t)
  /\ \E a \in 0 .. k : s[Len(s)] = SubSeq(t, a + 1, k)

LEMMA EmptySpan ==
  ASSUME NEW C, NEW t \in Seq(C), NEW k \in 0 .. Len(t)
  PROVE  SubSeq(t, k + 1, k) = <<>> /\ IsInfix(<<>>, t)
<1>1. k \in Int /\ k < k + 1 /\ k + 1 \in Int
  OBVIOUS
<1>2. SubSeq(t, k + 1, k) = <<>>
  BY <1>1, SubSeqEmpty
<1> DEFINE z == <<>>
<1>3. z \in Seq(C) /\ Len(z) = 0 /\ Len(t) \in Nat
  OBVIOUS
<1> HIDE DEF z
<1>4. PartAt(z, t, 0)
  BY <1>3 DEF PartAt
<1>5. IsInfix(z, t)
  BY <1>3, <1>4, InfixPlace
<1> QED BY <1>2, <1>5 DEF z

LEMMA LongerSpan ==
  ASSUME NEW C, NEW t \in Seq(C), NEW k \in 1 .. Len(t), NEW a \in 0 .. k - 1
  PROVE  Append(SubSeq(t, a + 1, k - 1), t[k]) = SubSeq(t, a + 1, k) /\ IsInfix(SubSeq(t, a + 1, k), t)
<1> DEFINE n == k - a
           m == n - 1
<1>1. n \in Nat /\ m \in Nat /\ n = m + 1 /\ a \in Nat /\ a + n = k /\ a + m = k - 1 /\ a + n <= Len(t) /\ a + m <= Len(t)
  OBVIOUS
<1> HIDE DEF n, m
<1> DEFINE u == SubSeq(t, a + 1, a + m)
           v == SubSeq(t, a + 1, a + n)
           c == t[k]
<1>2. u \in Seq(C) /\ Len(u) = m /\ \A j \in 1 .. m : u[j] = t[a + j]
  BY <1>1, SpanRead
<1>3. v \in Seq(C) /\ Len(v) = n /\ \A j \in 1 .. n : v[j] = t[a + j]
  BY <1>1, SpanRead
<1>4. IsInfix(v, t)
  BY <1>1, InfixOfSpan
<1>5. c \in C /\ t[a + n] = c
  BY <1>1
<1> HIDE DEF u, v, c
<1> DEFINE w == Append(u, c)
<1>6. w \in Seq(C) /\ Len(w) = n /\ (\A j \in 1 .. m : w[j] = u[j]) /\ w[n] = c
  BY <1>1, <1>2, <1>5
<1> HIDE DEF w
<1>7. \A j \in 1 .. n : w[j] = v[j]
  <2>1. ASSUME NEW j \in 1 .. n PROVE w[j] = v[j]
    <3>1. j = n \/ j \in 1 .. m
      BY <1>1
    <3> QED BY <1>2, <1>3, <1>5, <1>6, <3>1
  <2> QED BY <2>1
<1>8. w = v
  BY <1>3, <1>6, <1>7, SameText
<1> QED BY <1>1, <1>4, <1>8, Zenon DEF u, v, w, c

LEMMA SplitStep ==
  ASSUME NEW C, NEW t \in Seq(C), NEW sep, NEW k \in 1 .. Len(t), NEW s, SplitSoFar(C, t, s, k - 1)
  PROVE  SplitSoFar(C, t, SplitTurn(s, t[k], sep), k)
<1> DEFINE D == Seq(C)
           m == Len(s)
           c == t[k]
           x == s[m]
           y == Append(x, c)
           z == <<>>
           r == SplitTurn(s, c, sep)
<1>1. s \in PieceList(C) /\ \A j \in 1 .. Len(s) : IsInfix(s[j], t)
  BY DEF SplitSoFar
<1>2. PICK a \in 0 .. k - 1 : x = SubSeq(t, a + 1, k - 1)
  BY DEF SplitSoFar
<1>3. y = SubSeq(t, a + 1, k) /\ IsInfix(y, t)
  BY <1>2, LongerSpan
<1>4. z = SubSeq(t, k + 1, k) /\ IsInfix(z, t)
  <2>1. k \in 0 .. Len(t)
    OBVIOUS
  <2> QED BY <2>1, EmptySpan
<1>5. c \in C /\ k \in Nat /\ a \in 0 .. k
  BY <1>2
<1>6. r \in PieceList(C)
  BY <1>1, <1>5, SplitTurnType
<1>7. r = IF c = sep THEN Append(s, z) ELSE [s EXCEPT ![m] = y]
  BY Zenon DEF SplitTurn
<1>8. s \in Seq(D) /\ m \in 1 .. Len(s) /\ m = Len(s)
  BY <1>1 DEF PieceList
<1>9. z \in D
  OBVIOUS
<1> HIDE DEF D, m, c, x, y, z, r
<1>10. CASE c = sep
  <2>1. r = Append(s, z)
    BY <1>7, <1>10
  <2>2. Len(r) = m + 1 /\ r[m + 1] = z /\ \A j \in 1 .. m : r[j] = s[j]
    BY <1>8, <1>9, <2>1
  <2>3. \A j \in 1 .. Len(r) : j \in 1 .. m \/ j = m + 1
    BY <1>8, <2>2
  <2>4. \A j \in 1 .. Len(r) : IsInfix(r[j], t)
    BY <1>1, <1>4, <1>8, <2>2, <2>3
  <2>5. k \in 0 .. k /\ r[Len(r)] = SubSeq(t, k + 1, k)
    BY <1>4, <1>5, <2>2
  <2> QED BY <1>6, <2>4, <2>5 DEF SplitSoFar, r, c
<1>11. CASE c # sep
  <2>1. r = [s EXCEPT ![m] = y]
    BY <1>7, <1>11
  <2>2. Len(r) = m /\ r[m] = y /\ \A j \in 1 .. m : j # m => r[j] = s[j]
    BY <1>8, <2>1
  <2>3. \A j \in 1 .. Len(r) : IsInfix(r[j], t)
    BY <1>1, <1>3, <1>8, <2>2
  <2>4. r[Len(r)] = SubSeq(t, a + 1, k)
    BY <1>3, <2>2
  <2> QED BY <1>5, <1>6, <2>3, <2>4 DEF SplitSoFar, r, c
<1> QED BY <1>10, <1>11

LEMMA SplitPieces ==
  ASSUME NEW C, NEW t \in Seq(C), NEW sep
  PROVE  SplitAt(t, sep) \in PieceList(C) /\ \A j \in 1 .. Len(SplitAt(t, sep)) : IsInfix(SplitAt(t, sep)[j], t)
<1> DEFINE n == Len(t)
<1>1. PICK g \in [0 .. n -> PieceList(C)] :
        /\ g[0] = << <<>> >> /\ \A i \in 1 .. n : g[i] = SplitTurn(g[i - 1], t[i], sep)
        /\ SplitAt(t, sep) = g[n]
  BY SplitScanned
<1>2. n \in Nat
  OBVIOUS
<1> DEFINE S == {k \in Nat : k <= n => SplitSoFar(C, t, g[k], k)}
<1>3. 0 \in S
  <2>1. SubSeq(t, 0 + 1, 0) = <<>> /\ IsInfix(<<>>, t)
    <3>1. 0 \in 0 .. Len(t)
      BY <1>2
    <3> QED BY <3>1, EmptySpan
  <2>2. g[0] \in PieceList(C)
    <3> DEFINE G == PieceList(C)
    <3>1. g \in [0 .. n -> G] /\ 0 \in 0 .. n
      BY <1>2
    <3> HIDE DEF G, n
    <3>2. g[0] \in G
      BY <3>1
    <3> QED BY <3>2 DEF G
  <2> DEFINE z == <<>>
  <2>3. Len(g[0]) = 1 /\ g[0][1] = z
    BY <1>1
  <2> HIDE DEF z
  <2>4. \A j \in 1 .. Len(g[0]) : IsInfix(g[0][j], t)
    BY <2>1, <2>3 DEF z
  <2>5. g[0][Len(g[0])] = SubSeq(t, 0 + 1, 0) /\ 0 \in 0 .. 0
    BY <2>1, <2>3 DEF z
  <2>6. SplitSoFar(C, t, g[0], 0)
    BY <2>2, <2>4, <2>5 DEF SplitSoFar
  <2> QED BY <2>6
<1>4. ASSUME NEW k \in Nat, k \in S PROVE k + 1 \in S
  <2> SUFFICES ASSUME k + 1 <= n PROVE SplitSoFar(C, t, g[k + 1], k + 1)
    OBVIOUS
  <2> DEFINE j == k + 1
  <2>1. j \in 1 .. n /\ j - 1 = k /\ SplitSoFar(C, t, g[k], k)
    BY <1>2, <1>4
  <2> HIDE DEF j
  <2>2. SplitSoFar(C, t, g[j], j)
    BY <1>1, <2>1, SplitStep
  <2> QED BY <2>2 DEF j
<1>5. n \in S
  BY <1>2, <1>3, <1>4, SetInduction
<1>6. SplitSoFar(C, t, g[n], n)
  BY <1>2, <1>5
<1> QED BY <1>1, <1>6 DEF SplitSoFar

-----------------------------------------------------------------------------
\* The words of a search.
SearchState(C) == [inQuote : BOOLEAN, words : Seq(Seq(C)), word : Seq(C)]
SearchStart    == [inQuote |-> FALSE, words |-> <<>>, word |-> <<>>]
Sought2(q, words, word) == [inQuote |-> q, words |-> words, word |-> word]
Toggled(s, c) == s.inQuote # (c = "\"")
SearchTurn(s, c, last) ==
  IF EndsSearchWord(Toggled(s, c), c, last) THEN Sought2(Toggled(s, c), Keep(s.words, Append(s.word, c)), <<>>)
  ELSE Sought2(Toggled(s, c), s.words, Append(s.word, c))

LEMMA KeepType ==
  ASSUME NEW C, NEW words \in Seq(Seq(C)), NEW w \in Seq(C)
  PROVE  Keep(words, w) \in Seq(Seq(C))
<1> DEFINE D == Seq(C)
           x == Trim(w)
<1>1. x \in D
  BY TrimInfix
<1>2. words \in Seq(D)
  OBVIOUS
<1> HIDE DEF D, x
<1>3. Append(words, x) \in Seq(D)
  BY <1>1, <1>2
<1>4. Keep(words, w) = words \/ Keep(words, w) = Append(words, x)
  BY DEF Keep, x
<1>5. Keep(words, w) \in Seq(D)
  BY <1>2, <1>3, <1>4, Zenon
<1> QED BY <1>5 DEF D

LEMMA SearchFields ==
  ASSUME NEW C, NEW q \in BOOLEAN, NEW words \in Seq(Seq(C)), NEW w \in Seq(C)
  PROVE  Sought2(q, words, w) \in SearchState(C)
BY DEF Sought2, SearchState

LEMMA SearchTurnType ==
  ASSUME NEW C, NEW s \in SearchState(C), NEW c \in C, NEW last
  PROVE  SearchTurn(s, c, last) \in SearchState(C)
<1> DEFINE w == Append(s.word, c)
           z == <<>>
           q == Toggled(s, c)
<1>1. s.words \in Seq(Seq(C)) /\ s.word \in Seq(C) /\ s.inQuote \in BOOLEAN
  BY DEF SearchState
<1>2. w \in Seq(C) /\ z \in Seq(C)
  BY <1>1
<1>3. q \in BOOLEAN
  BY DEF Toggled
<1> HIDE DEF w, z, q
<1>4. Keep(s.words, w) \in Seq(Seq(C))
  BY <1>1, <1>2, KeepType
<1>5. Sought2(q, Keep(s.words, w), z) \in SearchState(C) /\ Sought2(q, s.words, w) \in SearchState(C)
  BY <1>1, <1>2, <1>3, <1>4, SearchFields
<1>6. SearchTurn(s, c, last) = IF EndsSearchWord(q, c, last) THEN Sought2(q, Keep(s.words, w), z) ELSE Sought2(q, s.words, w)
  BY Zenon DEF SearchTurn, w, z, q
<1> QED BY <1>5, <1>6, Zenon

LEMMA SearchScanned ==
  ASSUME NEW C, NEW t \in Seq(C)
  PROVE  \E g \in [0 .. Len(t) -> SearchState(C)] :
           /\ g[0] = SearchStart /\ \A i \in 1 .. Len(t) : g[i] = SearchTurn(g[i - 1], t[i], i = Len(t))
           /\ ParseFilterString(t) = g[Len(t)].words
<1> DEFINE n == Len(t)
           D == SearchState(C)
           a == SearchStart
           J(s, i) == SearchTurn(s, t[i], i = Len(t))
           G == [z \in D \X (1 .. n) |-> J(z[1], z[2])]
           F(f) == [i \in 0 .. n |-> IF i = 0 THEN a ELSE J(f[i - 1], i)]
           scan == CHOOSE f : f = F(f)
<1>1. n \in Nat /\ a \in D
  BY DEF SearchState, SearchStart
<1>2. ASSUME NEW s \in D, NEW i \in 1 .. n PROVE J(s, i) \in D
  BY SearchTurnType
<1>3. ParseFilterString(t) = scan[n].words
  BY Zenon DEF ParseFilterString, SearchTurn, SearchStart, Toggled, Sought2
<1> HIDE DEF n, D, a, J
<1>4. G \in Steps(D, n) /\ \A s \in D, i \in 1 .. n : G[<<s, i>>] = J(s, i)
  BY <1>2 DEF Steps
<1> HIDE DEF G
<1>5. PICK f : Built(f, D, a, n, G)
  BY <1>1, <1>4, Recursion
<1>6. f \in [0 .. n -> D] /\ f[0] = a /\ \A i \in 1 .. n : f[i] = J(f[i - 1], i)
  <2>1. f \in [0 .. n -> D] /\ f[0] = a /\ \A i \in 1 .. n : f[i] = G[<<f[i - 1], i>>]
    BY <1>5, Zenon DEF Built
  <2>2. \A i \in 1 .. n : f[i - 1] \in D
    BY <1>1, <2>1
  <2> QED BY <1>4, <2>1, <2>2, Zenon
<1>7. f = F(f)
  BY <1>1, <1>6
<1>8. scan = F(scan)
  BY <1>7
<1> HIDE DEF scan
<1>9. scan[0] = a /\ \A i \in 1 .. n : scan[i] = J(scan[i - 1], i)
  BY <1>1, <1>8
<1> HIDE DEF F
<1>10. scan[n] = f[n]
  <2>1. \A i \in 1 .. n : scan[i - 1] = f[i - 1] => scan[i] = f[i]
    BY <1>6, <1>9
  <2>2. scan[0] = f[0]
    BY <1>6, <1>9
  <2> QED BY <1>1, <2>1, <2>2, SameScan
<1>11. ParseFilterString(t) = f[n].words
  BY <1>3, <1>10
<1> QED BY <1>6, <1>11, Zenon DEF n, D, a, J

-----------------------------------------------------------------------------
(* The words of a search: h counts, modulo two, the quotes up to a place.  *)
Mark  == "\""
Blank == " "
Count(b, c) == IF c = Mark THEN 1 - b ELSE b
Marks(w, h) ==
  /\ h \in [0 .. Len(w) -> {0, 1}] /\ h[0] = 0
  /\ \A i \in 1 .. Len(w) : h[i] = Count(h[i - 1], w[i])
BlanksIn(w, h) == \A i \in 1 .. Len(w) : w[i] = Blank => h[i] = 1

\* What is read of a word so far: its blanks stand in quotes.
UnderWay(C, w, b) ==
  w \in Seq(C) /\ \E h : Marks(w, h) /\ h[Len(w)] = b /\ BlanksIn(w, h)

\* A word.
Held(C, w) ==
  /\ w \in Seq(C) /\ w # <<>> /\ w[1] \notin WhiteSpace /\ w[Len(w)] \notin WhiteSpace
  /\ \E h : Marks(w, h) /\ BlanksIn(w, h)

LEMMA Counted == ASSUME NEW b \in {0, 1}, NEW c PROVE Count(b, c) \in {0, 1}
BY DEF Count

\* One more character is marked.
LEMMA MarksOn ==
  ASSUME NEW C, NEW w \in Seq(C), NEW c \in C, NEW h, Marks(w, h)
  PROVE  \E x : /\ Marks(Append(w, c), x) /\ \A i \in 0 .. Len(w) : x[i] = h[i]
                /\ x[Len(w) + 1] = Count(h[Len(w)], c)
<1> DEFINE n == Len(w)
           v == Append(w, c)
           last == Count(h[n], c)
           x == [i \in 0 .. n + 1 |-> IF i <= n THEN h[i] ELSE last]
<1>1. n \in Nat /\ v \in Seq(C) /\ Len(v) = n + 1 /\ v[n + 1] = c /\ \A i \in 1 .. n : v[i] = w[i]
  OBVIOUS
<1>2. h \in [0 .. n -> {0, 1}] /\ h[0] = 0 /\ \A i \in 1 .. n : h[i] = Count(h[i - 1], w[i])
  BY DEF Marks
<1>3. last \in {0, 1}
  <2>1. h[n] \in {0, 1}
    BY <1>1, <1>2
  <2> QED BY <2>1, Counted
<1> HIDE DEF n, v, last
<1>4. x \in [0 .. n + 1 -> {0, 1}] /\ (\A i \in 0 .. n : x[i] = h[i]) /\ x[n + 1] = last
  BY <1>1, <1>2, <1>3
<1> HIDE DEF x
<1>5. x[0] = 0
  BY <1>1, <1>2, <1>4
<1>6. ASSUME NEW i \in 1 .. n + 1 PROVE x[i] = Count(x[i - 1], v[i])
  <2>1. CASE i = n + 1
    <3>1. x[i - 1] = h[n]
      BY <1>1, <1>4, <2>1
    <3> QED BY <1>1, <1>4, <2>1, <3>1, Zenon DEF last
  <2>2. CASE i # n + 1
    <3>1. i \in 1 .. n /\ i - 1 \in 0 .. n /\ i \in 0 .. n
      BY <1>1, <2>2
    <3>2. x[i] = h[i] /\ x[i - 1] = h[i - 1] /\ v[i] = w[i]
      BY <1>1, <1>4, <3>1
    <3>3. h[i] = Count(h[i - 1], w[i])
      BY <1>2, <3>1
    <3> QED BY <3>2, <3>3, Zenon
  <2> QED BY <2>1, <2>2
<1>7. Marks(v, x)
  BY <1>1, <1>4, <1>5, <1>6, Zenon DEF Marks
<1> QED BY <1>4, <1>7, Zenon DEF n, v, last

LEMMA Begins == ASSUME NEW C PROVE UnderWay(C, <<>>, 0)
<1> DEFINE w == <<>>
           h == [i \in 0 .. 0 |-> 0]
<1>1. w \in Seq(C) /\ Len(w) = 0
  OBVIOUS
<1> HIDE DEF w
<1>2. Marks(w, h) /\ h[Len(w)] = 0 /\ BlanksIn(w, h)
  BY <1>1 DEF Marks, BlanksIn
<1> HIDE DEF h
<1>3. UnderWay(C, w, 0)
  BY <1>1, <1>2 DEF UnderWay
<1> QED BY <1>3 DEF w

\* A word goes on.
LEMMA GoesUnderWay ==
  ASSUME NEW C, NEW w, NEW b, UnderWay(C, w, b), NEW c \in C, c = Blank => Count(b, c) = 1
  PROVE  UnderWay(C, Append(w, c), Count(b, c))
<1> DEFINE n == Len(w)
           v == Append(w, c)
           r == Count(b, c)
<1>1. w \in Seq(C)
  BY DEF UnderWay
<1>2. PICK h : Marks(w, h) /\ h[n] = b /\ BlanksIn(w, h)
  BY Zenon DEF UnderWay
<1>3. PICK x : Marks(v, x) /\ (\A i \in 0 .. n : x[i] = h[i]) /\ x[n + 1] = Count(h[n], c)
  <2>1. Marks(w, h)
    BY <1>2
  <2> QED BY <1>1, <2>1, MarksOn
<1>4. n \in Nat /\ v \in Seq(C) /\ Len(v) = n + 1 /\ v[n + 1] = c /\ \A i \in 1 .. n : v[i] = w[i]
  <2>1. w \in Seq(C) /\ c \in C
    BY <1>1
  <2> QED BY <2>1
<1>5. \A i \in 1 .. n : w[i] = Blank => h[i] = 1
  BY <1>2 DEF BlanksIn
<1>6. x[n + 1] = r /\ (c = Blank => r = 1)
  BY <1>2, <1>3, Zenon
<1> HIDE DEF n, v, r
<1>7. ASSUME NEW i \in 1 .. n + 1, v[i] = Blank PROVE x[i] = 1
  <2>1. CASE i = n + 1
    BY <1>4, <1>6, <1>7, <2>1, Zenon
  <2>2. CASE i # n + 1
    <3>1. n \in Nat
      BY <1>4
    <3>2. i \in 1 .. n /\ i \in 0 .. n
      BY <2>2, <3>1
    <3>3. v[i] = w[i] /\ x[i] = h[i]
      BY <1>3, <1>4, <3>2
    <3> QED BY <1>5, <1>7, <3>2, <3>3, Zenon
  <2> QED BY <2>1, <2>2
<1>8. BlanksIn(v, x) /\ x[Len(v)] = r
  BY <1>4, <1>6, <1>7, Zenon DEF BlanksIn
<1> QED BY <1>3, <1>4, <1>8, Zenon DEF UnderWay, v, r

LEMMA MarkIsSeen == Mark \notin WhiteSpace /\ Blank \in WhiteSpace /\ Mark # Blank
BY Zenon DEF Mark, Blank, WhiteSpace

\* Nothing is counted where no quote is.
LEMMA NoneCounted ==
  ASSUME NEW C, NEW w \in Seq(C), NEW x, Marks(w, x), NEW k \in 0 .. Len(w), \A i \in 1 .. k : w[i] # Mark
  PROVE  x[k] = 0
<1> DEFINE S == {j \in Nat : j <= k => x[j] = 0}
<1>1. k \in Nat /\ Len(w) \in Nat /\ k <= Len(w)
  OBVIOUS
<1>2. x[0] = 0 /\ \A i \in 1 .. Len(w) : x[i] = Count(x[i - 1], w[i])
  BY DEF Marks
<1>3. 0 \in S
  BY <1>2
<1>4. ASSUME NEW j \in Nat, j \in S PROVE j + 1 \in S
  <2> SUFFICES ASSUME j + 1 <= k PROVE x[j + 1] = 0
    OBVIOUS
  <2> DEFINE i == j + 1
  <2>1. i \in 1 .. Len(w) /\ i \in 1 .. k /\ i - 1 = j /\ x[j] = 0
    BY <1>1, <1>4
  <2> HIDE DEF i
  <2>2. x[i] = Count(x[j], w[i]) /\ w[i] # Mark
    BY <1>2, <2>1
  <2>3. x[i] = 0
    BY <2>1, <2>2 DEF Count
  <2> QED BY <2>3 DEF i
<1>5. k \in S
  BY <1>1, <1>3, <1>4, SetInduction
<1> QED BY <1>1, <1>5

\* The marks of a part before which nothing is counted.
PartMarked(x, k, p, v) == \E y : Marks(v, y) /\ \A j \in 0 .. p : y[j] = x[k + j]

LEMMA MarksOfPart ==
  ASSUME NEW C, NEW w \in Seq(C), NEW x, Marks(w, x), NEW k \in Nat, NEW p \in Nat, k + p <= Len(w), x[k] = 0,
         NEW v \in Seq(C), Len(v) = p, \A j \in 1 .. p : v[j] = w[k + j]
  PROVE  PartMarked(x, k, p, v)
<1> DEFINE y == [j \in 0 .. p |-> x[k + j]]
<1>1. x \in [0 .. Len(w) -> {0, 1}] /\ \A i \in 1 .. Len(w) : x[i] = Count(x[i - 1], w[i])
  BY DEF Marks
<1>2. Len(w) \in Nat
  OBVIOUS
<1>3. y \in [0 .. p -> {0, 1}] /\ \A j \in 0 .. p : y[j] = x[k + j]
  <2>1. \A j \in 0 .. p : k + j \in 0 .. Len(w)
    BY <1>2
  <2> QED BY <1>1, <2>1
<1> HIDE DEF y
<1>4. y[0] = 0
  BY <1>3
<1>5. ASSUME NEW j \in 1 .. p PROVE y[j] = Count(y[j - 1], v[j])
  <2>1. j \in 0 .. p /\ j - 1 \in 0 .. p /\ k + j \in 1 .. Len(w) /\ (k + j) - 1 = k + (j - 1)
    BY <1>2
  <2>2. x[k + j] = Count(x[(k + j) - 1], w[k + j])
    BY <1>1, <2>1
  <2>3. x[k + j] = Count(x[k + (j - 1)], w[k + j])
    BY <2>1, <2>2
  <2>4. y[j] = x[k + j] /\ y[j - 1] = x[k + (j - 1)] /\ v[j] = w[k + j]
    BY <1>3, <2>1
  <2> QED BY <2>3, <2>4
<1>6. Marks(v, y)
  BY <1>3, <1>4, <1>5 DEF Marks
<1> QED BY <1>3, <1>6 DEF PartMarked

\* What is trimmed of a word that ends is a word, or nothing.
LEMMA WordHeld ==
  ASSUME NEW C, NEW u, NEW b, UnderWay(C, u, b), NEW c \in C
  PROVE  Trim(Append(u, c)) = <<>> \/ Held(C, Trim(Append(u, c)))
<1> DEFINE n == Len(u)
           w == Append(u, c)
<1>1. u \in Seq(C)
  BY DEF UnderWay
<1>2. PICK h : Marks(u, h) /\ BlanksIn(u, h)
  BY Zenon DEF UnderWay
<1>3. PICK x : Marks(w, x) /\ \A i \in 0 .. n : x[i] = h[i]
  BY <1>1, <1>2, MarksOn
<1>4. n \in Nat /\ w \in Seq(C) /\ Len(w) = n + 1 /\ \A i \in 1 .. n : w[i] = u[i]
  <2>1. u \in Seq(C) /\ c \in C
    BY <1>1
  <2> QED BY <2>1
<1>5. \A i \in 1 .. n : u[i] = Blank => h[i] = 1
  BY <1>2 DEF BlanksIn
<1> HIDE DEF n, w
<1>6. \A i \in 1 .. n : w[i] = Blank => x[i] = 1
  <2>1. \A i \in 1 .. n : i \in 0 .. n
    BY <1>4
  <2> QED BY <1>3, <1>4, <1>5, <2>1
<1>7. ASSUME NEW l, NEW m, TrimmedAt(w, l, m) PROVE Held(C, Trim(w))
  <2> DEFINE k == l - 1
             p == m - k
  <2>1. /\ l \in 1 .. n + 1 /\ m \in l .. n + 1 /\ w[l] \notin WhiteSpace /\ w[m] \notin WhiteSpace
        /\ \A i \in 1 .. n + 1 : w[i] \notin WhiteSpace => l <= i /\ i <= m
        /\ Trim(w) = SubSeq(w, l, m)
    BY <1>4, <1>7 DEF TrimmedAt
  <2>2. k \in Nat /\ p \in Nat /\ k + 1 = l /\ k + p = m /\ k + p <= n + 1 /\ p >= 1
    BY <1>4, <2>1
  <2> HIDE DEF k, p
  <2> DEFINE v == SubSeq(w, k + 1, k + p)
  <2>3. v \in Seq(C) /\ Len(v) = p /\ \A j \in 1 .. p : v[j] = w[k + j]
    BY <1>4, <2>2, SpanRead
  <2>4. Trim(w) = v
    BY <2>1, <2>2, Zenon
  <2> HIDE DEF v
  <2>5. x[k] = 0
    <3>1. k \in 0 .. Len(w)
      BY <1>4, <2>2
    <3>2. \A i \in 1 .. k : w[i] # Mark
      <4>1. \A i \in 1 .. k : i \in 1 .. n + 1 /\ ~(l <= i)
        BY <1>4, <2>2
      <4> QED BY <2>1, <4>1, MarkIsSeen
    <3> QED BY <1>3, <1>4, <3>1, <3>2, NoneCounted
  <2>6. PICK y : Marks(v, y) /\ \A j \in 0 .. p : y[j] = x[k + j]
    <3>1. k + p <= Len(w) /\ Marks(w, x)
      BY <1>3, <1>4, <2>2
    <3>2. w \in Seq(C) /\ k \in Nat /\ p \in Nat
      BY <1>4, <2>2
    <3>3. PartMarked(x, k, p, v)
      BY <2>3, <2>5, <3>1, <3>2, MarksOfPart
    <3> QED BY <3>3 DEF PartMarked
  <2>7. ASSUME NEW j \in 1 .. Len(v), v[j] = Blank PROVE y[j] = 1
    <3>1. j \in 1 .. p /\ j \in 0 .. p
      BY <2>2, <2>3, <2>7
    <3>2. w[k + j] = Blank
      BY <2>3, <2>7, <3>1
    <3>3. k + j # m
      BY <2>1, <3>2, MarkIsSeen
    <3>4. k + j \in 1 .. n
      BY <1>4, <2>2, <3>1, <3>3
    <3> QED BY <1>6, <2>6, <3>1, <3>2, <3>4
  <2>8. BlanksIn(v, y)
    BY <2>7 DEF BlanksIn
  <2>9. v # <<>> /\ v[1] = w[l] /\ v[Len(v)] = w[m]
    <3>1. 1 \in 1 .. p /\ p \in 1 .. p
      BY <2>2
    <3>2. v[1] = w[k + 1] /\ v[p] = w[k + p]
      BY <2>3, <3>1
    <3>3. v # <<>>
      BY <2>2, <2>3
    <3> QED BY <2>2, <2>3, <3>2, <3>3
  <2>10. Held(C, v)
    BY <2>1, <2>3, <2>6, <2>8, <2>9, Zenon DEF Held
  <2> QED BY <2>4, <2>10
<1>8. Trim(w) = <<>> \/ \E l, m : TrimmedAt(w, l, m)
  BY <1>4, TrimLeaves
<1>9. Trim(w) = <<>> \/ Held(C, Trim(w))
  BY <1>7, <1>8
<1> QED BY <1>9 DEF w

-----------------------------------------------------------------------------
\* The quotes before a place.
QuotesUpTo(w, i) == Cardinality({j \in 1 .. i : w[j] = Mark})

LEMMA QuotesCounted ==
  ASSUME NEW C, NEW w \in Seq(C), NEW h, Marks(w, h), NEW i \in 0 .. Len(w)
  PROVE  QuotesUpTo(w, i) % 2 = h[i]
<1> DEFINE Q(k) == {j \in 1 .. k : w[j] = Mark}
           S == {k \in Nat : k <= Len(w) => IsFiniteSet(Q(k)) /\ Cardinality(Q(k)) % 2 = h[k]}
<1>1. i \in Nat /\ Len(w) \in Nat /\ i <= Len(w)
  OBVIOUS
<1>2. h[0] = 0 /\ \A k \in 1 .. Len(w) : h[k] = Count(h[k - 1], w[k])
  BY DEF Marks
<1>3. 0 \in S
  <2>1. Q(0) = {}
    OBVIOUS
  <2>2. IsFiniteSet(Q(0)) /\ Cardinality(Q(0)) = 0
    BY <2>1, FS_EmptySet
  <2> QED BY <1>2, <2>2
<1>4. ASSUME NEW k \in Nat, k \in S PROVE k + 1 \in S
  <2> DEFINE A == Q(k)
             B == Q(k + 1)
             z == k + 1
  <2> SUFFICES ASSUME z <= Len(w) PROVE IsFiniteSet(B) /\ Cardinality(B) % 2 = h[z]
    OBVIOUS
  <2>1. IsFiniteSet(A) /\ Cardinality(A) % 2 = h[k]
    BY <1>1, <1>4
  <2>2. z \in 1 .. Len(w) /\ z - 1 = k
    BY <1>1
  <2>3. z \notin A /\ (w[z] = Mark => B = A \cup {z}) /\ (w[z] # Mark => B = A)
    OBVIOUS
  <2>4. h[z] = Count(h[k], w[z])
    BY <1>2, <2>2
  <2> HIDE DEF A, B, z
  <2>5. Cardinality(A) \in Nat
    BY <2>1, FS_CardinalityType
  <2>6. CASE w[z] = Mark
    <3>1. IsFiniteSet(B) /\ Cardinality(B) = Cardinality(A) + 1
      BY <2>1, <2>3, <2>6, FS_AddElement
    <3>2. h[z] = 1 - h[k]
      BY <2>4, <2>6 DEF Count
    <3>3. \A y \in Nat : (y + 1) % 2 = 1 - (y % 2)
      OBVIOUS
    <3> QED BY <2>1, <2>5, <3>1, <3>2, <3>3
  <2>7. CASE w[z] # Mark
    <3>1. h[z] = h[k]
      BY <2>4, <2>7 DEF Count
    <3> QED BY <2>1, <2>3, <2>7, <3>1
  <2> QED BY <2>6, <2>7
<1>5. i \in S
  BY <1>1, <1>3, <1>4, SetInduction
<1>6. Cardinality(Q(i)) % 2 = h[i]
  BY <1>1, <1>5
<1> QED BY <1>6 DEF QuotesUpTo

LEMMA BlanksInQuotes ==
  ASSUME NEW C, NEW w, Held(C, w), NEW i \in DOMAIN w, w[i] = Blank
  PROVE  QuotesUpTo(w, i) % 2 = 1
<1>1. w \in Seq(C)
  BY DEF Held
<1>2. PICK h : Marks(w, h) /\ BlanksIn(w, h)
  BY Zenon DEF Held
<1>3. i \in 1 .. Len(w) /\ i \in 0 .. Len(w)
  BY <1>1
<1>4. h[i] = 1
  BY <1>2, <1>3 DEF BlanksIn
<1>5. QuotesUpTo(w, i) % 2 = h[i]
  BY <1>1, <1>2, <1>3, QuotesCounted
<1> QED BY <1>4, <1>5

\* The flag of the loop and the count of the quotes.
Agreed(q, b) == q \in BOOLEAN /\ b \in {0, 1} /\ (q <=> b = 1)

LEMMA Unlike == ASSUME NEW q \in BOOLEAN, NEW c, NEW m PROVE /\ (q # (c = m)) \in BOOLEAN
                                                           /\ (q # (c = m)) <=> ~(q <=> c = m)
OBVIOUS

LEMMA AgreedOn ==
  ASSUME NEW s, NEW b, Agreed(s.inQuote, b), NEW c
  PROVE  Agreed(Toggled(s, c), Count(b, c))
<1>1. b = 0 \/ b = 1
  BY DEF Agreed
<1>2. Count(b, c) \in {0, 1}
  BY <1>1, Counted
<1>3. c = Mark => (Count(b, c) = 1 <=> b # 1)
  BY <1>1 DEF Count
<1>4. c # Mark => Count(b, c) = b
  BY DEF Count
<1>5. (Toggled(s, c) <=> ~(s.inQuote <=> c = Mark)) /\ Toggled(s, c) \in BOOLEAN
  <2>1. s.inQuote \in BOOLEAN
    BY DEF Agreed
  <2>2. Toggled(s, c) = (s.inQuote # (c = Mark))
    BY Zenon DEF Toggled, Mark
  <2> QED BY <2>1, <2>2, Unlike, Zenon
<1>6. s.inQuote <=> b = 1
  BY DEF Agreed
<1>7. Toggled(s, c) <=> Count(b, c) = 1
  BY <1>3, <1>4, <1>5, <1>6, Zenon
<1> QED BY <1>2, <1>5, <1>7, Zenon DEF Agreed

HeldWords(C, words) == words \in Seq(Seq(C)) /\ \A k \in 1 .. Len(words) : Held(C, words[k])

LEMMA KeepHeld ==
  ASSUME NEW C, NEW words, HeldWords(C, words), NEW u, NEW b, UnderWay(C, u, b), NEW c \in C
  PROVE  HeldWords(C, Keep(words, Append(u, c)))
<1> DEFINE w == Append(u, c)
           x == Trim(w)
           D == Seq(C)
           m == Len(words)
<1>1. u \in Seq(C)
  BY DEF UnderWay
<1>2. w \in Seq(C)
  BY <1>1
<1>3. x = <<>> \/ Held(C, x)
  BY WordHeld
<1>4. words \in Seq(D) /\ \A k \in 1 .. m : Held(C, words[k])
  BY DEF HeldWords
<1>5. Keep(words, w) = IF x = <<>> THEN words ELSE Append(words, x)
  BY DEF Keep
<1>6. CASE x = <<>>
  BY <1>5, <1>6
<1>7. CASE x # <<>>
  <2>1. Held(C, x) /\ x \in D
    BY <1>3, <1>7 DEF Held
  <2> DEFINE r == Append(words, x)
  <2> HIDE DEF D, x, w
  <2>2. r \in Seq(D) /\ Len(r) = m + 1 /\ r[m + 1] = x /\ (\A k \in 1 .. m : r[k] = words[k]) /\ m \in Nat
    BY <1>4, <2>1
  <2> HIDE DEF r, m
  <2>3. ASSUME NEW k \in 1 .. m + 1 PROVE Held(C, r[k])
    <3>1. k = m + 1 \/ k \in 1 .. m
      BY <2>2
    <3> QED BY <1>4, <2>1, <2>2, <3>1
  <2>4. HeldWords(C, r)
    BY <2>2, <2>3, Zenon DEF HeldWords, D
  <2>5. Keep(words, w) = r
    BY <1>5, <1>7 DEF r
  <2> QED BY <2>4, <2>5 DEF w
<1> QED BY <1>6, <1>7

\* After a character that is not the last one, a word is under way.
Searched(C, s)  == s \in SearchState(C) /\ HeldWords(C, s.words)
Searching(C, s) == Searched(C, s) /\ \E b : UnderWay(C, s.word, b) /\ Agreed(s.inQuote, b)

LEMMA SoughtFields ==
  ASSUME NEW q, NEW words, NEW w
  PROVE  Sought2(q, words, w).inQuote = q /\ Sought2(q, words, w).words = words /\ Sought2(q, words, w).word = w
BY DEF Sought2

LEMMA EndsSearch ==
  ASSUME NEW q, NEW c, NEW last
  PROVE  EndsSearchWord(q, c, last) <=> (~q /\ c = Blank) \/ last
BY Zenon DEF EndsSearchWord, Blank

LEMMA SearchStep ==
  ASSUME NEW C, NEW s, Searching(C, s), NEW c \in C, NEW last
  PROVE  Searched(C, SearchTurn(s, c, last)) /\ (~last => Searching(C, SearchTurn(s, c, last)))
<1> DEFINE q == Toggled(s, c)
           w == Append(s.word, c)
           r == SearchTurn(s, c, last)
           z == <<>>
<1>1. s \in SearchState(C) /\ HeldWords(C, s.words)
  BY DEF Searched, Searching
<1>2. PICK b : UnderWay(C, s.word, b) /\ Agreed(s.inQuote, b)
  BY Zenon DEF Searching
<1> DEFINE d == Count(b, c)
<1>3. Agreed(q, d)
  BY <1>2, AgreedOn
<1>4. r \in SearchState(C)
  BY <1>1, SearchTurnType
<1>5. HeldWords(C, Keep(s.words, w))
  BY <1>1, <1>2, KeepHeld
<1>6. c = Blank /\ d = 1 => UnderWay(C, w, d)
  BY <1>2, GoesUnderWay
<1>7. c # Blank => UnderWay(C, w, d)
  BY <1>2, GoesUnderWay
<1>8. UnderWay(C, z, 0)
  BY Begins
<1>9. EndsSearchWord(q, c, last) <=> (~q /\ c = Blank) \/ last
  BY EndsSearch
<1>10. r = IF EndsSearchWord(q, c, last) THEN Sought2(q, Keep(s.words, w), z) ELSE Sought2(q, s.words, w)
  BY Zenon DEF SearchTurn
<1>11. d \in {0, 1} /\ (q <=> d = 1)
  BY <1>3 DEF Agreed
<1>12. ~q => d = 0
  BY <1>11
<1> HIDE DEF q, w, r, z, d
<1>13. CASE EndsSearchWord(q, c, last)
  <2>1. r = Sought2(q, Keep(s.words, w), z)
    BY <1>10, <1>13, Zenon
  <2>2. r.words = Keep(s.words, w) /\ r.word = z /\ r.inQuote = q
    BY <2>1, SoughtFields
  <2>3. ~last => d = 0
    BY <1>9, <1>12, <1>13, Zenon
  <2>4. ~last => UnderWay(C, r.word, d) /\ Agreed(r.inQuote, d)
    BY <1>3, <1>8, <2>2, <2>3, Zenon
  <2>5. HeldWords(C, r.words)
    BY <1>5, <2>2, Zenon
  <2> QED BY <1>4, <2>4, <2>5, Zenon DEF Searched, Searching, r
<1>14. CASE ~EndsSearchWord(q, c, last)
  <2>1. r = Sought2(q, s.words, w)
    BY <1>10, <1>14, Zenon
  <2>2. r.words = s.words /\ r.word = w /\ r.inQuote = q
    BY <2>1, SoughtFields
  <2>3. c = Blank => d = 1
    BY <1>9, <1>11, <1>14, Zenon
  <2>4. UnderWay(C, r.word, d) /\ Agreed(r.inQuote, d)
    BY <1>3, <1>6, <1>7, <2>2, <2>3, Zenon
  <2>5. HeldWords(C, r.words)
    BY <1>1, <2>2, Zenon
  <2> QED BY <1>4, <2>4, <2>5, Zenon DEF Searched, Searching, r
<1> QED BY <1>13, <1>14

LEMMA SearchBegins == ASSUME NEW C PROVE Searching(C, SearchStart)
<1> DEFINE z == <<>>
           D == Seq(C)
<1>1. SearchStart.inQuote = FALSE /\ SearchStart.words = z /\ SearchStart.word = z
  BY Zenon DEF SearchStart
<1>2. z \in Seq(D) /\ Len(z) = 0 /\ z \in D
  OBVIOUS
<1>3. HeldWords(C, z)
  <2> HIDE DEF z
  <2>1. \A k \in 1 .. Len(z) : Held(C, z[k])
    BY <1>2
  <2> QED BY <1>2, <2>1 DEF HeldWords
<1>4. UnderWay(C, z, 0)
  BY Begins
<1>5. Agreed(FALSE, 0)
  BY DEF Agreed
<1>6. SearchStart \in SearchState(C)
  BY DEF SearchStart, SearchState
<1> QED BY <1>1, <1>3, <1>4, <1>5, <1>6, Zenon DEF Searched, Searching

\* The words of a search are words.
LEMMA WordsOfSearch ==
  ASSUME NEW C, NEW t \in Seq(C)
  PROVE  HeldWords(C, ParseFilterString(t))
<1> DEFINE n == Len(t)
<1>1. PICK g \in [0 .. n -> SearchState(C)] :
        /\ g[0] = SearchStart /\ \A i \in 1 .. n : g[i] = SearchTurn(g[i - 1], t[i], i = n)
        /\ ParseFilterString(t) = g[n].words
  BY SearchScanned
<1>2. n \in Nat /\ \A i \in 1 .. n : t[i] \in C
  OBVIOUS
<1> HIDE DEF n
<1> DEFINE S == {k \in Nat : k < n => Searching(C, g[k])}
<1>3. 0 \in S
  BY <1>1, SearchBegins
<1>4. ASSUME NEW k \in Nat, k \in S PROVE k + 1 \in S
  <2> SUFFICES ASSUME k + 1 < n PROVE Searching(C, g[k + 1])
    OBVIOUS
  <2> DEFINE j == k + 1
  <2>1. j \in 1 .. n /\ j - 1 = k /\ Searching(C, g[k]) /\ ~(j = n) /\ j = k + 1
    BY <1>2, <1>4
  <2> HIDE DEF j
  <2>2. g[j] = SearchTurn(g[k], t[j], j = n) /\ t[j] \in C
    BY <1>1, <1>2, <2>1
  <2>3. ~(j = n) => Searching(C, g[j])
    BY <2>1, <2>2, SearchStep
  <2> QED BY <2>1, <2>3, Zenon
<1>5. CASE n = 0
  BY <1>1, <1>5, SearchBegins DEF Searched, Searching
<1>6. CASE n # 0
  <2>1. n \in 1 .. n /\ n - 1 \in Nat /\ n - 1 < n
    BY <1>2, <1>6
  <2>2. n - 1 \in S
    <3> HIDE DEF S
    <3>1. Nat \subseteq S
      BY <1>3, <1>4, SetInduction
    <3> QED BY <2>1, <3>1
  <2>3. Searching(C, g[n - 1])
    BY <2>1, <2>2
  <2>4. g[n] = SearchTurn(g[n - 1], t[n], n = n) /\ t[n] \in C
    BY <1>1, <1>2, <2>1
  <2>5. Searched(C, g[n])
    BY <2>3, <2>4, SearchStep
  <2> QED BY <1>1, <2>5 DEF Searched
<1> QED BY <1>5, <1>6

LEMMA AllWordsKeep == TextInv => SearchWordsKeepQuotes
<1> SUFFICES ASSUME TextInv PROVE SearchWordsKeepQuotes
  OBVIOUS
<1> DEFINE C == keys.chars
           words == ParseFilterString(text)
<1>1. HeldWords(C, words)
  BY WordsOfSearch DEF TextInv
<1> HIDE DEF words
<1>2. ASSUME NEW k \in DOMAIN words, NEW i \in DOMAIN words[k], words[k][i] = Blank
      PROVE  QuotesUpTo(words[k], i) % 2 = 1
  <2>1. Held(C, words[k])
    <3>1. words \in Seq(Seq(C)) /\ \A j \in 1 .. Len(words) : Held(C, words[j])
      BY <1>1 DEF HeldWords
    <3>2. DOMAIN words = 1 .. Len(words)
      BY <3>1
    <3> QED BY <1>2, <3>1, <3>2
  <2> QED BY <1>2, <2>1, BlanksInQuotes
<1> QED BY <1>2, Zenon DEF SearchWordsKeepQuotes, QuotesUpTo, Blank, Mark, words

\* One turn, when a word is read again.
Rereads(w, h, s, k) == s.words = <<>> /\ s.word = SubSeq(w, 1, k) /\ Agreed(s.inQuote, h[k])

LEMMA LongerStart ==
  ASSUME NEW C, NEW w \in Seq(C), NEW k \in 1 .. Len(w)
  PROVE  Append(SubSeq(w, 1, k - 1), w[k]) = SubSeq(w, 1, k)
<1> DEFINE a == 0
<1>1. a \in 0 .. k - 1 /\ a + 1 = 1
  OBVIOUS
<1> HIDE DEF a
<1>2. Append(SubSeq(w, a + 1, k - 1), w[k]) = SubSeq(w, a + 1, k)
  BY <1>1, LongerSpan
<1> QED BY <1>1, <1>2, Zenon

LEMMA RereadStep ==
  ASSUME NEW C, NEW w \in Seq(C), NEW h, Marks(w, h), BlanksIn(w, h), NEW s, NEW k \in 1 .. Len(w),
         Rereads(w, h, s, k - 1)
  PROVE  Rereads(w, h, SearchTurn(s, w[k], FALSE), k)
<1> DEFINE c == w[k]
           q == Toggled(s, c)
           v == Append(s.word, c)
           r == SearchTurn(s, c, FALSE)
<1>1. s.words = <<>> /\ s.word = SubSeq(w, 1, k - 1) /\ Agreed(s.inQuote, h[k - 1])
  BY DEF Rereads
<1>2. h[k] = Count(h[k - 1], c)
  BY DEF Marks
<1>3. Agreed(q, h[k])
  <2>1. Agreed(q, Count(h[k - 1], c))
    BY <1>1, AgreedOn
  <2> QED BY <1>2, <2>1
<1>4. v = SubSeq(w, 1, k)
  BY <1>1, LongerStart
<1>5. c = Blank => h[k] = 1
  BY DEF BlanksIn
<1>6. h[k] = 1 => q
  BY <1>3 DEF Agreed
<1>7. ~EndsSearchWord(q, c, FALSE)
  <2>1. EndsSearchWord(q, c, FALSE) <=> (~q /\ c = Blank) \/ FALSE
    BY EndsSearch
  <2> QED BY <1>5, <1>6, <2>1, Zenon
<1>8. r = IF EndsSearchWord(q, c, FALSE) THEN Sought2(q, Keep(s.words, v), <<>>) ELSE Sought2(q, s.words, v)
  BY Zenon DEF SearchTurn
<1> HIDE DEF q, v, r, c
<1>9. r = Sought2(q, s.words, v)
  BY <1>7, <1>8, Zenon
<1>10. r.words = s.words /\ r.word = v /\ r.inQuote = q
  BY <1>9, SoughtFields
<1>11. Rereads(w, h, r, k)
  BY <1>1, <1>3, <1>4, <1>10, Zenon DEF Rereads
<1> QED BY <1>11 DEF r, c

LEMMA RereadEnd ==
  ASSUME NEW C, NEW w, Held(C, w), NEW h, NEW s, NEW n, n = Len(w), Rereads(w, h, s, n - 1)
  PROVE  SearchTurn(s, w[n], TRUE).words = <<w>>
<1> DEFINE c == w[n]
           q == Toggled(s, c)
           v == Append(s.word, c)
           r == SearchTurn(s, c, TRUE)
           z == <<>>
           u == <<w>>
<1>1. w \in Seq(C) /\ w # <<>> /\ w[1] \notin WhiteSpace /\ w[Len(w)] \notin WhiteSpace
  BY DEF Held
<1>2. n \in 1 .. Len(w)
  BY <1>1
<1>3. s.words = z /\ s.word = SubSeq(w, 1, n - 1)
  BY DEF Rereads
<1>4. v = w
  <2>1. v = SubSeq(w, 1, n)
    BY <1>1, <1>2, <1>3, LongerStart
  <2>2. SubSeq(w, 1, n) = w
    BY <1>1, SubSeqFull
  <2> QED BY <2>1, <2>2
<1>5. Trim(w) = w
  BY <1>1, TrimKeeps
<1>6. EndsSearchWord(q, c, TRUE)
  BY EndsSearch
<1>7. r = IF EndsSearchWord(q, c, TRUE) THEN Sought2(q, Keep(s.words, v), z) ELSE Sought2(q, s.words, v)
  BY Zenon DEF SearchTurn
<1>8. Keep(z, w) = u
  <2>1. Keep(z, w) = IF Trim(w) = <<>> THEN z ELSE Append(z, Trim(w))
    BY Zenon DEF Keep
  <2>2. Keep(z, w) = Append(z, w)
    BY <1>1, <1>5, <2>1, Zenon
  <2>3. Append(z, w) = u
    OBVIOUS
  <2> QED BY <2>2, <2>3, Zenon
<1> HIDE DEF q, v, r, c, z, u
<1>9. r = Sought2(q, Keep(s.words, v), z)
  BY <1>6, <1>7, Zenon
<1>10. r.words = Keep(s.words, v)
  BY <1>9, SoughtFields
<1>11. r.words = u
  BY <1>3, <1>4, <1>8, <1>10, Zenon
<1> QED BY <1>11 DEF r, c, u

\* A word, searched for alone, is one word.
LEMMA OneWord ==
  ASSUME NEW C, NEW w, Held(C, w)
  PROVE  ParseFilterString(w) = <<w>>
<1> DEFINE n == Len(w)
<1>1. w \in Seq(C) /\ w # <<>>
  BY DEF Held
<1>2. PICK h : Marks(w, h) /\ BlanksIn(w, h)
  BY Zenon DEF Held
<1>3. PICK g \in [0 .. n -> SearchState(C)] :
        /\ g[0] = SearchStart /\ \A i \in 1 .. n : g[i] = SearchTurn(g[i - 1], w[i], i = n)
        /\ ParseFilterString(w) = g[n].words
  BY <1>1, SearchScanned
<1>4. n \in Nat /\ n # 0 /\ n = Len(w)
  BY <1>1
<1> HIDE DEF n
<1> DEFINE S == {k \in Nat : k < n => Rereads(w, h, g[k], k)}
<1>5. 0 \in S
  <2>1. SearchStart.inQuote = FALSE /\ SearchStart.words = <<>> /\ SearchStart.word = <<>>
    BY Zenon DEF SearchStart
  <2>2. h[0] = 0
    BY <1>2 DEF Marks
  <2>3. Agreed(FALSE, 0)
    BY DEF Agreed
  <2>4. SubSeq(w, 1, 0) = <<>>
    BY SubSeqEmpty
  <2>5. Rereads(w, h, g[0], 0)
    BY <1>3, <2>1, <2>2, <2>3, <2>4, Zenon DEF Rereads
  <2> QED BY <2>5
<1>6. ASSUME NEW k \in Nat, k \in S PROVE k + 1 \in S
  <2> SUFFICES ASSUME k + 1 < n PROVE Rereads(w, h, g[k + 1], k + 1)
    OBVIOUS
  <2> DEFINE j == k + 1
  <2>1. j \in 1 .. n /\ j - 1 = k /\ Rereads(w, h, g[k], k) /\ ~(j = n)
    BY <1>4, <1>6
  <2> HIDE DEF j
  <2>2. g[j] = SearchTurn(g[k], w[j], j = n)
    BY <1>3, <2>1
  <2>3. (j = n) = FALSE
    BY <2>1
  <2>4. g[j] = SearchTurn(g[k], w[j], FALSE)
    BY <2>2, <2>3, Zenon
  <2>5. Rereads(w, h, g[j], j)
    <3>1. j \in 1 .. Len(w) /\ Rereads(w, h, g[k], j - 1)
      BY <1>4, <2>1
    <3>2. Rereads(w, h, SearchTurn(g[k], w[j], FALSE), j)
      BY <1>1, <1>2, <3>1, RereadStep
    <3> QED BY <2>4, <3>2, Zenon
  <2> QED BY <2>5 DEF j
<1>7. n - 1 \in Nat /\ n - 1 < n /\ n \in 1 .. n
  BY <1>4
<1>8. Rereads(w, h, g[n - 1], n - 1)
  <2>1. n - 1 \in S
    <3> HIDE DEF S
    <3>1. Nat \subseteq S
      BY <1>5, <1>6, SetInduction
    <3> QED BY <1>7, <3>1
  <2> QED BY <1>7, <2>1
<1>9. g[n] = SearchTurn(g[n - 1], w[n], n = n)
  BY <1>3, <1>7
<1>10. (n = n) = TRUE
  OBVIOUS
<1>11. g[n] = SearchTurn(g[n - 1], w[n], TRUE)
  BY <1>9, <1>10, Zenon
<1>12. SearchTurn(g[n - 1], w[n], TRUE).words = <<w>>
  BY <1>4, <1>8, RereadEnd
<1> QED BY <1>3, <1>11, <1>12, Zenon

-----------------------------------------------------------------------------
\* A text between quotes.
NoMarks(t) == \A i \in DOMAIN t : t[i] # Mark

LEMMA MarkedChars ==
  ASSUME NEW C, Mark \in C, NEW t \in Seq(C), NEW w, w = BetweenQuotes(t)
  PROVE  /\ w \in Seq(C) /\ Len(w) = Len(t) + 2 /\ w[1] = Mark /\ w[Len(t) + 2] = Mark
         /\ \A i \in 1 .. Len(t) : w[i + 1] = t[i]
<1> DEFINE u == <<Mark>>
           n == Len(t)
           p == u \o t
<1>1. w = p \o u
  BY Zenon DEF BetweenQuotes, Mark
<1>2. n \in Nat /\ n = Len(t)
  OBVIOUS
<1>3. u \in Seq(C) /\ Len(u) = 1 /\ u[1] = Mark
  OBVIOUS
<1> HIDE DEF u, n
<1>4. p \in Seq(C) /\ Len(p) = 1 + n /\ (\A i \in 1 .. 1 : p[i] = u[i]) /\ \A i \in 1 .. n : p[1 + i] = t[i]
  <2>1. InARow(C, p, u, t)
    BY <1>3, BothJoined
  <2> QED BY <1>2, <1>3, <2>1, Zenon DEF InARow
<1> HIDE DEF p
<1>5. w \in Seq(C) /\ Len(w) = (1 + n) + 1 /\ (\A i \in 1 .. 1 + n : w[i] = p[i]) /\ \A i \in 1 .. 1 : w[(1 + n) + i] = u[i]
  <2>1. InARow(C, w, p, u)
    BY <1>1, <1>3, <1>4, BothJoined, Zenon
  <2> QED BY <1>2, <1>3, <1>4, <2>1, Zenon DEF InARow
<1>6. Len(w) = n + 2 /\ w[1] = Mark /\ w[n + 2] = Mark
  BY <1>2, <1>3, <1>4, <1>5
<1>7. ASSUME NEW i \in 1 .. n PROVE w[i + 1] = t[i]
  BY <1>2, <1>4, <1>5
<1> QED BY <1>2, <1>5, <1>6, <1>7

\* is one word.
LEMMA MarkedHeld ==
  ASSUME NEW C, Mark \in C, NEW t \in Seq(C), NoMarks(t)
  PROVE  Held(C, BetweenQuotes(t))
<1> DEFINE w == BetweenQuotes(t)
           n == Len(t)
           h == [i \in 0 .. n + 2 |-> IF i = 0 \/ i = n + 2 THEN 0 ELSE 1]
<1>1. n \in Nat /\ \A i \in 1 .. n : t[i] # Mark
  BY DEF NoMarks
<1>2. /\ w \in Seq(C) /\ Len(w) = n + 2 /\ w[1] = Mark /\ w[n + 2] = Mark
      /\ \A i \in 1 .. n : w[i + 1] = t[i]
  BY MarkedChars
<1> HIDE DEF w, n
<1>3. /\ h \in [0 .. n + 2 -> {0, 1}] /\ h[0] = 0 /\ h[n + 2] = 0
      /\ \A i \in 1 .. n + 1 : h[i] = 1
  BY <1>1
<1> HIDE DEF h
<1>4. ASSUME NEW i \in 1 .. n + 2 PROVE h[i] = Count(h[i - 1], w[i]) /\ (w[i] = Blank => h[i] = 1)
  <2>1. CASE i = 1
    <3>1. h[i] = 1 /\ h[i - 1] = 0 /\ w[i] = Mark
      BY <1>1, <1>2, <1>3, <2>1
    <3> QED BY <3>1 DEF Count
  <2>2. CASE i = n + 2
    <3>1. h[i] = 0 /\ h[i - 1] = 1 /\ w[i] = Mark
      BY <1>1, <1>2, <1>3, <2>2
    <3> QED BY <3>1, MarkIsSeen DEF Count
  <2>3. CASE i # 1 /\ i # n + 2
    <3> DEFINE j == i - 1
    <3>1. j \in 1 .. n /\ i = j + 1 /\ i \in 1 .. n + 1 /\ j \in 1 .. n + 1
      BY <1>1, <2>3
    <3> HIDE DEF j
    <3>2. h[i] = 1 /\ h[j] = 1 /\ w[i] = t[j] /\ t[j] # Mark
      BY <1>1, <1>2, <1>3, <3>1
    <3>3. Count(h[j], w[i]) = 1
      BY <3>2 DEF Count
    <3> QED BY <3>2, <3>3 DEF j
  <2> QED BY <2>1, <2>2, <2>3
<1>5. Marks(w, h) /\ BlanksIn(w, h)
  BY <1>2, <1>3, <1>4 DEF Marks, BlanksIn
<1>6. w # <<>> /\ w[1] \notin WhiteSpace /\ w[Len(w)] \notin WhiteSpace
  BY <1>1, <1>2, MarkIsSeen
<1> QED BY <1>2, <1>5, <1>6, Zenon DEF Held, w

-----------------------------------------------------------------------------
\* A text without its quotes.
UnquotedTurn(s, c) == IF c = Mark THEN s ELSE Append(s, c)

LEMMA UnquotedScanned ==
  ASSUME NEW C, NEW t \in Seq(C)
  PROVE  \E g \in [0 .. Len(t) -> Seq(C)] :
           /\ g[0] = <<>> /\ \A i \in 1 .. Len(t) : g[i] = UnquotedTurn(g[i - 1], t[i])
           /\ Unquoted(t) = g[Len(t)]
<1> DEFINE n == Len(t)
           D == Seq(C)
           a == <<>>
           J(s, i) == UnquotedTurn(s, t[i])
           G == [z \in D \X (1 .. n) |-> J(z[1], z[2])]
           F(f) == [i \in 0 .. n |-> IF i = 0 THEN a ELSE J(f[i - 1], i)]
           scan == CHOOSE f : f = F(f)
<1>1. n \in Nat /\ a \in D
  OBVIOUS
<1>2. ASSUME NEW s \in D, NEW i \in 1 .. n PROVE J(s, i) \in D
  <2>1. t[i] \in C
    OBVIOUS
  <2>2. Append(s, t[i]) \in D
    BY <1>2, <2>1
  <2> QED BY <1>2, <2>2 DEF UnquotedTurn
<1>3. Unquoted(t) = scan[n]
  BY Zenon DEF Unquoted, UnquotedTurn, Mark
<1> HIDE DEF n, D, a, J
<1>4. G \in Steps(D, n) /\ \A s \in D, i \in 1 .. n : G[<<s, i>>] = J(s, i)
  BY <1>2 DEF Steps
<1> HIDE DEF G
<1>5. PICK f : Built(f, D, a, n, G)
  BY <1>1, <1>4, Recursion
<1>6. f \in [0 .. n -> D] /\ f[0] = a /\ \A i \in 1 .. n : f[i] = J(f[i - 1], i)
  <2>1. f \in [0 .. n -> D] /\ f[0] = a /\ \A i \in 1 .. n : f[i] = G[<<f[i - 1], i>>]
    BY <1>5, Zenon DEF Built
  <2>2. \A i \in 1 .. n : f[i - 1] \in D
    BY <1>1, <2>1
  <2> QED BY <1>4, <2>1, <2>2, Zenon
<1>7. f = F(f)
  BY <1>1, <1>6
<1>8. scan = F(scan)
  BY <1>7
<1> HIDE DEF scan
<1>9. scan[0] = a /\ \A i \in 1 .. n : scan[i] = J(scan[i - 1], i)
  BY <1>1, <1>8
<1> HIDE DEF F
<1>10. scan[n] = f[n]
  <2>1. \A i \in 1 .. n : scan[i - 1] = f[i - 1] => scan[i] = f[i]
    BY <1>6, <1>9
  <2>2. scan[0] = f[0]
    BY <1>6, <1>9
  <2> QED BY <1>1, <2>1, <2>2, SameScan
<1> QED BY <1>3, <1>6, <1>10, Zenon DEF n, D, a, J

\* What stands between two quotes, and has none, is what is left.
LEMMA UnquotedIs ==
  ASSUME NEW C, NEW x \in Seq(C), NoMarks(x), NEW w \in Seq(C), Len(w) = Len(x) + 2,
         w[1] = Mark, w[Len(x) + 2] = Mark, \A i \in 1 .. Len(x) : w[i + 1] = x[i]
  PROVE  Unquoted(w) = x
<1> DEFINE n == Len(x)
<1>1. PICK g \in [0 .. Len(w) -> Seq(C)] :
           /\ g[0] = <<>> /\ \A i \in 1 .. Len(w) : g[i] = UnquotedTurn(g[i - 1], w[i])
           /\ Unquoted(w) = g[Len(w)]
  BY UnquotedScanned
<1>2. n \in Nat /\ n = Len(x) /\ \A i \in 1 .. n : x[i] # Mark
  BY DEF NoMarks
<1> HIDE DEF n
<1>3. /\ Len(w) = n + 2 /\ w[1] = Mark /\ w[n + 2] = Mark
      /\ \A i \in 1 .. n : w[i + 1] = x[i]
  BY <1>2
<1> DEFINE S == {k \in Nat : k <= n => g[k + 1] = SubSeq(x, 1, k)}
<1>4. 0 \in S
  <2>1. g[1] = UnquotedTurn(g[0], w[1])
    <3>1. 1 \in 1 .. Len(w) /\ 1 - 1 = 0
      BY <1>2, <1>3
    <3> QED BY <1>1, <3>1
  <2>2. g[1] = <<>>
    BY <1>1, <1>3, <2>1 DEF UnquotedTurn
  <2>3. SubSeq(x, 1, 0) = <<>>
    BY SubSeqEmpty
  <2>4. 0 + 1 = 1
    OBVIOUS
  <2> QED BY <2>2, <2>3, <2>4
<1>5. ASSUME NEW k \in Nat, k \in S PROVE k + 1 \in S
  <2> SUFFICES ASSUME k + 1 <= n PROVE g[(k + 1) + 1] = SubSeq(x, 1, k + 1)
    OBVIOUS
  <2> DEFINE j == k + 1
             m == j + 1
  <2>1. j \in 1 .. n /\ j - 1 = k /\ g[j] = SubSeq(x, 1, j - 1) /\ m = j + 1 /\ m \in 1 .. Len(w) /\ m - 1 = j
    BY <1>2, <1>3, <1>5
  <2> HIDE DEF j, m
  <2>2. g[m] = UnquotedTurn(g[j], w[m])
    BY <1>1, <2>1
  <2>3. w[m] = x[j] /\ x[j] # Mark
    BY <1>2, <1>3, <2>1
  <2>4. g[m] = Append(SubSeq(x, 1, j - 1), x[j])
    BY <2>1, <2>2, <2>3 DEF UnquotedTurn
  <2>5. g[m] = SubSeq(x, 1, j)
    <3>1. j \in 1 .. Len(x)
      BY <1>2, <2>1
    <3> QED BY <2>4, <3>1, LongerStart
  <2> QED BY <2>5 DEF m, j
<1>6. g[n + 1] = SubSeq(x, 1, n)
  <2>1. n \in S
    BY <1>2, <1>4, <1>5, SetInduction
  <2> QED BY <1>2, <2>1
<1>7. g[n + 2] = g[n + 1]
  <2>1. n + 2 \in 1 .. Len(w) /\ (n + 2) - 1 = n + 1
    BY <1>2, <1>3
  <2>2. g[n + 2] = UnquotedTurn(g[n + 1], w[n + 2])
    BY <1>1, <2>1
  <2> QED BY <1>3, <2>2 DEF UnquotedTurn
<1>8. SubSeq(x, 1, n) = x
  BY <1>2, SubSeqFull
<1> QED BY <1>1, <1>3, <1>6, <1>7, <1>8

LEMMA LowOfMark == Low(Mark) = Mark /\ \A c : c # Mark => Low(c) # Mark
BY Zenon DEF Low, Mark

\* A cell satisfies its text in quotes.
LEMMA SatisfiesQuoted ==
  ASSUME NEW C, "a" \in C, Mark \in C, NEW t \in Seq(C), NoMarks(t)
  PROVE  Satisfies(t, BetweenQuotes(t))
<1> DEFINE n == Len(t)
           b == BetweenQuotes(t)
           w == LowerCase(b)
           x == LowerCase(t)
<1>1. n \in Nat /\ (\A i \in 1 .. n : t[i] # Mark) /\ n = Len(t)
  BY DEF NoMarks
<1>2. /\ b \in Seq(C) /\ Len(b) = n + 2 /\ b[1] = Mark /\ b[n + 2] = Mark
      /\ \A i \in 1 .. n : b[i + 1] = t[i]
  BY MarkedChars
<1>3. x \in Seq(C) /\ Len(x) = Len(t) /\ \A i \in 1 .. Len(t) : x[i] = Low(t[i])
  BY LowerIs
<1> HIDE DEF b, x
<1>4. w \in Seq(C) /\ Len(w) = Len(b) /\ \A i \in 1 .. Len(b) : w[i] = Low(b[i])
  BY <1>2, LowerIs
<1> HIDE DEF n, w
<1>5. Len(w) = n + 2 /\ w[1] = Mark /\ w[n + 2] = Mark
  <2>1. 1 \in 1 .. Len(b) /\ n + 2 \in 1 .. Len(b)
    BY <1>1, <1>2
  <2> QED BY <1>2, <1>4, <2>1, LowOfMark
<1>6. \A i \in 1 .. n : w[i + 1] = x[i]
  <2>1. \A i \in 1 .. n : i + 1 \in 1 .. Len(b)
    BY <1>1, <1>2
  <2> QED BY <1>1, <1>2, <1>3, <1>4, <2>1
<1>7. NoMarks(x)
  <2>1. DOMAIN x = 1 .. n
    BY <1>1, <1>3
  <2>2. \A i \in 1 .. n : x[i] # Mark
    BY <1>1, <1>3, LowOfMark
  <2> QED BY <2>1, <2>2 DEF NoMarks
<1>8. Len(x) = n
  BY <1>1, <1>3
<1>9. Unquoted(w) = x
  BY <1>3, <1>4, <1>5, <1>6, <1>7, <1>8, UnquotedIs
<1>10. InQuotes(b)
  <2>1. b # <<>>
    BY <1>1, <1>2
  <2>2. b[1] = Mark /\ b[Len(b)] = Mark
    BY <1>2
  <2> QED BY <2>1, <2>2, Zenon DEF InQuotes, Mark
<1> QED BY <1>9, <1>10, Zenon DEF Satisfies, b, w, x

-----------------------------------------------------------------------------
\* A row matches when each word is satisfied by one of its cells.
FoundIn(row, words, i) == {k \in DOMAIN words : \E j \in 1 .. i : Satisfies(row[j], words[k])}
AllFoundIn(row, words) == \A k \in DOMAIN words : \E j \in DOMAIN row : Satisfies(row[j], words[k])

LEMMA FoundTurn ==
  ASSUME NEW row, NEW words, NEW i \in Nat, i > 0
  PROVE  FoundIn(row, words, i) =
           IF FoundIn(row, words, i - 1) = DOMAIN words THEN FoundIn(row, words, i - 1)
           ELSE FoundIn(row, words, i - 1) \cup {k \in DOMAIN words : Satisfies(row[i], words[k])}
<1> DEFINE B == {k \in DOMAIN words : Satisfies(row[i], words[k])}
           U == FoundIn(row, words, i - 1)
           V == FoundIn(row, words, i)
<1>1. \A j : j \in 1 .. i <=> j \in 1 .. i - 1 \/ j = i
  OBVIOUS
<1>2. V = U \cup B
  BY <1>1, Zenon DEF FoundIn
<1>3. B \subseteq DOMAIN words
  OBVIOUS
<1> HIDE DEF U, V, B
<1>4. V = IF U = DOMAIN words THEN U ELSE U \cup B
  BY <1>2, <1>3
<1> QED BY <1>4, Zenon DEF U, V, B

LEMMA FoundAll ==
  ASSUME NEW X, NEW row \in Seq(X), NEW Y, NEW words \in Seq(Y)
  PROVE  FilterAndMatched(row, words) <=> AllFoundIn(row, words)
<1> DEFINE n == Len(row)
           K == DOMAIN words
           B(i) == {k \in K : Satisfies(row[i], words[k])}
           J(s, i) == IF s = K THEN s ELSE s \cup B(i)
           a == {}
           F(f) == [i \in 0 .. n |-> IF i = 0 THEN a ELSE J(f[i - 1], i)]
           found == CHOOSE f : f = F(f)
           U(i) == FoundIn(row, words, i)
           g == [i \in 0 .. n |-> U(i)]
<1>1. n \in Nat /\ DOMAIN row = 1 .. n
  OBVIOUS
<1>2. FilterAndMatched(row, words) <=> words = <<>> \/ found[n] = K
  BY Zenon DEF FilterAndMatched
<1>3. U(0) = a
  BY DEF FoundIn
<1>4. \A i \in 1 .. n : U(i) = J(U(i - 1), i)
  <2> SUFFICES ASSUME NEW i \in 1 .. n PROVE U(i) = J(U(i - 1), i)
    OBVIOUS
  <2>1. i \in Nat /\ i > 0
    BY <1>1
  <2> QED BY <2>1, FoundTurn
<1>5. words = <<>> => K = {}
  OBVIOUS
<1>6. U(n) = K <=> AllFoundIn(row, words)
  BY <1>1, Zenon DEF FoundIn, AllFoundIn
<1>7. K = {} => AllFoundIn(row, words)
  BY DEF AllFoundIn
<1> HIDE DEF n, K, B, U, J, a
<1>8. g[0] = a /\ g[n] = U(n) /\ \A i \in 1 .. n : g[i] = J(g[i - 1], i)
  <2>1. \A i \in 0 .. n : g[i] = U(i)
    OBVIOUS
  <2>2. 0 \in 0 .. n /\ n \in 0 .. n /\ \A i \in 1 .. n : i \in 0 .. n /\ i - 1 \in 0 .. n
    BY <1>1
  <2> HIDE DEF g
  <2> QED BY <1>3, <1>4, <2>1, <2>2
<1> DEFINE D == {U(i) : i \in 0 .. n}
<1>9. g \in [0 .. n -> D]
  OBVIOUS
<1> HIDE DEF g, D
<1>10. g = F(g)
  BY <1>1, <1>8, <1>9
<1>11. found = F(found)
  BY <1>10
<1> HIDE DEF found
<1>12. found[0] = a /\ \A i \in 1 .. n : found[i] = J(found[i - 1], i)
  BY <1>1, <1>11
<1> HIDE DEF F
<1>13. found[n] = g[n]
  <2>1. \A i \in 1 .. n : found[i - 1] = g[i - 1] => found[i] = g[i]
    BY <1>8, <1>12
  <2>2. found[0] = g[0]
    BY <1>8, <1>12
  <2> QED BY <1>1, <2>1, <2>2, SameScan
<1> QED BY <1>2, <1>5, <1>6, <1>7, <1>8, <1>13

-----------------------------------------------------------------------------
\* The rows of the result table.
HasPieces(row, t) ==
  \A k \in DOMAIN SplitAt(LowerCase(t), " ") :
    \E i \in DOMAIN row : IsInfix(Trim(SplitAt(LowerCase(t), " ")[k]), LowerCase(row[i]))

\* A row that has the text in a cell has all its pieces.
LEMMA TextHasPieces ==
  ASSUME NEW C, "a" \in C, NEW t \in Seq(C), NEW row, NEW i \in DOMAIN row, row[i] = t
  PROVE  HasPieces(row, t)
<1> DEFINE sep == " "
           u == LowerCase(t)
           parts == SplitAt(u, sep)
<1>1. u \in Seq(C)
  BY LowerIs
<1> HIDE DEF u, sep
<1>2. parts \in PieceList(C) /\ \A j \in 1 .. Len(parts) : IsInfix(parts[j], u)
  BY <1>1, SplitPieces
<1> HIDE DEF parts
<1>3. ASSUME NEW k \in DOMAIN parts PROVE IsInfix(Trim(parts[k]), u)
  <2>1. DOMAIN parts = 1 .. Len(parts) /\ \A j \in 1 .. Len(parts) : parts[j] \in Seq(C)
    <3> DEFINE D == Seq(C)
    <3>1. parts \in Seq(D)
      BY <1>2 DEF PieceList
    <3> HIDE DEF D
    <3>2. DOMAIN parts = 1 .. Len(parts) /\ \A j \in 1 .. Len(parts) : parts[j] \in D
      BY <3>1
    <3> QED BY <3>2 DEF D
  <2> DEFINE p == parts[k]
  <2>2. p \in Seq(C) /\ IsInfix(p, u)
    BY <1>2, <1>3, <2>1
  <2> HIDE DEF p
  <2>3. Trim(p) \in Seq(C) /\ IsInfix(Trim(p), p)
    BY <2>2, TrimInfix
  <2>4. IsInfix(Trim(p), u)
    BY <1>1, <2>2, <2>3, InfixOfPart
  <2> QED BY <2>4 DEF p
<1>4. LowerCase(row[i]) = u
  BY Zenon DEF u
<1> QED BY <1>3, <1>4, Zenon DEF HasPieces, parts, u, sep

\* Rows that all have the pieces are all shown, up to the limit.
LEMMA AllShown ==
  ASSUME NEW X, NEW rows \in Seq(X), NEW t, NEW limit \in Int, limit <= -1 \/ limit >= Len(rows),
         \A r \in DOMAIN rows : HasPieces(rows[r], t)
  PROVE  FilterRows(rows, t, limit) = rows
<1> DEFINE n == Len(rows)
           shown == IF limit > -1 /\ limit < Len(rows) THEN limit ELSE Len(rows)
           J(s, r) == IF HasPieces(rows[r], t) THEN Append(s, rows[r]) ELSE s
           F(f) == [r \in 0 .. shown |-> IF r = 0 THEN <<>> ELSE J(f[r - 1], r)]
           found == CHOOSE f : f = F(f)
           U(i) == SubSeq(rows, 1, i)
           g == [i \in 0 .. n |-> U(i)]
<1>1. n \in Nat /\ DOMAIN rows = 1 .. n
  OBVIOUS
<1>2. shown = n
  <2>1. ASSUME NEW m \in Nat, limit <= -1 \/ limit >= m PROVE (IF limit > -1 /\ limit < m THEN limit ELSE m) = m
    BY <2>1
  <2> QED BY <1>1, <2>1
<1>3. FilterRows(rows, t, limit) = found[shown]
  BY Zenon DEF FilterRows, HasPieces
<1>4. U(0) = <<>>
  BY SubSeqEmpty
<1>5. \A i \in 1 .. n : U(i) = J(U(i - 1), i)
  <2>1. \A i \in 1 .. n : U(i) = Append(U(i - 1), rows[i])
    BY LongerStart
  <2>2. \A i \in 1 .. n : HasPieces(rows[i], t)
    BY <1>1
  <2> QED BY <2>1, <2>2, Zenon
<1>6. U(n) = rows
  BY SubSeqFull
<1> HIDE DEF n, U, shown, J
<1>7. g[0] = <<>> /\ g[n] = U(n) /\ \A i \in 1 .. n : g[i] = J(g[i - 1], i)
  <2>1. \A i \in 0 .. n : g[i] = U(i)
    OBVIOUS
  <2>2. 0 \in 0 .. n /\ n \in 0 .. n /\ \A i \in 1 .. n : i \in 0 .. n /\ i - 1 \in 0 .. n
    BY <1>1
  <2> HIDE DEF g
  <2> QED BY <1>4, <1>5, <2>1, <2>2
<1> DEFINE D == {U(i) : i \in 0 .. n}
<1>8. g \in [0 .. n -> D]
  OBVIOUS
<1> HIDE DEF g, D
<1>9. g = F(g)
  BY <1>1, <1>2, <1>7, <1>8
<1>10. found = F(found)
  BY <1>9
<1> HIDE DEF found
<1>11. found[0] = <<>> /\ \A i \in 1 .. n : found[i] = J(found[i - 1], i)
  BY <1>1, <1>2, <1>10
<1> HIDE DEF F
<1>12. found[n] = g[n]
  <2>1. \A i \in 1 .. n : found[i - 1] = g[i - 1] => found[i] = g[i]
    BY <1>7, <1>11
  <2>2. found[0] = g[0]
    BY <1>7, <1>11
  <2> QED BY <1>1, <2>1, <2>2, SameScan
<1> QED BY <1>2, <1>3, <1>6, <1>7, <1>12

HasMark(t) == Has(t, <<"\"">>)

LEMMA LacksMark ==
  ASSUME NEW C, Mark \in C, NEW t \in Seq(C), ~HasMark(t)
  PROVE  NoMarks(t)
<1> DEFINE m == <<Mark>>
<1>1. ~IsInfix(m, t)
  BY Zenon DEF HasMark, Has, Mark
<1>2. m \in Seq(C) /\ Len(m) = 1 /\ m[1] = Mark
  OBVIOUS
<1> HIDE DEF m
<1>3. ASSUME NEW i \in 1 .. Len(t), t[i] = Mark PROVE FALSE
  <2> DEFINE j == i - 1
  <2>1. j \in Nat /\ j + 1 = i /\ j + 1 <= Len(t)
    OBVIOUS
  <2> HIDE DEF j
  <2>2. \A y \in 1 .. 1 : t[j + y] = m[y]
    BY <1>2, <1>3, <2>1
  <2>3. PartAt(m, t, j)
    BY <1>2, <2>1, <2>2 DEF PartAt
  <2> QED BY <1>1, <1>2, <2>3, InfixPlace
<1>4. DOMAIN t = 1 .. Len(t)
  OBVIOUS
<1> QED BY <1>3, <1>4 DEF NoMarks

\* The search for a text in quotes is one word.
LEMMA QuotedWord ==
  ASSUME NEW C, Mark \in C, NEW t \in Seq(C), NoMarks(t)
  PROVE  ParseFilterString(BetweenQuotes(t)) = <<BetweenQuotes(t)>>
<1> DEFINE w == BetweenQuotes(t)
<1>1. Held(C, w)
  BY MarkedHeld
<1> HIDE DEF w
<1>2. ParseFilterString(w) = <<w>>
  BY <1>1, OneWord
<1> QED BY <1>2 DEF w

\* A row that satisfies one word is found by it.
LEMMA FoundByOne ==
  ASSUME NEW X, NEW row \in Seq(X), NEW w, NEW i \in DOMAIN row, Satisfies(row[i], w)
  PROVE  FilterAndMatched(row, <<w>>)
<1> DEFINE u == <<w>>
           Y == {w}
<1>1. u \in Seq(Y) /\ DOMAIN u = {1} /\ u[1] = w
  OBVIOUS
<1> HIDE DEF u, Y
<1>2. AllFoundIn(row, u)
  BY <1>1, Zenon DEF AllFoundIn
<1>3. FilterAndMatched(row, u)
  BY <1>1, <1>2, FoundAll
<1> QED BY <1>3 DEF u

\* A row found by some words is found by each of them.
LEMMA FoundByEach ==
  ASSUME NEW X, NEW row \in Seq(X), NEW Y, NEW words \in Seq(Y), FilterAndMatched(row, words), NEW k \in DOMAIN words
  PROVE  FilterAndMatched(row, <<words[k]>>)
<1>1. AllFoundIn(row, words)
  BY FoundAll
<1>2. PICK i \in DOMAIN row : Satisfies(row[i], words[k])
  BY <1>1 DEF AllFoundIn
<1> QED BY <1>2, FoundByOne

\* Every text that is typed, searched for in a row that has it.
LEMMA AllRows == TextInv => RowIsFound
<1> SUFFICES ASSUME TextInv PROVE RowIsFound
  OBVIOUS
<1> DEFINE C == keys.chars \cup {Mark, "a", "x"}
           D == Seq(C)
           x == <<"x">>
           row == <<x, text>>
           rows == <<row>>
<1>1. Mark \in C /\ "a" \in C /\ keys.chars \subseteq C /\ "x" \in C
  OBVIOUS
<1> HIDE DEF C
<1>2. text \in D /\ x \in D
  <2>1. text \in Seq(C)
    BY <1>1, WiderSeq DEF TextInv
  <2>2. x \in Seq(C)
    BY <1>1
  <2> QED BY <2>1, <2>2
<1> HIDE DEF D, x
<1>3. row \in Seq(D) /\ DOMAIN row = {1, 2} /\ row[2] = text
  BY <1>2
<1> HIDE DEF row
<1>4. ASSUME ~HasMark(text) PROVE FilterAndMatched(row, ParseFilterString(BetweenQuotes(text)))
  <2>1. text \in Seq(C)
    BY <1>2 DEF D
  <2>2. NoMarks(text)
    BY <1>1, <1>4, <2>1, LacksMark
  <2>3. ParseFilterString(BetweenQuotes(text)) = <<BetweenQuotes(text)>>
    BY <1>1, <2>1, <2>2, QuotedWord
  <2>4. Satisfies(text, BetweenQuotes(text))
    BY <1>1, <2>1, <2>2, SatisfiesQuoted
  <2> DEFINE w == BetweenQuotes(text)
  <2>5. Satisfies(row[2], w) /\ 2 \in DOMAIN row
    BY <1>3, <2>4
  <2> HIDE DEF w
  <2>6. FilterAndMatched(row, <<w>>)
    BY <1>3, <2>5, FoundByOne
  <2> QED BY <2>3, <2>6, Zenon DEF w
<1>5. ASSUME NEW limit \in {-1, 1} PROVE FilterRows(rows, text, limit) # <<>>
  <2>1. rows \in Seq({row}) /\ Len(rows) = 1 /\ DOMAIN rows = {1} /\ rows[1] = row /\ rows # <<>>
    OBVIOUS
  <2>2. HasPieces(row, text)
    <3>1. text \in Seq(C) /\ 2 \in DOMAIN row
      BY <1>2, <1>3 DEF D
    <3> QED BY <1>1, <1>3, <3>1, TextHasPieces
  <2> HIDE DEF rows
  <2>3. limit \in Int /\ (limit <= -1 \/ limit >= Len(rows))
    BY <1>5, <2>1
  <2>4. \A r \in DOMAIN rows : HasPieces(rows[r], text)
    BY <2>1, <2>2
  <2>5. FilterRows(rows, text, limit) = rows
    BY <2>1, <2>3, <2>4, AllShown
  <2> QED BY <2>1, <2>5
<1> QED BY <1>4, <1>5, Zenon DEF RowIsFound, HasMark, rows, row, x

-----------------------------------------------------------------------------
(* The explorer. *)
ExplorerRows(conn, view) ==
  LET tables == GetAllTables(conn)
  IN  CASE view = "Schemas" -> UNION {{<<d.name, s.name>> : s \in d.schemas} : d \in conn}
        [] view = "Tables"  -> {<<t.database, t.schema, t.name>> : t \in tables}
        [] view = "Columns" -> UNION {{<<t.database, t.schema, t.name, c>> : c \in t.columns}
                                        : t \in tables}
CellsOf(row) == <<MetaRecKey(row)>> \o row

LEMMA Refreshed ==
  ASSUME NEW conn, NEW view, NEW filter
  PROVE  RefreshData(conn, view, filter) =
           {row \in ExplorerRows(conn, view) : FilterAndMatched(CellsOf(row), ParseFilterString(filter))}
BY Zenon DEF RefreshData, ExplorerRows, CellsOf

IsRow(row) == \E X : row \in Seq(X)

LEMMA TupleRow ==
  ASSUME NEW a, NEW b, NEW c, NEW d
  PROVE  IsRow(<<a, b>>) /\ IsRow(<<a, b, c>>) /\ IsRow(<<a, b, c, d>>)
<1> DEFINE X == {a, b, c, d}
<1>1. <<a, b>> \in Seq(X)
  OBVIOUS
<1>2. <<a, b, c>> \in Seq(X)
  OBVIOUS
<1>3. <<a, b, c, d>> \in Seq(X)
  OBVIOUS
<1> QED BY <1>1, <1>2, <1>3, Zenon DEF IsRow

LEMMA ExplorerRow ==
  ASSUME NEW conn, NEW view \in {"Schemas", "Tables", "Columns"}, NEW row \in ExplorerRows(conn, view)
  PROVE  IsRow(row)
<1>1. CASE view = "Schemas"
  <2>1. row \in UNION {{<<d.name, s.name>> : s \in d.schemas} : d \in conn}
    BY <1>1 DEF ExplorerRows
  <2>2. PICK d, s : row = <<d.name, s.name>>
    BY <2>1
  <2> QED BY <2>2, TupleRow
<1>2. CASE view = "Tables"
  <2>1. row \in {<<t.database, t.schema, t.name>> : t \in GetAllTables(conn)}
    BY <1>2 DEF ExplorerRows
  <2>2. PICK t : row = <<t.database, t.schema, t.name>>
    BY <2>1
  <2> QED BY <2>2, TupleRow
<1>3. CASE view = "Columns"
  <2>1. row \in UNION {{<<t.database, t.schema, t.name, c>> : c \in t.columns} : t \in GetAllTables(conn)}
    BY <1>3 DEF ExplorerRows
  <2>2. PICK t, c : row = <<t.database, t.schema, t.name, c>>
    BY <2>1
  <2> QED BY <2>2, TupleRow
<1> QED BY <1>1, <1>2, <1>3

LEMMA RowCells ==
  ASSUME NEW row, IsRow(row)
  PROVE  /\ \E Y : CellsOf(row) \in Seq(Y)
         /\ \A i \in DOMAIN row : i + 1 \in DOMAIN CellsOf(row) /\ CellsOf(row)[i + 1] = row[i]
<1>1. PICK X : row \in Seq(X)
  BY DEF IsRow
<1> DEFINE k == MetaRecKey(row)
           Y == X \cup {k}
           u == <<k>>
           n == Len(row)
<1>2. row \in Seq(Y) /\ n \in Nat /\ DOMAIN row = 1 .. n /\ n = Len(row)
  <2>1. X \subseteq Y
    OBVIOUS
  <2> HIDE DEF Y
  <2>2. row \in Seq(Y)
    BY <1>1, <2>1, WiderSeq
  <2> QED BY <2>2
<1>3. u \in Seq(Y) /\ Len(u) = 1
  OBVIOUS
<1> HIDE DEF Y, u, k, n
<1> DEFINE w == u \o row
<1>4. w \in Seq(Y) /\ Len(w) = 1 + n /\ \A i \in 1 .. n : w[1 + i] = row[i]
  <2>1. InARow(Y, w, u, row)
    BY <1>2, <1>3, BothJoined
  <2> QED BY <1>2, <1>3, <2>1, Zenon DEF InARow
<1>5. w = CellsOf(row)
  BY Zenon DEF CellsOf, k, u
<1> HIDE DEF w
<1>6. \A i \in 1 .. n : i + 1 \in DOMAIN w /\ w[i + 1] = row[i]
  <2>1. DOMAIN w = 1 .. 1 + n
    BY <1>4
  <2>2. \A i \in 1 .. n : i + 1 \in 1 .. 1 + n /\ i + 1 = 1 + i
    BY <1>2
  <2> QED BY <1>4, <2>1, <2>2
<1> QED BY <1>2, <1>4, <1>5, <1>6

\* What is found by a search is found by each of its words.
LEMMA FoundByWords ==
  ASSUME NEW C, NEW t \in Seq(C), NEW conn, NEW view \in {"Schemas", "Tables", "Columns"},
         NEW k \in DOMAIN ParseFilterString(t)
  PROVE  RefreshData(conn, view, t) \subseteq RefreshData(conn, view, ParseFilterString(t)[k])
<1> DEFINE words == ParseFilterString(t)
           w == words[k]
<1>1. words \in Seq(Seq(C)) /\ Held(C, w)
  <2>1. HeldWords(C, words)
    BY WordsOfSearch
  <2> DEFINE D == Seq(C)
  <2> HIDE DEF words
  <2>2. words \in Seq(D) /\ \A j \in 1 .. Len(words) : Held(C, words[j])
    BY <2>1 DEF HeldWords
  <2>3. DOMAIN words = 1 .. Len(words)
    <3> HIDE DEF D
    <3> QED BY <2>2
  <2> QED BY <2>2, <2>3 DEF words
<1>2. ParseFilterString(w) = <<w>>
  BY <1>1, OneWord
<1>3. ASSUME NEW row \in ExplorerRows(conn, view), FilterAndMatched(CellsOf(row), words)
      PROVE  FilterAndMatched(CellsOf(row), <<w>>)
  <2>1. PICK Y : CellsOf(row) \in Seq(Y)
    BY <1>3, ExplorerRow, RowCells
  <2> QED BY <1>1, <1>3, <2>1, FoundByEach
<1> HIDE DEF words, w
<1>4. RefreshData(conn, view, t) = {row \in ExplorerRows(conn, view) : FilterAndMatched(CellsOf(row), words)}
  BY Refreshed, Zenon DEF words
<1>5. RefreshData(conn, view, w) = {row \in ExplorerRows(conn, view) : FilterAndMatched(CellsOf(row), <<w>>)}
  BY <1>2, Refreshed, Zenon
<1> DEFINE A == ExplorerRows(conn, view)
           P(row) == FilterAndMatched(CellsOf(row), words)
           Q(row) == FilterAndMatched(CellsOf(row), <<w>>)
<1>6. \A row \in A : P(row) => Q(row)
  BY <1>3
<1>7. {row \in A : P(row)} \subseteq {row \in A : Q(row)}
  <2> HIDE DEF A, P, Q
  <2> QED BY <1>6
<1> QED BY <1>4, <1>5, <1>7, Zenon DEF words, w

\* A row is found by one of its names in quotes.
LEMMA FoundByName ==
  ASSUME NEW C, "a" \in C, Mark \in C, NEW t \in Seq(C), NoMarks(t), NEW conn,
         NEW view \in {"Schemas", "Tables", "Columns"}, NEW row \in RefreshData(conn, view, <<>>),
         NEW i \in DOMAIN row, row[i] = t
  PROVE  row \in RefreshData(conn, view, BetweenQuotes(t))
<1> DEFINE w == BetweenQuotes(t)
<1>1. row \in ExplorerRows(conn, view)
  BY Refreshed
<1>2. ParseFilterString(w) = <<w>>
  BY QuotedWord
<1>3. Satisfies(t, w)
  BY SatisfiesQuoted
<1> HIDE DEF w
<1>4. IsRow(row)
  BY <1>1, ExplorerRow
<1>5. PICK Y : CellsOf(row) \in Seq(Y)
  BY <1>4, RowCells
<1>6. i + 1 \in DOMAIN CellsOf(row) /\ CellsOf(row)[i + 1] = row[i]
  BY <1>4, RowCells
<1> DEFINE j == i + 1
           cells == CellsOf(row)
<1>7. j \in DOMAIN cells /\ Satisfies(cells[j], w)
  BY <1>3, <1>6
<1>8. FilterAndMatched(CellsOf(row), <<w>>)
  <2> HIDE DEF j, cells
  <2>1. cells \in Seq(Y)
    BY <1>5 DEF cells
  <2>2. FilterAndMatched(cells, <<w>>)
    BY <1>7, <2>1, FoundByOne
  <2> QED BY <2>2 DEF cells
<1>9. RefreshData(conn, view, w) = {y \in ExplorerRows(conn, view) : FilterAndMatched(CellsOf(y), <<w>>)}
  BY <1>2, Refreshed, Zenon
<1>10. row \in RefreshData(conn, view, w)
  BY <1>1, <1>8, <1>9, Zenon
<1> QED BY <1>10 DEF w

LEMMA AllExplored == TextInv => ExplorerFinds
<1> SUFFICES ASSUME TextInv, NEW view \in {"Schemas", "Tables", "Columns"}
             PROVE  /\ \A k \in DOMAIN ParseFilterString(text) :
                         RefreshData(Tree, view, text) \subseteq RefreshData(Tree, view, ParseFilterString(text)[k])
                    /\ ~HasMark(text) =>
                         \A row \in RefreshData(Tree, view, <<>>) :
                           (\E i \in DOMAIN row : row[i] = text) => row \in RefreshData(Tree, view, BetweenQuotes(text))
  BY Zenon DEF ExplorerFinds, HasMark
<1> DEFINE C == keys.chars \cup {Mark, "a"}
<1>1. Mark \in C /\ "a" \in C /\ keys.chars \subseteq C
  OBVIOUS
<1> HIDE DEF C
<1>2. text \in Seq(C)
  BY <1>1, WiderSeq DEF TextInv
<1>3. \A k \in DOMAIN ParseFilterString(text) :
        RefreshData(Tree, view, text) \subseteq RefreshData(Tree, view, ParseFilterString(text)[k])
  BY <1>2, FoundByWords
<1>4. ASSUME ~HasMark(text), NEW row \in RefreshData(Tree, view, <<>>), NEW i \in DOMAIN row, row[i] = text
      PROVE  row \in RefreshData(Tree, view, BetweenQuotes(text))
  <2>1. NoMarks(text)
    BY <1>1, <1>2, <1>4, LacksMark
  <2> DEFINE conn == Tree
  <2> HIDE DEF conn
  <2>2. row \in RefreshData(conn, view, <<>>)
    BY <1>4 DEF conn
  <2>3. row \in RefreshData(conn, view, BetweenQuotes(text))
    BY <1>1, <1>2, <1>4, <2>1, <2>2, FoundByName
  <2> QED BY <2>3 DEF conn
<1> QED BY <1>3, <1>4

-----------------------------------------------------------------------------
(* The search for a table. *)

\* The table of a row that is the first one with its key.
RowKey(rows, i)   == Dotted(rows[i].schema, rows[i].table)
FirstRow(rows, i) == i \in DOMAIN rows /\ \A j \in 1 .. i - 1 : RowKey(rows, j) # RowKey(rows, i)
RowTable(rows, database, i) ==
  [database |-> database, schema |-> rows[i].schema, name |-> rows[i].table,
   columns |-> {rows[j].column : j \in {k \in DOMAIN rows : RowKey(rows, k) = RowKey(rows, i)}}]

LEMMA TableOfRow ==
  ASSUME NEW rows, NEW database, NEW s \in GetSchemata(rows, database), NEW x \in s.tables
  PROVE  \E i : FirstRow(rows, i) /\ x = RowTable(rows, database, i)
<1> DEFINE First == {i \in DOMAIN rows : \A j \in 1 .. i - 1 : RowKey(rows, j) # RowKey(rows, i)}
           Sch(i) == [name   |-> rows[i].schema,
                      tables |-> {RowTable(rows, database, j) : j \in {k \in First : rows[k].schema = rows[i].schema}}]
<1>1. GetSchemata(rows, database) = {Sch(i) : i \in DOMAIN rows}
  BY Zenon DEF GetSchemata, RowKey, RowTable
<1>2. PICK i : s = Sch(i)
  BY <1>1
<1>3. s.tables = {RowTable(rows, database, j) : j \in {k \in First : rows[k].schema = rows[i].schema}}
  <2> DEFINE T == {RowTable(rows, database, j) : j \in {k \in First : rows[k].schema = rows[i].schema}}
  <2>1. s = [name |-> rows[i].schema, tables |-> T]
    BY <1>2
  <2> HIDE DEF T
  <2>2. s.tables = T
    BY <2>1
  <2> QED BY <2>2 DEF T
<1> HIDE DEF Sch, First
<1>4. PICK j \in First : x = RowTable(rows, database, j)
  BY <1>3
<1>5. FirstRow(rows, j)
  BY <1>4, Zenon DEF First, FirstRow
<1> QED BY <1>4, <1>5

LEMMA RowFields ==
  ASSUME NEW rows, NEW database, NEW i
  PROVE  /\ RowTable(rows, database, i).database = database
         /\ RowTable(rows, database, i).schema = rows[i].schema /\ RowTable(rows, database, i).name = rows[i].table
<1> DEFINE c == {rows[j].column : j \in {k \in DOMAIN rows : RowKey(rows, k) = RowKey(rows, i)}}
           r == RowTable(rows, database, i)
<1>1. r = [database |-> database, schema |-> rows[i].schema, name |-> rows[i].table, columns |-> c]
  BY Zenon DEF RowTable
<1> HIDE DEF c, r
<1>2. r.database = database /\ r.schema = rows[i].schema /\ r.name = rows[i].table
  BY <1>1
<1> QED BY <1>2 DEF r

\* Of the rows with a key there is one first.
LEMMA OneFirst ==
  ASSUME NEW rows, DOMAIN rows \subseteq Nat \ {0}, NEW i, NEW j, FirstRow(rows, i), FirstRow(rows, j),
         RowKey(rows, i) = RowKey(rows, j)
  PROVE  i = j
<1>1. i \in Nat \ {0} /\ j \in Nat \ {0}
  BY DEF FirstRow
<1>2. i \notin 1 .. j - 1 /\ j \notin 1 .. i - 1
  BY DEF FirstRow
<1> QED BY <1>1, <1>2

\* What two texts that begin with as many characters say of their parts.
LEMMA SameParts ==
  ASSUME NEW C, NEW a \in Seq(C), NEW b \in Seq(C), Len(a) = Len(b), NEW u \in Seq(C), NEW v \in Seq(C), a \o u = b \o v
  PROVE  a = b /\ u = v
<1> DEFINE n == Len(a)
           m == Len(u)
           k == Len(v)
           x == a \o u
           y == b \o v
<1>1. n \in Nat /\ m \in Nat /\ k \in Nat /\ n = Len(a) /\ n = Len(b) /\ m = Len(u) /\ k = Len(v)
  OBVIOUS
<1>2. Len(x) = n + m /\ (\A i \in 1 .. n : x[i] = a[i]) /\ \A i \in 1 .. m : x[n + i] = u[i]
  <2>1. InARow(C, x, a, u)
    BY BothJoined
  <2> QED BY <2>1, Zenon DEF InARow
<1>3. Len(y) = n + k /\ (\A i \in 1 .. n : y[i] = b[i]) /\ \A i \in 1 .. k : y[n + i] = v[i]
  <2>1. InARow(C, y, b, v)
    BY BothJoined
  <2> QED BY <1>1, <2>1, Zenon DEF InARow
<1>4. x = y
  OBVIOUS
<1> HIDE DEF n, m, k, x, y
<1>5. m = k
  BY <1>1, <1>2, <1>3, <1>4
<1>6. a = b
  BY <1>1, <1>2, <1>3, <1>4, SameText
<1>7. u = v
  BY <1>1, <1>2, <1>3, <1>4, <1>5, SameText
<1> QED BY <1>6, <1>7

LEMMA DottedType ==
  ASSUME NEW C, "." \in C, NEW s \in Seq(C), NEW t \in Seq(C)
  PROVE  /\ Dotted(s, t) \in Seq(C) /\ Dotted(s, t) = (s \o <<".">>) \o t
         /\ s \o <<".">> \in Seq(C) /\ Len(s \o <<".">>) = Len(s) + 1
<1> DEFINE u == <<".">>
           v == s \o u
<1>1. u \in Seq(C) /\ Len(u) = 1
  OBVIOUS
<1> HIDE DEF u
<1>2. v \in Seq(C) /\ Len(v) = Len(s) + 1
  <2>1. InARow(C, v, s, u)
    BY <1>1, BothJoined
  <2> QED BY <1>1, <2>1 DEF InARow
<1>3. v \o t \in Seq(C)
  <2> HIDE DEF v
  <2> QED BY <1>2
<1>4. Dotted(s, t) = v \o t
  BY Zenon DEF Dotted, u
<1> QED BY <1>2, <1>3, <1>4, Zenon DEF v, u

LEMMA SameDotted ==
  ASSUME NEW C, "." \in C, NEW a \in Seq(C), NEW b \in Seq(C), Len(a) = Len(b), NEW u \in Seq(C), NEW v \in Seq(C),
         Dotted(a, u) = Dotted(b, v)
  PROVE  a = b /\ u = v
<1> DEFINE p == <<".">>
           x == a \o p
           y == b \o p
<1>1. x \in Seq(C) /\ Len(x) = Len(a) + 1 /\ Dotted(a, u) = x \o u
  BY DottedType
<1>2. y \in Seq(C) /\ Len(y) = Len(b) + 1 /\ Dotted(b, v) = y \o v
  BY DottedType
<1>3. p \in Seq(C)
  OBVIOUS
<1> HIDE DEF p, x, y
<1>4. x = y /\ u = v
  <2>1. Len(x) = Len(y) /\ x \o u = y \o v
    BY <1>1, <1>2
  <2>2. x \in Seq(C) /\ y \in Seq(C)
    BY <1>1, <1>2
  <2> QED BY <2>1, <2>2, SameParts, Zenon
<1>5. a = b
  BY <1>3, <1>4, SameParts DEF x, y
<1> QED BY <1>4, <1>5

\* A table is found by what its name, with its schema, has in it.
LEMMA TextInSearch ==
  ASSUME NEW C, "a" \in C, NEW conn, NEW t \in GetAllTables(conn), NEW query \in Seq(C), Trim(query) # <<>>,
         NEW u \in Seq(C), u = Dotted(t.schema, t.name), IsInfix(query, u)
  PROVE  t \in SearchTable(conn, query)
<1> DEFINE sep == " "
           p == Trim(query)
           q == LowerCase(p)
           w == LowerCase(u)
           words == SplitAt(q, sep)
<1>1. p \in Seq(C) /\ IsInfix(p, query)
  BY TrimInfix
<1>2. p # <<>>
  OBVIOUS
<1> HIDE DEF p
<1>3. IsInfix(p, u)
  BY <1>1, InfixOfPart
<1>4. w \in Seq(C)
  BY LowerIs
<1>5. q \in Seq(C) /\ Len(q) = Len(p)
  BY <1>1, LowerIs
<1>6. IsInfix(q, w)
  BY <1>1, <1>3, InfixInLower
<1> HIDE DEF q, w, sep
<1>7. q # <<>>
  BY <1>1, <1>2, <1>5
<1>8. words \in PieceList(C) /\ \A j \in 1 .. Len(words) : IsInfix(words[j], q)
  BY <1>5, SplitPieces
<1> HIDE DEF words
<1>9. DOMAIN words = 1 .. Len(words) /\ \A j \in 1 .. Len(words) : words[j] \in Seq(C)
  <2> DEFINE D == Seq(C)
  <2>1. words \in Seq(D)
    BY <1>8 DEF PieceList
  <2> HIDE DEF D
  <2>2. DOMAIN words = 1 .. Len(words) /\ \A j \in 1 .. Len(words) : words[j] \in D
    BY <2>1
  <2> QED BY <2>2 DEF D
<1>10. ASSUME NEW i \in DOMAIN words PROVE IsInfix(words[i], w)
  <2> DEFINE x == words[i]
  <2>1. x \in Seq(C) /\ IsInfix(x, q)
    BY <1>8, <1>9, <1>10
  <2> HIDE DEF x
  <2>2. IsInfix(x, w)
    BY <1>4, <1>5, <1>6, <2>1, InfixOfPart
  <2> QED BY <2>2 DEF x
<1>11. \A i \in DOMAIN words : IsInfix(words[i], LowerCase(Dotted(t.schema, t.name)))
  BY <1>10, Zenon DEF w
<1> QED BY <1>7, <1>11, Zenon DEF SearchTable, q, p, words, sep

\* The rows of the columns of Tree.
RowsOf(C) == [schema : Seq(C), table : Seq(C), column : Seq(C)]

LEMMA TwoRows ==
  ASSUME NEW C, NEW s1 \in Seq(C), NEW t1 \in Seq(C), NEW c1 \in Seq(C), NEW s2 \in Seq(C), NEW t2 \in Seq(C), NEW c2 \in Seq(C)
  PROVE  <<[schema |-> s1, table |-> t1, column |-> c1], [schema |-> s2, table |-> t2, column |-> c2]>> \in Seq(RowsOf(C))
<1> DEFINE a == [schema |-> s1, table |-> t1, column |-> c1]
           b == [schema |-> s2, table |-> t2, column |-> c2]
           R == RowsOf(C)
<1>1. a \in R /\ b \in R
  BY DEF RowsOf
<1> HIDE DEF a, b, R
<1>2. <<a, b>> \in Seq(R)
  BY <1>1
<1> QED BY <1>2 DEF a, b, R

LEMMA ListedType ==
  ASSUME NEW C, {"a", "A", "b"} \subseteq C, text \in Seq(C), NEW d
  PROVE  Listed(d) \in Seq(RowsOf(C))
<1> DEFINE a == <<"a">>
           A == <<"A">>
           b == <<"b">>
           R == RowsOf(C)
           x == <<[schema |-> a, table |-> A, column |-> b], [schema |-> a, table |-> A, column |-> A]>>
           y == <<[schema |-> a, table |-> text, column |-> b], [schema |-> text, table |-> a, column |-> b]>>
<1>1. a \in Seq(C) /\ A \in Seq(C) /\ b \in Seq(C)
  OBVIOUS
<1> HIDE DEF a, A, b
<1>2. x \in Seq(R) /\ y \in Seq(R)
  BY <1>1, TwoRows
<1> HIDE DEF R
<1>3. x \o y \in Seq(R)
  <2> HIDE DEF x, y
  <2> QED BY <1>2
<1>4. Listed(d) = x \/ Listed(d) = x \o y
  BY Zenon DEF Listed, x, y, a, A, b
<1> QED BY <1>2, <1>3, <1>4, Zenon DEF R

LEMMA ListedRows ==
  ASSUME NEW C, {"a", "A", "b"} \subseteq C, text \in Seq(C), NEW d
  PROVE  /\ DOMAIN Listed(d) \subseteq Nat \ {0}
         /\ \A i \in DOMAIN Listed(d) : Listed(d)[i].schema \in Seq(C) /\ Listed(d)[i].table \in Seq(C)
<1> DEFINE R == RowsOf(C)
           rows == Listed(d)
<1>1. rows \in Seq(R)
  BY ListedType
<1> HIDE DEF R, rows
<1>2. DOMAIN rows \subseteq Nat \ {0} /\ \A i \in DOMAIN rows : rows[i] \in R
  BY <1>1
<1>3. \A r \in R : r.schema \in Seq(C) /\ r.table \in Seq(C)
  BY DEF R, RowsOf
<1> QED BY <1>2, <1>3 DEF rows

TableOf(db, x, i) == FirstRow(Listed(db), i) /\ x = RowTable(Listed(db), db, i)
DbOf(x, db) == db \in {<<"d">>, <<"e">>} /\ \E i : TableOf(db, x, i)

LEMMA TreeTable ==
  ASSUME NEW x \in GetAllTables(Tree)
  PROVE  \E db : DbOf(x, db)
<1> DEFINE Db(d) == [name |-> d, schemas |-> GetSchemata(Listed(d), d)]
<1>1. PICK s : s \in UNION {d.schemas : d \in Tree} /\ x \in s.tables
  BY Zenon DEF GetAllTables
<1>2. PICK d : d \in Tree /\ s \in d.schemas
  BY <1>1, Zenon
<1>3. PICK db \in {<<"d">>, <<"e">>} : d = Db(db)
  BY <1>2, Zenon DEF Tree
<1>4. d.schemas = GetSchemata(Listed(db), db)
  <2> DEFINE z == GetSchemata(Listed(db), db)
  <2>1. d = [name |-> db, schemas |-> z]
    BY <1>3, Zenon
  <2> HIDE DEF z
  <2>2. d.schemas = z
    BY <2>1
  <2> QED BY <2>2 DEF z
<1> DEFINE rows == Listed(db)
<1>5. s \in GetSchemata(rows, db)
  BY <1>2, <1>4, Zenon
<1> HIDE DEF rows
<1>6. PICK i : FirstRow(rows, i) /\ x = RowTable(rows, db, i)
  BY <1>1, <1>5, TableOfRow
<1> QED BY <1>3, <1>6, Zenon DEF DbOf, TableOf, rows

\* A table has one full name, and no other table has it.
LEMMA OneFullName ==
  ASSUME NEW C, {"a", "A", "b", "d", "e", "."} \subseteq C, text \in Seq(C), NEW d, d.parts = 3,
         NEW x \in GetAllTables(Tree), NEW y \in GetAllTables(Tree), FullName(x, d) = FullName(y, d)
  PROVE  x = y
<1> DEFINE D1 == <<"d">>
           D2 == <<"e">>
<1>1. D1 \in Seq(C) /\ D2 \in Seq(C) /\ Len(D1) = 1 /\ Len(D2) = 1
  OBVIOUS
<1> HIDE DEF D1, D2
<1>2. {"a", "A", "b"} \subseteq C /\ "." \in C
  OBVIOUS
<1>3. ASSUME NEW z, NEW db, DbOf(z, db)
      PROVE  /\ db \in Seq(C) /\ Len(db) = 1 /\ FullName(z, d) = Dotted(db, Dotted(z.schema, z.name))
             /\ Dotted(z.schema, z.name) \in Seq(C)
             /\ \E i : TableOf(db, z, i) /\ Dotted(z.schema, z.name) = RowKey(Listed(db), i)
  <2>1. db \in Seq(C) /\ Len(db) = 1
    <3>1. db = D1 \/ db = D2
      BY <1>3, Zenon DEF DbOf, D1, D2
    <3> QED BY <1>1, <3>1
  <2>2. PICK i : TableOf(db, z, i)
    BY <1>3, Zenon DEF DbOf
  <2>3. FirstRow(Listed(db), i) /\ z = RowTable(Listed(db), db, i)
    BY <2>2, Zenon DEF TableOf
  <2>4. z.database = db /\ z.schema = Listed(db)[i].schema /\ z.name = Listed(db)[i].table
    BY <2>3, RowFields
  <2>5. z.schema \in Seq(C) /\ z.name \in Seq(C)
    <3>1. i \in DOMAIN Listed(db)
      BY <2>3, Zenon DEF FirstRow
    <3>2. Listed(db)[i].schema \in Seq(C) /\ Listed(db)[i].table \in Seq(C)
      BY <1>2, <3>1, ListedRows
    <3> QED BY <2>4, <3>2, Zenon
  <2>6. Dotted(z.schema, z.name) = RowKey(Listed(db), i)
    BY <2>4, Zenon DEF RowKey
  <2>7. Dotted(z.schema, z.name) \in Seq(C)
    BY <1>2, <2>5, DottedType
  <2>8. FullName(z, d) = Dotted(z.database, Dotted(z.schema, z.name))
    <3>1. d.parts # 2
      OBVIOUS
    <3> QED BY <3>1, Zenon DEF FullName
  <2> QED BY <2>1, <2>2, <2>4, <2>6, <2>7, <2>8, Zenon
<1>4. PICK a : DbOf(x, a)
  BY TreeTable
<1>5. PICK b : DbOf(y, b)
  BY TreeTable
<1> DEFINE u == Dotted(x.schema, x.name)
           v == Dotted(y.schema, y.name)
<1>6. a \in Seq(C) /\ Len(a) = 1 /\ FullName(x, d) = Dotted(a, u) /\ u \in Seq(C)
  BY <1>3, <1>4
<1>7. b \in Seq(C) /\ Len(b) = 1 /\ FullName(y, d) = Dotted(b, v) /\ v \in Seq(C)
  BY <1>3, <1>5
<1>8. PICK i : TableOf(a, x, i) /\ u = RowKey(Listed(a), i)
  BY <1>3, <1>4
<1>9. PICK j : TableOf(b, y, j) /\ v = RowKey(Listed(b), j)
  BY <1>3, <1>5
<1> HIDE DEF u, v
<1>10. a = b /\ u = v
  <2>1. Dotted(a, u) = Dotted(b, v) /\ Len(a) = Len(b)
    BY <1>6, <1>7
  <2>2. a \in Seq(C) /\ b \in Seq(C) /\ u \in Seq(C) /\ v \in Seq(C)
    BY <1>6, <1>7
  <2> QED BY <1>2, <2>1, <2>2, SameDotted, Zenon
<1>11. /\ FirstRow(Listed(a), i) /\ x = RowTable(Listed(a), a, i)
       /\ FirstRow(Listed(a), j) /\ y = RowTable(Listed(a), a, j)
  BY <1>8, <1>9, <1>10, Zenon DEF TableOf
<1>12. RowKey(Listed(a), i) = RowKey(Listed(a), j)
  BY <1>8, <1>9, <1>10, Zenon
<1> DEFINE rows == Listed(a)
<1>13. DOMAIN rows \subseteq Nat \ {0}
  BY <1>2, ListedRows
<1> HIDE DEF rows
<1>14. i = j
  <2>1. FirstRow(rows, i) /\ FirstRow(rows, j) /\ RowKey(rows, i) = RowKey(rows, j)
    BY <1>11, <1>12, Zenon DEF rows
  <2> QED BY <1>13, <2>1, OneFirst
<1> QED BY <1>11, <1>14, Zenon

\* Something is left of a text that is not blank.
LEMMA NotTrimmed ==
  ASSUME NEW C, NEW t \in Seq(C), NEW i \in 1 .. Len(t), t[i] \notin WhiteSpace
  PROVE  Trim(t) # <<>>
<1>1. ASSUME NEW l, NEW m, TrimmedAt(t, l, m) PROVE Trim(t) # <<>>
  <2> DEFINE k == l - 1
             n == m - k
  <2>1. l \in 1 .. Len(t) /\ m \in l .. Len(t) /\ Trim(t) = SubSeq(t, l, m)
    BY <1>1 DEF TrimmedAt
  <2>2. k \in Nat /\ n \in Nat /\ k + 1 = l /\ k + n = m /\ k + n <= Len(t) /\ n # 0
    BY <2>1
  <2> HIDE DEF k, n
  <2> DEFINE v == SubSeq(t, k + 1, k + n)
  <2>3. v \in Seq(C) /\ Len(v) = n
    BY <2>2, SpanRead
  <2>4. Trim(t) = v
    BY <2>1, <2>2, Zenon
  <2> HIDE DEF v
  <2> QED BY <2>2, <2>3, <2>4
<1>2. ~(\A j \in 1 .. Len(t) : t[j] \in WhiteSpace)
  OBVIOUS
<1>3. \E l, m : TrimmedAt(t, l, m)
  BY <1>2, TrimLeaves
<1> QED BY <1>1, <1>3

LEMMA NoBlankA == "a" \notin WhiteSpace
BY DEF WhiteSpace

\* What a name is searched by: itself, or with its schema.
LEMMA DottedFinds ==
  ASSUME NEW C, {"a", "."} \subseteq C, NEW t \in Seq(C), Trim(t) # <<>>, NEW query \in {t, Dotted(<<"a">>, t)}
  PROVE  /\ query \in Seq(C) /\ Trim(query) # <<>> /\ Dotted(<<"a">>, t) \in Seq(C)
         /\ IsInfix(query, Dotted(<<"a">>, t))
<1> DEFINE a == <<"a">>
           p == a \o <<".">>
           u == Dotted(a, t)
           n == Len(t)
<1>1. a \in Seq(C) /\ Len(a) = 1 /\ a[1] = "a" /\ n \in Nat /\ n = Len(t)
  OBVIOUS
<1>2. "a" \in C /\ "." \in C
  OBVIOUS
<1> HIDE DEF a, n
<1>3. u \in Seq(C) /\ u = p \o t /\ p \in Seq(C) /\ Len(p) = 1 + 1
  BY <1>1, <1>2, DottedType
<1>4. p[1] = "a"
  <2> DEFINE s == <<".">>
  <2>1. s \in Seq(C) /\ Len(s) = 1
    BY <1>2
  <2> HIDE DEF s
  <2>2. InARow(C, a \o s, a, s)
    BY <1>1, <2>1, BothJoined
  <2>3. 1 \in 1 .. Len(a)
    BY <1>1
  <2>4. (a \o s)[1] = a[1]
    BY <2>2, <2>3, Zenon DEF InARow
  <2> QED BY <1>1, <2>4, Zenon DEF s
<1> HIDE DEF p, u
<1>5. Len(u) = (1 + 1) + n /\ (\A i \in 1 .. 1 + 1 : u[i] = p[i]) /\ \A i \in 1 .. n : u[(1 + 1) + i] = t[i]
  <2>1. InARow(C, u, p, t)
    BY <1>3, BothJoined, Zenon
  <2> QED BY <1>1, <1>3, <2>1, Zenon DEF InARow
<1>6. Trim(u) # <<>>
  <2>1. 1 \in 1 .. Len(u) /\ u[1] = "a"
    BY <1>1, <1>4, <1>5
  <2> QED BY <1>3, <2>1, NoBlankA, NotTrimmed
<1>7. IsInfix(t, u)
  <2> DEFINE k == 1 + 1
  <2>1. k \in Nat /\ k + Len(t) <= Len(u) /\ \A j \in 1 .. Len(t) : u[k + j] = t[j]
    BY <1>1, <1>5
  <2> HIDE DEF k
  <2>2. PartAt(t, u, k)
    BY <2>1 DEF PartAt
  <2> QED BY <1>3, <2>2, InfixPlace
<1>8. IsInfix(u, u)
  <2>1. PartAt(u, u, 0)
    BY <1>3 DEF PartAt
  <2> QED BY <1>3, <2>1, InfixPlace
<1>9. query = t \/ query = u
  BY Zenon DEF u, a
<1>10. query \in Seq(C) /\ Trim(query) # <<>> /\ u \in Seq(C) /\ IsInfix(query, u)
  BY <1>3, <1>6, <1>7, <1>8, <1>9
<1> QED BY <1>10, Zenon DEF u, a

\* Choosing one of the tables found leads to the only one with its full name.
LEMMA SuggestionIs ==
  ASSUME NEW conn, NEW query, NEW d, NEW t \in SearchTable(conn, query),
         \A x \in SearchTable(conn, query) : FullName(x, d) = FullName(t, d) => x = t
  PROVE  Suggestion(conn, query, FullName(t, d), d) = t
<1> DEFINE F == {x \in SearchTable(conn, query) : FullName(x, d) = FullName(t, d)}
<1>1. F = {t}
  OBVIOUS
<1>2. Suggestion(conn, query, FullName(t, d), d) = FirstOr(F, NewTable)
  BY Zenon DEF Suggestion
<1> HIDE DEF F
<1>3. FirstOr(F, NewTable) = t
  <2>1. F # {} /\ (CHOOSE x \in F : TRUE) = t
    BY <1>1
  <2> QED BY <2>1, Zenon DEF FirstOr
<1> QED BY <1>2, <1>3

LEMMA SearchedAreTables ==
  ASSUME NEW conn, NEW query, NEW x \in SearchTable(conn, query)
  PROVE  x \in GetAllTables(conn)
<1> DEFINE q == LowerCase(Trim(query))
           P(y) == \A i \in DOMAIN SplitAt(q, " ") : IsInfix(SplitAt(q, " ")[i], LowerCase(Dotted(y.schema, y.name)))
<1>1. SearchTable(conn, query) = IF q = <<>> THEN {} ELSE {y \in GetAllTables(conn) : P(y)}
  BY Zenon DEF SearchTable
<1> HIDE DEF q, P
<1> QED BY <1>1

LEMMA AllTablesFound == TextInv => TableIsFound
<1> SUFFICES ASSUME TextInv, Trim(text) # <<>>, NEW query \in {text, Dotted(<<"a">>, text)}, NEW d \in Dialects,
                    NEW t \in GetAllTables(Tree), t.schema = <<"a">>, t.name = text
             PROVE  /\ t \in SearchTable(Tree, query)
                    /\ d.parts = 3 => Suggestion(Tree, query, FullName(t, d), d) = t
  BY Zenon DEF TableIsFound
<1> DEFINE C == keys.chars \cup {"a", "A", "b", "d", "e", "."}
           conn == Tree
<1>1. {"a", "A", "b", "d", "e", "."} \subseteq C /\ {"a", "."} \subseteq C /\ "a" \in C /\ keys.chars \subseteq C
  OBVIOUS
<1> HIDE DEF C, conn
<1>2. text \in Seq(C)
  BY <1>1, WiderSeq DEF TextInv
<1> DEFINE u == Dotted(<<"a">>, text)
<1>3. query \in Seq(C) /\ Trim(query) # <<>> /\ u \in Seq(C) /\ IsInfix(query, u)
  BY <1>1, <1>2, DottedFinds
<1>4. u = Dotted(t.schema, t.name)
  OBVIOUS
<1> HIDE DEF u
<1>5. t \in GetAllTables(conn)
  BY Zenon DEF conn
<1>6. t \in SearchTable(conn, query)
  BY <1>1, <1>3, <1>4, <1>5, TextInSearch
<1>7. ASSUME d.parts = 3 PROVE Suggestion(conn, query, FullName(t, d), d) = t
  <2>1. ASSUME NEW x \in SearchTable(conn, query), FullName(x, d) = FullName(t, d) PROVE x = t
    <3>1. x \in GetAllTables(Tree)
      <4>1. x \in GetAllTables(conn)
        BY <2>1, SearchedAreTables
      <4> QED BY <4>1, Zenon DEF conn
    <3> QED BY <1>1, <1>2, <1>7, <2>1, <3>1, OneFullName
  <2> QED BY <1>6, <2>1, SuggestionIs
<1> QED BY <1>6, <1>7, Zenon DEF conn

-----------------------------------------------------------------------------
(* What is copied of the result table, read cell by cell. *)
TabChar == "\t"
NewLine == "\n"

LEMMA CellMarks == TabChar # Mark /\ NewLine # Mark /\ TabChar # NewLine /\ "x" # Mark /\ "x" # TabChar /\ "x" # NewLine
                   /\ "y" # Mark /\ "y" # TabChar /\ "y" # NewLine
BY Zenon DEF TabChar, NewLine, Mark

PutIn(row, c)    == [row EXCEPT ![Len(row)] = Append(@, c)]
PutLast(rows, c) == [rows EXCEPT ![Len(rows)] = PutIn(@, c)]
ReadTurn(s, c) ==
  CASE s.mode = "quoted" /\ c = Mark -> [s EXCEPT !.mode = "quote"]
    [] s.mode = "plain"  /\ c = Mark -> [s EXCEPT !.mode = "quoted"]
    [] s.mode = "quoted" /\ c # Mark -> [s EXCEPT !.rows = PutLast(@, c)]
    [] s.mode = "quote"  /\ c = Mark -> [mode |-> "quoted", rows |-> PutLast(s.rows, c)]
    [] s.mode # "quoted" /\ c = TabChar ->
         [mode |-> "plain", rows |-> [s.rows EXCEPT ![Len(s.rows)] = Append(@, <<>>)]]
    [] s.mode # "quoted" /\ c = NewLine ->
         [mode |-> "plain", rows |-> Append(s.rows, << <<>> >>)]
    [] OTHER -> [mode |-> "plain", rows |-> PutLast(s.rows, c)]

\* The rows read, the cells read of the last one, and what is read of its last cell.
RowsAt(done, row, cell) == Append(done, Append(row, cell))

LEMMA LastChanged ==
  ASSUME NEW D, NEW s \in Seq(D), NEW x \in D, NEW y \in D
  PROVE  /\ Append(s, x)[Len(Append(s, x))] = x
         /\ [Append(s, x) EXCEPT ![Len(Append(s, x))] = y] = Append(s, y)
<1> DEFINE u == Append(s, x)
           n == Len(u)
           v == [u EXCEPT ![n] = y]
           w == Append(s, y)
           m == Len(s)
<1>1. m \in Nat /\ u \in Seq(D) /\ n = m + 1 /\ n = Len(u) /\ u[n] = x /\ \A i \in 1 .. m : u[i] = s[i]
  OBVIOUS
<1>2. w \in Seq(D) /\ Len(w) = m + 1 /\ w[m + 1] = y /\ \A i \in 1 .. m : w[i] = s[i]
  OBVIOUS
<1> HIDE DEF u, n, w, m
<1>3. v \in Seq(D) /\ Len(v) = n /\ v[n] = y /\ \A i \in 1 .. n : i # n => v[i] = u[i]
  BY <1>1
<1> HIDE DEF v
<1>4. \A i \in 1 .. Len(v) : v[i] = w[i]
  <2>1. ASSUME NEW i \in 1 .. n PROVE v[i] = w[i]
    <3>1. i = n \/ i \in 1 .. m
      BY <1>1
    <3> QED BY <1>1, <1>2, <1>3, <3>1
  <2> QED BY <1>3, <2>1
<1>5. v = w
  BY <1>1, <1>2, <1>3, <1>4, SameText
<1> QED BY <1>1, <1>5, Zenon DEF u, n, v, w

LEMMA RowsType ==
  ASSUME NEW C, NEW done \in Seq(Seq(Seq(C))), NEW row \in Seq(Seq(C)), NEW cell \in Seq(C)
  PROVE  Append(row, cell) \in Seq(Seq(C)) /\ RowsAt(done, row, cell) \in Seq(Seq(Seq(C)))
<1> DEFINE D == Seq(C)
           E == Seq(D)
           r == Append(row, cell)
<1>1. row \in Seq(D) /\ cell \in D /\ done \in Seq(E)
  OBVIOUS
<1> HIDE DEF D
<1>2. r \in Seq(D)
  BY <1>1
<1> HIDE DEF r, E
<1>3. Append(done, r) \in Seq(E)
  BY <1>1, <1>2 DEF E
<1> QED BY <1>2, <1>3, Zenon DEF E, D, r, RowsAt

\* A character is put at the end of the last cell.
LEMMA PutAt ==
  ASSUME NEW C, NEW done \in Seq(Seq(Seq(C))), NEW row \in Seq(Seq(C)), NEW cell \in Seq(C), NEW c \in C
  PROVE  PutLast(RowsAt(done, row, cell), c) = RowsAt(done, row, Append(cell, c))
<1> DEFINE D == Seq(C)
           E == Seq(D)
           x == Append(cell, c)
           r == Append(row, cell)
           y == Append(row, x)
           t == RowsAt(done, row, cell)
<1>1. x \in D /\ cell \in D /\ row \in Seq(D) /\ done \in Seq(E)
  OBVIOUS
<1>2. r \in E /\ y \in E
  BY <1>1, RowsType
<1> HIDE DEF x
<1>3. r[Len(r)] = cell /\ [r EXCEPT ![Len(r)] = x] = y
  <2> HIDE DEF D
  <2> QED BY <1>1, LastChanged
<1>4. PutIn(r, c) = y
  <2>1. PutIn(r, c) = [r EXCEPT ![Len(r)] = Append(r[Len(r)], c)]
    BY DEF PutIn
  <2> QED BY <1>3, <2>1, Zenon DEF x
<1> HIDE DEF D, E, r, y
<1>5. t[Len(t)] = r /\ [t EXCEPT ![Len(t)] = y] = Append(done, y)
  <2> DEFINE z == Append(done, r)
  <2>1. z[Len(z)] = r /\ [z EXCEPT ![Len(z)] = y] = Append(done, y)
    BY <1>1, <1>2, LastChanged
  <2>2. t = z
    BY Zenon DEF RowsAt, r
  <2> HIDE DEF t, z
  <2> QED BY <2>1, <2>2, Zenon
<1> HIDE DEF t
<1>6. PutLast(t, c) = [t EXCEPT ![Len(t)] = PutIn(t[Len(t)], c)]
  BY DEF PutLast
<1>7. PutLast(t, c) = Append(done, y)
  BY <1>5, <1>6, <1>4, Zenon
<1> QED BY <1>7, Zenon DEF RowsAt, t, y, x

ReadAt(m, t) == [mode |-> m, rows |-> t]

LEMMA ReadFields == ASSUME NEW m, NEW t PROVE ReadAt(m, t).mode = m /\ ReadAt(m, t).rows = t
BY DEF ReadAt

\* The turns of the reader.
LEMMA ReadsPlain ==
  ASSUME NEW t, NEW c, c # Mark, c # TabChar, c # NewLine
  PROVE  ReadTurn(ReadAt("plain", t), c) = ReadAt("plain", PutLast(t, c))
<1> DEFINE s == ReadAt("plain", t)
<1>1. s.mode = "plain" /\ s.rows = t
  BY ReadFields
<1> HIDE DEF s
<1>2. ReadTurn(s, c) = [mode |-> "plain", rows |-> PutLast(s.rows, c)]
  BY <1>1 DEF ReadTurn
<1> QED BY <1>1, <1>2, Zenon DEF ReadAt, s

LEMMA ReadsOpening == ASSUME NEW t PROVE ReadTurn(ReadAt("plain", t), Mark) = ReadAt("quoted", t)
<1> DEFINE s == ReadAt("plain", t)
<1>1. s.mode = "plain" /\ s.rows = t
  BY ReadFields
<1>2. TabChar # Mark /\ NewLine # Mark
  BY CellMarks
<1>3. [s EXCEPT !.mode = "quoted"] = ReadAt("quoted", t)
  BY DEF ReadAt
<1> HIDE DEF s
<1>4. ReadTurn(s, Mark) = [s EXCEPT !.mode = "quoted"]
  BY <1>1, <1>2 DEF ReadTurn
<1> QED BY <1>3, <1>4, Zenon DEF s

LEMMA ReadsInside ==
  ASSUME NEW t, NEW c, c # Mark
  PROVE  ReadTurn(ReadAt("quoted", t), c) = ReadAt("quoted", PutLast(t, c))
<1> DEFINE s == ReadAt("quoted", t)
           u == PutLast(t, c)
<1>1. s.mode = "quoted" /\ s.rows = t
  BY ReadFields
<1> HIDE DEF u
<1>2. [s EXCEPT !.rows = u] = ReadAt("quoted", u)
  BY DEF ReadAt
<1> HIDE DEF s
<1>3. ReadTurn(s, c) = [s EXCEPT !.rows = PutLast(s.rows, c)]
  BY <1>1 DEF ReadTurn
<1>4. ReadTurn(s, c) = [s EXCEPT !.rows = u]
  BY <1>1, <1>3, Zenon DEF u
<1> QED BY <1>2, <1>4, Zenon DEF s, u

LEMMA ReadsClosing == ASSUME NEW t PROVE ReadTurn(ReadAt("quoted", t), Mark) = ReadAt("quote", t)
<1> DEFINE s == ReadAt("quoted", t)
<1>1. s.mode = "quoted" /\ s.rows = t
  BY ReadFields
<1>2. [s EXCEPT !.mode = "quote"] = ReadAt("quote", t)
  BY DEF ReadAt
<1> HIDE DEF s
<1>3. ReadTurn(s, Mark) = [s EXCEPT !.mode = "quote"]
  BY <1>1 DEF ReadTurn
<1> QED BY <1>2, <1>3, Zenon DEF s

LEMMA ReadsDoubled == ASSUME NEW t PROVE ReadTurn(ReadAt("quote", t), Mark) = ReadAt("quoted", PutLast(t, Mark))
<1> DEFINE s == ReadAt("quote", t)
<1>1. s.mode = "quote" /\ s.rows = t
  BY ReadFields
<1>2. TabChar # Mark /\ NewLine # Mark
  BY CellMarks
<1> HIDE DEF s
<1>3. ReadTurn(s, Mark) = [mode |-> "quoted", rows |-> PutLast(s.rows, Mark)]
  BY <1>1, <1>2 DEF ReadTurn
<1> QED BY <1>1, <1>3, Zenon DEF ReadAt, s

LEMMA ReadsTab ==
  ASSUME NEW m \in {"plain", "quote"}, NEW t
  PROVE  ReadTurn(ReadAt(m, t), TabChar) = ReadAt("plain", [t EXCEPT ![Len(t)] = Append(t[Len(t)], <<>>)])
<1> DEFINE s == ReadAt(m, t)
<1>1. s.mode = m /\ s.rows = t /\ TabChar # Mark
  BY ReadFields, CellMarks
<1> HIDE DEF s
<1>2. s.mode # "quoted" /\ TabChar # Mark /\ TabChar # NewLine
  BY <1>1, CellMarks
<1>3. ReadTurn(s, TabChar) = [mode |-> "plain", rows |-> [s.rows EXCEPT ![Len(s.rows)] = Append(s.rows[Len(s.rows)], <<>>)]]
  BY <1>2 DEF ReadTurn
<1> QED BY <1>1, <1>3, Zenon DEF ReadAt, s

LEMMA ReadsLine ==
  ASSUME NEW m \in {"plain", "quote"}, NEW t
  PROVE  ReadTurn(ReadAt(m, t), NewLine) = ReadAt("plain", Append(t, << <<>> >>))
<1> DEFINE s == ReadAt(m, t)
           z == << <<>> >>
<1>1. s.mode = m /\ s.rows = t
  BY ReadFields
<1> HIDE DEF s
<1>2. s.mode # "quoted" /\ NewLine # Mark /\ NewLine # TabChar
  BY <1>1, CellMarks
<1>3. ReadTurn(s, NewLine) = [mode |-> "plain", rows |-> Append(s.rows, z)]
  BY <1>2 DEF ReadTurn
<1> QED BY <1>1, <1>3, Zenon DEF ReadAt, s, z

-----------------------------------------------------------------------------
ReadModes == {"plain", "quoted", "quote"}
Reading(C) == [mode : ReadModes, rows : Seq(Seq(Seq(C)))]
ReadSteps(C) == {z \in Reading(C) \X C \X Reading(C) : z[3] = ReadTurn(z[1], z[2])}

LEMMA ReaderStep ==
  ASSUME NEW C, NEW a, NEW c, NEW b
  PROVE  <<a, c, b>> \in ReadSteps(C) <=> a \in Reading(C) /\ c \in C /\ b \in Reading(C) /\ b = ReadTurn(a, c)
BY DEF ReadSteps

\* The reader in a cell.
InCell(m, done, row, cell) == ReadAt(m, RowsAt(done, row, cell))

LEMMA InCellType ==
  ASSUME NEW C, NEW m \in ReadModes, NEW done \in Seq(Seq(Seq(C))), NEW row \in Seq(Seq(C)), NEW cell \in Seq(C)
  PROVE  InCell(m, done, row, cell) \in Reading(C)
<1> DEFINE t == RowsAt(done, row, cell)
<1>1. t \in Seq(Seq(Seq(C)))
  BY RowsType
<1> HIDE DEF t
<1>2. ReadAt(m, t) \in Reading(C)
  BY <1>1 DEF ReadAt, Reading
<1> QED BY <1>2, Zenon DEF InCell, t

\* The steps in a cell.
LEMMA CellSteps ==
  ASSUME NEW C, Mark \in C, NEW done \in Seq(Seq(Seq(C))), NEW row \in Seq(Seq(C)), NEW cell \in Seq(C)
  PROVE  /\ <<InCell("plain", done, row, cell), Mark, InCell("quoted", done, row, cell)>> \in ReadSteps(C)
         /\ <<InCell("quoted", done, row, cell), Mark, InCell("quote", done, row, cell)>> \in ReadSteps(C)
         /\ <<InCell("quote", done, row, cell), Mark, InCell("quoted", done, row, Append(cell, Mark))>> \in ReadSteps(C)
<1> DEFINE t == RowsAt(done, row, cell)
           x == Append(cell, Mark)
<1>1. x \in Seq(C)
  OBVIOUS
<1> HIDE DEF x
<1>2. \A m \in ReadModes : InCell(m, done, row, cell) \in Reading(C) /\ InCell(m, done, row, x) \in Reading(C)
  BY <1>1, InCellType
<1>3. \A m : InCell(m, done, row, cell) = ReadAt(m, t)
  BY Zenon DEF InCell
<1>4. "plain" \in ReadModes /\ "quoted" \in ReadModes /\ "quote" \in ReadModes
  BY DEF ReadModes
<1>5. InCell("quoted", done, row, x) = ReadAt("quoted", PutLast(t, Mark))
  <2>1. PutLast(t, Mark) = RowsAt(done, row, x)
    BY PutAt DEF x
  <2> QED BY <2>1, Zenon DEF InCell
<1> HIDE DEF t
<1>6. ReadTurn(ReadAt("plain", t), Mark) = ReadAt("quoted", t)
  BY ReadsOpening
<1>7. ReadTurn(ReadAt("quoted", t), Mark) = ReadAt("quote", t)
  BY ReadsClosing
<1>8. ReadTurn(ReadAt("quote", t), Mark) = ReadAt("quoted", PutLast(t, Mark))
  BY ReadsDoubled
<1> DEFINE p == InCell("plain", done, row, cell)
           q == InCell("quoted", done, row, cell)
           r == InCell("quote", done, row, cell)
           y == InCell("quoted", done, row, x)
<1>9. p \in Reading(C) /\ q \in Reading(C) /\ r \in Reading(C) /\ y \in Reading(C)
  BY <1>2, <1>4
<1>10. q = ReadTurn(p, Mark) /\ r = ReadTurn(q, Mark) /\ y = ReadTurn(r, Mark)
  BY <1>3, <1>5, <1>6, <1>7, <1>8, Zenon
<1> HIDE DEF p, q, r, y
<1>11. <<p, Mark, q>> \in ReadSteps(C) /\ <<q, Mark, r>> \in ReadSteps(C) /\ <<r, Mark, y>> \in ReadSteps(C)
  BY <1>9, <1>10, ReaderStep
<1> QED BY <1>11, Zenon DEF p, q, r, y, x

LEMMA CellGrows ==
  ASSUME NEW C, NEW done \in Seq(Seq(Seq(C))), NEW row \in Seq(Seq(C)), NEW cell \in Seq(C), NEW c \in C, c # Mark,
         NEW m \in {"plain", "quoted"}, m = "plain" => c # TabChar /\ c # NewLine
  PROVE  <<InCell(m, done, row, cell), c, InCell(m, done, row, Append(cell, c))>> \in ReadSteps(C)
<1> DEFINE t == RowsAt(done, row, cell)
           x == Append(cell, c)
           a == InCell(m, done, row, cell)
           b == InCell(m, done, row, x)
<1>1. x \in Seq(C)
  OBVIOUS
<1> HIDE DEF x
<1>2. m \in ReadModes
  BY DEF ReadModes
<1>3. a \in Reading(C) /\ b \in Reading(C)
  BY <1>1, <1>2, InCellType
<1>4. a = ReadAt(m, t)
  BY Zenon DEF InCell
<1>5. b = ReadAt(m, PutLast(t, c))
  <2>1. PutLast(t, c) = RowsAt(done, row, x)
    BY PutAt DEF x
  <2> QED BY <2>1, Zenon DEF InCell
<1> HIDE DEF t, a, b
<1>6. ReadTurn(ReadAt(m, t), c) = ReadAt(m, PutLast(t, c))
  BY ReadsPlain, ReadsInside
<1>7. b = ReadTurn(a, c)
  BY <1>4, <1>5, <1>6, Zenon
<1>8. <<a, c, b>> \in ReadSteps(C)
  BY <1>3, <1>7, ReaderStep
<1> QED BY <1>8, Zenon DEF a, b, x

\* A tab ends a cell, and the end of a line ends a row.
LEMMA TabStep ==
  ASSUME NEW C, TabChar \in C, NEW m \in {"plain", "quote"}, NEW done \in Seq(Seq(Seq(C))), NEW row \in Seq(Seq(C)),
         NEW cell \in Seq(C)
  PROVE  <<InCell(m, done, row, cell), TabChar, InCell("plain", done, Append(row, cell), <<>>)>> \in ReadSteps(C)
<1> DEFINE D == Seq(C)
           E == Seq(D)
           z == <<>>
           r == Append(row, cell)
           t == RowsAt(done, row, cell)
           a == InCell(m, done, row, cell)
           b == InCell("plain", done, r, z)
<1>1. z \in Seq(C) /\ r \in Seq(Seq(C)) /\ Append(r, z) \in Seq(Seq(C))
  <2>1. z \in Seq(C)
    OBVIOUS
  <2>2. r \in Seq(Seq(C))
    BY RowsType
  <2> HIDE DEF z, r
  <2> QED BY <2>1, <2>2, RowsType
<1>2. m \in ReadModes /\ "plain" \in ReadModes
  BY DEF ReadModes
<1> HIDE DEF z
<1>3. a \in Reading(C) /\ b \in Reading(C)
  <2> HIDE DEF r
  <2>1. a \in Reading(C)
    BY <1>2, InCellType
  <2>2. b \in Reading(C)
    BY <1>1, <1>2, InCellType
  <2> QED BY <2>1, <2>2
<1>4. t = Append(done, r) /\ RowsAt(done, r, z) = Append(done, Append(r, z))
  BY Zenon DEF RowsAt
<1>5. a = ReadAt(m, t) /\ b = ReadAt("plain", RowsAt(done, r, z))
  BY Zenon DEF InCell
<1> DEFINE y == Append(r, z)
<1> HIDE DEF r, t, a, b, y
<1>6. t[Len(t)] = r /\ [t EXCEPT ![Len(t)] = y] = Append(done, y)
  <2>1. done \in Seq(E) /\ r \in E /\ y \in E
    BY <1>1 DEF y
  <2> DEFINE u == Append(done, r)
  <2> HIDE DEF E, D
  <2>2. u[Len(u)] = r /\ [u EXCEPT ![Len(u)] = y] = Append(done, y)
    BY <2>1, LastChanged
  <2>3. t = u
    BY <1>4
  <2> HIDE DEF u
  <2> QED BY <2>2, <2>3, Zenon
<1>7. ReadTurn(ReadAt(m, t), TabChar) = ReadAt("plain", [t EXCEPT ![Len(t)] = Append(t[Len(t)], <<>>)])
  BY ReadsTab
<1>8. b = ReadTurn(a, TabChar)
  <2>1. Append(t[Len(t)], <<>>) = y
    BY <1>6, Zenon DEF y, z
  <2> QED BY <1>4, <1>5, <1>6, <1>7, <2>1, Zenon DEF y
<1>9. <<a, TabChar, b>> \in ReadSteps(C)
  BY <1>3, <1>8, ReaderStep
<1> QED BY <1>9, Zenon DEF a, b, r, z

LEMMA NewLineStep ==
  ASSUME NEW C, NewLine \in C, NEW m \in {"plain", "quote"}, NEW done \in Seq(Seq(Seq(C))), NEW row \in Seq(Seq(C)),
         NEW cell \in Seq(C)
  PROVE  <<InCell(m, done, row, cell), NewLine, InCell("plain", RowsAt(done, row, cell), <<>>, <<>>)>> \in ReadSteps(C)
<1> DEFINE z == <<>>
           t == RowsAt(done, row, cell)
           a == InCell(m, done, row, cell)
           b == InCell("plain", t, z, z)
<1>1. z \in Seq(C) /\ z \in Seq(Seq(C)) /\ t \in Seq(Seq(Seq(C)))
  <2>1. t \in Seq(Seq(Seq(C)))
    BY RowsType
  <2> HIDE DEF t
  <2> QED BY <2>1
<1>2. m \in ReadModes /\ "plain" \in ReadModes
  BY DEF ReadModes
<1>3. << <<>> >> = Append(z, z)
  OBVIOUS
<1>4. a = ReadAt(m, t)
  BY Zenon DEF InCell
<1>5. a \in Reading(C)
  BY <1>2, InCellType
<1> HIDE DEF z, t, a
<1>6. b \in Reading(C)
  BY <1>1, <1>2, InCellType
<1>7. b = ReadAt("plain", Append(t, Append(z, z)))
  BY Zenon DEF InCell, RowsAt
<1> HIDE DEF b
<1>8. ReadTurn(ReadAt(m, t), NewLine) = ReadAt("plain", Append(t, << <<>> >>))
  BY ReadsLine
<1>9. b = ReadTurn(a, NewLine)
  BY <1>3, <1>4, <1>7, <1>8, Zenon
<1>10. <<a, NewLine, b>> \in ReadSteps(C)
  BY <1>5, <1>6, <1>9, ReaderStep
<1> QED BY <1>10, Zenon DEF a, b, t, z

-----------------------------------------------------------------------------
\* A cell that needs no quotes.
PlainCell(t) == \A i \in DOMAIN t : t[i] # TabChar /\ t[i] # NewLine /\ t[i] # Mark

LEMMA PlainCellRead ==
  ASSUME NEW C, NEW done \in Seq(Seq(Seq(C))), NEW row \in Seq(Seq(C)), NEW t \in Seq(C), PlainCell(t)
  PROVE  Leads(t, ReadSteps(C), Reading(C), InCell("plain", done, row, <<>>), InCell("plain", done, row, t))
<1> DEFINE n == Len(t)
           S == Reading(C)
           R == ReadSteps(C)
           U(i) == SubSeq(t, 1, i)
           G(i) == InCell("plain", done, row, U(i))
           g == [i \in 0 .. n |-> G(i)]
<1>1. n \in Nat /\ DOMAIN t = 1 .. n /\ \A i \in 1 .. n : t[i] \in C
  OBVIOUS
<1>2. \A i \in 0 .. n : U(i) \in Seq(C)
  OBVIOUS
<1>3. U(0) = <<>> /\ U(n) = t
  BY Prefixes
<1>4. \A i \in 1 .. n : U(i) = Append(U(i - 1), t[i])
  BY LongerStart
<1> HIDE DEF n, U
<1>5. \A i \in 0 .. n : G(i) \in S
  <2>1. "plain" \in ReadModes
    BY DEF ReadModes
  <2> SUFFICES ASSUME NEW i \in 0 .. n PROVE G(i) \in S
    OBVIOUS
  <2>2. U(i) \in Seq(C)
    BY <1>2
  <2> QED BY <2>1, <2>2, InCellType
<1>6. ASSUME NEW i \in 1 .. n PROVE <<G(i - 1), t[i], G(i)>> \in R
  <2> DEFINE w == U(i - 1)
             c == t[i]
  <2>1. i - 1 \in 0 .. n
    BY <1>1
  <2>2. w \in Seq(C)
    BY <1>2, <2>1
  <2>3. U(i) = Append(w, c) /\ c \in C /\ c # Mark /\ c # TabChar /\ c # NewLine
    BY <1>1, <1>4 DEF PlainCell
  <2> HIDE DEF w, c
  <2>4. <<InCell("plain", done, row, w), c, InCell("plain", done, row, Append(w, c))>> \in ReadSteps(C)
    BY <2>2, <2>3, CellGrows
  <2> QED BY <2>3, <2>4, Zenon DEF w, c
<1> HIDE DEF S, R, G
<1>7. g \in [0 .. n -> S] /\ g[0] = G(0) /\ g[n] = G(n) /\ \A i \in 1 .. n : g[i] = G(i) /\ g[i - 1] = G(i - 1)
  BY <1>1, <1>5
<1> HIDE DEF g
<1>8. Leads(t, R, S, G(0), G(n))
  <2>1. \A i \in 1 .. n : <<g[i - 1], t[i], g[i]>> \in R
    BY <1>6, <1>7
  <2> QED BY <1>7, <2>1, Zenon DEF Leads, n
<1> QED BY <1>3, <1>8, Zenon DEF G, S, R

\* A character between quotes, where a quote is doubled.
PieceInQuotes(c) == IF c = Mark THEN <<Mark, Mark>> ELSE <<c>>

LEMMA PieceRead ==
  ASSUME NEW C, Mark \in C, NEW done \in Seq(Seq(Seq(C))), NEW row \in Seq(Seq(C)), NEW cell \in Seq(C), NEW c \in C
  PROVE  /\ PieceInQuotes(c) \in Seq(C)
         /\ Leads(PieceInQuotes(c), ReadSteps(C), Reading(C), InCell("quoted", done, row, cell),
                  InCell("quoted", done, row, Append(cell, c)))
<1> DEFINE R == ReadSteps(C)
           S == Reading(C)
           x == Append(cell, c)
           u == <<c>>
           v == PieceInQuotes(c)
           a == InCell("quoted", done, row, cell)
           b == InCell("quote", done, row, cell)
           e == InCell("quoted", done, row, x)
<1>1. x \in Seq(C)
  OBVIOUS
<1>2. u \in Seq(C) /\ Len(u) = 1 /\ u[1] = c
  OBVIOUS
<1>3. "quoted" \in ReadModes /\ "quote" \in ReadModes
  BY DEF ReadModes
<1> HIDE DEF x
<1>4. a \in S /\ b \in S /\ e \in S
  BY <1>1, <1>3, InCellType
<1>5. CASE c = Mark
  <2>1. v = u \o u
    <3>1. v = <<Mark, Mark>>
      BY <1>5, Zenon DEF PieceInQuotes
    <3>2. <<Mark, Mark>> = <<Mark>> \o <<Mark>>
      OBVIOUS
    <3> QED BY <1>5, <3>1, <3>2, Zenon
  <2>2. <<a, Mark, b>> \in R /\ <<b, Mark, e>> \in R
    BY <1>5, CellSteps, Zenon DEF x
  <2> HIDE DEF a, b, e, u, v, R, S
  <2>3. Leads(u, R, S, a, b)
    BY <1>2, <1>4, <1>5, <2>2, OneLeads
  <2>4. Leads(u, R, S, b, e)
    BY <1>2, <1>4, <1>5, <2>2, OneLeads
  <2>5. Leads(u \o u, R, S, a, e)
    BY <1>2, <2>3, <2>4, LeadOn
  <2>6. u \o u \in Seq(C)
    BY <1>2
  <2> QED BY <2>1, <2>5, <2>6, Zenon DEF v, R, S, a, e, x
<1>6. CASE c # Mark
  <2>1. v = u
    BY <1>6, Zenon DEF PieceInQuotes
  <2>2. <<a, c, e>> \in R
    BY <1>6, CellGrows DEF x
  <2> HIDE DEF a, b, e, u, v, R, S
  <2>3. Leads(u, R, S, a, e)
    BY <1>2, <1>4, <2>2, OneLeads
  <2> QED BY <1>2, <2>1, <2>3, Zenon DEF v, R, S, a, e, x
<1> QED BY <1>5, <1>6

\* What is joined, piece by piece.
JoinTurn(s, i, pieces, sep) == s \o (IF i = 1 THEN <<>> ELSE sep) \o pieces[i]

LEMMA JoinTurnType ==
  ASSUME NEW C, NEW s \in Seq(C), NEW i, NEW pieces, pieces[i] \in Seq(C), NEW sep \in Seq(C)
  PROVE  JoinTurn(s, i, pieces, sep) \in Seq(C)
<1> DEFINE p == pieces[i]
           x == IF i = 1 THEN <<>> ELSE sep
<1>1. x \in Seq(C) /\ p \in Seq(C)
  OBVIOUS
<1> HIDE DEF x, p
<1>2. (s \o x) \o p \in Seq(C)
  BY <1>1
<1> QED BY <1>2, Zenon DEF JoinTurn, x, p

LEMMA JoinedScanned ==
  ASSUME NEW C, NEW pieces \in Seq(Seq(C)), NEW sep \in Seq(C)
  PROVE  \E g \in [0 .. Len(pieces) -> Seq(C)] :
           /\ g[0] = <<>> /\ \A i \in 1 .. Len(pieces) : g[i] = JoinTurn(g[i - 1], i, pieces, sep)
           /\ Joined(pieces, sep) = g[Len(pieces)]
<1> DEFINE n == Len(pieces)
           D == Seq(C)
           J(s, i) == JoinTurn(s, i, pieces, sep)
           F(f) == [i \in 0 .. n |-> IF i = 0 THEN <<>> ELSE J(f[i - 1], i)]
           upto == CHOOSE f : f = F(f)
           Q(i) == pieces[i]
<1>1. n \in Nat /\ <<>> \in D
  OBVIOUS
<1>2. ASSUME NEW s \in D, NEW i \in 1 .. n PROVE J(s, i) \in D
  <2>1. pieces[i] \in Seq(C)
    OBVIOUS
  <2> QED BY <2>1, JoinTurnType
<1>3. Joined(pieces, sep) = upto[n]
  BY Zenon DEF Joined, JoinTurn
<1> DEFINE G == [z \in D \X (1 .. n) |-> J(z[1], z[2])]
           a == <<>>
<1> HIDE DEF n, D, J, a
<1>4. G \in Steps(D, n) /\ \A s \in D, i \in 1 .. n : G[<<s, i>>] = J(s, i)
  BY <1>2 DEF Steps
<1> HIDE DEF G
<1>5. a \in D
  BY <1>1 DEF a
<1>6. PICK f : Built(f, D, a, n, G)
  BY <1>1, <1>5, <1>4, Recursion
<1>7. f \in [0 .. n -> D] /\ f[0] = a /\ \A i \in 1 .. n : f[i] = J(f[i - 1], i)
  <2>1. f \in [0 .. n -> D] /\ f[0] = a /\ \A i \in 1 .. n : f[i] = G[<<f[i - 1], i>>]
    BY <1>6, Zenon DEF Built
  <2>2. \A i \in 1 .. n : f[i - 1] \in D
    BY <1>1, <2>1
  <2> QED BY <1>4, <2>1, <2>2, Zenon
<1>8. f = F(f)
  BY <1>1, <1>7 DEF a
<1>9. upto = F(upto)
  BY <1>8
<1> HIDE DEF upto
<1>10. upto[0] = a /\ \A i \in 1 .. n : upto[i] = J(upto[i - 1], i)
  BY <1>1, <1>9 DEF a
<1> HIDE DEF F
<1>11. upto[n] = f[n]
  <2>1. \A i \in 1 .. n : upto[i - 1] = f[i - 1] => upto[i] = f[i]
    BY <1>7, <1>10
  <2>2. upto[0] = f[0]
    BY <1>7, <1>10
  <2> QED BY <1>1, <2>1, <2>2, SameScan
<1> QED BY <1>3, <1>7, <1>11, Zenon DEF n, D, a, J

LEMMA FewPieces ==
  ASSUME NEW D, NEW pieces \in Seq(D), Len(pieces) = 2 \/ Len(pieces) = 3
  PROVE  /\ pieces[1] \in D /\ pieces[2] \in D /\ (Len(pieces) = 3 => pieces[3] \in D)
         /\ DOMAIN pieces = 1 .. Len(pieces)
OBVIOUS

LEMMA JoinedTwo ==
  ASSUME NEW C, NEW sep \in Seq(C), NEW pieces \in Seq(Seq(C)), Len(pieces) = 2
  PROVE  Joined(pieces, sep) = pieces[1] \o sep \o pieces[2]
<1> DEFINE a == pieces[1]
           b == pieces[2]
<1>1. a \in Seq(C) /\ b \in Seq(C)
  BY FewPieces
<1> HIDE DEF a, b
<1>2. PICK g \in [0 .. 2 -> Seq(C)] :
        /\ g[0] = <<>> /\ \A i \in 1 .. 2 : g[i] = JoinTurn(g[i - 1], i, pieces, sep)
        /\ Joined(pieces, sep) = g[2]
  <2>1. \E g \in [0 .. Len(pieces) -> Seq(C)] :
          /\ g[0] = <<>> /\ \A i \in 1 .. Len(pieces) : g[i] = JoinTurn(g[i - 1], i, pieces, sep)
          /\ Joined(pieces, sep) = g[Len(pieces)]
    BY JoinedScanned
  <2> QED BY <2>1, Zenon
<1>3. g[1] = JoinTurn(g[0], 1, pieces, sep) /\ g[2] = JoinTurn(g[1], 2, pieces, sep)
  <2>1. 1 \in 1 .. 2 /\ 2 \in 1 .. 2 /\ 1 - 1 = 0 /\ 2 - 1 = 1
    OBVIOUS
  <2> QED BY <1>2, <2>1, Zenon
<1>4. g[1] = <<>> \o <<>> \o a
  BY <1>2, <1>3, Zenon DEF JoinTurn, a
<1>5. g[1] = a
  BY <1>4, <1>1
<1>6. 2 # 1
  OBVIOUS
<1> QED BY <1>2, <1>3, <1>5, <1>6, Zenon DEF JoinTurn, a, b

LEMMA JoinedThree ==
  ASSUME NEW C, NEW sep \in Seq(C), NEW pieces \in Seq(Seq(C)), Len(pieces) = 3
  PROVE  Joined(pieces, sep) = (pieces[1] \o sep \o pieces[2]) \o sep \o pieces[3]
<1> DEFINE a == pieces[1]
           b == pieces[2]
           c == pieces[3]
<1>1. a \in Seq(C) /\ b \in Seq(C) /\ c \in Seq(C)
  BY FewPieces
<1> HIDE DEF a, b, c
<1>2. PICK g \in [0 .. 3 -> Seq(C)] :
        /\ g[0] = <<>> /\ \A i \in 1 .. 3 : g[i] = JoinTurn(g[i - 1], i, pieces, sep)
        /\ Joined(pieces, sep) = g[3]
  <2>1. \E g \in [0 .. Len(pieces) -> Seq(C)] :
          /\ g[0] = <<>> /\ \A i \in 1 .. Len(pieces) : g[i] = JoinTurn(g[i - 1], i, pieces, sep)
          /\ Joined(pieces, sep) = g[Len(pieces)]
    BY JoinedScanned
  <2> QED BY <2>1, Zenon
<1>3. /\ g[1] = JoinTurn(g[0], 1, pieces, sep) /\ g[2] = JoinTurn(g[1], 2, pieces, sep)
      /\ g[3] = JoinTurn(g[2], 3, pieces, sep)
  <2>1. 1 \in 1 .. 3 /\ 2 \in 1 .. 3 /\ 3 \in 1 .. 3 /\ 1 - 1 = 0 /\ 2 - 1 = 1 /\ 3 - 1 = 2
    OBVIOUS
  <2> QED BY <1>2, <2>1, Zenon
<1>4. g[1] = <<>> \o <<>> \o a
  BY <1>2, <1>3, Zenon DEF JoinTurn, a
<1>5. g[1] = a
  BY <1>4, <1>1
<1>6. 2 # 1 /\ 3 # 1
  OBVIOUS
<1> QED BY <1>2, <1>3, <1>5, <1>6, Zenon DEF JoinTurn, a, b, c

-----------------------------------------------------------------------------
\* The pieces of a cell between quotes, joined, are read as the cell.
PiecesInQuotes(t) == [i \in DOMAIN t |-> PieceInQuotes(t[i])]

LEMMA PiecesRead ==
  ASSUME NEW C, Mark \in C, NEW done \in Seq(Seq(Seq(C))), NEW row \in Seq(Seq(C)), NEW t \in Seq(C)
  PROVE  /\ Joined(PiecesInQuotes(t), <<>>) \in Seq(C)
         /\ Leads(Joined(PiecesInQuotes(t), <<>>), ReadSteps(C), Reading(C), InCell("quoted", done, row, <<>>),
                  InCell("quoted", done, row, t))
<1> DEFINE n == Len(t)
           D == Seq(C)
           S == Reading(C)
           R == ReadSteps(C)
           p == PiecesInQuotes(t)
           e == <<>>
           U(i) == SubSeq(t, 1, i)
           G(i) == InCell("quoted", done, row, U(i))
<1>1. n \in Nat /\ DOMAIN t = 1 .. n /\ (\A i \in 1 .. n : t[i] \in C) /\ e \in D
  OBVIOUS
<1>2. \A i \in 0 .. n : U(i) \in D
  OBVIOUS
<1>3. U(0) = <<>> /\ U(n) = t
  BY Prefixes
<1>4. \A i \in 1 .. n : U(i) = Append(U(i - 1), t[i])
  BY LongerStart
<1> HIDE DEF n, U
<1>5. ASSUME NEW i \in 1 .. n
      PROVE  PieceInQuotes(t[i]) \in D /\ Leads(PieceInQuotes(t[i]), R, S, G(i - 1), G(i))
  <2> DEFINE w == U(i - 1)
             c == t[i]
  <2>1. i - 1 \in 0 .. n
    BY <1>1
  <2>2. w \in Seq(C)
    BY <1>2, <2>1
  <2>3. U(i) = Append(w, c) /\ c \in C
    BY <1>1, <1>4
  <2> HIDE DEF w, c
  <2>4. /\ PieceInQuotes(c) \in Seq(C)
        /\ Leads(PieceInQuotes(c), ReadSteps(C), Reading(C), InCell("quoted", done, row, w),
                 InCell("quoted", done, row, Append(w, c)))
    BY <2>2, <2>3, PieceRead
  <2> QED BY <2>3, <2>4, Zenon DEF w, c
<1>6. p \in Seq(D) /\ Len(p) = n /\ \A i \in 1 .. n : p[i] = PieceInQuotes(t[i])
  <2>1. p = [i \in 1 .. n |-> PieceInQuotes(t[i])]
    BY <1>1 DEF PiecesInQuotes
  <2>2. \A i \in 1 .. n : PieceInQuotes(t[i]) \in D
    BY <1>5
  <2> HIDE DEF D, p
  <2> QED BY <1>1, <2>1, <2>2
<1> HIDE DEF p
<1>7. PICK g \in [0 .. n -> D] :
        /\ g[0] = <<>> /\ \A i \in 1 .. n : g[i] = JoinTurn(g[i - 1], i, p, e)
        /\ Joined(p, e) = g[n]
  <2>1. p \in Seq(Seq(C)) /\ e \in Seq(C)
    BY <1>1, <1>6
  <2> HIDE DEF e
  <2>2. \E g \in [0 .. Len(p) -> Seq(C)] :
          /\ g[0] = <<>> /\ \A i \in 1 .. Len(p) : g[i] = JoinTurn(g[i - 1], i, p, e)
          /\ Joined(p, e) = g[Len(p)]
    BY <2>1, JoinedScanned
  <2> QED BY <1>6, <2>2, Zenon DEF D
<1>8. \A i \in 1 .. n : g[i - 1] \in D /\ g[i] = g[i - 1] \o PieceInQuotes(t[i])
  <2> SUFFICES ASSUME NEW i \in 1 .. n PROVE g[i - 1] \in D /\ g[i] = g[i - 1] \o PieceInQuotes(t[i])
    OBVIOUS
  <2> DEFINE s == g[i - 1]
             q == p[i]
  <2>1. i - 1 \in 0 .. n
    BY <1>1
  <2>2. s \in D /\ q \in D /\ q = PieceInQuotes(t[i])
    BY <1>5, <1>6, <1>7, <2>1
  <2>3. g[i] = s \o (IF i = 1 THEN <<>> ELSE <<>>) \o q
    BY <1>7, Zenon DEF JoinTurn, e
  <2> HIDE DEF s, q
  <2>4. s \o (IF i = 1 THEN <<>> ELSE <<>>) = s
    BY <2>2
  <2>5. g[i] = s \o q
    BY <2>3, <2>4, Zenon
  <2> QED BY <2>2, <2>5, Zenon DEF s
<1> DEFINE a == G(0)
           L(i) == Leads(g[i], R, S, a, G(i))
           T == {k \in Nat : k <= n => L(k)}
<1>9. a \in S
  <2>1. "quoted" \in ReadModes /\ 0 \in 0 .. n
    BY <1>1 DEF ReadModes
  <2> QED BY <1>2, <2>1, InCellType
<1> HIDE DEF S, R, G, D
<1>10. 0 \in T
  <2>1. e \in Seq(C) /\ \A i \in 1 .. Len(e) : <<a, e[i], a>> \in R
    OBVIOUS
  <2> HIDE DEF e, a
  <2>2. Leads(e, R, S, a, a)
    BY <1>9, <2>1, StaysAt
  <2>3. g[0] = e
    BY <1>7 DEF e
  <2>4. L(0)
    BY <2>2, <2>3, Zenon DEF a
  <2> HIDE DEF L
  <2> QED BY <2>4
<1>11. ASSUME NEW k \in Nat, k \in T PROVE k + 1 \in T
  <2> SUFFICES ASSUME k + 1 <= n PROVE L(k + 1)
    OBVIOUS
  <2> DEFINE j == k + 1
  <2>1. j \in 1 .. n /\ j - 1 = k
    BY <1>1
  <2> HIDE DEF L
  <2>2. L(k)
    BY <1>1, <1>11, <2>1
  <2> HIDE DEF j, T
  <2> DEFINE q == PieceInQuotes(t[j])
             s == g[k]
  <2>3. g[j] = s \o q /\ s \in D
    BY <1>8, <2>1
  <2>4. q \in D /\ Leads(q, R, S, G(k), G(j))
    BY <1>5, <2>1
  <2>5. Leads(s, R, S, a, G(k))
    BY <2>2, Zenon DEF L
  <2> HIDE DEF q, s, a
  <2>6. Leads(s \o q, R, S, a, G(j))
    <3>1. s \in Seq(C) /\ q \in Seq(C)
      BY <2>3, <2>4 DEF D
    <3> QED BY <2>4, <2>5, <3>1, LeadOn
  <2>7. L(j)
    BY <2>3, <2>6, Zenon DEF L
  <2> QED BY <2>7 DEF j
<1> HIDE DEF L
<1>12. n \in T
  BY <1>1, <1>10, <1>11, SetInduction
<1>13. L(n) /\ g[n] \in D
  BY <1>1, <1>7, <1>12
<1>14. Leads(Joined(p, e), R, S, G(0), G(n)) /\ Joined(p, e) \in D
  BY <1>7, <1>13, Zenon DEF L, a
<1> QED BY <1>3, <1>14, Zenon DEF G, S, R, D, p, e

\* From the state start, v leads to the end of the cell t of the row.
EndsIn(C, v, start, done, row, t) ==
  \E m \in {"plain", "quote"} : Leads(v, ReadSteps(C), Reading(C), start, InCell(m, done, row, t))

LEMMA CopiedRead ==
  ASSUME NEW C, Mark \in C, NEW done \in Seq(Seq(Seq(C))), NEW row \in Seq(Seq(C)), NEW t \in Seq(C)
  PROVE  CopiedCell(t) \in Seq(C) /\ EndsIn(C, CopiedCell(t), InCell("plain", done, row, <<>>), done, row, t)
<1> DEFINE a == InCell("plain", done, row, <<>>)
           q == Joined(PiecesInQuotes(t), <<>>)
<1>1. CASE PlainCell(t)
  <2>1. CopiedCell(t) = t
    BY <1>1, Zenon DEF CopiedCell, PlainCell, TabChar, NewLine, Mark
  <2>2. Leads(t, ReadSteps(C), Reading(C), a, InCell("plain", done, row, t))
    BY <1>1, PlainCellRead
  <2>3. EndsIn(C, t, a, done, row, t)
    BY <2>2, Zenon DEF EndsIn
  <2> QED BY <2>1, <2>3, Zenon
<1>2. CASE ~PlainCell(t)
  <2>1. CopiedCell(t) = <<Mark>> \o q \o <<Mark>>
    <3>1. ~(\A i \in DOMAIN t : t[i] \notin {"\t", "\n", "\""})
      BY <1>2, Zenon DEF PlainCell, TabChar, NewLine, Mark
    <3> QED BY <3>1, Zenon DEF CopiedCell, PiecesInQuotes, PieceInQuotes, Mark
  <2> DEFINE e == <<>>
             S == Reading(C)
             R == ReadSteps(C)
             b == InCell("quoted", done, row, e)
             c == InCell("quoted", done, row, t)
             z == InCell("quote", done, row, t)
  <2>2. q \in Seq(C) /\ Leads(q, R, S, b, c)
    BY PiecesRead
  <2>3. e \in Seq(C) /\ "plain" \in ReadModes /\ "quoted" \in ReadModes /\ "quote" \in ReadModes
    BY DEF ReadModes
  <2>4. a = InCell("plain", done, row, e)
    OBVIOUS
  <2> HIDE DEF e
  <2>5. a \in S /\ b \in S /\ c \in S /\ z \in S
    <3> HIDE DEF a
    <3> QED BY <2>3, <2>4, InCellType
  <2>6. <<a, Mark, b>> \in R /\ <<c, Mark, z>> \in R
    <3> HIDE DEF a
    <3>1. <<InCell("plain", done, row, e), Mark, InCell("quoted", done, row, e)>> \in ReadSteps(C)
      BY <2>3, CellSteps
    <3>2. <<InCell("quoted", done, row, t), Mark, InCell("quote", done, row, t)>> \in ReadSteps(C)
      BY CellSteps
    <3> QED BY <2>4, <3>1, <3>2, Zenon
  <2> HIDE DEF a, b, c, z, q, R, S
  <2>7. <<Mark>> \o q \o <<Mark>> \in Seq(C) /\ Leads(<<Mark>> \o q \o <<Mark>>, R, S, a, z)
    BY <2>2, <2>5, <2>6, LeadsQuoted
  <2> DEFINE w == <<Mark>> \o q \o <<Mark>>
  <2> HIDE DEF w
  <2>8. w \in Seq(C) /\ Leads(w, R, S, a, z)
    BY <2>7 DEF w
  <2>9. EndsIn(C, w, a, done, row, t)
    BY <2>8, Zenon DEF EndsIn, R, S, z
  <2> QED BY <2>1, <2>8, <2>9, Zenon DEF w, a
<1> QED BY <1>1, <1>2, Zenon

LEMMA PlainEnds ==
  ASSUME NEW C, NEW done \in Seq(Seq(Seq(C))), NEW row \in Seq(Seq(C)), NEW t \in Seq(C), PlainCell(t)
  PROVE  EndsIn(C, t, InCell("plain", done, row, <<>>), done, row, t)
<1>1. Leads(t, ReadSteps(C), Reading(C), InCell("plain", done, row, <<>>), InCell("plain", done, row, t))
  BY PlainCellRead
<1> QED BY <1>1, Zenon DEF EndsIn

\* The next cell, behind a tab.
LEMMA NextCell ==
  ASSUME NEW C, TabChar \in C, NEW v \in Seq(C), NEW w \in Seq(C), NEW start, NEW done \in Seq(Seq(Seq(C))),
         NEW row \in Seq(Seq(C)), NEW a \in Seq(C), NEW done2, NEW row2, NEW b, EndsIn(C, v, start, done, row, a),
         EndsIn(C, w, InCell("plain", done, Append(row, a), <<>>), done2, row2, b)
  PROVE  EndsIn(C, v \o <<TabChar>> \o w, start, done2, row2, b)
<1> DEFINE S == Reading(C)
           R == ReadSteps(C)
           y == InCell("plain", done, Append(row, a), <<>>)
<1>1. PICK m \in {"plain", "quote"} : Leads(v, R, S, start, InCell(m, done, row, a))
  BY Zenon DEF EndsIn
<1>2. PICK k \in {"plain", "quote"} : Leads(w, R, S, y, InCell(k, done2, row2, b))
  BY Zenon DEF EndsIn
<1> DEFINE x == InCell(m, done, row, a)
           z == InCell(k, done2, row2, b)
<1>3. <<x, TabChar, y>> \in R
  BY TabStep
<1>4. x \in S /\ y \in S
  BY <1>3, ReaderStep
<1> HIDE DEF x, y, z, R, S
<1>5. Leads(v, R, S, start, x) /\ Leads(w, R, S, y, z)
  BY <1>1, <1>2, Zenon DEF x, z
<1>6. Leads(v \o <<TabChar>> \o w, R, S, start, z)
  BY <1>3, <1>4, <1>5, LeadAcross
<1> QED BY <1>2, <1>6, Zenon DEF EndsIn, z, R, S

\* The next row, behind the end of the line.
LEMMA NextLine ==
  ASSUME NEW C, NewLine \in C, NEW v \in Seq(C), NEW w \in Seq(C), NEW start, NEW done \in Seq(Seq(Seq(C))),
         NEW row \in Seq(Seq(C)), NEW a \in Seq(C), NEW done2, NEW row2, NEW b, EndsIn(C, v, start, done, row, a),
         EndsIn(C, w, InCell("plain", RowsAt(done, row, a), <<>>, <<>>), done2, row2, b)
  PROVE  EndsIn(C, v \o <<NewLine>> \o w, start, done2, row2, b)
<1> DEFINE S == Reading(C)
           R == ReadSteps(C)
           y == InCell("plain", RowsAt(done, row, a), <<>>, <<>>)
<1>1. PICK m \in {"plain", "quote"} : Leads(v, R, S, start, InCell(m, done, row, a))
  BY Zenon DEF EndsIn
<1>2. PICK k \in {"plain", "quote"} : Leads(w, R, S, y, InCell(k, done2, row2, b))
  BY Zenon DEF EndsIn
<1> DEFINE x == InCell(m, done, row, a)
           z == InCell(k, done2, row2, b)
<1>3. <<x, NewLine, y>> \in R
  BY NewLineStep
<1>4. x \in S /\ y \in S
  BY <1>3, ReaderStep
<1> HIDE DEF x, y, z, R, S
<1>5. Leads(v, R, S, start, x) /\ Leads(w, R, S, y, z)
  BY <1>1, <1>2, Zenon DEF x, z
<1>6. Leads(v \o <<NewLine>> \o w, R, S, start, z)
  BY <1>3, <1>4, <1>5, LeadAcross
<1> QED BY <1>2, <1>6, Zenon DEF EndsIn, z, R, S

-----------------------------------------------------------------------------
\* The table read is the one that the steps of the reader lead to.
LEMMA ReadEnds ==
  ASSUME NEW C, NEW t \in Seq(C), NEW done, NEW row, NEW c,
         EndsIn(C, t, InCell("plain", <<>>, <<>>, <<>>), done, row, c)
  PROVE  ReadTable(t) = RowsAt(done, row, c)
<1> DEFINE n == Len(t)
           S == Reading(C)
           R == ReadSteps(C)
           a == InCell("plain", <<>>, <<>>, <<>>)
           F(f) == [i \in 0 .. Len(t) |-> IF i = 0 THEN [mode |-> "plain", rows |-> << << <<>> >> >>]
                                          ELSE ReadTurn(f[i - 1], t[i])]
           scan == CHOOSE f : f = F(f)
<1>1. n \in Nat
  OBVIOUS
<1>2. PICK m \in {"plain", "quote"} : Leads(t, R, S, a, InCell(m, done, row, c))
  BY Zenon DEF EndsIn
<1>3. a = [mode |-> "plain", rows |-> << << <<>> >> >>]
  <2> DEFINE e == <<>>
             u == Append(e, e)
             v == Append(e, u)
  <2>1. u = <<e>> /\ \A x : Append(e, x) = <<x>>
    OBVIOUS
  <2>2. a = [mode |-> "plain", rows |-> v]
    BY Zenon DEF InCell, ReadAt, RowsAt
  <2>3. v = <<u>>
    BY <2>1
  <2> QED BY <2>1, <2>2, <2>3, Zenon
<1> DEFINE end == InCell(m, done, row, c)
<1>4. PICK g \in [0 .. n -> S] : g[0] = a /\ g[n] = end /\ \A i \in 1 .. n : <<g[i - 1], t[i], g[i]>> \in R
  BY <1>2 DEF Leads
<1>5. \A i \in 1 .. n : g[i] = ReadTurn(g[i - 1], t[i])
  <2> HIDE DEF n
  <2>1. ASSUME NEW i \in 1 .. n PROVE g[i] = ReadTurn(g[i - 1], t[i])
    <3>1. <<g[i - 1], t[i], g[i]>> \in ReadSteps(C)
      BY <1>4
    <3> QED BY <3>1, ReaderStep
  <2> QED BY <2>1
<1>6. ReadTable(t) = scan[n].rows
  BY Zenon DEF ReadTable, ReadTurn, PutLast, PutIn, Mark, TabChar, NewLine
<1> HIDE DEF a, end, S, R
<1>7. F(g) = [i \in 0 .. n |-> IF i = 0 THEN a ELSE ReadTurn(g[i - 1], t[i])]
  BY <1>3, Zenon
<1>8. g = F(g)
  <2> HIDE DEF F
  <2> QED BY <1>1, <1>4, <1>5, <1>7
<1>9. scan = F(scan)
  <2> HIDE DEF F
  <2> QED BY <1>8
<1> HIDE DEF scan
<1>10. F(scan) = [i \in 0 .. n |-> IF i = 0 THEN a ELSE ReadTurn(scan[i - 1], t[i])]
  BY <1>3, Zenon
<1> HIDE DEF F, n
<1>11. scan[0] = a /\ \A i \in 1 .. n : scan[i] = ReadTurn(scan[i - 1], t[i])
  BY <1>1, <1>9, <1>10
<1>12. scan[n] = g[n]
  <2>1. \A i \in 1 .. n : scan[i - 1] = g[i - 1] => scan[i] = g[i]
    BY <1>5, <1>11
  <2>2. scan[0] = g[0]
    BY <1>4, <1>11
  <2> QED BY <1>1, <2>1, <2>2, SameScan
<1>13. end.rows = RowsAt(done, row, c)
  BY ReadFields, Zenon DEF InCell, end
<1> QED BY <1>4, <1>6, <1>12, <1>13, Zenon

TwoCells(a, b) == Append(Append(<<>>, a), b)

\* Wherever it begins, v ends at the cell t.
CellEnds(C, v, done, t) ==
  \A row \in Seq(Seq(C)) : EndsIn(C, v, InCell("plain", done, row, <<>>), done, row, t)

\* A line of two cells.
LEMMA TwoCellsEnd ==
  ASSUME NEW C, TabChar \in C, NEW done \in Seq(Seq(Seq(C))), NEW a \in Seq(C), NEW b \in Seq(C),
         NEW v \in Seq(C), NEW w \in Seq(C),
         CellEnds(C, v, done, a), CellEnds(C, w, done, b)
  PROVE  EndsIn(C, v \o <<TabChar>> \o w, InCell("plain", done, <<>>, <<>>), done, Append(<<>>, a), b)
<1> DEFINE e == <<>>
           r == Append(e, a)
           start == InCell("plain", done, e, e)
<1>1. e \in Seq(Seq(C))
  OBVIOUS
<1>2. r \in Seq(Seq(C))
  <2> HIDE DEF e
  <2> QED BY <1>1, RowsType
<1>3. EndsIn(C, v, start, done, e, a) /\ EndsIn(C, w, InCell("plain", done, r, <<>>), done, r, b)
  BY <1>1, <1>2, Zenon DEF CellEnds
<1> HIDE DEF e, start, r
<1>4. EndsIn(C, w, InCell("plain", done, Append(e, a), <<>>), done, r, b)
  BY <1>3, Zenon DEF r
<1>5. EndsIn(C, v \o <<TabChar>> \o w, start, done, r, b)
  BY <1>1, <1>3, <1>4, NextCell
<1> QED BY <1>5, Zenon DEF start, r, e

LEMMA TabLine == ASSUME NEW C, TabChar \in C, NEW v \in Seq(C), NEW w \in Seq(C) PROVE v \o <<TabChar>> \o w \in Seq(C)
<1> DEFINE x == <<TabChar>>
<1>1. x \in Seq(C)
  OBVIOUS
<1> HIDE DEF x
<1>2. (v \o x) \o w \in Seq(C)
  BY <1>1
<1> QED BY <1>2 DEF x

\* A line of the cells that are copied, and the line of the headers.
LEMMA CopiedLine ==
  ASSUME NEW C, Mark \in C, TabChar \in C, NEW done \in Seq(Seq(Seq(C))), NEW a \in Seq(C), NEW b \in Seq(C)
  PROVE  /\ CopiedCell(a) \o <<TabChar>> \o CopiedCell(b) \in Seq(C)
         /\ EndsIn(C, CopiedCell(a) \o <<TabChar>> \o CopiedCell(b), InCell("plain", done, <<>>, <<>>), done,
                   Append(<<>>, a), b)
<1> DEFINE v == CopiedCell(a)
           w == CopiedCell(b)
           e == <<>>
<1>1. e \in Seq(Seq(C))
  OBVIOUS
<1>2. v \in Seq(C) /\ w \in Seq(C)
  <2> HIDE DEF e
  <2> QED BY <1>1, CopiedRead
<1>3. CellEnds(C, v, done, a) /\ CellEnds(C, w, done, b)
  BY CopiedRead DEF CellEnds
<1> HIDE DEF v, w
<1>4. v \o <<TabChar>> \o w \in Seq(C)
  BY <1>2, TabLine
<1>5. EndsIn(C, v \o <<TabChar>> \o w, InCell("plain", done, <<>>, <<>>), done, Append(<<>>, a), b)
  BY <1>2, <1>3, TwoCellsEnd
<1> QED BY <1>4, <1>5, Zenon DEF v, w

LEMMA PlainLine ==
  ASSUME NEW C, TabChar \in C, NEW done \in Seq(Seq(Seq(C))), NEW a \in Seq(C), NEW b \in Seq(C), PlainCell(a), PlainCell(b)
  PROVE  EndsIn(C, a \o <<TabChar>> \o b, InCell("plain", done, <<>>, <<>>), done, Append(<<>>, a), b)
<1>1. CellEnds(C, a, done, a) /\ CellEnds(C, b, done, b)
  BY PlainEnds DEF CellEnds
<1> QED BY <1>1, TwoCellsEnd

LEMMA LinesType ==
  ASSUME NEW C, NEW done \in Seq(Seq(Seq(C))), NEW a \in Seq(C), NEW b \in Seq(C)
  PROVE  Append(<<>>, a) \in Seq(Seq(C)) /\ RowsAt(done, Append(<<>>, a), b) \in Seq(Seq(Seq(C)))
<1> DEFINE e == <<>>
           r == Append(e, a)
<1>1. e \in Seq(Seq(C))
  OBVIOUS
<1> HIDE DEF e
<1>2. r \in Seq(Seq(C))
  BY <1>1, RowsType
<1> HIDE DEF r
<1>3. RowsAt(done, r, b) \in Seq(Seq(Seq(C)))
  BY <1>2, RowsType
<1> QED BY <1>2, <1>3, Zenon DEF r, e

\* Three lines, the first of which is as it is.
CopiedTwo(a, b) == CopiedCell(a) \o <<TabChar>> \o CopiedCell(b)
ThreeLines(x, y, a, b, c, d) ==
  ((x \o <<TabChar>> \o y) \o <<NewLine>> \o CopiedTwo(a, b)) \o <<NewLine>> \o CopiedTwo(c, d)
ThreeRows(x, y, a, b, c, d) ==
  Append(Append(Append(<<>>, TwoCells(x, y)), TwoCells(a, b)), TwoCells(c, d))

LEMMA ThreeRead ==
  ASSUME NEW C, Mark \in C, TabChar \in C, NewLine \in C,
         NEW x \in Seq(C), NEW y \in Seq(C), PlainCell(x), PlainCell(y),
         NEW a \in Seq(C), NEW b \in Seq(C), NEW c \in Seq(C), NEW d \in Seq(C)
  PROVE  ReadTable(ThreeLines(x, y, a, b, c, d)) = ThreeRows(x, y, a, b, c, d)
<1> DEFINE e == <<>>
           u == x \o <<TabChar>> \o y
           v == CopiedTwo(a, b)
           w == CopiedTwo(c, d)
           start == InCell("plain", e, e, e)
           d1 == RowsAt(e, Append(e, x), y)
           d2 == RowsAt(d1, Append(e, a), b)
           z1 == u \o <<NewLine>> \o v
           z2 == z1 \o <<NewLine>> \o w
<1>1. e \in Seq(Seq(Seq(C)))
  OBVIOUS
<1>2. Append(e, x) \in Seq(Seq(C)) /\ d1 \in Seq(Seq(Seq(C)))
  <2> DEFINE f == e
  <2>1. f \in Seq(Seq(Seq(C)))
    BY <1>1
  <2> HIDE DEF f
  <2>2. RowsAt(f, Append(<<>>, x), y) \in Seq(Seq(Seq(C))) /\ Append(<<>>, x) \in Seq(Seq(C))
    BY <2>1, LinesType
  <2> QED BY <2>2, Zenon DEF f
<1> HIDE DEF d1
<1>3. Append(e, a) \in Seq(Seq(C)) /\ d2 \in Seq(Seq(Seq(C)))
  BY <1>2, LinesType
<1> HIDE DEF d2
<1>4. u \in Seq(C) /\ v \in Seq(C) /\ w \in Seq(C)
  <2>1. u \in Seq(C)
    BY TabLine
  <2>2. v \in Seq(C)
    BY <1>2, CopiedLine DEF CopiedTwo
  <2>3. w \in Seq(C)
    BY <1>2, CopiedLine DEF CopiedTwo
  <2> QED BY <2>1, <2>2, <2>3
<1>5. EndsIn(C, u, start, e, Append(e, x), y)
  <2> DEFINE f == e
  <2>1. f \in Seq(Seq(Seq(C)))
    BY <1>1
  <2> HIDE DEF f
  <2>2. EndsIn(C, x \o <<TabChar>> \o y, InCell("plain", f, <<>>, <<>>), f, Append(<<>>, x), y)
    BY <2>1, PlainLine
  <2> QED BY <2>2, Zenon DEF f
<1>6. EndsIn(C, v, InCell("plain", d1, <<>>, <<>>), d1, Append(e, a), b)
  <2>1. EndsIn(C, CopiedCell(a) \o <<TabChar>> \o CopiedCell(b), InCell("plain", d1, <<>>, <<>>), d1, Append(<<>>, a), b)
    BY <1>2, CopiedLine
  <2> QED BY <2>1, Zenon DEF CopiedTwo
<1>7. EndsIn(C, w, InCell("plain", d2, <<>>, <<>>), d2, Append(e, c), d)
  <2>1. EndsIn(C, CopiedCell(c) \o <<TabChar>> \o CopiedCell(d), InCell("plain", d2, <<>>, <<>>), d2, Append(<<>>, c), d)
    BY <1>3, CopiedLine
  <2> QED BY <2>1, Zenon DEF CopiedTwo
<1> DEFINE r1 == Append(e, x)
           r2 == Append(e, a)
           r3 == Append(e, c)
<1> HIDE DEF e, u, v, w, start, r1, r2, r3
<1>8. EndsIn(C, z1, start, d1, r2, b)
  <2>1. EndsIn(C, u, start, e, r1, y)
    BY <1>5, Zenon DEF r1
  <2>2. EndsIn(C, v, InCell("plain", RowsAt(e, r1, y), <<>>, <<>>), d1, r2, b)
    BY <1>6, Zenon DEF r1, r2, d1
  <2>3. r1 \in Seq(Seq(C))
    BY <1>2 DEF r1
  <2> QED BY <1>1, <1>4, <2>1, <2>2, <2>3, NextLine
<1>9. z1 \in Seq(C) /\ z2 \in Seq(C)
  <2> DEFINE n == <<NewLine>>
  <2>1. n \in Seq(C)
    OBVIOUS
  <2> HIDE DEF n
  <2>2. (u \o n) \o v \in Seq(C)
    BY <1>4, <2>1
  <2>3. z1 \in Seq(C)
    BY <2>2 DEF n
  <2> HIDE DEF z1
  <2>4. (z1 \o n) \o w \in Seq(C)
    BY <1>4, <2>1, <2>3
  <2> QED BY <2>3, <2>4 DEF n
<1> HIDE DEF z1
<1>10. EndsIn(C, z2, start, d2, r3, d)
  <2>1. EndsIn(C, w, InCell("plain", RowsAt(d1, r2, b), <<>>, <<>>), d2, r3, d)
    BY <1>7, Zenon DEF r2, r3, d2
  <2>2. r2 \in Seq(Seq(C))
    BY <1>3 DEF r2
  <2> QED BY <1>2, <1>4, <1>8, <1>9, <2>1, <2>2, NextLine
<1> HIDE DEF z2
<1>11. EndsIn(C, z2, InCell("plain", <<>>, <<>>, <<>>), d2, r3, d)
  BY <1>10, Zenon DEF start, e
<1>12. ReadTable(z2) = RowsAt(d2, r3, d)
  BY <1>9, <1>11, ReadEnds
<1>13. z2 = ThreeLines(x, y, a, b, c, d)
  BY Zenon DEF ThreeLines, z2, z1, u, v, w
<1>14. RowsAt(d2, r3, d) = ThreeRows(x, y, a, b, c, d)
  BY Zenon DEF RowsAt, ThreeRows, TwoCells, d2, d1, r2, r3, e
<1> QED BY <1>12, <1>13, <1>14, Zenon

CopiedRow(row) == Joined([i \in DOMAIN row |-> CopiedCell(row[i])], <<TabChar>>)

LEMMA CopiedType ==
  ASSUME NEW C, Mark \in C, NEW t \in Seq(C)
  PROVE  CopiedCell(t) \in Seq(C)
<1> DEFINE e == <<>>
<1>1. e \in Seq(Seq(Seq(C))) /\ e \in Seq(Seq(C))
  OBVIOUS
<1> HIDE DEF e
<1> QED BY <1>1, CopiedRead

LEMMA CopiedRowIs ==
  ASSUME NEW C, Mark \in C, TabChar \in C, NEW row \in Seq(Seq(C)), Len(row) = 2
  PROVE  CopiedRow(row) = CopiedTwo(row[1], row[2]) /\ CopiedTwo(row[1], row[2]) \in Seq(C)
<1> DEFINE D == Seq(C)
           p == [i \in DOMAIN row |-> CopiedCell(row[i])]
           a == row[1]
           b == row[2]
           v == CopiedCell(a)
           w == CopiedCell(b)
           s == <<TabChar>>
<1>1. DOMAIN row = 1 .. 2 /\ a \in D /\ b \in D
  <2> HIDE DEF D
  <2>1. row \in Seq(D)
    BY DEF D
  <2>2. DOMAIN row = 1 .. 2
    BY <2>1
  <2>3. row[1] \in D /\ row[2] \in D
    BY <2>1, FewPieces
  <2> QED BY <2>2, <2>3, Zenon
<1> HIDE DEF a, b
<1>2. v \in D /\ w \in D
  BY <1>1, CopiedType
<1>3. s \in D
  OBVIOUS
<1> HIDE DEF D, s
<1>4. p \in Seq(D) /\ Len(p) = 2 /\ p[1] = v /\ p[2] = w
  <2>1. p = [i \in 1 .. 2 |-> CopiedCell(row[i])]
    BY <1>1, Zenon
  <2> HIDE DEF p
  <2>2. DOMAIN p = 1 .. 2 /\ p[1] = CopiedCell(row[1]) /\ p[2] = CopiedCell(row[2])
    BY <2>1
  <2>3. p[1] = v /\ p[2] = w
    BY <2>2, Zenon DEF a, b
  <2> HIDE DEF v, w
  <2>4. \A i \in 1 .. 2 : p[i] \in D
    <3>1. ASSUME NEW i \in 1 .. 2 PROVE p[i] \in D
      <4>1. i = 1 \/ i = 2
        OBVIOUS
      <4> QED BY <1>2, <2>3, <4>1
    <3> QED BY <3>1
  <2>5. p = [i \in 1 .. 2 |-> p[i]]
    BY <2>1, <2>2
  <2>6. p \in Seq(D) /\ Len(p) = 2
    BY <2>4, <2>5
  <2> QED BY <2>3, <2>6
<1> HIDE DEF p, v, w
<1>5. Joined(p, s) = v \o s \o w
  <2>1. p \in Seq(Seq(C)) /\ v \in Seq(C) /\ w \in Seq(C) /\ s \in Seq(C)
    BY <1>2, <1>3, <1>4 DEF D
  <2>2. Joined(p, s) = p[1] \o s \o p[2]
    BY <1>4, <2>1, JoinedTwo
  <2> QED BY <1>4, <2>2, Zenon
<1>6. CopiedRow(row) = CopiedTwo(a, b)
  BY <1>5, Zenon DEF CopiedRow, CopiedTwo, p, v, w, a, b, s
<1>7. CopiedTwo(a, b) \in D
  <2>1. v \o <<TabChar>> \o w \in Seq(C)
    <3>1. v \in Seq(C) /\ w \in Seq(C)
      BY <1>2 DEF D
    <3> QED BY <3>1, TabLine
  <2> QED BY <2>1, Zenon DEF CopiedTwo, v, w, D
<1> QED BY <1>6, <1>7, Zenon DEF a, b, D

TwoAsOne(D, v, w) ==
  LET u == v \o w
  IN  /\ u \in Seq(D) /\ Len(u) = Len(v) + Len(w)
      /\ \A i \in 1 .. Len(v) : u[i] = v[i]
      /\ \A i \in 1 .. Len(w) : u[Len(v) + i] = w[i]
LEMMA TwoAreOne == ASSUME NEW D, NEW v \in Seq(D), NEW w \in Seq(D) PROVE TwoAsOne(D, v, w)
BY TwoJoined DEF TwoAsOne

LEMMA OneAndTwo ==
  ASSUME NEW D, NEW h \in D, NEW f \in Seq(D), Len(f) = 2
  PROVE  /\ <<h>> \o f \in Seq(D) /\ Len(<<h>> \o f) = 3
         /\ (<<h>> \o f)[1] = h /\ (<<h>> \o f)[2] = f[1] /\ (<<h>> \o f)[3] = f[2]
<1> DEFINE q == <<h>>
           z == q \o f
<1>1. q \in Seq(D) /\ Len(q) = 1 /\ q[1] = h
  OBVIOUS
<1> HIDE DEF q
<1>2. TwoAsOne(D, q, f)
  BY <1>1, TwoAreOne
<1>3. /\ z \in Seq(D) /\ Len(z) = Len(q) + Len(f)
      /\ \A i \in 1 .. Len(q) : z[i] = q[i]
      /\ \A i \in 1 .. Len(f) : z[Len(q) + i] = f[i]
  BY <1>2, Zenon DEF TwoAsOne
<1> HIDE DEF z
<1>4. z[1] = q[1]
  <2>1. 1 \in 1 .. Len(q)
    BY <1>1
  <2> QED BY <1>3, <2>1
<1>5. z \in Seq(D) /\ Len(z) = 3
  BY <1>1, <1>3
<1>6. z[2] = f[1] /\ z[3] = f[2]
  <2>1. 1 \in 1 .. Len(f) /\ 2 \in 1 .. Len(f) /\ Len(q) + 1 = 2 /\ Len(q) + 2 = 3
    BY <1>1
  <2> QED BY <1>3, <2>1
<1> QED BY <1>1, <1>5, <1>4, <1>6, Zenon DEF q, z

\* What is copied of two rows of two cells.
LEMMA CopiedLines ==
  ASSUME NEW C, Mark \in C, TabChar \in C, NewLine \in C, NEW headers \in Seq(Seq(C)), Len(headers) = 2,
         NEW rows \in Seq(Seq(Seq(C))), Len(rows) = 2, Len(rows[1]) = 2, Len(rows[2]) = 2
  PROVE  CopyData(headers, rows) =
           ThreeLines(headers[1], headers[2], rows[1][1], rows[1][2], rows[2][1], rows[2][2])
<1> DEFINE D == Seq(C)
           E == Seq(D)
           s == <<TabChar>>
           n == <<NewLine>>
           x == headers[1]
           y == headers[2]
           h == Joined(headers, s)
           f == [r \in DOMAIN rows |-> CopiedRow(rows[r])]
           r1 == rows[1]
           r2 == rows[2]
           v == CopiedTwo(r1[1], r1[2])
           w == CopiedTwo(r2[1], r2[2])
           u == x \o s \o y
<1>1. x \in D /\ y \in D
  <2> HIDE DEF D
  <2>1. headers \in Seq(D)
    BY DEF D
  <2>2. headers[1] \in D /\ headers[2] \in D
    BY <2>1, FewPieces
  <2> QED BY <2>2
<1>2. s \in D /\ n \in D
  OBVIOUS
<1>3. h = u /\ u \in D
  <2> HIDE DEF x, y, s, D
  <2>1. s \in Seq(C) /\ x \in Seq(C) /\ y \in Seq(C) /\ headers[1] = x /\ headers[2] = y
    BY <1>1, <1>2 DEF D, x, y
  <2>2. h = headers[1] \o s \o headers[2]
    BY <2>1, JoinedTwo
  <2>3. h = u
    BY <2>1, <2>2, Zenon
  <2>4. u \in Seq(C)
    BY <2>1, TabLine DEF s
  <2> QED BY <2>3, <2>4 DEF D
<1> HIDE DEF D, E
<1>4. DOMAIN rows = 1 .. 2 /\ r1 \in E /\ r2 \in E
  <2>1. rows \in Seq(E)
    BY DEF D, E
  <2>2. DOMAIN rows = 1 .. 2 /\ rows[1] \in E /\ rows[2] \in E
    BY <2>1, FewPieces
  <2> QED BY <2>2
<1>5. CopiedRow(r1) = v /\ v \in D /\ CopiedRow(r2) = w /\ w \in D
  <2>1. r1 \in Seq(Seq(C)) /\ r2 \in Seq(Seq(C)) /\ Len(r1) = 2 /\ Len(r2) = 2
    BY <1>4 DEF E, D
  <2> HIDE DEF r1, r2
  <2>2. CopiedRow(r1) = v /\ v \in Seq(C)
    BY <2>1, CopiedRowIs
  <2>3. CopiedRow(r2) = w /\ w \in Seq(C)
    BY <2>1, CopiedRowIs
  <2> HIDE DEF v, w
  <2> QED BY <2>2, <2>3 DEF D
<1>6. CopyData(headers, rows) = Joined(<<h>> \o f, n)
  BY Zenon DEF CopyData, CopiedRow, TabChar, NewLine
<1>7. f = [r \in 1 .. 2 |-> CopiedRow(rows[r])]
  BY <1>4, Zenon
<1> HIDE DEF f
<1>8. DOMAIN f = 1 .. 2 /\ f[1] = CopiedRow(r1) /\ f[2] = CopiedRow(r2)
  BY <1>7
<1>9. f[1] = v /\ f[2] = w
  BY <1>5, <1>8, Zenon
<1> HIDE DEF r1, r2, v, w, h, u, s, n, x, y
<1>10. f \in Seq(D) /\ Len(f) = 2
  <2>1. \A i \in 1 .. 2 : f[i] \in D
    <3>1. ASSUME NEW i \in 1 .. 2 PROVE f[i] \in D
      <4>1. i = 1 \/ i = 2
        OBVIOUS
      <4> QED BY <1>5, <1>9, <4>1
    <3> QED BY <3>1
  <2>2. f = [i \in 1 .. 2 |-> f[i]]
    BY <1>7, <1>8
  <2> QED BY <2>1, <2>2
<1> DEFINE p == <<h>> \o f
<1>11. p \in Seq(D) /\ Len(p) = 3 /\ p[1] = h /\ p[2] = v /\ p[3] = w
  <2>1. /\ p \in Seq(D) /\ Len(p) = 3
        /\ p[1] = h /\ p[2] = f[1] /\ p[3] = f[2]
    BY <1>3, <1>10, OneAndTwo
  <2> QED BY <1>9, <2>1, Zenon
<1> HIDE DEF p
<1>12. Joined(p, n) = (u \o n \o v) \o n \o w
  <2>1. p \in Seq(Seq(C)) /\ u \in Seq(C) /\ v \in Seq(C) /\ w \in Seq(C) /\ n \in Seq(C) /\ p[1] = u
    BY <1>2, <1>3, <1>5, <1>11 DEF D
  <2>2. Joined(p, n) = (p[1] \o n \o p[2]) \o n \o p[3]
    BY <1>11, <2>1, JoinedThree
  <2> QED BY <1>11, <2>1, <2>2, Zenon
<1> QED BY <1>6, <1>12, Zenon DEF ThreeLines, p, u, v, w, n, s, x, y, r1, r2

LEMMA ThreeOfThem == ASSUME NEW p, NEW q, NEW r PROVE Append(Append(Append(<<>>, p), q), r) = <<p>> \o <<q, r>>
OBVIOUS

LEMMA PairOf ==
  ASSUME NEW D, NEW a \in D, NEW b \in D
  PROVE  <<a, b>> \in Seq(D) /\ Len(<<a, b>>) = 2 /\ <<a, b>>[1] = a /\ <<a, b>>[2] = b
OBVIOUS

LEMMA AppendedIs ==
  ASSUME NEW D, NEW u \in Seq(D), NEW b \in D
  PROVE  /\ Append(u, b) \in Seq(D) /\ Len(Append(u, b)) = Len(u) + 1 /\ Append(u, b)[Len(u) + 1] = b
         /\ \A i \in 1 .. Len(u) : Append(u, b)[i] = u[i]
OBVIOUS

LEMMA TwoCellsAre == ASSUME NEW D, NEW a \in D, NEW b \in D PROVE TwoCells(a, b) = <<a, b>>
<1> DEFINE e == <<>>
           u == Append(e, a)
           v == Append(u, b)
           w == <<a, b>>
<1>1. w \in Seq(D) /\ Len(w) = 2 /\ w[1] = a /\ w[2] = b
  BY PairOf
<1>2. e \in Seq(D) /\ Len(e) = 0
  OBVIOUS
<1> HIDE DEF e, w
<1>3. u \in Seq(D) /\ Len(u) = 1 /\ u[1] = a
  BY <1>2
<1> HIDE DEF u
<1>4. v \in Seq(D) /\ Len(v) = 2 /\ v[1] = a /\ v[2] = b
  <2>1. v \in Seq(D) /\ Len(v) = Len(u) + 1 /\ v[Len(u) + 1] = b /\ \A i \in 1 .. Len(u) : v[i] = u[i]
    BY <1>3, AppendedIs
  <2> QED BY <1>3, <2>1
<1> HIDE DEF v
<1>5. \A i \in 1 .. Len(v) : v[i] = w[i]
  <2>1. \A i \in 1 .. 2 : i = 1 \/ i = 2
    OBVIOUS
  <2> QED BY <1>1, <1>4, <2>1
<1>6. v = w
  BY <1>1, <1>4, <1>5, SameText
<1> QED BY <1>6, Zenon DEF TwoCells, v, u, e, w

\* The data of two rows of two cells, copied, are read as they are.
TakesOut(x, y, a, b, c, d) ==
  ReadTable(CopyData(<<x, y>>, << <<a, b>>, <<c, d>> >>)) = << <<x, y>> >> \o << <<a, b>>, <<c, d>> >>

LEMMA TakenOut ==
  ASSUME NEW C, Mark \in C, TabChar \in C, NewLine \in C,
         NEW x \in Seq(C), NEW y \in Seq(C), PlainCell(x), PlainCell(y),
         NEW a \in Seq(C), NEW b \in Seq(C), NEW c \in Seq(C), NEW d \in Seq(C)
  PROVE  TakesOut(x, y, a, b, c, d)
<1> DEFINE D == Seq(C)
           E == Seq(D)
           h == <<x, y>>
           p == <<a, b>>
           q == <<c, d>>
           rows == <<p, q>>
<1>1. h \in E /\ Len(h) = 2 /\ h[1] = x /\ h[2] = y
  <2>1. x \in D /\ y \in D
    OBVIOUS
  <2> HIDE DEF D
  <2> QED BY <2>1, PairOf
<1>2. p \in E /\ Len(p) = 2 /\ p[1] = a /\ p[2] = b
  <2>1. a \in D /\ b \in D
    OBVIOUS
  <2> HIDE DEF D
  <2> QED BY <2>1, PairOf
<1>3. q \in E /\ Len(q) = 2 /\ q[1] = c /\ q[2] = d
  <2>1. c \in D /\ d \in D
    OBVIOUS
  <2> HIDE DEF D
  <2> QED BY <2>1, PairOf
<1> HIDE DEF D, E, h, p, q
<1>4. rows \in Seq(E) /\ Len(rows) = 2 /\ rows[1] = p /\ rows[2] = q
  BY <1>2, <1>3, PairOf
<1> HIDE DEF rows
<1>5. CopyData(h, rows) = ThreeLines(h[1], h[2], rows[1][1], rows[1][2], rows[2][1], rows[2][2])
  <2>1. h \in Seq(Seq(C)) /\ rows \in Seq(Seq(Seq(C)))
    BY <1>1, <1>4 DEF E, D
  <2>2. Len(h) = 2 /\ Len(rows) = 2 /\ Len(rows[1]) = 2 /\ Len(rows[2]) = 2
    BY <1>1, <1>2, <1>3, <1>4
  <2> QED BY <2>1, <2>2, CopiedLines
<1>6. CopyData(h, rows) = ThreeLines(x, y, a, b, c, d)
  BY <1>1, <1>2, <1>3, <1>4, <1>5, Zenon
<1>7. ReadTable(ThreeLines(x, y, a, b, c, d)) = ThreeRows(x, y, a, b, c, d)
  BY ThreeRead
<1>8. ThreeRows(x, y, a, b, c, d) = Append(Append(Append(<<>>, h), p), q)
  <2>1. TwoCells(x, y) = <<x, y>> /\ TwoCells(a, b) = <<a, b>> /\ TwoCells(c, d) = <<c, d>>
    BY TwoCellsAre
  <2> QED BY <2>1, Zenon DEF ThreeRows, h, p, q
<1>9. ThreeRows(x, y, a, b, c, d) = <<h>> \o rows
  BY <1>8, ThreeOfThem, Zenon DEF rows
<1>10. ReadTable(CopyData(h, rows)) = <<h>> \o rows
  BY <1>6, <1>7, <1>9, Zenon
<1> QED BY <1>10, Zenon DEF TakesOut, h, rows, p, q

-----------------------------------------------------------------------------
LEMMA SpanOfOne ==
  ASSUME NEW D, NEW s \in Seq(D), NEW i \in 1 .. Len(s)
  PROVE  SubSeq(s, i, i) = <<s[i]>>
<1> DEFINE k == i - 1
           u == SubSeq(s, k + 1, k + 1)
<1>1. k \in Nat /\ k + 1 = i /\ k + 1 <= Len(s)
  OBVIOUS
<1> HIDE DEF k
<1>2. u \in Seq(D) /\ Len(u) = 1 /\ \A j \in 1 .. 1 : u[j] = s[k + j]
  BY <1>1, SpanRead
<1>3. u = SubSeq(s, i, i)
  BY <1>1
<1> HIDE DEF u
<1>4. u[1] = s[i]
  BY <1>1, <1>2
<1>5. s[i] \in D
  OBVIOUS
<1> DEFINE w == <<s[i]>>
<1>6. w \in Seq(D) /\ Len(w) = 1 /\ w[1] = s[i]
  BY <1>5
<1> HIDE DEF w
<1>7. u = w
  <2>1. \A j \in 1 .. Len(u) : u[j] = w[j]
    BY <1>2, <1>4, <1>6
  <2> QED BY <1>2, <1>6, <2>1, SameText
<1> QED BY <1>3, <1>7, Zenon DEF w

\* A click on a cell shows what it has, and selects the name of its column.
Shows(headers, rows, i, r) ==
  /\ AfterCellSelection(headers, rows, i, r).rowView[i].value = rows[r][i]
  /\ CopyHeaders(headers, AfterCellSelection(headers, rows, i, r).selection) = <<headers[i]>>

\* A click on a cell of two rows of two cells.
LEMMA ClickShows ==
  ASSUME NEW x, NEW y, NEW rows, NEW i \in 1 .. 2, NEW r
  PROVE  Shows(<<x, y>>, rows, i, r)
<1> DEFINE h == <<x, y>>
           v == [k \in DOMAIN h |-> [n |-> k, name |-> h[k], value |-> rows[r][k]]]
           s == <<r, i, r, i>>
           after == AfterCellSelection(h, rows, i, r)
<1>1. after = [rowView |-> v, selection |-> s]
  BY Zenon DEF AfterCellSelection
<1>2. DOMAIN h = 1 .. 2
  OBVIOUS
<1>3. v[i].value = rows[r][i]
  <2> HIDE DEF h
  <2> QED BY <1>2
<1>4. SubSeq(h, i, i) = <<h[i]>>
  <2>1. h \in Seq({x, y}) /\ i \in 1 .. Len(h)
    OBVIOUS
  <2> HIDE DEF h
  <2> QED BY <2>1, SpanOfOne
<1>5. s[2] = i /\ s[4] = i
  OBVIOUS
<1> HIDE DEF h, v, s, after
<1>6. after.rowView = v /\ after.selection = s
  BY <1>1
<1>7. CopyHeaders(h, s) = <<h[i]>>
  BY <1>4, <1>5, Zenon DEF CopyHeaders
<1> QED BY <1>3, <1>6, <1>7, Zenon DEF Shows, after, h

LEMMA PairFilled == ASSUME NEW a, NEW b, NEW f, f = [i \in 1 .. 2 |-> IF i = 1 THEN a ELSE b] PROVE f = <<a, b>>
OBVIOUS

LEMMA PairMapped ==
  ASSUME NEW f, DOMAIN f = 1 .. 2, f = [i \in 1 .. 2 |-> f[i]]
  PROVE  f = <<f[1], f[2]>>
<1> DEFINE a == f[1]
           b == f[2]
<1>1. \A i \in 1 .. 2 : f[i] = IF i = 1 THEN a ELSE b
  OBVIOUS
<1> HIDE DEF a, b
<1>2. f = [i \in 1 .. 2 |-> IF i = 1 THEN a ELSE b]
  BY <1>1
<1>3. f = <<a, b>>
  BY <1>2, PairFilled
<1> QED BY <1>3, Zenon DEF a, b

WithTab(t) == t \o <<TabChar>>
WithTabs(rows) == [r \in 1 .. 2 |-> [i \in 1 .. 2 |-> WithTab(rows[r][i])]]

LEMMA RowTabbed ==
  ASSUME NEW a, NEW b, NEW row, row[1] = a, row[2] = b
  PROVE  [i \in 1 .. 2 |-> WithTab(row[i])] = <<WithTab(a), WithTab(b)>>
<1> DEFINE f == [i \in 1 .. 2 |-> WithTab(row[i])]
<1>1. DOMAIN f = 1 .. 2 /\ f[1] = WithTab(row[1]) /\ f[2] = WithTab(row[2]) /\ f = [i \in 1 .. 2 |-> f[i]]
  OBVIOUS
<1> HIDE DEF f
<1>2. f = <<f[1], f[2]>>
  BY <1>1, PairMapped
<1> QED BY <1>1, <1>2, Zenon DEF f

LEMMA RowsTabbed ==
  ASSUME NEW a, NEW b, NEW c, NEW d
  PROVE  WithTabs(<< <<a, b>>, <<c, d>> >>) = << <<WithTab(a), WithTab(b)>>, <<WithTab(c), WithTab(d)>> >>
<1> DEFINE p == <<a, b>>
           q == <<c, d>>
           rows == <<p, q>>
           W(row) == [i \in 1 .. 2 |-> WithTab(row[i])]
           f == WithTabs(rows)
<1>1. p[1] = a /\ p[2] = b /\ q[1] = c /\ q[2] = d
  OBVIOUS
<1> HIDE DEF p, q
<1>2. rows[1] = p /\ rows[2] = q
  OBVIOUS
<1> HIDE DEF rows
<1>3. W(p) = <<WithTab(a), WithTab(b)>> /\ W(q) = <<WithTab(c), WithTab(d)>>
  BY <1>1, RowTabbed
<1>4. f = [r \in 1 .. 2 |-> W(rows[r])]
  BY Zenon DEF WithTabs
<1> HIDE DEF f, W
<1>5. DOMAIN f = 1 .. 2 /\ f[1] = W(rows[1]) /\ f[2] = W(rows[2]) /\ f = [r \in 1 .. 2 |-> f[r]]
  BY <1>4
<1>6. f = <<f[1], f[2]>>
  BY <1>5, PairMapped
<1> QED BY <1>2, <1>3, <1>5, <1>6, Zenon DEF f, W, rows, p, q

\* Every text that is typed, taken out of the table that has it.
LEMMA AllTakenOut == TextInv => FoundIsTakenOut
<1> SUFFICES ASSUME TextInv PROVE FoundIsTakenOut
  OBVIOUS
<1> DEFINE C == keys.chars \cup {Mark, TabChar, NewLine, "a", "x", "y"}
           D == Seq(C)
           x == <<"x">>
           y == <<"y">>
           headers == <<x, y>>
           p == <<text, x>>
           q == <<x, text>>
           rows == <<p, q>>
           shown == FilterRows(rows, x, -1)
<1>1. Mark \in C /\ TabChar \in C /\ NewLine \in C /\ "a" \in C /\ keys.chars \subseteq C /\ "x" \in C /\ "y" \in C
  OBVIOUS
<1> HIDE DEF C
<1>2. text \in D /\ x \in D /\ y \in D
  <2>1. text \in Seq(C)
    BY <1>1, WiderSeq DEF TextInv
  <2>2. x \in Seq(C) /\ y \in Seq(C)
    BY <1>1
  <2> QED BY <2>1, <2>2
<1>3. PlainCell(x) /\ PlainCell(y)
  <2>1. DOMAIN x = {1} /\ x[1] = "x" /\ DOMAIN y = {1} /\ y[1] = "y"
    OBVIOUS
  <2> HIDE DEF x, y
  <2> QED BY <2>1, CellMarks DEF PlainCell
<1> HIDE DEF x, y
<1>4. ReadTable(CopyData(headers, rows)) = <<headers>> \o rows
  <2>1. TakesOut(x, y, text, x, x, text)
    BY <1>1, <1>2, <1>3, TakenOut
  <2> QED BY <2>1, Zenon DEF TakesOut
<1>5. ReadTable(CopyData(headers, WithTabs(rows))) = <<headers>> \o WithTabs(rows)
  <2> DEFINE a == WithTab(text)
             b == WithTab(x)
             z == << <<a, b>>, <<b, a>> >>
  <2>1. a \in Seq(C) /\ b \in Seq(C)
    <3> DEFINE v == <<TabChar>>
    <3>1. v \in Seq(C)
      BY <1>1
    <3> HIDE DEF v
    <3>2. text \o v \in Seq(C) /\ x \o v \in Seq(C)
      BY <1>2, <3>1
    <3> QED BY <3>2, Zenon DEF WithTab, v
  <2>2. WithTabs(rows) = z
    BY RowsTabbed
  <2> HIDE DEF a, b
  <2>3. TakesOut(x, y, a, b, b, a)
    BY <1>1, <1>2, <1>3, <2>1, TakenOut
  <2>4. ReadTable(CopyData(headers, z)) = <<headers>> \o z
    BY <2>3, Zenon DEF TakesOut
  <2> HIDE DEF headers, rows, z
  <2> QED BY <2>2, <2>4, Zenon
<1>6. shown = rows
  <2>1. p \in Seq(D) /\ DOMAIN p = {1, 2} /\ p[2] = x /\ q \in Seq(D) /\ DOMAIN q = {1, 2} /\ q[1] = x
    BY <1>2
  <2> HIDE DEF p, q
  <2>2. HasPieces(p, x) /\ HasPieces(q, x)
    <3>1. x \in Seq(C) /\ 1 \in DOMAIN q /\ 2 \in DOMAIN p
      BY <1>2, <2>1
    <3> QED BY <1>1, <2>1, <3>1, TextHasPieces
  <2>3. rows \in Seq({p, q}) /\ DOMAIN rows = {1, 2} /\ rows[1] = p /\ rows[2] = q
    OBVIOUS
  <2> HIDE DEF rows
  <2>4. \A r \in DOMAIN rows : HasPieces(rows[r], x)
    BY <2>2, <2>3
  <2>5. -1 \in Int /\ -1 <= -1
    OBVIOUS
  <2> DEFINE limit == -1
  <2>6. limit \in Int /\ limit <= -1
    BY <2>5
  <2> HIDE DEF limit
  <2>7. FilterRows(rows, x, limit) = rows
    BY <2>3, <2>4, <2>6, AllShown
  <2> QED BY <2>7, Zenon DEF limit
<1>7. ASSUME NEW i \in 1 .. 2, NEW r
      PROVE  /\ AfterCellSelection(headers, shown, i, r).rowView[i].value = rows[r][i]
             /\ CopyHeaders(headers, AfterCellSelection(headers, shown, i, r).selection) = <<headers[i]>>
  <2> HIDE DEF shown, rows
  <2>1. Shows(<<x, y>>, rows, i, r)
    BY ClickShows
  <2> QED BY <1>6, <2>1, Zenon DEF Shows
<1>8. WithTabs(rows) = [r \in 1 .. 2 |-> [i \in 1 .. 2 |-> rows[r][i] \o <<"\t">>]]
  BY Zenon DEF WithTabs, WithTab, TabChar
<1> QED BY <1>4, <1>5, <1>7, <1>8, Zenon DEF FoundIsTakenOut, shown, rows, headers, p, q, x, y

LEMMA AllSearches == TextInv => SearchFindsCell
BY AllWordsKeep, AllRows, AllTakenOut, AllTablesFound, AllExplored, Zenon DEF SearchFindsCell

(***************************************************************************)
(* Whatever is typed: parseFilterString keeps what is in quotes in one     *)
(* word; filterAndMatched (methods.tsx) finds a row by the text of one of  *)
(* its cells in quotes, and the filter of the result table by the text as  *)
(* it is; the search of the top menu bar finds a table by its name, and    *)
(* the meta explorer a row by one of its cells; the data copied from the   *)
(* result table (TabTable.tsx) read as the rows they were taken from, and  *)
(* a click shows the cell clicked.                                         *)
(***************************************************************************)
THEOREM SearchLeadsToItsCell == Spec => []SearchFindsCell
BY TextOfKeys, AllSearches, PTL
=============================================================================

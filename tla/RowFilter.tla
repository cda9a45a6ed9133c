------------------------------ MODULE RowFilter ------------------------------
(***************************************************************************)
(* The search boxes over rows: the explorer's, where a part of the search  *)
(* in quotes is one word that a cell must equal (methods.tsx), and the     *)
(* result table's, which only splits at blanks (TabTable.tsx); and what is *)
(* copied and viewed of that table (TabToolbar.tsx).                       *)
(***************************************************************************)
EXTENDS Scanner

IsInfix(part, whole) ==
  \E i \in 0 .. Len(whole) - Len(part) :
    SubSeq(whole, i + 1, i + Len(part)) = part

LowerCase(t) == [i \in DOMAIN t |-> IF t[i] = "A" THEN "a" ELSE t[i]]

\* trim
Trim(t) ==
  LET kept == {i \in DOMAIN t : t[i] \notin WhiteSpace}
  IN  IF kept = {} THEN <<>>
      ELSE SubSeq(t, CHOOSE i \in kept : \A j \in kept : i <= j,
                     CHOOSE i \in kept : \A j \in kept : j <= i)

Keep(words, word) == IF Trim(word) = <<>> THEN words ELSE Append(words, Trim(word))

EndsSearchWordBug(inQuote, c, last) == c = " " \/ last
EndsSearchWord(inQuote, c, last) == (~inQuote /\ c = " ") \/ last

\* The words of a search: split at the blanks outside of quotes.
ParseFilterString(t) ==
  LET scan[i \in 0 .. Len(t)] ==
        IF i = 0 THEN [inQuote |-> FALSE, words |-> <<>>, word |-> <<>>]
        ELSE LET s == scan[i - 1]
                 q == s.inQuote # (t[i] = "\"")
                 w == Append(s.word, t[i])
             IN  IF EndsSearchWord(q, t[i], i = Len(t))
                 THEN [inQuote |-> q, words |-> Keep(s.words, w), word |-> <<>>]
                 ELSE [inQuote |-> q, words |-> s.words, word |-> w]
  IN  scan[Len(t)].words

InQuotes(word) == word # <<>> /\ word[1] = "\"" /\ word[Len(word)] = "\""

Unquoted(t) ==
  LET upto[i \in 0 .. Len(t)] ==
        IF i = 0 THEN <<>> ELSE IF t[i] = "\"" THEN upto[i - 1] ELSE Append(upto[i - 1], t[i])
  IN  upto[Len(t)]

\* A cell satisfies a word that it contains, or equals when it is in quotes.
Satisfies(cell, word) ==
  IF InQuotes(word) THEN LowerCase(cell) = Unquoted(LowerCase(word))
  ELSE IsInfix(LowerCase(word), LowerCase(cell))

\* The words found, cell by cell, until all are.
FilterAndMatched(row, words) ==
  LET found[i \in 0 .. Len(row)] ==
        IF i = 0 THEN {}
        ELSE IF found[i - 1] = DOMAIN words THEN found[i - 1]
        ELSE found[i - 1] \cup {k \in DOMAIN words : Satisfies(row[i], words[k])}
  IN  words = <<>> \/ found[Len(row)] = DOMAIN words

\* split: the pieces between single separators, empty ones included.
SplitAt(t, separator) ==
  LET scan[i \in 0 .. Len(t)] ==
        IF i = 0 THEN << <<>> >>
        ELSE LET s == scan[i - 1]
             IN  IF t[i] = separator THEN Append(s, <<>>)
                 ELSE [s EXCEPT ![Len(s)] = Append(@, t[i])]
  IN  scan[Len(t)]

\* The rows of the result table: of the first `limit' ones (all when it is
\* negative), those that contain every piece.
FilterRows(rows, t, limit) ==
  LET parts == SplitAt(LowerCase(t), " ")
      shown == IF limit > -1 /\ limit < Len(rows) THEN limit ELSE Len(rows)
      Contains(row) == \A k \in DOMAIN parts : \E i \in DOMAIN row : IsInfix(Trim(parts[k]), LowerCase(row[i]))
      found[r \in 0 .. shown] ==
        IF r = 0 THEN <<>> ELSE IF Contains(rows[r]) THEN Append(found[r - 1], rows[r]) ELSE found[r - 1]
  IN  found[shown]

-----------------------------------------------------------------------------
(* What leaves the result table: the data copied, and the row viewed. *)

Joined(pieces, separator) ==
  LET upto[i \in 0 .. Len(pieces)] ==
        IF i = 0 THEN <<>> ELSE upto[i - 1] \o (IF i = 1 THEN <<>> ELSE separator) \o pieces[i]
  IN  upto[Len(pieces)]

\* A cell with a tab, a line end or a quote is quoted, its quotes doubled.
CopiedCell(t) ==
  IF \A i \in DOMAIN t : t[i] \notin {"\t", "\n", "\""} THEN t
  ELSE <<"\"">> \o Joined([i \in DOMAIN t |-> IF t[i] = "\"" THEN <<"\"", "\"">> ELSE <<t[i]>>], <<>>)
         \o <<"\"">>

\* "Copy data": the names of the columns as they are, then the rows.
CopyData(headers, rows) ==
  Joined(<<Joined(headers, <<"\t">>)>>
           \o [r \in DOMAIN rows |-> Joined([i \in DOMAIN rows[r] |-> CopiedCell(rows[r][i])], <<"\t">>)],
         <<"\n">>)

\* A click on a cell of the rows shown fills the row view and selects the cell;
\* "Copy headers" takes the columns from the second to the fourth number.
AfterCellSelection(headers, rows, column, r) ==
  [rowView   |-> [i \in DOMAIN headers |-> [n |-> i, name |-> headers[i], value |-> rows[r][i]]],
   selection |-> <<r, column, r, column>>]
CopyHeaders(headers, selection) == SubSeq(headers, selection[2], selection[4])
=============================================================================

------------------------------- MODULE Scanner -------------------------------
(***************************************************************************)
(* The token scanner of dbnet-parser.  A text is a sequence of characters. *)
(* Tokenize is for whole texts (comments, jinja, quotes, parentheses),     *)
(* TokenizeLine for one line (quotes only); both are one pass over the     *)
(* characters, each of which sees its neighbours.                          *)
(*                                                                         *)
(* The flags inJinja, inCommentLine, inCommentMulti, inSingleQ, inDoubleQ, *)
(* inTickQ, inBracketQ are one value here, the mode: a flag is only set    *)
(* outside of all of them.  "escaped" is inSingleQ with escaping set.      *)
(***************************************************************************)
EXTENDS Integers, Sequences, FiniteSets

WhiteSpace  == {" ", "\n", "\t", "\r"}
Parenthesis == {"(", ")"}
Comma       == {","}
Semicolon   == {";"}
BackTick    == "tick"   \* the character, which a TLA+ string cannot hold
Operator    == {"=", "-", "+", ">", "<", "~", "*", "%", "!", "/"}

CommentModes == {"line", "multi"}
QuoteModes   == {"single", "escaped", "double", "tick", "bracket"}
Modes        == {"none", "jinja"} \cup CommentModes \cup QuoteModes

Position == [line : Nat, col : Nat]

\* The character at i with the two before it and the one after it.
Char(t, i) == IF i \in DOMAIN t THEN t[i] ELSE ""
Window(t, i) == [pp |-> Char(t, i - 2), p |-> Char(t, i - 1),
                 c |-> Char(t, i), n |-> Char(t, i + 1)]

----------------------------------------------------------------------------
(* The modes.  Each setter opens its mode outside of all modes, and closes *)
(* only its own; they are called in this order, each on what the one       *)
(* before left.                                                            *)

Pair(m, c, open, close, name) ==
  CASE m = "none" /\ c = open -> name
    [] m = name /\ c = close  -> "none"
    [] OTHER                  -> m

Jinja(m, w, closed) ==
  CASE m = "none" /\ w.c = "{" /\ w.n = "{" -> "jinja"
    [] m = "jinja" /\ closed                -> "none"
    [] OTHER                                -> m

Comment(m, w, closed) ==
  CASE m = "none" /\ w.c = "-" /\ w.n = "-" -> "line"
    [] m = "line" /\ w.c = "\n"             -> "none"
    [] m = "none" /\ w.c = "/" /\ w.n = "*" -> "multi"
    [] m = "multi" /\ closed                -> "none"
    [] OTHER                                -> m

Quotes(m, c) ==
  CASE m = "none" /\ c = "'"    -> "single"
    [] m = "single" /\ c = "'"  -> "none"
    [] m = "single" /\ c = "\\" -> "escaped"
    [] m = "escaped"            -> "single"
    [] OTHER                    -> m

DoubleQuotes(m, c)   == Pair(m, c, "\"", "\"", "double")
BackTickQuotes(m, c) == Pair(m, c, BackTick, BackTick, "tick")
BracketQuotes(m, c)  == Pair(m, c, "[", "]", "bracket")

NameQuotes(m, c) == BracketQuotes(BackTickQuotes(DoubleQuotes(m, c), c), c)

\* In Tokenize a jinja block and a comment in slashes end with the character
\* after their last one.
TextMode(m, w) ==
  NameQuotes(Quotes(Comment(Jinja(m, w, w.pp = "}" /\ w.p = "}"),
                            w, w.pp = "*" /\ w.p = "/"), w.c), w.c)

LineMode(m, w) == NameQuotes(m, w.c)

\* How much a character changes the level of parentheses.
Delta(m, c) == CASE m = "none" /\ c = "(" -> 1
                 [] m = "none" /\ c = ")" -> -1
                 [] OTHER -> 0

----------------------------------------------------------------------------
(* The tokens. *)

Fresh(at) == [value |-> <<>>, ws |-> FALSE, op |-> FALSE, from |-> at]

\* A token is whitespace (an operator) when all its characters are.
Add(token, c) ==
  [token EXCEPT !.value = Append(@, c),
                !.ws = c \in WhiteSpace /\ (@ \/ token.value = <<>>),
                !.op = c \in Operator /\ (@ \/ token.value = <<>>)]

\* The place of the character after c.
Advance(at, c) == IF c = "\n" THEN [line |-> at.line + 1, col |-> 1]
                  ELSE [at EXCEPT !.col = @ + 1]

\* The end of a value that starts at from.
RangeEnd(from, value) ==
  LET end[i \in 0 .. Len(value)] ==
        IF i = 0 THEN from ELSE Advance(end[i - 1], value[i])
  IN  end[Len(value)]

IsWord(token) ==
  /\ ~token.ws /\ ~token.op
  /\ \A i \in DOMAIN token.value : token.value[i] \notin Parenthesis \cup Comma

\* What addToken pushes: the token so far with the index, the level and the
\* mode that the current character found or left.
Finalize(s) ==
  [value |-> s.cur.value, index |-> s.index, level |-> s.level,
   isWord |-> IsWord(s.cur), isComment |-> s.was \in CommentModes,
   isJinja |-> s.was = "jinja", from |-> s.cur.from,
   to |-> RangeEnd(s.cur.from, s.cur.value)]

AddToken(s) ==
  [s EXCEPT !.tokens = IF s.cur.value = <<>> THEN @ ELSE Append(@, Finalize(s)),
            !.cur = Fresh(s.at)]

\* A new token starts between two characters of different kinds; a qualified
\* star stays with its name.
Splits(w, closesComment) ==
  \/ \E kind \in {WhiteSpace, Parenthesis, Comma, Semicolon} :
       (w.c \in kind) # (w.n \in kind)
  \/ /\ (w.c \in Operator) # (w.n \in Operator)
     /\ ~(w.c = "." /\ w.n = "*")
     /\ ~closesComment

\* A token ends before a different kind, and with the text.
EndsTokenBug(m, w, closesComment, last) == m = "none" /\ Splits(w, closesComment)
EndsToken(m, w, closesComment, last) ==
  last \/ (m = "none" /\ Splits(w, closesComment))

\* One turn of the loop.  The index is taken before either addToken.
Turn(s, w, m, level, closesComment, last) ==
  LET read == [s EXCEPT !.at = Advance(@, w.c), !.index = Len(s.tokens),
                        !.mode = m, !.level = level,
                        !.was = IF s.mode # m THEN s.mode ELSE "none"]
      Apart == \/ (s.mode \in CommentModes) # (m \in CommentModes)
               \/ (s.mode = "jinja") # (m = "jinja")
      taken == LET a == IF Apart THEN AddToken(read) ELSE read
               IN  [a EXCEPT !.cur = Add(@, w.c)]
  IN  IF EndsToken(m, w, closesComment, last) THEN AddToken(taken) ELSE taken

Start == LET at == [line |-> 1, col |-> 1]
         IN  [tokens |-> <<>>, cur |-> Fresh(at), at |-> at, index |-> -1,
              mode |-> "none", was |-> "none", level |-> 0]

Tokenize(t) ==
  LET scan[i \in 0 .. Len(t)] ==
        IF i = 0 THEN Start
        ELSE LET s == scan[i - 1]
                 w == Window(t, i)
                 m == TextMode(s.mode, w)
             IN  Turn(s, w, m, s.level + Delta(m, w.c),
                      w.c = "/" /\ w.p = "*", i = Len(t))
  IN  scan[Len(t)].tokens

TokenizeLine(t) ==
  LET scan[i \in 0 .. Len(t)] ==
        IF i = 0 THEN Start
        ELSE LET s == scan[i - 1]
                 w == Window(t, i)
             IN  Turn(s, w, LineMode(s.mode, w), s.level, FALSE, i = Len(t))
  IN  scan[Len(t)].tokens

----------------------------------------------------------------------------
\* TokenBody: the text, and the neighbours of a token by its index.
NoToken == [value |-> <<>>, index |-> -1, level |-> 0, isWord |-> FALSE,
            isComment |-> FALSE, isJinja |-> FALSE,
            from |-> [line |-> -1, col |-> -1], to |-> [line |-> -1, col |-> -1]]

TextOf(tokens) ==
  LET join[i \in 0 .. Len(tokens)] ==
        IF i = 0 THEN <<>> ELSE join[i - 1] \o tokens[i].value
  IN  join[Len(tokens)]

\* Indices count from 0, positions in a sequence from 1.
AtIndex(tokens, i) == IF i >= 0 /\ i < Len(tokens) THEN tokens[i + 1] ELSE NoToken
Previous(tokens, token) == AtIndex(tokens, token.index - 1)
NextOf(tokens, token) == AtIndex(tokens, token.index + 1)

\* The range of a pair of tokens: from the first to the end of the second.
TokenPairRange(a, b) == [from |-> a.from, to |-> RangeEnd(b.from, b.value)]
=============================================================================

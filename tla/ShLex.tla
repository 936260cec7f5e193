------------------------------- MODULE ShLex --------------------------------
(***************************************************************************)
(* The shell lexer ec_strvec_sh_lex_str() (src/strvec.c) and the way the   *)
(* sh_lex node uses it (src/node_sh_lex.c).                                *)
(*                                                                         *)
(* The machine reads a line one character at a time, as the loop does;     *)
(* line is what was read so far, and what the function returns when the    *)
(* line ends there is an operator of the state (Return).  A word is a      *)
(* sequence of characters.  The token buffer keeps its content when its    *)
(* position goes back to 0, and holds Junk before the first write.         *)
(*                                                                         *)
(* A failing allocation makes the function free the vector and return NULL *)
(* and is left out.                                                        *)
(***************************************************************************)
EXTENDS Integers, Sequences

CONSTANTS Chars,     \* the characters
          Class,     \* get_char_class()
          Newlines,  \* the characters that end a comment
          NoChar,    \* '\0'
          Junk,      \* what an uninitialised buffer holds
          BufSize,   \* BUFSIZ
          MaxLine    \* bound: length of the line

Classes == {"SPACE", "SINGLE_QUOTE", "DOUBLE_QUOTE", "BACKSLASH", "POUND", "OTHER"}

ASSUME ConstantsAssumption ==
  /\ Class \in [Chars -> Classes]
  /\ NoChar \notin Chars
  /\ Junk \notin Chars
  /\ BufSize \in Nat /\ BufSize > 1
  /\ MaxLine \in Nat

VARIABLES line,  \* the characters read
          lex    \* the variables of ec_strvec_sh_lex_str()

vars == <<line, lex>>

States == {"START", "IN_WORD", "ESCAPING", "ESCAPING_QUOTED",
           "IN_DOUBLE_QUOTES", "IN_SINGLE_QUOTES", "IN_COMMENT"}
Unterminated == States \ {"START", "IN_WORD", "IN_COMMENT"}

-----------------------------------------------------------------------------
(* The character automaton. *)

\* a character of a word, from the START state or in the word
InWord(c) ==
  IF Class[c] = "DOUBLE_QUOTE" THEN "IN_DOUBLE_QUOTES"
  ELSE IF Class[c] = "SINGLE_QUOTE" THEN "IN_SINGLE_QUOTES"
  ELSE IF Class[c] = "BACKSLASH" THEN "ESCAPING"
  ELSE "IN_WORD"

\* one line for each case of the switch on the state
Automaton(c) ==
  [START            |-> IF Class[c] = "SPACE" THEN "START"
                        ELSE IF Class[c] = "POUND" THEN "IN_COMMENT" ELSE InWord(c),
   IN_WORD          |-> IF Class[c] = "SPACE" THEN "START" ELSE InWord(c),
   ESCAPING         |-> "IN_WORD",
   ESCAPING_QUOTED  |-> "IN_DOUBLE_QUOTES",
   IN_DOUBLE_QUOTES |-> IF Class[c] = "DOUBLE_QUOTE" THEN "IN_WORD"
                        ELSE IF Class[c] = "BACKSLASH" THEN "ESCAPING_QUOTED" ELSE "IN_DOUBLE_QUOTES",
   IN_SINGLE_QUOTES |-> IF Class[c] = "SINGLE_QUOTE" THEN "IN_WORD" ELSE "IN_SINGLE_QUOTES",
   IN_COMMENT       |-> IF c \in Newlines THEN "START" ELSE "IN_COMMENT"]

NextState(s, c) == Automaton(c)[s]

\* the character is part of the word
Appends(s, c) ==
  \/ s = "START" /\ Class[c] = "OTHER"
  \/ s = "IN_WORD" /\ Class[c] \in {"POUND", "OTHER"}
  \/ s \in {"ESCAPING", "ESCAPING_QUOTED"}
  \/ s = "IN_DOUBLE_QUOTES" /\ Class[c] \notin {"DOUBLE_QUOTE", "BACKSLASH"}
  \/ s = "IN_SINGLE_QUOTES" /\ Class[c] # "SINGLE_QUOTE"

EndsWord(s, c) == s = "IN_WORD" /\ Class[c] = "SPACE"

\* mutant: the end is the index of the last character
TokenInclusive(r, from, to) == [str |-> r.token, len |-> r.t, from |-> from, to |-> to - 1]

\* an element, with its attributes; len is the position in the buffer when it is added
Token(r, from, to) == [str |-> r.token, len |-> r.t, from |-> from, to |-> to]

Fresh == [state |-> "START", token |-> <<Junk>>, t |-> 0, arg_start |-> 0,
          trailing_space |-> TRUE, quote |-> NoChar, strvec |-> <<>>, enobufs |-> FALSE]

\* mutant: the position of the word is not updated when it starts
ArgStartStale(r, c, i) == IF EndsWord(r.state, c) THEN i ELSE r.arg_start

ArgStart(r, c, i) == IF r.state = "START" \/ EndsWord(r.state, c) THEN i ELSE r.arg_start

\* mutant: only a space in the START state is seen as trailing space
TrailingSpaceStart(r, c) ==
  IF r.state = "START" THEN Class[c] = "SPACE" ELSE r.trailing_space

TrailingSpace(r, c) ==
  IF r.state = "START" THEN Class[c] = "SPACE" ELSE r.trailing_space \/ EndsWord(r.state, c)

\* mutant: the quote is remembered after the end of its word
QuoteKept(r, c) ==
  IF r.state = "START" /\ Class[c] \in {"SINGLE_QUOTE", "DOUBLE_QUOTE"} THEN c ELSE r.quote

Quote(r, c) ==
  IF r.state = "START" /\ Class[c] \in {"SINGLE_QUOTE", "DOUBLE_QUOTE"} THEN c
  ELSE IF EndsWord(r.state, c) THEN NoChar ELSE r.quote

\* append() fails: ENOBUFS
Full(r, size) == r.t + 1 >= size

\* The registers after character c at index i, when it fits.
Advance(r, c, i) ==
  [state |-> NextState(r.state, c),
   token |-> IF Appends(r.state, c) THEN Append(SubSeq(r.token, 1, r.t), c) ELSE r.token,
   t |-> IF EndsWord(r.state, c) THEN 0
         ELSE IF Appends(r.state, c) THEN r.t + 1 ELSE r.t,
   arg_start |-> ArgStart(r, c, i),
   trailing_space |-> TrailingSpace(r, c),
   quote |-> Quote(r, c),
   strvec |-> IF EndsWord(r.state, c) THEN Append(r.strvec, Token(r, r.arg_start, i)) ELSE r.strvec,
   enobufs |-> FALSE]

\* The body of the loop, with a buffer of size bytes.
Step(r, c, i, size) ==
  IF r.enobufs \/ (Appends(r.state, c) /\ Full(r, size))
  THEN [r EXCEPT !.enobufs = TRUE]
  ELSE Advance(r, c, i)

Init == line = <<>> /\ lex = Fresh

Read(c) == /\ Len(line) < MaxLine
           /\ line' = Append(line, c)
           /\ lex' = Step(lex, c, Len(line), BufSize)

Next == \E c \in Chars : Read(c)

Spec == Init /\ [][Next]_vars

-----------------------------------------------------------------------------
(* The end of the function, for a line of n characters. *)

Errno(r, strict) == CASE r.enobufs -> "ENOBUFS"
                      [] strict /\ r.state \in Unterminated -> "EBADMSG"
                      [] OTHER -> "none"

\* *missing_quote
MissingQuote(r) == IF r.state \in Unterminated THEN r.quote ELSE NoChar

LastAdded(r) == r.state # "START" /\ r.state # "IN_COMMENT" /\ r.t > 0

Elements(r, n, trailsp) ==
  r.strvec \o
  IF LastAdded(r) THEN <<Token(r, r.arg_start, n)>>
  ELSE IF r.trailing_space /\ trailsp
  THEN <<[str |-> <<>>, len |-> 0, from |-> r.arg_start + 1, to |-> n + 1]>>
  ELSE <<>>

\* ec_node_sh_lex_complete(): the line once the user takes a completion that
\* adds the characters w to the last word
Completed(r, l, w) ==
  l \o w \o IF MissingQuote(r) = NoChar THEN <<>> ELSE <<MissingQuote(r)>>

-----------------------------------------------------------------------------
(* Properties. *)

\* the function run on a whole line
LexWith(l, size) ==
  LET f[k \in 0..Len(l)] == IF k = 0 THEN Fresh ELSE Step(f[k - 1], l[k], k - 1, size)
  IN f[Len(l)]
Lex(l) == LexWith(l, BufSize)
Words(r, trailsp) == [k \in DOMAIN Elements(r, 0, trailsp) |-> Elements(r, 0, trailsp)[k].str]

Shift(toks, n) == [k \in DOMAIN toks |-> [toks[k] EXCEPT !.from = @ + n, !.to = @ + n]]
Sub(l, from, to) == SubSeq(l, from + 1, to)
Before(s, k) == SubSeq(s, 1, k)
Plain == {c \in Chars : Class[c] = "OTHER"}
Spaces == {c \in Chars : Class[c] = "SPACE"}

\* an empty quoted string ended as a word: the elements are not what was written
Blank(r) == \/ \E k \in DOMAIN r.strvec : r.strvec[k].len = 0
            \/ r.state \in {"IN_WORD"} \cup Unterminated /\ r.t = 0

ElementType == [str : Seq(Chars \cup {Junk}), len : 0..(BufSize - 1),
                from : 0..MaxLine, to : 0..MaxLine]

LexType ==
  [state : States, token : Seq(Chars \cup {Junk}), t : 0..(BufSize - 1), arg_start : 0..MaxLine,
   trailing_space : BOOLEAN, quote : Chars \cup {NoChar},
   strvec : Seq(ElementType), enobufs : BOOLEAN]

\* The types, and the write position is in the buffer with its final '\0'.
TypeOK ==
  /\ line \in Seq(Chars) /\ Len(line) <= MaxLine
  /\ lex \in LexType
  /\ lex.t <= Len(lex.token) /\ Len(lex.token) < BufSize

\* The attributes of the elements are positions in the line (an error report
\* writes to its copy of the line at these positions, interact.c), and follow
\* each other with at least a character in between.
SpansOrdered ==
  LET e == Elements(lex, Len(line), FALSE)
  IN ~lex.enobufs =>
     /\ \A k \in DOMAIN e : 0 <= e[k].from /\ e[k].from < e[k].to /\ e[k].to <= Len(line)
     /\ \A j, k \in DOMAIN e : j < k => e[j].to < e[k].from

\* The attributes of an element delimit the text of that element: lexed on its
\* own, the text is that one element, and is closed unless the line ends in it.
SpanIsWord ==
  LET e == Elements(lex, Len(line), FALSE)
  IN ~lex.enobufs =>
     \A k \in DOMAIN e :
       LET r == Lex(Sub(line, e[k].from, e[k].to))
       IN e[k].len > 0 => /\ Words(r, FALSE) = <<e[k].str>>
                          /\ k \in DOMAIN lex.strvec => Errno(r, TRUE) = "none"

\* EC_STRVEC_STRICT accepts a line only if nothing in it is left open: what
\* follows after a space is split as if it were a line of its own.
StrictIsClosed ==
  \A n \in 0..(Len(line) - 1) :
    LET l1 == Lex(Before(line, n))
        l2 == Lex(Sub(line, n + 1, Len(line)))
    IN /\ line[n + 1] \in Spaces
       /\ Errno(l1, TRUE) = "none" /\ l1.state # "IN_COMMENT"
       /\ ~lex.enobufs /\ ~Blank(l1) /\ ~Blank(l2)
       => Elements(lex, Len(line), FALSE) =
            Elements(l1, n, FALSE) \o Shift(Elements(l2, Len(line) - n - 1, FALSE), n + 1)

\* A line is split as its parts are: each word by itself, and the two sides of a
\* space when the left one is closed, positions included.
LexedByParts == SpanIsWord /\ StrictIsClosed

\* With EC_STRVEC_TRAILSP the last element is the word that the next character
\* typed extends (this is what completion relies on), unless the line ends in
\* or just after a comment, or a quote or an escape was just opened.
TrailingWord ==
  \A c \in Plain :
    LET r == Lex(Append(line, c))
        w == Words(lex, TRUE)
    IN /\ ~r.enobufs /\ ~Blank(lex) /\ lex.state # "IN_COMMENT"
       /\ lex.state = "START" => line = <<>> \/ Lex(Before(line, Len(line) - 1)).state # "IN_COMMENT"
       => /\ w # <<>>
          /\ Words(r, TRUE) = [w EXCEPT ![Len(w)] = Append(@, c)]

\* What is left open in the word is a quote of the kind it starts with, or an
\* escape outside of quotes in a word that does not start with a quote.
OpenedFirst ==
  LET first == Class[line[lex.arg_start + 1]]
  IN CASE lex.state = "IN_SINGLE_QUOTES" -> first = "SINGLE_QUOTE"
       [] lex.state \in {"IN_DOUBLE_QUOTES", "ESCAPING_QUOTED"} -> first = "DOUBLE_QUOTE"
       [] lex.state = "ESCAPING" -> first \notin {"SINGLE_QUOTE", "DOUBLE_QUOTE"}
       [] OTHER -> TRUE

\* Taking the completion of a quoted word closes it: the line that results is
\* accepted, with the same words before and the last one completed.
CompletionCloses ==
  \A c \in Plain :
    LET w == Words(lex, FALSE)
        r == Lex(Completed(lex, line, <<c>>))
    IN /\ lex.state \in {"IN_WORD"} \cup Unterminated /\ OpenedFirst
       /\ ~r.enobufs /\ ~Blank(lex)
       => /\ Errno(r, TRUE) = "none"
          /\ Words(r, FALSE) = [w EXCEPT ![Len(w)] = Append(@, c)]

=============================================================================

------------------------------- MODULE Lexer -------------------------------
(***************************************************************************)
(* sql_compiler/lexer.py, and the command line's test of whether what has  *)
(* been typed so far is a whole statement (cli/main.py).                   *)
(*                                                                         *)
(* A text is a sequence of symbols: a word (letters and underscores), a    *)
(* numeral (digits), or a single other character.  A symbol is a string,   *)
(* so that it has a width, and a cursor moves over a text symbol by symbol. *)
(***************************************************************************)
EXTENDS Naturals, Sequences, FiniteSetsExt

CONSTANTS
    Words,    \* the words the texts are made of
    Numerals, \* and the numerals
    Illegal,  \* characters no token may hold or start with
    Upper     \* word -> the word in capitals

Space == {" ", "\n", "\r"}
KEYWORDS == {"SELECT", "FROM", "WHERE", "CREATE", "TABLE", "INSERT", "INTO",
             "VALUES", "DELETE", "AND", "OR", "NOT", "INT", "VARCHAR", "SHOW",
             "DATABASES", "TABLES", "ORDER", "BY", "ASC", "DESC", "DROP",
             "UPDATE", "SET", "LIMIT", "GROUP", "HAVING", "COUNT", "SUM",
             "AVG", "MIN", "MAX", "DISTINCT"}
DELIMITERS == {"(", ")", ",", ";"}
ONE_CHARACTER_OPERATORS == {"=", ">", "<", "+", "-", "*", "/"}
TWO_CHARACTER_OPERATORS == {<<"!", "=">>, <<">", "=">>, <<"<", "=">>}
Symbols == Words \cup Numerals \cup Illegal \cup Space \cup DELIMITERS
               \cup ONE_CHARACTER_OPERATORS \cup {"'", ".", "!"}

-----------------------------------------------------------------------------
(* Moving over a text.  A place is the index of a symbol, and the place    *)
(* after the last is Len(src) + 1.                                         *)

Peek(src, i) == IF i \in DOMAIN src THEN src[i] ELSE ""

StartsWith(src, i, text) ==
    /\ i + Len(text) <= Len(src) + 1
    /\ SubSeq(src, i, i + Len(text) - 1) = text

(* The first place from i on where text starts; the end when there is none. *)
Find(src, i, text) ==
    Min({j \in i .. Len(src) : StartsWith(src, j, text)} \cup {Len(src) + 1})

(* The first place from i on whose symbol is not in set. *)
Past(src, i, set) ==
    Min({j \in i .. Len(src) : src[j] \notin set} \cup {Len(src) + 1})

(* The quote that closes a string whose inside starts at i: '' is a quote
   within it. *)
RECURSIVE CloseQuote(_, _)
CloseQuote(src, i) ==
    LET q == Find(src, i, <<"'">>)
    IN  IF Peek(src, q + 1) = "'" /\ q <= Len(src)
          THEN CloseQuote(src, q + 2) ELSE q

Start == [i |-> 1, line |-> 1, column |-> 1]

(* Faulty variant: CR LF is two ends of line. *)
AdvanceTwice(src, c) ==
    IF src[c.i] \in {"\r", "\n"}
      THEN [i |-> c.i + 1, line |-> c.line + 1, column |-> 1]
      ELSE [c EXCEPT !.i = @ + 1, !.column = @ + Len(src[c.i])]

(* One step of the cursor; CR LF is one end of line. *)
Advance(src, c) ==
    LET crlf == src[c.i] = "\r" /\ Peek(src, c.i + 1) = "\n"
    IN  IF src[c.i] \in {"\r", "\n"}
          THEN [i |-> c.i + (IF crlf THEN 2 ELSE 1), line |-> c.line + 1,
                column |-> 1]
          ELSE [c EXCEPT !.i = @ + 1, !.column = @ + Len(src[c.i])]

RECURSIVE MoveTo(_, _, _)
MoveTo(src, c, i) == IF c.i >= i THEN c ELSE MoveTo(src, Advance(src, c), i)

-----------------------------------------------------------------------------
(* What starts at a place: a token, something skipped, or an error, and    *)
(* the place after it.                                                     *)

Piece(type, next) == [type |-> type, next |-> next]
Skipped(next) == Piece("skipped", next)
LexError == Piece("error", 0)

BlockComment(src, i) ==
    LET e == Find(src, i + 2, <<"*", "/">>)
    IN  IF e > Len(src) THEN LexError ELSE Skipped(e + 2)

RECURSIVE Spelt(_)
Spelt(symbols) ==
    IF symbols = <<>> THEN "" ELSE Head(symbols) \o Spelt(Tail(symbols))

Word(src, i) ==
    LET e == Past(src, i, Words \cup Numerals)
    IN  Piece(IF e = i + 1 /\ Upper[src[i]] \in KEYWORDS THEN "KEYWORD"
              ELSE "IDENTIFIER", e)

Number(src, i) ==
    LET d == Past(src, i, Numerals)
        e == IF Peek(src, d) = "." THEN Past(src, d + 1, Numerals) ELSE d
    IN  IF (Peek(src, d) = "." /\ e = d + 1) \/ Peek(src, e) \in Words
          THEN LexError ELSE Piece("CONST", e)

StringLiteral(src, i) ==
    LET q == CloseQuote(src, i + 1)
    IN  IF q > Len(src) \/ \E j \in i .. q : src[j] \in {"\r", "\n"}
          THEN LexError ELSE Piece("CONST", q + 1)

Scan(src, i) ==
    LET c == src[i]
    IN  IF c \in Space THEN Skipped(Past(src, i, Space))
        ELSE IF StartsWith(src, i, <<"-", "-">>)
               THEN Skipped(Past(src, i, Symbols \ {"\r", "\n"}))
        ELSE IF StartsWith(src, i, <<"/", "*">>) THEN BlockComment(src, i)
        ELSE CASE c \in Words -> Word(src, i)
               [] c \in Numerals -> Number(src, i)
               [] c = "'" -> StringLiteral(src, i)
               [] c \in DELIMITERS -> Piece("DELIMITER", i + 1)
               [] OTHER ->
                    IF \E op \in TWO_CHARACTER_OPERATORS : StartsWith(src, i, op)
                      THEN Piece("OPERATOR", i + 2)
                    ELSE IF c \in ONE_CHARACTER_OPERATORS
                      THEN Piece("OPERATOR", i + 1)
                    ELSE LexError

(* The tokens from a cursor on; the last one is EOF, or an error where the
   text is not lexical. *)
RECURSIVE TokensFrom(_, _)
TokensFrom(src, c) ==
    LET piece == Scan(src, c.i)
        token(type, to) ==
            [type |-> type, lexeme |-> Spelt(SubSeq(src, c.i, to - 1)),
             line |-> c.line, column |-> c.column]
        rest == TokensFrom(src, MoveTo(src, c, piece.next))
    IN  IF c.i > Len(src) THEN <<token("EOF", c.i)>>
        ELSE CASE piece.type = "error" -> <<token("error", c.i)>>
               [] piece.type = "skipped" -> rest
               [] OTHER -> <<token(piece.type, piece.next)>> \o rest

Tokenize(src) == TokensFrom(src, Start)
Lexes(tokens) == tokens[Len(tokens)].type # "error"

-----------------------------------------------------------------------------
(* _is_complete: is ";" the last character outside strings and comments?   *)

(* Faulty variant: comments are not looked for. *)
RECURSIVE LastCharacterNoComments(_, _, _)
LastCharacterNoComments(src, i, last) ==
    IF i > Len(src) THEN last
    ELSE IF src[i] = "'"
      THEN LastCharacterNoComments(src, Find(src, i + 1, <<"'">>) + 1, last)
    ELSE LastCharacterNoComments(src, i + 1, IF src[i] \in Space THEN last ELSE src[i])

RECURSIVE LastCharacter(_, _, _)
LastCharacter(src, i, last) ==
    IF i > Len(src) THEN last
    ELSE IF StartsWith(src, i, <<"-", "-">>)
      THEN LastCharacter(src, Find(src, i, <<"\n">>) + 1, last)
    ELSE IF StartsWith(src, i, <<"/", "*">>)
      THEN LastCharacter(src, Find(src, i + 2, <<"*", "/">>) + 2, last)
    ELSE IF src[i] = "'"
      THEN LastCharacter(src, CloseQuote(src, i + 1) + 1, last)
    ELSE LastCharacter(src, i + 1, IF src[i] \in Space THEN last ELSE src[i])

(* Faulty variant: the last character, wherever it is. *)
IsCompleteAnywhere(src) ==
    \E i \in DOMAIN src :
        src[i] = ";" /\ \A j \in i + 1 .. Len(src) : src[j] \in Space

IsComplete(src) == LastCharacter(src, 1, "") = ";"
=============================================================================

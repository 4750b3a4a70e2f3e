------------------------------ MODULE FrontEnd ------------------------------
(***************************************************************************)
(* The lexer and the parser under the command line, MiniDB.execute and the *)
(* client's service: what Session leaves open of a text, and that texts    *)
(* are read as they are meant.                                             *)
(***************************************************************************)
EXTENDS Parser, Session

-----------------------------------------------------------------------------
(* What Session takes as given.                                            *)

RECURSIVE Join(_)
Join(lines) ==
    CASE lines = <<>> -> <<>>
      [] Len(lines) = 1 -> lines[1]
      [] OTHER -> lines[1] \o <<"\n">> \o Join(Tail(lines))

IsBlank(text) == \A i \in DOMAIN text : text[i] \in Space

IsExit(text) ==
    LET visible == SelectSeq(text, LAMBDA c : c \notin Space)
        first == Past(text, 1, Space)
    IN  /\ Len(visible) = 2 /\ visible[1] \in Words /\ visible[2] = ";"
        /\ Upper[visible[1]] = "EXIT"
        /\ text[first + 1] = ";"

Compile(src) ==
    LET tokens == Tokenize(src)
    IN  IF Lexes(tokens) THEN Parse(tokens) ELSE ParseError(0)

RECURSIVE Height(_)
Height(tree) == 1 + Max({0} \cup {Height(tree.kids[k]) : k \in DOMAIN tree.kids})

-----------------------------------------------------------------------------
(* Properties.                                                             *)

Latest == sent[Len(sent)]
JustSent == sent # <<>> /\ \A k \in DOMAIN log : log[k].batch # Len(sent)

(* The REPL's own scan for a final semicolon and the lexer agree: a text
   that has tokens is taken for complete just when its last token, strings
   apart, is a semicolon.  (That _is_complete disregards a string after the
   last semicolon is harmless: no statement starts with one.) *)
LexerAgrees ==
    LET src == IF JustSent THEN Latest ELSE Join(pending)
        tokens == Tokenize(src)
        isString(k) == SubSeq(tokens[k].lexeme, 1, 1) = "'"
        last == Max({0} \cup {k \in 1 .. Len(tokens) - 1 : ~isString(k)})
    IN  (\A i \in DOMAIN src : src[i] # "\r") /\ Lexes(tokens) =>
          (IsComplete(src) <=> last # 0 /\ tokens[last].lexeme = ";")

(* Where a text says a place is: lines end with LF, CR, or the two of them. *)
LineEnds(src, i) ==
    {j \in 1 .. i - 1 : \/ src[j] = "\n"
                        \/ src[j] = "\r" /\ Peek(src, j + 1) # "\n"}
RECURSIVE Width(_)
Width(symbols) ==
    IF symbols = <<>> THEN 0 ELSE Len(Head(symbols)) + Width(Tail(symbols))
IsAt(token, src, i) ==
    /\ token.line = 1 + Cardinality(LineEnds(src, i))
    /\ token.column =
         1 + Width(SubSeq(src, 1 + Max({0} \cup LineEnds(src, i)), i - 1))

(* FR-004: every token and every lexical error carries the line and column
   where it starts, and the tokens before it do not depend on it. *)
PositionsAreTrue ==
    JustSent =>
      LET tokens == Tokenize(Latest)
      IN  \A k \in DOMAIN tokens : \E i \in 1 .. Len(Latest) + 1 :
            /\ IsAt(tokens[k], Latest, i)
            /\ SubSeq(Tokenize(SubSeq(Latest, 1, i - 1)), 1, k - 1)
                 = SubSeq(tokens, 1, k - 1)
            /\ \E j \in i .. Len(Latest) + 1 :
                 tokens[k].lexeme = Spelt(SubSeq(Latest, i, j - 1))

(* Statements may be written over any lines: the REPL hands over the tokens
   of what was typed, whole and in order, whenever that text has tokens.
   The exception: a comment that is opened after a semicolon and goes on in
   the next line cuts the text in two that have none. *)
RECURSIVE Lexemes(_)
Lexemes(texts) ==
    IF texts = <<>> THEN <<>>
    ELSE LET tokens == Tokenize(Head(texts))
         IN  [k \in 1 .. Len(tokens) - 1 |-> tokens[k].lexeme]
               \o Lexemes(Tail(texts))
CutInAComment(src) ==
    \E i \in 1 .. Len(src) :
        /\ StartsWith(src, i, <<"/", "*">>)
        /\ Find(src, i + 2, <<"*", "/">>) > Len(src)
        /\ IsComplete(SubSeq(src, 1, i - 1))
LinesDoNotMatter ==
    LET typed == Join(SubSeq(input.lines, 1, read))
        said == IF phase = "closed" THEN sent ELSE Append(sent, Join(pending))
    IN  /\ input.mode = "repl" /\ phase # "closed" /\ Lexes(Tokenize(typed))
        /\ \A k \in DOMAIN sent : ~CutInAComment(sent[k])
        => Lexemes(<<typed>>) = Lexemes(said)

(* The parser reads what is meant: of a statement printed by the rules of
   grammar.md, with the fewest parentheses or with all of them, it gives
   the same tree back.  Parentheses nested too deep are a ParseError, as the
   parser's comment says, and only nesting counts; but aggregates in
   aggregates are not counted, and end in Python's RecursionError. *)
ReadsWhatIsMeant ==
    parsed # <<>> =>
        /\ input.meant # <<>> => Ok(parsed[1]) /\ parsed[1].kids = input.meant
        /\ input.verdict # "" => parsed[1].verdict = input.verdict
=============================================================================

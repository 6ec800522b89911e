------------------------------- MODULE Layout -------------------------------
(***************************************************************************)
(* The lines and blocks of a source text (kohebi-parse, lexer.rs): where a *)
(* logical line ends, and where a block opens and closes.                  *)
(*                                                                         *)
(* A character is a space, a tab, a form feed, a line end, a bracket, the  *)
(* start of a comment, or x for any other; "\" is a backslash with the     *)
(* line end after it.  A token is its kind and where it begins.            *)
(***************************************************************************)
EXTENDS Naturals, Sequences, FiniteSetsExt, SequencesExt

CONSTANT TabSize   \* a positive number, 8 in the code

Blanks == {"space", "tab", "feed"}
LineEnd == "newline"

\* What an indentation is worth, with wide tabs and with narrow ones.
Measured(run) ==
  FoldLeft(LAMBDA m, ch :
             CASE ch = "space" -> [col |-> m.col + 1, alt |-> m.alt + 1]
               [] ch = "tab" -> [col |-> (m.col \div TabSize + 1) * TabSize, alt |-> m.alt + 1]
               [] ch = "feed" -> [col |-> 0, alt |-> 0],
           [col |-> 0, alt |-> 0], run)

-----------------------------------------------------------------------------
Start(text) ==
  [text |-> text, pos |-> 1, indents |-> <<[col |-> 0, alt |-> 0]>>, brackets |-> 0,
   lineStart |-> TRUE, code |-> FALSE, owes |-> TRUE, tokens |-> << >>, error |-> "none",
   finished |-> FALSE]

Peek(l) == IF l.pos > Len(l.text) THEN "eof" ELSE l.text[l.pos]
Token(l, kind) == [l EXCEPT !.tokens = Append(@, [kind |-> kind, at |-> l.pos])]
Tokens(l, kind, n) == [l EXCEPT !.tokens = @ \o [k \in 1 .. n |-> [kind |-> kind, at |-> l.pos]]]
Past(l) == [l EXCEPT !.pos = @ + 1]
Fail(l, error) == [l EXCEPT !.error = error]

\* Where the run of blanks that begins here ends, or the line does.
EndOfRun(l, Goes(_)) ==
  Min({k \in l.pos .. Len(l.text) + 1 : k > Len(l.text) \/ ~Goes(l.text[k])})
IsBlank(ch) == ch \in Blanks
NotLineEnd(ch) == ch # LineEnd

\* mutant: of several blocks that end at once, one is closed.
CloseOne(l, m) ==
  IF l.indents[Len(l.indents)].col > m.col
    THEN Token([l EXCEPT !.indents = SubSeq(@, 1, Len(@) - 1)], "dedent") ELSE l

\* Every block that is deeper than the line.
Close(l, m) ==
  LET open == Max({k \in DOMAIN l.indents : l.indents[k].col <= m.col})
  IN  Tokens([l EXCEPT !.indents = SubSeq(@, 1, open)], "dedent", Len(l.indents) - open)

\* line_start: a line with nothing on it leaves the blocks as they are.
LineStart(l) ==
  LET end == EndOfRun(l, IsBlank)
      m == Measured(SubSeq(l.text, l.pos, end - 1))
      here == [l EXCEPT !.pos = end, !.lineStart = FALSE, !.code = FALSE]
      top == l.indents[Len(l.indents)]
      closed == Close(here, m)
      left == closed.indents[Len(closed.indents)]
  IN  IF Peek(here) \in {"eof", LineEnd, "#"} THEN here
      ELSE IF m.col > top.col
        THEN IF m.alt <= top.alt THEN Fail(here, "tabs")
             ELSE Token([here EXCEPT !.indents = Append(@, m)], "indent")
      ELSE IF left.col # m.col THEN Fail(here, "unindent")
      ELSE IF left.alt # m.alt THEN Fail(here, "tabs")
      ELSE closed

\* at_eof: an ending for the last line, the blocks that are open, the end.
AtEof(l) ==
  LET unended == l.owes /\ l.pos > 1 /\ l.text[l.pos - 1] \notin {LineEnd, "\\"}
  IN  IF l.brackets > 0 THEN Fail(l, "never closed")
      ELSE IF unended
        THEN [Token(l, IF l.code THEN "newline" ELSE "nl") EXCEPT !.owes = FALSE, !.code = FALSE]
      ELSE [Token(Tokens(l, "dedent", Len(l.indents) - 1), "end")
              EXCEPT !.indents = SubSeq(@, 1, 1), !.finished = TRUE]

\* A line end ends a logical line, unless there is nothing on it or it is
\* within brackets.
EndLine(l) ==
  IF l.brackets > 0 THEN Past(Token(l, "nl"))
  ELSE [Past(Token(l, IF l.code THEN "newline" ELSE "nl")) EXCEPT !.lineStart = TRUE]

Bracket(l, by) ==
  IF l.brackets + by < 0 THEN Fail(l, "unmatched")
  ELSE [Past(Token(l, "code")) EXCEPT !.brackets = @ + by, !.code = TRUE]

\* scan, after blanks and joined lines were skipped.
Scan(l) ==
  CASE Peek(l) = "eof" -> AtEof(l)
    [] Peek(l) \in Blanks \union {"\\"} -> Past(l)
    [] Peek(l) = "#" -> [Token(l, "comment") EXCEPT !.pos = EndOfRun(l, NotLineEnd)]
    [] Peek(l) = LineEnd -> EndLine(l)
    [] Peek(l) = "(" -> Bracket(l, 1)
    [] Peek(l) = ")" -> Bracket(l, -1)
    [] OTHER -> [Past(Token(l, "code")) EXCEPT !.code = TRUE]

RECURSIVE LexFrom(_)
LexFrom(l) ==
  IF l.finished \/ l.error # "none" THEN l
  ELSE IF l.lineStart /\ l.brackets = 0 THEN LexFrom(LineStart(l))
  ELSE LexFrom(Scan(l))
Lex(text) == LexFrom(Start(text))

-----------------------------------------------------------------------------
(* What the language says, of a text that is given as lines: what a line   *)
(* is indented by, what is on it, and whether the next one is joined to it.*)

Line(indent, on, joined) == [indent |-> indent, on |-> on, joined |-> joined]
TextOf(line) == line.indent \o line.on \o <<IF line.joined THEN "\\" ELSE LineEnd>>
Text(lines) == FlattenSeq([i \in DOMAIN lines |-> TextOf(lines[i])])

Opened(lines, i) ==
  LET count(ch) == Len(SelectSeq(FlattenSeq([k \in 1 .. i |-> lines[k].on]), LAMBDA c : c = ch))
  IN  count("(") - count(")")

\* Lines that begin a logical line with something on it.
Begins(lines) ==
  {i \in DOMAIN lines :
     /\ lines[i].on # << >> \/ lines[i].joined
     /\ lines[i].on = << >> \/ Head(lines[i].on) # "#"
     /\ Opened(lines, i - 1) = 0
     /\ i = 1 \/ ~lines[i - 1].joined}

Indentation(lines, i) == Measured(lines[i].indent)
Outermost == [col |-> 0, alt |-> 0]

\* The indentations of the blocks that line i is in: those of the lines before
\* it, or itself, since which no line was further out.
Levels(lines, i) ==
  {Indentation(lines, j) : j \in
     {j \in Begins(lines) : /\ j <= i
                            /\ \A k \in Begins(lines) : k \in j .. i =>
                                 Indentation(lines, j).col <= Indentation(lines, k).col}}
    \union {Outermost}

\* How many blocks a line is in, when every level has one indentation.
DepthMeant(lines, i) == Cardinality(Levels(lines, i)) - 1

\* What is wrong with a line, if all is well before it: deeper or as deep by one
\* measure only, or further out and on no level.
WrongWith(lines, i) ==
  LET before == {j \in Begins(lines) : j < i}
      levels == IF before = {} THEN {Outermost} ELSE Levels(lines, Max(before))
      deepest == CHOOSE m \in levels : \A n \in levels : n.col <= m.col
      m == Indentation(lines, i)
      same == {n \in levels : n.col = m.col}
  IN  IF m.col > deepest.col THEN IF m.alt > deepest.alt THEN "none" ELSE "tabs"
      ELSE IF same = {} THEN "unindent"
      ELSE IF m \in same THEN "none" ELSE "tabs"

\* The error the text should end in, which is that of the first line that has
\* one; brackets that do not match are an error of their own.
ErrorMeant(lines) ==
  LET wrong == {i \in Begins(lines) : WrongWith(lines, i) # "none"}
  IN  IF wrong # {} THEN WrongWith(lines, Min(wrong))
      ELSE IF Opened(lines, Len(lines)) > 0 THEN "never closed" ELSE "none"

\* Where the first token of a line is.
PlaceOf(lines, i) ==
  Len(Text(SubSeq(lines, 1, i - 1))) + Len(lines[i].indent) + 1

DepthAt(l, at) ==
  LET count(kind) == Cardinality({k \in DOMAIN l.tokens :
                                    l.tokens[k].kind = kind /\ l.tokens[k].at <= at})
  IN  count("indent") - count("dedent")
-----------------------------------------------------------------------------
(* The texts this is checked on: up to four lines.                         *)

Indents == {<< >>, <<"space">>, <<"space", "space">>, <<"tab">>, <<"space", "tab">>,
            <<"tab", "space">>, <<"space", "feed", "space">>}
Lines ==
  {Line(indent, <<"x">>, FALSE) : indent \in Indents}
    \union {Line(indent, on, FALSE) : indent \in {<< >>, <<"space">>},
                                      on \in {<< >>, <<"#", "x">>, <<"x", "(">>, <<")", "#">>}}
    \union {Line(<<"space">>, <<"x">>, TRUE)}

\* Some text is such; the last line may be without an end, but a text does not
\* end in a backslash and a line end (where the language has no line to join).
SomeText(Such(_, _)) ==
  \E n \in 1 .. 4, ended \in BOOLEAN : \E lines \in [1 .. n -> Lines] :
    /\ (\A i \in 1 .. n : Opened(lines, i) >= 0) = TRUE
    /\ ~lines[n].joined
    /\ (ended \/ n = 1 \/ TextOf(lines[n]) # <<LineEnd>> \/ ~lines[n - 1].joined) = TRUE
    /\ Such(lines, IF ended THEN Text(lines) ELSE Front(Text(lines)))
=============================================================================

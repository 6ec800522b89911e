---------------------------- MODULE MCFunctions -----------------------------
(* The parts of the system that are functions, each against what it is for: *)
(* a question is chosen, the code answers it, and the answer is compared.   *)
EXTENDS Answers, TLC

Ex == INSTANCE MCExpressions
Sc == INSTANCE Scopes
La == INSTANCE Layout WITH TabSize <- 2
Ch == INSTANCE MCChecks
Pa == INSTANCE MCParser
Pt == INSTANCE Paths
Tx == INSTANCE MCTexts

-----------------------------------------------------------------------------
(* Integers whose word is -4 .. 3, beyond it on both sides.                 *)
MCNumbers == -9 .. 9
IntQuestions == [about : {"ints"}, a : Ints(MCNumbers), b : Ints(MCNumbers)]
RangeQuestions == [about : {"range"}, start : Ints(-6 .. 6), stop : Ints(-6 .. 6),
                   step : Ints({-9, -4, -3, -2, -1, 1, 2, 3, 4, 9}), walked : {14}]
MapQuestions == [about : {"map"}, sources : UNION {[1 .. n -> 0 .. 3] : n \in 1 .. 3},
                 strict : BOOLEAN, asked : 0 .. 6]

-----------------------------------------------------------------------------
MCShapes == {f \in [positional : 0 .. 2, posOnly : 0 .. 2, star : BOOLEAN, kwOnly : 0 .. 1,
                    doubleStar : BOOLEAN, defaults : 0 .. 2, kwDefaults : SUBSET (1 .. 4), generator : {FALSE}] :
               /\ f.posOnly <= f.positional /\ f.defaults <= f.positional
               /\ f.kwDefaults \subseteq KeywordSlots(f)}
MCNames(f) == {s \in SeqOf(Named(f) \union {NoName}, 2) : IsInjective(s)}
BindQuestions == UNION {[about : {"bind"}, f : {f}, bound : BOOLEAN, args : 0 .. 3,
                         names : MCNames(f)] : f \in MCShapes}

-----------------------------------------------------------------------------
AnswerExpr == Asked("expr") /\ Answer(Ex!Run(Ex!Compile(question.s)))

(* Compiled code does what the language says: every call, operation and     *)
(* store in its order and on its operands, and the names as they are after. *)
EvaluatesInOrder ==
  Answered("expr") => It = Ex!Meaning(question.s)

-----------------------------------------------------------------------------
AnswerScopes == Asked("scopes") /\ Answer(Sc!Sites(question.frame))

(* Every read and write of a name finds the variable the language means,    *)
(* through parameters, global and nonlocal declarations, class bodies that  *)
(* are stepped over and comprehensions, whatever was captured before it;    *)
(* and a nonlocal is refused exactly where there is nothing to point at     *)
(* (resolve, capture, take_names).                                          *)
NamesFound ==
  Answered("scopes") => It = Sc!UpToRefusal(Sc!MeantBy(question.frame, << >>))

-----------------------------------------------------------------------------
AnswerLayout == Asked("layout") /\ Answer(La!Lex(question.text))

(* A line that begins a statement is in as many blocks as its indentation   *)
(* says, blank lines, comments, brackets and joined lines aside; a statement*)
(* ends once; every block is closed at the end; and a line whose            *)
(* indentation means two things, or nothing, is refused (line_start, scan,  *)
(* at_eof).                                                                 *)
LaidOut ==
  Answered("layout") =>
    LET lines == question.lines
        begins == La!Begins(lines)
        ends == {k \in DOMAIN It.tokens : It.tokens[k].kind = "newline"}
        last == Len(It.tokens)
    IN  /\ It.error = La!ErrorMeant(lines)
        /\ It.error = "none" =>
             /\ \A i \in begins : La!DepthAt(It, La!PlaceOf(lines, i)) = La!DepthMeant(lines, i)
             /\ Cardinality(ends) = Cardinality(begins)
             /\ La!DepthAt(It, Len(It.text) + 1) = 0 /\ It.tokens[last].kind = "end"

-----------------------------------------------------------------------------
(* Values: integers of either arm and floats of    *)
(* two digits around each other, and containers of a few of them.           *)

WholeNumbers == {Integer(a) : a \in Ints(-20 .. 20 \union {31, 32, 33, -31, -32, 64})} \union {Bool(TRUE), Bool(FALSE)}
Floats == {Float(m * Power(2, e)) : m \in -3 .. 3, e \in 0 .. 8}
            \union {NotFinite(w) : w \in {"nan", "inf", "-inf"}}
Numbers2 == WholeNumbers \union Floats

Elements == {Integer(Small(1)), Bool(TRUE), Float(4), Float(6), Integer(Small(2)), NotFinite("nan"),
             Str(1), Sequence("tuple", <<Integer(Small(1))>>), Sequence("list", << >>)}
Containers == {Sequence(kind, s) : kind \in {"tuple", "list"}, s \in SeqOf(Elements, 2)}

\* A set has each of its elements once, and none that has no hash.
Members == {<< >>} \union {<<a>> : a \in {Integer(Small(1)), Float(4), Float(6), Str(1)}}
             \union {<<a, b>> : a \in {Integer(Small(1)), Bool(TRUE)}, b \in {Float(6), Str(1)}}
             \union {<<Str(1), Float(4)>>}
Sets == {Sequence("set", s) : s \in Members}

SomeValues(Such(_, _)) ==
  \/ \E a, b \in Numbers2 : Such(a, b)
  \/ \E a, b \in Containers : Such(a, b)
  \/ \E a, b \in Sets \union {Str(1), Str(2), Integer(Small(1)), Sequence("list", << >>)} : Such(a, b)

-----------------------------------------------------------------------------
MCParts == Ints(-6 .. 6) \union {Absent}
ItemQuestions == [about : {"item"}, len : 0 .. 3, index : Ints(-6 .. 6)]
CutQuestions == [about : {"cut"}, len : 0 .. 3, start : MCParts, stop : MCParts,
                 step : Ints({-9, -4, -2, -1, 1, 2, 4}) \union {Absent}, new : 0 .. 3]
UnpackQuestions == [about : {"unpack"}, n : 0 .. 5, before : 0 .. 2, star : BOOLEAN, after : 0 .. 2]

M(kind, copy) == [kind |-> kind, copy |-> copy, hashable |-> TRUE]
HeldSets == {<< >>, <<M(1, 0)>>, <<M(2, 0), M(1, 0)>>, <<M(2, 0), M(3, 0)>>}

\* Walks of up to two steps; the copies of one element are told apart by where
\* they come from.
Does == {<<"give", 1>>, <<"give", 2>>, <<"give", 3>>, <<"add", 3>>, <<"discard", 1>>,
         <<"raised", 1>>, <<"unhashable", 1>>}
MCWalk(arg, steps) ==
  [is |-> "walk", steps |-> [k \in DOMAIN steps |-> [does |-> steps[k][1], m |-> M(steps[k][2], 10 * arg + k)]]]
Others(arg) ==
  {MCWalk(arg, steps) : steps \in BoundedSeq(Does, 2)}
    \union {[is |-> "self", steps |-> << >>], [is |-> "not iterable", steps |-> << >>]}
OthersQuestions == {<< >>} \union {<<a>> : a \in Others(1)} \union {<<a, b>> : a \in Others(1), b \in Others(2)}
MethodQuestions == [about : {"set"}, held : HeldSets, others : OthersQuestions]
MemberQuestions ==
  [about : {"member"}, held : HeldSets, m : [kind : 1 .. 3, copy : {1}, hashable : BOOLEAN]]

\* Two objects of up to two elements, or one under both names.
Copies(copy) == {[k \in DOMAIN s |-> M(s[k], copy + k)] : s \in BoundedSeq(1 .. 2, 2)}
Distinct(s) == \A i, j \in DOMAIN s : i # j => s[i].kind # s[j].kind
Objects2(copy) ==
  [type : {"list", "tuple"}, items : Copies(copy), count : {0}]
    \union [type : {"set"}, items : {s \in Copies(copy) : Distinct(s)}, count : {0}]
    \union [type : {"int"}, items : {<< >>}, count : 0 .. 2]
    \union [type : {"generator"}, items : {<< >>}, count : {0}]
OperandQuestions ==
  {q \in [about : {"operands"}, objects : [x : Objects2(0), y : Objects2(10)], right : {"x", "y"}] :
     q.objects.x.type # "int" \/ q.objects[q.right].type # "int"}

-----------------------------------------------------------------------------
AnswerCheck == Asked("check") /\ Answer([found |-> Ch!Passes(question.body)])

(* A program is refused exactly when something in it is not allowed where   *)
(* it is written, whatever scopes, loops and comprehensions are around it   *)
(* or end before it; and what it is refused for is of the first pass if     *)
(* there is any of that, wherever in the program it stands; what is         *)
(* Overlooked aside (passes, Check).                                        *)
RefusesWhatIsWrong ==
  Answered("check") =>
    LET wrong == Ch!WrongBlock(question.body, "module", FALSE)
        Of(pass) == {w.what : w \in {v \in wrong : v.pass = pass}}
    IN  \/ Ch!Overlooked \in wrong
        \/ It.found \in (IF Of("symbols") # {} THEN Of("symbols")
                         ELSE IF Of("codegen") # {} THEN Of("codegen") ELSE {"none"})

-----------------------------------------------------------------------------
AnswerParse == Asked("parse") /\ Answer(Pa!ParseExpression(question.tokens))

(* A text is an expression exactly when the grammar has a tree for it, and  *)
(* the parser's is that tree, the only one, over those tokens: no rule that *)
(* is only there to explain refuses what is right, or accepts what is wrong,*)
(* and a first reading that was thrown away leaves nothing behind.  Not the *)
(* forms of Looser, which are not asked, nor a tree that is KeptQuiet, for  *)
(* which the grammar has none (expression, explaining, dict_key).           *)
ReadsTheGrammar ==
  Answered("parse") =>
    LET trees == Pa!Derived(question.tokens)
    IN  trees = IF It.ok /\ ~Pa!KeptQuiet(It.tree) THEN {It.tree} ELSE {}

-----------------------------------------------------------------------------
AnswerPath ==
  \/ Asked("path") /\ Answer([path |-> Pt!Parse(question.p), same |-> Pt!Parse(question.q)])
  \/ Asked("links") /\ Answer(Pt!Resolve(question.links, question.path, Pt!Here))

(* A path is its text and its text is that path: it reads back, is made of  *)
(* its parts, and of its parent and its name, whose stem and suffix it is;  *)
(* joining two is joining their texts, unless the second one starts at a    *)
(* root; a new name or suffix is the one that was given, and changes nothing*)
(* else; and two paths are equal exactly when their texts, which is what    *)
(* is hashed, are.  A path resolves to the place the kernel would walk to,  *)
(* through links of links, relative and absolute ones, and .. behind a link;*)
(* and it resolves when the kernel would walk for ever (Path::parse, text,  *)
(* join, with_name, with_suffix, resolve, step).                            *)
PathsAsMeant ==
  /\ Answered("path") => Pt!ReadsBack(question.p) /\ Pt!JoinsAsText(question.p, question.q) /\ Pt!Renames(question.p, question.q)
  /\ Answered("links") => Pt!ResolvesAsWalked(question.links, question.path, It)

-----------------------------------------------------------------------------
AnswerText ==
  LET s == question.s
  IN  \/ /\ Asked("search")
         /\ LET start == Tx!StartEdge(question.start, Len(s))
                end == Tx!EndEdge(question.stop, Len(s))
                sub == question.sub
            IN  Answer([find |-> Tx!Search(s, sub, start, end, "left"), rfind |-> Tx!Search(s, sub, start, end, "right"),
                        count |-> Tx!Count(s, sub, start, end),
                        starts |-> Tx!Flush(s, sub, start, end, "left"), ends |-> Tx!Flush(s, sub, start, end, "right")])
      \/ /\ Asked("pieces")
         /\ LET sep == question.sep
                limit == question.limit
            IN  Answer([split |-> Tx!Divide(s, sep, limit, "left"), rsplit |-> Tx!Divide(s, sep, limit, "right"),
                        cut |-> IF sep = Tx!None THEN << >> ELSE Tx!Partition(s, sep, "left"),
                        rcut |-> IF sep = Tx!None THEN << >> ELSE Tx!Partition(s, sep, "right")])
      \/ /\ Asked("lines")
         /\ Answer([tabs |-> Tx!ExpandTabs(s, question.width), kept |-> Tx!SplitLines(s, TRUE),
                    lines |-> Tx!SplitLines(s, FALSE), filled |-> Tx!ZFill(s, question.width),
                    padded |-> [side \in {"left", "right", "both"} |-> Tx!Pad(s, question.width, side)]])

(* A search finds the first and the last place a text is at inside of the   *)
(* bounds, whichever side of the text they are on, and counts the most      *)
(* places that lie apart; an empty text is everywhere but behind the end.   *)
(* What is cut at a separator joins to the text again, was cut as often as  *)
(* could be and is allowed, and replacing is cutting and joining; space is  *)
(* cut at its runs; and from the right it is the mirror image.  Lines have  *)
(* no break in them and are the text with their breaks; a tab reaches the   *)
(* next stop of its line; a margin is the width that is missing, on its     *)
(* side or in halves; and what is trimmed is only from the ends (window,    *)
(* locate, flush, divide, gaps, between, cut, replace, splitlines,          *)
(* expandtabs, pad, zfill, trim).                                           *)
TextsAsMeant ==
  /\ Answered("search") => Tx!FindsWhatIsThere(question.s, question.sub, question.start, question.stop, It)
  /\ Answered("pieces") => Tx!CutsAndJoins(question.s, question.sep, question.limit, It)
  /\ Answered("lines") => Tx!LaysOut(question.s, question.width, It)

-----------------------------------------------------------------------------
AskSearch(s, sub, start, stop) ==
  question = [about |-> "search", s |-> s, sub |-> sub, start |-> start, stop |-> stop]
AskCuts(s, sep, limit) == question = [about |-> "pieces", s |-> s, sep |-> sep, limit |-> limit]
AskLines(s, width) == question = [about |-> "lines", s |-> s, width |-> width]
AskPaths(p, q) == question = [about |-> "path", p |-> p, q |-> q]
AskLinks(links, path) == question = [about |-> "links", links |-> links, path |-> path]
AskTokens(tokens) == question = [about |-> "parse", tokens |-> tokens]
AskBody(body) == question = [about |-> "check", body |-> body]
AskProgram(f) == ~Sc!Hijacked(f) /\ ~Sc!Unseen(f) /\ question = [about |-> "scopes", frame |-> f]
AskText(lines, text) ==
  question = [about |-> "layout", lines |-> lines, text |-> text]
AskHistory(history, based) == question = [about |-> "attributes", history |-> history, based |-> based]
AskCall(callee, args, written) ==
  question = [about |-> "call", callee |-> callee, args |-> args, written |-> written]
AskPair(a, b) == question = [about |-> "values", a |-> a, b |-> b]
AskStatement(s) == ~Ex!StatementLosesOrder(s) /\ question = [about |-> "expr", s |-> s]

Init ==
  /\ \/ question \in IntQuestions \union RangeQuestions
                       \union MapQuestions \union BindQuestions
                       \union ItemQuestions \union CutQuestions \union UnpackQuestions
                       \union MethodQuestions \union MemberQuestions \union OperandQuestions
     \/ Ex!SomeStatement(AskStatement)
     \/ Sc!SomeProgram(AskProgram)
     \/ La!SomeText(AskText)
     \/ SomeValues(AskPair)
     \/ Ch!SomeProgram(AskBody)
     \/ Pa!SomeTokens(AskTokens)
     \/ Tx!SomeSearch(AskSearch) \/ Tx!SomeCuts(AskCuts) \/ Tx!SomeLayout(AskLines)
     \/ Pt!SomeText(AskPaths) \/ Pt!SomeLinks(AskLinks)
     \/ SomeHistory(AskHistory) \/ SomeCall(AskCall)
  /\ answer = << >>
Next == AnswerInts \/ AnswerRange \/ AnswerMap \/ AnswerBind \/ AnswerObject
          \/ AnswerExpr \/ AnswerScopes \/ AnswerLayout \/ AnswerValues
          \/ AnswerItem \/ AnswerCut \/ AnswerUnpack \/ AnswerSet \/ AnswerCheck \/ AnswerParse \/ AnswerPath \/ AnswerText
Spec == Init /\ [][Next]_functionVars

\* Every statement, those that lose their order too.
AskAny(s) == question = [about |-> "expr", s |-> s]
EveryStatement ==
  Ex!SomeStatement(AskAny) /\ answer = << >> /\ [][Next]_functionVars
=============================================================================

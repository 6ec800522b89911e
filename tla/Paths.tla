------------------------------- MODULE Paths --------------------------------
(***************************************************************************)
(* Paths as pathlib has them (kohebi-interp, path.rs): text that is taken  *)
(* apart once into a root and names, put together again when it is asked   *)
(* for, and resolved by walking it through the links of a file system.     *)
(* A text is a sequence of characters; there are no drives (not Windows).  *)
(***************************************************************************)
EXTENDS Integers, Sequences, FiniteSets, SequencesExt

Wide == {"e'"}                   \* characters of more than one byte
Path(root, names) == [root |-> root, names |-> names]
NoPath == Path("none", << >>)    \* a complaint

\* A text as its pieces between separators (std::path::Components), the dots
\* dropped; two leading slashes are a root of their own and three are not.
RECURSIVE Pieces(_, _)
Pieces(text, piece) ==
  IF text = << >> THEN <<piece>>
  ELSE IF Head(text) = "/" THEN <<piece>> \o Pieces(Tail(text), << >>)
  ELSE Pieces(Tail(text), Append(piece, Head(text)))
Names(text) == SelectSeq(Pieces(text, << >>), LAMBDA piece : piece \notin {<< >>, <<".">>})
Starts(text, with) == Len(text) >= Len(with) /\ SubSeq(text, 1, Len(with)) = with
Root(text) ==
  IF Starts(text, <<"/", "/">>) /\ ~Starts(text, <<"/", "/", "/">>) THEN "//"
  ELSE IF Starts(text, <<"/">>) THEN "/" ELSE ""
Parse(text) == Path(Root(text), Names(text))

Anchor(path) == CASE path.root = "" -> << >> [] path.root = "/" -> <<"/">> [] path.root = "//" -> <<"/", "/">>
RECURSIVE Joined(_)
Joined(names) == IF Len(names) = 1 THEN names[1] ELSE names[1] \o <<"/">> \o Joined(Tail(names))
Text(path) ==
  IF path.names = << >> THEN IF path.root = "" THEN <<".">> ELSE Anchor(path)
  ELSE Anchor(path) \o Joined(path.names)

NameOf(path) == IF path.names = << >> THEN << >> ELSE Last(path.names)
Parent(path) == IF path.names = << >> THEN path ELSE [path EXCEPT !.names = Front(@)]
Parts(path) == (IF path.root = "" THEN << >> ELSE <<Anchor(path)>>) \o path.names
Join(path, other) == IF other.root # "" THEN other ELSE [path EXCEPT !.names = @ \o other.names]
\* Path(...) of several texts.
Construct(texts) == FoldLeft(LAMBDA path, text : Join(path, Parse(text)), Parse(<< >>), texts)

\* The last dot but one in front, which begins no suffix.
Dots(name) == {k \in DOMAIN name : name[k] = "." /\ k > 1}
LastDot(name) == CHOOSE k \in Dots(name) : \A m \in Dots(name) : m <= k
Suffix(path) ==
  LET name == NameOf(path) IN IF Dots(name) = {} THEN << >> ELSE SubSeq(name, LastDot(name), Len(name))
Stem(path) ==
  LET name == NameOf(path) IN IF Dots(name) = {} THEN name ELSE SubSeq(name, 1, LastDot(name) - 1)
\* Looked for from the second byte on, which must begin a character.
RECURSIVE Split(_, _)
Split(name, piece) ==
  IF name = << >> THEN <<piece>>
  ELSE IF Head(name) = "." THEN <<piece>> \o Split(Tail(name), <<".">>)
  ELSE Split(Tail(name), Append(piece, Head(name)))
AllSuffixes(path) ==
  LET name == NameOf(path)
  IN  IF name = << >> \/ Dots(name) = {} \/ name[1] \in Wide THEN << >>
      ELSE Tail(Split(Tail(name), << >>))

WithName(path, text) ==
  LET new == Parse(text)
  IN  IF path.names = << >> \/ new.root # "" \/ Len(new.names) # 1 THEN NoPath
      ELSE [path EXCEPT !.names = Front(@) \o new.names]
WithSuffix(path, suffix) ==
  IF suffix # << >> /\ (Head(suffix) # "." \/ suffix = <<".">>) THEN NoPath
  ELSE WithName(path, Stem(path) \o suffix)

-----------------------------------------------------------------------------
(* Resolving.  links gives the target of every place that is a link, the   *)
(* names from the root being a place; expanding are the paths on the way,  *)
(* and one that is met inside of itself is left as it is.                  *)

Up == <<".", ".">>
Higher(path) == IF path.names = << >> THEN path ELSE [path EXCEPT !.names = Front(@)]
Deeper(path, name) == [path EXCEPT !.names = Append(@, name)]
RECURSIVE Step(_, _, _, _)
\* mutant: a link is relative to itself.
FollowedFromLink(links, path, here, expanding) ==
  LET target == links[here.names]
  IN  FoldLeft(LAMBDA walked, name : Step(links, walked, name, expanding \union {here}),
               IF target.root # "" THEN Path(target.root, << >>) ELSE here, target.names)
Followed(links, path, here, expanding) ==
  LET target == links[here.names]
  IN  FoldLeft(LAMBDA walked, name : Step(links, walked, name, expanding \union {here}),
               IF target.root # "" THEN Path(target.root, << >>) ELSE path, target.names)
StepAt(links, path, here, expanding) ==
  IF here \in expanding \/ here.names \notin DOMAIN links THEN here
  ELSE Followed(links, path, here, expanding)
Step(links, path, name, expanding) ==
  IF name = Up THEN Higher(path) ELSE StepAt(links, path, Deeper(path, name), expanding)
Absolute(path, here) == IF path.root # "" THEN path ELSE Join(here, path)
ResolveFrom(links, start) ==
  FoldLeft(LAMBDA walked, name : Step(links, walked, name, {}), Path(start.root, << >>), start.names)
Resolve(links, path, here) == ResolveFrom(links, Absolute(path, here))

-----------------------------------------------------------------------------
(* What paths promise, and the texts and file systems they are asked about. *)

(* How the kernel walks a path: what is left of it is one list, a link puts *)
(* its target in front of that, and too many links are a loop.              *)
Loop == <<"loop">>
RECURSIVE Walk(_, _, _, _)
Walk(links, place, rest, budget) ==
  IF budget = 0 THEN Loop
  ELSE IF rest = << >> THEN place
  ELSE IF Head(rest) = Up THEN Walk(links, IF place = << >> THEN place ELSE Front(place), Tail(rest), budget)
  ELSE IF Append(place, Head(rest)) \notin DOMAIN links
    THEN Walk(links, Append(place, Head(rest)), Tail(rest), budget)
  ELSE LET target == links[Append(place, Head(rest))]
       IN  Walk(links, IF target.root = "" THEN place ELSE << >>, target.names \o Tail(rest), budget - 1)

Budget == 40
Here == Path("/", <<<<"b">>>>)   \* where the program runs

\* Where the kernel finds a loop there is nothing to compare.
ResolvesAsWalked(links, path, result) ==
  LET walked == Walk(links, << >>, Absolute(path, Here).names, Budget)
  IN  walked # Loop => result.names = walked

\* What one text, and two, come to.
ReadsBack(p) ==
  LET path == Parse(p)
  IN  /\ Parse(Text(path)) = path /\ Construct(Parts(path)) = path
      /\ path.names # << >> => Join(Parent(path), Parse(NameOf(path))) = path
      /\ Stem(path) \o Suffix(path) = NameOf(path)
      /\ path.names # << >> /\ Head(NameOf(path)) \notin Wide =>
           LET all == FlattenSeq(AllSuffixes(path))
           IN  /\ all = << >> <=> Suffix(path) = << >>
               /\ all # << >> => Last(AllSuffixes(path)) = Suffix(path) /\ IsSuffix(all, NameOf(path))
JoinsAsText(p, q) ==
  LET both == Join(Parse(p), Parse(q))
  IN  /\ Parse(p) = Parse(q) <=> Text(Parse(p)) = Text(Parse(q))
      /\ IF Starts(q, <<"/">>) THEN both = Parse(q)
         ELSE ToSet(p) \ {"/"} # {} => both = Parse(p \o <<"/">> \o q)
Renames(p, q) ==
  LET path == Parse(p)
      named == WithName(path, q)
      suffixed == WithSuffix(path, q)
  IN  /\ named # NoPath => Parent(named) = Parent(path) /\ named = Join(Parent(path), Parse(q))
      /\ named = NoPath => path.names = << >> \/ "/" \in ToSet(q) \/ Parse(q).names = << >>
      /\ suffixed # NoPath /\ q # << >> /\ ToSet(Tail(q)) \intersect {".", "/"} = {} =>
           Stem(suffixed) = Stem(path) /\ Suffix(suffixed) = q

TextsOf(n) == UNION {[1 .. k -> {"a", "e'", ".", "/"}] : k \in 0 .. n}
Places == {<<<<"a">>>>, <<<<"b">>, <<"a">>>>, <<<<"b">>, <<"b">>>>}
A == <<"a">>
B == <<"b">>
Targets == {Path("", <<A>>), Path("", <<B>>), Path("", <<Up, A>>), Path("", <<Up>>), Path("", <<A, B>>),
            Path("/", <<B>>), Path("/", <<B, A>>)}
Walked == {Path(root, names) : root \in {"", "/"}, names \in UNION {[1 .. k -> {A, B, Up}] : k \in 1 .. 3}}
SomeText(Ask(_, _)) == \E p \in TextsOf(4), q \in TextsOf(2) : Ask(p, q)
SomeLinks(Ask(_, _)) ==
  \E places \in SUBSET Places : \E links \in [places -> Targets], path \in Walked : Ask(links, path)
=============================================================================

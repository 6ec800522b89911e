------------------------------ MODULE MCTexts -------------------------------
(* What the methods of a string promise, each said without how it is done.  *)
EXTENDS Texts, FiniteSets, FiniteSetsExt

Matches(s, sub) == {at \in 0 .. Len(s) - Len(sub) : Cut(s, at, at + Len(sub)) = sub}
Holds(s, sub) == Matches(s, sub) # {}

\* The places sub is found at inside of s[start:stop], as Python writes bounds.
Places(s, sub, start, stop) ==
  LET Bound(b) == IF b < 0 THEN Max({0, b + Len(s)}) ELSE b
      from == IF start = NoBound THEN 0 ELSE Bound(start[1])
      to == IF stop = NoBound THEN Len(s) ELSE Min({Bound(stop[1]), Len(s)})
  IN  [from |-> from, to |-> to, places |-> {at \in Matches(s, sub) : from <= at /\ at + Len(sub) <= to}]
\* The most that fit beside one another.
Apart(places, width) ==
  Max({Cardinality(some) : some \in {some \in SUBSET places :
         \A a, b \in some : a < b => a + width <= b}})

FindsWhatIsThere(s, sub, start, stop, found) ==
  LET in == Places(s, sub, start, stop)
      places == in.places
  IN  /\ found.find = IF places = {} THEN Nowhere ELSE Min(places)
      /\ found.rfind = IF places = {} THEN Nowhere ELSE Max(places)
      /\ found.count = Apart(places, Len(sub))
      /\ found.starts <=> in.from \in places
      /\ found.ends <=> in.to - Len(sub) \in places

\* The runs of points that are not space, first to last.
Runs(s) ==
  LET Word(at) == at \in DOMAIN s /\ s[at] \notin Spacey
      begins == {at \in DOMAIN s : Word(at) /\ ~Word(at - 1)}
      End(at) == Min({m \in at .. Len(s) + 1 : ~Word(m)})
      sorted == SetToSortSeq(begins, LAMBDA a, b : a < b)
  IN  [k \in DOMAIN sorted |-> <<sorted[k] - 1, End(sorted[k]) - 1>>]

Mirrored(pieces) == Reverse([k \in DOMAIN pieces |-> Reverse(pieces[k])])
\* A limit leaves the rest, from where the next piece begins, in one piece.
AtMost(s, cuts, limit) ==
  IF limit < 0 \/ Len(cuts) <= limit THEN Pieces(s, cuts)
  ELSE Append(Pieces(s, SubSeq(cuts, 1, limit)), Cut(s, cuts[limit + 1][1], Len(s)))
CutsAndJoins(s, sep, limit, r) ==
  /\ r.rsplit = Mirrored(Divide(Reverse(s), IF sep = None THEN None ELSE Reverse(sep), limit, "left"))
  /\ IF sep = None THEN r.split = AtMost(s, Runs(s), limit)
     ELSE /\ Join(r.split, sep) = s /\ Join(r.rsplit, sep) = s
          /\ Len(r.split) = 1 + (IF limit < 0 THEN Apart(Matches(s, sep), Len(sep))
                                 ELSE Min({limit, Apart(Matches(s, sep), Len(sep))}))
          /\ Len(r.rsplit) = Len(r.split)
          /\ \A k \in 1 .. Len(r.split) - 1 : ~Holds(r.split[k], sep)
          /\ \A new \in {<< >>, <<"a">>, sep \o sep} : Replace(s, sep, new, limit) = Join(r.split, new)
          /\ FlattenSeq(r.cut) = s /\ FlattenSeq(r.rcut) = s
          /\ Holds(s, sep) => LET two == Divide(s, sep, 1, "left")
                                  last == Divide(s, sep, 1, "right")
                              IN  r.cut = <<two[1], sep, two[2]>> /\ r.rcut = <<last[1], sep, last[2]>>
          /\ Replace(s, << >>, sep, NoLimit) = sep \o Join([k \in DOMAIN s |-> <<s[k]>>], sep) \o (IF s = << >> THEN << >> ELSE sep)

\* The column of a point, from what is written in front of it on its line.
Line(s, k) == LET ends == {m \in 1 .. k - 1 : s[m] \in {"\n", "\r"}} IN IF ends = {} THEN 0 ELSE Max(ends)
Stops(s, size, out) ==
  LET visible == SelectSeq(out, LAMBDA p : p # " ")
      At(k) == CHOOSE m \in DOMAIN out : out[m] # " " /\ Cardinality({n \in 1 .. m : out[n] # " "}) = k
      seen == SelectSeq([k \in DOMAIN s |-> k], LAMBDA k : s[k] # "\t")
  IN  /\ visible = SelectSeq(s, LAMBDA p : p # "\t")
      /\ \A k \in DOMAIN seen :
           LET column == At(k) - 1 - Line(out, At(k))
               tabs == {m \in Line(s, seen[k]) + 1 .. seen[k] - 1 : s[m] = "\t"}
               before == seen[k] - 1 - Line(s, seen[k]) - Cardinality(tabs)
           IN  IF size <= 0 \/ tabs = {} THEN column = before
               ELSE /\ (column - (seen[k] - 1 - Max(tabs))) % size = 0
                    /\ column >= before + Cardinality(tabs) /\ column <= before + size * Cardinality(tabs)
LaysOut(s, width, r) ==
  /\ Stops(s, width, r.tabs)
  /\ FlattenSeq(r.kept) = s /\ Len(r.lines) = Len(r.kept)
  /\ \A k \in DOMAIN r.lines :
       /\ ToSet(r.lines[k]) \intersect {"\n", "\r"} = {}
       /\ \E end \in {<<"\n">>, <<"\r">>, <<"\r", "\n">>} \union (IF k = Len(r.kept) THEN {<< >>} ELSE {}) :
            r.kept[k] = r.lines[k] \o end /\ r.kept[k] # << >>
       /\ k > 1 => ~(Last(r.kept[k - 1]) = "\r" /\ r.kept[k][1] = "\n")
  /\ \A side \in {"left", "right", "both"} :
       LET out == r.padded[side]
           margin == Len(out) - Len(s)
       IN  /\ Len(out) = Max({Len(s), width})
           /\ \E before \in 0 .. margin : /\ out = Spaces(before) \o s \o Spaces(margin - before)
                                          /\ side = "left" => before = 0
                                          /\ side = "right" => before = margin
                                          /\ side = "both" => 2 * before - margin \in {-1, 0, 1}
  /\ Len(r.filled) = Max({Len(s), width}) /\ (s # << >> /\ s[1] = "+" => r.filled[1] = "+")
  /\ \A spare \in {{"a"}, {"\n", "\t"}} :
       LET t == Trim(s, spare, TRUE, TRUE)
       IN  /\ t = Trim(Trim(s, spare, TRUE, FALSE), spare, FALSE, TRUE)
           /\ t # << >> => t[1] \notin spare /\ Last(t) \notin spare
           /\ \E at \in 0 .. Len(s) - Len(t) :
                /\ Cut(s, at, at + Len(t)) = t
                /\ ToSet(Cut(s, 0, at)) \union ToSet(Cut(s, at + Len(t), Len(s))) \subseteq spare

Upto(points, n) == UNION {[1 .. k -> points] : k \in 0 .. n}
SomeSearch(Ask(_, _, _, _)) ==
  \E s \in Upto({"a", "b"}, 3), sub \in Upto({"a", "b"}, 2) :
    \E start, stop \in {<<at>> : at \in -4 .. 4} \union {NoBound} : Ask(s, sub, start, stop)
SomeCuts(Ask(_, _, _)) ==
  \E s \in Upto({"a", "b", " "}, 5), sep \in (Upto({"a", "b"}, 2) \ {<< >>}) \union {None}, limit \in -1 .. 3 : Ask(s, sep, limit)
SomeLayout(Ask(_, _)) == \E s \in Upto({"a", "+", "\t", "\n", "\r"}, 4), width \in -1 .. 6 : Ask(s, width)
=============================================================================

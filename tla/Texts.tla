------------------------------- MODULE Texts --------------------------------
(***************************************************************************)
(* The methods of a string that look for something in it, cut it up or lay *)
(* it out (kohebi-interp, method/string.rs).  A text is a sequence of code *)
(* points; a place in it is the number of points in front, and a range is  *)
(* the places it begins and ends at.                                       *)
(***************************************************************************)
EXTENDS Integers, Sequences, SequencesExt

Cut(s, from, to) == SubSeq(s, from + 1, to)
Point(s, at) == s[at + 1]
Nowhere == -1
None == <<"none">>              \* a separator that is left out
NoBound == << >>                \* a bound is one place, or left out
NoLimit == -1

-----------------------------------------------------------------------------
(* Searching.  A bound may be None; the stop is pulled to both ends and the *)
(* start only up to zero.                                                  *)

Clamped(at, len) ==
  IF at < 0 THEN IF at + len < 0 THEN 0 ELSE at + len
  ELSE IF at > len THEN len ELSE at
EndEdge(stop, len) == IF stop = NoBound THEN len ELSE Clamped(stop[1], len)
StartEdge(start, len) ==
  IF start = NoBound THEN 0 ELSE IF start[1] < 0 THEN Clamped(start[1], len) ELSE start[1]

Locate(hay, needle, start, end, from) ==
  IF start > end \/ end > Len(hay) THEN Nowhere
  ELSE IF needle = << >> THEN IF from = "left" THEN start ELSE end
  ELSE LET hits == {at \in start .. end - Len(needle) : Cut(hay, at, at + Len(needle)) = needle}
       IN  IF hits = {} THEN Nowhere
           ELSE CHOOSE at \in hits : \A other \in hits : IF from = "left" THEN at <= other ELSE at >= other

\* A window that is backwards has nothing in it.
Search(hay, needle, start, end, from) ==
  IF start > end THEN Nowhere ELSE Locate(hay, needle, start, end, from)
RECURSIVE CountFrom(_, _, _, _)
CountAfter(hay, needle, hit, end) ==
  IF hit = Nowhere THEN 0 ELSE 1 + CountFrom(hay, needle, hit + Len(needle), end)
CountFrom(hay, needle, at, end) == CountAfter(hay, needle, Locate(hay, needle, at, end, "left"), end)
Count(hay, needle, start, end) ==
  IF start > end THEN 0 ELSE IF needle = << >> THEN end - start + 1 ELSE CountFrom(hay, needle, start, end)

\* Whether an end of the window is this; a backwards window has no room even for
\* nothing.
Flush(hay, sub, start, end, from) ==
  /\ start + Len(sub) <= end
  /\ LET at == IF from = "left" THEN start ELSE end - Len(sub) IN Cut(hay, at, at + Len(sub)) = sub

-----------------------------------------------------------------------------
(* Cutting up, at a separator or at runs of space, from either end and at  *)
(* most limit times.  The ranges found from the right are turned round.    *)

\* mutant: cut once more than is allowed.
SpareOneMore(limit, done) == limit < 0 \/ done <= limit
Spare(limit, done) == limit < 0 \/ done < limit
RECURSIVE BetweenFrom(_, _, _, _, _, _, _)
BetweenAt(s, sep, limit, from, cuts, lo, hi, at) ==
  IF at = Nowhere THEN Append(cuts, <<lo, hi>>)
  ELSE IF from = "left" THEN BetweenFrom(s, sep, limit, from, Append(cuts, <<lo, at>>), at + Len(sep), hi)
  ELSE BetweenFrom(s, sep, limit, from, Append(cuts, <<at + Len(sep), hi>>), lo, at)
BetweenFrom(s, sep, limit, from, cuts, lo, hi) ==
  BetweenAt(s, sep, limit, from, cuts, lo, hi,
            IF Spare(limit, Len(cuts)) THEN Locate(s, sep, lo, hi, from) ELSE Nowhere)

Spacey == {" "}
\* The place reached from lo up to hi, or from hi down to lo, over points that
\* are space, or that are not.
RECURSIVE Over(_, _, _, _, _)
Over(s, lo, hi, from, space) ==
  IF lo < hi /\ (Point(s, IF from = "left" THEN lo ELSE hi - 1) \in Spacey) = space
    THEN IF from = "left" THEN Over(s, lo + 1, hi, from, space) ELSE Over(s, lo, hi - 1, from, space)
  ELSE IF from = "left" THEN lo ELSE hi
RECURSIVE GapsFrom(_, _, _, _, _, _)
\* The next run begins, or from the right ends, at start.
GapsAt(s, limit, from, cuts, lo, hi, start) ==
  IF (IF from = "left" THEN start = hi ELSE start = lo) THEN cuts
  ELSE IF ~Spare(limit, Len(cuts))
    THEN Append(cuts, IF from = "left" THEN <<start, hi>> ELSE <<lo, start>>)
  ELSE IF from = "left"
    THEN LET end == Over(s, start, hi, from, FALSE)
         IN  GapsFrom(s, limit, from, Append(cuts, <<start, end>>), end, hi)
  ELSE LET begin == Over(s, lo, start, from, FALSE)
       IN  GapsFrom(s, limit, from, Append(cuts, <<begin, start>>), lo, begin)
GapsFrom(s, limit, from, cuts, lo, hi) ==
  GapsAt(s, limit, from, cuts, lo, hi, Over(s, lo, hi, from, TRUE))

Pieces(s, cuts) == [k \in DOMAIN cuts |-> Cut(s, cuts[k][1], cuts[k][2])]
Divide(s, sep, limit, from) ==
  LET cuts == IF sep = None THEN GapsFrom(s, limit, from, << >>, 0, Len(s))
              ELSE BetweenFrom(s, sep, limit, from, << >>, 0, Len(s))
  IN  Pieces(s, IF from = "left" THEN cuts ELSE Reverse(cuts))

Partition(s, sep, from) ==
  LET at == Locate(s, sep, 0, Len(s), from)
  IN  IF at # Nowhere THEN <<Cut(s, 0, at), sep, Cut(s, at + Len(sep), Len(s))>>
      ELSE IF from = "left" THEN <<s, << >>, << >>>> ELSE <<<< >>, << >>, s>>

RECURSIVE ReplaceFrom(_, _, _, _, _, _)
ReplaceHit(s, old, new, limit, done, at, hit) ==
  IF hit = Nowhere THEN Cut(s, at, Len(s))
  ELSE Cut(s, at, hit) \o new \o ReplaceFrom(s, old, new, limit, done + 1, hit + Len(old))
ReplaceFrom(s, old, new, limit, done, at) ==
  ReplaceHit(s, old, new, limit, done, at,
            IF Spare(limit, done) THEN Locate(s, old, at, Len(s), "left") ELSE Nowhere)
\* Nothing is found in front of every point and once more at the end.
Replace(s, old, new, limit) ==
  IF old # << >> THEN ReplaceFrom(s, old, new, limit, 0, 0)
  ELSE FlattenSeq([k \in DOMAIN s |-> IF Spare(limit, k - 1) THEN Append(new, s[k]) ELSE <<s[k]>>])
         \o (IF Spare(limit, Len(s)) THEN new ELSE << >>)

Join(pieces, separator) ==
  FlattenSeq([k \in DOMAIN pieces |-> IF k = 1 THEN pieces[k] ELSE separator \o pieces[k]])

-----------------------------------------------------------------------------
(* Lines, columns and margins.                                             *)

\* How many points of a line break are at a place: \r\n is one break.
Breaks(s, at) ==
  IF Point(s, at) = "\r" /\ at + 1 < Len(s) /\ Point(s, at + 1) = "\n" THEN 2
  ELSE IF Point(s, at) \in {"\n", "\r"} THEN 1 ELSE 0
RECURSIVE LinesFrom(_, _, _, _)
LinesFrom(s, keep, start, at) ==
  IF at >= Len(s) THEN IF start < Len(s) THEN <<Cut(s, start, Len(s))>> ELSE << >>
  ELSE IF Breaks(s, at) = 0 THEN LinesFrom(s, keep, start, at + 1)
  ELSE <<Cut(s, start, IF keep THEN at + Breaks(s, at) ELSE at)>>
         \o LinesFrom(s, keep, at + Breaks(s, at), at + Breaks(s, at))
SplitLines(s, keep) == LinesFrom(s, keep, 0, 0)

RECURSIVE FirstKept(_, _, _), LastKept(_, _, _, _)
FirstKept(s, spare, at) == IF at < Len(s) /\ Point(s, at) \in spare THEN FirstKept(s, spare, at + 1) ELSE at
LastKept(s, spare, from, at) == IF at > from /\ Point(s, at - 1) \in spare THEN LastKept(s, spare, from, at - 1) ELSE at
Trim(s, spare, front, back) ==
  LET start == IF front THEN FirstKept(s, spare, 0) ELSE 0
  IN  Cut(s, start, IF back THEN LastKept(s, spare, start, Len(s)) ELSE Len(s))

Spaces(n) == [k \in 1 .. n |-> " "]
RECURSIVE Expanded(_, _, _)
Expanded(s, size, column) ==
  IF s = << >> THEN << >>
  ELSE CASE Head(s) = "\t" ->
              IF size <= 0 THEN Expanded(Tail(s), size, column)
              ELSE Spaces(size - (column % size)) \o Expanded(Tail(s), size, column + size - (column % size))
         [] Head(s) \in {"\n", "\r"} -> <<Head(s)>> \o Expanded(Tail(s), size, 0)
         [] OTHER -> <<Head(s)>> \o Expanded(Tail(s), size, column + 1)
ExpandTabs(s, size) == Expanded(s, size, 0)

Short(width, len) == IF width <= len THEN 0 ELSE width - len
Pad(s, width, side) ==
  LET margin == Short(width, Len(s))
      before == CASE side = "left" -> 0 [] side = "right" -> margin
                  [] side = "both" -> (margin \div 2) + (IF margin % 2 = 1 /\ width % 2 = 1 THEN 1 ELSE 0)
  IN  Spaces(before) \o s \o Spaces(margin - before)
ZFill(s, width) ==
  LET sign == IF s # << >> /\ Head(s) \in {"+", "-"} THEN 1 ELSE 0
  IN  Cut(s, 0, sign) \o [k \in 1 .. Short(width, Len(s)) |-> "0"] \o Cut(s, sign, Len(s))
=============================================================================

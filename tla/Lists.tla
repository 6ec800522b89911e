------------------------------- MODULE Lists --------------------------------
(***************************************************************************)
(* One list, and what can be going on with it at once (method/list.rs,     *)
(* builtin.rs, iterate.rs): sorts whose key functions run Python, extends  *)
(* that step a generator, and iterators half way along.  Whatever runs     *)
(* inside of a sort or an extend may do to the list all that a program may *)
(* do, a sort of the same list included.                                   *)
(*                                                                         *)
(* The elements are told apart by identity and compared by rank, so that   *)
(* it can be seen which of two equal ones came first.  A position counts   *)
(* from 1 here and the next one to be read is kept, as in the code.        *)
(***************************************************************************)
EXTENDS Naturals, Sequences, FiniteSets, SequencesExt

CONSTANTS
  Elems,      \* what may be in the list
  Rank,       \* what the key function says of each
  Walks,      \* the iterators over the list
  MaxCalls,   \* how many sorts and extends may be in progress
  MaxSteps    \* how far the iterators are explored

ASSUME RankAssumption == Rank \in [Elems -> Nat]
ASSUME BoundsAssumption == MaxCalls \in Nat /\ MaxSteps \in Nat

VARIABLES
  items,   \* the list
  calls,   \* the sorts and the extends in progress, innermost last
  walks,   \* of every iterator, where it is and what it has given
  outcome  \* how the sort that has just ended did

vars == <<items, calls, walks, outcome>>

Sort == [op : {"sort"}, taken : Seq(Elems), ranked : Nat, reverse : BOOLEAN]
Extend == [op : {"extend"}]
Iter == [at : Nat, given : Seq(Elems), plain : BOOLEAN]

TypeOK ==
  /\ items \in Seq(Elems)
  /\ calls \in Seq(Sort \union Extend) /\ Len(calls) <= MaxCalls
  /\ \A i \in DOMAIN calls : calls[i].op = "sort" => calls[i].ranked <= Len(calls[i].taken)
  /\ walks \in [Walks -> Iter]
  /\ outcome \in {"none", "sorted", "modified", "raised"}

Top == calls[Len(calls)]
Inside(op) == calls # << >> /\ Top.op = op

-----------------------------------------------------------------------------
(* The sort proper: merge_sort from the bottom up, stable since the left   *)
(* run goes first unless the right one is strictly less.                   *)

Merge(left, right) ==
  LET total == Len(left) + Len(right)
      merged[n \in 0 .. total] ==
        IF n = 0 THEN [out |-> << >>, i |-> 1, j |-> 1]
        ELSE LET m == merged[n - 1]
             IN  IF m.j <= Len(right) /\ (m.i > Len(left) \/ Rank[right[m.j]] < Rank[left[m.i]])
                   THEN [out |-> Append(m.out, right[m.j]), i |-> m.i, j |-> m.j + 1]
                   ELSE [out |-> Append(m.out, left[m.i]), i |-> m.i + 1, j |-> m.j]
  IN  merged[total].out

\* The k-th run of a width, the first one being run 0.
Run(s, width, k) == SubSeq(s, k * width + 1, Min({(k + 1) * width, Len(s)}))

\* One pass: the runs of a width merged two by two.
MergePass(s, width) ==
  LET pairs == (Len(s) + 2 * width - 1) \div (2 * width)
      passed[p \in 0 .. pairs] ==
        IF p = 0 THEN << >>
        ELSE passed[p - 1] \o Merge(Run(s, width, 2 * p - 2), Run(s, width, 2 * p - 1))
  IN  passed[pairs]

\* There are never as many passes as elements.
MergeSort(s) ==
  LET sorted[n \in 0 .. Len(s)] ==
        IF n = 0 THEN [width |-> 1, items |-> s]
        ELSE LET before == sorted[n - 1]
             IN  IF before.width >= Len(s) THEN before
                 ELSE [width |-> 2 * before.width, items |-> MergePass(before.items, before.width)]
  IN  sorted[Len(s)].items

\* Turned round, sorted, and turned round again.
Arrange(s, reverse) == IF reverse THEN Reverse(MergeSort(Reverse(s))) ELSE MergeSort(s)

-----------------------------------------------------------------------------
(* What a program does to the list, at top level or in the middle of a key *)
(* function or a generator.                                                *)

Fresh == Elems \ (ToSet(items) \union UNION {ToSet(calls[i].taken) :
                    i \in {k \in DOMAIN calls : calls[k].op = "sort"}})

\* After anything but a growth at the end, an iterator's history is not plain.
Grown == UNCHANGED <<calls, walks>>
Disturbed == walks' = [w \in Walks |-> [walks[w] EXCEPT !.plain = FALSE]]

Push(e) == items' = Append(items, e) /\ Grown
Insert(e) ==
  /\ \E n \in 0 .. Len(items) : items' = InsertAt(items, n + 1, e)
  /\ UNCHANGED calls /\ Disturbed
Pop ==
  /\ items # << >>
  /\ \E n \in DOMAIN items : items' = RemoveAt(items, n)
  /\ UNCHANGED calls /\ Disturbed
Clear == items' = << >> /\ UNCHANGED calls /\ Disturbed
TurnRound == items' = Reverse(items) /\ UNCHANGED calls /\ Disturbed

-----------------------------------------------------------------------------
(* list.sort with a key function.                                          *)

\* mutant: the list is copied for the sort and not emptied.
StartSortCopied ==
  /\ Len(calls) < MaxCalls
  /\ \E reverse \in BOOLEAN :
       calls' = Append(calls, [op |-> "sort", taken |-> items, ranked |-> 0, reverse |-> reverse])
  /\ UNCHANGED items
  /\ Disturbed

StartSort ==
  /\ Len(calls) < MaxCalls
  /\ \E reverse \in BOOLEAN :
       calls' = Append(calls, [op |-> "sort", taken |-> items, ranked |-> 0, reverse |-> reverse])
  /\ items' = << >>
  /\ Disturbed

\* The key function gives back what it says of one more element.
KeyTaken ==
  /\ Inside("sort") /\ Top.ranked < Len(Top.taken)
  /\ calls' = [calls EXCEPT ![Len(calls)].ranked = @ + 1]
  /\ UNCHANGED <<items, walks>>

\* The key function raises, or lets something through that was raised inside
\* of it, or two of the keys cannot be compared: the list is what it was, and
\* what the key function put there is gone.
SortRaises ==
  /\ Inside("sort") /\ (Top.ranked < Len(Top.taken) \/ Len(Top.taken) > 1)
  /\ items' = Top.taken
  /\ calls' = Front(calls)
  /\ outcome' = "raised"
  /\ Disturbed

\* mutant: what the key function put into the list is put after the answer.
EndSortKeeping ==
  /\ Inside("sort") /\ Top.ranked = Len(Top.taken)
  /\ items' = Arrange(Top.taken, Top.reverse) \o items
  /\ calls' = Front(calls)
  /\ outcome' = IF items # << >> THEN "modified" ELSE "sorted"
  /\ Disturbed

\* All of the keys are there.  The sort answers even when it then says that the
\* list was modified, a ValueError.
EndSort ==
  /\ Inside("sort") /\ Top.ranked = Len(Top.taken)
  /\ items' = Arrange(Top.taken, Top.reverse)
  /\ calls' = Front(calls)
  /\ outcome' = IF items # << >> THEN "modified" ELSE "sorted"
  /\ Disturbed

-----------------------------------------------------------------------------
(* list.extend with a generator, one value at a time.                      *)

StartExtend ==
  /\ Len(calls) < MaxCalls
  /\ calls' = Append(calls, [op |-> "extend"])
  /\ UNCHANGED <<items, walks>>

ExtendBy(e) == Inside("extend") /\ items' = Append(items, e) /\ Grown

\* The generator ends, or raises: what it gave so far stays.
EndExtend ==
  /\ Inside("extend")
  /\ calls' = Front(calls)
  /\ UNCHANGED <<items, walks>>

-----------------------------------------------------------------------------
(* Iterators over the list.                                                *)

\* mutant: the position is read again after it was moved.
StepAhead(w) ==
  LET at == walks[w].at + 1
      there == at + 1 \in DOMAIN items
  IN  /\ walks[w].at < MaxSteps
      /\ walks' = [walks EXCEPT ![w] = [at |-> at,
                                        given |-> IF there THEN Append(@.given, items[at + 1]) ELSE @.given,
                                        plain |-> @.plain /\ there]]
      /\ UNCHANGED <<items, calls>>

\* Iter::step: the position moves on even when there was nothing to give.
Step(w) ==
  LET at == walks[w].at + 1
      there == at \in DOMAIN items
  IN  /\ walks[w].at < MaxSteps
      /\ walks' = [walks EXCEPT ![w] = [at |-> at,
                                        given |-> IF there THEN Append(@.given, items[at]) ELSE @.given,
                                        plain |-> @.plain /\ there]]
      /\ UNCHANGED <<items, calls>>

\* iter(xs), or the head of a for loop.
Over(w) ==
  /\ walks' = [walks EXCEPT ![w] = [at |-> 0, given |-> << >>, plain |-> TRUE]]
  /\ UNCHANGED <<items, calls>>

Init ==
  /\ items = << >>
  /\ calls = << >>
  /\ walks = [w \in Walks |-> [at |-> 0, given |-> << >>, plain |-> TRUE]]
  /\ outcome = "none"

Other ==
  \/ \E e \in Fresh : Push(e) \/ Insert(e) \/ ExtendBy(e)
  \/ Pop \/ Clear \/ TurnRound
  \/ StartSort \/ KeyTaken
  \/ StartExtend \/ EndExtend
  \/ \E w \in Walks : Step(w) \/ Over(w)

Next == (Other /\ outcome' = "none") \/ SortRaises \/ EndSort

Spec == Init /\ [][Next]_vars

-----------------------------------------------------------------------------
\* The order a sort is for: by rank, up or down, and equal ones as they were.
Ordered(s, reverse) ==
  LET Before(p, q) == \/ Rank[s[p]] < Rank[s[q]] /\ ~reverse
                      \/ Rank[s[p]] > Rank[s[q]] /\ reverse
                      \/ Rank[s[p]] = Rank[s[q]] /\ p < q
      Place(p) == Cardinality({q \in DOMAIN s : Before(q, p)}) + 1
  IN  [n \in DOMAIN s |-> s[CHOOSE p \in DOMAIN s : Place(p) = n]]

(* However a sort ends, the list is then a matter of what it was when the  *)
(* sort began: those elements in order, equal ones in the order they were  *)
(* in whichever way round, or the list as it was if something raised.      *)
(* What the key function did to the list meanwhile, another sort of it     *)
(* included, is gone, and what it left there is complained of (list.sort,  *)
(* "leaves the list exactly as it found it").                              *)
SortAnswers ==
  [][Inside("sort") /\ Len(calls') < Len(calls) =>
       /\ items' = IF outcome' = "raised" THEN Top.taken ELSE Ordered(Top.taken, Top.reverse)
       /\ outcome' = "sorted" => items = << >>]_vars

(* No element is in two places: in the list and in the hands of a sort, or *)
(* of two sorts.  A key function sees what it put into the list itself and *)
(* nothing of what is being sorted.                                        *)
NoElementTwice ==
  /\ TypeOK
  /\ LET hands == [i \in DOMAIN calls |-> IF calls[i].op = "sort" THEN calls[i].taken ELSE << >>]
         all == FlattenSeq(Append(hands, items))
     IN  Cardinality(ToSet(all)) = Len(all)

(* An iterator over a list that did nothing but grow at its end, appended  *)
(* to by whatever is running or extended by a generator, has given every   *)
(* element up to where it is, until it is asked past the end.              *)
GrowingWalk ==
  \A w \in Walks : walks[w].plain =>
    walks[w].at <= Len(items) /\ walks[w].given = SubSeq(items, 1, walks[w].at)
=============================================================================

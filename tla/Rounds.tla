------------------------------- MODULE Rounds -------------------------------
(***************************************************************************)
(* map over several sources (kohebi-interp, lazy.rs): one value of each    *)
(* for every value of the map, until one of them ends.                     *)
(*                                                                         *)
(* A source is how many values it has; what is asked of it is how often it *)
(* was stepped.  There is no flag for the end, so a map that is asked      *)
(* again steps its sources again.                                          *)
(***************************************************************************)
EXTENDS Naturals, Sequences, FiniteSets, FiniteSetsExt

\* The sources, and what the map gave at every step so far.
Walked(taken, answers) == [taken |-> taken, answers |-> answers]

Value(k) == [is |-> "value", at |-> k]
End == [is |-> "end", at |-> 0]
Shorter(at) == [is |-> "shorter", at |-> at]
Longer(at) == [is |-> "longer", at |-> at]

Has(sources, taken, i) == taken[i] < sources[i]
Stepped(sources, taken, i) ==
  IF Has(sources, taken, i) THEN [taken EXCEPT ![i] = @ + 1] ELSE taken

\* mutant: every source is stepped before the ends are looked at.
RoundAll(sources, taken) ==
  LET ended == {i \in DOMAIN sources : ~Has(sources, taken, i)}
  IN  [ended |-> IF ended = {} THEN 0 ELSE Min(ended),
       taken |-> [i \in DOMAIN sources |-> IF i \in ended THEN taken[i] ELSE taken[i] + 1]]

\* The sources in order, up to the first one that has ended, or none (0).
Round(sources, taken) ==
  LET ended == {i \in DOMAIN sources : ~Has(sources, taken, i)}
      at == IF ended = {} THEN 0 ELSE Min(ended)
  IN  [ended |-> at,
       taken |-> [i \in DOMAIN sources |->
                    IF at = 0 \/ i < at THEN taken[i] + 1 ELSE taken[i]]]

\* uneven: with strict=True, which source is the odd one out.  When the first
\* one ended the others are stepped, up to the first that still has a value.
Uneven(sources, taken, at) ==
  LET more == {i \in DOMAIN sources : i > 1 /\ Has(sources, taken, i)}
  IN  IF at > 1 THEN Walked(taken, Shorter(at))
      ELSE IF more = {} THEN Walked(taken, End)
      ELSE Walked(Stepped(sources, taken, Min(more)), Longer(Min(more)))

\* Lazy::step of a map.
MapStep(sources, taken, strict) ==
  LET round == Round(sources, taken)
  IN  IF round.ended = 0 THEN Walked(round.taken, Value(round.taken))
      ELSE IF strict THEN Uneven(sources, round.taken, round.ended)
      ELSE Walked(round.taken, End)

\* The map asked n times.
MapAsked(sources, strict, n) ==
  LET asked[k \in 0 .. n] ==
        IF k = 0 THEN Walked([i \in DOMAIN sources |-> 0], << >>)
        ELSE LET w == asked[k - 1]
                 s == MapStep(sources, w.taken, strict)
             IN  Walked(s.taken, Append(w.answers, s.answers))
  IN  asked[n]

-----------------------------------------------------------------------------
(* What Python says: the k-th value is of the k-th value of every source,  *)
(* and there are as many as the shortest source has.  A source is stepped  *)
(* as often as the map is asked, for as long as the ones before it last.   *)

Shortest(sources) == Min({sources[i] : i \in DOMAIN sources})

TakenOf(sources, i, n) ==
  Min({n} \union {sources[j] : j \in {k \in DOMAIN sources : k <= i}})

\* The answer to the question after the last value, when the lengths are to
\* match: who is to blame, and nobody when they do.
Verdict(sources) ==
  LET short == Shortest(sources)
      shortOnes == {i \in DOMAIN sources : sources[i] = short}
      longOnes == DOMAIN sources \ shortOnes
  IN  IF longOnes = {} THEN End
      ELSE IF 1 \in longOnes THEN Shorter(Min(shortOnes))
      ELSE Longer(Min(longOnes))
=============================================================================

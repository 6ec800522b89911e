------------------------------ MODULE DictWalk ------------------------------
(***************************************************************************)
(* A for loop over a dict (kohebi-interp, iterate.rs) whose body may do    *)
(* anything to the dict.  The iterator holds the dict, a position into its *)
(* entries and the number of keys there were when the loop began, and it   *)
(* refuses to go on when that number has changed.                          *)
(*                                                                         *)
(* The fields kept, calm, moved and steps are history: they say what the   *)
(* body has done.                                                          *)
(***************************************************************************)
EXTENDS Dict

CONSTANT MaxBody   \* how many operations of the loop bodies are explored
ASSUME MaxBodyAssumption == MaxBody \in Nat

VARIABLE loop

walkVars == <<indices, entries, used, answer, loop>>

KeyOf(e) == Same[e.key]
Present(es) == {KeyOf(es[p]) : p \in {q \in DOMAIN es : es[q] # Hole}}
Place(es, k) == CHOOSE p \in DOMAIN es : es[p] # Hole /\ KeyOf(es[p]) = k

Loop(state, size, kept) ==
  [state |-> state, at |-> 0, size |-> size, seen |-> << >>,
   kept |-> kept, calm |-> TRUE, moved |-> FALSE, steps |-> 0]
NoLoop == Loop("none", 0, {})
Going == loop.state = "going"

-----------------------------------------------------------------------------
\* GetIter: iterate::over on a dict, on one of its views or on a set.
Over ==
  /\ loop = NoLoop
  /\ loop' = Loop("going", used, Present(entries))
  /\ UNCHANGED vars

\* mutant: a hole is stepped over without being counted.
EntryPastHole(from) ==
  LET found == {p \in DOMAIN entries : p > from /\ entries[p] # Hole}
  IN  IF found = {} THEN [found |-> FALSE]
      ELSE [found |-> TRUE, key |-> KeyOf(entries[First(found)]), next |-> from + 1]

\* mutant: the key after the one that was found is passed over.
EntryTwoOn(from) ==
  LET found == {p \in DOMAIN entries : p > from /\ entries[p] # Hole}
  IN  IF found = {} THEN [found |-> FALSE]
      ELSE [found |-> TRUE, key |-> KeyOf(entries[First(found)]), next |-> First(found) + 1]

\* entry_at: the next live entry past a position, and where to look next.
EntryAt(from) ==
  LET found == {p \in DOMAIN entries : p > from /\ entries[p] # Hole}
  IN  IF found = {} THEN [found |-> FALSE]
      ELSE [found |-> TRUE, key |-> KeyOf(entries[First(found)]), next |-> First(found)]

\* Next: Iter::step.  A change of size is a RuntimeError and ends the loop.
Step ==
  /\ Going
  /\ LET e == EntryAt(loop.at)
     IN  loop' = IF used # loop.size THEN [loop EXCEPT !.state = "raised"]
                 ELSE IF ~e.found    THEN [loop EXCEPT !.state = "done"]
                 ELSE [loop EXCEPT !.at = e.next, !.seen = Append(@, e.key)]
  /\ UNCHANGED vars

\* The loop is over, and the next one starts afresh.
Leave ==
  /\ loop.state \in {"done", "raised"}
  /\ loop' = NoLoop
  /\ UNCHANGED vars

\* What the body does to the dict, and what it means for the history.
Body ==
  /\ loop.state \in {"none", "going"}
  /\ loop.steps < MaxBody
  /\ Next
  /\ loop' =
       LET kept == loop.kept \intersect Present(entries')
       IN  IF ~Going THEN loop
           ELSE [loop EXCEPT
                  !.steps = @ + 1,
                  !.kept = kept,
                  !.calm = @ /\ Present(entries') = Present(entries),
                  !.moved = @ \/ \E k \in kept : Place(entries', k) # Place(entries, k)]

WalkInit == Init /\ loop = NoLoop
WalkNext == Over \/ Step \/ Leave \/ Body
WalkSpec == WalkInit /\ [][WalkNext]_walkVars

-----------------------------------------------------------------------------
Finished == loop.state = "done"
Seen == {loop.seen[i] : i \in DOMAIN loop.seen}

(* The keys that stay in the dict all through a loop come out of it in the *)
(* order they are in, and none of them twice, whatever else the body puts  *)
(* in, takes out or overwrites.                                            *)
InOrderOnce ==
  \A i, j \in DOMAIN loop.seen :
    i < j /\ {loop.seen[i], loop.seen[j]} \subseteq loop.kept =>
      Place(entries, loop.seen[i]) < Place(entries, loop.seen[j])

(* A loop that ends has been through every key that was there all along,   *)
(* as long as no rebuild moved an entry under it.                          *)
CompleteUnlessMoved == Finished /\ ~loop.moved => loop.kept \subseteq Seen

(* What the doc of Dict::entry_at says and a program relies on: a body     *)
(* that neither adds nor deletes a key sees every key, deletions before    *)
(* the loop notwithstanding.                                               *)
OverwritingIsSafe == Finished /\ loop.calm => loop.kept \subseteq Seen
=============================================================================

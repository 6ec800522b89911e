------------------------------- MODULE Items --------------------------------
(***************************************************************************)
(* Reading, writing and deleting items of a list (kohebi-core, ops.rs),    *)
(* and taking a value apart into targets (kohebi-interp, vm.rs).           *)
(*                                                                         *)
(* A list is the sequence of its elements; offsets count from 0 as in the  *)
(* code and At turns one into a position.  What cannot be done is said by  *)
(* the name of an error.                                                   *)
(***************************************************************************)
EXTENDS Numbers, SequencesExt

At(s, offset) == s[offset + 1]
Gives(items) == [error |-> "none", items |-> items]
Error(why) == [error |-> why, items |-> << >>]

\* offset: a negative index counts from the end, and one that is no word was
\* never an index.
Offset(index, len) ==
  LET at == IF index.n < 0 THEN index.n + len ELSE index.n
  IN  IF index.arm = "big" THEN [error |-> "no index", at |-> 0]
      ELSE IF at < 0 \/ at >= len THEN [error |-> "out of range", at |-> 0]
      ELSE [error |-> "none", at |-> at]

GetItem(s, index) ==
  LET o == Offset(index, Len(s))
  IN  IF o.error # "none" THEN Error(o.error) ELSE Gives(<<At(s, o.at)>>)
SetItem(s, index, v) ==
  LET o == Offset(index, Len(s))
  IN  IF o.error # "none" THEN Error(o.error) ELSE Gives(ReplaceAt(s, o.at + 1, v))
DelItem(s, index) ==
  LET o == Offset(index, Len(s))
  IN  IF o.error # "none" THEN Error(o.error) ELSE Gives(RemoveAt(s, o.at + 1))

-----------------------------------------------------------------------------
(* Slices.                                                                 *)

GetSlice(s, slice) ==
  LET offsets == Offsets(Indices(slice, Len(s)))
  IN  Gives([k \in DOMAIN offsets |-> At(s, offsets[k])])

\* A run is spliced, whatever its length; anything else is put in one by one.
SetSlice(s, slice, replacement) ==
  LET ix == Indices(slice, Len(s))
      offsets == Offsets(ix)
      put[k \in 0 .. ix.len] ==
        IF k = 0 THEN s ELSE ReplaceAt(put[k - 1], offsets[k] + 1, replacement[k])
  IN  IF ix.step = 1
        THEN Gives(SubSeq(s, 1, ix.start) \o replacement \o SubSeq(s, ix.start + ix.len + 1, Len(s)))
      ELSE IF Len(replacement) # ix.len THEN Error("other size")
      ELSE Gives(put[ix.len])

\* mutant: removed in the order of the slice, so that the later ones move.
DelSliceForward(s, slice) ==
  LET offsets == Offsets(Indices(slice, Len(s)))
      left[k \in 0 .. Len(offsets)] ==
        IF k = 0 THEN s
        ELSE IF offsets[k] < Len(left[k - 1]) THEN RemoveAt(left[k - 1], offsets[k] + 1) ELSE left[k - 1]
  IN  Gives(left[Len(offsets)])

\* Removed back to front: the last of those that are not removed yet.
RemoveLast(left) ==
  LET at == CHOOSE i \in DOMAIN left.doomed : \A j \in DOMAIN left.doomed : left.doomed[j] <= left.doomed[i]
  IN  [items |-> RemoveAt(left.items, left.doomed[at] + 1), doomed |-> RemoveAt(left.doomed, at)]
DelSlice(s, slice) ==
  LET offsets == Offsets(Indices(slice, Len(s)))
      left[k \in 0 .. Len(offsets)] ==
        IF k = 0 THEN [items |-> s, doomed |-> offsets] ELSE RemoveLast(left[k - 1])
  IN  Gives(left[Len(offsets)].items)

-----------------------------------------------------------------------------
(* Unpacking a value that has n elements into targets, of which one may    *)
(* have a star: how often it was stepped, and what every target gets.      *)

\* Without a star one more is asked for than there are targets; when it is
\* there the rest is walked as well, to be counted.
Unpack(n, before, star, after) ==
  LET least == before + after
      wanted == IF star THEN n ELSE Min({n, least + 1})
      values == [k \in 1 .. wanted |-> k]
  IN  IF wanted < least THEN [error |-> "few", counted |-> wanted, targets |-> << >>]
      ELSE IF ~star /\ wanted > least THEN [error |-> "many", counted |-> n, targets |-> << >>]
      ELSE [error |-> "none", counted |-> wanted,
            targets |-> [k \in 1 .. before |-> <<values[k]>>]
                          \o (IF star THEN <<SubSeq(values, before + 1, wanted - after)>> ELSE << >>)
                          \o [k \in 1 .. after |-> <<values[wanted - after + k]>>]]
=============================================================================

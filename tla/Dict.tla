-------------------------------- MODULE Dict --------------------------------
(***************************************************************************)
(* The dict (kohebi-core, dict.rs): a sparse table of positions, and the   *)
(* entries packed in insertion order beside it.  A set is the same with    *)
(* nothing in the values.                                                  *)
(*                                                                         *)
(* A slot of the table holds a position, Empty (nothing was ever there) or *)
(* Dummy (something was deleted).  Slots and positions count from 1.       *)
(***************************************************************************)
EXTENDS Naturals, Sequences, FiniteSets

CONSTANTS
  Keys, Values, None,
  Same,      \* Same[k]: one key chosen for all the keys equal to k (1 and True)
  Hash,      \* Hash[k]: the bits of its hash, as a number
  Shifts,    \* how many shifts by five bits leave nothing of a hash, 13 for 64
  Minimum,   \* the length of the first table, 8 in the code
  Empty, Dummy, Hole

TwoTo[e \in Nat] == IF e = 0 THEN 1 ELSE 2 * TwoTo[e - 1]

ASSUME KeysAssumption ==
  /\ Same \in [Keys -> Keys] /\ Hash \in [Keys -> Nat]
  /\ \A j, k \in Keys : Same[j] = Same[k] => Hash[j] = Hash[k]
ASSUME ShiftsAssumption == Shifts \in Nat /\ \A k \in Keys : Hash[k] < TwoTo[5 * Shifts]
ASSUME MinimumAssumption == Minimum \in Nat /\ \E e \in 1 .. Minimum : Minimum = TwoTo[e]
ASSUME SentinelsAssumption ==
  /\ Empty \notin Nat /\ Dummy \notin Nat /\ Empty # Dummy
  /\ Hole \notin [key : Keys, value : Values]

VARIABLES
  indices,   \* the table, a sequence of slots
  entries,   \* the entries in insertion order, a deleted one a Hole
  used,      \* how many of them are live
  answer     \* what the last operation gave back

vars == <<indices, entries, used, answer>>

Entry == [key : Keys, value : Values]

-----------------------------------------------------------------------------
(* The walk: the slots a hash visits in a table of n slots.  It never ends *)
(* in the code; here it goes on until the high bits are gone, which takes  *)
(* Shifts steps, and n steps further, which is once round the table.       *)

Reach(n) == n + Shifts

\* The places of the first i steps, each with what of the hash is left to mix in.
Walked(hash, n) ==
  LET walked[i \in Nat] ==
        IF i = 0
          THEN <<[slot |-> hash % n, perturb |-> hash]>>
          ELSE LET before == walked[i - 1]
                   was == before[i]
                   mixed == was.perturb \div 32
               IN  Append(before, [slot |-> (was.slot * 5 + mixed + 1) % n, perturb |-> mixed])
  IN  walked

Walk(hash, n) ==
  LET places == Walked(hash, n)[Reach(n)] IN [i \in DOMAIN places |-> places[i].slot + 1]

First(S) == CHOOSE i \in S : \A j \in S : i <= j

\* Where a key is, or where it would go: the first tombstone that was passed,
\* or else the empty slot that ended the walk.
Probe(table, es, k) ==
  LET n == Len(table)
      walk == Walk(Hash[k], n)
      Held(i) == table[walk[i]]
      Matches(i) == Held(i) \in DOMAIN es /\ Same[es[Held(i)].key] = Same[k]
      stop == First({i \in DOMAIN walk : Held(i) = Empty \/ Matches(i)})
      reusable == {i \in 1 .. stop : Held(i) = Dummy}
  IN  IF Matches(stop)
        THEN [slot |-> walk[stop], position |-> Held(stop)]
        ELSE [slot |-> walk[IF reusable = {} THEN stop ELSE First(reusable)],
              position |-> Empty]

\* Where the table as it stands has a key.
Lookup(k) ==
  IF indices = << >> THEN [slot |-> 0, position |-> Empty] ELSE Probe(indices, entries, k)

Contains(k) == Lookup(k).position # Empty

-----------------------------------------------------------------------------
(* Room: reserve and rebuild.                                              *)

NewTable == [s \in 1 .. Minimum |-> Empty]

\* usize::next_power_of_two
NextPowerOfTwo(m) == TwoTo[First({e \in 0 .. m : TwoTo[e] >= m})]

\* The entries that are still there, in their order.
Live(es) ==
  LET kept[p \in 0 .. Len(es)] ==
        IF p = 0 THEN << >>
        ELSE IF es[p] = Hole THEN kept[p - 1] ELSE Append(kept[p - 1], es[p])
  IN  kept[Len(es)]

RebuiltSize(live) ==
  LET wanted == (Len(live) + 1) * 3
  IN  NextPowerOfTwo(IF wanted > Minimum THEN wanted ELSE Minimum)

\* The table of n slots that a rebuild files the live entries in.
Filed(live, n) ==
  LET filed[p \in 0 .. Len(live)] ==
        IF p = 0
          THEN [s \in 1 .. n |-> Empty]
          ELSE LET before == filed[p - 1]
                   walk == Walk(Hash[live[p].key], n)
                   open == {i \in DOMAIN walk : before[walk[i]] = Empty}
               IN  [before EXCEPT ![walk[First(open)]] = p]
  IN  filed[Len(live)]

\* mutant: the last empty slot may be taken.
CrowdedFull == Len(entries) + 1 > Len(indices)

\* A third of the table stays empty, tombstones counted as taken.
Crowded == (Len(entries) + 1) * 3 > Len(indices) * 2

\* reserve, which an insert starts with whatever it finds afterwards.
Reserved ==
  CASE indices = << >> -> [table |-> NewTable, entries |-> entries]
    [] indices # << >> /\ Crowded ->
         LET live == Live(entries)
         IN  [table |-> Filed(live, RebuiltSize(live)), entries |-> live]
    [] OTHER -> [table |-> indices, entries |-> entries]

-----------------------------------------------------------------------------
Init ==
  /\ indices = << >>
  /\ entries = << >>
  /\ used = 0
  /\ answer = None

Get(k) ==
  LET p == Lookup(k)
  IN  /\ answer' = IF p.position = Empty THEN None ELSE entries[p.position].value
      /\ UNCHANGED <<indices, entries, used>>

\* The two singletons only name what reserve and probe come to.
Insert(k, v) ==
  \E r \in {Reserved} : \E p \in {Probe(r.table, r.entries, k)} :
    IF p.position # Empty
      THEN /\ answer' = r.entries[p.position].value
           /\ entries' = [r.entries EXCEPT ![p.position].value = v]
           /\ indices' = r.table
           /\ UNCHANGED used
      ELSE /\ answer' = None
           /\ entries' = Append(r.entries, [key |-> k, value |-> v])
           /\ indices' = [r.table EXCEPT ![p.slot] = Len(r.entries) + 1]
           /\ used' = used + 1

\* dict.setdefault
SetDefault(k, v) == IF Contains(k) THEN Get(k) ELSE Insert(k, v)

\* mutant: the slot of a deleted key is empty again.
RemoveToEmpty(k) ==
  LET p == Lookup(k)
  IN  IF p.position = Empty
        THEN answer' = None /\ UNCHANGED <<indices, entries, used>>
        ELSE /\ indices' = [indices EXCEPT ![p.slot] = Empty]
             /\ entries' = [entries EXCEPT ![p.position] = Hole]
             /\ used' = used - 1
             /\ answer' = entries[p.position].value

\* mutant: the entry is taken and the slot goes on pointing at it.
RemoveEntryOnly(k) ==
  LET p == Lookup(k)
  IN  IF p.position = Empty
        THEN answer' = None /\ UNCHANGED <<indices, entries, used>>
        ELSE /\ entries' = [entries EXCEPT ![p.position] = Hole]
             /\ used' = used - 1
             /\ answer' = entries[p.position].value
             /\ UNCHANGED indices

\* mutant: a deleted key is still counted.
RemoveUncounted(k) ==
  LET p == Lookup(k)
  IN  IF p.position = Empty
        THEN answer' = None /\ UNCHANGED <<indices, entries, used>>
        ELSE /\ indices' = [indices EXCEPT ![p.slot] = Dummy]
             /\ entries' = [entries EXCEPT ![p.position] = Hole]
             /\ answer' = entries[p.position].value
             /\ UNCHANGED used

Remove(k) ==
  LET p == Lookup(k)
  IN  IF p.position = Empty
        THEN answer' = None /\ UNCHANGED <<indices, entries, used>>
        ELSE /\ indices' = [indices EXCEPT ![p.slot] = Dummy]
             /\ entries' = [entries EXCEPT ![p.position] = Hole]
             /\ used' = used - 1
             /\ answer' = entries[p.position].value

\* dict.popitem: the last entry that is still there.
PopItem ==
  /\ used > 0
  /\ Remove(Live(entries)[used].key)

Clear == indices' = << >> /\ entries' = << >> /\ used' = 0 /\ answer' = None

Next ==
  \/ \E k \in Keys : Get(k) \/ Remove(k)
  \/ \E k \in Keys, v \in Values : Insert(k, v) \/ SetDefault(k, v)
  \/ PopItem
  \/ Clear

Spec == Init /\ [][Next]_vars

-----------------------------------------------------------------------------
(* The type of the state.                                                  *)
TypeOK ==
  /\ entries \in Seq(Entry \union {Hole})
  /\ indices \in Seq((DOMAIN entries) \union {Empty, Dummy})
  /\ used = Len(Live(entries))
  /\ answer \in Values \union {None}

(* A slot only ever points at a live entry, and a live entry has exactly   *)
(* one slot that points at it (Dict::entry, rebuild).                      *)
SlotsAndEntries ==
  /\ \A s \in DOMAIN indices : indices[s] \in DOMAIN entries => entries[indices[s]] # Hole
  /\ \A p \in DOMAIN entries : entries[p] # Hole =>
       Cardinality({s \in DOMAIN indices : indices[s] = p}) = 1

(* Every walk ends: whatever was inserted and deleted, the slots that a    *)
(* hash visits reach one that nothing was ever put in (Walk::next, "a      *)
(* table always has an empty slot in it").                                 *)
WalksEnd ==
  indices # << >> => \A k \in Keys :
    LET walk == Walk(Hash[k], Len(indices))
    IN  \E i \in DOMAIN walk : indices[walk[i]] = Empty

(* The dict is the ordered map the language promises: a key that is in it  *)
(* is found wherever the tombstones and the rebuilds left it, overwriting  *)
(* moves nothing, and the order is the order of insertion.                 *)
Abstract == INSTANCE AbstractDict WITH order <- Live(entries)
RefinesAbstract == Abstract!Spec
=============================================================================

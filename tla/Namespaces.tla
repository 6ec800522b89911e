----------------------------- MODULE Namespaces -----------------------------
(***************************************************************************)
(* Where a module's globals are while a program runs (vm.rs, module.rs).   *)
(*                                                                         *)
(* A namespace is a map.  While code of a module runs, the names that      *)
(* code mentions are taken out of the map and laid out in slots, numbered  *)
(* by the name table of the compiled unit.  A call into another module     *)
(* puts them back and lays out the callee's (arrive), and the return does  *)
(* the reverse (depart).  An attribute access on a module object has to    *)
(* find the binding in whichever of the two places it is.                  *)
(*                                                                         *)
(* A unit is one compiled module: a script given to Vm::run or a file an   *)
(* import reads.  A slot number is an index into a unit's name table.      *)
(***************************************************************************)
EXTENDS Naturals, Sequences

CONSTANTS
  Spaces,     \* namespaces that can be made, Main among them
  Main,       \* the namespace of __main__
  Names,      \* global names
  Values,     \* values a name can be bound to
  Unbound,    \* what a slot or a map holds for a name that is not bound
  Scripts,    \* the units given to successive calls of Vm::run on one machine
  Files,      \* the units behind the .py files an import can find
  NoFile,     \* the frame is not the body of an imported file
  NoSpace,    \* sys.modules has no entry
  Idle,       \* the empty table of a machine that runs nothing
  Table,      \* Table[u]: the name table of u, a sequence of names
  Panic,      \* the answer to an index past the end of the open table
  Limit       \* how many frames there may be, which vm.rs sets to 1000

ScriptUnits == {Scripts[k] : k \in DOMAIN Scripts}
Units == ScriptUnits \union Files

ASSUME SpacesAssumption == Main \in Spaces /\ NoSpace \notin Spaces
ASSUME UnitsAssumption ==
  /\ Scripts \in Seq(ScriptUnits) /\ Len(Scripts) > 0
  /\ NoFile \notin Files /\ Idle \notin Units
ASSUME ValuesAssumption == Unbound \notin Values /\ Panic \notin Values
ASSUME PanicAssumption == Panic # Unbound
ASSUME TableAssumption ==
  /\ Table \in [Units \union {Idle} -> Seq(Names)]
  /\ Table[Idle] = << >>
ASSUME LimitAssumption == Limit \in Nat \ {0}

VARIABLES
  home,       \* the namespace whose code is running
  table,      \* the unit whose name table the slots are numbered against
  slots,      \* the slots, by the name each has in that table
  map,        \* the maps: map[s][n]
  stack,      \* the frames, innermost last
  units,      \* units[s]: the units that have run in s, whose functions exist
  registry,   \* sys.modules: the namespace each file is registered under
  status,     \* how far the body that fills a namespace has come
  runs,       \* how many scripts have been started
  last        \* the last access the program made, and what it was answered

vars == <<home, table, slots, map, stack, units, registry, status, runs, last>>

Bound == Values \union {Unbound}
Empty == [n \in Names |-> Unbound]
Mentions(u) == {Table[u][i] : i \in DOMAIN Table[u]}

\* A frame: the namespace and the unit of its code, what arrive moved out of
\* the way to run it, and the file whose body it is.
Frame == [space : Spaces, unit : Units, crossed : BOOLEAN,
          home : Spaces, table : Units, file : Files \union {NoFile}]

(* The type of the state.  The frames stay within the limit that a call     *)
(* checks before it is made (Vm::enter).                                   *)
TypeOK ==
  /\ home \in Spaces
  /\ table \in Units \union {Idle}
  /\ slots \in [Names -> Bound]
  /\ map \in [Spaces -> [Names -> Bound]]
  /\ stack \in Seq(Frame) /\ Len(stack) <= Limit
  /\ units \in [Spaces -> SUBSET Units]
  /\ registry \in [Files -> Spaces \union {NoSpace}]
  /\ status \in [Spaces -> {"absent", "loading", "loaded", "failed"}]
  /\ runs \in 1 .. Len(Scripts)

Top == stack[Len(stack)]
Running == stack # << >>

-----------------------------------------------------------------------------
(* Globals: laying a namespace out and putting it back.                    *)

\* Globals::open takes the names of a unit out of a map ...
Opened(u, from) == [n \in Names |-> IF n \in Mentions(u) THEN from[n] ELSE Unbound]
\* mutant: the names are copied rather than taken.
EmptiedOfNothing(u, from) == from

\* ... leaving this behind.
Emptied(u, from) == [n \in Names |-> IF n \in Mentions(u) THEN Unbound ELSE from[n]]
\* Globals::close writes back the slots that are bound, and only those.
Closed(into) == [n \in Names |-> IF slots[n] # Unbound THEN slots[n] ELSE into[n]]

\* The slots of u laid out from namespace s, after the open ones went back.
Swap(u, s) ==
  LET closed == [map EXCEPT ![home] = Closed(@)]
  IN  /\ slots' = Opened(u, closed[s])
      /\ map' = [closed EXCEPT ![s] = Emptied(u, @)]
      /\ home' = s
      /\ table' = u

\* mutant: the recursion limit is checked one frame too late.
ArriveUnchecked(u, s, file) ==
  LET crossed == s # home
  IN  /\ Len(stack) <= Limit
      /\ stack' = Append(stack, [space |-> s, unit |-> u, crossed |-> crossed,
                                 home |-> home, table |-> table, file |-> file])
      /\ IF crossed THEN Swap(u, s) ELSE UNCHANGED <<home, table, slots, map>>

\* Enter a frame for unit u in namespace s.  The test is on the namespace, not
\* on the unit: code of the namespace already running finds its slots as they
\* are.  At the limit the call is a RecursionError and nothing has changed.
Arrive(u, s, file) ==
  LET crossed == s # home
  IN  /\ Len(stack) < Limit
      /\ stack' = Append(stack, [space |-> s, unit |-> u, crossed |-> crossed,
                                 home |-> home, table |-> table, file |-> file])
      /\ IF crossed THEN Swap(u, s) ELSE UNCHANGED <<home, table, slots, map>>

\* mutant: depart lays out the callee's table again.
DepartSameTable ==
  IF Top.crossed THEN Swap(Top.unit, Top.home)
                 ELSE UNCHANGED <<home, table, slots, map>>

Depart ==
  IF Top.crossed THEN Swap(Top.table, Top.home)
                 ELSE UNCHANGED <<home, table, slots, map>>

-----------------------------------------------------------------------------
(* Calls, returns and runs.                                                *)

\* Call a function of any unit that has run in any namespace, or step one of
\* its generators: both bracket the frame with arrive and depart.
Call(s, u) ==
  /\ Running
  /\ u \in units[s]
  /\ Arrive(u, s, NoFile)
  /\ UNCHANGED <<units, registry, status, runs, last>>

\* mutant: the body of an import that raised stays in sys.modules.
LeaveKept(ok) ==
  /\ Len(stack) > 1
  /\ Depart
  /\ stack' = SubSeq(stack, 1, Len(stack) - 1)
  /\ status' = IF Top.file = NoFile THEN status
               ELSE [status EXCEPT ![Top.space] = IF ok THEN "loaded" ELSE "failed"]
  /\ UNCHANGED <<units, registry, runs, last>>

\* A frame that is not the outermost one is left, by a return or by an
\* exception.  The body of an imported file also settles what the import was
\* for: loaded, or forgotten so that the next import runs the file again.
Leave(ok) ==
  /\ Len(stack) > 1
  /\ Depart
  /\ stack' = SubSeq(stack, 1, Len(stack) - 1)
  /\ IF Top.file = NoFile
       THEN UNCHANGED <<registry, status>>
       ELSE /\ status' = [status EXCEPT ![Top.space] = IF ok THEN "loaded" ELSE "failed"]
            /\ registry' = IF ok THEN registry
                                 ELSE [registry EXCEPT ![Top.file] = NoSpace]
  /\ UNCHANGED <<units, runs, last>>

\* The outermost frame is left, and what it bound goes back into the map.
Finish ==
  /\ Len(stack) = 1
  /\ stack' = << >>
  /\ map' = [map EXCEPT ![home] = Closed(@)]
  /\ slots' = Empty
  /\ table' = Idle
  /\ UNCHANGED <<home, units, registry, status, runs, last>>

\* The embedder runs the next script on the same machine.
Run ==
  /\ ~Running
  /\ runs < Len(Scripts)
  /\ LET u == Scripts[runs + 1]
     IN  /\ slots' = Opened(u, map[home])
         /\ map' = [map EXCEPT ![home] = Emptied(u, @)]
         /\ table' = u
         /\ units' = [units EXCEPT ![home] = @ \union {u}]
         /\ stack' = <<[space |-> home, unit |-> u, crossed |-> FALSE,
                        home |-> home, table |-> u, file |-> NoFile]>>
  /\ runs' = runs + 1
  /\ UNCHANGED <<home, registry, status, last>>

\* Import a file that has no entry: a fresh namespace, registered before the
\* body runs so that a circular import finds it.
Import(f, s) ==
  /\ Running
  /\ registry[f] = NoSpace
  /\ status[s] = "absent"
  /\ registry' = [registry EXCEPT ![f] = s]
  /\ status' = [status EXCEPT ![s] = "loading"]
  /\ units' = [units EXCEPT ![s] = {f}]
  /\ Arrive(f, s, f)
  /\ UNCHANGED <<runs, last>>

\* del sys.modules[f], which makes the next import run the file again.
DeleteEntry(f) ==
  /\ Running
  /\ registry[f] # NoSpace
  /\ registry' = [registry EXCEPT ![f] = NoSpace]
  /\ UNCHANGED <<home, table, slots, map, stack, units, status, runs, last>>

-----------------------------------------------------------------------------
(* Access from inside a module: an index into whatever table is open.      *)

Answer(op, s, n, v) == [op |-> op, space |-> s, name |-> n, value |-> v]
InTable(i) == i \in DOMAIN Table[table]

LoadGlobal(i) ==
  LET n == Table[Top.unit][i]
      v == IF InTable(i) THEN slots[Table[table][i]] ELSE Panic
  IN  /\ last' = Answer("load", Top.space, n, v)
      /\ UNCHANGED <<home, table, slots, map, stack, units, registry, status, runs>>

\* StoreGlobal binds, and DeleteGlobal is a store of Unbound to a bound name.
\* An index past the table is dropped without a word.
StoreGlobal(i, v) ==
  LET n == Table[Top.unit][i]
  IN  /\ v = Unbound => InTable(i) /\ slots[Table[table][i]] # Unbound
      /\ slots' = IF InTable(i) THEN [slots EXCEPT ![Table[table][i]] = v] ELSE slots
      /\ last' = Answer("store", Top.space, n, v)
      /\ UNCHANGED <<home, table, map, stack, units, registry, status, runs>>

(* Access from outside, through a module object: m.x.                      *)

LaidOut(s, n) == s = home /\ n \in Mentions(table)

\* mutant: the map is asked whatever module is running.
InModuleMap(s, n) == map[s][n]

\* in_module: the slot if it is laid out and bound, and the map otherwise.
InModule(s, n) ==
  IF LaidOut(s, n) /\ slots[n] # Unbound THEN slots[n] ELSE map[s][n]

\* The name in an attribute access is a number too, into the same open table,
\* and one that is past its end is a panic.
LoadAttr(s, i) ==
  /\ last' = Answer("load", s, Table[Top.unit][i],
                    IF InTable(i) THEN InModule(s, Table[table][i]) ELSE Panic)
  /\ UNCHANGED <<home, table, slots, map, stack, units, registry, status, runs>>

StoreAttr(s, i, v) ==
  LET n == Table[table][i]
  IN  /\ InTable(i)
      /\ v = Unbound => (IF LaidOut(s, n) THEN slots[n] ELSE map[s][n]) # Unbound
      /\ IF LaidOut(s, n)
           THEN slots' = [slots EXCEPT ![n] = v] /\ UNCHANGED map
           ELSE map' = [map EXCEPT ![s][n] = v] /\ UNCHANGED slots
      /\ last' = Answer("store", s, Table[Top.unit][i], v)
      /\ UNCHANGED <<home, table, stack, units, registry, status, runs>>

-----------------------------------------------------------------------------
Init ==
  LET u == Scripts[1]
  IN  /\ home = Main
      /\ table = u
      /\ slots = Empty
      /\ map = [s \in Spaces |-> Empty]
      /\ stack = <<[space |-> Main, unit |-> u, crossed |-> FALSE,
                    home |-> Main, table |-> u, file |-> NoFile]>>
      /\ units = [s \in Spaces |-> IF s = Main THEN {u} ELSE {}]
      /\ registry = [f \in Files |-> NoSpace]
      /\ status = [s \in Spaces |-> IF s = Main THEN "loaded" ELSE "absent"]
      /\ runs = 1
      /\ last = [op |-> "none"]

Access ==
  /\ Running
  /\ \E i \in DOMAIN Table[Top.unit] :
       \/ LoadGlobal(i)
       \/ \E v \in Bound : StoreGlobal(i, v)
       \/ \E s \in Spaces :
            /\ status[s] # "absent"
            /\ \/ LoadAttr(s, i)
               \/ \E v \in Bound : StoreAttr(s, i, v)

Next ==
  \/ \E s \in Spaces, u \in Units : Call(s, u)
  \/ \E ok \in BOOLEAN : Leave(ok)
  \/ Finish
  \/ Run
  \/ \E f \in Files, s \in Spaces : Import(f, s)
  \/ \E f \in Files : DeleteEntry(f)
  \/ Access

Spec == Init /\ [][Next]_vars

-----------------------------------------------------------------------------
(* The slots are numbered against the table of the unit whose code is      *)
(* running, so that the number in an instruction is the name the compiler  *)
(* meant by it (vm.rs, "The namespace").                                   *)
OwnTable == Running => home = Top.space /\ table = Top.unit

(* A laid out name is in its slot and nowhere else: the map is empty of    *)
(* everything the running code mentions, which is what lets in_module fall *)
(* back on the map, and a slot is never held for a name outside the table. *)
OneHome ==
  \A n \in Names :
    /\ n \in Mentions(table) => map[home][n] = Unbound
    /\ n \notin Mentions(table) => slots[n] = Unbound

(* Whatever sys.modules hands to an import is a module whose body finished *)
(* or one whose body is still on the stack (a circular import), never one  *)
(* whose body raised (Modules::forget, module.rs).                         *)
NoHalfModule ==
  \A f \in Files : registry[f] # NoSpace =>
    \/ status[registry[f]] = "loaded"
    \/ \E k \in DOMAIN stack : stack[k].space = registry[f] /\ stack[k].file = f

(* The bindings as a program sees them, wherever they happen to be held.   *)
Bindings ==
  [s \in Spaces |-> [n \in Names |->
     IF s = home /\ n \in Mentions(table) THEN slots[n] ELSE map[s][n]]]

Abstract == INSTANCE AbstractNames WITH bind <- Bindings

(* Calls, returns, imports and runs never change or lose a binding, so a   *)
(* script finds what the one before it bound (Vm::run), and an access      *)
(* reads or writes the binding it names and no other: m.x from outside and *)
(* x from inside are one binding (module.rs).                              *)
RefinesAbstract == Abstract!Spec
=============================================================================

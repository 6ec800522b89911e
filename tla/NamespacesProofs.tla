-------------------------- MODULE NamespacesProofs --------------------------
(***************************************************************************)
(* What is true of Namespaces for any modules, names, values and limit.    *)
(*                                                                         *)
(* First what holds of any machine: the type, and that a laid out name has *)
(* one home.  Then what holds of a machine that is given one script, where *)
(* a namespace has only one unit in it: the open table is the running      *)
(* code's own, and the machine implements AbstractNames.                   *)
(***************************************************************************)
EXTENDS Namespaces, TLAPS

(* While code runs, the open table is a unit's, so what arrive saves in a  *)
(* frame is something depart can lay out again.                            *)
OpenTable == Running => table \in Units

Base == TypeOK /\ OpenTable /\ OneHome

USE DEF Bound

-----------------------------------------------------------------------------
(* What moving from one module to another does.                            *)

LEMMA SwapTypes ==
  ASSUME TypeOK, NEW u \in Units, NEW s \in Spaces, Swap(u, s)
  PROVE  /\ home' \in Spaces
         /\ table' \in Units
         /\ slots' \in [Names -> Bound]
         /\ map' \in [Spaces -> [Names -> Bound]]
<1> DEFINE closed == [map EXCEPT ![home] = Closed(@)]
<1>1. map' = [closed EXCEPT ![s] = Emptied(u, @)] /\ slots' = Opened(u, closed[s]) /\ home' = s /\ table' = u
  BY DEF Swap
<1>2. closed \in [Spaces -> [Names -> Bound]]
  BY DEF TypeOK, Closed
<1> HIDE DEF closed
<1>3. Opened(u, closed[s]) \in [Names -> Bound] /\ Emptied(u, closed[s]) \in [Names -> Bound]
  BY <1>2 DEF Opened, Emptied
<1> QED BY <1>1, <1>2, <1>3

LEMMA SwapOneHome ==
  ASSUME TypeOK, NEW u \in Units, NEW s \in Spaces, Swap(u, s)
  PROVE  OneHome'
<1> DEFINE closed == [map EXCEPT ![home] = Closed(@)]
<1>1. map' = [closed EXCEPT ![s] = Emptied(u, @)]
  BY DEF Swap
<1>2. /\ slots' = Opened(u, closed[s]) /\ home' = s /\ table' = u
  BY DEF Swap
<1>3. closed \in [Spaces -> [Names -> Bound]]
  BY DEF TypeOK, Closed
<1> HIDE DEF closed
<1>4. map'[s] = Emptied(u, closed[s])
  BY <1>1, <1>3
<1> QED
  BY <1>2, <1>4 DEF OneHome, Opened, Emptied, Mentions

(* Putting a namespace back and laying another out changes no binding.     *)
LEMMA SwapBindings ==
  ASSUME TypeOK, OneHome, NEW u \in Units, NEW s \in Spaces, Swap(u, s)
  PROVE  Bindings' = Bindings
<1> DEFINE closed == [map EXCEPT ![home] = Closed(@)]
<1>1. map' = [closed EXCEPT ![s] = Emptied(u, @)]
  BY DEF Swap
<1>2. /\ slots' = Opened(u, closed[s]) /\ home' = s /\ table' = u
  BY DEF Swap
<1>3. closed \in [Spaces -> [Names -> Bound]]
  BY DEF TypeOK, Closed
<1>4. ASSUME NEW t \in Spaces, NEW n \in Names
      PROVE  closed[t][n] = IF t = home /\ n \in Mentions(table) THEN slots[n] ELSE map[t][n]
  BY DEF TypeOK, OneHome, Closed
<1> HIDE DEF closed
<1>5. ASSUME NEW t \in Spaces, NEW n \in Names
      PROVE  (IF t = home' /\ n \in Mentions(table)' THEN slots'[n] ELSE map'[t][n]) = closed[t][n]
  <2>1. Mentions(table)' = Mentions(u)
    BY <1>2 DEF Mentions
  <2>2. CASE t = s
    <3>1. map'[t][n] = IF n \in Mentions(u) THEN Unbound ELSE closed[t][n]
      BY <1>1, <1>3, <2>2 DEF Emptied
    <3>2. slots'[n] = IF n \in Mentions(u) THEN closed[t][n] ELSE Unbound
      BY <1>2, <2>2 DEF Opened
    <3> QED BY <1>2, <2>1, <2>2, <3>1, <3>2
  <2>3. CASE t # s
    BY <1>1, <1>2, <1>3, <2>3
  <2> QED BY <2>2, <2>3
<1> QED
  BY <1>4, <1>5 DEF Bindings

-----------------------------------------------------------------------------
(* The type, and one home for every name, on any machine.                  *)

LEMMA BaseInit == Init => Base
<1> SUFFICES ASSUME Init PROVE Base
  OBVIOUS
<1>1. Scripts[1] \in Units /\ 1 \in 1 .. Len(Scripts)
  BY UnitsAssumption DEF Units, ScriptUnits
<1>2. stack \in Seq(Frame) /\ Len(stack) = 1
  BY <1>1, SpacesAssumption, SMT DEF Init, Frame
<1>3. TypeOK
  BY <1>1, <1>2, SpacesAssumption, LimitAssumption DEF Init, TypeOK, Empty
<1>4. OneHome
  BY SpacesAssumption DEF Init, OneHome, Empty
<1>5. OpenTable
  BY <1>1 DEF Init, OpenTable
<1> QED BY <1>3, <1>4, <1>5 DEF Base

LEMMA ArriveKeepsBase ==
  ASSUME Base, Running, NEW u \in Units, NEW s \in Spaces, NEW f \in Files \union {NoFile},
         Arrive(u, s, f)
  PROVE  /\ home' \in Spaces
         /\ table' \in Units
         /\ slots' \in [Names -> Bound]
         /\ map' \in [Spaces -> [Names -> Bound]]
         /\ stack' \in Seq(Frame) /\ Len(stack') <= Limit
         /\ OneHome'
         /\ OpenTable'
<1> USE DEF Base
<1>1. stack' \in Seq(Frame) /\ Len(stack') <= Limit
  <2>1. [space |-> s, unit |-> u, crossed |-> s # home,
         home |-> home, table |-> table, file |-> f] \in Frame
    BY DEF TypeOK, OpenTable, Frame
  <2> QED BY <2>1, LimitAssumption DEF Arrive, TypeOK
<1>2. CASE s # home
  <2>1. Swap(u, s) BY <1>2 DEF Arrive
  <2> QED BY <1>1, <2>1, SwapTypes, SwapOneHome DEF OpenTable
<1>3. CASE s = home
  <2>1. UNCHANGED <<home, table, slots, map>> BY <1>3 DEF Arrive
  <2>2. OneHome' BY <2>1 DEF OneHome, Mentions
  <2> QED BY <1>1, <2>1, <2>2 DEF TypeOK, OpenTable
<1> QED BY <1>2, <1>3

LEMMA DepartKeepsBase ==
  ASSUME Base, Running, Depart
  PROVE  /\ home' \in Spaces
         /\ table' \in Units
         /\ slots' \in [Names -> Bound]
         /\ map' \in [Spaces -> [Names -> Bound]]
         /\ OneHome'
<1> USE DEF Base
<1>1. Top \in Frame
  BY DEF TypeOK, Running, Top
<1>2. CASE Top.crossed
  <2>1. Swap(Top.table, Top.home) BY <1>2 DEF Depart
  <2>2. Top.table \in Units /\ Top.home \in Spaces BY <1>1 DEF Frame
  <2> QED BY <2>1, <2>2, SwapTypes, SwapOneHome
<1>3. CASE ~Top.crossed
  <2>1. UNCHANGED <<home, table, slots, map>> BY <1>3 DEF Depart
  <2>2. OneHome' BY <2>1 DEF OneHome, Mentions
  <2> QED BY <2>1, <2>2 DEF TypeOK, OpenTable
<1> QED BY <1>2, <1>3

LEMMA AccessKeepsBase == Base /\ Access => Base'
<1> SUFFICES ASSUME Base, Access PROVE Base'
  OBVIOUS
<1> USE DEF Base
<1>1. UNCHANGED <<home, table, stack, units, registry, status, runs>>
  BY DEF Access, LoadGlobal, StoreGlobal, LoadAttr, StoreAttr
<1>2. CASE UNCHANGED <<slots, map>>
  BY <1>1, <1>2 DEF TypeOK, OpenTable, OneHome, Running, Mentions
<1>3. ASSUME NEW i \in DOMAIN Table[Top.unit], NEW v \in Bound, StoreGlobal(i, v), InTable(i)
      PROVE  Base'
  <2>1. Table[table] \in Seq(Names) /\ Table[table][i] \in Mentions(table)
    BY <1>3, TableAssumption DEF TypeOK, Mentions, InTable
  <2>2. Table[table][i] \in Names
    BY <1>3, <2>1 DEF InTable
  <2>3. slots' = [slots EXCEPT ![Table[table][i]] = v] /\ map' = map
    BY <1>3 DEF StoreGlobal
  <2>4. slots' \in [Names -> Bound]
    BY <2>2, <2>3 DEF TypeOK
  <2>5. OneHome'
    BY <1>1, <2>1, <2>2, <2>3 DEF OneHome, Mentions, TypeOK
  <2> QED BY <1>1, <2>3, <2>4, <2>5 DEF TypeOK, OpenTable, Running
<1>4. ASSUME NEW s \in Spaces, NEW i \in DOMAIN Table[Top.unit], NEW v \in Bound,
             StoreAttr(s, i, v)
      PROVE  Base'
  <2> DEFINE n == Table[table][i]
  <2>1. n \in Names
    BY <1>4, TableAssumption DEF StoreAttr, InTable, TypeOK
  <2>2. CASE LaidOut(s, n)
    <3>1. slots' = [slots EXCEPT ![n] = v] /\ map' = map
      BY <1>4, <2>2 DEF StoreAttr
    <3> HIDE DEF n
    <3>2. slots' \in [Names -> Bound] /\ OneHome'
      BY <1>1, <2>1, <2>2, <3>1 DEF OneHome, Mentions, TypeOK, LaidOut
    <3> QED BY <1>1, <3>1, <3>2 DEF TypeOK, OpenTable, Running
  <2>3. CASE ~LaidOut(s, n)
    <3>1. map' = [map EXCEPT ![s][n] = v] /\ slots' = slots
      BY <1>4, <2>3 DEF StoreAttr
    <3> HIDE DEF n
    <3>2. map' \in [Spaces -> [Names -> Bound]]
      BY <2>1, <3>1 DEF TypeOK
    <3>3. OneHome'
      BY <1>1, <2>1, <2>3, <3>1 DEF OneHome, Mentions, TypeOK, LaidOut
    <3> QED BY <1>1, <3>1, <3>2, <3>3 DEF TypeOK, OpenTable, Running
  <2> QED BY <2>2, <2>3
<1> QED
  BY <1>1, <1>2, <1>3, <1>4 DEF Access, LoadGlobal, StoreGlobal, LoadAttr

LEMMA BaseStep == Base /\ [Next]_vars => Base'
<1> SUFFICES ASSUME Base, [Next]_vars PROVE Base'
  OBVIOUS
<1> USE DEF Base
<1>1. ASSUME NEW s \in Spaces, NEW u \in Units, Call(s, u) PROVE Base'
  <2>1. Running /\ Arrive(u, s, NoFile) /\ UNCHANGED <<units, registry, status, runs, last>>
    BY <1>1 DEF Call
  <2> QED BY <2>1, ArriveKeepsBase DEF TypeOK
<1>2. ASSUME NEW ok \in BOOLEAN, Leave(ok) PROVE Base'
  <2>1. Running /\ Depart /\ Top \in Frame
    BY <1>2 DEF Leave, Running, Top, TypeOK
  <2>2. stack' \in Seq(Frame) /\ Len(stack') <= Limit
    BY <1>2, LimitAssumption DEF Leave, TypeOK
  <2>3. registry' \in [Files -> Spaces \union {NoSpace}]
        /\ status' \in [Spaces -> {"absent", "loading", "loaded", "failed"}]
    BY <1>2, <2>1 DEF Leave, TypeOK, Frame
  <2>4. UNCHANGED <<units, runs>>
    BY <1>2 DEF Leave
  <2> QED BY <2>1, <2>2, <2>3, <2>4, DepartKeepsBase DEF TypeOK, OpenTable
<1>3. CASE Finish
  <2>1. /\ stack' = << >> /\ slots' = Empty /\ table' = Idle
        /\ map' = [map EXCEPT ![home] = Closed(@)]
        /\ UNCHANGED <<home, units, registry, status, runs>>
    BY <1>3 DEF Finish
  <2>2. TypeOK'
    BY <2>1, LimitAssumption DEF TypeOK, Empty, Closed
  <2>3. OneHome'
    BY <2>1, TableAssumption DEF OneHome, Mentions, Empty
  <2> QED BY <2>1, <2>2, <2>3 DEF OpenTable, Running
<1>4. CASE Run
  <2> DEFINE u == Scripts[runs + 1]
  <2>1. u \in Units /\ runs + 1 \in 1 .. Len(Scripts)
    BY <1>4, UnitsAssumption DEF Run, TypeOK, Units, ScriptUnits
  <2>2. /\ slots' = Opened(u, map[home]) /\ table' = u /\ runs' = runs + 1
        /\ map' = [map EXCEPT ![home] = Emptied(u, @)]
        /\ units' = [units EXCEPT ![home] = @ \union {u}]
        /\ stack' = <<[space |-> home, unit |-> u, crossed |-> FALSE,
                       home |-> home, table |-> u, file |-> NoFile]>>
        /\ UNCHANGED <<home, registry, status>>
    BY <1>4 DEF Run
  <2> HIDE DEF u
  <2>3. stack' \in Seq(Frame) /\ Len(stack') = 1
    BY <2>1, <2>2 DEF Frame, TypeOK
  <2>4. TypeOK'
    BY <2>1, <2>2, <2>3, LimitAssumption DEF TypeOK, Opened, Emptied
  <2>5. OneHome'
    BY <2>1, <2>2 DEF OneHome, Mentions, Opened, Emptied, TypeOK
  <2> QED BY <2>1, <2>2, <2>4, <2>5 DEF OpenTable
<1>5. ASSUME NEW f \in Files, NEW s \in Spaces, Import(f, s) PROVE Base'
  <2>1. /\ Running /\ Arrive(f, s, f) /\ f \in Units
        /\ registry' = [registry EXCEPT ![f] = s]
        /\ status' = [status EXCEPT ![s] = "loading"]
        /\ units' = [units EXCEPT ![s] = {f}]
        /\ runs' = runs
    BY <1>5 DEF Import, Units
  <2>2. registry' \in [Files -> Spaces \union {NoSpace}]
        /\ status' \in [Spaces -> {"absent", "loading", "loaded", "failed"}]
        /\ units' \in [Spaces -> SUBSET Units]
    BY <2>1 DEF TypeOK
  <2> QED BY <2>1, <2>2, ArriveKeepsBase DEF TypeOK
<1>6. ASSUME NEW f \in Files, DeleteEntry(f) PROVE Base'
  BY <1>6 DEF DeleteEntry, TypeOK, OpenTable, OneHome, Running, Mentions
<1>7. CASE Access
  BY <1>7, AccessKeepsBase
<1>8. CASE UNCHANGED vars
  BY <1>8 DEF vars, TypeOK, OpenTable, OneHome, Running, Mentions
<1> QED
  BY <1>1, <1>2, <1>3, <1>4, <1>5, <1>6, <1>7, <1>8 DEF Next

LEMMA BaseInvariant == Spec => []Base
  BY BaseInit, BaseStep, PTL DEF Spec

(* The state keeps its type: in particular the frames stay within the     *)
(* limit, whatever calls, steps of generators and imports nest.            *)
THEOREM TypeCorrect == Spec => []TypeOK
  BY BaseInvariant, PTL DEF Base

(* A laid out name is in its slot and nowhere else, for any number of      *)
(* scripts, modules and nested calls between them.                         *)
THEOREM NamesHaveOneHome == Spec => []OneHome
  BY BaseInvariant, PTL DEF Base

-----------------------------------------------------------------------------
(* What sys.modules hands out, on any machine.                             *)

\* The outermost frame is a script's.
ScriptFirst == Running => stack[1].file = NoFile

\* A body on the stack is what its namespace waits for, and the only one.
BodiesLoad ==
  \A k \in DOMAIN stack : stack[k].file # NoFile =>
    /\ status[stack[k].space] = "loading"
    /\ \A j \in DOMAIN stack :
         stack[j].file # NoFile /\ stack[j].space = stack[k].space => j = k

Importing == ScriptFirst /\ BodiesLoad /\ NoHalfModule

LEMMA ImportingInit == Init => Importing
<1> SUFFICES ASSUME Init PROVE Importing
  OBVIOUS
<1>1. DOMAIN stack = {1} /\ stack[1].file = NoFile
  BY DEF Init
<1>2. \A f \in Files : registry[f] = NoSpace
  BY DEF Init
<1> QED
  BY <1>1, <1>2 DEF Importing, ScriptFirst, BodiesLoad, NoHalfModule

\* Arrive adds one frame, and changes none of the others.
LEMMA ArriveAdds ==
  ASSUME TypeOK, NEW u, NEW s, NEW f, Arrive(u, s, f)
  PROVE  /\ DOMAIN stack' = DOMAIN stack \union {Len(stack) + 1}
         /\ \A k \in DOMAIN stack : stack'[k] = stack[k] /\ k # Len(stack) + 1
         /\ stack'[Len(stack) + 1].file = f /\ stack'[Len(stack) + 1].space = s
  BY DEF Arrive, TypeOK

\* A body that is left has settled what its namespace waited for: by then its
\* entry, if it still is that one, is loaded or gone.
LEMMA LeaveKeepsImporting ==
  ASSUME Base, Importing, NEW ok \in BOOLEAN, Leave(ok)
  PROVE  Importing'
<1> USE DEF Base, Importing
<1>1. /\ Len(stack) > 1 /\ Len(stack) \in Nat /\ Len(stack) \in DOMAIN stack
      /\ stack' = SubSeq(stack, 1, Len(stack) - 1)
      /\ Top = stack[Len(stack)] /\ Top \in Frame
  BY DEF Leave, TypeOK, Top
<1>2. /\ DOMAIN stack' = DOMAIN stack \ {Len(stack)} /\ 1 \in DOMAIN stack'
      /\ \A k \in DOMAIN stack' : k \in DOMAIN stack /\ k # Len(stack) /\ stack'[k] = stack[k]
  BY <1>1 DEF TypeOK
<1>3. ScriptFirst'
  BY <1>1, <1>2 DEF ScriptFirst, Running
<1>4. CASE Top.file = NoFile
  <2>1. UNCHANGED <<registry, status>>
    BY <1>4 DEF Leave
  <2>2. BodiesLoad'
    BY <1>2, <2>1 DEF BodiesLoad
  <2>3. NoHalfModule'
    <3> SUFFICES ASSUME NEW f \in Files, registry[f] # NoSpace
                 PROVE  \/ status[registry[f]] = "loaded"
                        \/ \E k \in DOMAIN stack' : stack'[k].space = registry[f] /\ stack'[k].file = f
      BY <2>1 DEF NoHalfModule
    <3>1. CASE status[registry[f]] = "loaded"
      BY <3>1
    <3>2. ASSUME NEW k \in DOMAIN stack, stack[k].space = registry[f], stack[k].file = f
          PROVE  \E j \in DOMAIN stack' : stack'[j].space = registry[f] /\ stack'[j].file = f
      BY <1>1, <1>2, <1>4, <3>2, UnitsAssumption
    <3> QED BY <3>1, <3>2 DEF NoHalfModule
  <2> QED BY <1>3, <2>2, <2>3
<1>5. CASE Top.file # NoFile
  <2>1. /\ Top.file \in Files /\ Top.space \in Spaces
        /\ status' = [status EXCEPT ![Top.space] = IF ok THEN "loaded" ELSE "failed"]
        /\ registry' = IF ok THEN registry ELSE [registry EXCEPT ![Top.file] = NoSpace]
    BY <1>1, <1>5 DEF Leave, Frame
  <2>2. status[Top.space] = "loading"
    BY <1>1, <1>5 DEF BodiesLoad
  <2>3. ASSUME NEW k \in DOMAIN stack', stack'[k].file # NoFile
        PROVE  stack[k].space # Top.space
    BY <1>1, <1>2, <1>5, <2>3 DEF BodiesLoad
  <2>4. BodiesLoad'
    BY <1>2, <2>1, <2>3 DEF BodiesLoad, TypeOK
  <2>5. NoHalfModule'
    <3> SUFFICES ASSUME NEW f \in Files, registry'[f] # NoSpace
                 PROVE  \/ status'[registry'[f]] = "loaded"
                        \/ \E k \in DOMAIN stack' : stack'[k].space = registry'[f] /\ stack'[k].file = f
      BY DEF NoHalfModule
    <3>1. registry'[f] = registry[f] /\ (~ok => f # Top.file) /\ registry[f] \in Spaces
      BY <2>1 DEF TypeOK
    <3>2. CASE status[registry[f]] = "loaded"
      BY <2>1, <2>2, <3>1, <3>2 DEF TypeOK
    <3>3. ASSUME NEW k \in DOMAIN stack, stack[k].space = registry[f], stack[k].file = f
          PROVE  \/ status'[registry'[f]] = "loaded"
                 \/ \E j \in DOMAIN stack' : stack'[j].space = registry'[f] /\ stack'[j].file = f
      <4>1. CASE k = Len(stack)
        BY <1>1, <2>1, <3>1, <3>3, <4>1 DEF TypeOK
      <4>2. CASE k # Len(stack)
        BY <1>2, <3>1, <3>3, <4>2
      <4> QED BY <4>1, <4>2
    <3> QED BY <3>1, <3>2, <3>3 DEF NoHalfModule
  <2> QED BY <1>3, <2>4, <2>5
<1> QED BY <1>4, <1>5

\* An import registers its namespace together with the body that fills it.
LEMMA ImportKeepsImporting ==
  ASSUME Base, Importing, NEW f \in Files, NEW s \in Spaces, Import(f, s)
  PROVE  Importing'
<1> USE DEF Base, Importing
<1> DEFINE top == Len(stack) + 1
<1>1. /\ DOMAIN stack' = DOMAIN stack \union {top}
      /\ \A k \in DOMAIN stack : stack'[k] = stack[k] /\ k # top
      /\ stack'[top].file = f /\ stack'[top].space = s
  BY ArriveAdds DEF Import
<1>2. /\ Running /\ status[s] = "absent" /\ registry[f] = NoSpace
      /\ registry' = [registry EXCEPT ![f] = s]
      /\ status' = [status EXCEPT ![s] = "loading"]
  BY DEF Import
<1>3. 1 \in DOMAIN stack
  BY <1>2 DEF Running, TypeOK
<1>4. \A k \in DOMAIN stack : stack[k].file # NoFile => stack[k].space # s
  BY <1>2 DEF BodiesLoad
<1> HIDE DEF top
<1>5. ScriptFirst'
  BY <1>1, <1>2, <1>3 DEF ScriptFirst
<1>6. BodiesLoad'
  <2> SUFFICES ASSUME NEW k \in DOMAIN stack', stack'[k].file # NoFile
               PROVE  /\ status'[stack'[k].space] = "loading"
                      /\ \A j \in DOMAIN stack' :
                           stack'[j].file # NoFile /\ stack'[j].space = stack'[k].space => j = k
    BY DEF BodiesLoad
  <2>1. CASE k = top
    BY <1>1, <1>2, <1>4, <2>1 DEF TypeOK
  <2>2. CASE k \in DOMAIN stack
    <3>1. stack[k] \in Frame BY <2>2 DEF TypeOK
    <3> QED BY <1>1, <1>2, <1>4, <2>2, <3>1 DEF BodiesLoad, TypeOK, Frame
  <2> QED BY <1>1, <2>1, <2>2
<1>7. NoHalfModule'
  <2> SUFFICES ASSUME NEW g \in Files, registry'[g] # NoSpace
               PROVE  \/ status'[registry'[g]] = "loaded"
                      \/ \E k \in DOMAIN stack' : stack'[k].space = registry'[g] /\ stack'[k].file = g
    BY DEF NoHalfModule
  <2>1. CASE g = f
    BY <1>1, <1>2, <2>1 DEF TypeOK
  <2>2. CASE g # f
    <3>1. registry'[g] = registry[g] /\ registry[g] \in Spaces
      BY <1>2, <2>2 DEF TypeOK
    <3>2. CASE status[registry[g]] = "loaded"
      BY <1>2, <3>1, <3>2 DEF TypeOK
    <3>3. ASSUME NEW k \in DOMAIN stack, stack[k].space = registry[g], stack[k].file = g
          PROVE  k \in DOMAIN stack' /\ stack'[k].space = registry'[g] /\ stack'[k].file = g
      BY <1>1, <3>1, <3>3
    <3> QED BY <3>1, <3>2, <3>3 DEF NoHalfModule
  <2> QED BY <2>1, <2>2
<1> QED BY <1>5, <1>6, <1>7

LEMMA ImportingStep == Base /\ Importing /\ [Next]_vars => Importing'
<1> SUFFICES ASSUME Base, Importing, [Next]_vars PROVE Importing'
  OBVIOUS
<1> USE DEF Base, Importing
<1>1. ASSUME NEW s \in Spaces, NEW u \in Units, Call(s, u) PROVE Importing'
  <2>1. Running /\ Arrive(u, s, NoFile) /\ UNCHANGED <<registry, status>>
    BY <1>1 DEF Call
  <2>2. 1 \in DOMAIN stack
    BY <2>1 DEF Running, TypeOK
  <2>3. /\ DOMAIN stack' = DOMAIN stack \union {Len(stack) + 1}
        /\ \A k \in DOMAIN stack : stack'[k] = stack[k] /\ k # Len(stack) + 1
        /\ stack'[Len(stack) + 1].file = NoFile
    BY <2>1, ArriveAdds
  <2>4. ScriptFirst' /\ BodiesLoad'
    BY <2>1, <2>2, <2>3 DEF ScriptFirst, BodiesLoad
  <2>5. NoHalfModule'
    BY <2>1, <2>3 DEF NoHalfModule
  <2> QED BY <2>4, <2>5
<1>2. ASSUME NEW ok \in BOOLEAN, Leave(ok) PROVE Importing'
  BY <1>2, LeaveKeepsImporting
<1>3. CASE Finish
  <2>1. Len(stack) = 1 /\ stack' = << >> /\ UNCHANGED <<registry, status>>
    BY <1>3 DEF Finish
  <2>2. DOMAIN stack = {1} /\ stack[1].file = NoFile
    <3>1. DOMAIN stack = 1 .. Len(stack)
      BY DEF TypeOK
    <3>2. stack # << >>
      BY <2>1
    <3>3. 1 .. Len(stack) = {1}
      BY <2>1
    <3> QED BY <3>1, <3>2, <3>3 DEF ScriptFirst, Running
  <2>3. \A f \in Files : f # NoFile
    BY UnitsAssumption
  <2> QED BY <2>1, <2>2, <2>3 DEF ScriptFirst, Running, BodiesLoad, NoHalfModule
<1>4. CASE Run
  <2>1. stack = << >> /\ DOMAIN stack' = {1} /\ stack'[1].file = NoFile
        /\ UNCHANGED <<registry, status>>
    BY <1>4 DEF Run, Running
  <2> QED BY <2>1 DEF ScriptFirst, BodiesLoad, NoHalfModule
<1>5. ASSUME NEW f \in Files, NEW s \in Spaces, Import(f, s) PROVE Importing'
  BY <1>5, ImportKeepsImporting
<1>6. ASSUME NEW f \in Files, DeleteEntry(f) PROVE Importing'
  <2>1. /\ registry' = [registry EXCEPT ![f] = NoSpace]
        /\ UNCHANGED <<stack, status>>
    BY <1>6 DEF DeleteEntry
  <2>2. \A g \in Files : registry'[g] # NoSpace => registry'[g] = registry[g]
    BY <2>1 DEF TypeOK
  <2> QED BY <2>1, <2>2 DEF ScriptFirst, Running, BodiesLoad, NoHalfModule
<1>7. CASE Access \/ UNCHANGED vars
  <2>1. UNCHANGED <<stack, registry, status>>
    BY <1>7 DEF Access, LoadGlobal, StoreGlobal, LoadAttr, StoreAttr, vars
  <2> QED BY <2>1 DEF ScriptFirst, Running, BodiesLoad, NoHalfModule
<1> QED
  BY <1>1, <1>2, <1>3, <1>4, <1>5, <1>6, <1>7 DEF Next

(* sys.modules never hands out a module whose body raised, whatever imports *)
(* circularly, fails, or deletes its own entry and imports again.          *)
THEOREM ModulesAreWhole == Spec => []NoHalfModule
<1>1. Init => Base /\ Importing
  BY BaseInit, ImportingInit
<1>2. (Base /\ Importing) /\ [Next]_vars => (Base /\ Importing)'
  BY BaseStep, ImportingStep
<1> QED BY <1>1, <1>2, PTL DEF Spec, Importing

-----------------------------------------------------------------------------
(* A machine with one script.                                              *)

OneScript == Len(Scripts) = 1

\* A namespace has code of one unit in it, and of none before it is made.
OneUnit ==
  \A s \in Spaces :
    /\ \A u, v \in units[s] : u = v
    /\ status[s] = "absent" => units[s] = {}

\* The code on the stack is code of its namespace.
CodeOfSpace == \A k \in DOMAIN stack : stack[k].unit \in units[stack[k].space]

\* What a frame saved is the table of the frame below it, and a frame that
\* saved nothing runs in the namespace of the frame below it.
Chained ==
  \A k \in DOMAIN stack : k > 1 =>
    IF stack[k].crossed
      THEN stack[k].home = stack[k-1].space /\ stack[k].table = stack[k-1].unit
      ELSE stack[k].space = stack[k-1].space

Chain == OneUnit /\ CodeOfSpace /\ Chained /\ OwnTable

LEMMA ChainInit == Init => Chain
<1> SUFFICES ASSUME Init PROVE Chain
  OBVIOUS
<1>1. OneUnit
  BY SpacesAssumption DEF Init, OneUnit
<1>2. /\ Len(stack) = 1 /\ DOMAIN stack = {1}
      /\ stack[1].space = Main /\ stack[1].unit = Scripts[1]
  BY DEF Init
<1>3. CodeOfSpace
  BY <1>2, SpacesAssumption DEF Init, CodeOfSpace
<1>4. Chained
  BY <1>2 DEF Chained
<1>5. OwnTable
  BY <1>2 DEF Init, OwnTable, Top
<1> QED BY <1>1, <1>3, <1>4, <1>5 DEF Chain

(* The frame that arrive adds fits on top of the frames there were, when   *)
(* the unit is the only one of its namespace.                              *)
LEMMA ArriveKeepsChain ==
  ASSUME TypeOK, CodeOfSpace, Chained, OwnTable, Running,
         NEW u \in Units, NEW s \in Spaces, NEW f, Arrive(u, s, f),
         units' \in [Spaces -> SUBSET Units], u \in units'[s],
         \A t \in Spaces : units[t] \subseteq units'[t],
         \A v \in units'[s] : v = u
  PROVE  CodeOfSpace' /\ Chained' /\ OwnTable'
<1> DEFINE top == [space |-> s, unit |-> u, crossed |-> s # home,
                   home |-> home, table |-> table, file |-> f]
<1>a. /\ top.space = s /\ top.unit = u /\ top.crossed = (s # home)
      /\ top.home = home /\ top.table = table
  OBVIOUS
<1>1. stack' = Append(stack, top) /\ stack \in Seq(Frame) /\ Len(stack) > 0
  BY DEF Arrive, TypeOK, Running
<1> HIDE DEF top
<1>2. /\ Len(stack') = Len(stack) + 1 /\ stack'[Len(stack')] = top
      /\ \A k \in DOMAIN stack : stack'[k] = stack[k]
  BY <1>1
<1>3. CodeOfSpace'
  <2>1. SUFFICES ASSUME NEW k \in DOMAIN stack'
        PROVE  stack'[k].unit \in units'[stack'[k].space]
    BY DEF CodeOfSpace
  <2>2. CASE k = Len(stack')
    BY <1>2, <1>a, <2>2
  <2>3. CASE k # Len(stack')
    <3>1. k \in DOMAIN stack /\ stack[k] \in Frame
      BY <1>1, <1>2, <2>3
    <3> QED BY <1>2, <3>1 DEF CodeOfSpace, Frame
  <2> QED BY <2>2, <2>3
<1>4. Top \in Frame /\ home = Top.space /\ table = Top.unit /\ Top.unit \in units[Top.space]
  BY <1>1 DEF OwnTable, Top, CodeOfSpace
<1>5. Chained'
  <2>1. SUFFICES ASSUME NEW k \in DOMAIN stack', k > 1
        PROVE  IF stack'[k].crossed
                 THEN stack'[k].home = stack'[k-1].space /\ stack'[k].table = stack'[k-1].unit
                 ELSE stack'[k].space = stack'[k-1].space
    BY DEF Chained
  <2>2. k \in 1 .. Len(stack) + 1 /\ k - 1 \in DOMAIN stack
    BY <1>1, <1>2, <2>1
  <2>3. CASE k = Len(stack) + 1
    <3>1. stack'[k] = top /\ stack'[k-1] = Top
      BY <1>1, <1>2, <2>2, <2>3 DEF Top
    <3> QED BY <1>4, <1>a, <3>1
  <2>4. CASE k \in DOMAIN stack
    <3>1. stack'[k] = stack[k] /\ stack'[k-1] = stack[k-1]
      BY <1>2, <2>2, <2>4
    <3> QED BY <2>1, <2>4, <3>1 DEF Chained
  <2> QED BY <1>1, <2>2, <2>3, <2>4
<1>6. home' = s /\ table' = u
  <2>1. CASE s # home BY <2>1 DEF Arrive, Swap
  <2>2. CASE s = home
    <3>1. home' = home /\ table' = table BY <2>2 DEF Arrive
    <3>2. table \in units'[s] BY <1>4, <2>2
    <3> QED BY <2>2, <3>1, <3>2
  <2> QED BY <2>1, <2>2
<1> QED
  BY <1>2, <1>a, <1>3, <1>5, <1>6 DEF OwnTable, Top

LEMMA ChainStep == Base /\ OneScript /\ Chain /\ [Next]_vars => Chain'
<1> SUFFICES ASSUME Base, OneScript, Chain, [Next]_vars PROVE Chain'
  OBVIOUS
<1> USE DEF Base, Chain
<1>1. ASSUME NEW s \in Spaces, NEW u \in Units, Call(s, u) PROVE Chain'
  <2>1. /\ Running /\ u \in units[s] /\ Arrive(u, s, NoFile)
        /\ UNCHANGED <<units, status>>
    BY <1>1 DEF Call
  <2>2. CodeOfSpace' /\ Chained' /\ OwnTable'
    BY <2>1, ArriveKeepsChain DEF TypeOK, OneUnit
  <2> QED BY <2>1, <2>2 DEF OneUnit
<1>2. ASSUME NEW ok \in BOOLEAN, Leave(ok) PROVE Chain'
  <2> DEFINE n == Len(stack)
  <2>1. /\ stack \in Seq(Frame) /\ n > 1 /\ Depart
        /\ stack' = SubSeq(stack, 1, n - 1)
        /\ UNCHANGED units
    BY <1>2 DEF Leave, TypeOK
  <2>2. /\ Len(stack') = n - 1 /\ DOMAIN stack' = 1 .. n - 1
        /\ \A k \in 1 .. n - 1 : stack'[k] = stack[k]
    BY <2>1
  <2>3. Top = stack[n] /\ stack[n] \in Frame /\ stack[n-1] \in Frame
    BY <2>1 DEF Top
  <2>4. home = Top.space /\ table = Top.unit
    BY <2>1 DEF OwnTable, Running
  <2>5. home' = stack[n-1].space /\ table' = stack[n-1].unit
    <3>1. CASE Top.crossed
      BY <2>1, <2>3, <3>1 DEF Depart, Swap, Chained
    <3>2. CASE ~Top.crossed
      <4>1. home' = home /\ table' = table BY <2>1, <3>2 DEF Depart
      <4>2. Top.space = stack[n-1].space BY <2>1, <2>3, <3>2 DEF Chained
      <4>3. Top.unit \in units[Top.space] /\ stack[n-1].unit \in units[Top.space]
        BY <2>1, <2>3, <4>2 DEF CodeOfSpace
      <4>4. Top.unit = stack[n-1].unit
        BY <2>3, <4>3 DEF OneUnit, Frame
      <4> QED BY <2>4, <4>1, <4>2, <4>4
    <3> QED BY <3>1, <3>2
  <2>6. OwnTable'
    BY <2>1, <2>2, <2>5 DEF OwnTable, Top
  <2>7. CodeOfSpace' /\ Chained'
    BY <2>1, <2>2 DEF CodeOfSpace, Chained
  <2>8. \A s \in Spaces : status'[s] = "absent" => status[s] = "absent"
    BY <1>2 DEF Leave, TypeOK
  <2>9. OneUnit'
    BY <2>1, <2>8 DEF OneUnit
  <2> QED BY <2>6, <2>7, <2>9
<1>3. CASE Finish
  BY <1>3 DEF Finish, OneUnit, CodeOfSpace, Chained, OwnTable, Running
<1>4. CASE Run
  BY <1>4 DEF Run, OneScript, TypeOK
<1>5. ASSUME NEW f \in Files, NEW s \in Spaces, Import(f, s) PROVE Chain'
  <2>1. /\ Running /\ Arrive(f, s, f) /\ f \in Units /\ status[s] = "absent"
        /\ status' = [status EXCEPT ![s] = "loading"]
        /\ units' = [units EXCEPT ![s] = {f}]
    BY <1>5 DEF Import, Units
  <2>2. /\ units' \in [Spaces -> SUBSET Units] /\ units'[s] = {f}
        /\ \A t \in Spaces : units[t] \subseteq units'[t]
    BY <2>1 DEF TypeOK, OneUnit
  <2>3. CodeOfSpace' /\ Chained' /\ OwnTable'
    BY <2>1, <2>2, ArriveKeepsChain
  <2>4. OneUnit'
    BY <2>1 DEF OneUnit, TypeOK
  <2> QED BY <2>3, <2>4
<1>6. ASSUME NEW f \in Files, DeleteEntry(f) PROVE Chain'
  BY <1>6 DEF DeleteEntry, OneUnit, CodeOfSpace, Chained, OwnTable, Running, Top
<1>7. CASE Access
  BY <1>7 DEF Access, LoadGlobal, StoreGlobal, LoadAttr, StoreAttr,
     OneUnit, CodeOfSpace, Chained, OwnTable, Running, Top
<1>8. CASE UNCHANGED vars
  BY <1>8 DEF vars, OneUnit, CodeOfSpace, Chained, OwnTable, Running, Top
<1> QED
  BY <1>1, <1>2, <1>3, <1>4, <1>5, <1>6, <1>7, <1>8 DEF Next

LEMMA ChainInvariant == ASSUME OneScript PROVE Spec => [](Base /\ Chain)
<1>1. Init => Base /\ Chain
  BY BaseInit, ChainInit
<1>2. (Base /\ Chain) /\ [Next]_vars => (Base /\ Chain)'
  BY OneScript, BaseStep, ChainStep
<1> QED BY <1>1, <1>2, PTL DEF Spec

(* With one script the slots are always numbered against the table of the  *)
(* code that runs, however calls between modules nest and end.             *)
THEOREM TableIsOwn == ASSUME OneScript PROVE Spec => []OwnTable
  BY ChainInvariant, PTL DEF Chain

-----------------------------------------------------------------------------
(* With one script, the machine implements AbstractNames.                  *)

LEMMA AbstractInit == Init => Abstract!Init
BY SpacesAssumption DEF Init, Abstract!Init, Bindings, Empty, Mentions

(* What lays modules out and puts them back is a stutter of AbstractNames. *)
LEMMA BracketsStutter ==
  ASSUME Base, NEW f, NEW s \in Spaces, NEW u \in Units,
         Arrive(u, s, f) \/ (Running /\ Depart)
  PROVE  Bindings' = Bindings
<1> USE DEF Base
<1>1. ASSUME UNCHANGED <<home, table, slots, map>> PROVE Bindings' = Bindings
  BY <1>1 DEF Bindings, Mentions
<1>2. CASE Arrive(u, s, f)
  <2>1. Swap(u, s) \/ UNCHANGED <<home, table, slots, map>> BY <1>2 DEF Arrive
  <2> QED BY <1>1, <2>1, SwapBindings
<1>3. CASE Running /\ Depart
  <2>1. Top \in Frame BY <1>3 DEF TypeOK, Running, Top
  <2>2. Top.table \in Units /\ Top.home \in Spaces BY <2>1 DEF Frame
  <2>3. Swap(Top.table, Top.home) \/ UNCHANGED <<home, table, slots, map>>
    BY <1>3 DEF Depart
  <2> QED BY <1>1, <2>2, <2>3, SwapBindings
<1> QED BY <1>2, <1>3

(* A store to the place a name is in is a store to its binding.            *)
LEMMA StoreIsBinding ==
  ASSUME TypeOK, NEW s \in Spaces, NEW n \in Names, NEW v, UNCHANGED <<home, table>>,
         \/ LaidOut(s, n) /\ slots' = [slots EXCEPT ![n] = v] /\ map' = map
         \/ ~LaidOut(s, n) /\ map' = [map EXCEPT ![s][n] = v] /\ slots' = slots
  PROVE  Bindings' = [Bindings EXCEPT ![s][n] = v]
<1> DEFINE written == [Bindings EXCEPT ![s][n] = v]
<1>1. Mentions(table)' = Mentions(table)
  BY DEF Mentions
<1>2. ASSUME NEW t \in Spaces, NEW m \in Names
      PROVE  (IF t = home /\ m \in Mentions(table) THEN slots'[m] ELSE map'[t][m])
               = IF t = s /\ m = n THEN v ELSE Bindings[t][m]
  <2>1. CASE LaidOut(s, n) /\ slots' = [slots EXCEPT ![n] = v] /\ map' = map
    BY <2>1 DEF TypeOK, Bindings, LaidOut
  <2>2. CASE ~LaidOut(s, n) /\ map' = [map EXCEPT ![s][n] = v] /\ slots' = slots
    <3>1. map'[t][m] = IF t = s /\ m = n THEN v ELSE map[t][m]
      BY <2>2 DEF TypeOK
    <3> QED BY <2>2, <3>1 DEF Bindings, LaidOut
  <2> QED BY <2>1, <2>2
<1>3. Bindings' = [t \in Spaces |-> [m \in Names |->
        IF t = s /\ m = n THEN v ELSE Bindings[t][m]]]
  BY <1>1, <1>2 DEF Bindings
<1>4. ASSUME NEW t \in Spaces, NEW m \in Names
      PROVE  written[t][m] = IF t = s /\ m = n THEN v ELSE Bindings[t][m]
  BY DEF Bindings
<1>5. written = [t \in Spaces |-> [m \in Names |-> written[t][m]]]
  BY DEF Bindings
<1> HIDE DEF written
<1>6. written = [t \in Spaces |-> [m \in Names |->
        IF t = s /\ m = n THEN v ELSE Bindings[t][m]]]
  BY <1>4, <1>5
<1> QED BY <1>3, <1>6 DEF written

(* An access is the load or the store of AbstractNames that it names.      *)
LEMMA AccessIsAbstract == Base /\ Chain /\ Access => [Abstract!Next]_(Abstract!vars)
<1> SUFFICES ASSUME Base, Chain, Access PROVE [Abstract!Next]_(Abstract!vars)
  OBVIOUS
<1> USE DEF Base, Chain
<1>1. UNCHANGED <<home, table>> /\ Running
  BY DEF Access, LoadGlobal, StoreGlobal, LoadAttr, StoreAttr
<1>2. home = Top.space /\ table = Top.unit /\ home \in Spaces /\ table \in Units
  BY <1>1 DEF OwnTable, TypeOK, OpenTable
<1>3. ASSUME NEW i \in DOMAIN Table[Top.unit]
      PROVE  /\ InTable(i) /\ Table[table][i] \in Names
             /\ Table[table][i] \in Mentions(table)
  BY <1>2, TableAssumption DEF InTable, Mentions
<1>4. ASSUME NEW i \in DOMAIN Table[Top.unit], LoadGlobal(i) PROVE Abstract!Next
  <2> DEFINE n == Table[table][i]
  <2>1. /\ last' = [op |-> "load", space |-> home, name |-> n, value |-> slots[n]]
        /\ UNCHANGED <<home, table, slots, map>>
    BY <1>2, <1>3, <1>4 DEF LoadGlobal, Answer
  <2>2. Bindings[home][n] = slots[n] /\ Bindings' = Bindings
    BY <1>2, <1>3, <2>1 DEF Bindings, Mentions
  <2>3. Abstract!Load(home, n)
    BY <2>1, <2>2 DEF Abstract!Load
  <2> QED BY <1>2, <1>3, <2>3 DEF Abstract!Next
<1>5. ASSUME NEW i \in DOMAIN Table[Top.unit], NEW v \in Bound, StoreGlobal(i, v)
      PROVE  Abstract!Next
  <2> DEFINE n == Table[table][i]
  <2>1. /\ last' = [op |-> "store", space |-> home, name |-> n, value |-> v]
        /\ slots' = [slots EXCEPT ![n] = v] /\ map' = map
    BY <1>2, <1>3, <1>5 DEF StoreGlobal, Answer
  <2>2. Bindings' = [Bindings EXCEPT ![home][n] = v]
    <3>1. n \in Names /\ LaidOut(home, n) /\ home \in Spaces
      BY <1>2, <1>3 DEF LaidOut
    <3> HIDE DEF n
    <3>2. PICK s \in Spaces, m \in Names : s = home /\ m = n
      BY <3>1
    <3>3. \/ LaidOut(s, m) /\ slots' = [slots EXCEPT ![m] = v] /\ map' = map
          \/ ~LaidOut(s, m) /\ map' = [map EXCEPT ![s][m] = v] /\ slots' = slots
      BY <2>1, <3>1, <3>2
    <3>4. Bindings' = [Bindings EXCEPT ![s][m] = v]
      BY <1>1, <3>3, StoreIsBinding
    <3> QED BY <3>2, <3>4
  <2>3. Abstract!Store(home, n, v)
    BY <2>1, <2>2 DEF Abstract!Store
  <2> QED BY <1>2, <1>3, <2>3 DEF Abstract!Next, Abstract!Bound
<1>6. ASSUME NEW s \in Spaces, NEW i \in DOMAIN Table[Top.unit], LoadAttr(s, i)
      PROVE  Abstract!Next
  <2> DEFINE n == Table[table][i]
  <2>1. /\ last' = [op |-> "load", space |-> s, name |-> n, value |-> InModule(s, n)]
        /\ UNCHANGED <<home, table, slots, map>> /\ n \in Names
    BY <1>2, <1>3, <1>6 DEF LoadAttr, Answer
  <2> HIDE DEF n
  <2>2. Bindings[s][n] = InModule(s, n) /\ Bindings' = Bindings
    BY <2>1 DEF Bindings, Mentions, InModule, LaidOut, OneHome
  <2>3. Abstract!Load(s, n)
    BY <2>1, <2>2 DEF Abstract!Load
  <2> QED BY <2>1, <2>3 DEF Abstract!Next
<1>7. ASSUME NEW s \in Spaces, NEW i \in DOMAIN Table[Top.unit], NEW v \in Bound,
             StoreAttr(s, i, v)
      PROVE  Abstract!Next
  <2> DEFINE n == Table[table][i]
  <2>1. last' = [op |-> "store", space |-> s, name |-> n, value |-> v] /\ n \in Names
    BY <1>2, <1>3, <1>7 DEF StoreAttr, Answer
  <2>2. \/ LaidOut(s, n) /\ slots' = [slots EXCEPT ![n] = v] /\ map' = map
        \/ ~LaidOut(s, n) /\ map' = [map EXCEPT ![s][n] = v] /\ slots' = slots
    BY <1>7 DEF StoreAttr
  <2> HIDE DEF n
  <2>3. Bindings' = [Bindings EXCEPT ![s][n] = v]
    BY <1>1, <2>1, <2>2, StoreIsBinding
  <2>4. Abstract!Store(s, n, v)
    BY <2>1, <2>3 DEF Abstract!Store
  <2> QED BY <2>1, <2>4 DEF Abstract!Next, Abstract!Bound
<1> QED
  BY <1>4, <1>5, <1>6, <1>7 DEF Access

LEMMA AbstractStep == Base /\ Chain /\ OneScript /\ [Next]_vars => [Abstract!Next]_(Abstract!vars)
<1> SUFFICES ASSUME Base, Chain, OneScript, [Next]_vars PROVE [Abstract!Next]_(Abstract!vars)
  OBVIOUS
<1>1. ASSUME Bindings' = Bindings, last' = last PROVE UNCHANGED Abstract!vars
  BY <1>1 DEF Abstract!vars
<1>2. ASSUME NEW s \in Spaces, NEW u \in Units, Call(s, u) PROVE UNCHANGED Abstract!vars
  BY <1>1, <1>2, BracketsStutter DEF Call
<1>3. ASSUME NEW ok \in BOOLEAN, Leave(ok) PROVE UNCHANGED Abstract!vars
  <2>1. Running /\ Depart /\ last' = last
    BY <1>3 DEF Leave, Running, Base, TypeOK
  <2>2. \E s \in Spaces, u \in Units : TRUE
    BY <2>1, SpacesAssumption DEF Base, OpenTable
  <2> QED BY <1>1, <2>1, <2>2, BracketsStutter
<1>4. ASSUME NEW f \in Files, NEW s \in Spaces, Import(f, s) PROVE UNCHANGED Abstract!vars
  <2>1. Arrive(f, s, f) /\ f \in Units /\ last' = last
    BY <1>4 DEF Import, Units
  <2> QED BY <1>1, <2>1, BracketsStutter
<1>5. CASE Finish
  <2>1. /\ slots' = Empty /\ table' = Idle /\ home' = home /\ last' = last
        /\ map' = [map EXCEPT ![home] = Closed(@)]
    BY <1>5 DEF Finish
  <2>2. Mentions(table)' = {}
    BY <2>1, TableAssumption DEF Mentions
  <2>3. Bindings' = Bindings
    BY <2>1, <2>2 DEF Bindings, Closed, Base, TypeOK, OneHome
  <2> QED BY <1>1, <2>1, <2>3
<1>6. CASE Run
  BY <1>6 DEF Run, OneScript, Base, TypeOK
<1>7. ASSUME NEW f \in Files, DeleteEntry(f) PROVE UNCHANGED Abstract!vars
  BY <1>1, <1>7 DEF DeleteEntry, Bindings, Mentions
<1>8. CASE UNCHANGED vars
  BY <1>1, <1>8 DEF vars, Bindings, Mentions
<1>9. CASE Access
  BY <1>9, AccessIsAbstract
<1> QED
  BY <1>2, <1>3, <1>4, <1>5, <1>6, <1>7, <1>8, <1>9 DEF Next

(* Module globals are what a program may assume they are: nothing but the  *)
(* write that names a binding changes it, and a read finds it, from inside *)
(* the module or from outside.                                             *)
THEOREM ImplementsNames == ASSUME OneScript PROVE Spec => RefinesAbstract
<1>1. (Base /\ Chain) /\ [Next]_vars => [Abstract!Next]_(Abstract!vars)
  BY OneScript, AbstractStep
<1> QED
  BY <1>1, AbstractInit, ChainInvariant, PTL DEF Spec, RefinesAbstract, Abstract!Spec
=============================================================================

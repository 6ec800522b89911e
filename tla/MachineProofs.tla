---------------------------- MODULE MachineProofs ----------------------------
(***************************************************************************)
(* What is true of Machine for any generators, exceptions and limit, and   *)
(* wherever generators yield: the type, the depth, that a generator is     *)
(* running exactly while its one frame is on the stack, and that the       *)
(* handlers of a frame are those of the regions it is inside.  And, when   *)
(* generators do not yield inside of a region, what is on the handled      *)
(* stack: exactly what the open clauses have caught.                       *)
(*                                                                         *)
(* Of Contexts, which steps with it: the contexts of exceptions never form *)
(* a ring, wherever generators yield, and a link is only cut where it      *)
(* would have closed one.  Rings are spoken of without counting: no set of *)
(* exceptions has all its contexts in itself.  When generators do not      *)
(* yield inside of a region, a context is what was being handled when the  *)
(* exception was raised.                                                   *)
(***************************************************************************)
EXTENDS Contexts, FiniteSetTheorems, SequenceTheorems, WellFoundedInduction, TLAPS

\* The frames that belong to g.
FramesOf(g, s) == {k \in DOMAIN s : s[k].gen = g}

\* Its frame is on the stack once while it is running, and else not at all.
OnStack(g, st, s) ==
  IF st = "running" THEN \E k \in FramesOf(g, s) : FramesOf(g, s) = {k}
                    ELSE FramesOf(g, s) = {}

Inv == TypeOK /\ DepthIsFrames /\ RunningIsOnStack

-----------------------------------------------------------------------------
(* Sequences.                                                              *)

LEMMA FrontType == ASSUME NEW S, NEW s \in Seq(S) PROVE Front(s) \in Seq(S)
<1>1. CASE s = << >>
  BY <1>1 DEF Front
<1>2. CASE s # << >>
  BY <1>2 DEF Front
<1> QED BY <1>1, <1>2

LEMMA TruncateType ==
  ASSUME NEW S, NEW s \in Seq(S), NEW n \in Nat PROVE Truncate(s, n) \in Seq(S)
BY DEF Truncate

\* A set of positions that is not empty has a last one: the distance from the
\* end is well founded.
LEMMA LastPosition ==
  ASSUME NEW n \in Nat, NEW P \in SUBSET (1 .. n), P # {}
  PROVE  \E i \in P : \A j \in P : j <= i
<1> DEFINE T == {m \in Nat : n - m \in P}
           less == {ss \in Nat \X Nat : ss[1] < ss[2]}
<1>1. PICK p \in P : TRUE
  OBVIOUS
<1>2. n - p \in T
  BY <1>1
<1>3. T \subseteq Nat /\ T # {}
  BY <1>2
<1>4. \A a, b \in Nat : a < b => <<a, b>> \in less
  OBVIOUS
<1>5. IsWellFoundedOn(less, Nat)
  BY NatLessThanWellFounded, Zenon DEF OpToRel
<1> HIDE DEF T, less
<1>6. PICK m \in T : \A k \in T : ~ (<<k, m>> \in less)
  BY <1>3, <1>5, WFMin
<1>7. ASSUME NEW k \in T PROVE m <= k
  <2>1. k \in Nat /\ m \in Nat
    BY <1>3, <1>6
  <2>2. ~(k < m)
    BY <1>4, <1>6, <2>1
  <2> QED BY <2>1, <2>2
<1>8. n - m \in P
  BY <1>6 DEF T
<1>9. ASSUME NEW j \in P PROVE j <= n - m
  <2>1. n - j \in T
    BY DEF T
  <2>2. m <= n - j
    BY <1>7, <2>1
  <2>3. m \in Nat
    BY <1>3, <1>6
  <2> QED BY <2>2, <2>3
<1> QED BY <1>8, <1>9

LEMMA PassedType == ASSUME NEW s \in Seq(Region) PROVE Passed(s) \in Seq(Region)
<1> DEFINE guards == {i \in DOMAIN s : s[i].kind # "interrupt"}
           last == CHOOSE i \in guards : \A j \in guards : j <= i
<1>1. CASE guards = {}
  BY <1>1 DEF Passed
<1>2. CASE guards # {}
  <2>a. guards \in SUBSET (1 .. Len(s)) /\ Len(s) \in Nat
    OBVIOUS
  <2>1. \E i \in guards : \A j \in guards : j <= i
    <3> HIDE DEF guards
    <3> QED BY <1>2, <2>a, LastPosition
  <2>2. last \in 1 .. Len(s)
    BY <2>1
  <2>3. Passed(s) = SubSeq(s, 1, last)
    BY <1>2 DEF Passed
  <2> HIDE DEF last, guards
  <2> QED BY <2>2, <2>3
<1> QED BY <1>1, <1>2

-----------------------------------------------------------------------------
(* What a step does to the stack.                                          *)

\* A frame that changes in place is still the same generator's.
LEMMA InPlace ==
  ASSUME Inv, stack # << >>, NEW f \in Frame, f.gen = Top.gen, stack' = WithTop(f)
  PROVE  /\ stack' \in Seq(Frame) /\ Len(stack') = Len(stack)
         /\ \A g \in Gens : FramesOf(g, stack') = FramesOf(g, stack)
<1>1. stack \in Seq(Frame) /\ Len(stack) \in DOMAIN stack
  BY DEF Inv, TypeOK
<1>2. stack' \in Seq(Frame) /\ Len(stack') = Len(stack) /\ DOMAIN stack' = DOMAIN stack
  BY <1>1 DEF WithTop
<1>3. \A k \in DOMAIN stack : stack'[k].gen = stack[k].gen
  BY <1>1 DEF WithTop, Top
<1> QED BY <1>2, <1>3 DEF FramesOf

\* A frame that comes on top is one more of its generator's.
LEMMA Pushed ==
  ASSUME Inv, NEW f \in Frame, stack' = Append(stack, f)
  PROVE  /\ stack' \in Seq(Frame) /\ Len(stack') = Len(stack) + 1
         /\ \A g \in Gens : FramesOf(g, stack') =
              IF f.gen = g THEN FramesOf(g, stack) \union {Len(stack) + 1}
                           ELSE FramesOf(g, stack)
BY DEF Inv, TypeOK, FramesOf

\* A frame that leaves is its generator's only one.
LEMMA Popped ==
  ASSUME Inv, stack # << >>, stack' = Below
  PROVE  /\ stack' \in Seq(Frame) /\ Len(stack') = Len(stack) - 1
         /\ \A g \in Gens : FramesOf(g, stack') =
              IF Top.gen = g THEN {} ELSE FramesOf(g, stack)
<1> DEFINE n == Len(stack)
<1>1. stack \in Seq(Frame) /\ n \in Nat /\ n > 0
  BY DEF Inv, TypeOK
<1>2. /\ stack' \in Seq(Frame) /\ Len(stack') = n - 1 /\ DOMAIN stack' = 1 .. n - 1
      /\ \A k \in 1 .. n - 1 : stack'[k] = stack[k]
  <2>1. \A k \in 1 .. n - 1 : stack[k] \in Frame
    BY <1>1
  <2>2. stack' = SubSeq(stack, 1, n - 1)
    BY DEF Below
  <2>3. /\ stack' \in Seq(Frame)
        /\ Len(stack') = IF 1 <= n - 1 THEN n - 1 - 1 + 1 ELSE 0
        /\ \A k \in 1 .. n - 1 - 1 + 1 : stack'[k] = stack[1 + k - 1]
    <3> HIDE DEF n
    <3> QED BY <1>1, <2>1, <2>2, SubSeqProperties
  <2> HIDE DEF n
  <2>4. Len(stack') = n - 1 /\ DOMAIN stack' = 1 .. n - 1
    BY <1>1, <2>3
  <2>5. ASSUME NEW k \in 1 .. n - 1 PROVE stack'[k] = stack[k]
    <3>1. 1 + k - 1 = k /\ k \in 1 .. n - 1 - 1 + 1
      BY <1>1
    <3> QED BY <2>3, <3>1
  <2> QED BY <2>3, <2>4, <2>5
<1>3. ASSUME NEW g \in Gens PROVE FramesOf(g, stack') = FramesOf(g, stack) \ {n}
  BY <1>1, <1>2 DEF FramesOf
<1>4. ASSUME NEW g \in Gens, Top.gen = g PROVE FramesOf(g, stack) = {n}
  <2>1. n \in FramesOf(g, stack)
    BY <1>1, <1>4 DEF FramesOf, Top
  <2> QED BY <2>1 DEF Inv, RunningIsOnStack, FramesOf
<1>5. ASSUME NEW g \in Gens, Top.gen # g PROVE n \notin FramesOf(g, stack)
  BY <1>5 DEF FramesOf, Top
<1> QED BY <1>2, <1>3, <1>4, <1>5, ZenonT(30)

LEMMA TopType == ASSUME Inv, stack # << >> PROVE Top \in Frame
BY DEF Inv, TypeOK, Top

\* Running, in terms of FramesOf.
LEMMA RunningMeans == RunningIsOnStack <=> \A g \in Gens : OnStack(g, gens[g].state, stack)
BY DEF RunningIsOnStack, OnStack, FramesOf

LEMMA RunningAfter ==
  ASSUME \A g \in Gens : OnStack(g, gens'[g].state, stack')
  PROVE  RunningIsOnStack'
BY DEF RunningIsOnStack, OnStack, FramesOf

\* A step that changes a frame in place, or none, keeps the invariant.
LEMMA FramesStay ==
  ASSUME Inv, UNCHANGED <<gens, depth>>,
         handled' \in Seq(Exceptions), raising' \in Exceptions \union {NoExc},
         \/ stack' = stack
         \/ stack # << >> /\ \E f \in Frame : f.gen = Top.gen /\ stack' = WithTop(f)
  PROVE  Inv'
<1>1. /\ stack' \in Seq(Frame) /\ Len(stack') = Len(stack)
      /\ \A g \in Gens : FramesOf(g, stack') = FramesOf(g, stack)
  BY InPlace DEF Inv, TypeOK
<1>2. RunningIsOnStack'
  BY <1>1, RunningMeans, RunningAfter DEF Inv, OnStack
<1> QED BY <1>1, <1>2 DEF Inv, TypeOK, DepthIsFrames

\* A call, or the step of a generator that was suspended.
LEMMA FrameArrives ==
  ASSUME Inv, depth < Limit, depth' = depth + 1, UNCHANGED <<handled, raising>>,
         NEW f \in Frame, stack' = Append(stack, f), gens' \in [Gens -> GenState],
         \A g \in Gens : IF f.gen = g THEN gens[g].state # "running" /\ gens'[g].state = "running"
                                      ELSE gens'[g] = gens[g]
  PROVE  Inv'
<1>1. /\ stack' \in Seq(Frame) /\ Len(stack') = Len(stack) + 1
      /\ \A g \in Gens : FramesOf(g, stack') =
           IF f.gen = g THEN FramesOf(g, stack) \union {Len(stack) + 1} ELSE FramesOf(g, stack)
  BY Pushed
<1>2. RunningIsOnStack'
  BY <1>1, RunningMeans, RunningAfter DEF Inv, OnStack
<1> QED BY <1>1, <1>2, BoundsAssumption DEF Inv, TypeOK, DepthIsFrames

\* A return, a yield, or an exception that leaves a frame.
LEMMA FrameLeaves ==
  ASSUME Inv, stack # << >>, stack' = Below, depth' = depth - 1, raising' = raising,
         handled' \in Seq(Exceptions), gens' \in [Gens -> GenState],
         \A g \in Gens : IF Top.gen = g THEN gens'[g].state # "running"
                                        ELSE gens'[g] = gens[g]
  PROVE  Inv'
<1>1. /\ stack' \in Seq(Frame) /\ Len(stack') = Len(stack) - 1
      /\ \A g \in Gens : FramesOf(g, stack') =
           IF Top.gen = g THEN {} ELSE FramesOf(g, stack)
  BY Popped
<1>2. RunningIsOnStack'
  BY <1>1, RunningMeans, RunningAfter DEF Inv, OnStack
<1>3. Len(stack) > 0
  BY DEF Inv, TypeOK
<1> QED BY <1>1, <1>2, <1>3, BoundsAssumption DEF Inv, TypeOK, DepthIsFrames

-----------------------------------------------------------------------------
(* The invariant.                                                          *)

LEMMA InvInit == Init => Inv
<1> SUFFICES ASSUME Init PROVE Inv
  OBVIOUS
<1> DEFINE first == NewFrame(NoGen, << >>, << >>)
<1>1. first \in Frame /\ first.gen = NoGen
  BY DEF NewFrame, Frame, Init
<1> HIDE DEF first
<1>2. stack = <<first>>
  BY DEF Init, first
<1>3. TypeOK
  BY <1>1, <1>2, BoundsAssumption DEF Init, TypeOK, GenState
<1>4. RunningIsOnStack
  BY <1>1, <1>2, NamesAssumption, RunningMeans DEF Init, OnStack, FramesOf
<1> QED BY <1>2, <1>3, <1>4 DEF Inv, DepthIsFrames, Init

\* A region of the frame, and its handler, come or go.
LEMMA FrameTypes ==
  ASSUME NEW f \in Frame, NEW scope \in Seq(Region), NEW handlers \in Seq(Handler)
  PROVE  /\ [f EXCEPT !.scope = scope] \in Frame /\ [f EXCEPT !.scope = scope].gen = f.gen
         /\ [f EXCEPT !.scope = scope, !.handlers = handlers] \in Frame
         /\ [f EXCEPT !.scope = scope, !.handlers = handlers].gen = f.gen
BY DEF Frame

LEMMA OpenKeeps ==
  ASSUME Inv, NEW kind \in Kinds, NEW to \in {"except", "finally", "cleanup"}, Open(kind, to)
  PROVE  Inv'
<1> DEFINE scope == Append(Top.scope, [kind |-> kind, exc |-> NoExc])
           handlers == Append(Top.handlers, [to |-> to, handled |-> Len(handled)])
<1>1. stack # << >> /\ Top \in Frame
  BY TopType DEF Open, Running
<1>2. scope \in Seq(Region)
  BY <1>1 DEF Frame, Region
<1>3. handlers \in Seq(Handler)
  BY <1>1 DEF Frame, Handler, Inv, TypeOK
<1>4. stack' = WithTop([Top EXCEPT !.scope = scope, !.handlers = handlers])
  BY DEF Open
<1>5. UNCHANGED <<handled, gens, depth, raising>>
  BY DEF Open
<1> HIDE DEF scope, handlers
<1>6. \E f \in Frame : f.gen = Top.gen /\ stack' = WithTop(f)
  BY <1>1, <1>2, <1>3, <1>4, FrameTypes
<1> QED BY <1>1, <1>5, <1>6, FramesStay DEF Inv, TypeOK

LEMMA LeaveRegionKeeps ==
  ASSUME Inv, Close \/ EndClause \/ EndInterrupt \/ AbandonInterrupt
  PROVE  Inv'
<1>1. stack # << >> /\ Top \in Frame
  BY TopType DEF Close, EndClause, EndInterrupt, AbandonInterrupt, Running
<1>2. Front(Top.scope) \in Seq(Region) /\ Front(Top.handlers) \in Seq(Handler)
  BY <1>1, FrontType DEF Frame
<1>3. Front(handled) \in Seq(Exceptions)
  BY FrontType DEF Inv, TypeOK
<1>4. \/ stack' = WithTop([Top EXCEPT !.scope = Front(Top.scope), !.handlers = Front(Top.handlers)])
      \/ stack' = WithTop([Top EXCEPT !.scope = Front(Top.scope)])
  BY DEF Close, EndClause, EndInterrupt, AbandonInterrupt
<1>5. \E f \in Frame : f.gen = Top.gen /\ stack' = WithTop(f)
  BY <1>1, <1>2, <1>4, FrameTypes
<1>6. /\ handled' \in Seq(Exceptions) /\ UNCHANGED <<gens, depth>>
  BY <1>3 DEF Close, EndClause, EndInterrupt, AbandonInterrupt, Inv, TypeOK
<1>7. raising' \in Exceptions \union {NoExc}
  <2>1. CASE EndInterrupt
    <3>1. Top.scope \in Seq(Region) /\ Top.scope # << >>
      BY <1>1, <2>1 DEF EndInterrupt, InRegion, Frame
    <3>2. Last(Top.scope) \in Region
      BY <3>1 DEF Last
    <3> QED BY <2>1, <3>2 DEF EndInterrupt, Region
  <2>2. CASE ~EndInterrupt
    BY <2>2 DEF Close, EndClause, AbandonInterrupt, Inv, TypeOK
  <2> QED BY <2>1, <2>2
<1> QED BY <1>1, <1>5, <1>6, <1>7, FramesStay

LEMMA RaiseKeeps ==
  ASSUME Inv, NoMatch \/ BareRaise \/ \E e \in Excs : RaiseNew(e)
  PROVE  Inv'
<1>1. UNCHANGED <<stack, handled, gens, depth>>
  BY DEF NoMatch, BareRaise, RaiseNew
<1>2. raising' \in Exceptions \union {NoExc}
  <2>1. CASE NoMatch
    <3>1. Top.scope \in Seq(Region) /\ Top.scope # << >>
      BY <2>1, TopType DEF NoMatch, Running, InRegion, Frame
    <3>2. Last(Top.scope) \in Region
      BY <3>1 DEF Last
    <3> QED BY <2>1, <3>2 DEF NoMatch, Region
  <2>2. CASE BareRaise
    <3>1. handled # << >> => Last(handled) \in Exceptions
      BY DEF Last, Inv, TypeOK
    <3> QED BY <2>2, <3>1 DEF BareRaise, Exceptions
  <2>3. CASE \E e \in Excs : RaiseNew(e)
    BY <2>3 DEF RaiseNew, Exceptions
  <2> QED BY <2>1, <2>2, <2>3
<1> QED BY <1>1, <1>2, FramesStay DEF Inv, TypeOK

LEMMA CatchKeeps == ASSUME Inv, Catch PROVE Inv'
<1> DEFINE h == Last(Top.handlers)
           rest == Front(Top.handlers)
           passed == Passed(Top.scope)
           f == [Top EXCEPT !.handlers = rest, !.scope = passed]
           leftover == Truncate(handled, h.handled)
           Into(kind) == Append(Front(passed), [kind |-> kind, exc |-> raising])
<1>1. stack # << >> /\ Top \in Frame /\ raising \in Exceptions
  BY TopType DEF Catch, Inv, TypeOK
<1>2. h \in Handler /\ rest \in Seq(Handler) /\ passed \in Seq(Region)
  <2>1. Top.handlers \in Seq(Handler) /\ Top.handlers # << >> /\ Top.scope \in Seq(Region)
    BY <1>1 DEF Catch, Frame
  <2> QED BY <2>1, FrontType, PassedType DEF Last
<1>3. leftover \in Seq(Exceptions)
  BY <1>2, TruncateType DEF Inv, TypeOK, Handler
<1>4. f \in Frame /\ f.gen = Top.gen /\ f.handlers = rest /\ f.scope = passed
  BY <1>1, <1>2 DEF Frame
<1>5. Land(h, f, leftover) /\ UNCHANGED <<gens, depth>>
  BY DEF Catch
<1>6. /\ Front(passed) \in Seq(Region) /\ Front(leftover) \in Seq(Exceptions)
      /\ Append(leftover, raising) \in Seq(Exceptions)
      /\ \A kind \in Kinds : Into(kind) \in Seq(Region)
  <2>1. Front(passed) \in Seq(Region) /\ Front(leftover) \in Seq(Exceptions)
    BY <1>2, <1>3, FrontType
  <2>2. Append(leftover, raising) \in Seq(Exceptions)
    <3> HIDE DEF leftover
    <3> QED BY <1>1, <1>3
  <2>3. ASSUME NEW kind \in Kinds PROVE Into(kind) \in Seq(Region)
    <3>1. [kind |-> kind, exc |-> raising] \in Region
      BY <1>1 DEF Region
    <3>2. PICK front \in Seq(Region) : front = Front(passed)
      BY <2>1
    <3> QED BY <3>1, <3>2
  <2> QED BY <2>1, <2>2, <2>3
<1>7. h.to \in {"except", "finally", "cleanup"}
  BY <1>2 DEF Handler
<1> DEFINE guard == [to |-> "cleanup", handled |-> Len(leftover) + 1]
<1>8. Append(rest, guard) \in Seq(Handler)
  <2> HIDE DEF rest, leftover
  <2> QED BY <1>2, <1>3 DEF Handler
<1> HIDE DEF h, rest, passed, f, leftover, guard
<1>9. CASE h.to = "except"
  <2>1. /\ handled' = Append(leftover, raising) /\ raising' = NoExc
        /\ stack' = WithTop([f EXCEPT !.scope = Into("clause"), !.handlers = Append(rest, guard)])
    BY <1>4, <1>5, <1>9 DEF Land, guard
  <2>2. Into("clause") \in Seq(Region)
    BY <1>6 DEF Kinds
  <2> HIDE DEF Into
  <2>3. \E g \in Frame : g.gen = Top.gen /\ stack' = WithTop(g)
    <3>1. PICK scope \in Seq(Region) : scope = Into("clause")
      BY <2>2
    <3>2. PICK handlers \in Seq(Handler) : handlers = Append(rest, guard)
      BY <1>8
    <3>3. stack' = WithTop([f EXCEPT !.scope = scope, !.handlers = handlers])
      BY <2>1, <3>1, <3>2
    <3> QED BY <1>4, <3>3, FrameTypes, ZenonT(30)
  <2> QED BY <1>1, <1>5, <1>6, <2>1, <2>3, FramesStay
<1>10. CASE h.to = "finally"
  <2>1. /\ handled' = Append(leftover, raising) /\ raising' = NoExc
        /\ stack' = WithTop([f EXCEPT !.scope = Into("interrupt")])
    BY <1>4, <1>5, <1>10 DEF Land
  <2>2. Into("interrupt") \in Seq(Region)
    BY <1>6 DEF Kinds
  <2> HIDE DEF Into
  <2>3. \E g \in Frame : g.gen = Top.gen /\ stack' = WithTop(g)
    BY <1>4, <2>1, <2>2, FrameTypes DEF Frame
  <2> QED BY <1>1, <1>5, <1>6, <2>1, <2>3, FramesStay
<1>11. CASE h.to = "cleanup"
  <2>1. /\ handled' = Front(leftover) /\ raising' = raising
        /\ stack' = WithTop([f EXCEPT !.scope = Front(passed)])
    BY <1>4, <1>5, <1>11 DEF Land
  <2>2. \E g \in Frame : g.gen = Top.gen /\ stack' = WithTop(g)
    BY <1>4, <1>6, <2>1, FrameTypes DEF Frame
  <2> QED BY <1>1, <1>5, <1>6, <2>1, <2>2, FramesStay
<1> QED BY <1>7, <1>9, <1>10, <1>11

LEMMA ArriveKeeps ==
  ASSUME Inv, Call \/ \E g \in Gens : Resume(g)
  PROVE  Inv'
<1>1. CASE UNCHANGED <<stack, handled, gens, depth>> /\ raising' \in Exceptions \union {NoExc}
  BY <1>1, FramesStay DEF Inv, TypeOK
<1>2. CASE Call
  <2> DEFINE f == NewFrame(NoGen, << >>, << >>)
  <2>1. CASE depth < Limit
    <3>1. f \in Frame /\ f.gen = NoGen
      BY DEF NewFrame, Frame, Inv, TypeOK
    <3>2. /\ stack' = Append(stack, f) /\ depth' = depth + 1
          /\ UNCHANGED <<handled, gens, raising>>
      BY <1>2, <2>1 DEF Call
    <3> HIDE DEF f
    <3> QED BY <2>1, <3>1, <3>2, FrameArrives, NamesAssumption DEF Inv, TypeOK
  <2>2. CASE ~(depth < Limit)
    BY <1>1, <1>2, <2>2 DEF Call, Exceptions
  <2> QED BY <2>1, <2>2
<1>3. ASSUME NEW g \in Gens, Resume(g) PROVE Inv'
  <2> DEFINE f == NewFrame(g, gens[g].scope, gens[g].handlers)
  <2>1. gens[g] \in GenState
    BY DEF Inv, TypeOK
  <2>2. CASE depth # Limit /\ gens[g].state = "suspended"
    <3>1. f \in Frame /\ f.gen = g
      BY <2>1, <2>2 DEF NewFrame, Frame, GenState, Inv, TypeOK
    <3>2. /\ stack' = Append(stack, f) /\ depth' = depth + 1
          /\ gens' = [gens EXCEPT ![g] = [state |-> "running"]]
          /\ UNCHANGED <<handled, raising>>
      BY <1>3, <2>2 DEF Resume
    <3>3. gens' \in [Gens -> GenState] /\ depth < Limit
      BY <2>2, <3>2, BoundsAssumption DEF Inv, TypeOK, GenState
    <3> HIDE DEF f
    <3>4. \A h \in Gens : IF f.gen = h THEN gens[h].state # "running" /\ gens'[h].state = "running"
                                        ELSE gens'[h] = gens[h]
      BY <2>2, <3>1, <3>2 DEF Inv, TypeOK
    <3> QED BY <3>1, <3>2, <3>3, <3>4, FrameArrives
  <2>3. CASE ~(depth # Limit /\ gens[g].state = "suspended")
    <3>1. gens[g].state \in {"suspended", "running", "done"}
      BY <2>1 DEF GenState
    <3>2. UNCHANGED <<stack, handled, gens, depth>> /\ raising' \in Exceptions \union {NoExc}
      BY <1>3, <2>3, <3>1 DEF Resume, Exceptions, Inv, TypeOK
    <3> QED BY <1>1, <3>2
  <2> QED BY <2>2, <2>3
<1> QED BY <1>2, <1>3

LEMMA LeaveKeeps ==
  ASSUME Inv, Return \/ Yield \/ Unwind
  PROVE  Inv'
<1>1. stack # << >> /\ Top \in Frame
  BY TopType DEF Return, Yield, Unwind, Running
<1>2. stack' = Below /\ depth' = depth - 1 /\ raising' = raising
  BY DEF Return, Yield, Unwind
<1>3. handled' \in Seq(Exceptions)
  <2>1. Truncate(handled, Top.outer) \in Seq(Exceptions)
    BY <1>1, TruncateType DEF Inv, TypeOK, Frame
  <2> QED BY <2>1 DEF Return, Yield, Unwind, Inv, TypeOK
<1>4. gens' \in [Gens -> GenState]
  <2>1. [state |-> "done"] \in GenState
    BY DEF GenState
  <2>2. [state |-> "suspended", scope |-> Top.scope, handlers |-> Top.handlers] \in GenState
    BY <1>1 DEF GenState, Frame
  <2> QED BY <2>1, <2>2 DEF Return, Yield, Unwind, Inv, TypeOK
<1>5. ASSUME NEW g \in Gens
      PROVE  IF Top.gen = g THEN gens'[g].state # "running" ELSE gens'[g] = gens[g]
  BY NamesAssumption DEF Return, Yield, Unwind, Inv, TypeOK
<1> QED BY <1>1, <1>2, <1>3, <1>4, <1>5, FrameLeaves

LEMMA InvStep == Inv /\ [Next]_vars => Inv'
<1> SUFFICES ASSUME Inv, [Next]_vars PROVE Inv'
  OBVIOUS
<1>1. CASE OpenTry \/ OpenGuarded
  BY <1>1, OpenKeeps DEF OpenTry, OpenGuarded, Kinds
<1>2. CASE Close \/ EndClause \/ EndInterrupt \/ AbandonInterrupt
  BY <1>2, LeaveRegionKeeps
<1>3. CASE NoMatch \/ BareRaise \/ \E e \in Excs : RaiseNew(e)
  BY <1>3, RaiseKeeps
<1>4. CASE Catch
  BY <1>4, CatchKeeps
<1>5. CASE Call \/ \E g \in Gens : Resume(g)
  BY <1>5, ArriveKeeps
<1>6. CASE Return \/ Yield \/ Unwind
  BY <1>6, LeaveKeeps
<1>7. CASE UNCHANGED vars
  BY <1>7 DEF vars, Inv, TypeOK, DepthIsFrames, RunningIsOnStack
<1> QED
  BY <1>1, <1>2, <1>3, <1>4, <1>5, <1>6, <1>7 DEF Next

LEMMA Invariant == Spec => []Inv
  BY InvInit, InvStep, PTL DEF Spec

(* The state keeps its type; the depth stays between zero and the limit on *)
(* every way in and out of a frame.                                        *)
THEOREM TypeCorrect == Spec => []TypeOK
  BY Invariant, PTL DEF Inv

(* The depth held against the limit is the number of frames: calls,        *)
(* generator steps, returns, yields and exceptions all balance.            *)
THEOREM DepthCounts == Spec => []DepthIsFrames
  BY Invariant, PTL DEF Inv

(* A generator is running exactly while its one frame is on the stack,     *)
(* however generators are nested, suspended, ended and raised out of.      *)
THEOREM GeneratorsRunOnce == Spec => []RunningIsOnStack
  BY Invariant, PTL DEF Inv

-----------------------------------------------------------------------------
(* Counting the positions of a sequence.                                   *)

Upto(P, n) == Cardinality({i \in 1 .. n : i \in P})

LEMMA UptoFinite == ASSUME NEW P, NEW n \in Nat PROVE IsFiniteSet({i \in 1 .. n : i \in P})
<1>1. IsFiniteSet(1 .. n)
  BY FS_Interval
<1>2. {i \in 1 .. n : i \in P} \subseteq 1 .. n
  OBVIOUS
<1> QED BY <1>1, <1>2, FS_Subset

LEMMA UptoType == ASSUME NEW P, NEW n \in Nat PROVE Upto(P, n) \in Nat
BY UptoFinite, FS_CardinalityType DEF Upto

LEMMA UptoZero == ASSUME NEW P PROVE Upto(P, 0) = 0
<1>1. {i \in 1 .. 0 : i \in P} = {}
  OBVIOUS
<1> QED BY <1>1, FS_EmptySet DEF Upto

LEMMA UptoNext ==
  ASSUME NEW P, NEW n \in Nat
  PROVE  Upto(P, n + 1) = IF n + 1 \in P THEN Upto(P, n) + 1 ELSE Upto(P, n)
<1> DEFINE S == {i \in 1 .. n : i \in P}
<1>1. IsFiniteSet(S)
  BY UptoFinite
<1>2. CASE n + 1 \in P
  <2>1. {i \in 1 .. n + 1 : i \in P} = S \union {n + 1} /\ n + 1 \notin S
    BY <1>2
  <2> HIDE DEF S
  <2>2. Cardinality(S \union {n + 1}) = Cardinality(S) + 1
    BY <1>1, <2>1, FS_AddElement
  <2> QED BY <1>2, <2>1, <2>2 DEF Upto, S
<1>3. CASE n + 1 \notin P
  <2>1. {i \in 1 .. n + 1 : i \in P} = S
    BY <1>3
  <2> QED BY <1>3, <2>1 DEF Upto
<1> QED BY <1>2, <1>3

LEMMA UptoGrows ==
  ASSUME NEW P, NEW m \in Nat, NEW n \in Nat, m <= n
  PROVE  Upto(P, m) <= Upto(P, n)
<1>1. IsFiniteSet({i \in 1 .. n : i \in P})
  BY UptoFinite
<1>2. {i \in 1 .. m : i \in P} \subseteq {i \in 1 .. n : i \in P}
  OBVIOUS
<1> QED BY <1>1, <1>2, FS_Subset DEF Upto

\* Positions that are not counted add nothing.
LEMMA UptoSame ==
  ASSUME NEW P, NEW Q, NEW m \in Nat, NEW n \in Nat,
         \A i \in Nat : i \in 1 .. m /\ i \in P <=> i \in 1 .. n /\ i \in Q
  PROVE  Upto(P, m) = Upto(Q, n)
<1>1. {i \in 1 .. m : i \in P} = {i \in 1 .. n : i \in Q}
  OBVIOUS
<1> QED BY <1>1 DEF Upto

-----------------------------------------------------------------------------
(* The regions that have a handler.                                        *)

Guarding(scope) == {i \in DOMAIN scope : HasHandler(scope[i])}

LEMMA GuardsUpto ==
  ASSUME NEW scope \in Seq(Region), NEW p \in 0 .. Len(scope)
  PROVE  Guards(scope, p) = Upto(Guarding(scope), p)
<1>1. {i \in 1 .. p : HasHandler(scope[i])} = {i \in 1 .. p : i \in Guarding(scope)}
  BY DEF Guarding
<1> QED BY <1>1 DEF Guards, Upto

LEMMA GuardsType ==
  ASSUME NEW scope \in Seq(Region), NEW p \in 0 .. Len(scope) PROVE Guards(scope, p) \in Nat
BY GuardsUpto, UptoType

LEMMA GuardsZero == ASSUME NEW scope \in Seq(Region) PROVE Guards(scope, 0) = 0
<1>1. 0 \in 0 .. Len(scope)
  OBVIOUS
<1> QED BY <1>1, GuardsUpto, UptoZero

LEMMA GuardsNext ==
  ASSUME NEW scope \in Seq(Region), NEW p \in 1 .. Len(scope)
  PROVE  /\ Guards(scope, p) = IF HasHandler(scope[p]) THEN Guards(scope, p - 1) + 1
                               ELSE Guards(scope, p - 1)
         /\ Guards(scope, p - 1) \in Nat
<1>1. p - 1 \in Nat /\ p - 1 \in 0 .. Len(scope) /\ p \in 0 .. Len(scope) /\ p - 1 + 1 = p
  OBVIOUS
<1>2. Upto(Guarding(scope), p) = IF p \in Guarding(scope) THEN Upto(Guarding(scope), p - 1) + 1
                                 ELSE Upto(Guarding(scope), p - 1)
  BY <1>1, UptoNext
<1>3. p \in Guarding(scope) <=> HasHandler(scope[p])
  BY DEF Guarding
<1> QED BY <1>1, <1>2, <1>3, GuardsUpto, GuardsType

LEMMA GuardsGrow ==
  ASSUME NEW scope \in Seq(Region), NEW p \in 0 .. Len(scope), NEW q \in 0 .. Len(scope), p <= q
  PROVE  Guards(scope, p) <= Guards(scope, q)
<1>1. p \in Nat /\ q \in Nat
  OBVIOUS
<1> QED BY <1>1, GuardsUpto, UptoGrows

\* A region that has a handler has one of those that are there.
LEMMA GuardsWithin ==
  ASSUME NEW scope \in Seq(Region), NEW p \in 1 .. Len(scope), HasHandler(scope[p]),
         NEW n \in p .. Len(scope)
  PROVE  Guards(scope, p) \in 1 .. Guards(scope, n)
<1>1. Guards(scope, p) = Guards(scope, p - 1) + 1 /\ Guards(scope, p - 1) \in Nat
  BY GuardsNext
<1>2. Guards(scope, p) <= Guards(scope, n) /\ Guards(scope, n) \in Nat
  <2>1. p \in 0 .. Len(scope) /\ n \in 0 .. Len(scope) /\ p <= n
    OBVIOUS
  <2> QED BY <2>1, GuardsGrow, GuardsType
<1> QED BY <1>1, <1>2

\* Only what comes before a place counts.
LEMMA GuardsPrefix ==
  ASSUME NEW s \in Seq(Region), NEW t \in Seq(Region), NEW p \in Nat,
         p <= Len(s), p <= Len(t), \A i \in 1 .. p : s[i] = t[i]
  PROVE  Guards(s, p) = Guards(t, p)
<1>1. {i \in 1 .. p : HasHandler(s[i])} = {i \in 1 .. p : HasHandler(t[i])}
  OBVIOUS
<1> QED BY <1>1 DEF Guards

-----------------------------------------------------------------------------
(* Handlers and regions that come and go together.                         *)

LEMMA SeqAppend ==
  ASSUME NEW S, NEW s \in Seq(S), NEW e \in S
  PROVE  /\ Append(s, e) \in Seq(S) /\ Len(Append(s, e)) = Len(s) + 1
         /\ \A i \in 1 .. Len(s) : Append(s, e)[i] = s[i]
         /\ Append(s, e)[Len(s) + 1] = e
OBVIOUS

LEMMA SeqFront ==
  ASSUME NEW S, NEW s \in Seq(S), s # << >>
  PROVE  /\ Front(s) \in Seq(S) /\ Len(Front(s)) = Len(s) - 1
         /\ \A i \in 1 .. Len(s) - 1 : Front(s)[i] = s[i]
         /\ Last(s) = s[Len(s)] /\ Last(s) \in S /\ Len(s) \in Nat \ {0}
<1> DEFINE n == Len(s)
<1>1. n \in Nat \ {0} /\ DOMAIN s = 1 .. n /\ \A i \in 1 .. n : s[i] \in S
  OBVIOUS
<1> HIDE DEF n
<1>2. \A i \in 1 .. n - 1 : s[i] \in S
  BY <1>1
<1>3. /\ SubSeq(s, 1, n - 1) \in Seq(S)
      /\ Len(SubSeq(s, 1, n - 1)) = IF 1 <= n - 1 THEN n - 1 - 1 + 1 ELSE 0
      /\ \A i \in 1 .. n - 1 - 1 + 1 : SubSeq(s, 1, n - 1)[i] = s[1 + i - 1]
  BY <1>1, <1>2, SubSeqProperties
<1>4. n - 1 - 1 + 1 = n - 1 /\ \A i \in 1 .. n - 1 : 1 + i - 1 = i
  BY <1>1
<1>5. Len(SubSeq(s, 1, n - 1)) = n - 1
  BY <1>1, <1>3
<1>6. \A i \in 1 .. n - 1 : SubSeq(s, 1, n - 1)[i] = s[i]
  BY <1>3, <1>4
<1>7. Last(s) = s[n] /\ Last(s) \in S
  BY <1>1 DEF Last, n
<1> QED BY <1>1, <1>3, <1>5, <1>6, <1>7 DEF Front, n

LEMMA FollowsEmpty == Follows(<< >>, << >>)
<1>1. << >> \in Seq(Region) /\ Len(<< >>) = 0 /\ DOMAIN << >> = {}
  OBVIOUS
<1>2. Guards(<< >>, 0) = 0
  BY <1>1, GuardsZero, Zenon
<1> QED BY <1>1, <1>2 DEF Follows

\* A region with its handler comes.
LEMMA FollowsAppend ==
  ASSUME NEW handlers \in Seq(Handler), NEW scope \in Seq(Region), Follows(handlers, scope),
         NEW h \in Handler, NEW r \in Region, HasHandler(r), h.to = LandsOn(r.kind)
  PROVE  Follows(Append(handlers, h), Append(scope, r))
<1> DEFINE hs == Append(handlers, h)
           sc == Append(scope, r)
           n == Len(scope)
<1>1. /\ hs \in Seq(Handler) /\ Len(hs) = Len(handlers) + 1
      /\ \A i \in 1 .. Len(handlers) : hs[i] = handlers[i]
      /\ hs[Len(handlers) + 1] = h
  BY SeqAppend
<1>2. /\ sc \in Seq(Region) /\ Len(sc) = n + 1 /\ sc[n + 1] = r
      /\ \A i \in 1 .. n : sc[i] = scope[i]
  BY SeqAppend
<1>3. n \in Nat /\ DOMAIN sc = 1 .. n + 1 /\ DOMAIN scope = 1 .. n
  BY <1>2
<1> HIDE DEF hs, sc, n
<1>4. ASSUME NEW p \in 0 .. n PROVE Guards(sc, p) = Guards(scope, p)
  <2>1. p \in Nat /\ p <= Len(sc) /\ p <= Len(scope) /\ \A i \in 1 .. p : sc[i] = scope[i]
    BY <1>2, <1>3 DEF n
  <2> QED BY <1>2, <2>1, GuardsPrefix
<1>5. Guards(sc, n + 1) = Guards(scope, n) + 1 /\ Guards(scope, n) = Len(handlers)
  <2>1. n + 1 \in 1 .. Len(sc) /\ n + 1 - 1 = n
    BY <1>2, <1>3
  <2>2. PICK m \in 1 .. Len(sc) : m = n + 1 /\ m - 1 = n
    BY <1>3, <2>1
  <2>3. Guards(sc, m) = IF HasHandler(sc[m]) THEN Guards(sc, m - 1) + 1 ELSE Guards(sc, m - 1)
    BY <1>2, GuardsNext
  <2>4. Guards(sc, n + 1) = Guards(sc, n) + 1
    BY <1>2, <2>2, <2>3
  <2> QED BY <1>3, <1>4, <2>4 DEF Follows, n
<1>6. ASSUME NEW p \in 1 .. n + 1, HasHandler(sc[p])
      PROVE  hs[Guards(sc, p)].to = LandsOn(sc[p].kind)
  <2>1. CASE p = n + 1
    BY <1>1, <1>2, <1>5, <2>1
  <2>2. CASE p # n + 1
    <3>1. p \in 1 .. n /\ p \in 0 .. n /\ p \in DOMAIN scope
      BY <1>3, <2>2
    <3>2. sc[p] = scope[p] /\ Guards(sc, p) = Guards(scope, p) /\ HasHandler(scope[p])
      BY <1>2, <1>4, <1>6, <3>1
    <3>3. Guards(scope, p) \in 1 .. Len(handlers)
      <4>1. p \in 1 .. Len(scope) /\ n \in p .. Len(scope)
        BY <1>3, <3>1 DEF n
      <4> QED BY <1>5, <3>2, <4>1, GuardsWithin
    <3> QED BY <1>1, <3>1, <3>2, <3>3 DEF Follows
  <2> QED BY <2>1, <2>2
<1> QED BY <1>1, <1>2, <1>3, <1>5, <1>6 DEF Follows, hs, sc

\* A region without a handler comes.
LEMMA FollowsAppendPlain ==
  ASSUME NEW handlers \in Seq(Handler), NEW scope \in Seq(Region), Follows(handlers, scope),
         NEW r \in Region, ~HasHandler(r)
  PROVE  Follows(handlers, Append(scope, r))
<1> DEFINE sc == Append(scope, r)
           n == Len(scope)
<1>1. /\ sc \in Seq(Region) /\ Len(sc) = n + 1 /\ sc[n + 1] = r
      /\ \A i \in 1 .. n : sc[i] = scope[i]
  BY SeqAppend
<1>2. n \in Nat /\ DOMAIN sc = 1 .. n + 1 /\ DOMAIN scope = 1 .. n
  BY <1>1
<1> HIDE DEF sc, n
<1>3. ASSUME NEW p \in 0 .. n PROVE Guards(sc, p) = Guards(scope, p)
  <2>1. p \in Nat /\ p <= Len(sc) /\ p <= Len(scope) /\ \A i \in 1 .. p : sc[i] = scope[i]
    BY <1>1, <1>2 DEF n
  <2> QED BY <1>1, <2>1, GuardsPrefix
<1>4. Guards(sc, n + 1) = Guards(scope, n)
  <2>1. n + 1 \in 1 .. Len(sc) /\ n + 1 - 1 = n
    BY <1>1, <1>2
  <2>2. PICK m \in 1 .. Len(sc) : m = n + 1 /\ m - 1 = n
    BY <1>2, <2>1
  <2>3. Guards(sc, m) = IF HasHandler(sc[m]) THEN Guards(sc, m - 1) + 1 ELSE Guards(sc, m - 1)
    BY <1>1, GuardsNext
  <2>4. Guards(sc, n + 1) = Guards(sc, n)
    BY <1>1, <2>2, <2>3
  <2> QED BY <1>2, <1>3, <2>4
<1>5. ASSUME NEW p \in 1 .. n + 1, HasHandler(sc[p])
      PROVE  handlers[Guards(sc, p)].to = LandsOn(sc[p].kind)
  <2>1. p # n + 1
    BY <1>1, <1>5
  <2>2. p \in 1 .. n /\ p \in 0 .. n
    BY <1>2, <2>1
  <2> QED BY <1>1, <1>2, <1>3, <1>5, <2>2 DEF Follows
<1> QED BY <1>1, <1>2, <1>4, <1>5 DEF Follows, sc, n

\* The innermost region goes, with its handler if it has one.
LEMMA FollowsFront ==
  ASSUME NEW handlers \in Seq(Handler), NEW scope \in Seq(Region), Follows(handlers, scope),
         scope # << >>
  PROVE  IF HasHandler(Last(scope))
           THEN /\ handlers # << >> /\ Last(handlers).to = LandsOn(Last(scope).kind)
                /\ Follows(Front(handlers), Front(scope))
           ELSE Follows(handlers, Front(scope))
<1> DEFINE sc == Front(scope)
           n == Len(scope)
<1>1. /\ sc \in Seq(Region) /\ Len(sc) = n - 1 /\ n \in Nat \ {0}
      /\ \A i \in 1 .. n - 1 : sc[i] = scope[i]
      /\ Last(scope) = scope[n]
  BY SeqFront
<1>2. DOMAIN sc = 1 .. n - 1 /\ DOMAIN scope = 1 .. n /\ n - 1 \in Nat
  BY <1>1
<1> HIDE DEF sc, n
<1>3. ASSUME NEW p \in 0 .. n - 1 PROVE Guards(sc, p) = Guards(scope, p)
  <2>1. p \in Nat /\ p <= Len(sc) /\ p <= Len(scope) /\ \A i \in 1 .. p : sc[i] = scope[i]
    BY <1>1, <1>2 DEF n
  <2> QED BY <1>1, <2>1, GuardsPrefix
<1>4. /\ Len(handlers) = Guards(scope, n) /\ Guards(sc, n - 1) = Guards(scope, n - 1)
      /\ Guards(scope, n) = IF HasHandler(scope[n]) THEN Guards(scope, n - 1) + 1 ELSE Guards(scope, n - 1)
      /\ Guards(scope, n - 1) \in Nat
  <2>1. n \in 1 .. Len(scope) /\ n - 1 \in 0 .. n - 1 /\ n = Len(scope)
    BY <1>1, <1>2 DEF n
  <2>2. /\ Guards(scope, n) = IF HasHandler(scope[n]) THEN Guards(scope, n - 1) + 1 ELSE Guards(scope, n - 1)
        /\ Guards(scope, n - 1) \in Nat
    BY <2>1, GuardsNext
  <2> QED BY <1>3, <2>1, <2>2 DEF Follows
<1>5. CASE HasHandler(scope[n])
  <2> DEFINE hs == Front(handlers)
  <2>1. handlers # << >>
    BY <1>4, <1>5
  <2>2. /\ hs \in Seq(Handler) /\ Len(hs) = Len(handlers) - 1
        /\ \A i \in 1 .. Len(handlers) - 1 : hs[i] = handlers[i]
        /\ Last(handlers) = handlers[Len(handlers)]
    BY <2>1, SeqFront
  <2> HIDE DEF hs
  <2>3. Last(handlers).to = LandsOn(Last(scope).kind)
    BY <1>1, <1>2, <1>4, <1>5, <2>2 DEF Follows
  <2>4. Len(hs) = Guards(sc, Len(sc))
    BY <1>1, <1>4, <1>5, <2>2
  <2>5. ASSUME NEW p \in 1 .. n - 1, HasHandler(sc[p])
        PROVE  hs[Guards(sc, p)].to = LandsOn(sc[p].kind)
    <3>1. p \in 0 .. n - 1 /\ p \in DOMAIN scope /\ p \in DOMAIN sc /\ sc[p] = scope[p]
      BY <1>1, <1>2
    <3>2. Guards(sc, p) = Guards(scope, p)
      BY <1>3, <3>1
    <3>3. Guards(sc, p) \in 1 .. Len(handlers) - 1
      <4>1. p \in 1 .. Len(sc) /\ n - 1 \in p .. Len(sc)
        BY <1>1, <1>2
      <4>2. Guards(sc, p) \in 1 .. Guards(sc, n - 1)
        BY <1>1, <2>5, <4>1, GuardsWithin
      <4> QED BY <1>4, <1>5, <4>2
    <3>4. handlers[Guards(scope, p)].to = LandsOn(scope[p].kind)
      BY <2>5, <3>1 DEF Follows
    <3> QED BY <2>2, <3>1, <3>2, <3>3, <3>4
  <2>6. Follows(hs, sc)
    BY <1>2, <2>4, <2>5 DEF Follows
  <2> QED BY <1>1, <1>5, <2>1, <2>3, <2>6 DEF hs, sc
<1>6. CASE ~HasHandler(scope[n])
  <2>1. ASSUME NEW p \in 1 .. n - 1, HasHandler(sc[p])
        PROVE  handlers[Guards(sc, p)].to = LandsOn(sc[p].kind)
    <3>1. p \in 0 .. n - 1 /\ p \in DOMAIN scope /\ sc[p] = scope[p]
      BY <1>1, <1>2
    <3> QED BY <1>3, <2>1, <3>1 DEF Follows
  <2>2. Follows(handlers, sc)
    BY <1>1, <1>2, <1>4, <1>6, <2>1 DEF Follows
  <2> QED BY <1>1, <1>6, <2>2 DEF sc
<1> QED BY <1>5, <1>6

\* What an exception passes on its way to a handler: the regions behind the
\* last one that has one.
LEMMA PassedShape ==
  ASSUME NEW scope \in Seq(Region)
  PROVE  \E p \in 0 .. Len(scope) :
           /\ Passed(scope) \in Seq(Region) /\ Len(Passed(scope)) = p
           /\ \A i \in 1 .. p : Passed(scope)[i] = scope[i]
           /\ p > 0 => HasHandler(scope[p])
           /\ \A i \in p + 1 .. Len(scope) : ~HasHandler(scope[i])
<1> DEFINE guards == {i \in DOMAIN scope : scope[i].kind # "interrupt"}
           last == CHOOSE i \in guards : \A j \in guards : j <= i
           n == Len(scope)
<1>1. n \in Nat /\ DOMAIN scope = 1 .. n /\ \A i \in 1 .. n : scope[i] \in Region
  OBVIOUS
<1>2. CASE guards = {}
  <2>1. Passed(scope) = << >>
    BY <1>2 DEF Passed
  <2>2. \A i \in 1 .. n : ~HasHandler(scope[i])
    BY <1>1, <1>2 DEF HasHandler
  <2>3. << >> \in Seq(Region) /\ Len(<< >>) = 0 /\ 0 \in 0 .. n /\ ~(0 > 0)
    BY <1>1
  <2>4. \A i \in 0 + 1 .. n : ~HasHandler(scope[i])
    BY <1>1, <2>2
  <2>5. \A i \in 1 .. 0 : << >>[i] = scope[i]
    OBVIOUS
  <2> QED BY <2>1, <2>3, <2>4, <2>5
<1>3. CASE guards # {}
  <2>1. guards \in SUBSET (1 .. n)
    BY <1>1
  <2>2. \E i \in guards : \A j \in guards : j <= i
    <3> HIDE DEF guards
    <3> QED BY <1>1, <1>3, <2>1, LastPosition
  <2>3. last \in guards /\ \A j \in guards : j <= last
    BY <2>2
  <2>4. Passed(scope) = SubSeq(scope, 1, last)
    BY <1>3 DEF Passed
  <2>5. HasHandler(scope[last])
    BY <2>3 DEF HasHandler
  <2>6. \A i \in 1 .. n : i \notin guards => ~HasHandler(scope[i])
    BY <1>1 DEF HasHandler
  <2> HIDE DEF last, guards, n
  <2>7. last \in 1 .. n
    BY <2>1, <2>3
  <2>8. \A i \in last + 1 .. n : ~HasHandler(scope[i])
    BY <1>1, <2>1, <2>3, <2>6, <2>7
  <2>9. /\ Passed(scope) \in Seq(Region) /\ Len(Passed(scope)) = last
        /\ \A i \in 1 .. last : Passed(scope)[i] = scope[i]
    <3>1. \A i \in 1 .. last : scope[i] \in Region
      BY <1>1, <2>7
    <3>2. /\ SubSeq(scope, 1, last) \in Seq(Region)
          /\ Len(SubSeq(scope, 1, last)) = IF 1 <= last THEN last - 1 + 1 ELSE 0
          /\ \A i \in 1 .. last - 1 + 1 : SubSeq(scope, 1, last)[i] = scope[1 + i - 1]
      BY <1>1, <2>7, <3>1, SubSeqProperties
    <3>3. last - 1 + 1 = last /\ 1 <= last /\ \A i \in 1 .. last : 1 + i - 1 = i
      BY <1>1, <2>7
    <3> QED BY <2>4, <3>2, <3>3
  <2> QED BY <1>1, <2>5, <2>7, <2>8, <2>9 DEF n
<1> QED BY <1>2, <1>3

LEMMA FollowsPassed ==
  ASSUME NEW handlers \in Seq(Handler), NEW scope \in Seq(Region), Follows(handlers, scope)
  PROVE  /\ Follows(handlers, Passed(scope))
         /\ handlers # << >> => Passed(scope) # << >> /\ HasHandler(Last(Passed(scope)))
<1> DEFINE sc == Passed(scope)
           n == Len(scope)
<1>1. PICK p \in 0 .. n :
           /\ sc \in Seq(Region) /\ Len(sc) = p /\ \A i \in 1 .. p : sc[i] = scope[i]
           /\ p > 0 => HasHandler(scope[p])
           /\ \A i \in p + 1 .. n : ~HasHandler(scope[i])
  BY PassedShape
<1>2. n \in Nat /\ p \in Nat /\ DOMAIN sc = 1 .. p /\ DOMAIN scope = 1 .. n
  BY <1>1
<1> HIDE DEF sc, n
<1>3. ASSUME NEW q \in 0 .. p PROVE Guards(sc, q) = Guards(scope, q)
  <2>1. q \in Nat /\ q <= Len(sc) /\ q <= Len(scope) /\ \A i \in 1 .. q : sc[i] = scope[i]
    BY <1>1, <1>2 DEF n
  <2> QED BY <1>1, <2>1, GuardsPrefix
<1>4. Guards(scope, p) = Guards(scope, n)
  <2>1. {i \in 1 .. p : HasHandler(scope[i])} = {i \in 1 .. n : HasHandler(scope[i])}
    BY <1>1, <1>2
  <2> QED BY <2>1 DEF Guards
<1>5. Len(handlers) = Guards(sc, p)
  BY <1>2, <1>3, <1>4 DEF Follows, n
<1>6. ASSUME NEW q \in 1 .. p, HasHandler(sc[q])
      PROVE  handlers[Guards(sc, q)].to = LandsOn(sc[q].kind)
  <2>1. q \in 0 .. p /\ q \in DOMAIN scope /\ sc[q] = scope[q]
    BY <1>1, <1>2
  <2> QED BY <1>3, <1>6, <2>1 DEF Follows
<1>7. Follows(handlers, sc)
  BY <1>1, <1>2, <1>5, <1>6 DEF Follows
<1>8. ASSUME handlers # << >> PROVE sc # << >> /\ HasHandler(Last(sc))
  <2>1. p # 0
    <3>1. Len(handlers) # 0
      BY <1>8
    <3>2. Guards(sc, 0) = 0
      BY <1>1, GuardsZero
    <3> QED BY <1>5, <3>1, <3>2
  <2>2. sc # << >> /\ Last(sc) = sc[p] /\ sc[p] = scope[p]
    BY <1>1, <1>2, <2>1 DEF Last
  <2> QED BY <1>1, <1>2, <2>1, <2>2
<1> QED BY <1>7, <1>8 DEF sc

-----------------------------------------------------------------------------
(* The invariant: the handlers a generator left with are those of the      *)
(* regions it left from, too.                                              *)

SuspendedFollow ==
  \A g \in Gens : gens[g].state = "suspended" => Follows(gens[g].handlers, gens[g].scope)

HandlersInv == Inv /\ HandlersFollowScope /\ SuspendedFollow

LEMMA TopFollows ==
  ASSUME HandlersInv, stack # << >>
  PROVE  /\ Top \in Frame /\ Top.handlers \in Seq(Handler) /\ Top.scope \in Seq(Region)
         /\ Follows(Top.handlers, Top.scope)
<1>1. Top \in Frame
  BY TopType DEF HandlersInv
<1>2. Len(stack) \in DOMAIN stack
  BY DEF HandlersInv, Inv, TypeOK
<1> QED BY <1>1, <1>2 DEF HandlersInv, HandlersFollowScope, Top, Frame

LEMMA TopChanges ==
  ASSUME HandlersInv, Inv', stack # << >>, UNCHANGED gens, NEW f,
         stack' = WithTop(f), Follows(f.handlers, f.scope)
  PROVE  HandlersInv'
<1>1. stack \in Seq(Frame) /\ DOMAIN stack' = DOMAIN stack
  BY DEF WithTop, HandlersInv, Inv, TypeOK
<1>2. ASSUME NEW k \in DOMAIN stack PROVE Follows(stack'[k].handlers, stack'[k].scope)
  BY <1>1 DEF WithTop, HandlersInv, HandlersFollowScope
<1> QED BY <1>1, <1>2 DEF HandlersInv, HandlersFollowScope, SuspendedFollow

LEMMA TopArrives ==
  ASSUME HandlersInv, Inv', SuspendedFollow', NEW f \in Frame,
         stack' = Append(stack, f), Follows(f.handlers, f.scope)
  PROVE  HandlersInv'
<1>1. stack \in Seq(Frame)
  BY DEF HandlersInv, Inv, TypeOK
<1>2. /\ Len(stack') = Len(stack) + 1 /\ DOMAIN stack' = 1 .. Len(stack) + 1
      /\ \A k \in DOMAIN stack : stack'[k] = stack[k]
      /\ stack'[Len(stack) + 1] = f
  BY <1>1
<1>3. ASSUME NEW k \in DOMAIN stack' PROVE Follows(stack'[k].handlers, stack'[k].scope)
  <2>1. CASE k = Len(stack) + 1
    BY <1>2, <2>1
  <2>2. CASE k # Len(stack) + 1
    <3>1. k \in DOMAIN stack
      BY <1>1, <1>2, <2>2
    <3> QED BY <1>2, <3>1 DEF HandlersInv, HandlersFollowScope
  <2> QED BY <2>1, <2>2
<1> QED BY <1>3 DEF HandlersInv, HandlersFollowScope

LEMMA TopLeaves ==
  ASSUME HandlersInv, Inv', SuspendedFollow', stack # << >>, stack' = Below
  PROVE  HandlersInv'
<1>1. stack \in Seq(Frame) /\ stack' = Front(stack)
  BY DEF Below, Front, HandlersInv, Inv, TypeOK
<1>2. /\ DOMAIN stack' \subseteq DOMAIN stack
      /\ \A k \in DOMAIN stack' : stack'[k] = stack[k]
  <2>1. /\ stack' \in Seq(Frame) /\ Len(stack') = Len(stack) - 1 /\ Len(stack) \in Nat
        /\ \A i \in 1 .. Len(stack) - 1 : stack'[i] = stack[i]
    BY <1>1, SeqFront
  <2>2. DOMAIN stack' = 1 .. Len(stack) - 1 /\ DOMAIN stack = 1 .. Len(stack)
    BY <1>1, <2>1
  <2> QED BY <2>1, <2>2
<1> QED BY <1>2 DEF HandlersInv, HandlersFollowScope

LEMMA RaisingOnly ==
  ASSUME HandlersInv, Inv', UNCHANGED <<stack, gens>>
  PROVE  HandlersInv'
BY DEF HandlersInv, HandlersFollowScope, SuspendedFollow

-----------------------------------------------------------------------------
(* One action after the other.                                             *)

LEMMA FollowsInit == Init => HandlersInv
<1> SUFFICES ASSUME Init PROVE HandlersInv
  OBVIOUS
<1>1. Inv
  BY InvInit
<1>2. ASSUME NEW k \in DOMAIN stack PROVE stack[k].handlers = << >> /\ stack[k].scope = << >>
  BY DEF Init, NewFrame
<1> QED BY <1>1, <1>2, FollowsEmpty DEF Init, HandlersInv, HandlersFollowScope, SuspendedFollow

LEMMA OpenFollows ==
  ASSUME HandlersInv, Inv', OpenTry \/ OpenGuarded
  PROVE  HandlersInv'
<1>1. PICK kind \in {"try", "guarded"}, to \in {"except", "finally"} :
        to = LandsOn(kind) /\ Open(kind, to)
  BY DEF OpenTry, OpenGuarded, LandsOn
<1> DEFINE r == [kind |-> kind, exc |-> NoExc]
           h == [to |-> to, handled |-> Len(handled)]
           f == [Top EXCEPT !.scope = Append(@, r), !.handlers = Append(@, h)]
<1>2. stack # << >> /\ UNCHANGED gens /\ stack' = WithTop(f)
  BY <1>1 DEF Open, Running
<1>3. r \in Region /\ HasHandler(r) /\ h \in Handler /\ h.to = LandsOn(r.kind)
  BY <1>1 DEF Region, Kinds, HasHandler, Handler, HandlersInv, Inv, TypeOK
<1>4. f.scope = Append(Top.scope, r) /\ f.handlers = Append(Top.handlers, h)
  BY <1>2, TopFollows DEF Frame
<1> HIDE DEF r, h, f
<1>5. Follows(f.handlers, f.scope)
  BY <1>2, <1>3, <1>4, TopFollows, FollowsAppend
<1> QED BY <1>2, <1>5, TopChanges

LEMMA LeaveRegionFollows ==
  ASSUME HandlersInv, Inv', Close \/ EndClause \/ EndInterrupt \/ AbandonInterrupt
  PROVE  HandlersInv'
<1>1. stack # << >> /\ UNCHANGED gens /\ Top.scope # << >>
  BY DEF Close, EndClause, EndInterrupt, AbandonInterrupt, Running, InRegion
<1>2. /\ Top \in Frame /\ Top.handlers \in Seq(Handler) /\ Top.scope \in Seq(Region)
      /\ Follows(Top.handlers, Top.scope)
  BY <1>1, TopFollows
<1>3. CASE Close \/ EndClause
  <2> DEFINE f == [Top EXCEPT !.scope = Front(@), !.handlers = Front(@)]
  <2>1. stack' = WithTop(f) /\ HasHandler(Last(Top.scope))
    BY <1>3 DEF Close, EndClause, InRegion, HasHandler
  <2>2. f.scope = Front(Top.scope) /\ f.handlers = Front(Top.handlers)
    BY <1>2 DEF Frame
  <2> HIDE DEF f
  <2>3. Follows(f.handlers, f.scope)
    BY <1>1, <1>2, <2>1, <2>2, FollowsFront
  <2> QED BY <1>1, <2>1, <2>3, TopChanges
<1>4. CASE EndInterrupt \/ AbandonInterrupt
  <2> DEFINE f == [Top EXCEPT !.scope = Front(@)]
  <2>1. stack' = WithTop(f) /\ ~HasHandler(Last(Top.scope))
    BY <1>4 DEF EndInterrupt, AbandonInterrupt, InRegion, HasHandler
  <2>2. f.scope = Front(Top.scope) /\ f.handlers = Top.handlers
    BY <1>2 DEF Frame
  <2> HIDE DEF f
  <2>3. Follows(f.handlers, f.scope)
    BY <1>1, <1>2, <2>1, <2>2, FollowsFront
  <2> QED BY <1>1, <2>1, <2>3, TopChanges
<1> QED BY <1>3, <1>4

LEMMA CatchFollows ==
  ASSUME HandlersInv, Inv', Catch
  PROVE  HandlersInv'
<1> DEFINE h == Last(Top.handlers)
           rest == Front(Top.handlers)
           passed == Passed(Top.scope)
           f == [Top EXCEPT !.handlers = rest, !.scope = passed]
           leftover == Truncate(handled, h.handled)
           Into(kind) == Append(Front(passed), [kind |-> kind, exc |-> raising])
           guard == [to |-> "cleanup", handled |-> Len(leftover) + 1]
<1>1. stack # << >> /\ UNCHANGED gens /\ Top.handlers # << >> /\ Land(h, f, leftover) /\ raising \in Exceptions
  BY DEF Catch, HandlersInv, Inv, TypeOK
<1>2. /\ Top \in Frame /\ Top.handlers \in Seq(Handler) /\ Top.scope \in Seq(Region)
      /\ Follows(Top.handlers, Top.scope)
  BY <1>1, TopFollows
<1>3. /\ passed \in Seq(Region) /\ passed # << >> /\ HasHandler(Last(passed))
      /\ Follows(Top.handlers, passed)
  BY <1>1, <1>2, PassedType, FollowsPassed
<1>4. Follows(rest, Front(passed)) /\ h.to = LandsOn(Last(passed).kind)
  <2> HIDE DEF passed
  <2> QED BY <1>2, <1>3, FollowsFront
<1>5. rest \in Seq(Handler) /\ Front(passed) \in Seq(Region) /\ h \in Handler
  BY <1>1, <1>2, <1>3, SeqFront
<1>6. f.handlers = rest /\ f.scope = passed /\ f \in Frame
  BY <1>2, <1>3, <1>5 DEF Frame
<1>7. guard \in Handler
  <2>1. leftover \in Seq(Exceptions)
    BY <1>5, TruncateType DEF HandlersInv, Inv, TypeOK, Handler
  <2> HIDE DEF leftover
  <2> QED BY <2>1 DEF Handler
<1> HIDE DEF h, rest, passed, f, leftover, guard
<1>8. CASE h.to = "except"
  <2> DEFINE g == [f EXCEPT !.scope = Into("clause"), !.handlers = Append(rest, guard)]
             r == [kind |-> "clause", exc |-> raising]
  <2>1. stack' = WithTop(g)
    BY <1>1, <1>6, <1>8 DEF Land, guard
  <2>2. g.scope = Append(Front(passed), r) /\ g.handlers = Append(rest, guard)
    BY <1>6 DEF Frame
  <2>3. r \in Region /\ HasHandler(r) /\ guard.to = LandsOn(r.kind)
    BY <1>1 DEF Region, Kinds, HasHandler, LandsOn, guard
  <2> HIDE DEF g, r
  <2>4. Follows(g.handlers, g.scope)
    BY <1>4, <1>5, <1>7, <2>2, <2>3, FollowsAppend
  <2> QED BY <1>1, <2>1, <2>4, TopChanges
<1>9. CASE h.to = "finally"
  <2> DEFINE g == [f EXCEPT !.scope = Into("interrupt")]
             r == [kind |-> "interrupt", exc |-> raising]
  <2>1. stack' = WithTop(g)
    BY <1>1, <1>6, <1>9 DEF Land
  <2>2. g.scope = Append(Front(passed), r) /\ g.handlers = rest
    BY <1>6 DEF Frame
  <2>3. r \in Region /\ ~HasHandler(r)
    BY <1>1 DEF Region, Kinds, HasHandler
  <2> HIDE DEF g, r
  <2>4. Follows(g.handlers, g.scope)
    BY <1>4, <1>5, <2>2, <2>3, FollowsAppendPlain
  <2> QED BY <1>1, <2>1, <2>4, TopChanges
<1>10. CASE h.to = "cleanup"
  <2> DEFINE g == [f EXCEPT !.scope = Front(passed)]
  <2>1. stack' = WithTop(g)
    BY <1>1, <1>6, <1>10 DEF Land
  <2>2. g.scope = Front(passed) /\ g.handlers = rest
    BY <1>6 DEF Frame
  <2> HIDE DEF g
  <2> QED BY <1>1, <1>4, <2>1, <2>2, TopChanges
<1> QED BY <1>5, <1>8, <1>9, <1>10 DEF Handler

LEMMA ArriveFollows ==
  ASSUME HandlersInv, Inv', Call \/ \E g \in Gens : Resume(g)
  PROVE  HandlersInv'
<1>1. CASE UNCHANGED <<stack, gens>>
  BY <1>1, RaisingOnly
<1>2. CASE Call /\ depth < Limit
  <2> DEFINE f == NewFrame(NoGen, << >>, << >>)
  <2>1. stack' = Append(stack, f) /\ UNCHANGED gens
    BY <1>2 DEF Call
  <2>2. f \in Frame /\ f.handlers = << >> /\ f.scope = << >>
    BY DEF NewFrame, Frame, HandlersInv, Inv, TypeOK
  <2> HIDE DEF f
  <2>3. SuspendedFollow'
    BY <2>1 DEF HandlersInv, SuspendedFollow
  <2> QED BY <2>1, <2>2, <2>3, FollowsEmpty, TopArrives
<1>3. ASSUME NEW g \in Gens, Resume(g), depth # Limit, gens[g].state = "suspended"
      PROVE  HandlersInv'
  <2> DEFINE f == NewFrame(g, gens[g].scope, gens[g].handlers)
  <2>1. gens \in [Gens -> GenState] /\ gens[g] \in GenState /\ handled \in Seq(Exceptions)
    BY DEF HandlersInv, Inv, TypeOK
  <2>2. stack' = Append(stack, f) /\ gens' = [gens EXCEPT ![g] = [state |-> "running"]]
    BY <1>3 DEF Resume
  <2>3. f \in Frame /\ f.handlers = gens[g].handlers /\ f.scope = gens[g].scope
    BY <1>3, <2>1 DEF NewFrame, Frame, GenState
  <2> HIDE DEF f
  <2>4. SuspendedFollow'
    BY <2>1, <2>2 DEF HandlersInv, SuspendedFollow
  <2>5. Follows(f.handlers, f.scope)
    BY <1>3, <2>3 DEF HandlersInv, SuspendedFollow
  <2> QED BY <2>2, <2>3, <2>4, <2>5, TopArrives
<1>4. ASSUME NEW g \in Gens, Resume(g), ~(depth # Limit /\ gens[g].state = "suspended")
      PROVE  UNCHANGED <<stack, gens>>
  <2>1. gens[g].state \in {"suspended", "running", "done"}
    BY DEF HandlersInv, Inv, TypeOK, GenState
  <2> QED BY <1>4, <2>1 DEF Resume
<1>5. ASSUME Call, ~(depth < Limit) PROVE UNCHANGED <<stack, gens>>
  BY <1>5 DEF Call
<1> QED BY <1>1, <1>2, <1>3, <1>4, <1>5

LEMMA LeaveFollows ==
  ASSUME HandlersInv, Inv', Return \/ Yield \/ Unwind
  PROVE  HandlersInv'
<1>1. stack # << >> /\ stack' = Below
  BY DEF Return, Yield, Unwind, Running
<1>2. /\ Follows(Top.handlers, Top.scope) /\ gens \in [Gens -> GenState]
  BY <1>1, TopFollows DEF HandlersInv, Inv, TypeOK
<1>3. \/ gens' = gens
      \/ gens' = [gens EXCEPT ![Top.gen] = [state |-> "done"]]
      \/ gens' = [gens EXCEPT ![Top.gen] =
                    [state |-> "suspended", scope |-> Top.scope, handlers |-> Top.handlers]]
  BY DEF Return, Yield, Unwind
<1>4. SuspendedFollow'
  BY <1>2, <1>3 DEF HandlersInv, SuspendedFollow
<1> QED BY <1>1, <1>4, TopLeaves

LEMMA FollowsStep == HandlersInv /\ [Next]_vars => HandlersInv'
<1> SUFFICES ASSUME HandlersInv, [Next]_vars PROVE HandlersInv'
  OBVIOUS
<1>1. Inv'
  BY InvStep DEF HandlersInv
<1>2. CASE OpenTry \/ OpenGuarded
  BY <1>1, <1>2, OpenFollows
<1>3. CASE Close \/ EndClause \/ EndInterrupt \/ AbandonInterrupt
  BY <1>1, <1>3, LeaveRegionFollows
<1>4. CASE NoMatch \/ BareRaise \/ \E e \in Excs : RaiseNew(e)
  BY <1>1, <1>4, RaisingOnly DEF NoMatch, BareRaise, RaiseNew
<1>5. CASE Catch
  BY <1>1, <1>5, CatchFollows
<1>6. CASE Call \/ \E g \in Gens : Resume(g)
  BY <1>1, <1>6, ArriveFollows
<1>7. CASE Return \/ Yield \/ Unwind
  BY <1>1, <1>7, LeaveFollows
<1>8. CASE UNCHANGED vars
  BY <1>1, <1>8, RaisingOnly DEF vars
<1> QED
  BY <1>2, <1>3, <1>4, <1>5, <1>6, <1>7, <1>8 DEF Next

(* A frame has the handlers of the regions it is inside, and no others,    *)
(* for any nesting of try statements, on every way into and out of them,   *)
(* and wherever generators yield and are stepped again.                    *)
THEOREM HandlersAreOfScope == Spec => []HandlersFollowScope
<1>1. Spec => []HandlersInv
  BY FollowsInit, FollowsStep, PTL DEF Spec
<1> QED BY <1>1, PTL DEF HandlersInv

-----------------------------------------------------------------------------
(* Counting the regions that hold an exception.                            *)

Catching(scope) == {i \in DOMAIN scope : Caught(scope[i])}

LEMMA ClausesUpto ==
  ASSUME NEW scope \in Seq(Region), NEW p \in 0 .. Len(scope)
  PROVE  Clauses(scope, p) = Upto(Catching(scope), p)
<1>1. {i \in 1 .. p : Caught(scope[i])} = {i \in 1 .. p : i \in Catching(scope)}
  BY DEF Catching
<1> QED BY <1>1 DEF Clauses, Upto

LEMMA ClausesType ==
  ASSUME NEW scope \in Seq(Region), NEW p \in 0 .. Len(scope) PROVE Clauses(scope, p) \in Nat
BY ClausesUpto, UptoType

LEMMA ClausesZero == ASSUME NEW scope \in Seq(Region) PROVE Clauses(scope, 0) = 0
<1>1. 0 \in 0 .. Len(scope)
  OBVIOUS
<1> QED BY <1>1, ClausesUpto, UptoZero

LEMMA ClausesNext ==
  ASSUME NEW scope \in Seq(Region), NEW p \in 1 .. Len(scope)
  PROVE  /\ Clauses(scope, p) = IF Caught(scope[p]) THEN Clauses(scope, p - 1) + 1
                                ELSE Clauses(scope, p - 1)
         /\ Clauses(scope, p - 1) \in Nat
<1>1. p - 1 \in Nat /\ p - 1 \in 0 .. Len(scope) /\ p \in 0 .. Len(scope) /\ p - 1 + 1 = p
  OBVIOUS
<1>2. Upto(Catching(scope), p) = IF p \in Catching(scope) THEN Upto(Catching(scope), p - 1) + 1
                                 ELSE Upto(Catching(scope), p - 1)
  BY <1>1, UptoNext
<1>3. p \in Catching(scope) <=> Caught(scope[p])
  BY DEF Catching
<1> QED BY <1>1, <1>2, <1>3, ClausesUpto, ClausesType

LEMMA ClausesGrow ==
  ASSUME NEW scope \in Seq(Region), NEW p \in 0 .. Len(scope), NEW q \in 0 .. Len(scope), p <= q
  PROVE  Clauses(scope, p) <= Clauses(scope, q)
<1>1. p \in Nat /\ q \in Nat
  OBVIOUS
<1> QED BY <1>1, ClausesUpto, UptoGrows

LEMMA ClausesPrefix ==
  ASSUME NEW s \in Seq(Region), NEW t \in Seq(Region), NEW p \in Nat,
         p <= Len(s), p <= Len(t), \A i \in 1 .. p : s[i] = t[i]
  PROVE  Clauses(s, p) = Clauses(t, p)
<1>1. {i \in 1 .. p : Caught(s[i])} = {i \in 1 .. p : Caught(t[i])}
  OBVIOUS
<1> QED BY <1>1 DEF Clauses

-----------------------------------------------------------------------------
(* A frame whose exceptions are in their places: those its clauses caught  *)
(* lie between outer and to, and each handler remembers how many there     *)
(* were where its region is.                                               *)

Settled(f, to, held) ==
  /\ to = f.outer + Clauses(f.scope, Len(f.scope))
  /\ \A p \in DOMAIN f.scope :
       /\ Caught(f.scope[p]) => held[f.outer + Clauses(f.scope, p)] = f.scope[p].exc
       /\ HasHandler(f.scope[p]) =>
            f.handlers[Guards(f.scope, p)].handled = f.outer + Clauses(f.scope, p)

LEMMA SettledType ==
  ASSUME NEW f \in Frame, NEW to, NEW held, Settled(f, to, held)
  PROVE  to \in Nat /\ f.outer \in Nat /\ f.outer <= to
<1>1. f.scope \in Seq(Region) /\ f.outer \in Nat /\ Len(f.scope) \in 0 .. Len(f.scope)
  BY DEF Frame
<1>2. Clauses(f.scope, Len(f.scope)) \in Nat
  BY <1>1, ClausesType
<1> QED BY <1>1, <1>2 DEF Settled

LEMMA SettledEmpty ==
  ASSUME NEW f \in Frame, f.scope = << >>, NEW held
  PROVE  Settled(f, f.outer, held)
<1>1. << >> \in Seq(Region) /\ Len(<< >>) = 0 /\ DOMAIN << >> = {} /\ f.outer \in Nat
  BY DEF Frame
<1>2. Clauses(<< >>, 0) = 0
  BY <1>1, ClausesZero, Zenon
<1> QED BY <1>1, <1>2 DEF Settled

\* Only the part of the handled stack that is the frame's own matters.
LEMMA SettledBelow ==
  ASSUME NEW f \in Frame, NEW to, NEW held, Settled(f, to, held),
         NEW other, \A i \in 1 .. to : other[i] = held[i]
  PROVE  Settled(f, to, other)
<1>1. f.scope \in Seq(Region) /\ f.outer \in Nat /\ to \in Nat
  BY SettledType DEF Frame
<1>2. ASSUME NEW p \in DOMAIN f.scope, Caught(f.scope[p])
      PROVE  f.outer + Clauses(f.scope, p) \in 1 .. to
  <2>1. p \in 1 .. Len(f.scope) /\ p \in 0 .. Len(f.scope) /\ Len(f.scope) \in 0 .. Len(f.scope)
        /\ p <= Len(f.scope)
    BY <1>1
  <2>2. Clauses(f.scope, p) = Clauses(f.scope, p - 1) + 1 /\ Clauses(f.scope, p - 1) \in Nat
    BY <1>1, <1>2, <2>1, ClausesNext
  <2>3. Clauses(f.scope, p) <= Clauses(f.scope, Len(f.scope))
    BY <1>1, <2>1, ClausesGrow
  <2>4. Clauses(f.scope, Len(f.scope)) \in Nat
    BY <1>1, <2>1, ClausesType
  <2> QED BY <1>1, <2>2, <2>3, <2>4 DEF Settled
<1> QED BY <1>2 DEF Settled

\* A region opens or is landed in: it comes with its handler if it has one,
\* and with its exception if it holds one.
LEMMA SettledAppend ==
  ASSUME NEW f \in Frame, NEW held \in Seq(Exceptions), Settled(f, Len(held), held),
         Follows(f.handlers, f.scope), NEW g \in Frame, g.outer = f.outer,
         NEW r \in Region, g.scope = Append(f.scope, r),
         NEW more \in Seq(Exceptions),
         IF Caught(r) THEN r.exc \in Exceptions /\ more = Append(held, r.exc) ELSE more = held,
         NEW h \in Handler,
         IF HasHandler(r) THEN h.handled = Len(more) /\ g.handlers = Append(f.handlers, h)
                          ELSE g.handlers = f.handlers
  PROVE  Settled(g, Len(more), more)
<1> DEFINE sc == f.scope
           gs == g.scope
           n == Len(sc)
<1>1. /\ gs \in Seq(Region) /\ Len(gs) = n + 1 /\ gs[n + 1] = r
      /\ \A i \in 1 .. n : gs[i] = sc[i]
      /\ sc \in Seq(Region) /\ f.handlers \in Seq(Handler)
  BY SeqAppend DEF Frame
<1>2. n \in Nat /\ DOMAIN gs = 1 .. n + 1 /\ DOMAIN sc = 1 .. n /\ f.outer \in Nat
  BY <1>1 DEF Frame
<1>3. IF Caught(r) THEN /\ Len(more) = Len(held) + 1 /\ more[Len(held) + 1] = r.exc
                        /\ \A i \in 1 .. Len(held) : more[i] = held[i]
      ELSE more = held
  BY SeqAppend
<1>4. Len(held) = f.outer + Clauses(sc, n) /\ Len(f.handlers) = Guards(sc, n)
  BY DEF Settled, Follows
<1>5. ASSUME NEW p \in 0 .. n PROVE Clauses(gs, p) = Clauses(sc, p) /\ Guards(gs, p) = Guards(sc, p)
  <2>1. p \in Nat /\ p <= Len(gs) /\ p <= Len(sc) /\ \A i \in 1 .. p : gs[i] = sc[i]
    BY <1>1, <1>2
  <2> HIDE DEF sc, gs
  <2> QED BY <1>1, <2>1, ClausesPrefix, GuardsPrefix
<1>6. /\ Clauses(gs, n + 1) = IF Caught(r) THEN Clauses(sc, n) + 1 ELSE Clauses(sc, n)
      /\ Guards(gs, n + 1) = IF HasHandler(r) THEN Guards(sc, n) + 1 ELSE Guards(sc, n)
      /\ Clauses(sc, n) \in Nat /\ Guards(sc, n) \in Nat
  <2>1. n + 1 \in 1 .. Len(gs) /\ n + 1 - 1 = n /\ n \in 0 .. n
    BY <1>1, <1>2
  <2> HIDE DEF sc, gs, n
  <2>2. PICK m \in 1 .. Len(gs) : m = n + 1 /\ m - 1 = n
    BY <1>2, <2>1
  <2>3. /\ Clauses(gs, m) = IF Caught(gs[m]) THEN Clauses(gs, m - 1) + 1 ELSE Clauses(gs, m - 1)
        /\ Guards(gs, m) = IF HasHandler(gs[m]) THEN Guards(gs, m - 1) + 1 ELSE Guards(gs, m - 1)
        /\ Clauses(gs, m - 1) \in Nat /\ Guards(gs, m - 1) \in Nat
    BY <1>1, ClausesNext, GuardsNext
  <2>4. Clauses(gs, n) = Clauses(sc, n) /\ Guards(gs, n) = Guards(sc, n)
    BY <1>5, <2>1
  <2>5. Clauses(gs, n + 1) = IF Caught(r) THEN Clauses(gs, n) + 1 ELSE Clauses(gs, n)
    BY <1>1, <2>2, <2>3
  <2>6. Guards(gs, n + 1) = IF HasHandler(r) THEN Guards(gs, n) + 1 ELSE Guards(gs, n)
    BY <1>1, <2>2, <2>3
  <2>7. Clauses(gs, n) \in Nat /\ Guards(gs, n) \in Nat
    BY <2>2, <2>3
  <2> QED BY <2>4, <2>5, <2>6, <2>7
<1>7. Len(more) = f.outer + Clauses(gs, n + 1)
  BY <1>2, <1>3, <1>4, <1>6, SMTT(20)
<1>8. ASSUME NEW p \in 1 .. n + 1, Caught(gs[p]) PROVE more[f.outer + Clauses(gs, p)] = gs[p].exc
  <2>1. CASE p = n + 1
    <3>1. f.outer + Clauses(gs, p) = Len(held) + 1
      BY <1>1, <1>2, <1>4, <1>6, <1>8, <2>1, SMTT(20)
    <3> QED BY <1>1, <1>3, <1>8, <2>1, <3>1
  <2>2. CASE p # n + 1
    <3>1. p \in 1 .. n /\ p \in 0 .. n
      BY <1>2, <2>2
    <3>2. \A i \in 1 .. Len(held) : more[i] = held[i]
      BY <1>3
    <3>3. Settled(f, Len(held), more)
      BY <3>2, SettledBelow
    <3> QED BY <1>1, <1>2, <1>5, <1>8, <3>1, <3>3 DEF Settled
  <2> QED BY <2>1, <2>2
<1>9. ASSUME NEW p \in 1 .. n + 1, HasHandler(gs[p])
      PROVE  g.handlers[Guards(gs, p)].handled = f.outer + Clauses(gs, p)
  <2>1. CASE p = n + 1
    <3>1. g.handlers = Append(f.handlers, h) /\ h.handled = Len(more)
      BY <1>1, <1>9, <2>1
    <3>2. Guards(gs, p) = Len(f.handlers) + 1
      BY <1>1, <1>4, <1>6, <1>9, <2>1
    <3> QED BY <1>1, <1>7, <2>1, <3>1, <3>2, SeqAppend
  <2>2. CASE p # n + 1
    <3>1. p \in 1 .. n /\ p \in 0 .. n /\ n \in p .. Len(sc) /\ HasHandler(sc[p])
      BY <1>1, <1>2, <1>9, <2>2
    <3>2. Guards(sc, p) \in 1 .. Len(f.handlers)
      <4> HIDE DEF sc
      <4> QED BY <1>1, <1>4, <3>1, GuardsWithin
    <3>3. g.handlers[Guards(sc, p)] = f.handlers[Guards(sc, p)]
      BY <1>1, <3>2, SeqAppend
    <3> QED BY <1>2, <1>5, <3>1, <3>3 DEF Settled
  <2> QED BY <2>1, <2>2
<1> QED BY <1>1, <1>2, <1>7, <1>8, <1>9 DEF Settled

\* The frame goes back to an earlier place of its code, with the handlers
\* there are at that place.
LEMMA SettledPrefix ==
  ASSUME NEW f \in Frame, NEW to, NEW held, Settled(f, to, held),
         NEW g \in Frame, g.outer = f.outer, NEW q \in 0 .. Len(f.scope),
         Len(g.scope) = q, \A i \in 1 .. q : g.scope[i] = f.scope[i],
         \A i \in 1 .. Guards(f.scope, q) : g.handlers[i] = f.handlers[i]
  PROVE  /\ Settled(g, f.outer + Clauses(f.scope, q), held)
         /\ f.outer + Clauses(f.scope, q) \in f.outer .. to
<1> DEFINE sc == f.scope
           gs == g.scope
<1>1. sc \in Seq(Region) /\ gs \in Seq(Region) /\ f.outer \in Nat /\ to \in Nat
  BY SettledType DEF Frame
<1>2. q \in Nat /\ DOMAIN gs = 1 .. q /\ DOMAIN sc = 1 .. Len(sc) /\ Len(sc) \in Nat /\ q <= Len(sc)
  BY <1>1
<1>3. ASSUME NEW p \in 0 .. q PROVE Clauses(gs, p) = Clauses(sc, p) /\ Guards(gs, p) = Guards(sc, p)
  <2>1. p \in Nat /\ p <= Len(gs) /\ p <= Len(sc) /\ \A i \in 1 .. p : gs[i] = sc[i]
    BY <1>2
  <2> HIDE DEF sc, gs
  <2> QED BY <1>1, <2>1, ClausesPrefix, GuardsPrefix
<1>4. ASSUME NEW p \in 1 .. q
      PROVE  /\ Caught(gs[p]) => held[f.outer + Clauses(gs, p)] = gs[p].exc
             /\ HasHandler(gs[p]) => g.handlers[Guards(gs, p)].handled = f.outer + Clauses(gs, p)
  <2>1. p \in 0 .. q /\ p \in DOMAIN sc /\ gs[p] = sc[p] /\ p \in 1 .. Len(sc) /\ q \in p .. Len(sc)
    BY <1>2
  <2>2. HasHandler(sc[p]) => Guards(sc, p) \in 1 .. Guards(sc, q)
    <3> HIDE DEF sc
    <3> QED BY <1>1, <2>1, GuardsWithin
  <2>3. Clauses(gs, p) = Clauses(sc, p) /\ Guards(gs, p) = Guards(sc, p)
    BY <1>3, <2>1
  <2>4. /\ Caught(sc[p]) => held[f.outer + Clauses(sc, p)] = sc[p].exc
        /\ HasHandler(sc[p]) => f.handlers[Guards(sc, p)].handled = f.outer + Clauses(sc, p)
    BY <2>1 DEF Settled
  <2> QED BY <2>1, <2>2, <2>3, <2>4
<1>5. Clauses(gs, q) = Clauses(sc, q)
  BY <1>2, <1>3
<1>6. Clauses(sc, q) \in Nat /\ Clauses(sc, q) <= Clauses(sc, Len(sc)) /\ Clauses(sc, Len(sc)) \in Nat
  <2>1. Len(sc) \in 0 .. Len(sc)
    BY <1>2
  <2> QED BY <1>1, <1>2, <2>1, ClausesType, ClausesGrow
<1> QED BY <1>1, <1>2, <1>4, <1>5, <1>6 DEF Settled

-----------------------------------------------------------------------------
(* The invariant.                                                          *)

\* The frames lie on the handled stack one behind the other.
Ordered ==
  /\ \A j, k \in DOMAIN stack : j <= k => stack[j].outer <= stack[k].outer
  /\ \A k \in DOMAIN stack : stack[k].outer <= Len(handled)

AllSettled == \A k \in DOMAIN stack : Settled(stack[k], Base(k + 1), handled)

\* A generator that waits is inside of no region.
Resting == \A g \in Gens : gens[g].state = "suspended" => gens[g].scope = << >>

HandledInv == HandlersInv /\ Ordered /\ AllSettled /\ Resting

LEMMA TopSettled ==
  ASSUME HandledInv, stack # << >>
  PROVE  /\ Top \in Frame /\ Top.handlers \in Seq(Handler) /\ Top.scope \in Seq(Region)
         /\ Follows(Top.handlers, Top.scope)
         /\ Settled(Top, Len(handled), handled) /\ Top.outer \in 0 .. Len(handled)
         /\ handled \in Seq(Exceptions)
         /\ stack \in Seq(Frame) /\ Len(stack) \in DOMAIN stack /\ DOMAIN stack = 1 .. Len(stack)
<1>1. stack \in Seq(Frame) /\ Len(stack) \in DOMAIN stack /\ handled \in Seq(Exceptions)
      /\ DOMAIN stack = 1 .. Len(stack)
  BY DEF HandledInv, HandlersInv, Inv, TypeOK
<1>2. Settled(Top, Base(Len(stack) + 1), handled) /\ Top.outer <= Len(handled)
  BY <1>1 DEF HandledInv, AllSettled, Ordered, Top
<1>3. Base(Len(stack) + 1) = Len(handled)
  BY <1>1 DEF Base
<1>4. /\ Top \in Frame /\ Top.handlers \in Seq(Handler) /\ Top.scope \in Seq(Region)
      /\ Follows(Top.handlers, Top.scope)
  BY TopFollows DEF HandledInv
<1> QED BY <1>1, <1>2, <1>3, <1>4 DEF Frame

LEMMA OuterBelow ==
  ASSUME HandledInv, stack # << >>, NEW k \in DOMAIN stack
  PROVE  stack[k].outer \in Nat /\ Top.outer \in Nat /\ stack[k].outer <= Top.outer
<1> DEFINE n == Len(stack)
<1>1. stack \in Seq(Frame) /\ n \in DOMAIN stack /\ DOMAIN stack = 1 .. n /\ n \in Nat
  BY TopSettled
<1>2. stack[k] \in Frame /\ stack[n] \in Frame /\ Top = stack[n] /\ k <= n
  BY <1>1 DEF Top
<1>3. stack[k].outer \in Nat /\ stack[n].outer \in Nat
  BY <1>2 DEF Frame
<1>4. stack[k].outer <= stack[n].outer
  <2> HIDE DEF n
  <2> QED BY <1>1, <1>2 DEF HandledInv, Ordered
<1> QED BY <1>2, <1>3, <1>4

\* What the frames below the innermost one have caught lies below outer.
LEMMA BelowSettled ==
  ASSUME HandledInv, stack # << >>, NEW k \in 1 .. Len(stack) - 1,
         NEW other, \A i \in 1 .. Top.outer : other[i] = handled[i]
  PROVE  Settled(stack[k], stack[k + 1].outer, other)
<1>1. /\ stack \in Seq(Frame) /\ DOMAIN stack = 1 .. Len(stack) /\ Len(stack) \in Nat
      /\ Len(stack) \in DOMAIN stack
  BY TopSettled
<1>2. k \in DOMAIN stack /\ k + 1 \in DOMAIN stack /\ k + 1 <= Len(stack) /\ k \in Nat
  BY <1>1
<1>3. Base(k + 1) = stack[k + 1].outer /\ stack[k] \in Frame /\ stack[k + 1] \in Frame
  BY <1>1, <1>2 DEF Base
<1>4. Settled(stack[k], stack[k + 1].outer, handled)
  BY <1>2, <1>3 DEF HandledInv, AllSettled
<1>5. stack[k + 1].outer <= Top.outer /\ Top.outer \in Nat /\ stack[k + 1].outer \in Nat
  BY <1>2, OuterBelow
<1>6. \A i \in 1 .. stack[k + 1].outer : other[i] = handled[i]
  BY <1>5
<1> QED BY <1>3, <1>4, <1>6, SettledBelow

\* The innermost frame goes on, with the handled stack as it now needs it.
LEMMA SettledChanges ==
  ASSUME HandledInv, HandlersInv', stack # << >>, UNCHANGED gens,
         NEW f \in Frame, f.outer = Top.outer, stack' = WithTop(f),
         Settled(f, Len(handled'), handled'),
         \A i \in 1 .. Top.outer : handled'[i] = handled[i]
  PROVE  HandledInv'
<1>1. /\ stack \in Seq(Frame) /\ DOMAIN stack = 1 .. Len(stack) /\ Len(stack) \in Nat
      /\ Len(stack) \in DOMAIN stack /\ Top.outer \in 0 .. Len(handled) /\ Len(handled) \in Nat
  BY TopSettled
<1>2. /\ DOMAIN stack' = 1 .. Len(stack) /\ Len(stack') = Len(stack)
      /\ stack'[Len(stack)] = f
      /\ \A k \in DOMAIN stack : k # Len(stack) => stack'[k] = stack[k]
  BY <1>1 DEF WithTop
<1>3. \A k \in DOMAIN stack : stack'[k].outer = stack[k].outer
  BY <1>1, <1>2 DEF Top
<1>4. f.outer <= Len(handled') /\ Len(handled') \in Nat
  BY SettledType
<1>5. Ordered'
  <2>1. ASSUME NEW k \in DOMAIN stack PROVE stack[k].outer <= Len(handled')
    <3>1. stack[k].outer <= Top.outer /\ stack[k].outer \in Nat
      BY OuterBelow
    <3> QED BY <1>1, <1>4, <3>1
  <2> QED BY <1>1, <1>2, <1>3, <2>1 DEF HandledInv, Ordered
<1>6. ASSUME NEW k \in DOMAIN stack' PROVE Settled(stack'[k], Base(k + 1)', handled')
  <2>1. CASE k = Len(stack)
    <3>1. Base(k + 1)' = Len(handled')
      BY <1>1, <1>2, <2>1 DEF Base
    <3> QED BY <1>2, <2>1, <3>1
  <2>2. CASE k # Len(stack)
    <3>1. k \in 1 .. Len(stack) - 1 /\ k \in DOMAIN stack /\ k + 1 \in DOMAIN stack
      BY <1>1, <1>2, <2>2
    <3>2. Base(k + 1)' = stack[k + 1].outer
      BY <1>1, <1>2, <1>3, <3>1 DEF Base
    <3>3. Settled(stack[k], stack[k + 1].outer, handled')
      BY <3>1, BelowSettled
    <3> QED BY <1>2, <2>2, <3>1, <3>2, <3>3
  <2> QED BY <2>1, <2>2
<1> QED BY <1>5, <1>6 DEF HandledInv, AllSettled, Resting

\* A frame that comes with no region open begins where the others end.
LEMMA SettledArrives ==
  ASSUME HandledInv, HandlersInv', Resting', stack # << >>, UNCHANGED handled,
         NEW f \in Frame, f.scope = << >>, f.outer = Len(handled), stack' = Append(stack, f)
  PROVE  HandledInv'
<1>1. /\ stack \in Seq(Frame) /\ DOMAIN stack = 1 .. Len(stack) /\ Len(stack) \in Nat
      /\ Len(handled) \in Nat
  BY TopSettled
<1>2. /\ Len(stack') = Len(stack) + 1 /\ DOMAIN stack' = 1 .. Len(stack) + 1
      /\ \A k \in DOMAIN stack : stack'[k] = stack[k]
      /\ stack'[Len(stack) + 1] = f
  BY <1>1
<1>3. Ordered'
  BY <1>1, <1>2 DEF HandledInv, Ordered
<1>4. ASSUME NEW k \in DOMAIN stack' PROVE Settled(stack'[k], Base(k + 1)', handled')
  <2>1. CASE k = Len(stack) + 1
    <3>1. Base(k + 1)' = Len(handled)
      BY <1>1, <1>2, <2>1 DEF Base
    <3> QED BY <1>2, <2>1, <3>1, SettledEmpty
  <2>2. CASE k # Len(stack) + 1
    <3>1. k \in DOMAIN stack /\ stack'[k] = stack[k] /\ k \in 1 .. Len(stack)
      BY <1>1, <1>2, <2>2
    <3>2. Base(k + 1)' = Base(k + 1)
      BY <1>1, <1>2, <3>1 DEF Base
    <3> QED BY <3>1, <3>2 DEF HandledInv, AllSettled
  <2> QED BY <2>1, <2>2
<1> QED BY <1>3, <1>4 DEF HandledInv, AllSettled

\* A frame that goes leaves the handled stack as it found it.
LEMMA SettledLeaves ==
  ASSUME HandledInv, HandlersInv', Resting', stack # << >>, stack' = Below,
         Len(handled') = Top.outer, \A i \in 1 .. Top.outer : handled'[i] = handled[i]
  PROVE  HandledInv'
<1>1. /\ stack \in Seq(Frame) /\ DOMAIN stack = 1 .. Len(stack) /\ Len(stack) \in Nat \ {0}
      /\ Top.outer \in Nat /\ Len(stack) \in DOMAIN stack
  BY TopSettled
<1>2. /\ DOMAIN stack' = 1 .. Len(stack) - 1 /\ Len(stack') = Len(stack) - 1
      /\ \A k \in 1 .. Len(stack) - 1 : stack'[k] = stack[k]
  <2>1. stack' = Front(stack)
    BY DEF Below, Front
  <2>2. /\ Front(stack) \in Seq(Frame) /\ Len(Front(stack)) = Len(stack) - 1
        /\ \A i \in 1 .. Len(stack) - 1 : Front(stack)[i] = stack[i]
    BY <1>1, SeqFront
  <2> QED BY <2>1, <2>2
<1>3. Ordered'
  BY <1>1, <1>2 DEF HandledInv, Ordered, Top
<1>4. ASSUME NEW k \in DOMAIN stack' PROVE Settled(stack'[k], Base(k + 1)', handled')
  <2>1. k \in 1 .. Len(stack) - 1 /\ stack'[k] = stack[k]
    BY <1>2
  <2>2. Base(k + 1)' = stack[k + 1].outer
    <3>1. CASE k = Len(stack) - 1
      BY <1>1, <1>2, <3>1 DEF Base, Top
    <3>2. CASE k # Len(stack) - 1
      <4>1. k + 1 \in 1 .. Len(stack) - 1
        BY <1>1, <2>1, <3>2
      <4> QED BY <1>1, <1>2, <4>1 DEF Base
    <3> QED BY <3>1, <3>2
  <2> QED BY <2>1, <2>2, BelowSettled
<1> QED BY <1>3, <1>4 DEF HandledInv, AllSettled

-----------------------------------------------------------------------------
(* One action after the other.                                             *)

LEMMA TruncateKeeps ==
  ASSUME NEW S, NEW s \in Seq(S), NEW n \in 0 .. Len(s)
  PROVE  /\ Truncate(s, n) \in Seq(S) /\ Len(Truncate(s, n)) = n
         /\ \A i \in 1 .. n : Truncate(s, n)[i] = s[i]
<1>1. CASE n = Len(s)
  BY <1>1 DEF Truncate
<1>2. CASE n < Len(s)
  <2> DEFINE m == Len(s)
  <2>1. m \in Nat /\ n \in Nat /\ n < m /\ \A i \in 1 .. m : s[i] \in S
    BY <1>2
  <2> HIDE DEF m
  <2>2. \A i \in 1 .. n : s[i] \in S
    BY <2>1
  <2>3. /\ SubSeq(s, 1, n) \in Seq(S)
        /\ Len(SubSeq(s, 1, n)) = IF 1 <= n THEN n - 1 + 1 ELSE 0
        /\ \A i \in 1 .. n - 1 + 1 : SubSeq(s, 1, n)[i] = s[1 + i - 1]
    BY <2>1, <2>2, SubSeqProperties
  <2>4. n - 1 + 1 = n /\ (1 <= n \/ n = 0) /\ \A i \in 1 .. n : 1 + i - 1 = i
    BY <2>1
  <2> QED BY <1>2, <2>3, <2>4 DEF Truncate
<1> QED BY <1>1, <1>2

LEMMA SettledStays ==
  ASSUME HandledInv, HandlersInv', UNCHANGED <<stack, handled, gens>>
  PROVE  HandledInv'
BY DEF HandledInv, Ordered, AllSettled, Resting, Base

LEMMA HandledInit == Init => HandledInv
<1> SUFFICES ASSUME Init PROVE HandledInv
  OBVIOUS
<1>1. HandlersInv
  BY FollowsInit
<1>2. /\ Len(stack) = 1 /\ DOMAIN stack = {1} /\ Len(handled) = 0
      /\ stack[1].scope = << >> /\ stack[1].outer = 0 /\ stack[1] \in Frame
  BY <1>1 DEF Init, NewFrame, HandlersInv, Inv, TypeOK
<1>3. Settled(stack[1], Base(1 + 1), handled)
  <2>1. Base(1 + 1) = stack[1].outer
    BY <1>2 DEF Base
  <2> QED BY <1>2, <2>1, SettledEmpty
<1> QED BY <1>1, <1>2, <1>3 DEF Init, HandledInv, Ordered, AllSettled, Resting

LEMMA OpenSettles ==
  ASSUME HandledInv, HandlersInv', OpenTry \/ OpenGuarded
  PROVE  HandledInv'
<1>1. PICK kind \in {"try", "guarded"}, to \in {"except", "finally"} : Open(kind, to)
  BY DEF OpenTry, OpenGuarded
<1> DEFINE r == [kind |-> kind, exc |-> NoExc]
           h == [to |-> to, handled |-> Len(handled)]
           f == [Top EXCEPT !.scope = Append(@, r), !.handlers = Append(@, h)]
<1>2. stack # << >> /\ UNCHANGED <<gens, handled>> /\ stack' = WithTop(f)
  BY <1>1 DEF Open, Running
<1>3. /\ Top \in Frame /\ Top.handlers \in Seq(Handler) /\ Top.scope \in Seq(Region)
      /\ Follows(Top.handlers, Top.scope) /\ handled \in Seq(Exceptions)
      /\ Settled(Top, Len(handled), handled)
  BY <1>2, TopSettled
<1>4. r \in Region /\ HasHandler(r) /\ ~Caught(r) /\ h \in Handler /\ h.handled = Len(handled)
  BY <1>3 DEF Region, Kinds, HasHandler, Caught, Handler
<1>5. f \in Frame /\ f.outer = Top.outer
      /\ f.scope = Append(Top.scope, r) /\ f.handlers = Append(Top.handlers, h)
  <2> HIDE DEF r, h
  <2>1. Append(Top.scope, r) \in Seq(Region) /\ Append(Top.handlers, h) \in Seq(Handler)
    BY <1>3, <1>4, SeqAppend
  <2> QED BY <1>3, <2>1 DEF Frame
<1> HIDE DEF r, h, f
<1>6. Settled(f, Len(handled), handled)
  BY <1>3, <1>4, <1>5, SettledAppend
<1> QED BY <1>2, <1>5, <1>6, SettledChanges

LEMMA LeaveRegionSettles ==
  ASSUME HandledInv, HandlersInv', Close \/ EndClause \/ EndInterrupt \/ AbandonInterrupt
  PROVE  HandledInv'
<1> DEFINE sc == Top.scope
           n == Len(sc)
           hs == IF HasHandler(Last(sc)) THEN Front(Top.handlers) ELSE Top.handlers
           f == [Top EXCEPT !.scope = Front(@), !.handlers = hs]
           to == Top.outer + Clauses(sc, n - 1)
<1>1. /\ stack # << >> /\ UNCHANGED gens /\ sc # << >>
      /\ IF Caught(Last(sc)) THEN handled' = Front(handled) ELSE handled' = handled
  BY DEF Close, EndClause, EndInterrupt, AbandonInterrupt, Running, InRegion, Caught
<1>2. /\ Top \in Frame /\ Top.handlers \in Seq(Handler) /\ sc \in Seq(Region)
      /\ Follows(Top.handlers, sc) /\ handled \in Seq(Exceptions)
      /\ Settled(Top, Len(handled), handled) /\ Top.outer \in Nat
  BY <1>1, TopSettled
<1>3. stack' = WithTop(f)
  <2>1. CASE Close \/ EndClause
    BY <2>1 DEF Close, EndClause, InRegion, HasHandler
  <2>2. CASE EndInterrupt \/ AbandonInterrupt
    <3>1. ~HasHandler(Last(sc))
      BY <2>2 DEF EndInterrupt, AbandonInterrupt, InRegion, HasHandler
    <3>2. f = [Top EXCEPT !.scope = Front(@)]
      BY <1>2, <3>1 DEF Frame
    <3> QED BY <2>2, <3>2 DEF EndInterrupt, AbandonInterrupt
  <2> QED BY <2>1, <2>2
<1>4. /\ Front(sc) \in Seq(Region) /\ Len(Front(sc)) = n - 1 /\ n \in Nat \ {0}
      /\ \A i \in 1 .. n - 1 : Front(sc)[i] = sc[i]
      /\ Last(sc) = sc[n]
  <2> HIDE DEF sc
  <2> QED BY <1>1, <1>2, SeqFront
<1>5. /\ Guards(sc, n) = IF HasHandler(sc[n]) THEN Guards(sc, n - 1) + 1 ELSE Guards(sc, n - 1)
      /\ Clauses(sc, n) = IF Caught(sc[n]) THEN Clauses(sc, n - 1) + 1 ELSE Clauses(sc, n - 1)
      /\ Guards(sc, n - 1) \in Nat /\ Clauses(sc, n - 1) \in Nat
      /\ Len(Top.handlers) = Guards(sc, n) /\ Len(handled) = Top.outer + Clauses(sc, n)
  <2>1. n \in 1 .. Len(sc)
    BY <1>4
  <2>2. Len(Top.handlers) = Guards(sc, n) /\ Len(handled) = Top.outer + Clauses(sc, n)
    BY <1>2 DEF Follows, Settled
  <2> HIDE DEF sc, n
  <2> QED BY <1>2, <2>1, <2>2, GuardsNext, ClausesNext
<1>6. hs \in Seq(Handler) /\ \A i \in 1 .. Guards(sc, n - 1) : hs[i] = Top.handlers[i]
  <2>1. CASE HasHandler(Last(sc))
    <3>1. Top.handlers # << >> /\ Len(Top.handlers) - 1 = Guards(sc, n - 1)
      <4>1. Guards(sc, n) = Guards(sc, n - 1) + 1
        BY <1>4, <1>5, <2>1
      <4>2. Len(Top.handlers) = Guards(sc, n - 1) + 1 /\ Guards(sc, n - 1) \in Nat
        <5> HIDE DEF sc, n
        <5> QED BY <1>5, <4>1
      <4> QED BY <1>2, <4>2, SMTT(20)
    <3>2. /\ Front(Top.handlers) \in Seq(Handler)
          /\ \A i \in 1 .. Len(Top.handlers) - 1 : Front(Top.handlers)[i] = Top.handlers[i]
      BY <1>2, <3>1, SeqFront
    <3> QED BY <2>1, <3>1, <3>2
  <2>2. CASE ~HasHandler(Last(sc))
    BY <1>2, <2>2
  <2> QED BY <2>1, <2>2
<1>7. f \in Frame /\ f.outer = Top.outer /\ f.scope = Front(sc) /\ f.handlers = hs
  <2> HIDE DEF hs
  <2> QED BY <1>2, <1>4, <1>6 DEF Frame
<1>8. Settled(f, to, handled) /\ to \in Top.outer .. Len(handled)
  <2>1. n - 1 \in 0 .. Len(sc) /\ Len(f.scope) = n - 1
    BY <1>4, <1>7
  <2> HIDE DEF f, hs
  <2> QED BY <1>2, <1>4, <1>6, <1>7, <2>1, SettledPrefix
<1>9. Len(handled') = to /\ \A i \in 1 .. to : handled'[i] = handled[i]
  <2>1. CASE Caught(Last(sc))
    <3>1. handled # << >> /\ Len(handled) - 1 = to
      <4>1. Clauses(sc, n) = Clauses(sc, n - 1) + 1
        BY <1>4, <1>5, <2>1
      <4>2. Len(handled) = to + 1 /\ to \in Nat
        <5> HIDE DEF sc, n
        <5> QED BY <1>2, <1>5, <4>1
      <4> QED BY <1>2, <4>2
    <3>2. /\ Len(Front(handled)) = Len(handled) - 1
          /\ \A i \in 1 .. Len(handled) - 1 : Front(handled)[i] = handled[i]
      BY <1>2, <3>1, SeqFront
    <3> QED BY <1>1, <2>1, <3>1, <3>2
  <2>2. CASE ~Caught(Last(sc))
    BY <1>1, <1>4, <1>5, <2>2
  <2> QED BY <2>1, <2>2
<1> HIDE DEF f, hs, sc, n, to
<1>10. Settled(f, Len(handled'), handled')
  BY <1>7, <1>8, <1>9, SettledBelow
<1>11. \A i \in 1 .. Top.outer : handled'[i] = handled[i]
  BY <1>2, <1>8, <1>9
<1> QED BY <1>1, <1>3, <1>7, <1>10, <1>11, SettledChanges

LEMMA CatchSettles ==
  ASSUME HandledInv, HandlersInv', Catch
  PROVE  HandledInv'
<1> DEFINE h == Last(Top.handlers)
           rest == Front(Top.handlers)
           passed == Passed(Top.scope)
           p == Len(passed)
           f == [Top EXCEPT !.handlers = rest, !.scope = passed]
           leftover == Truncate(handled, h.handled)
           before == [Top EXCEPT !.handlers = rest, !.scope = Front(passed)]
           stop == [Top EXCEPT !.scope = passed]
           to == Top.outer + Clauses(passed, p)
           back == Top.outer + Clauses(passed, p - 1)
           guard == [to |-> "cleanup", handled |-> Len(leftover) + 1]
<1>1. stack # << >> /\ UNCHANGED gens /\ Top.handlers # << >> /\ Land(h, f, leftover) /\ raising \in Exceptions
  BY DEF Catch, HandledInv, HandlersInv, Inv, TypeOK
<1>2. /\ Top \in Frame /\ Top.handlers \in Seq(Handler) /\ Top.scope \in Seq(Region)
      /\ Follows(Top.handlers, Top.scope) /\ handled \in Seq(Exceptions)
      /\ Settled(Top, Len(handled), handled) /\ Top.outer \in Nat
  BY <1>1, TopSettled
<1>3. PICK q \in 0 .. Len(Top.scope) :
        /\ passed \in Seq(Region) /\ p = q
        /\ \A i \in 1 .. q : passed[i] = Top.scope[i]
  BY <1>2, PassedShape
<1>4. passed # << >> /\ HasHandler(Last(passed)) /\ Follows(Top.handlers, passed)
  BY <1>1, <1>2, FollowsPassed
<1>5. p \in Nat \ {0} /\ passed \in Seq(Region) /\ Last(passed) = passed[p] /\ Last(passed) \in Region
      /\ Front(passed) \in Seq(Region) /\ Len(Front(passed)) = p - 1
      /\ \A i \in 1 .. p - 1 : Front(passed)[i] = passed[i]
  <2> HIDE DEF passed
  <2> QED BY <1>3, <1>4, SeqFront
<1>6. /\ rest \in Seq(Handler) /\ Len(rest) = Len(Top.handlers) - 1 /\ h \in Handler
      /\ \A i \in 1 .. Len(Top.handlers) - 1 : rest[i] = Top.handlers[i]
      /\ h = Top.handlers[Len(Top.handlers)]
  BY <1>1, <1>2, SeqFront
<1>7. /\ stop \in Frame /\ stop.scope = passed /\ stop.handlers = Top.handlers /\ stop.outer = Top.outer
      /\ before \in Frame /\ before.scope = Front(passed) /\ before.handlers = rest
      /\ before.outer = Top.outer
      /\ f.scope = passed /\ f.handlers = rest
  <2> HIDE DEF passed, rest
  <2> QED BY <1>2, <1>5, <1>6 DEF Frame
<1> HIDE DEF passed, rest, h, stop, before
<1>8. Settled(stop, to, handled) /\ to \in Top.outer .. Len(handled)
  <2>1. /\ q \in Nat /\ Len(stop.scope) = q /\ Clauses(passed, p) = Clauses(Top.scope, q)
        /\ \A i \in 1 .. q : stop.scope[i] = Top.scope[i]
    <3>1. p <= Len(passed) /\ p <= Len(Top.scope) /\ p \in Nat /\ p = q
      BY <1>2, <1>3, <1>5
    <3> QED BY <1>2, <1>3, <1>7, <3>1, ClausesPrefix
  <2> QED BY <1>2, <1>3, <1>7, <2>1, SettledPrefix
<1>9. /\ Guards(passed, p) = Guards(passed, p - 1) + 1 /\ Guards(passed, p - 1) \in Nat
      /\ Clauses(passed, p) = IF Caught(passed[p]) THEN Clauses(passed, p - 1) + 1
                              ELSE Clauses(passed, p - 1)
      /\ Clauses(passed, p - 1) \in Nat
      /\ Len(Top.handlers) = Guards(passed, p) /\ h.to = LandsOn(passed[p].kind)
      /\ h.handled = to
  <2>1. p \in 1 .. Len(passed) /\ p \in DOMAIN passed
    BY <1>5
  <2>2. /\ Guards(passed, p) = Guards(passed, p - 1) + 1 /\ Guards(passed, p - 1) \in Nat
        /\ Clauses(passed, p) = IF Caught(passed[p]) THEN Clauses(passed, p - 1) + 1
                                ELSE Clauses(passed, p - 1)
        /\ Clauses(passed, p - 1) \in Nat
    <3> HIDE DEF p
    <3> QED BY <1>4, <1>5, <2>1, GuardsNext, ClausesNext
  <2>3. Len(Top.handlers) = Guards(passed, p) /\ h.to = LandsOn(passed[p].kind)
    BY <1>4, <1>5, <1>6, <2>1 DEF Follows
  <2>4. h.handled = to
    <3>1. stop.handlers[Guards(stop.scope, p)].handled = stop.outer + Clauses(stop.scope, p)
      BY <1>4, <1>5, <1>7, <1>8, <2>1 DEF Settled
    <3> QED BY <1>6, <1>7, <2>3, <3>1
  <2> QED BY <2>2, <2>3, <2>4
<1>10. leftover \in Seq(Exceptions) /\ Len(leftover) = to /\ \A i \in 1 .. to : leftover[i] = handled[i]
  <2>1. to \in 0 .. Len(handled)
    BY <1>2, <1>8
  <2> HIDE DEF to
  <2> QED BY <1>2, <1>9, <2>1, TruncateKeeps
<1> HIDE DEF leftover
<1>11. Settled(before, back, leftover) /\ back \in Top.outer .. to /\ to \in Nat
  <2>1. Settled(stop, to, leftover)
    BY <1>7, <1>8, <1>10, SettledBelow
  <2>2. p - 1 \in 0 .. Len(stop.scope) /\ Len(before.scope) = p - 1
    BY <1>5, <1>7
  <2>3. \A i \in 1 .. Guards(passed, p - 1) : rest[i] = Top.handlers[i]
    BY <1>6, <1>9, SMTT(20)
  <2>4. to \in Nat
    BY <1>2, <1>8
  <2> HIDE DEF p, to
  <2> QED BY <1>5, <1>7, <2>1, <2>2, <2>3, <2>4, SettledPrefix
<1>12. before.scope \in Seq(Region) /\ Follows(before.handlers, before.scope)
       /\ before.handlers \in Seq(Handler)
  <2>1. Follows(rest, Front(passed))
    BY <1>2, <1>4, <1>5, FollowsFront DEF rest
  <2> QED BY <1>5, <1>6, <1>7, <2>1
<1>13. guard \in Handler /\ guard.handled = Len(leftover) + 1
  BY <1>10 DEF Handler
<1>14. passed[p].kind \in {"try", "guarded", "clause"}
  BY <1>4, <1>5 DEF HasHandler, Region, Kinds
<1> HIDE DEF f, guard, p, to, back
<1>15. CASE h.to = "except" \/ h.to = "finally"
  <2> DEFINE kind == IF h.to = "except" THEN "clause" ELSE "interrupt"
             r == [kind |-> kind, exc |-> raising]
             handlers == IF h.to = "except" THEN Append(rest, guard) ELSE rest
             g == [Top EXCEPT !.scope = Append(Front(passed), r), !.handlers = handlers]
             more == Append(leftover, raising)
  <2>1. ~Caught(passed[p]) /\ back = to
    <3>1. passed[p].kind # "clause"
      BY <1>9, <1>15 DEF LandsOn
    <3>2. ~Caught(passed[p])
      BY <1>14, <3>1 DEF Caught
    <3> QED BY <1>9, <3>2 DEF to, back
  <2>2. handled' = more /\ more \in Seq(Exceptions) /\ Len(more) = to + 1
        /\ \A i \in 1 .. to : more[i] = handled[i]
    <3>1. handled' = more
      BY <1>1, <1>15 DEF Land
    <3> QED BY <1>1, <1>10, <3>1, SeqAppend
  <2>3. r \in Region /\ Caught(r) /\ r.exc = raising /\ (HasHandler(r) <=> h.to = "except")
    BY <1>1, <1>15 DEF Region, Kinds, Caught, HasHandler
  <2>4. handlers \in Seq(Handler) /\ Append(Front(passed), r) \in Seq(Region)
    <3> HIDE DEF r
    <3> QED BY <1>5, <1>6, <1>13, <2>3, SeqAppend
  <2>5. stack' = WithTop(g)
    <3>1. CASE h.to = "except"
      <4>1. stack' = WithTop([f EXCEPT !.scope = Append(Front(passed), r),
                                       !.handlers = Append(rest, guard)])
        BY <1>1, <1>7, <3>1 DEF Land, guard
      <4> QED BY <1>2, <3>1, <4>1 DEF f, Frame
    <3>2. CASE h.to = "finally"
      <4>1. stack' = WithTop([f EXCEPT !.scope = Append(Front(passed), r)])
        BY <1>1, <1>7, <3>2 DEF Land
      <4> QED BY <1>2, <3>2, <4>1 DEF f, Frame
    <3> QED BY <1>15, <3>1, <3>2
  <2>6. g \in Frame /\ g.outer = Top.outer /\ g.scope = Append(Front(passed), r) /\ g.handlers = handlers
    <3> HIDE DEF handlers, r
    <3> QED BY <1>2, <2>4 DEF Frame
  <2>7. IF HasHandler(r) THEN guard.handled = Len(more) /\ g.handlers = Append(before.handlers, guard)
                         ELSE g.handlers = before.handlers
    BY <1>7, <1>10, <1>13, <2>2, <2>3, <2>6
  <2> HIDE DEF g, r, handlers, kind
  <2>8. Settled(g, Len(more), more)
    BY <1>1, <1>7, <1>10, <1>11, <1>12, <1>13, <2>1, <2>2, <2>3, <2>6, <2>7, SettledAppend
  <2>9. \A i \in 1 .. Top.outer : handled'[i] = handled[i]
    BY <1>2, <1>8, <2>2
  <2> QED BY <1>1, <2>2, <2>5, <2>6, <2>8, <2>9, SettledChanges
<1>16. CASE h.to = "cleanup"
  <2>1. back + 1 = to
    <3>1. Caught(passed[p])
      BY <1>9, <1>14, <1>16 DEF LandsOn, Caught
    <3> QED BY <1>2, <1>9, <3>1 DEF to, back
  <2>2. leftover # << >>
    BY <1>2, <1>10, <1>11, <2>1
  <2>3. handled' = Front(leftover) /\ Len(handled') = back /\ \A i \in 1 .. back : handled'[i] = leftover[i]
    <3>1. handled' = Front(leftover) /\ Len(leftover) - 1 = back
      BY <1>1, <1>2, <1>10, <1>11, <1>16, <2>1 DEF Land
    <3> QED BY <1>10, <2>2, <3>1, SeqFront
  <2>4. stack' = WithTop(before)
    <3>1. stack' = WithTop([f EXCEPT !.scope = Front(passed)])
      BY <1>1, <1>7, <1>16 DEF Land
    <3> QED BY <1>2, <3>1 DEF f, before, Frame
  <2>5. Settled(before, Len(handled'), handled')
    BY <1>7, <1>11, <2>3, SettledBelow
  <2>6. \A i \in 1 .. Top.outer : handled'[i] = handled[i]
    BY <1>2, <1>8, <1>10, <1>11, <2>3
  <2> QED BY <1>1, <1>7, <2>4, <2>5, <2>6, SettledChanges
<1> QED BY <1>6, <1>15, <1>16 DEF Handler

LEMMA ArriveSettles ==
  ASSUME HandledInv, HandlersInv', Call \/ \E g \in Gens : Resume(g)
  PROVE  HandledInv'
<1>1. stack # << >> /\ UNCHANGED handled
  BY DEF Call, Resume, Running
<1>2. handled \in Seq(Exceptions) /\ Len(handled) \in Nat /\ gens \in [Gens -> GenState]
  BY DEF HandledInv, HandlersInv, Inv, TypeOK
<1>3. CASE UNCHANGED <<stack, gens>>
  BY <1>1, <1>3, SettledStays
<1>4. CASE Call /\ depth < Limit
  <2> DEFINE f == NewFrame(NoGen, << >>, << >>)
  <2>1. stack' = Append(stack, f) /\ UNCHANGED gens
    BY <1>4 DEF Call
  <2>2. f \in Frame /\ f.scope = << >> /\ f.outer = Len(handled)
    BY <1>2 DEF NewFrame, Frame
  <2> HIDE DEF f
  <2>3. Resting'
    BY <2>1 DEF HandledInv, Resting
  <2> QED BY <1>1, <2>1, <2>2, <2>3, SettledArrives
<1>5. ASSUME NEW g \in Gens, Resume(g), depth # Limit, gens[g].state = "suspended"
      PROVE  HandledInv'
  <2> DEFINE f == NewFrame(g, gens[g].scope, gens[g].handlers)
  <2>1. stack' = Append(stack, f) /\ gens' = [gens EXCEPT ![g] = [state |-> "running"]]
    BY <1>5 DEF Resume
  <2>2. gens[g] \in GenState /\ gens[g].scope = << >>
    BY <1>2, <1>5 DEF HandledInv, Resting
  <2>3. f \in Frame /\ f.scope = << >> /\ f.outer = Len(handled)
    BY <1>2, <1>5, <2>2 DEF NewFrame, Frame, GenState
  <2> HIDE DEF f
  <2>4. Resting'
    BY <1>2, <2>1 DEF HandledInv, Resting
  <2> QED BY <1>1, <2>1, <2>3, <2>4, SettledArrives
<1>6. ASSUME NEW g \in Gens, Resume(g), ~(depth # Limit /\ gens[g].state = "suspended")
      PROVE  UNCHANGED <<stack, gens>>
  <2>1. gens[g].state \in {"suspended", "running", "done"}
    BY <1>2 DEF GenState
  <2> QED BY <1>6, <2>1 DEF Resume
<1>7. ASSUME Call, ~(depth < Limit) PROVE UNCHANGED <<stack, gens>>
  BY <1>7 DEF Call
<1> QED BY <1>3, <1>4, <1>5, <1>6, <1>7

LEMMA LeaveSettles ==
  ASSUME YieldIn = {}, HandledInv, HandlersInv', Return \/ Yield \/ Unwind
  PROVE  HandledInv'
<1>1. stack # << >> /\ stack' = Below
  BY DEF Return, Yield, Unwind, Running
<1>2. /\ Top \in Frame /\ Top.scope \in Seq(Region) /\ handled \in Seq(Exceptions)
      /\ Settled(Top, Len(handled), handled) /\ Top.outer \in 0 .. Len(handled)
  BY <1>1, TopSettled
<1>3. CASE Return \/ Yield
  <2>1. Top.scope = << >>
    <3>1. CASE Return
      BY <3>1 DEF Return
    <3>2. CASE Yield
      <4>1. 1 .. Len(Top.scope) = {} /\ Len(Top.scope) \in Nat
        <5>1. DOMAIN Top.scope = 1 .. Len(Top.scope) /\ Len(Top.scope) \in Nat
          BY <1>2
        <5>2. DOMAIN Top.scope = {}
          BY <3>2 DEF Yield
        <5> QED BY <5>1, <5>2
      <4>2. Len(Top.scope) = 0
        <5>1. 1 \in 1 .. Len(Top.scope) \/ Len(Top.scope) = 0
          BY <4>1
        <5> QED BY <4>1, <5>1
      <4> QED BY <1>2, <4>2
    <3> QED BY <1>3, <3>1, <3>2
  <2>2. Len(handled) = Top.outer
    <3>1. Clauses(<< >>, 0) = 0
      <4>1. << >> \in Seq(Region)
        OBVIOUS
      <4> QED BY <4>1, ClausesZero, Zenon
    <3>2. Len(<< >>) = 0
      OBVIOUS
    <3>3. Len(handled) = Top.outer + Clauses(<< >>, 0)
      BY <1>2, <2>1, <3>2 DEF Settled
    <3> QED BY <1>2, <3>1, <3>3
  <2>3. UNCHANGED handled
    BY <1>3 DEF Return, Yield
  <2>4. Resting'
    <3>1. gens \in [Gens -> GenState] /\ Resting
      BY DEF HandledInv, HandlersInv, Inv, TypeOK
    <3>2. \/ gens' = gens
          \/ gens' = [gens EXCEPT ![Top.gen] = [state |-> "done"]]
          \/ gens' = [gens EXCEPT ![Top.gen] =
                        [state |-> "suspended", scope |-> << >>, handlers |-> Top.handlers]]
      BY <1>3, <2>1 DEF Return, Yield
    <3> QED BY <3>1, <3>2 DEF Resting
  <2> QED BY <1>1, <2>2, <2>3, <2>4, SettledLeaves
<1>4. CASE Unwind
  <2>1. Len(handled') = Top.outer /\ \A i \in 1 .. Top.outer : handled'[i] = handled[i]
    BY <1>2, <1>4, TruncateKeeps DEF Unwind
  <2>2. Resting'
    BY <1>4 DEF Unwind, HandledInv, HandlersInv, Inv, TypeOK, Resting
  <2> QED BY <1>1, <2>1, <2>2, SettledLeaves
<1> QED BY <1>3, <1>4

LEMMA HandledStep == ASSUME YieldIn = {} PROVE HandledInv /\ [Next]_vars => HandledInv'
<1> SUFFICES ASSUME HandledInv, [Next]_vars PROVE HandledInv'
  OBVIOUS
<1>1. HandlersInv'
  BY FollowsStep DEF HandledInv
<1>2. CASE OpenTry \/ OpenGuarded
  BY <1>1, <1>2, OpenSettles
<1>3. CASE Close \/ EndClause \/ EndInterrupt \/ AbandonInterrupt
  BY <1>1, <1>3, LeaveRegionSettles
<1>4. CASE NoMatch \/ BareRaise \/ \E e \in Excs : RaiseNew(e)
  BY <1>1, <1>4, SettledStays DEF NoMatch, BareRaise, RaiseNew
<1>5. CASE Catch
  BY <1>1, <1>5, CatchSettles
<1>6. CASE Call \/ \E g \in Gens : Resume(g)
  BY <1>1, <1>6, ArriveSettles
<1>7. CASE Return \/ Yield \/ Unwind
  BY <1>1, <1>7, LeaveSettles
<1>8. CASE UNCHANGED vars
  BY <1>1, <1>8, SettledStays DEF vars
<1> QED
  BY <1>2, <1>3, <1>4, <1>5, <1>6, <1>7, <1>8 DEF Next

LEMMA SettledMeans == HandledInv => HandledIsOpenClauses
<1> SUFFICES ASSUME HandledInv, NEW k \in DOMAIN stack
             PROVE  LET scope == stack[k].scope
                    IN  /\ Base(k + 1) = Base(k) + Clauses(scope, Len(scope))
                        /\ \A p \in DOMAIN scope :
                             Caught(scope[p]) => handled[Base(k) + Clauses(scope, p)] = scope[p].exc
  BY DEF HandledIsOpenClauses
<1>1. Base(k) = stack[k].outer
  BY DEF Base, HandledInv, HandlersInv, Inv, TypeOK
<1> QED BY <1>1 DEF HandledInv, AllSettled, Settled

(* When generators do not yield inside of a region, what is being handled  *)
(* is what the open except clauses and the interrupted finally clauses     *)
(* have caught, in order, for any nesting of calls, generators and try     *)
(* statements.  yield_in_clause shows that it takes the assumption.        *)
THEOREM HandledIsWhatIsOpen == ASSUME YieldIn = {} PROVE Spec => []HandledIsOpenClauses
<1>1. Spec => []HandledInv
  BY HandledInit, HandledStep, PTL DEF Spec
<1> QED BY <1>1, SettledMeans, PTL

-----------------------------------------------------------------------------
(* Contexts.                                                               *)

Links == [Exceptions -> Exceptions \union {NoExc}]

\* NoRing of any links.
RingFree(c) == \A S \in SUBSET Exceptions : S # {} => \E e \in S : c[e] \notin S

ContextInv == Inv /\ context \in Links /\ RingFree(context)

-----------------------------------------------------------------------------
(* The chain above an exception has the exception, and goes on.            *)
LEMMA ChainGoesOn ==
  ASSUME NEW c \in Links, NEW e \in Exceptions
  PROVE  /\ e \in Chain(c, e)
         /\ Chain(c, e) \subseteq Exceptions
         /\ \A y \in Chain(c, e) : c[y] \in Chain(c, e) \union {NoExc}
<1>1. e \in Chain(c, e) /\ Chain(c, e) \subseteq Exceptions
  BY DEF Chain
<1>2. ASSUME NEW y \in Chain(c, e), c[y] # NoExc
      PROVE  c[y] \in Chain(c, e)
  <2>1. y \in Exceptions /\ c[y] \in Exceptions
    BY <1>1, <1>2 DEF Links
  <2>2. ASSUME NEW S \in SUBSET Exceptions, e \in S,
               \A z \in S : c[z] \in S \union {NoExc}
        PROVE  c[y] \in S
    <3>1. y \in S
      BY <2>2 DEF Chain
    <3> QED BY <1>2, <2>2, <3>1
  <2> QED BY <2>1, <2>2 DEF Chain
<1> QED BY <1>1, <1>2

(* Raising one exception while another is handled keeps the links free of  *)
(* rings.  A ring that the new link closes would go through the exception  *)
(* being handled and along its chain back to the one raised; the part of   *)
(* it that is on the chain, without the one raised, would be a ring of the *)
(* old links, since the link into the one raised was cut.                  *)
LEMMA WhileHandlingKeeps ==
  ASSUME NEW c \in Links, RingFree(c), NEW new \in Exceptions, NEW old \in Exceptions
  PROVE  WhileHandling(c, new, old) \in Links /\ RingFree(WhileHandling(c, new, old))
<1> DEFINE d == WhileHandling(c, new, old)
<1>1. CASE new = old
  BY <1>1 DEF WhileHandling
<1>2. CASE new # old
  <2>1. d = [x \in Exceptions |->
               IF x = new THEN old
               ELSE IF c[x] = new /\ x \in Chain(c, old) THEN NoExc ELSE c[x]]
    BY <1>2 DEF WhileHandling
  <2>2. d \in Links
    BY <2>1 DEF Links
  <2>3. ASSUME NEW S \in SUBSET Exceptions, S # {}, \A e \in S : d[e] \in S
        PROVE  FALSE
    <3>1. NoExc \notin S
      BY NamesAssumption
    <3>2. CASE new \notin S
      <4>1. \A e \in S : d[e] = c[e]
        BY <2>1, <2>3, <3>1, <3>2
      <4> QED BY <2>3, <4>1 DEF RingFree
    <3>3. CASE new \in S
      <4> DEFINE T == (S \intersect Chain(c, old)) \ {new}
      <4>1. old \in S
        BY <2>1, <2>3, <3>3
      <4>2. old \in T
        BY <1>2, <4>1, ChainGoesOn
      <4>3. ASSUME NEW x \in T PROVE c[x] \in T
        <5>1. x \in S /\ x \in Exceptions /\ x \in Chain(c, old) /\ x # new
          BY <4>3
        <5>2. d[x] \in S /\ d[x] # NoExc
          BY <2>3, <3>1, <5>1
        <5>3. d[x] = c[x] /\ c[x] # new
          BY <2>1, <5>1, <5>2
        <5>4. c[x] \in Chain(c, old)
          BY <5>1, <5>2, <5>3, ChainGoesOn
        <5> QED BY <5>2, <5>3, <5>4
      <4>4. T \in SUBSET Exceptions /\ T # {}
        BY <4>2
      <4> QED BY <4>3, <4>4 DEF RingFree
    <3> QED BY <3>2, <3>3
  <2> QED BY <2>2, <2>3 DEF RingFree
<1> QED BY <1>1, <1>2

\* An exception that is new has no context.
LEMMA NewKeeps ==
  ASSUME NEW c \in Links, RingFree(c), NEW e \in Exceptions
  PROVE  [c EXCEPT ![e] = NoExc] \in Links /\ RingFree([c EXCEPT ![e] = NoExc])
<1> DEFINE d == [c EXCEPT ![e] = NoExc]
<1>1. d \in Links /\ d[e] = NoExc /\ \A x \in Exceptions : x # e => d[x] = c[x]
  BY DEF Links
<1>2. ASSUME NEW S \in SUBSET Exceptions, S # {}
      PROVE  \E x \in S : d[x] \notin S
  <2>1. CASE e \in S
    BY <1>1, <2>1, NamesAssumption
  <2>2. CASE e \notin S
    <3>1. PICK x \in S : c[x] \notin S
      BY <1>2 DEF RingFree
    <3> QED BY <1>1, <2>2, <3>1
  <2> QED BY <2>1, <2>2
<1> QED BY <1>1, <1>2 DEF RingFree

-----------------------------------------------------------------------------
\* What is innermost of what is being handled is an exception.
LEMMA LastHandled ==
  ASSUME handled \in Seq(Exceptions), handled # << >> PROVE Last(handled) \in Exceptions
BY DEF Last

LEMMA ContextInvInit == ContextInit => ContextInv
<1> SUFFICES ASSUME ContextInit PROVE ContextInv
  OBVIOUS
<1>1. Inv
  BY InvInit DEF ContextInit
<1>2. context = [e \in Exceptions |-> NoExc]
  BY DEF ContextInit
<1>3. context \in Links
  BY <1>2 DEF Links
<1>4. RingFree(context)
  BY <1>2, NamesAssumption DEF RingFree
<1> QED BY <1>1, <1>3, <1>4 DEF ContextInv

(* Every step of Contexts is a step of the machine.                        *)
LEMMA StepsAreMachines == [ContextNext]_contextVars => [Next]_vars
<1> SUFFICES ASSUME [ContextNext]_contextVars PROVE [Next]_vars
  OBVIOUS
<1>1. CASE ContextNext
  BY <1>1 DEF ContextNext, Fail, Raise, RaiseAgain, CallOrFail, ResumeOrFail, Pass, Quiet, Next
<1>2. CASE UNCHANGED contextVars
  BY <1>2 DEF contextVars
<1> QED BY <1>1, <1>2

LEMMA FailedKeeps ==
  ASSUME ContextInv, NEW e \in Exceptions, Failed(e)
  PROVE  context' \in Links /\ RingFree(context')
BY NewKeeps DEF ContextInv, Failed

LEMMA SameKeeps ==
  ASSUME ContextInv, UNCHANGED context PROVE context' \in Links /\ RingFree(context')
BY DEF ContextInv

LEMMA LinksStep ==
  ASSUME ContextInv, [ContextNext]_contextVars, Inv'
  PROVE  context' \in Links /\ RingFree(context')
<1>1. context \in Links /\ RingFree(context)
  BY DEF ContextInv
<1>2. handled \in Seq(Exceptions) /\ raising' \in Exceptions \union {NoExc}
      /\ raising \in Exceptions \union {NoExc}
  BY DEF ContextInv, Inv, TypeOK
<1>3. Excs \subseteq Exceptions /\ RuntimeError \in Exceptions /\ RecursionError \in Exceptions
  BY DEF Exceptions
<1>4. CASE \E e \in Excs : Fail(e)
  BY <1>3, <1>4, FailedKeeps DEF Fail
<1>5. ASSUME NEW e \in Excs, Raise(e) PROVE context' \in Links /\ RingFree(context')
  <2>1. CASE handled = << >>
    BY <1>5, <2>1, SameKeeps DEF Raise
  <2>2. CASE handled # << >>
    <3>1. context' = WhileHandling(context, e, Last(handled))
      BY <1>5, <2>2 DEF Raise
    <3> QED BY <1>1, <1>2, <1>3, <2>2, <3>1, LastHandled, WhileHandlingKeeps
  <2> QED BY <2>1, <2>2
<1>6. CASE RaiseAgain
  BY <1>3, <1>6, FailedKeeps, SameKeeps DEF RaiseAgain, Same
<1>7. CASE CallOrFail
  BY <1>3, <1>7, FailedKeeps, SameKeeps DEF CallOrFail, Same
<1>8. CASE \E g \in Gens : ResumeOrFail(g)
  BY <1>2, <1>8, FailedKeeps, SameKeeps DEF ResumeOrFail, Same
<1>9. CASE Pass
  <2>1. context' = InContext(context, raising) /\ raising \in Exceptions
    BY <1>2, <1>9 DEF Pass, Catch, Unwind
  <2>2. CASE handled = << >> \/ context[raising] # NoExc
    BY <2>1, <2>2, SameKeeps DEF InContext
  <2>3. CASE ~(handled = << >> \/ context[raising] # NoExc)
    <3>1. context' = WhileHandling(context, raising, Last(handled))
      BY <2>1, <2>3 DEF InContext
    <3> QED BY <1>1, <1>2, <2>1, <2>3, <3>1, LastHandled, WhileHandlingKeeps
  <2> QED BY <2>2, <2>3
<1>10. CASE Quiet \/ UNCHANGED contextVars
  BY <1>10, SameKeeps DEF Quiet, Same, contextVars
<1> QED BY <1>4, <1>5, <1>6, <1>7, <1>8, <1>9, <1>10 DEF ContextNext

LEMMA ContextInvStep == ContextInv /\ [ContextNext]_contextVars => ContextInv'
<1> SUFFICES ASSUME ContextInv, [ContextNext]_contextVars PROVE ContextInv'
  OBVIOUS
<1>1. Inv'
  BY InvStep, StepsAreMachines DEF ContextInv
<1>2. context' \in Links /\ RingFree(context')
  BY <1>1, LinksStep
<1> QED BY <1>1, <1>2 DEF ContextInv

(* The context chain never closes a ring, so that a traceback ends: for    *)
(* any exceptions, raised, kept and raised again in any clause of any      *)
(* frame (raised_while_handling).                                          *)
THEOREM ChainsEnd == ContextSpec => []NoRing
<1>1. ContextInv => NoRing
  BY DEF ContextInv, RingFree, NoRing
<1> QED BY <1>1, ContextInvInit, ContextInvStep, PTL DEF ContextSpec

-----------------------------------------------------------------------------
(* Where a link is cut.                                                    *)

\* A chain is its first exception and the chain of what that has.
LEMMA ChainStep ==
  ASSUME NEW c \in Links, NEW x \in Exceptions, NEW e \in Chain(c, x), e # x
  PROVE  c[x] \in Exceptions /\ e \in Chain(c, c[x])
<1>1. e \in Exceptions /\ \A S \in SUBSET Exceptions :
        (x \in S /\ \A y \in S : c[y] \in S \union {NoExc}) => e \in S
  BY DEF Chain
<1>2. c[x] # NoExc
  <2> SUFFICES ASSUME c[x] = NoExc PROVE FALSE
    OBVIOUS
  <2>1. {x} \in SUBSET Exceptions /\ x \in {x} /\ \A y \in {x} : c[y] \in {x} \union {NoExc}
    OBVIOUS
  <2>2. e \in {x}
    BY <1>1, <2>1
  <2> QED BY <2>2
<1>3. c[x] \in Exceptions
  BY <1>2 DEF Links
<1>4. ASSUME NEW S \in SUBSET Exceptions, c[x] \in S, \A y \in S : c[y] \in S \union {NoExc}
      PROVE  e \in S
  <2> DEFINE T == S \union {x}
  <2>1. T \in SUBSET Exceptions /\ x \in T /\ \A y \in T : c[y] \in T \union {NoExc}
    BY <1>4
  <2>2. e \in T
    <3> HIDE DEF T
    <3> QED BY <1>1, <2>1
  <2> QED BY <2>2
<1> QED BY <1>1, <1>3, <1>4 DEF Chain

\* What has `new` for its context is not on the chain of `new`.
LEMMA NoWayBack ==
  ASSUME NEW c \in Links, RingFree(c), NEW new \in Exceptions, NEW e \in Exceptions, c[e] = new
  PROVE  e \notin Chain(c, new)
<1> SUFFICES ASSUME e \in Chain(c, new) PROVE FALSE
  OBVIOUS
<1> DEFINE Q == {x \in Chain(c, new) : e \in Chain(c, x)}
<1>1. Q \in SUBSET Exceptions /\ e \in Q
  BY ChainGoesOn
<1>2. ASSUME NEW x \in Q PROVE c[x] \in Q
  <2>1. x \in Exceptions /\ x \in Chain(c, new) /\ e \in Chain(c, x)
    BY <1>1
  <2>2. CASE x = e
    BY <2>2, ChainGoesOn
  <2>3. CASE x # e
    <3>1. c[x] \in Exceptions /\ e \in Chain(c, c[x])
      BY <2>1, <2>3, ChainStep
    <3>2. c[x] \in Chain(c, new)
      BY <2>1, <3>1, ChainGoesOn, NamesAssumption
    <3> QED BY <3>1, <3>2
  <2> QED BY <2>2, <2>3
<1> HIDE DEF Q
<1> QED BY <1>1, <1>2 DEF RingFree

\* The exception that loses its link to `new` is above `new` afterwards.
LEMMA CutIsAbove ==
  ASSUME NEW c \in Links, RingFree(c), NEW new \in Exceptions, NEW old \in Exceptions,
         NEW e \in Exceptions, c[e] # NoExc, WhileHandling(c, new, old)[e] = NoExc
  PROVE  e \in Chain(WhileHandling(c, new, old), c[e])
<1> DEFINE d == WhileHandling(c, new, old)
<1>1. new # old
  BY DEF WhileHandling
<1>2. d = [x \in Exceptions |->
             IF x = new THEN old
             ELSE IF c[x] = new /\ x \in Chain(c, old) THEN NoExc ELSE c[x]]
  BY <1>1 DEF WhileHandling
<1>3. e # new /\ c[e] = new /\ e \in Chain(c, old)
  BY <1>2, NamesAssumption
<1>4. d[new] = old /\ \A y \in Exceptions : y # new => d[y] = c[y] \/ c[y] = new
  BY <1>2
<1> HIDE DEF d
<1>5. ASSUME NEW S \in SUBSET Exceptions, new \in S, \A y \in S : d[y] \in S \union {NoExc}
      PROVE  e \in S
  <2>1. old \in S
    BY <1>4, <1>5, NamesAssumption
  <2> DEFINE T == S \union Chain(c, new)
  <2>2. new \in Chain(c, new) /\ Chain(c, new) \subseteq Exceptions
        /\ \A y \in Chain(c, new) : c[y] \in Chain(c, new) \union {NoExc}
    BY ChainGoesOn
  <2>3. T \in SUBSET Exceptions /\ old \in T
    BY <2>1, <2>2
  <2>4. \A y \in T : c[y] \in T \union {NoExc}
    BY <1>4, <1>5, <2>2
  <2>5. e \in T
    <3> HIDE DEF T
    <3> QED BY <1>3, <2>3, <2>4 DEF Chain
  <2>6. e \notin Chain(c, new)
    BY <1>3, NoWayBack
  <2> QED BY <2>5, <2>6
<1> QED BY <1>3, <1>5 DEF Chain, d

LEMMA CutsStep ==
  ASSUME ContextInv, [ContextNext]_contextVars, NEW e \in Exceptions,
         context[e] # NoExc, context'[e] = NoExc, ~ Unused(e)
  PROVE  e \in Chain(context', context[e])
<1>1. context \in Links /\ RingFree(context)
  BY DEF ContextInv
<1>2. handled \in Seq(Exceptions) /\ raising \in Exceptions \union {NoExc}
  BY DEF ContextInv, Inv, TypeOK
<1>3. Excs \subseteq Exceptions
  BY DEF Exceptions
<1>4. context' # context
  OBVIOUS
<1>5. ASSUME NEW x, Failed(x) PROVE FALSE
  <2>1. context' = [context EXCEPT ![x] = NoExc] /\ Unused(x)
    BY <1>5 DEF Failed
  <2> QED BY <1>1, <2>1 DEF Links
<1>6. ASSUME NEW x \in Exceptions, handled # << >>, context' = WhileHandling(context, x, Last(handled))
      PROVE  e \in Chain(context', context[e])
  BY <1>1, <1>2, <1>6, LastHandled, CutIsAbove
<1>7. ASSUME NEW x \in Excs, Fail(x) \/ Raise(x) PROVE e \in Chain(context', context[e])
  BY <1>3, <1>4, <1>5, <1>6, <1>7 DEF Fail, Raise
<1>8. CASE RaiseAgain \/ CallOrFail \/ (\E g \in Gens : ResumeOrFail(g)) \/ Quiet \/ UNCHANGED contextVars
  BY <1>4, <1>5, <1>8 DEF RaiseAgain, CallOrFail, ResumeOrFail, Quiet, Same, contextVars
<1>9. CASE Pass
  <2>1. context' = InContext(context, raising) /\ raising \in Exceptions
    BY <1>2, <1>9 DEF Pass, Catch, Unwind
  <2> QED BY <1>4, <1>6, <2>1 DEF InContext
<1> QED BY <1>7, <1>8, <1>9 DEF ContextNext

(* A link is only cut where it would have closed a ring: for any           *)
(* exceptions, raised and raised again in any clause of any frame.         *)
THEOREM OnlyRingsAreCut == ContextSpec => CutsOnlyRings
<1>1. ContextInv /\ [ContextNext]_contextVars =>
        [\A e \in Exceptions :
           context[e] # NoExc /\ context'[e] = NoExc /\ ~Unused(e)
             => e \in Chain(context', context[e])]_contextVars
  BY CutsStep
<1> QED BY <1>1, ContextInvInit, ContextInvStep, PTL DEF ContextSpec, CutsOnlyRings

-----------------------------------------------------------------------------
(* What the contexts say.                                                  *)

\* Below an exception that has no context, because it was raised while nothing
\* else was handled, nothing else is being handled.
Deep ==
  \A e \in Exceptions \ cut : context[e] = NoExc =>
    \A i \in 1 .. Len(handled) : handled[i] = e => \A j \in 1 .. i - 1 : handled[j] = e

\* What is on its way out without a context is new, and the next frame gives it
\* the one it should have, or there is nothing to give it.
Waiting ==
  raising \in Exceptions \ cut /\ context[raising] = NoExc =>
    \/ answer[raising] = Now /\ \A i \in 1 .. Len(handled) : handled[i] # raising
    \/ answer[raising] = NoExc /\ \A i \in 1 .. Len(handled) : handled[i] = raising

AnswerInv == ContextInv /\ HandledInv /\ answer \in Links /\ RightAnswer /\ Deep /\ Waiting

Begins(s, t) == Len(s) \in 0 .. Len(t) /\ \A i \in 1 .. Len(s) : s[i] = t[i]

LEMMA BeginsItself == ASSUME NEW S, NEW s \in Seq(S) PROVE Begins(s, s)
BY DEF Begins

LEMMA FrontBegins == ASSUME NEW S, NEW s \in Seq(S) PROVE Front(s) \in Seq(S) /\ Begins(Front(s), s)
<1>1. CASE s = << >>
  <2>1. Front(s) = SubSeq(s, 1, 0 - 1)
    BY <1>1 DEF Front
  <2>2. SubSeq(s, 1, 0 - 1) = << >>
    BY SubSeqEmpty
  <2> QED BY <1>1, <2>1, <2>2 DEF Begins
<1>2. CASE s # << >>
  <2> DEFINE f == Front(s)
  <2>1. f \in Seq(S) /\ Len(f) = Len(s) - 1 /\ (\A i \in 1 .. Len(s) - 1 : f[i] = s[i]) /\ Len(s) \in Nat \ {0}
    BY <1>2, SeqFront
  <2> HIDE DEF f
  <2> QED BY <2>1 DEF Begins, f
<1> QED BY <1>1, <1>2

LEMMA TruncateBegins ==
  ASSUME NEW S, NEW s \in Seq(S), NEW n \in Nat
  PROVE  Truncate(s, n) \in Seq(S) /\ Begins(Truncate(s, n), s)
<1>1. CASE n < Len(s)
  <2>1. n \in 0 .. Len(s)
    BY <1>1
  <2> DEFINE f == Truncate(s, n)
  <2>2. f \in Seq(S) /\ Len(f) = n /\ \A i \in 1 .. n : f[i] = s[i]
    BY <2>1, TruncateKeeps
  <2> HIDE DEF f
  <2> QED BY <2>1, <2>2 DEF Begins, f
<1>2. CASE ~(n < Len(s))
  BY <1>2, BeginsItself DEF Truncate
<1> QED BY <1>1, <1>2

LEMMA BeginsTwice ==
  ASSUME NEW r, NEW s, NEW t, Len(t) \in Nat, Begins(r, s), Begins(s, t)
  PROVE  Begins(r, t)
BY DEF Begins

\* What Deep and Waiting say of the handled stack they say of its beginnings.
DeepOf(c, gone, held) ==
  \A e \in Exceptions \ gone : c[e] = NoExc =>
    \A i \in 1 .. Len(held) : held[i] = e => \A j \in 1 .. i - 1 : held[j] = e

LEMMA DeepBegins ==
  ASSUME NEW c, NEW gone, NEW held, Len(held) \in Nat, DeepOf(c, gone, held), NEW less, Begins(less, held)
  PROVE  DeepOf(c, gone, less)
<1> SUFFICES ASSUME NEW e \in Exceptions \ gone, c[e] = NoExc, NEW i \in 1 .. Len(less), less[i] = e,
                    NEW j \in 1 .. i - 1
             PROVE  less[j] = e
  BY DEF DeepOf
<1>1. i \in 1 .. Len(held) /\ held[i] = e /\ j \in 1 .. Len(less) /\ held[j] = less[j]
  BY DEF Begins
<1> QED BY <1>1 DEF DeepOf

\* What neither raises anew nor passes a frame.
LEMMA CarryOn ==
  ASSUME AnswerInv, raising = NoExc, Same, Begins(handled', handled),
         raising' \in Exceptions \ cut /\ context[raising'] = NoExc =>
           \A j \in 1 .. Len(handled') : handled'[j] = raising'
  PROVE  answer' \in Links /\ RightAnswer' /\ Deep' /\ Waiting'
<1>1. context' = context /\ answer' = answer /\ cut' = cut
  BY DEF Same
<1>2. \A e \in Exceptions \ cut : context[e] = answer[e]
  BY NamesAssumption DEF AnswerInv, RightAnswer
<1>3. Len(handled) \in Nat
  BY DEF AnswerInv, ContextInv, Inv, TypeOK
<1>4. RightAnswer'
  BY <1>1, <1>2 DEF RightAnswer
<1>5. DeepOf(context, cut, handled')
  BY <1>3, DeepBegins DEF AnswerInv, Deep, DeepOf
<1>6. Deep'
  BY <1>1, <1>5 DEF Deep, DeepOf
<1>7. Waiting'
  BY <1>1, <1>2 DEF Waiting
<1>8. answer' \in Links
  BY <1>1 DEF AnswerInv
<1> QED BY <1>4, <1>6, <1>7, <1>8

LEMMA FailCarriesOn ==
  ASSUME AnswerInv, raising = NoExc, NEW e \in Exceptions, Failed(e), handled' = handled, raising' = e
  PROVE  answer' \in Links /\ RightAnswer' /\ Deep' /\ Waiting'
<1>1. /\ Unused(e) /\ context' = [context EXCEPT ![e] = NoExc] /\ cut' = cut \ {e}
      /\ answer' = [x \in Exceptions |-> IF x = e THEN Now ELSE IF answer[x] = e THEN NoExc ELSE answer[x]]
  BY DEF Failed
<1>2. context \in Links /\ handled \in Seq(Exceptions)
  BY DEF AnswerInv, ContextInv, Inv, TypeOK
<1>3. context'[e] = NoExc /\ answer'[e] = Now
      /\ \A x \in Exceptions : x # e => context'[x] = context[x] /\ context[x] # e
  BY <1>1, <1>2 DEF Links, Unused
<1>4. \A x \in Exceptions \ cut : context[x] = answer[x]
  BY NamesAssumption DEF AnswerInv, RightAnswer
<1>5. \A i \in 1 .. Len(handled) : handled[i] # e
  BY <1>1, <1>2 DEF Unused
<1>6. RightAnswer'
  BY <1>1, <1>3, <1>4 DEF RightAnswer
<1>7. Deep'
  <2> SUFFICES ASSUME NEW x \in Exceptions \ cut', context'[x] = NoExc, NEW i \in 1 .. Len(handled), handled[i] = x
               PROVE  \A j \in 1 .. i - 1 : handled[j] = x
    BY DEF Deep
  <2>1. x # e /\ x \notin cut /\ context[x] = NoExc
    BY <1>1, <1>3, <1>5
  <2> QED BY <2>1 DEF AnswerInv, Deep
<1>8. Waiting'
  <2>1. Now' = Now
    BY DEF Now
  <2> QED BY <1>3, <1>5, <2>1 DEF Waiting
<1>9. answer' \in Links
  <2>1. Now \in Exceptions \union {NoExc}
    BY <1>2, LastHandled DEF Now
  <2> QED BY <1>1, <2>1 DEF AnswerInv, Links
<1> QED BY <1>6, <1>7, <1>8, <1>9

LEMMA RaiseCarriesOn ==
  ASSUME AnswerInv, NEW e \in Excs, Raise(e)
  PROVE  answer' \in Links /\ RightAnswer' /\ Deep' /\ Waiting'
<1>1. raising = NoExc /\ raising' = e /\ handled' = handled /\ e \in Exceptions
  BY DEF Raise, RaiseNew, Running, Exceptions
<1>2. context \in Links /\ handled \in Seq(Exceptions)
  BY DEF AnswerInv, ContextInv, Inv, TypeOK
<1>3. \A x \in Exceptions \ cut : context[x] = answer[x]
  BY <1>1, NamesAssumption DEF AnswerInv, RightAnswer
<1>4. CASE Now \in {NoExc, e}
  <2>1. \A i \in 1 .. Len(handled) : handled[i] \in Exceptions
    BY <1>2
  <2>2. handled = << >> \/ (Now = e /\ Last(handled) = e)
    BY <1>2, <1>4, LastHandled, NamesAssumption DEF Now
  <2>3. Same
    BY <1>4, <2>2 DEF Raise, WhileHandling, Same
  <2>4. ASSUME e \notin cut, context[e] = NoExc PROVE \A j \in 1 .. Len(handled) : handled[j] = e
    <3>1. CASE handled = << >>
      BY <3>1
    <3>2. CASE handled # << >>
      <4>1. Len(handled) \in 1 .. Len(handled) /\ handled[Len(handled)] = e /\ Len(handled) \in Nat
        BY <1>2, <2>2, <3>2 DEF Last
      <4>2. \A j \in 1 .. Len(handled) - 1 : handled[j] = e
        BY <1>1, <2>4, <4>1 DEF AnswerInv, Deep
      <4> QED BY <4>1, <4>2
    <3> QED BY <3>1, <3>2
  <2>5. Begins(handled', handled)
    BY <1>1, <1>2, BeginsItself
  <2> QED BY <1>1, <2>3, <2>4, <2>5, CarryOn
<1>5. CASE Now \notin {NoExc, e}
  <2>1. handled # << >> /\ Now = Last(handled) /\ Now \in Exceptions /\ Now # e
    BY <1>2, <1>5, LastHandled DEF Now
  <2>2. /\ context' = WhileHandling(context, e, Now)
        /\ answer' = [answer EXCEPT ![e] = Now]
        /\ cut' = (cut \union Lost) \ {e}
    BY <1>5, <2>1 DEF Raise
  <2>3. context' = [x \in Exceptions |->
                      IF x = e THEN Now
                      ELSE IF context[x] = e /\ x \in Chain(context, Now) THEN NoExc
                      ELSE context[x]]
    BY <2>1, <2>2 DEF WhileHandling
  <2>4. context'[e] = Now /\ \A x \in Exceptions \ cut' : x # e => x \notin cut /\ context'[x] = context[x]
    BY <1>1, <2>2, <2>3, NamesAssumption DEF Lost
  <2>5. \A x \in Exceptions : x # e => answer'[x] = answer[x]
    BY <2>2
  <2>6. ASSUME NEW x \in Exceptions \ cut', context'[x] = NoExc PROVE x # e /\ x \notin cut /\ context[x] = NoExc
    BY <2>1, <2>4, <2>6, NamesAssumption
  <2>7. Deep'
    BY <1>1, <2>6 DEF AnswerInv, Deep
  <2>8. Waiting'
    BY <1>1, <2>6 DEF Waiting
  <2>9. answer \in Links
    BY DEF AnswerInv
  <2>10. answer' \in Links
    BY <1>1, <2>1, <2>2, <2>9 DEF Links
  <2>11. RightAnswer'
    <3> SUFFICES ASSUME NEW x \in Exceptions \ cut' PROVE context'[x] = answer'[x]
      BY DEF RightAnswer
    <3>1. CASE x # e
      BY <1>3, <2>4, <2>5, <3>1
    <3>2. CASE x = e
      BY <1>1, <2>2, <2>4, <2>9, <3>2 DEF Links
    <3> QED BY <3>1, <3>2
  <2> QED BY <2>7, <2>8, <2>10, <2>11
<1> QED BY <1>4, <1>5

\* The handled stack that a failure leaves behind.
LEMMA PassHandled ==
  ASSUME HandledInv, Catch \/ Unwind
  PROVE  \/ /\ raising' = NoExc
            /\ \E less \in Seq(Exceptions) : Begins(less, handled) /\ handled' = Append(less, raising)
         \/ raising' = raising /\ Begins(handled', handled)
<1>1. handled \in Seq(Exceptions) /\ Len(handled) \in Nat
  BY DEF HandledInv, HandlersInv, Inv, TypeOK
<1>2. stack # << >>
  BY DEF Catch, Unwind
<1>3. Top.handlers \in Seq(Handler) /\ Top.outer \in Nat
  BY <1>2, TopSettled
<1>4. CASE Unwind
  BY <1>1, <1>3, <1>4, TruncateBegins DEF Unwind
<1>5. CASE Catch
  <2> DEFINE h == Last(Top.handlers)
             f == [Top EXCEPT !.handlers = Front(@), !.scope = Passed(@)]
             less == Truncate(handled, h.handled)
  <2>1. h \in Handler
    BY <1>3, <1>5, SeqFront DEF Catch
  <2>2. h.handled \in Nat /\ h.to \in {"except", "finally", "cleanup"}
    BY <2>1 DEF Handler
  <2>3. Land(h, f, less)
    BY <1>5 DEF Catch
  <2> HIDE DEF h, f
  <2>4. less \in Seq(Exceptions) /\ Begins(less, handled)
    BY <1>1, <2>2, TruncateBegins
  <2> HIDE DEF less
  <2>5. CASE h.to \in {"except", "finally"}
    BY <2>3, <2>4, <2>5 DEF Land
  <2>6. CASE h.to = "cleanup"
    <3>1. handled' = Front(less) /\ raising' = raising
      BY <2>3, <2>6 DEF Land
    <3> QED BY <1>1, <2>4, <3>1, FrontBegins, BeginsTwice
  <2> QED BY <2>2, <2>5, <2>6
<1> QED BY <1>4, <1>5

LEMMA PassCarriesOn ==
  ASSUME AnswerInv, Pass
  PROVE  answer' \in Links /\ RightAnswer' /\ Deep' /\ Waiting'
<1> DEFINE r == raising
<1>1. /\ context' = InContext(context, r) /\ cut' = cut \union Lost /\ answer' = answer
      /\ Catch \/ Unwind
  BY DEF Pass
<1>2. /\ context \in Links /\ answer \in Links /\ handled \in Seq(Exceptions) /\ Len(handled) \in Nat
      /\ r \in Exceptions
  <2>1. raising \in Exceptions \union {NoExc} /\ raising # NoExc
    BY <1>1 DEF AnswerInv, ContextInv, Inv, TypeOK, Catch, Unwind
  <2> QED BY <2>1 DEF AnswerInv, ContextInv, Inv, TypeOK
<1>3. RightAnswer /\ DeepOf(context, cut, handled) /\ Waiting
  BY DEF AnswerInv, Deep, DeepOf
<1>4. \A x \in Exceptions \ cut' : x # r => x \notin cut /\ context'[x] = context[x]
  <2>1. CASE context' = context
    BY <1>1, <2>1
  <2>2. CASE context' # context
    <3>1. handled # << >> /\ r # Last(handled) /\ context' = WhileHandling(context, r, Last(handled))
      BY <1>1, <2>2 DEF InContext, WhileHandling
    <3>2. \A x \in Exceptions : x # r => context'[x] = NoExc \/ context'[x] = context[x]
      BY <3>1 DEF WhileHandling
    <3> QED BY <1>1, <3>2 DEF Lost
  <2> QED BY <2>1, <2>2
\* What is said of r, now that the frame has looked.
<1>5. ASSUME r \notin cut'
      PROVE  /\ r \notin cut /\ context'[r] = answer[r]
             /\ context'[r] = NoExc => context[r] = NoExc /\ \A i \in 1 .. Len(handled) : handled[i] = r
  <2>1. r \notin cut
    BY <1>1, <1>5
  <2>2. CASE context[r] # NoExc
    BY <1>1, <1>2, <1>3, <2>1, <2>2 DEF InContext, RightAnswer
  <2>3. CASE context[r] = NoExc /\ answer[r] = Now /\ \A i \in 1 .. Len(handled) : handled[i] # r
    <3>1. CASE handled = << >>
      BY <1>1, <2>1, <2>3, <3>1 DEF InContext, Now
    <3>2. CASE handled # << >>
      <4>1. Last(handled) # r /\ Last(handled) \in Exceptions
        BY <1>2, <2>3, <3>2, LastHandled DEF Last
      <4>2. context'[r] = Last(handled)
        BY <1>1, <1>2, <2>3, <3>2, <4>1 DEF InContext, WhileHandling
      <4>3. answer[r] = Last(handled)
        BY <2>3, <3>2 DEF Now
      <4> QED BY <2>1, <4>1, <4>2, <4>3, NamesAssumption
    <3> QED BY <3>1, <3>2
  <2>4. CASE context[r] = NoExc /\ answer[r] = NoExc /\ \A i \in 1 .. Len(handled) : handled[i] = r
    <3>1. handled = << >> \/ Last(handled) = r
      BY <1>2, <2>4 DEF Last
    <3>2. context' = context
      BY <1>1, <3>1 DEF InContext, WhileHandling
    <3> QED BY <2>1, <2>4, <3>2
  <2> QED BY <1>2, <1>3, <2>1, <2>2, <2>3, <2>4 DEF Waiting
<1>6. RightAnswer'
  <2> SUFFICES ASSUME NEW x \in Exceptions \ cut'
               PROVE  context'[x] = answer[x]
    BY <1>1 DEF RightAnswer
  <2>1. CASE x = r
    BY <1>5, <2>1
  <2>2. CASE x # r
    BY <1>3, <1>4, <2>2 DEF RightAnswer
  <2> QED BY <2>1, <2>2
<1>7. \A x \in Exceptions \ cut' : context'[x] = NoExc => x \notin cut /\ context[x] = NoExc
  BY <1>4, <1>5
<1> HIDE DEF r
<1>8. ASSUME NEW less, Begins(less, handled) PROVE DeepOf(context', cut', less)
  <2>1. DeepOf(context, cut, less)
    BY <1>2, <1>3, <1>8, DeepBegins
  <2> QED BY <1>7, <2>1 DEF DeepOf
<1>9. CASE raising' = raising /\ Begins(handled', handled)
  <2>1. Deep'
    BY <1>8, <1>9 DEF Deep, DeepOf
  <2>2. Waiting'
    <3> SUFFICES ASSUME r \in Exceptions \ cut', context'[r] = NoExc
                 PROVE  answer[r] = NoExc /\ \A i \in 1 .. Len(handled') : handled'[i] = r
      BY <1>1, <1>9 DEF Waiting, r
    <3> QED BY <1>5, <1>9 DEF Begins
  <2> QED BY <1>1, <1>2, <1>6, <2>1, <2>2
<1>10. ASSUME raising' = NoExc, NEW less \in Seq(Exceptions), Begins(less, handled), handled' = Append(less, r)
       PROVE  Deep' /\ Waiting'
  <2> DEFINE n == Len(less)
  <2>1. n \in Nat /\ Len(handled') = n + 1 /\ handled'[n + 1] = r /\ \A i \in 1 .. n : handled'[i] = less[i]
    BY <1>2, <1>10, AppendProperties
  <2>2. Waiting'
    BY <1>10, NamesAssumption DEF Waiting
  <2>3. DeepOf(context', cut', less)
    BY <1>8, <1>10
  <2> HIDE DEF n
  <2>4. ASSUME NEW e \in Exceptions \ cut', context'[e] = NoExc, NEW i \in 1 .. n + 1, handled'[i] = e,
               NEW j \in 1 .. i - 1
        PROVE  handled'[j] = e
    <3>1. j \in 1 .. n /\ handled'[j] = less[j]
      BY <2>1
    <3>2. CASE i = n + 1
      <4>1. e = r
        BY <2>1, <2>4, <3>2
      <4>2. handled[j] = r
        BY <1>2, <1>5, <1>10, <2>4, <3>1, <4>1 DEF Begins, n
      <4> QED BY <1>10, <3>1, <4>1, <4>2 DEF Begins, n
    <3>3. CASE i # n + 1
      <4>1. i \in 1 .. n /\ less[i] = e
        BY <2>1, <2>4, <3>3
      <4> QED BY <2>3, <2>4, <3>1, <4>1 DEF DeepOf, n
    <3> QED BY <3>2, <3>3
  <2> QED BY <2>1, <2>2, <2>4 DEF Deep
<1>11. \/ raising' = raising /\ Begins(handled', handled)
       \/ /\ raising' = NoExc
          /\ \E less \in Seq(Exceptions) : Begins(less, handled) /\ handled' = Append(less, raising)
  BY <1>1, PassHandled DEF AnswerInv
<1> QED BY <1>1, <1>2, <1>6, <1>9, <1>10, <1>11 DEF r

\* The exception of the region the code is in is the innermost being handled.
LEMMA RegionsException ==
  ASSUME HandledInv, Running, InRegion("clause") \/ InRegion("interrupt")
  PROVE  handled \in Seq(Exceptions) /\ handled # << >> /\ Last(Top.scope).exc = Last(handled)
<1> DEFINE sc == Top.scope
           n == Len(sc)
<1>1. stack # << >> /\ sc # << >> /\ Caught(Last(sc))
  BY DEF Running, InRegion, Caught
<1>2. /\ Top \in Frame /\ sc \in Seq(Region) /\ Settled(Top, Len(handled), handled)
      /\ Top.outer \in 0 .. Len(handled) /\ handled \in Seq(Exceptions)
  BY <1>1, TopSettled
<1>3. n \in 1 .. n /\ DOMAIN sc = 1 .. n /\ Last(sc) = sc[n]
  BY <1>1, <1>2 DEF Last
<1>4. Len(handled) = Top.outer + Clauses(sc, n) /\ handled[Top.outer + Clauses(sc, n)] = sc[n].exc
  BY <1>1, <1>2, <1>3 DEF Settled
<1>5. Clauses(sc, n) = Clauses(sc, n - 1) + 1 /\ Clauses(sc, n - 1) \in Nat
  BY <1>1, <1>2, <1>3, ClausesNext
<1>6. Len(handled) \in Nat /\ Len(handled) # 0
  BY <1>2, <1>4, <1>5
<1>7. handled # << >>
  BY <1>6
<1> QED BY <1>2, <1>3, <1>4, <1>7 DEF Last

\* What is innermost and has no context is all that is being handled.
LEMMA LastAlone ==
  ASSUME AnswerInv, handled # << >>, Last(handled) \in Exceptions \ cut, context[Last(handled)] = NoExc
  PROVE  \A j \in 1 .. Len(handled) : handled[j] = Last(handled)
<1>1. handled \in Seq(Exceptions)
  BY DEF AnswerInv, ContextInv, Inv, TypeOK
<1>2. Len(handled) \in 1 .. Len(handled) /\ Len(handled) \in Nat /\ handled[Len(handled)] = Last(handled)
  BY <1>1 DEF Last
<1>3. \A j \in 1 .. Len(handled) - 1 : handled[j] = Last(handled)
  BY <1>2 DEF AnswerInv, Deep
<1> QED BY <1>2, <1>3

LEMMA QuietCarriesOn ==
  ASSUME AnswerInv, Quiet
  PROVE  answer' \in Links /\ RightAnswer' /\ Deep' /\ Waiting'
<1>1. Same /\ handled \in Seq(Exceptions)
  BY DEF Quiet, AnswerInv, ContextInv, Inv, TypeOK
<1>2. Begins(handled, handled) /\ Begins(Front(handled), handled)
  BY <1>1, BeginsItself, FrontBegins
<1>3. CASE OpenTry \/ OpenGuarded \/ Close \/ Return \/ Yield
  <2>1. raising = NoExc /\ raising' = NoExc /\ handled' = handled
    BY <1>3 DEF OpenTry, OpenGuarded, Open, Close, Return, Yield, Running
  <2> QED BY <1>1, <1>2, <2>1, CarryOn, NamesAssumption
<1>4. CASE EndClause \/ AbandonInterrupt
  <2>1. raising = NoExc /\ raising' = NoExc /\ handled' = Front(handled)
    BY <1>4 DEF EndClause, AbandonInterrupt, Running
  <2> QED BY <1>1, <1>2, <2>1, CarryOn, NamesAssumption
<1>5. CASE EndInterrupt \/ NoMatch
  <2>1. /\ Running /\ raising = NoExc /\ (InRegion("clause") \/ InRegion("interrupt"))
        /\ raising' = Last(Top.scope).exc /\ handled' \in {handled, Front(handled)}
    BY <1>5 DEF EndInterrupt, NoMatch, Running
  <2>2. handled # << >> /\ raising' = Last(handled)
    BY <2>1, RegionsException DEF AnswerInv
  <2>3. ASSUME raising' \in Exceptions \ cut, context[raising'] = NoExc
        PROVE  \A j \in 1 .. Len(handled') : handled'[j] = raising'
    <3>1. \A j \in 1 .. Len(handled) : handled[j] = raising'
      BY <2>2, <2>3, LastAlone
    <3>2. Begins(handled', handled) /\ Len(handled) \in Nat
      BY <1>1, <1>2, <2>1
    <3>3. \A j \in 1 .. Len(handled') : j \in 1 .. Len(handled) /\ handled'[j] = handled[j]
      BY <3>2 DEF Begins
    <3> QED BY <3>1, <3>3
  <2> QED BY <1>1, <1>2, <2>1, <2>3, CarryOn
<1> QED BY <1>3, <1>4, <1>5 DEF Quiet

LEMMA AnswerInit == ContextInit => AnswerInv
<1> SUFFICES ASSUME ContextInit PROVE AnswerInv
  OBVIOUS
<1>1. ContextInv /\ HandledInv
  BY ContextInvInit, HandledInit DEF ContextInit
<1>2. answer = context /\ handled = << >> /\ raising = NoExc
  BY DEF ContextInit, Init
<1>3. answer \in Links /\ RightAnswer /\ Deep /\ Waiting
  BY <1>1, <1>2, NamesAssumption DEF ContextInv, RightAnswer, Deep, Waiting
<1> QED BY <1>1, <1>3 DEF AnswerInv

LEMMA AnswerStep ==
  ASSUME YieldIn = {}, AnswerInv, [ContextNext]_contextVars
  PROVE  AnswerInv'
<1>1. ContextInv' /\ HandledInv'
  BY ContextInvStep, HandledStep, StepsAreMachines DEF AnswerInv
<1>2. handled \in Seq(Exceptions) /\ Begins(handled, handled)
  BY BeginsItself DEF AnswerInv, ContextInv, Inv, TypeOK
<1>3. Excs \subseteq Exceptions /\ {RuntimeError, RecursionError, ValueError} \subseteq Exceptions
  BY DEF Exceptions
<1> DEFINE Goes == answer' \in Links /\ RightAnswer' /\ Deep' /\ Waiting'
<1> SUFFICES Goes
  BY <1>1 DEF AnswerInv
<1>4. ASSUME raising = NoExc, raising' = NoExc, handled' = handled, Same PROVE Goes
  BY <1>2, <1>4, CarryOn, NamesAssumption
<1>5. ASSUME NEW e \in Exceptions, raising = NoExc, raising' = e, handled' = handled, Failed(e) PROVE Goes
  BY <1>5, FailCarriesOn
<1> HIDE DEF Goes
<1>6. ASSUME NEW e \in Excs, Fail(e) PROVE Goes
  BY <1>3, <1>5, <1>6 DEF Fail, RaiseNew, Running
<1>7. ASSUME NEW e \in Excs, Raise(e) PROVE Goes
  BY <1>7, RaiseCarriesOn DEF Goes
<1>8. CASE RaiseAgain
  <2>1. raising = NoExc /\ handled' = handled
    BY <1>8 DEF RaiseAgain, BareRaise, Running
  <2>2. CASE handled = << >>
    BY <1>3, <1>5, <1>8, <2>1, <2>2 DEF RaiseAgain, BareRaise
  <2>3. CASE handled # << >>
    <3>1. Same /\ raising' = Last(handled)
      BY <1>8, <2>3 DEF RaiseAgain, BareRaise
    <3>2. raising' \in Exceptions \ cut /\ context[raising'] = NoExc =>
            \A j \in 1 .. Len(handled') : handled'[j] = raising'
      BY <2>1, <2>3, <3>1, LastAlone
    <3> QED BY <1>2, <2>1, <3>1, <3>2, CarryOn DEF Goes
  <2> QED BY <2>2, <2>3
<1>9. CASE CallOrFail
  <2>1. raising = NoExc /\ handled' = handled
    BY <1>9 DEF CallOrFail, Call, Running
  <2>2. CASE depth < Limit
    BY <1>4, <1>9, <2>1, <2>2 DEF CallOrFail, Call
  <2>3. CASE ~(depth < Limit)
    BY <1>3, <1>5, <1>9, <2>1, <2>3 DEF CallOrFail, Call
  <2> QED BY <2>2, <2>3
<1>10. ASSUME NEW g \in Gens, ResumeOrFail(g) PROVE Goes
  <2>1. raising = NoExc /\ handled' = handled /\ raising' \in {NoExc, RecursionError, ValueError}
    BY <1>10 DEF ResumeOrFail, Resume, Running
  <2>2. CASE raising' = NoExc
    BY <1>4, <1>10, <2>1, <2>2 DEF ResumeOrFail
  <2>3. CASE raising' # NoExc
    BY <1>3, <1>5, <1>10, <2>1, <2>3 DEF ResumeOrFail
  <2> QED BY <2>2, <2>3
<1>11. CASE Pass
  BY <1>11, PassCarriesOn DEF Goes
<1>12. CASE Quiet
  BY <1>12, QuietCarriesOn DEF Goes
<1>13. CASE UNCHANGED contextVars
  BY <1>13 DEF contextVars, vars, AnswerInv, RightAnswer, Deep, Waiting, Goes, Now
<1> QED BY <1>6, <1>7, <1>8, <1>9, <1>10, <1>11, <1>12, <1>13 DEF ContextNext

(* The context of an exception is what was being handled when it was last  *)
(* raised, whatever it passes on its way (in_context, which looks at every *)
(* frame): for any exceptions and generators, when no generator yields     *)
(* inside of a region.                                                     *)
THEOREM ContextsAreRight == ASSUME YieldIn = {} PROVE ContextSpec => []RightAnswer
<1>1. AnswerInv => RightAnswer
  BY DEF AnswerInv
<1>2. AnswerInv /\ [ContextNext]_contextVars => AnswerInv'
  BY AnswerStep
<1> QED BY <1>1, <1>2, AnswerInit, PTL DEF ContextSpec

=============================================================================

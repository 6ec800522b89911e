------------------------------- MODULE Objects ------------------------------
(***************************************************************************)
(* Attributes of classes and instances (kohebi-interp, class.rs), and what *)
(* a call does with what it calls and with its keywords (vm.rs).           *)
(*                                                                         *)
(* A class "derived" has the base "base", or none if it is declared so; an *)
(* "instance" is of "derived".  A value is a function or something else,   *)
(* told apart by the operation that stored it.                             *)
(***************************************************************************)
EXTENDS Binding, Integers

Classes == {"base", "derived"}
Holders == Classes \union {"instance"}
Missing == [is |-> "missing", at |-> 0]
Itself(name) == [is |-> name, at |-> 0]

-----------------------------------------------------------------------------
(* own[o][n] is what is bound under a name on the object itself.           *)

\* Class::set, Instance::set, and delete, which leaves a base alone; and
\* whether it was refused.
Perform(s, op) ==
  [own |-> [s.own EXCEPT ![op.on][op.name] = IF op.do = "set" THEN op.value ELSE Missing],
   refused |-> Append(s.refused, op.do = "delete" /\ s.own[op.on][op.name] = Missing)]

\* Class::lookup, from a class along its bases.
Lookup(own, based, class, name) ==
  IF own[class][name] # Missing \/ class = "base" \/ ~based THEN own[class][name]
  ELSE own["base"][name]

\* bind: a function found on the class becomes a method of the instance.
AsMethod(value) == IF value.is = "function" THEN [value EXCEPT !.is = "method"] ELSE value

Attribute(own, based, o, name) ==
  IF o \in Classes
    THEN IF name = "__name__" THEN Itself(o) ELSE Lookup(own, based, o, name)
  ELSE IF own[o][name] # Missing THEN own[o][name]
  ELSE IF name = "__class__" THEN Itself("derived")
  ELSE AsMethod(Lookup(own, based, "derived", name))

-----------------------------------------------------------------------------
(* Calls.  A keyword argument is written with its name, or as ** and a     *)
(* mapping, whose keys may be anything, or something that is no mapping.   *)

NoString == -1

PushKeyword(k, name) ==
  IF k.error # "none" THEN k
  ELSE IF name = NoString THEN [k EXCEPT !.error = "not a string"]
  ELSE IF Contains(k.names, name) THEN [k EXCEPT !.error = "multiple values"]
  ELSE [k EXCEPT !.names = Append(@, name)]

FoldOne(k, written) ==
  IF k.error # "none" THEN k
  ELSE IF written.is = "other" THEN [k EXCEPT !.error = "not a mapping"]
  ELSE LET keys == written.keys
           pushed[j \in 0 .. Len(keys)] == IF j = 0 THEN k ELSE PushKeyword(pushed[j - 1], keys[j])
       IN  pushed[Len(keys)]

Fold(written) ==
  LET folded[j \in 0 .. Len(written)] ==
        IF j = 0 THEN [names |-> << >>, error |-> "none"] ELSE FoldOne(folded[j - 1], written[j])
  IN  folded[Len(written)]

Fails(error) == [error |-> error, gives |-> "nothing", body |-> "not run", names |-> << >>, bound |-> << >>]
Done(what, body, names, bound) ==
  [error |-> "none", gives |-> what, body |-> body, names |-> names, bound |-> bound]

\* The function a call runs: the callee's, that of the method, or the one that
\* the class finds under __init__.
HasFunction(callee) == callee.is \in {"function", "method"} \/ (callee.is = "class" /\ callee.init = "function")
\* The receiver of a method and the instance a constructor fills are in front.
CallOf(callee, args, names) ==
  [bound |-> callee.is \in {"method", "class"}, args |-> args, names |-> names]

RunFunction(callee, args, names) ==
  LET b == Bind(callee.f, CallOf(callee, args, names))
      made == callee.is = "class"
  IN  IF b.error # "none" THEN Fails(b.error)
      ELSE IF callee.f.generator
        THEN Done(IF made THEN "instance" ELSE "generator", "suspended", names, <<b>>)
      ELSE Done(IF made THEN "instance" ELSE "returned", "run", names, <<b>>)

\* Vm::invoke.
Invoke(callee, args, written) ==
  LET k == Fold(written)
  IN  IF callee.is = "number" THEN Fails("not callable")
      ELSE IF k.error # "none" THEN Fails(k.error)
      ELSE IF callee.is = "builtin" THEN Done("returned", "run", k.names, << >>)
      ELSE IF callee.is = "exception"
        THEN IF k.names # << >> THEN Fails("no keywords") ELSE Done("instance", "not run", << >>, << >>)
      ELSE IF HasFunction(callee) THEN RunFunction(callee, args, k.names)
      ELSE IF args > 0 \/ k.names # << >> THEN Fails("no arguments")
      ELSE Done("instance", "not run", << >>, << >>)

-----------------------------------------------------------------------------
(* What the language says of attributes, of the history of what was bound  *)
(* and deleted.                                                            *)

Names == {"f", "__name__", "__class__"}
Latest(history, o, name) ==
  {i \in DOMAIN history : /\ history[i].on = o /\ history[i].name = name
                          /\ \A j \in i + 1 .. Len(history) : history[j].on # o \/ history[j].name # name}
BoundOn(history, o, name) ==
  {history[i].value : i \in {i \in Latest(history, o, name) : history[i].do = "set"}}

\* The values an object has from itself, or from the nearest class.
Nearest(history, chain, name) ==
  LET having == {i \in DOMAIN chain : BoundOn(history, chain[i], name) # {}}
  IN  IF having = {} THEN {} ELSE BoundOn(history, chain[CHOOSE i \in having : \A j \in having : i <= j], name)
Chain(based) == IF based THEN <<"derived", "base">> ELSE <<"derived">>

AttributeMeant(history, based, o, name) ==
  LET own == BoundOn(history, o, name)
      found == Nearest(history, IF o = "base" THEN <<"base">> ELSE Chain(based), name)
  IN  IF o \in Classes THEN IF name = "__name__" THEN {Itself(o)} ELSE found
      ELSE IF own # {} THEN own
      ELSE IF name = "__class__" THEN {Itself("derived")}
      ELSE {IF v.is = "function" THEN [v EXCEPT !.is = "method"] ELSE v : v \in found}

\* A deletion is refused when the object itself has nothing under the name.
RefusedMeant(history) ==
  [k \in DOMAIN history |->
     history[k].do = "delete" /\ BoundOn(SubSeq(history, 1, k - 1), history[k].on, history[k].name) = {}]

-----------------------------------------------------------------------------
(* What it says of calls.                                                  *)

\* The keywords one after the other, and the places of those that are wrong.
Offered(written) ==
  FlattenSeq([i \in DOMAIN written |->
    IF written[i].is = "other" THEN <<[is |-> "not a mapping", name |-> NoString]>>
    ELSE [j \in DOMAIN written[i].keys |->
            [is |-> IF written[i].keys[j] = NoString THEN "not a string" ELSE "name", name |-> written[i].keys[j]]]])
Wrong(offered) ==
  {i \in DOMAIN offered : offered[i].is # "name" \/ \E j \in 1 .. i - 1 : offered[j] = offered[i]}
WhyWrong(offered, i) == IF offered[i].is = "name" THEN "multiple values" ELSE offered[i].is

\* A class called is its __init__ called, but the code calls one that is a
\* function only (vm.rs:1193, 1244); of a class with any other nothing is said.
OtherInit(callee) == callee.is = "class" /\ callee.init = "other"

CallsAsMeant(callee, args, written, r) ==
  LET offered == Offered(written)
      wrong == Wrong(offered)
      names == [i \in DOMAIN offered |-> offered[i].name]
      call == [bound |-> callee.is # "function", args |-> args, names |-> names]
  IN  CASE callee.is = "number" -> r.error = "not callable"
        [] callee.is # "number" /\ wrong # {} ->
             r.error = WhyWrong(offered, CHOOSE i \in wrong : \A j \in wrong : i <= j)
        [] callee.is # "number" /\ wrong = {} /\ OtherInit(callee) -> TRUE
        [] callee.is # "number" /\ wrong = {} /\ ~OtherInit(callee) ->
             /\ r.error = "none" => r.gives = IF callee.is \in {"class", "exception"} THEN "instance"
                                              ELSE IF HasFunction(callee) /\ callee.f.generator THEN "generator"
                                              ELSE "returned"
             /\ r.error = "none" <=> CASE HasFunction(callee) -> Legal(callee.f, call)
                                       [] callee.is = "builtin" -> TRUE
                                       [] callee.is = "exception" -> names = << >>
                                       [] OTHER -> args = 0 /\ names = << >>
             /\ HasFunction(callee) =>
                  IF r.error = "none"
                    THEN /\ BoundRight(callee.f, call, r.bound[1])
                         /\ r.body = IF callee.f.generator THEN "suspended" ELSE "run"
                  ELSE Blamed(callee.f, call, r.error)

-----------------------------------------------------------------------------
(* The programs and calls these are checked on.                            *)

Stored(is, at) == [is |-> is, at |-> at]
Operations ==
  [do : {"set"}, on : Holders, is : {"function", "other"}]
    \union [do : {"delete"}, on : Holders, is : {"other"}]
\* A program is about one name: the code keeps no two of them together.
SomeHistory(Ask(_, _)) ==
  \E steps \in BoundedSeq(Operations, 3), name \in Names, based \in BOOLEAN :
    Ask([i \in DOMAIN steps |-> [do |-> steps[i].do, on |-> steps[i].on, name |-> name,
                                 value |-> Stored(steps[i].is, i)]], based)
NothingYet ==
  [own |-> [o \in Holders |-> [n \in Names |-> Missing]], refused |-> << >>]
After(history) ==
  LET after[k \in 0 .. Len(history)] == IF k = 0 THEN NothingYet ELSE Perform(after[k - 1], history[k])
  IN  after[Len(history)]

\* Keywords are no parameter's, 0, or that of the first or the second one.
Keywords ==
  {[is |-> "named", keys |-> <<n>>] : n \in 0 .. 2}
    \union {[is |-> "mapping", keys |-> keys] :
              keys \in {keys \in BoundedSeq({0, 1, 2, NoString}, 2) : IsInjective(keys)}}
    \union {[is |-> "other", keys |-> << >>]}
Callees ==
  LET plain == [positional |-> 0, posOnly |-> 0, star |-> FALSE, kwOnly |-> 0, doubleStar |-> FALSE,
                defaults |-> 0, kwDefaults |-> {}, generator |-> FALSE]
      shapes == {[plain EXCEPT !.positional = n, !.doubleStar = has = "doubleStar", !.generator = has = "generator"] :
                   n \in 0 .. 2, has \in {"neither", "doubleStar", "generator"}}
  IN  [is : {"function", "method"}, init : {"none"}, f : shapes]
        \union [is : {"class"}, init : {"function"}, f : shapes]
        \union [is : {"class"}, init : {"none", "other"}, f : {plain}]
        \union [is : {"number", "builtin", "exception"}, init : {"none"}, f : {plain}]
SomeCall(Ask(_, _, _)) ==
  \E callee \in Callees, args \in 0 .. 2, written \in BoundedSeq(Keywords, 2) :
    /\ Len(written) = 2 /\ written[1].is = "named" => written[2] # written[1]
    /\ Ask(callee, args, written)
=============================================================================

# A verification model of kohebi

kohebi is a Python runtime in Rust. A script goes through a lexer and parser
(`kohebi-parse`), a lowering to a small core language (`kohebi-hir`), a compiler
to register bytecode (`kohebi-bc`), and runs on one interpreter thread
(`kohebi-interp`) over the values of `kohebi-core`. Everything else the design
documents name (JIT, AOT, C API and so on) is a crate with a doc comment and no
code.

Nothing in kohebi runs concurrently and nothing is persisted. What makes it hard
is re-entrance, where an operation in Rust calls Python code in its middle, which
calls back into the same machine, dict, generator or module; and long sequences
of operations each of which is legal.

Paths below are relative to `src/crates/`.

## Contents

1. [The parts of the system](#the-parts-of-the-system)
2. [The modules](#the-modules)
3. [The runs](#the-runs)
4. [What disagrees](#what-disagrees)
5. [What is proved](#what-is-proved)
6. [What is not modelled](#what-is-not-modelled)
7. [Plan](#plan)

## The parts of the system

| part | code | state | operations | hard behaviour |
|---|---|---|---|---|
| machine | `kohebi-interp/src/vm.rs`, `ready.rs` | frames (on Rust's stack), the handlers of each, the handled exceptions, the depth | one instruction; call, return, raise, catch, unwind | exceptions through several frames; the recursion limit; state left behind on one of the ways out |
| generators | `generator.rs`, `vm.rs` | suspended with its frame, running, done | step, suspend, finish | a frame that leaves and comes back under another caller; a generator that asks for itself |
| modules | `module.rs`, `vm.rs` | a map for each namespace, the slots and name table that are open, `sys.modules` | call across modules, import, `m.x`, global access, several runs | circular, failed and repeated imports; two shapes of one namespace |
| dict and set | `kohebi-core/src/dict.rs`, `method/dict.rs` | slots, entries, a count | get, insert, remove, clear, setdefault, pop, popitem | tombstones, rebuilding, equal keys, colliding keys |
| iterators | `iterate.rs`, `view.rs`, `lazy.rs` | a position and a size | step | the body of a loop changes what it walks |
| try statements | `kohebi-hir/src/lower.rs`, `kohebi-bc/src/compile.rs` | the compiler's guards, loops and pending jumps | lower, compile, leave, patch | a return, break or continue out of several regions replays their finally clauses as copies |
| exceptions | `kohebi-core/src/exception.rs` | context and cause links | raise, raise in a context | the chain must not become a ring |
| lists | `method/list.rs`, `builtin.rs` | elements | sort with a key, extend | Python code runs while the list is half way |
| numbers, slices, ranges | `int.rs`, `float.rs`, `slice.rs`, `ranges.rs` | none | arithmetic | the ends of `i64` and `isize` |
| functions, classes, cells | `function.rs`, `class.rs`, `cell.rs` | closures, bases, dictionaries | bind arguments, look up, call | argument binding, attribute order |
| lexer and parser | `kohebi-parse/src/` | a position, an indentation stack | next token, parse | tabs and spaces, recovery |
| lowering | `kohebi-hir/src/lower.rs` | scopes | resolve names, unpack, comprehend | which frame owns a name |
| command line, streams, paths, tables, printing | `kohebi/src/main.rs`, `stream.rs`, `path.rs` and others | the operating system's | | |

They interact by calls. The machine runs bytecode the compiler made of what the
lowering made of the tree; the two meet in the promises the compiler makes about
handlers and the handled stack, which `Machine` takes as its regions and
`TryMachine` checks of compiled code. A call goes through `arrive` and `depart`,
where the machine meets modules. A generator, an import, a key function and a
predicate run Python in the middle of a Rust function. What each has to keep:

- machine: an exception reaches the innermost open handler and nothing else; what
  is being handled is what the open clauses have caught; the depth comes back;
- generators: never two runs of one frame, no return from the dead;
- modules: one binding for each namespace and name, whatever shape it is in; an
  import hands out no module that failed;
- dict: an insertion-ordered map; probes end; a loop sees each key once, in order;
- try statements: the compiled form does what the language says.

## The modules

| module | models | its abstract side |
|---|---|---|
| `Namespaces` | `vm.rs` arrive, depart, run, import, global and attribute access; `module.rs` | `AbstractNames` |
| `Machine` | `vm.rs` run_frame, handlers, handled, enter, generator steps; `generator.rs` | a scope of regions in each frame |
| `Contexts` | extends `Machine` with the links of `exception.rs`: raise, `in_context`, `raised_while_handling` | what was being handled at each raise |
| `Dict` | `dict.rs`, the dict methods | `AbstractDict` |
| `DictWalk` | extends `Dict` with `iterate.rs`: a for loop over it | the history of the loop |
| `Lists` | `method/list.rs`, `sorted`, list iterators | what a sort took, what a walk gave |
| `TryCompile` | `lower.rs` and `compile.rs` for try statements, loops and exits | |
| `TryMachine` | extends `TryCompile` with one frame of `vm.rs` that runs the code | `TryMeaning` |
| `Numbers` | `int.rs`, `slice.rs`, ranges of `iterate.rs` | in `Numbers` |
| `Values` | `hash.rs`, equality and order of `object.rs` and `ops.rs`, level by level of nesting | rational numbers, in `Values` |
| `Items` | items and slices of `ops.rs`, unpacking in `vm.rs` | in `Answers` |
| `Sets` | `method/set.rs`, operators of sets, lists and tuples in `ops.rs`, in place in `vm.rs` | the history of a set, in `Sets` |
| `Rounds` | `lazy.rs`: map over several sources | in `Rounds` |
| `Answers` | extends `Values`, `Items`, `Sets`, `Rounds` and `Objects`: questions about integers, ranges, map, calls, attributes, items, slices, unpacking, sets and pairs of values, and their answers | the comparisons, in `Answers` |
| `Binding` | `function.rs`: arguments to parameters | in `Binding` |
| `Objects` | extends `Binding` with `invoke` and `attribute` of `vm.rs`, `class.rs` | in `Objects` |
| `Texts` | `method/string.rs`: searching, cutting, layout of text | `MCTexts` |
| `Paths` | `path.rs` | the kernel's walk, in `Paths` |
| `ExprCompile` | `lower.rs` and `compile.rs` for expressions and the other statements, and a frame that runs them | `ExprMeaning` |
| `Scopes` | `lower.rs`: which variable a name is | in `Scopes` |
| `Layout` | `lexer.rs`: lines, brackets, blocks | in `Layout` |
| `Parser` | `parser.rs`: expressions, and the rules that only explain | the grammar, `MCParser` |
| `Checks` | `check.rs`: the two passes | `MCChecks` |
| `NamespacesProofs`, `MachineProofs`, `DictProofs`, `ListsProofs`, `AnswersProofs` | theorems | |
| `ObjectsProofs`, `ValuesProofs` | the lemmas about calls, attributes and sets, and about numbers and values, that `AnswersProofs` cites | |
| `Recursion` | induction and recursive definition over the naturals, for the proofs | |
| `MC...` | instances for TLC; `MCFunctions` asks the modules from `Numbers` down | |

**Namespaces.** `map[s][n]` is the map of a namespace, `slots` the open slots,
`home` and `table` the namespace and the unit they were laid out for. Entering a
frame is `Arrive` and leaving it `Depart`, which call `Swap` when the namespace
is another one, as `Globals::open` and `Globals::close` do. A slot number is an
index into the name table of a unit: the code means `Table[Top.unit][i]` and the
machine reads `Table[table][i]`; those being the same is a property (`OwnTable`)
and no assumption. `Import` registers the module before its body runs, `Leave`
settles the import on a return and on an exception, `DeleteEntry` is
`del sys.modules[f]`. `Call` stands for calls and for generator steps, which
bracket their frame in the same way. The slots of a table are indexed here by the
name they stand for, so a table mentions a name once, as the compiler's does.
Left out: `__name__` and its kin, modules written in Rust, and where a file is
found.

**Machine.** A frame is its handlers, the length of the handled stack when it was
entered (`outer`), and, for the properties, the `scope` its program counter is in:
a stack of regions, opened and left only as `compile_try` and `lower_handlers`
arrange them. The regions stand for the compiler's side of the contract, so the
module says what the machine does with any nesting of try statements whatever.
`raising` holds the exception between two turns of the loop of `run_frame`, and
`Catch` or `Unwind` takes it from there. `Land` is what a handler does first:
push the exception on the handled stack for an except chain or a finally clause, or
take the clause's off and go on for the guard around clauses. `Resume` checks the
depth, then the state of the generator, then takes the frame out. `Yield` puts it
back as it is; `YieldIn` says inside which regions programs yield.

**Contexts** adds `context`, a link of every exception, to each action of
`Machine`. A raise statement writes the link; for a failure that comes out of
Rust the machine writes it at the first frame and looks again at every frame it
passes. A program may keep an exception and raise it again at any time, so the
links can be made in any order. `answer` remembers, for the properties, what was
being handled when the exception was raised.

**Dict.** `indices` and `entries` are the two arrays of the code, from 1. `Walk`
is the sequence of slots a hash visits, cut where it has been once round the
table after the high bits are gone: by then every slot has come up. `Probe` is
the first of them that is empty or matches, with the first tombstone that was
passed; `Reserved` is `reserve` with `rebuild`. `Insert` makes room before it looks, which is
what the code does and what `DictWalk` turns on. A set is the same table.

**Lists.** One list, a stack of calls that are half way (a sort that has taken
the elements out, an extend that steps a generator), iterators with a position,
and code that does to the list what a program may do between any two steps, a sort
of the same list included.

**TryCompile, TryMachine, TryMeaning.** A program is a tree of statements.
`LowerStmt` makes of a try statement what `lower_try` does (the except chain in a
guarded region that ends in `Reraise`), `TryCompile` what `compile_try`,
`compile_for`, `leave` and `patch` do, down to the order in which guards are split
off and finally bodies copied, and the panic where a loop is not found among the
guards. `TryMachine` runs the instructions. `TryMeaning` is the language
reference: it has no handler and no jump in it.

**The functions.** Much of kohebi is a function of its input, and `MCFunctions` is
one small machine over all of that: `Init` chooses a question, one action for
each part answers it with the operators of its module, and an invariant compares
the answer with a definition that is written from the other side. Those
definitions have none of the code's devices in them: numbers without arms
(`Numbers`, at its end), a rational order (`Values`), evaluation without registers
(`ExprMeaning`), a grammar that derives every tree of a text (`MCParser`), a walk
of one list through links (`Paths`), variables by rule and not by capture
(`Scopes`, `MeantBy`), all that is wrong in a program instead of the first thing
found (`MCChecks`), a set and an attribute as the history of what was put in and
taken out (`Sets`, `Objects`). The questions about integers, ranges, map, calls,
attributes, items, sets and values are a module of their own, `Answers`, whose specification `AnswersSpec` lets
any of them be asked; `MCFunctions` takes a bounded part of those.

## The runs

| run | instance | what it shows |
|---|---|---|
| `namespaces` | a script that is run twice and a file, three namespaces, two names in tables that differ, frames up to 3 | the open table is that of the running code; no name in two places; imports hand out no failed module; refinement of `AbstractNames`, the second run finding what the first one bound |
| `machine` | one generator, frames up to 3, two open regions in a frame, yields outside of regions | the five invariants, and that every exception arrives |
| `contexts` | one generator, frames up to 2, two exceptions the program keeps and the machine's own | no ring; each link is what was being handled at the raise; a link is cut only where a ring would have closed |
| `dict` | four keys (two equal, two colliding), two values, a first table of 2 slots | type, the two arrays, walks end, refinement of `AbstractDict` |
| `dict_walk` | two keys that collide first, a first table of 8 slots, bodies of up to 3 operations | order and completeness of a loop |
| `try` | all nestings of ten kinds of statement, up to 3 deep, around seven bottoms, that replay no exit of a finally clause | compiled code does what the language says, ends, and leaves both stacks balanced |
| `lists` | four elements of three ranks, two calls inside one another, three steps of each, one iterator | sorts answer for what they took; no element is in two places; a list that grows is walked without a gap |
| `functions` | the questions below | each part answers what it should |
| `yield_in_clause`, `dict_overwrite`, `try_replay`, `order_lost` | | the disagreements below |

**Bounds and why they are enough.**
- `Limit` (the code's 1000) is 3. Three frames hold a caller, a callee in
  another module and a call back into the first, and the limit itself is met all
  the time, in the middle of everything, which 1000 would never show. In
  `contexts` it is 2: the links do not know of frames, only of what is being
  handled, and `MaxHandled` 4 nests that deep enough for a ring of all three
  exceptions. The theorems hold for any limit.
- `MaxScope` bounds the regions of a frame that are explored. The machine treats
  the innermost region only, so two are needed to see that the outer one comes
  next; a third adds no new pair. `MaxHandled` 6 stops a generator from being resumed
  on a handled stack of that length or more; it is all that `MaxScope` and
  `Limit` can nest when generators do not yield in clauses.
- The two exceptions of `contexts` that a program raises are a symmetry set: no
  action and no property tells one from another but by equality, and the run
  checks no liveness.
- `Minimum` is 8 in the code and 2 in run `dict`, so that tables fill, gather
  tombstones and are rebuilt within a few operations; the entries of a table are
  rebuilt away at two thirds, so the state space is finite with no bound on the
  number of operations. Values are only ever compared, and are a symmetry set.
  `Shifts` is how many five-bit shifts exhaust the hashes of the instance.
- `MaxBody` bounds the operations of a loop body, not those before the loop:
  3 are a removal, an insertion and one that rebuilds.
- `MaxNesting` 3: a replay goes through two statements with something around
  them. Programs that leave a finally clause which is itself being replayed are
  those of `try_replay` and are not in `try` (see below).
- `MaxCalls` 2 puts a sort inside a sort's key function, or an extend inside of a
  sort; `MaxSteps` 3 is a removal, an addition and a sort in between.
- `WordMax` is 3, so a word is -4 .. 3 and all operands within two words of both
  ends are tried, the least word's negation and its quotient by -1 among them;
  `ExponentMax` 3 and `MaxBits` 8 are met from both sides in the same way. Floats
  have two digits and are hashed two bits at a time (`DigitBits`, the code's 28) modulo
  31 (`HashBits` 5, the code's 61), which puts integers between two floats and wraps the
  modulus within five bits. Values are nested up to three deep (`Nesting`): a tuple, in a
  list, and what is in it.
- Expressions are two operators deep with every leaf below the first; a third
  operator meets the second as that meets the first. The statements around them
  have up to two targets, decorators, names or conditions, blocks of two
  statements, loops of two turns and comprehensions of two clauses, over eight
  expressions: one that emits statements, one that does not, of each kind of name.
  Scopes are up to three
  frames. Texts for the layout have up to four lines of seven indentations, with
  tab stops of 2: a block, one inside, and a dedent to either.
- The parser is asked of some 30,000 token texts: every expression of a small size,
  with one token dropped, doubled or replaced. Paths are over `a`, a character of
  two bytes, `.` and `/`, up to four long, and file systems of up to three
  links.
- Sets have three kinds of member, two of them in the set at most, and methods up to
  two arguments of up to two steps: one that changes the set between two others,
  and one that raises after it. Histories of attributes are three long: bound on
  the base, bound on the class, deleted there. Calls have up to two arguments and two
  written keywords, a mapping having up to two keys.

**Fairness.** Two specifications need some. `Machine` has weak fairness of
`Catch \/ Unwind`: the loop of `run_frame` goes on with an error without looking
at anything else, so once one is raised there is nothing that could wait. No
fairness is assumed of the program, which may stop running or loop for ever.
`TryMachine` has weak fairness of its next step: a frame executes its next
instruction, and the programs are bounded loops. Neither needs strong fairness.

**Deadlock** is not checked: a script ends, a body ends, a question is answered,
and a machine with no frame is done. What must not stop is a liveness property
instead (`ExceptionsArrive`, `Ends`; and `WalksEnd` for a probe of a table).

## What disagrees

Four runs end in a violation. In each the code departs from what a comment or a
test of the repository says of it.

1. `yield_in_clause`. A generator that yields in an except clause leaves
   its exception on the machine's handled stack (`vm.rs:395`), so a bare `raise`
   of its caller, which is in no clause, re-raises it.
2. `dict_overwrite`. `Dict::insert` reserves before it probes (`dict.rs:172`).
   Overwriting a value in a table with tombstones can rebuild it, entries
   move down, the size is the same, and the loop skips keys.
3. `try_replay`. `Compiler::leave` (`compile.rs:196`) takes all guards off before it
   copies their finally bodies, so an exit within one of these copies does not
   see the guards outside of it: the outer finally clause never runs. With a
   `break` in a finally clause inside a loop inside another try, three deep, the
   compiler itself panics in `split_off`; `TryCompile` has that as `panic`.
4. `order_lost`. `Lowerer::pin` (`lower.rs:913`) leaves the read of a slot where
   it is used, so `x = (x + (x := f()))` adds the new `x` to itself. Of the 52,000
   statements the run's instance has, the 15,500 that `StatementLosesOrder`
   describes are left out of `EvaluatesInOrder`; 7,900 of them do come out wrong.

These were met too. No run of their own shows them. Each is in the model, as the code
has it, and the properties say nothing of it: what they leave out is named here. Where
nothing is named, nothing that is modelled meets it.

- `lower.rs:188` says that "nothing is left out" of the parts of an expression that
  are looked into, and `lower.rs:203` leaves out the index of a subscript
  (`Children` in `ExprCompile`). So `a + b[(a := f())]` holds nothing, and the order is
  lost: `StatementLosesOrder` has these, by `Emits`.
- The same parts are what `Binder` (`lower.rs:561`) looks through, and a lambda has
  none. A walrus in an index or in a default of a lambda binds no local, against
  `lower.rs:555`, and the name is looked for further out (`HiddenWrite` in `Scopes`;
  `Unseen` are the programs that are left out). By the same omission a `yield` there
  alone makes no generator, and a walrus there that rebinds the variable of a
  comprehension is not refused; generators and refusals are not in `Scopes`.
- `check.rs:284` passes over a keyword without a name, which is `**rest`, and with it
  over its value: `f(**(yield))` outside of a function and `f(**g(a=1, a=2))` are
  accepted. `check.rs:260` says that a bound of a type parameter lives in a scope of
  its own, and it is walked in the one around it, as the value of a type alias and the
  bases of a generic class are, so an `await` or a `yield` there is judged by that one.
  `Overlooked` in `MCChecks` marks both, and of a program so marked
  `RefusesWhatIsWrong` says nothing.
- `lower.rs:990`: an annotated assignment without a value does nothing, and where
  CPython evaluates the target of `f().x: int` it does not. `StatementLosesOrder` has
  these too.

- `vm.rs:327`: `arrive` compares namespaces and not units. Two different scripts on
  one machine share a namespace and have tables of their own, so a function the
  first one defined and the second one calls reads and writes through the wrong
  table. `TableIsOwn` assumes one script, and the run `namespaces` runs one twice.
- `vm.rs:411`: a handler records an absolute length of the handled stack. A
  generator suspended in a try and resumed in an except clause of its caller
  truncates the stack to the old length and takes the caller's exception off.
  `YieldIn` is empty in `machine`.
- `vm.rs:429` says the first answer of `in_context` wins. It looks at the link and
  not at whether there was an answer, so an exception whose link was cut, or whose
  first answer was that nothing is being handled, is given another one at a later
  frame (`FirstAnswerWins` in `Contexts` says what the comment does; `RightAnswer`
  is about the links that were not cut).
- `lower.rs:840`: `resolve` looks for a slot before it looks at declarations, so
  a name a class body declares global, captured by a function inside, is found
  in the wrong place (`Hijacked` in `Scopes`).
- `ops.rs:283` says a number shifted far enough to the right is 0 or -1; for a count
  that is no `i64` `int.rs:350` gives up, which is a memory error. `IntsAreNumbers`
  says nothing of a right shift by such a count.
- `class.rs:291`: two bound methods are equal by what they bind and are hashed by
  which object they are, so `{a.f: 1}[a.f]` is a KeyError; `class.rs:241` says they
  are not equal.
- `method/list.rs:208`: a key function that appends and pops again is not noticed
  as having changed the list.
- `slice.rs:131`: `step.abs()` of the least `isize` overflows where overflow is
  checked.
- `path.rs:277` says a name with a separator is refused, and `with_name("a/")`
  and `("./a")` are not; `path.rs:218` cuts the first byte and not the first
  character off a name, so `Path('é.txt').suffixes` is empty while its
  suffix is `.txt`; `..` has the stem `.` and the suffix `.`.
- `parser.rs` accepts some texts Python has no tree for: `[*a for a in b]`,
  `{*a: 1}`, `{a := 1: 2}`, `a[b := 1:2]`, `for * *x in y` (`Looser` in
  `MCParser`); and `dict_key` keeps the tree of a quiet reading, so
  `{1: 2, f(**k, *b): 3}` is accepted while `f(**k, *b)` alone is refused
  (`tests/data/error.txt:223`). The grammar refuses both, and `ReadsTheGrammar` lets
  the parser give such a tree (`KeptQuiet`) where the grammar has none.
- `vm.rs:1512`: an unpacking without a star that has found too many goes on to count
  them for the message, so `a, b = count()` never ends, where CPython stops at the
  third.
- `vm.rs:2059`: `list += x` takes what `ops::elements` can read out, since "nothing
  else can produce a value yet"; a generator and a range can by now, and are
  refused as not iterable, where `list.extend` takes them. `InPlaceAsMeant` only says
  of these that no other object changes.
- `vm.rs:1199`: a class whose `__init__` is not a function, a built-in one for
  example, takes no arguments and runs nothing, though a class called is its
  `__init__` called (`vm.rs:1193`). `CallsAsMeant` says nothing of such a class once
  its keywords are right (`OtherInit` in `Objects`).

## What is proved

All proofs are checked by TLAPS for every value of the constants that satisfies the
named `ASSUME`s of the module, which TLC evaluates in the runs.

**NamespacesProofs.** `Base` is `TypeOK /\ OpenTable /\ OneHome` (`OpenTable`: with
a frame on the stack, some unit is open). It is inductive by itself, whatever is called
and however many scripts there are, because `Swap` is: it closes before it opens,
and what it opens it takes. `TypeCorrect` and `NamesHaveOneHome` follow.

`OwnTable` is not inductive. A return restores what the frame below had, and for that
to be its own table the whole stack has to be consistent. `Chain` says that: each
frame's unit has run in its namespace, a frame that crossed holds the namespace
and the unit of the frame below, one that did not is in the same namespace as it,
and a namespace has one unit (`OneUnit`). The last part is what a second script
breaks, so `TableIsOwn` and `ImplementsNames` assume `OneScript` (see the first of
the disagreements without a run). `ImplementsNames` is the refinement: `SwapBindings` shows
that laying out is a stutter of `AbstractNames`, and an access, with `OwnTable`, is
the abstract access of the name the code means.

`ModulesAreWhole` is about imports. `NoHalfModule` says that an entry of
`sys.modules` is loaded or has its body on the stack, and leaving a body could break it
for another entry of the same namespace. `BodiesLoad` rules that out: a body on the stack
is what its namespace waits for, and the only one (an import takes a namespace
that is absent). `ScriptFirst`, that the outermost frame is no body, is what lets the
machine stop. The theorem holds for any number of scripts.

**MachineProofs, the machine.** The inductive invariant `Inv` is the conjunction `TypeOK /\ DepthIsFrames /\
RunningIsOnStack`; each needs the other two (the depth stays within `0 .. Limit`
because it is the number of frames; an unwinding generator frame may be marked done
because it was the only one of its generator). Every action either changes the
innermost frame in place, adds one, or takes one off: `FramesStay`,
`FrameArrives` and `FrameLeaves` settle each shape once. Nothing is assumed
about `YieldIn`: these hold wherever generators yield.

**MachineProofs, the handlers.** `HandlersFollowScope` says that the handlers of a frame are the
guards among the regions it is in, in order. It is stated with `SelectSeq`, which
the library defines by recursion; what the proof needs of it is the number of
guards below a place, so the property is first turned into one about counts
(`Upto`, `Guards`), and the lemmas `Follows...` say what entering, leaving and
catching do to those. A suspended frame is off the stack and comes back, so the
inductive invariant adds that suspended frames follow their scopes too
(`SuspendedFollow`).

`HandledIsOpenClauses` relates one stack of the machine to the
clauses open in all frames on it. The invariant says of each frame where its part
of the handled stack begins and ends (`Settled`), that the parts lie one after
another (`Ordered`), and that a suspended frame has none (`Resting`). The last is
false for a generator that yields inside a region, so the theorem assumes
`YieldIn = {}`; the run `yield_in_clause` shows that the assumption is needed.

**MachineProofs, the contexts.** `NoRing` speaks of sets and not of chains: no set of exceptions
has all its contexts in itself. Then the one action that writes a link can be
argued about directly: it cuts the one link that leads back before it writes, and
a set that is closed afterwards was closed before or holds both ends. No
counting, no bound on the exceptions, nothing about generators. `OnlyRingsAreCut`
follows from the same invariant: the exception that loses its link is on the
chain of what is being handled, and not on that of the one raised, so what leads
from the one raised back to it goes through the new link.

`RightAnswer` is not inductive. The machine cannot tell an exception that has not
been looked at from one that was raised while nothing was handled: neither has a
context, and both are looked at again at every frame. That this does no harm
takes two more facts. `Waiting`: an exception on its way without a context is
either new, and then the next frame gives it what it should have, or was raised
while nothing was handled, and then nothing but itself is being handled now.
`Deep`: below an exception without a context on the handled stack lies nothing
else. Both speak of the handled stack from the bottom, so they survive whatever
is taken off it, and they need `HandledIsOpenClauses` for the one step that
raises what a clause holds. `ContextsAreRight` therefore assumes `YieldIn = {}`
as well.

**Recursion.** The provers take no induction theorem that has an operator as a
parameter. `Recursion` states induction with a set in its place: a set of
naturals with 0 in it that is closed under successor is all of them. It follows
from the well-foundedness of the naturals by a least member that is missing. A
second lemma gives the functions that a recursive definition names; without it
nothing is known of a `CHOOSE`. `MachineProofs`, which needs one least
counterexample only, has its own (`LastPosition`).

**DictProofs, the walk.** A walk takes slot `s` to `5s + perturb + 1` modulo the length. By
`Shifts` steps the perturbation is gone, and what is left is a generator of full
period because the length is a power of two (the length-is-a-power clause of the
invariant is there for this). The proof writes the place after `i` more steps as
`5^i s + C(i)`, shows that two places `d` steps apart are the same slot only if the
length divides `C(d)`, and that this makes it divide `d`, by halving: `C(2e)` is
twice `C(e)` times an odd number. `WalkVisitsAll` is what `Walk::next` takes for
granted.

**DictProofs, the table.** `TypeOK` and `SlotsAndEntries` are not inductive: a deletion that
emptied its slot would keep them and break the next probe. The invariant is
`Filing`:

- `Shape`: the length of the table is a power of two;
- `Roomy`: no more slots are taken, by positions or tombstones, than there are
  entries and holes, and those are two thirds of the table at most. With
  `WalkVisitsAll` every probe ends;
- `Pointing`: slots and live entries are a bijection;
- `InReach`: the walk of an entry's key comes to its slot before it comes to an
  empty one. This is why a deletion leaves a tombstone, why an insertion may take
  the first one it passed, and what makes a probe that ends at an empty slot
  right to say that there is no such key;
- `KeysOnce`: no two live entries have equal keys.

`ProbeIs` says that a probe of such a table finds the one entry of an equal key or
ends where one could go. Every operation then is the abstract one on `Live(entries)`,
the list of what is there (`ImplementsMap`). A rebuild keeps the list and files it
anew: `FiledIs` is an induction over the entries filed so far. `ImplementsMap` uses
`AbstractDict`'s own `Init` and `Next`, all of `Spec`: neither has fairness.

A loop over a dict adds where the position is. `Moves` says of two entry arrays that
a key in both has not moved back and has passed no other, and `BodyMoves` that this
is so of every operation, rebuilds included. The invariant `LoopInv` adds to the two
properties that a key that stays has been given exactly if it is not ahead of the
position, the second half unless a rebuild has moved an entry (`Behind`).

**ListsProofs.** That the sort is the stable order is an argument of three layers,
none of which the model states. A merge, after any number of steps, has in order
what it took of either run, and everything it has is before everything that is left
(`Halfway`); two runs that lie side by side in the list agree with the comparison of
ranks, since of equals the left one came first (`Agree`). A pass makes of the runs
of a width those of twice the width, each with the elements that were there
(`PassIs`). The width doubles, so after as many passes as there are elements one run
is all of it (`MergeSortIs`). With the reverse flag the list is turned round before
and after, and the order that comes of it is again one that keeps equals as they were
(`ArrangeIs`). `Ordered`, the definition `SortAnswers` compares with, counts the
elements that come before a place; there are as many before as places to the left of
it (`SortedIsOrdered`). Ranks are natural numbers, so all of this is about keys that
can be compared: of keys that do not form an order, a NaN among them, nothing is
said.

`NoElementTwice` counts; the invariant `ListsInv` has it as sets instead: the list
and what every sort took have nothing twice and nothing in common. What an operation
makes of a list is one `From` it, and so is what `Arrange` makes of it. `SortIsStable`
needs the invariant too, because the order is stable among elements that can be told
apart.

**AnswersProofs.** What `Answers` says is proved for every question there is: any
integers, any ends and any step that is not zero, any sources, any sets. The assumption
is that the largest word is `2^n - 1`, with `n` at least 2 (the code's is 63): it has to
hold a step of two and the length of a list that is cut by one. The invariant `Right` of
`AnswersInvariant` is short: what has been asked is a question of the kind its name says,
and what has been answered is right. All the work is in the lemma for each kind, which is
about the operators.

- Integers (`ArmsAreRight`). The division of the words, and of big integers, truncates
  and is put right by one when the remainder and the divisor disagree; `FloorOf`
  says that what comes of it is the floor and its remainder. The arms are the rest of
  it: the least word has a negation, a magnitude and a quotient by -1 that are no
  words. A power is a recursive function, so `Power` is known only from
  `RecursiveFunction` of `Recursion`, and `Bits` only because powers of two grow past
  every number (`PowerGrows`).
- Ranges (`RangesAreCounted`). The count is a quotient of the span, rounded up, and the
  walk adds the step until it is past the end; that they agree is an induction over
  the walk.
- map (`MapsKeepStep`). A round takes from the sources in turn up to the first one
  that has ended. After `k` rounds a source has been taken from as often as the
  shortest source up to it allowed (`TakenAt`); that is the invariant of the rounds,
  and what strict makes of a round that stops half way follows from where it stopped.
- Slices (`SlicesSelect`). Ends are cut to the word and then to the length. The proof
  shows that the cut ends tell every position of the list apart as the given ones do, that
  the count is that of the positions from one end to the other by the step, and that a
  step that was cut to the least word, whose magnitude wraps to the least word again,
  still takes the right number of positions, one at most.

- Items, slices of a list and unpacking (`ItemsAreRight`). The code deletes a slice element by
  element, back to front, each time looking for the last that is left; what has to hold
  in between is that the list lacks exactly the places already taken, all of them behind
  those still to come (`LeavesMore`), so those have not moved. The list is compared by
  counting: an element that stays is as many places further left as there are deleted ones
  before it. A run is written in one piece and anything else one by one, and which of
  the two it is depends on the step only after it was cut to a word (`RunIs`); where an
  empty run lies is its start (`PlaceIs`, `CutWritten`). What the targets of an unpacking get, put
  together, counts up from the first element to the last (`CountsUp`).
- Sets (`ItemsAreRight` too) and calls and attributes (`CallsAreRight`), from the lemmas
  of `ObjectsProofs`.
- Equality, order and hash of values (`ValuesAreRight`), from those of `ValuesProofs`.

**ObjectsProofs, reading.** A method reads all its arguments before it does anything, and reading
runs Python that can change the very set. What is meant says nothing of loops: it
takes the steps of all arguments as one history (`Events`) and asks of every kind of
member whether an addition or a removal came last (`CopyBefore`). The invariant of the reading, `Reached`,
says of every place in that history: if no step so far has failed, the set is what the
history says and every argument has given, first of its kind, what the history says
(`Sound`); and if one has, the set is what it was at the first that did, with its error
(`Broken`), whatever follows. One step keeps it (`ReadStepReaches`), so does one
argument (`ReadReaches`) and so do all (`EveryReaches`): again an induction inside of an
induction. The case that takes care is an argument that is the set itself: it gives the set
as it is when its turn comes, and not as it was before or is afterwards (`SelfReaches`).

**ObjectsProofs, methods and operators.** What a method makes of a set is known kind by kind, and which copy of
equal members stays is part of the promise: of the set and an argument the set's, of two
arguments the first's. `Combined` goes through the arguments one by one, so the invariant
of `CombinedIs` says of the members after each what they are in terms of all so far.
For the operators, `MakesIs` says what a new value holds and `InPlaceIsRight` that an
augmented assignment changes the one object it names, also when both names are that
object.

**ObjectsProofs, binding.** `Function::bind` fills the parameters in stages: positions,
keywords one after the other, defaults. The keywords of one call are different names,
so only positions can be in the way of one. That is the
invariant: after any number of them, either nothing was wrong, and every one is in its
register, among the rest, or among those that came to positional-only parameters, and
everything else is as the positions left it (`Filled`); or one was wrong and the call
is refused whatever follows (`Stuck`, `KeywordsFill`). A call without a complaint then
has every parameter from the source the language gives it, and the other calls are
blamed for the first stage that is wrong (`BindIsRight`).

**ObjectsProofs, calls.** The keywords of a call are written as names and mappings,
which the code takes in nested loops; the language's side is one sequence, `Offered`.
What is kept between two keywords is `Sorted`: either all that was offered so far are
names, all different, and are kept in their order, or the complaint is that of the
first that is wrong. One keyword keeps it (`PushKeywordSorts`), so does one mapping
(`FoldOneSorts`) and so do all (`FoldSorts`): an induction inside of an induction. A call
is refused in the order the code looks: no function, then keywords, then arguments
(`CallIsRight`).

**ObjectsProofs, attributes.** `AfterHolds` is an induction over the history: what an
object has of its own under a name is what the latest operation on that name bound
there, and nothing if that was a deletion or there was none; and a deletion was refused
exactly if there was nothing. What an attribute is then follows for each kind of object
(`AttributeIsRight`).

**ValuesProofs, numbers.** A number has one hash whatever it is written as. The code
never divides a float: it reads the mantissa some bits at a time and turns the residue
round instead of multiplying it. Modulo `2^b - 1` a factor of `2^b` is one
(`RoundsAreOne`), so turning round by `k` places is multiplying by `2^k` (`RotateIs`); the
loop keeps that the residue so far and the rest of the mantissa make the number, scaled
by what was read (`DigitStepIs`, `DigitsAre`), and the last turn takes the scale off again
(`PlacesAre`, `FloatHashes`). Equality and order of an integer and a float go by the whole
part, truncated and not floored, and then by the fraction; `IntEqFloatIs` and
`IntCmpFloatIs` say that this is equality and order of the numbers, `NumberEqualsIs` and
`NumericOrderIs` that it is for every pair of types, and `NumbersHash` puts hash and
equality together. The assumptions are that the modulus is `2^b - 1` for some `b` (that it is prime is
not needed) and that fewer than `b` bits are read at a time.

**ValuesProofs, containers.** `Values` gives equality, orders and hashes as functions of
the values of each level of nesting, so that a theorem about them can be an induction
over the levels (`LevelsAgree`). What is kept is more than what is asked: that equality
is symmetric and transitive, that equal values have one hash or both none, and that the
four orders agree with it. Transitivity is needed for sets, whose equality looks
in one direction only: each element of the one is in the other, and they are as many. That
the other direction follows is the pigeonhole principle, and needs that a set has no two
equal elements (`WithinBoth`). The sequences need nothing beyond the level below, since
the four orders ask about one and the same pair of elements (`SequencesCompare`). Floats are
numbers of quarters here, of any size, and a text is a number; the theorem is about all
of those.

**Only model-checked.** Liveness under fairness (`ExceptionsArrive`, `Ends`) and
anything about a `RECURSIVE` operator (`TryMeaning`, `TryCompile`, so all of
`TryMachine`; among what `MCFunctions` compares, expressions, scopes, layout, paths,
texts, the parser and the checks) are out of the prover's reach.
So are the four disagreements, which are counterexamples.

## What is not modelled

- The instructions that compute a value from one or two others without a branch
  that matters, and the built-in functions that do the same.
- What is inside of a token: numbers, escapes, names, prefixes. The statement
  and pattern grammars. The parser's wording of a complaint.
- Making a class from its body. An annotation, which the code does not evaluate
  (`lower.rs:977`).
- Printing: `repr`, `str`, format specifications, tracebacks, listings, dumps.
- Filter, zip and enumerate, the set operations of views, methods of bytes.
- Streams, the command line, finding a file on `sys.path`: the operating system.
- The eight placeholder crates: there is nothing in them.

A third of the implementation's lines, about 20,500 of 61,758, are generated
tables of Unicode and charmap data, and a good part of the rest is tests, message
texts and documentation, so the share of lines the modules stand for is smaller
than the share of the program's behaviour.

## Plan

Done: A `Namespaces` and its proofs, the layout of globals being
where most of the machine's re-entrance meets; B `Machine` and its proofs; C `Dict`,
`AbstractDict` and `DictWalk`; D `TryMeaning`, `TryCompile`, `TryMachine`; E
`Contexts`; F `Lists` and its proofs; G the functions; H the proofs about handlers, handled
exceptions and contexts; L the proofs about `Dict` and `DictWalk`;
M those about `Lists`; N those about integers, ranges, map and slices; O those about
calls and attributes; P those about items, slices of lists, unpacking and sets; Q those
about equality, order and hash.

What is left, by what it would add:

| step | module | properties and theorems |
|---|---|---|
| I | the set operations of views, on `Sets` | what `Sets` says of sets, over keys and pairs |
| J | the statement grammar, on `Parser` | as `ReadsTheGrammar` |
| K | the inside of tokens, on `Layout` | every text is cut into tokens in one way, and they cover it |

# A formal model of Snack

Snack is a small scripting language: a lexer and a parser build a syntax tree, a compiler turns
each unit into a binary of stack-machine code (SIR), and an interpreter runs it. This directory
holds TLA+ modules for all the parts of it that decide what a program does (lexer, parser,
compiler, binary, interpreter, its reference-counted arrays, units and the unit manager) and for
the error manager they report to, TLC configurations that check them on small instances, and
proofs about the lexer for every source (that it implements a reader of the whole text among
them), about the parser's scopes and functions in every nesting, about what the compiler emits for every nesting of statements, about the interpreter for
every program, about the unit manager for every sequence of requests, and about the error manager
for any number of callers.

Paths below are relative to the repository (`src/` here): `src/ir_interpreter.cpp` is the file
`src/src/ir_interpreter.cpp` of this workspace.

- [The system](#the-system): inventory of the components
- [The modules](#the-modules): how they correspond to the code
- [The runs](#the-runs): what TLC checks, bounds, fairness
- [The proofs](#the-proofs)
- [Where code and documents disagree](#where-code-and-documents-disagree)
- [What is not modelled](#what-is-not-modelled), and [the plan](#the-plan)

## The system

The program is single-threaded: one caller drives lexer, parser, compiler and interpreter in
turn (`example/comdisint.cpp`). What is hard about it is not concurrency but long sequences of
legal operations over shared mutable state: raw pointers between function contexts, counters
kept apart from the references they count, byte addresses, one token pointer that every
production moves, and error paths that return halfway. The error manager alone is written for
several callers, with a lock and an atomic counter, although nothing in the repository starts a
thread: its model lets callers overlap, because that is what its code allows for.

| Component | State it keeps | Operations | Interacts with | What is hard, and what makes it correct |
|---|---|---|---|---|
| **Interpreter** `ir_interpreter.{h,cpp}` | `func_contexts` (a stack of contexts: pc, evaluation stack, 200 local slots, 30 arguments, owning unit), raw pointers `last_context` and the current context, `opcode_map` | one handler per opcode; `do_opcode`, `interpret` | reads the binary; pushes and pops counters of the reference manager; calls units | `last_context` outlives its context; a handler's early return leaves pc on an operand; `met` writes as many arguments as it is told; the stack discipline is nobody's invariant. Correct: pc always at an instruction, arguments from the caller, a frame touches only its own stack |
| **Reference manager** `ir_interpreter_ref_manager`, `ir_array`, `ir_oop_object` (same files) | map of id to object, last id, a counter per object | `make_new_array`, `do_push`, `do_pop`, `get_obj`; array `get_element` | called from every push and pop of a context | counters and references drift where a value moves without a push or pop (`met`, `ret`, a dropped context). Correct: the drift is known, nothing is destroyed that was not over-counted, ids are never reused |
| **std unit** `unit/std.{h,cpp}` | none | `print`, `sin`, `length` (`cos` and `tan` are registered as `print`) | pops its operands from the caller's stack | `length` pops its array before reading it; `print` rescans what it inserted |
| **Units** `unit.{h,cpp}` | functions (name, address, argument count) and referenced units, read from a binary | `query_entries`, `get_function_idx`, `call_function`, `get_reference_unit_name` | interpreter pushes contexts through them | indices are truncated to a byte |
| **Unit manager** `unit_manager.{h,cpp}`, `unit/init.cpp` | cache of units, their buffers, search paths | `use_unit`, `do_unit_check`, `add_external_unit`, `add_search_path` | file system, error manager | the magic it wants is not the one `compile` writes; `true` without a unit caches a null; `fclose(nullptr)`. Correct: a name keeps its unit, a unit keeps its bytes, failures are reported |
| **Compiler** `ir_compiler.{h,cpp}` | output stream and position, function table, unit table, data relocations | `compile`, one `build_*` per node, `emit`, `do_relocate` | reads the AST and the unit manager | branches patched after the fact; two paths meeting with stacks of different height; evaluation and argument order. Correct: the code computes what the source says |
| **Parser** `parser.{h,cpp}` | where the lexer is, the functions declared, the scopes around a node | one `parse_*` per production, `do_parsing`; `get_var`, `get_function` | drives the lexer with `next`, `back`, `peek`, `jump`; builds the AST; reports errors | it looks ahead, goes back and jumps, and a production that fails may leave it anywhere; scopes live in the parents of nodes. Correct: a source of the language is read back as it is written, a name is the innermost declaration's, and every variable of a function is one of its locals |
| **AST** `ast.{h,cpp}` | the nodes | constructors, getters | parser writes it, compiler reads it | none of its own |
| **Lexer** `lexer.{h,cpp}` | two streams, token list, token pointer, indentation stack | `next`, `back`, `peek`, `jump`, `lex_line` | parser, error manager | tokens made a line at a time under a pointer that moves both ways; indentation to a level never opened; no layout in parentheses. Correct: the parser sees one text, whose blocks nest |
| **Error manager** `error.{h,cpp}`, `error.def` | map of errors, atomic id, count of actual errors, report holes, a mutex | `throw_error`, `error_out`, `dump_all_error`, `connect`, `disconnect` | everyone reports to it | the id is read again outside the lock, `emplace` keeps what is there, `dump_all_error` and `disconnect` take no lock; descriptions are filled in by searching for `{}`. Correct: no report is lost, an id is one's own |
| **Decompiler** `ir_decompiler.{h,cpp}` | read position | `dump`, `dump_unit_ref_table` | reads the binary | pure output |
| **Opcodes and tokens** `ir_opcode.*`, `token.*` | none | names | all of the above | nine opcodes have no handler |
| **comdisint** `example/comdisint.cpp` | none | compiles a script, calls `main`, runs `interpret` | host of the library | calls into one interpreter again and again |

`PROJECT.json` lists the hazards found in each, at the line where they bite, with the property
that covers each, or why none does.

## The modules

```
   MCLexer ---> Lexer ---> Indentation           MCParsing ---> Parsing ---> Parser
                  |  \                               |             |
                  |   INSTANCE --> TokenReader       +--> Lexemes, Scripts ---> Nodes, Indentation
                  +<-- Lexer_proofs                  MCParsingDocs ---> Parsing, Scripts
                            ^
                      LexerText_proofs           Parser ---> Scopes <--- Scoping <--- MCScoping
                                                                          |   ^
                                      Environment <------- INSTANCE ------+   +--- Scoping_proofs

            CallStack <---- INSTANCE ---- Interpreter ---> Bytecode ---> RefManager
                                           ^  ^   ^            ^
                        Interpreter_proofs-+  |   RefLedger    |
                                ^             |       ^        |
                                +--- RefLedger_proofs-+     Emitter <--- Emission <--- Emission_proofs
                                              |                ^            ^
   SourceSemantics ----------------> CompiledProgram ---> Compiler     MCEmission
   MCPrograms, MCDocs extend MCInterpreter; MCRefLedger extends it and RefLedger
   MCReadme (with Scripts), MCCompiledDocs extend MCCompiled

   MCUnitManager ---> UnitManager <--- UnitManager_proofs
   MCErrorManager ---> ErrorManager <--- ErrorManager_proofs
```

| Module | Models | Correspondence |
|---|---|---|
| `Indentation` | `generate_indent_dedent` | operators: the layout tokens of a line, and the stack it leaves |
| `Lexer` | `lexer` | a source is a sequence of lines, and a line what decides on its tokens: its indentation, its words as far as they matter (a parenthesis, or any other), how many characters it has that are no token and how many dots that are reported, whether it has tabs, whether it has a string that does not end. `next`, `back`, `peek`, `current`, `jump` are actions, each with the whole of `lex_line` when it runs out of tokens |
| `TokenReader` | what the parser takes the lexer for | abstract: a text that is all there and a place in it |
| `Lexemes` | the `lex_*` functions | a word's type of token |
| `Parser` | `parser` | one operator per `parse_*`, from where the parser is to where it is after, with the node it returns, the errors it has reported and what became of the process |
| `Scopes` | `get_var`, `get_var_nearest_scope`, `get_function`, and how declarations and functions are added | operators over the variables with the scopes that hold them, each function's `local_vars`, and `functions`: what `Parser` uses where the code is parsed, and `Scoping` in any order |
| `Scoping` | whatever the parser can do with variables and functions | one action for each place where a `parse_*` begins or ends a scope, declares, or asks for a function; which one comes next is left open, but for what the C++ calls and returns give: what is begun last ends first, and parameters come before the colon |
| `Environment` | what names mean to a reader of the language | abstract: the meanings of all names in each block that is not at its end, and no scopes, walks or lists |
| `Parsing` | `do_parsing` | the statements of a unit, one step each; beside it `Written`, how nodes are written, which is the reference the parser is compared with |
| `Nodes`, `Scripts` | writing nodes; the scripts of `README.md` and `comdisint.cpp` | lines, tokens and nodes of one source, so that what one component makes is what the next is given |
| `ErrorManager` | `error_manager` | what the lock leaves out of `throw_error` is in steps of its own: counting, reading the number, and `emplace` with the lock taken; callers run in any order |
| `RefManager` | elements, objects, counters | `Element` is `ir_element`; `DoPush`, `DoPop` the counting calls; `MakeNewArray`, `Resized`, `Stored` the arrays |
| `Bytecode` | the binary of a unit | opcodes by the handler that decodes them, `Width` the bytes each reads, `WellFormedCode` what the compiler lays out |
| `Interpreter` | `ir_interpreter`, `unit.cpp`, `unit/std.cpp` | one action per handler or family of handlers with one body; early returns are actions (`RejectOperand`, `RetRefused`, `CallUnresolved`); what C++ leaves undefined or throws is a `fault` |
| `CallStack` | what `specs/OPCODE.md` promises of `call`, `met`, `ret` | abstract: frames that touch only themselves, except to take arguments and to return |
| `RefLedger` | history variables over the interpreter | counts the moves of references that the manager is not told about |
| `Emitter` | how `ir_compiler` writes code | `emit`, a branch saved and emitted with target 0, `rewrite` (seek back, write the target, return), the br before an else, the end of a loop, the start and end of a function |
| `Emission` | whatever `ir_compiler` can emit | one action per step of a `build_*` that emits: any straight instructions, and conditions, ifs, elses and loops begun and ended inside one another. What each address was saved for is `open`, which in the code is the C++ call that holds it in a local variable |
| `Compiler` | `ir_compiler` | one operator per `build_*`, from what is emitted so far to what is emitted after it, with the errors and what became of the process; `build_rest` is the unit's tables and what it reports |
| `SourceSemantics` | what a source means (`specs/LDESIGN.md`) | a direct evaluator of nodes, written without looking at the code it is compared with |
| `CompiledProgram` | compiler and interpreter composed | the program the interpreter runs is `compile(source)`; the expected variables are `Outcome(source)` |
| `UnitManager` | `unit_manager`, with the file system and the host around it | `units`, `unit_buffer_map`, `search_paths` are the members; `UseUnit` is `use_unit` with an action for each way it ends; `AddExternalUnit`, `AddSearchPath` the host's calls; `Change` a file written, replaced or removed |
| `MC*` | instances for TLC | sources, programs as instruction lists, callers, files |
| `*_proofs` | theorems | see below |

From text to output the pieces meet in values, not in one state machine, because the program runs
them one after the other and the lexer is finished with a token when the parser has it:
`ReadsAsWhole` lets the parser's model work on the whole text; the nodes that `ReadsScripts` shows
the parser to make of a script are the ones `compiled` compiles and runs.

`Scoping` is to the parser what `Emission` is to the compiler: the same operators as `Parser`, of
which it is shown what they do in any order, where `Parser` is RECURSIVE and can only be run over
sources. Two things it takes for granted are read off `Parser`: that a function or block is ended by
the call that began it, and that declarations and scopes are read one behind the other, although the
parser goes back and jumps (it does so over expressions only). `Parsing.TypeOK` asks the second of
every source of the `parser` run. A variable's meaning is its name and place, `parents` the chain of
nodes up from the statement, which in the code is their `parent` pointers.

In `UnitManager` what is in a file is the number of the write that made it, and its first four
bytes are one of three: the magic `do_unit_check` wants, the one BINARY.md gives, or too few to
tell, when the check reads what the buffer held before and may go either way. A loaded unit
remembers the write its functions were found in (`query_entries` runs once, in the constructor),
and the buffer the write it holds. The files may change between any two requests; within one
they do not, since the listing, the check and the read are one call. What C++ leaves undefined
(`fclose(nullptr)`, a header read from a buffer too small for one) is a `fault`, as in
`Interpreter`.

The two are composed by an argument, not by a module: the interpreter asks `use_unit` at every
call into another unit, and its model reads the program's units from a constant. `UnitsStay` is
what makes that sound: once a name has a unit it has that one for good. A unit that is missing
at one call and found at a later one is the case the composition leaves out.

In the parser's model a variable's node is its name and the place of the token that declares it,
since two variables of one name are two nodes. What dereferences null, reads before the first
token or repeats for ever is a `fault`. The lexer's history is two external variables, what the
parser was last given and how far it has been: no code reads them. A throw of the error manager is
named by its place in `thrown`, so that an id can be compared with the error it stands for.

Conventions. A function context's address is its index in `func_contexts`, so `last_context` is
an index, `0` for null and `Garbage` for what the constructor never set; a context that is gone
has an index above the depth. Local slots and arguments are partial functions: what was never
assigned is an element of type none. The code of a function is a map from byte addresses to
instructions, and a pc outside its domain is a pc on an operand. Constants sit in the
instruction that loads them, where relocation leads. Numbers are integers: fractions of
`long double` are left out, `div`, `shl`, `shr`, `pwr`, `mod` and `sin` give any number, and `Fit`
lets a result that leaves `Nums` be any number of `Nums`. Strings are opaque but for the empty
one and for the number of `{}` they hold (`Holes`); filling a hole makes no new `{}` out of what
stands around it. Definitions that start with `MUTANT` in their comment are deliberate
mistakes, used to show that a property can fail; nothing else refers to them.

## The runs

Every run but the documentary ones is exhaustive over its programs: `Init` picks one, and TLC
follows every behaviour of it.

| Run | Question | Instance and why it is enough |
|---|---|---|
| `programs` | Does any opcode, with any operand at an edge, on any stack of values of any type, corrupt a context or strand its pc? Does the raw `last_context` still name the caller when arguments are taken, and do `call`, `met`, `ret`, `endmet` implement `CallStack`? | every opcode; indices 0, 29, 30, 127, 128, 199, 200, 255; three pushes reach the deepest operand (`strelm`); numbers -1..2 hold a negative index, zero and both truth values. With them two units, one function each of up to 3 and 2 instructions, calling each other, themselves, std, and a missing unit, with 0..2 arguments or one too many; `MaxDepth = 3` gives a caller of a caller, two arguments on a stack show their order, `MaxRuns = 2` leaves a stale pointer from the first run |
| `ref_ledger` | How far can counters drift from references, and what can that destroy? | mains of 4 array instructions with four helpers (return, keep, pass on, duplicate), and of 5 with the returning one: long enough to create, return, store, drop and load again; two ids tell one object from another |
| `compiled` | Does compiled code compute what the source says, and end? Is the listing of `README.md:57-99` what `compile` emits, and does running it print `12 15 27`? | sources with calls, recursion, overloads, nested calls, arrays, conditions, loops in loops, all statements over all expressions; `Nums = -30..30` holds every value that comes up, so arithmetic is exact; `MaxStack = 40` and `MaxDepth = 6` are never reached. With them the nodes of the scripts of the README and of `comdisint.cpp`, which the `parser` run shows to be what is parsed; the second declares one name in a function and in a loop's block, and one loop variable twice. One interpreter runs each twice |
| `emission` | Do branches that are rewritten later all go where they should? | three functions, the middle one of up to four instructions and branches in any nesting, with all their ends and elses: an if in an else in a loop, a loop of two guards with a condition in each, and a function before and after it |
| `unit_manager` | Can a loaded unit see another binary, a name be bound again, or `use_unit` fail without a report? | two names and two directories, one of which may be missing: one file shadows another, or turns up in a path added later; `MaxWrites = 2` is a file read and then replaced or removed; `MaxPaths = 2` has the second path searched after the first |
| `lexer` | Is the parser given the tokens of the source, in order and once, whatever it calls, and do the blocks nest? | every source of one to three lines out of eleven (indented 0 to 2, blank, spaces only, tabs only at the end, one or two words, a parenthesis opened, closed, or nested, a decimal, two unknown characters, both with two dots, an endless string), and of four out of three: two blocks closed at once, a level between two, a line in parentheses; any calls at any time, lists of up to 7 tokens, so that the end is marked, and a last line lexed, more than once |
| `parser` | Does a source of the language give the nodes it says, and what is left of sources that are not? | 12,963 sources: every statement form over some twenty expressions of all levels of operators, declarations and loops in loops, with and without parameters; the two scripts, from their lines; and every list of up to three tokens as the body of a function |
| `scoping` | Do the walks over scopes give names the meanings a reader gives them, and calls one node, in any nesting? | two names, one function name with two numbers of arguments, five scopes and declarations (`MaxAt = 5`): a variable of a function, hidden in a block, hidden again in a function inside it, and a block that ended beside them. The names are symmetric, and no property is about liveness |
| `error_manager` | Can an error be lost, an id be somebody else's, or the total be wrong? | two callers, one hole, three kinds of errors (one that does not count, one with as many arguments as `{}`, one with a `{}` in its last argument), three errors: two that race and one kept before them |
| `docs_ret`, `docs_condition`, `docs_else` | Three statements of documents and comments that the code does not keep | see [below](#where-code-and-documents-disagree) |

Properties, by what they guard:

- `MetReadsCaller`, `DanglingOnlyFromHost`: `call` overwrites `last_context` before it knows
  whether the callee exists, and nothing resets it after a return. It is nevertheless the
  caller whenever a called function is about to run its `met`, because nothing runs between
  the two. Only a function the host itself calls with arguments can use a stale one.
- `RefinesCallStack`: the frames of the interpreter, mapped by `Frames`, behave as `CallStack`.
- `PcAligned`: no handler of an orderly program (local indices in range, no `vri` or `vrs`,
  constants of the loaded kind) leaves a pc on an operand, failing array loads, refused
  returns and unresolved calls included.
- `CountersBalance`: counter + uncounted returns = 1 + references on stacks + uncounted pops,
  for every live object. The one says that a counter starts at 1 with no reference yet; the two
  ledgers are exactly the three places that move a reference raw. It stops at `forged`: a
  reference stored in an array has an undefined id.
- `GoneOnlyIfReturned`: an array that never crosses a `ret` is never destroyed (it leaks).
- `NeverReborn`: a stale reference finds nothing, never another array.
- `RunsAsWritten`: when `main` is about to end, its variables have the values that
  `SourceSemantics` gives.
- `Completes`: what the host calls comes to its end without a fault.
- `ReadmeListing`: the code of `test` is the README's listing, address for address.
- `CodeIsWellFormed`: what is nested in a function ends with every branch rewritten, the br over
  an else counted in, to an instruction of that function behind its `met`, and no gap between
  instructions. It is what `InterpreterAssumption` asks of programs.
- `NothingHidden`: each instruction of a finished function is fallen into or jumped to, or comes
  after a loop without a condition.
- `PrintsTheElements`: each `print` of the scripts finds its text and the element whose turn it
  is, and in `comdisint.cpp` the inner `d` and the second loop's own `i`.
- `ReadsAsWhole`: the lexer, reading by the line with a token kept ahead, implements
  `TokenReader`, a reader that has the whole text. (A step property: it holds of sources without
  endless strings in which lines without tokens are not next to each other, see `Reliable`; for
  the others the code does lose tokens.)
- `NothingAfterEof`: the list grows behind the end mark when the parser goes back to the start,
  and the parser still never gets there.
- `ListIsText`: the list is the text of the lines read, the stack and the flag are those after
  them, and, when all are read, what the list has behind the whole text is of rows the source does
  not have. It is what `ReadsAsWhole` rests on, and needs no reliable source.
- `BlocksBalance`, `QuietInParentheses`, `SameLevelSameBlock`: every dedent closes a block that
  was opened; no layout between an opening parenthesis and the next closing one; lines of one
  level, with none lower between them but empty ones, are of one block, but for levels that were
  never opened.
- `ReportedOnce`: of each row there are as many reports as its line has things to report, one for each
  character that is no token and each dot too many, in the order of the rows; however often the
  parser goes back and the end is met again, and whatever blank lines `getline` passes over. Only a
  last line without a newline is reported again, in full, by a row behind the source.
- `ReadsBack`: the nodes of a source of the language, written in full, are that source; so no
  production loses a token or reads one twice. `ReadsScripts` says it of the two scripts, node
  by node.
- `NamesResolve`: the scopes found by walking up the parents are those that counting indents and
  dedents gives.
- `VariablesAreLocal`: every variable a function names is in its `local_vars`, where the compiler
  will look for it (it emits nothing for one that is not), whatever the source.
- `ImplementsEnvironment`: scopes live in nodes, for good, and `get_var` walks up from a node; that
  gives each name what a reader takes it for at every step, so an ended block, another loop's
  block or a function around lends no variable it should not. Two parameters of one name are the
  case nobody looks for: the first is what the name means.
- `LocalToOne`: `parse_var` comes to the function by a walk of its own, past all blocks; what a name
  means is in the `local_vars` of one function, which is around the name. Where functions are
  nested it need not be the innermost, which is what the compiler would look at.
- `CallsAgree`: whatever was called before, inside or after a function, and however often one name is
  defined, all calls of that name and number of arguments have one node.
- `HangsReport`: a parse that does not end has something reported by the time it hangs. What it
  reports from then on is not modelled.
- `ErrorsKept`, `IdsAreTheirs`, `TotalCounts`: as long as no two throws overlap, an error is kept
  until dumped or withdrawn, an id names one's own error, the total is what was thrown. In
  the repository, whose one caller never overlaps with itself (`AloneInTurn`), this is what is left of
  reports over any order of throws, withdrawals and dumps: the map is emptied, the total and the ids
  go on, and the host decides by the total.
- `ArgumentsSuffice`: the loop that fills in a description never looks at the number of
  arguments, and reads past them only if an argument brings a `{}` of its own.
- `EntriesMatchBytes`: a unit's functions point into `unit_buffer_map`, which `use_unit` would
  resize and overwrite if a name were loaded twice. The lookup at its head is all that prevents it.
- `OneUnitForever`: `emplace` never rebinds, whoever calls it.
- `SilentOnlyIfSuspect`: `use_unit` returns null without a report only for a name that had a file
  the check refused (`suspects`, a history variable). It does then, for good, even after the file
  is replaced by a proper one.

Bounds. `MaxDepth`, `MaxStack`, `MaxRefId` bound nesting, stacks and objects; reaching one is
the fault `bad_alloc`, which a real process meets later. `MaxRuns` bounds the calls of the
host. `MaxWrites` and `MaxPaths` bound what happens around the unit manager, `MaxTokens` the
lexer's list (a parser that goes back to the start makes it longer every time), `MaxThrown` the errors. `MaxPc` and `MaxOpen` bound what `Emission` emits, `MaxAt` what `Scoping` reads. The counters themselves are unbounded naturals (a `uint32_t` in the code).

Fairness is `WF_vars(do_opcode)`: `interpret()` is a loop that runs opcodes until no context is
left (`src/ir_interpreter.cpp`, `interpret`), and nothing in it waits. The host's calls are not
fair. Only `Completes` needs it. `Next` ends in an explicit stutter once nothing is left to run,
so deadlock is checked there: no state of a running program is without a step. The runs of the
lexer, the parser and the error manager do not check it: they end when the source, or the
errors that the bound allows, are used up, or the process is gone.

The sources of `compiled` are those whose meaning the repository's documents settle: no
assignment to a parameter, no function inside a function, no `else` (the parser never produces
one), a loop's comparison is `<`, because `i <= 2` at the start of a condition parses as an
assignment, and functions that return a value assign nothing first, because `ret` is refused
then (see the findings). That what the compiler emits meets `WellFormed` is checked there too,
by `InterpreterAssumption`.

## The proofs

`Interpreter_proofs` proves, for every set of well-formed programs, every set of numbers and
strings, and every bound:

| Theorem | States |
|---|---|
| `TypeCorrect` | `Spec => []TypeOK`: no handler or error path writes outside slots or arguments, or breaks a counter |
| `Aligned` | `Spec => []PcAligned` |
| `ArgumentsFromCaller` | `Spec => []MetReadsCaller` |
| `DanglingFromHost` | `Spec => []DanglingOnlyFromHost` |

They rest on two assumptions, both evaluated by TLC in every run. `ValuesAssumption`: -1, 0
and 1 are among the numbers and `""` among the strings. `InterpreterAssumption`: programs are
`WellFormed`, that is, code is laid out without overlap, starts with the only `met`, every
instruction but `br` and `endmet` has another after it, and branches go to an instruction that
is not the `met`. This is what `build_function` lays out: `EmittedWellFormed`, below.

The argument is one inductive invariant, `IInv`. None of the four properties is inductive:

- `MetReadsCaller` says something only of a context at pc 0. A return uncovers an older
  context; that this one is not at pc 0, whatever `last_context` then holds, needs
  `CallersResumed`: a suspended context is past its `met`, since a call advanced its pc.
- `PcAligned` of a suspended context is needed again when it becomes the innermost one, and a
  call's return address is the instruction after it; so `IInv` keeps every context in `Context`,
  which carries alignment, and `WellFormed` gives the successor.
- `TypeOK` needs types of the slots' domains and of sequences of contexts, stated in `IInv` as
  membership in sets (`Locals`, `Context`) from which the prover can work.

The proof has a lemma per handler (`LdCstStep` to `LeaveStep`) and one for failures, over a few
shapes of step: `ContinueStep` (only the innermost context and the objects change),
`GotoStep`, `AdvanceStep`, `ReplaceStep`, `DropStep`, `FaultStep`. Typing of the operators of the
reference manager comes first (`DoPushType`, `DoPopType`, `ResizedType`,
`StoreType`). The step of `Next`, and the temporal theorems, combine them.

The same module proves, from the same assumptions,

| Theorem | States |
|---|---|
| `ImplementsCallStack` | `Spec => RefinesCallStack`: the frames of the interpreter behave as `CallStack` |

To `IInv` it adds `FreshEmpty`: a context that is about to run its
`met` has nothing on its stack and no arguments. That is why a function the host calls again
takes nothing, although `last_context` may then point to its own context (`NoArgsStep`), and why
a `met` without arguments leaves what `TakeArgs` gives for none. Most handlers change only the
innermost context and leave it past its `met`: `HandlersCompute` says so once for all of them
(`Computes`), and they map to `Work`. The others are `CallStep`, `TakeStep` and `NoArgsStep`,
`DisciplineReturn`, `DisciplineLeave`, `StartStep`; failures and the final stutter change no frame.

`RefLedger_proofs` proves, from the same assumptions,

| Theorem | States |
|---|---|
| `CountersKept` | `LedgerSpec => []CountersBalance` |
| `GoneKnown` | `LedgerSpec => []GoneOnlyIfReturned` |
| `IdsUsedOnce` | `LedgerSpec => NeverReborn` |

by `LInv`: the interpreter's invariants, and, until an array has held a reference, `Sound`.
`CountersBalance` (`Balance`) is not inductive alone. `newarr` makes an object whose counter is 1
and of which there must be no reference yet: so every reference in a slot, an argument or on a
stack has an id that was given out (`ContextsWithin`), and the ledger lists nothing of later ids
(`NothingAhead`). `GoneReturned` follows from it: the pop that destroys an object finds its
counter at 1 with a reference still on a stack, and the balance then leaves only an unpushed one to
pay for it. References are counted as the cardinality of the set of their places
(`StackPlaces`), so that a push, a pop, arguments taken off in reverse order and a context gone are
bijections and disjoint unions of such sets (`OccurrencesAppend`, `OccurrencesTaken`, `HeldSplit`).
`Carried` says what of counters and ledger a step has to keep, `OneChanged` that a step on one stack
has to show it of that stack only; each handler
then has a lemma (`AddAccounted` to `StdAccounted`), and the steps that move a reference past the
manager one of their own: `MetTakesCounted`, `RetCounted`, `LeaveCounted`.

`Emission_proofs` proves, for any instructions that are no branch, any numbers of arguments, any
nesting and any length:

| Theorem | States |
|---|---|
| `EmissionInvariant` | `Spec => []IInv` |
| `EmittedWellFormed` | `Spec => []CodeIsWellFormed` |
| `EmittedReached` | `Spec => []NothingHidden` |

from `EmissionAssumption` (the straight instructions are instructions, and neither branches nor
`met` nor `endmet`). Neither property says anything of a function that is not finished, so `IInv`
says of one that is being built (`InFunction`): the code so far is laid without a gap up to `pc`
(`Laid`); its branches are of two kinds, those that wait, whose target is still 0, and those that go
to an instruction of the code or to the one that comes next (`Branching`); the ones that wait are
just the addresses saved for something else than a loop, each once (`BranchesDiffer`), and a loop's
address is one to which a br may go (`LoopsStart`); and everything in the code, and what comes
next, is reached (`Reached`, which counts a br as the end of a loop only when its target is known).
When a function ends nothing is open, so no branch waits, and what comes next is the `endmet`.
There are two changes to a code, an instruction more (`ExtendedLaid`, `ExtendedBranching`,
`ExtendedReached`) and branches rewritten (`RewrittenLaid` and so on), and two to what is saved
(`SavedPushed`, `SavedDropped`); each operator of `Emitter` is a few of them (`EmitKeeps`,
`BranchKeeps`, `RewriteKeeps`, `ElseKeeps`, `LoopEndKeeps`).

This closes the gap between compiler and interpreter as far as it can be closed here. That the
`build_*` operators of `Compiler` call the emitter in an order that `Emission` allows is read off
them, as they are RECURSIVE: each ends what it began, in the order of a stack. TLC checks the
result for the sources of `compiled`, whose programs `InterpreterAssumption` evaluates.

`UnitManager_proofs` proves, for every set of names and paths, any number of changes of files and
any search paths:

| Theorem | States |
|---|---|
| `BytesOfUnits` | `Spec => []EntriesMatchBytes` |
| `SilentFailures` | `Spec => []SilentOnlyIfSuspect` |
| `UnitsStay` | `Spec => OneUnitForever`, from the next-state relation alone |

from `UnitManagerAssumption` (`.` is a path, built-in units are units). `SilentOnlyIfSuspect` is
not inductive: a null returned now may come from the table (`NullsSuspected`: every null there is
a suspect's), and a null put in the table now from a file (`FilesSuspected`: every file with
another magic is a suspect's). `EntriesMatchBytes` is, because a file is loaded only under a
name that is not bound.

`Lexer_proofs` proves, for every source and every sequence of calls:

| Theorem | States |
|---|---|
| `LexerTypes` | `Spec => []TypeOK` |
| `StopsAtEof` | `Spec => []NothingAfterEof` |
| `Blocks` | `Spec => []BlocksBalance` |
| `Parentheses` | `Spec => []QuietInParentheses` |

from `LexerAssumption` (a source is a sequence of lines). `NothingAfterEof` needs to know that the
parser has never been further than just past the list, and that nothing was read before there
was a token (`Near`): when the list is empty the code compares with a `size() - 1` that wraps.
`Balanced` ties the number of indents and dedents in every prefix of the list to the height of
the stack; it is kept because the dedents a line adds are as many as the levels it drops
(`Kept`), which is less than the height since level 0 stays (`StackSorted`). `Quiet` ties the
flag `ignoring` to the list: it is set just if a parenthesis is open at its end, which is what
lets a line, that looks at the flag only, speak of parentheses lines before.

`LexerText_proofs` proves, for every source and every sequence of calls, from the same assumption:

| Theorem | States |
|---|---|
| `ListText` | `Spec => []ListIsText` |
| `ReadsWhole` | `Spec => ReadsAsWhole`: a lexer that reads by the line implements `TokenReader` |
| `SameLevel` | `Spec => []SameLevelSameBlock` |
| `ReportsOnce` | `Spec => []ReportedOnce` |

The text is `whole`, a recursive function over the lines. That there is such a function is a lemma
(`WholeExists`, by a least counterexample: `UpFromZero`), and so is how it unfolds
(`WholeUnfolds`). By induction over the lines, the text up to a line is balanced and quiet, has
rows of those lines only and no end mark (`WholeText`), and later text continues it
(`WholeContinues`); lines that `getline` passes over leave it as it is (`WholeOverBlanks`).
`ListIsText` is then inductive together with `TypeOK`: a read adds to the list what `whole` adds
(`ReadsText`), and a read at the end adds rows there are not.

`ReadsWhole` needs to know that a token is there when it is asked for. `OneAhead` says how far
the parser has been: not at the last token while there are lines left, or at it while no debt is
left. A line without tokens makes a debt, and a line with two pays it (`Indebted`): that no second
line without tokens comes in between is just what `Reliable` asks for, and the start counts as one, because
the first call of `next` reads one line only. Each action then maps to the action of
`TokenReader` of its name (`NextReads`, `PeekReads`, `CurrentReads`, `MoveReads`), and the failures
are disabled (`NoFailure`).

`SameLevel` follows a level through the lines. The first word of a line stands after the layout
tokens of the line (`WordPlace`), so the blocks open there are those of the stack (`WordLevel`);
a line that closes none has its own indentation on top (`TopLevel`); no line that is at least as
deep takes that level off (`LevelStays`, by `KeptLevel`); and a line of just that indentation leaves
it on top (`StackLevel`). `ReportsOnce` needs no more than the types and `ListIsText`: a read
takes lines that are blank, and have no reports (`BlankQuiet`), and one that is not, whose row is new
(`AdvanceReports`); what is appended has just its reports, and the rows before keep theirs
(`ReportsGrow`: the places of a row among what is appended are an interval, counted by
`PlacesBetween`).

`Scoping_proofs` proves, for any names, any functions and numbers of arguments, any nesting and any
length:

| Theorem | States |
|---|---|
| `ImplementsReading` | `Spec => ImplementsEnvironment`: the walks over scopes implement `Environment` |
| `LocalNames` | `Spec => []LocalToOne` |
| `CallsOfOneNode` | `Spec => []CallsAgree` |

from `ScopingAssumption` (numbers of arguments are naturals). `CallsAgree` is inductive with the
types: `FindFunction` finds the first, so a function at the end of the list changes no search that
succeeded (`FindAfterAdd`), and an external one is only added where the search failed
(`AgreeAfterAdd`). `LocalToOne` is not: it speaks of the names that have a meaning now, and the end of
a block uncovers others. `HeldByOne` speaks of every variable of every scope around; to keep it for a
new one, its name and place must be in no list yet, and no two scopes around may be the same: that is
`InOrder`, by the places of their tokens. `FunctionsKnown` is why there is a function to declare in.

For the refinement `Meanings` is a sequence with an entry per scope around the parser. The walk is
unfolded from the inside (`MeaningOfAppend`: what the innermost scope has, or else what is around),
which the code does by calling itself with the parent. A scope that begins has no variables yet, as its
token is new (`BeginStep`); one that ends leaves the scopes around as they are (`EndStep`). A
declaration disturbs no other scope and no other name (`Undisturbed`, `AroundStays`), gives the name its
meaning if the scope has none (`NowKnown`), and changes nothing if it has (`OldInScope`); to
`Environment`, which has no scopes, the two cases differ by whether the name means something else
around, which is so just if the scope has one of its own (`OwnMeaning`, by `InOrder` again). Places of
the first and last element that satisfies a test, as which `find_if` and the walks are modelled, have
their lemmas first (`MinIsLeast` to `LastKnownIsNearest`).

`ErrorManager_proofs` proves, for any callers, holes, kinds of errors and number of errors:

| Theorem | States |
|---|---|
| `ErrorTypes` | `Spec => []TypeOK` |
| `NoErrorLost`, `OwnIds` | `Spec => []ErrorsKept`, `Spec => []IdsAreTheirs` |
| `TotalRight` | `Spec => []TotalCounts` |
| `ArgumentsEnough` | `Spec => []ArgumentsSuffice`, if every kind of error has an argument for each `{}` (`Enough`), as those of `error.def` have |
| `AloneInTurn` | a single caller never overlaps with itself |

The first three properties have `~overlapped` as their condition. The invariant says that then one
caller at most is in a throw (`OneThrow`), that its id is not in the map before it has the lock
and is its own after (`Answered`), and that a dump in progress has all that is kept (`DumpsWhole`);
`Counts` says how far the total is behind in each phase of that throw. In this repository one
caller does everything, and `AloneInTurn` removes the condition.

Only model-checked:

- `Completes`: liveness under fairness is out of the prover's reach.
- `RunsAsWritten`, `ReadmeListing`, `PrintsTheElements`: what compiled code computes. `Compiler` and
  `SourceSemantics` are RECURSIVE operators over nodes, of which nothing can be proved here.
- `ReadsBack`, `ReadsScripts`, `HangsReport` and `Parsing.TypeOK`: `Parser` is RECURSIVE over tokens and
  nodes. (A recursive function such as `whole` can be proved about, one whose value for a place depends
  on the values for smaller ones; the productions call each other with places and nodes they compute.)
- `NamesResolve` and `VariablesAreLocal` are about nodes of whole sources, and stay with TLC for that
  reason. What they say of the parser's tables is proved by `ImplementsReading` and `LocalNames`; that
  each token of a source comes to the right action is what the `parser` run checks.

## Where code and documents disagree

Each is a run that TLC ends with a counterexample; the findings in `PROJECT.json` quote the lines.

| Run | The statement | What the code does |
|---|---|---|
| `docs_ret` | OPCODE.md:17-21: `ret` pops the element and the context | a function that assigned anything has two elements on its stack, and `ret` falls through |
| `docs_condition` | `ir_compiler.cpp:653`: a failed condition does not continue | `while b && a` is entered with `b` false: the branch over `a` leaves nothing for the loop's `brf` |
| `docs_else` | LDESIGN.md:16: `if a: <block> else: <block>` | `else` is looked for before the dedent of the block, and never found; its block becomes part of the function |

Other behaviour worth knowing is in the models as it is in the code.

- Lexer. `/` and `%` are no token; adjacent operator characters are one operator; each dot of a
  number is reported but one just after a `$`, and each character that is no token; a string with a backslash, or without its closing quote, never ends; the first
  parenthesis that closes ends the rule of no layout, nested or not; a dedent to a level that was
  never opened closes the upper block only; two lines without tokens in a row lose one; a last line
  without a newline is lexed again whenever the parser returns to the start.
- Parser. `==`, `<=`, `>=` and `!=` after a variable at the start of a statement or condition are read as
  assignments; a unary operator takes the whole expression after it; an index followed by an operator
  at the start of a statement is read again from the bracket; `var c = new foo` gives no value and no
  report; `a = (1, 2)` and `none` report something although they are read; `ret` without a value,
  `f(a, )` and a statement that a block cannot parse never end; `for (;` parses a job where there is
  none, and reports the semicolon, where `for ;` does not; `ret` as first token reads before
  the list; `var` outside functions and `while` without a condition dereference null.
- Compiler and interpreter. A condition or right side that is null, and what is `new` when it is,
  are dereferenced; other nodes that are null emit nothing. LDESIGN.md:28 has 300 local variables, but their index is a signed
  byte: the 129th derails the function. OPCODE.md:5 has function indices of a `size_t`, but a
  call of function 256 enters function 0. LDESIGN.md:22 has `!=` and `%`, which emit no opcode. `and`,
  `or` and `xor`, which `&`, `|` and `^` compile to, have no handler (`NoHandler`). Loading a string moves
  it out of its variable; an array stored in an array loses its id; `length` of an array that its
  pop destroys dereferences null; an index below zero is never checked.
- Unit manager. BINARY.md:12 has the header hold `SIL\0`, the check wants `SNL\0`, and a file as
  documented yields a null unit and no report.
- Error manager. The stdio hole has no case for the compiler's errors and refuses them, and the dump
  clears them all the same; withdrawing an
  error does not lower the total; a dump without a hole drops the errors.

## What is not modelled

- **Characters**: a line is its words. How the words of the scripts become tokens is `Lexemes`; how
  other characters do is not modelled.
- **A unit found at a second call** that was missing at the first: see the conventions.
- **Decompiler**, names of opcodes and tokens, what `print` and the stdio report hole write: output
  only.
- **The byte layout of the data section, tables and headers**: a constant is in its instruction
  and a function is a map of its own addresses. So a function nested in a function, emitted in
  the middle of its parent's code, cannot be expressed.
- **`ir_oop_object`**: nothing creates one. **`pop`**: a handler that nothing registers.
- **Overflow of the `uint32_t` counter**: needs 2^32 live references.

## The plan

Done, in this order: `RefManager`, `Bytecode`, `Interpreter` with `programs`, `CallStack`
and the refinement, `RefLedger`, `Compiler`, `SourceSemantics`, `CompiledProgram`, `UnitManager`,
`Lexer` with `TokenReader`, `ErrorManager`, `Parser` and the scripts from their lines to what they print,
`Scoping` with `Environment`, and the theorems above.

To extend the model:

1. A layout of the binary with functions in one address space, for nested functions and
   `do_relocate`, and `query_entries` reading back what `compile` wrote.
2. The interpreter composed with `UnitManager`, units loaded by the calls that need them.

To prove more:

1. That the nodes the parser makes are such that the compiler emits no local index above 255 and
   no call it has not resolved: it needs induction over nodes, which is out of reach as long as
   `Parser` and `Compiler` are RECURSIVE. `Scoping` is the machine for the parser's half of it; the
   compiler's half, slots counted from `local_vars`, has none yet.
2. A static stack height would say that emitted code never underflows. `&&` in a condition is
   the counterexample to its premise, `print` takes as many operands as its text says, and `ret`
   is refused by what is under its value: what holds of all emitted code is `Laid` and `Reached`.

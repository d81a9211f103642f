# Verification of the SysY compiler

This directory specifies the compiler in `src/` (SysY to RISC-V assembly) in
TLA+, checks the specifications with TLC on small instances, and proves the most
important theorems with TLAPS for every value of the constants.

Paths such as `src/src/codegen/asm.hpp` are relative to the directory above this
one. To check a run, `tlc -config Backend.cfg MCBackend` (the pairs are listed
below); to check the proofs, `tlapm BackendProofs.tla`.

## 1. The system

The compiler is one process with one thread (`main.cpp:56`). It parses a file,
and then runs six passes one after the other, each over the whole program, each
on what the pass before left behind:

    parse -> TypeChecker -> IRTranslator -> CFGBuilder
          -> InstSelector -> RegAllocator -> ASMEmitter

A failed assertion exits, an exception ends `main`; nothing is retried and
nothing is persisted but the output. So what is hard here is not concurrency. It
is that *passes and handlers share state and extend it in an order the program
decides*, that one pass relies on numbers another pass has computed before the
state was final, and that two passes walk the same tree on their own and have to
agree.

| component | source | state | operations | talks to |
|---|---|---|---|---|
| driver | `main.cpp` | the parsed arguments | the order of the passes; `--ir` prints after CFGBuilder, `--venus` adds a prelude | all passes |
| common definitions | `common.hpp` | none | `BinaryOp`, `ASSERT` | all |
| lexer, parser | `lexer.l`, `parser.y` | generated automata | build the tree | syntax tree |
| syntax tree | `ast/tree.*` | the tree; a symbol per node | printing | checker writes symbols, translator reads them |
| symbol table | `semantic/symbol_table.*` | `scopes`, `scope_depth` | `add_symbol`, `find_symbol`, `enter_scope`, `exit_scope` | type checker |
| types | `semantic/type.*` | none | `equals` | type checker |
| type checker | `semantic/type_checker.*` | the symbol table | one check per class of node | symbol table, tree |
| IR | `ir/ir.hpp` | none | printing | translator, builder, selector |
| IR translator | `ir/ir_translator.*` | counters of temporaries and labels, `scope_depth` | one translation per class of node | tree, IR |
| CFG builder | `analysis/cfg_builder.*` | the function collected so far | `build`, `build_single_func` | IR, module |
| stack frame | `analysis/control_flow.*` | two maps and two counters per function | `alloc_temp`, `alloc_reg`, `alloc_dec` | selector, allocator, emitter |
| instruction selector | `codegen/inst_selector.*` | the current function | one handler per class of IR node | frame, assembly |
| register allocator | `codegen/reg_allocator.*` | none that survives an instruction | one handler per class of instruction | frame, assembly |
| assembly emitter | `codegen/asm_emitter.*` | `current_func`, `ra_offset`, `fp_offset` | prologue, expansion, epilogue, data section | frame, output |
| assembly | `codegen/asm.hpp` | none | printing | selector, allocator, emitter |

What makes each of them correct, and where it is stated:

- **Stack frame.** Slots and arrays are handed out from one counter by two calls
  in any order; they must be disjoint, stay where they are, and lie below what
  the prologue reserves (`NoOverlap`, `OffsetsFixed`, `ImplementsRegions`).
- **Back end.** Numeric offsets are written into code while the frame still
  grows, in three passes. They must stay right (`AccessesOwned`,
  `FramesSeparate`, `SlotsFixed`); the prologue must reserve the final size
  although `ra` and `fp` get their slots in the middle of emission
  (`FramesBalanced`); nothing illegal may come out, however large the frame
  (`OutputLegal`); no label, jump, branch, call, address or return may be lost,
  doubled or moved while each node becomes several instructions, three times over
  (`ControlKept`); and every pass must end (`Terminates`).
- **Calls.** Caller and callee agree on where stack arguments are. They do not
  (`StackArgsMeetParams`, a finding).
- **Symbol table.** Lexical scoping (`ImplementsScopes`, `LookupInnermost`), and
  names for the IR that never mix up two variables that can be used at the same
  point (`LiveNamesDistinct`) and tell a global from a local
  (`GlobalNamesAtZero`). The translator looks for `_in_0` anywhere in a name, which an
  identifier may hold too; that case is left out (section 3).
- **Type checker.** Accepted calls agree with definitions
  (`CallsMatchDefinitions`); accepted returns and parameters do not always
  (`ReturnsMatch`, `ParamsHaveSymbols`, findings).
- **CFG builder.** No node is lost, duplicated or moved to another function, and
  returns land at their own function's exit (`CodeKept`, `ExitsMatchReturns`,
  `ReturnsLand`).
- **Initialisers.** Checker and translators count on their own and must agree
  (`ElementsKeepOrder`, `StoresInside`, `NothingUnset`, `TranslatedAsChecked`);
  where they do not, there are two findings.
- **The compiler as a whole.** What it prints, IR or assembly, does what the
  source does (`ImplementsSource`). That covers what no pass can be asked alone:
  jumping code for conditions, calls in arguments, operands and conditions,
  addresses of elements, rows and globals, registers around calls. Its parts that
  go wrong first are stated on their own: what the back end is handed (`TypeOK` of
  `Driver`), that the passes keep in the order `main` runs them what each keeps
  alone (`PassesSound`), that what is jumped to, called or addressed is there once,
  in the IR (`IRResolves`) and in the assembly (`LabelsResolve`), that jumps stay in
  their functions (`JumpsLocal`) and computed stores in arrays and globals
  (`WritesInBounds`), what a function gives back (`RegistersRestored`), and whose
  memory it writes (`CallersFrameKept`).

The hazards behind these properties are listed, each at its line, in
`PROJECT.json`.

## 2. The modules

### Back end

| module | models | how |
|---|---|---|
| `Frame` | class `Function` of `control_flow.hpp` | a frame is a record of the class's fields; the three allocation calls are operators that return the frame after the call. `decs` is a history of the arrays, which the class does not remember |
| `FrameAlloc` | the same calls as a state machine | `TempRequest`, `SavedRequest`, `DecRequest` in any order; a size that is not positive throws |
| `StackRegions` | nothing in the code | the abstract promise: an allocator of disjoint regions, one word per register, a new block per array, or a rejection |
| `Asm` | `asm.hpp` | registers are names, instructions one kind of record |
| `InstSelector` | `inst_selector.cpp` | an operator per handler, from an IR node and a frame to code and a frame |
| `RegAllocator` | `reg_allocator.cpp` | the loads, the instruction and the store an instruction with virtual registers becomes |
| `AsmEmitter` | `asm_emitter.cpp` | prologue, epilogue and the expansion of immediates |
| `Layout` | nothing in the code | what emitted code makes of `sp`, `fp`, `ra` and `t4`: every place in it has a *shape*, and an instruction leads from one shape to the next. The theorems about the output and its execution are stated with it |
| `Backend` | `main.cpp:105-115` and the loops of the three passes | one step handles one IR node (`LoadImmNode` ... `LoadNode`), one instruction (`AllocateArith` ... `AllocateOther`) or one emission (`EmitFunction`, `EmitInst`, `EmitEpilogue`); `stage`, `cur` and `pos` say where the compiler is |

In `Backend` a handler is one action, with everything it calls: `CallNode` takes
three slots and appends seven or eight instructions in one step, as
`selectCall` does before it returns. `asm` is the `asm_code` of the entry
blocks, `acc` the `asm_code_allocated` of the block being allocated, `out` what
the emitter has written. `reserved` and `released` are histories of what each
prologue and epilogue did. The handlers of the allocator differ in which
registers an instruction has; that is data here (the fields that are not
`Unused`), so one operator serves them all and each class of instruction has an
action of its own.

The immediates an instruction can hold are constants (`ImmMin`, `ImmMax`; -2048
and 2047 in the code).

### Front end

| module | models | how |
|---|---|---|
| `SymbolTable` | `symbol_table.cpp` | a table is a record, its operations return the table after them |
| `LexicalScopes` | nothing in the code | the abstract promise: each name has bindings by depth, the deepest is what it means, a scope that closes takes its own away |
| `TypeChecker` | `type_checker.cpp` | a step is the check of one node after its operands, whose types wait on a stack (the recursion of `check`). Programs are chosen as they are read: whatever the grammar allows may be next. A failed `ASSERT` is the status "rejected" |
| `InitList` | `checkInitList`, `translateInitList`, and `translateVarDef` at depth 0 | an initialiser is a sequence of braces and kinds of elements, chosen while the checker reads it and then read again by the translator. The recursion is the stack `open`. An element's value is its position |
| `CFGBuilder` | `cfg_builder.cpp`, `Module::get_ir` | a step takes one node of the IR; the node is chosen as it is taken |

`ReturnStmt` shows how undefined order is modelled: which entry an
`unordered_map` iterates last depends on the library and on how large the map
has grown, so every entry may be the last.

### The whole compiler

| module | models | how |
|---|---|---|
| `IR` | `ir.hpp` | a constructor per class of node, with the names and the order of its fields in `Backend`'s records |
| `Tree` | `ast/tree.hpp` | a constructor per class of node |
| `SubArrays` | the search for the sub-array a nested list fills | shared by checker and translator, as the code repeats it |
| `Translator` | `ir_translator.cpp` | an operator per `translate...` function, from a tree and a translator (its counters and the code so far) to the translator after it |
| `DataSection` | `selectGlobal` and the printing of a global | directives |
| `Driver` | `main.cpp` | one action per pass or step of a pass: `Argument`, `TranslateRoot`, then `BuildNode` and `Build` (actions of `CFGBuilder`), `StartBackend`, `EmitGlobal` and `RunBackend` (actions of `Backend`); after that `RunIR` or `RunAssembly` executes what was printed |
| `IRMachine` | nothing in `src/` | what flat IR means: an activation per call with registers of its own, arrays at addresses nobody else has |
| `Machine` | nothing in `src/`, but for the Venus prelude | the instructions the compiler uses, on registers and memory; a call without Venus leaves `Junk` in every register a library may use |
| `Word` | nothing in `src/` | the arithmetic both machines share, and the input that `read` gives |
| `SourceMeaning` | nothing in `src/` | what a tree means: evaluation by the rules of C, with short circuits |
| `SourceRun` | nothing in `src/` | the abstract promise: the writes of the source in their order, then its result, and it ends |

`Driver` composes what the other modules model alone: `CFGBuilder` and `Backend`
are instances of the modules above with the variables of `Driver`, so their
actions are the ones those modules check. The translator is an operator and not
a state machine, since nothing can come between two of its calls; every state
that its recursion passes through is a prefix of the code it returns. It is
recursive, so it stays out of the modules that are proved about.

Translation and meaning come to `Driver` as constants (`Translation`, `Means`),
so that its state machine does not depend on which recursive definitions compute
them; `MCDriver` gives them `Translator` and `SourceMeaning`.

The `MC...` modules give TLC the values of the constants. Definitions whose
comment begins with *Mutant of* are plausible mistakes in the code they stand
beside; each property is shown to be violated when its mutant takes the place of
the definition it mutates.

## 3. What TLC checks

| run | module, configuration | properties | bounds |
|---|---|---|---|
| `frame_alloc` | `MCFrameAlloc`, `FrameAlloc.cfg` | `TypeOK`, `NoOverlap`, `OffsetsFixed`, `ImplementsRegions` | three registers, sizes -4, 0, 4, 8, twenty bytes on either side |
| `backend` | `MCBackend`, `Backend.cfg` | `TypeOK`, `FramesSeparate`, `AccessesOwned`, `OutputLegal`, `FramesBalanced`, `ControlKept`, `SlotsFixed`, `Terminates` | every `main` with two nodes out of eighteen between its parameter and its return, and a callee with an array; immediates -8 to 11 |
| `type_checker` | `MCTypeChecker`, `TypeChecker.cfg` | `TypeOK`, `LookupInnermost`, `LiveNamesDistinct`, `GlobalNamesAtZero`, `CallsMatchDefinitions`, `ImplementsScopes` | two identifiers, three definitions or blocks, depth 2, two pending operands |
| `cfg_builder` | `MCCFGBuilder`, `CFGBuilder.cfg` | `TypeOK`, `CodeKept`, `ExitsMatchReturns`, `ReturnsLand` | two functions, two globals, six nodes of IR |
| `init_list` | `MCInitList`, `InitList.cfg` | `TypeOK`, `ElementsKeepOrder`, `StoresInside`, `NothingUnset`, `TranslatedAsChecked` | six shapes of one to three dimensions, initialisers of up to eight tokens |
| `driver` | `MCDriver`, `Driver.cfg` | `TypeOK`, `PassesSound`, `IRResolves`, `LabelsResolve`, `JumpsLocal`, `WritesInBounds`, `RegistersRestored`, `CallersFrameKept`, `ImplementsSource` | 420 conditions to IR, twenty of them to assembly too; six programs with every set of options; immediates -64 to 63 |

Why these bounds show the interesting cases:

- A frame of twenty bytes holds any mix of slots and arrays up to five words:
  slots before, between and behind arrays, repeated requests, and rejections.
- With immediates of at most 11 a frame of three words already needs the
  expansions through `t4`, in the prologue, in accesses and in the epilogue. The
  pool has at least one node of every class, both branches of every handler that
  has two, an array without bytes and an operator without a mnemonic, so that
  every action and both ways to abort occur; the callee makes the emitter's
  members outlive a function.
- Two identifiers suffice for a name to shadow the other's function, parameter or
  variable at any depth, and for a name to be reused; depth 2 is a block in a
  body.
- The two functions may have globals before, between and behind them, and none,
  one or several returns with or without a value.
- The shapes have rows of one and more elements and sub-arrays of two
  dimensions, once of three rows (in 2 x 3 x 2 a list gets six elements at count
  zero or six and two at any other even count), and eight tokens suffice for lists nested twice, for lists that are
  empty, short, exact and too long, and for elements behind them.
- The conditions of `driver` are all disjunctions of at most two conjunctions of
  at most two atoms; an atom is a variable, a negation, a comparison or a call
  that writes, so that evaluating one operand too many or too few shows in what is
  written. Each is decided for all four values of its variables in turn.
- The six programs have what the conditions do not: recursion (`fib`), globals of
  every kind before, between and behind functions, assigned the results of calls that
  change them (`global`), arrays with
  initialisers, rows handed through two calls and a frame beyond the immediates
  (`local`), calls in arguments, operands and conditions, with input (`nested`),
  and two of the repository's examples (`appends/lab0/testfile2.sy` and
  `testfile5.sy`). With immediates of -64 to 63 frames are
  beyond the immediates, and so is the end of an array that `local` initialises.
- `MaxLength` (1000 nodes of IR) is larger than any of them and only bounds
  `CFGBuilder`.

### Findings

Runs with the expectation "violation" show where the code disagrees with what
its comments say. Each checks one property.

| run | property | what TLC shows |
|---|---|---|
| `backend_stack_args` | `StackArgsMeetParams` | `selectArg` stores the ninth argument in the slot of its own register; `selectParam` reads the callee's at `fp + 0` |
| `type_checker_returns` | `ReturnsMatch` | the scan for the enclosing function keeps the entry it reaches last, and goes on outwards when that is none |
| `type_checker_params` | `ParamsHaveSymbols` | a repeated parameter, or one named like its function, has a null symbol in an accepted program |
| `init_list_nested` | `NestedAsChecked` | a list nested twice in a local array is stored relative to the array, not to its sub-array |
| `init_list_exps` | `ExpressionsAsChecked` | `{1 + 2, 3}` stores 3 in element 0: other expressions than constants and variables are skipped and not counted |
| `driver_testfile4` | `ImplementsSource` | the example `testfile4.sy` says it outputs 9; its empty statements stop the translator, so nothing is printed |

Known to go wrong, modelled as the code has it, and kept out of the programs of
`driver` because no document or test of the repository says otherwise of them:

- a condition that is an arithmetic expression, or one behind a sign, loses its
  code in `translateCondBinaryExp` or `translateCondUnaryExp`;
- a comparison or a negation whose value is used becomes another instruction of
  the assembly, or none that can be printed (`convertToBinaryOp`);
- globals are recognised by the substring `_in_0` of their unique name, which a
  local may have too; a function may be named like a label of the translator's;
- a global array handed to a function loses its indexes; a global scalar whose
  initial value is no constant gets none; a nested list of a global array is
  padded to one row whatever it initialises;
- in a local array of three dimensions an expression that `translateInitList`
  skips makes its count fall behind, and a later list may get a larger sub-array
  than it was checked for, so that the element behind it is stored past the end
  of the array (`int a[2][3][2] = {{}, 1 + 2, 3 + 4, {}, 5}`: the second list is
  checked at count eight and translated at count six); `StoresInside` leaves such
  initialisers out;
- `main` without a `return` leaves its result to what `a0` holds;
- the comment at `symbol_table.cpp:7` promises globals their own names; they get one
  with `_in_0`.

### Fairness and deadlock

`Backend` assumes weak fairness of `Next`: the compiler is one thread that never
waits, so a step that can be taken is taken. `Terminates` needs no more. `Driver` assumes the
same of its `Next`, for the compiler and for the program it prints, which is one
thread too; the promise in `SourceRun` asks that every write and the end do
happen, so `ImplementsSource` covers that the compiler ends, and that the printed
program does. No other run checks liveness. Compilation ends, so `Backend` and
`Driver` have an explicit `Finished` step and check for deadlock. The other runs stop where the modelled
component is done, has rejected its input or has reached its bound, and say
`CHECK_DEADLOCK FALSE`.

## 4. What is proved

| theorem | module | property |
|---|---|---|
| `TypeCorrect`, `NothingOverlaps`, `OffsetsNeverMove` | `FrameAllocProofs` | `TypeOK`, `NoOverlap`, `OffsetsFixed` |
| `AllocatorImplementsRegions` | `FrameAllocProofs` | `ImplementsRegions` |
| `TypeCorrect`, `FramesStaySeparate`, `EveryAccessOwned`, `OutputAlwaysLegal`, `PrologueEpilogueBalanced`, `SlotsNeverMove`, `ControlStaysWhole` | `BackendProofs` | `TypeOK`, `FramesSeparate`, `AccessesOwned`, `OutputLegal`, `FramesBalanced`, `SlotsFixed`, `ControlKept` |
| `OutputLaidOut` | `BackendProofs` | `LaidOut`: the emitted code is one complete function behind the other, along every path |
| `TypeCorrect`, `LiveNamesStayDistinct`, `GlobalsNamedAtZero`, `CallsAlwaysMatch`, `LookupsInnermost` | `TypeCheckerProofs` | `TypeOK`, `LiveNamesDistinct`, `GlobalNamesAtZero`, `CallsMatchDefinitions`, `LookupInnermost` |
| `TableImplementsScopes` | `TypeCheckerProofs` | `ImplementsScopes` |
| `TypeCorrect`, `CodeStaysWhole`, `ExitsAlwaysMatch`, `EveryReturnLands` | `CFGBuilderProofs` | `TypeOK`, `CodeKept`, `ExitsMatchReturns`, `ReturnsLand` |
| `TypeCorrect`, `CountedInOrder`, `StoresStayInside`, `NothingStaysUnset`, `TranslatesAsChecked` | `InitListProofs` | `TypeOK`, `ElementsKeepOrder`, `StoresInside`, `NothingUnset`, `TranslatedAsChecked` |
| `TypeCorrect`, `PassesStaySound` | `DriverProofs` | `TypeOK`, `PassesSound` |
| `LabelsStayResolved` | `DriverProofs` | `LabelsResolve`, wherever `IRResolves` holds of the IR |
| `ReturnsRestore`, `CallersStayKept` | `DriverProofs` | `RegistersRestored`, `CallersFrameKept`, wherever `IRResolves`, `JumpsLocal` and `WritesInBounds` hold |

Those of the back end hold for every set of registers, every list of functions
with any code that starts at a `Function` node, and every range of immediates with
zero in it; those of the type checker for any identifiers, dimensions and
nesting; those of the CFG builder for IR of any length; those of initialisers for
arrays of any shape with elements and initialisers of any length; those of the
driver for any set of programs, any options and any translator that leaves what
`TranslationAssumption` says. The assumptions are the named ones of the modules:

- `FrameAllocAssumption`: sizes are numbers.
- `ImmAssumption`: zero is an immediate.
- `BackendAssumption`: IR registers are no physical registers, and CFGBuilder
  hands over at least one function, each starting at its `Function` node.
  `DriverProofs` proves that this is what CFGBuilder hands over (`StartModule`).
- `TypeCheckerAssumption`: the bounds are numbers, and a unique name tells which
  name at which depth it was made from (identifiers that end in `_in_` and a number
  of their own are left out).
- `CFGBuilderAssumption`: the nodes are of the classes they stand for, two
  functions do not share an exit label, and no label of the program or the
  translator is one (those have a dot).
- `DriverAssumption`: the options are the two there are, the stack, the data and
  the blocks of `IRMachine` lie one above the other at natural addresses, zero is an
  immediate, and `Junk`, the value of what is not set, is no number.
- `TranslationAssumption`: the nodes the translator returns are of the types of
  `ir.hpp`, one of them at least is a `Function` (`main`), and neither its labels
  nor the names of functions are labels of exit blocks, which have a dot. TLC
  evaluates it for the translations of all programs of the run `driver`. It names
  no order of the nodes, and says nothing of which labels are jumped to.
- `InitListAssumption`: every dimension is positive, elements are of the three
  kinds, and the bound on tokens is a number.

The argument, from the bottom:

1. `FrameProofs`: each allocation call keeps a frame a frame, keeps its regions
   apart, and only adds to it (`AllocTempSeparate`, `AllocDecSeparate`,
   `AllocRegSeparate`). Disjointness alone is not inductive: a new region starts
   at the counter, so every region must end at or below it. That is the third
   part of `FrameSeparate`, `WithinTemps`.
2. `FrameAllocProofs`: the inductive invariant `IInv` adds to that that the
   counter stays within its bound; the refinement has one lemma per call.
3. `BackendProofs`, first part: which instructions are *owned* by a frame (whatever
   they address from `sp` is theirs), that ownership survives growth of the frame
   (`OwnedGrows`), and what each handler appends: owned code from selection and
   allocation, physical code from allocation, legal code from emission.
4. `BackendProofs`, the machine: `IInv` has a part per concern. `TypeOK` and
   `FramesSeparate` are the frames. `CodeInv` says the code of every function is
   owned by its frame, and is physical from where the allocator has been:
   `OutputLegal` is not inductive without it, since the emitter only copies.
   `EntryInv` says that a function's code begins with its label and `Function` in
   all passes, and `EmitterInv` that behind that instruction the emitter's members
   are this function's: without them nothing tells that the epilogue restores from
   the offsets of its own prologue. There is one lemma per action, and `SlotsFixed`
   comes out of the same steps. `ControlKept` speaks of the end only; its
   invariant, `ControlInv`, says at every position of a pass that what has been
   made has the transfers of control of what has been worked through, one part per
   pass (`SelectInv`, `AllocateInv`, `EmitInv`). What selection makes of an exit
   block is never emitted: the epilogue makes it anew, so it is counted only there.

5. `SequenceFacts`: what the next three share. Instead of induction over data,
   which the provers cannot instantiate, an argument takes the least index at
   which a claim fails (`LeastOf`, from the well-foundedness of the naturals).
6. `TypeCheckerProofs`: `IInv` says that `scope_depth` counts the scopes and that
   every symbol's unique name was made from its own name and the depth of its
   scope (`IsTable`), from which distinct names follow; and that functions are
   bound in the outermost scope and in no other but with the same type
   (`FuncsOutside`). Without the second, a call checked against the innermost
   symbol could be checked against something else than the definition. It needs
   that a definition inside a function is impossible and that a name already
   visible is refused as a function. The refinement maps each operation of the
   table to one of `LexicalScopes`: a function's definition, which touches two
   scopes, to `OpenFunction`.
7. `CFGBuilderProofs`: `FlattenSeq` is shown to grow by what is appended
   (`FlattenAppend`), and what the properties look up in the whole IR, such as the
   owner of a node, to be unchanged by a longer IR (`OwnerAppend`, `ValueAppend`).
   `IInv` then says what is true of the function being collected, of which the
   properties say nothing (`Collects`): that it is the last function of the IR,
   its first node is its `Function`, and its returns are the IR's. With that a
   function is complete at the moment it is built (`CollectedIsBuilt`), and the IR
   of the module lands its returns because the blocks of each function do
   (`BlocksLand`) and two functions have no exit label in common (`LandsConcat`).
8. `InitListProofs`: the product of the dimensions is positive and at least that
   of any sub-array (`ProductBounds`), and the sub-array chosen for a list
   divides what is filled, so the lists the checker is in nest: each ends inside
   the one around it (`IsOpen`). `InOrder` and `EmptyBehind` say that what has been
   counted is in order and everything behind it is free, which gives
   `ElementsKeepOrder`. The translators come later and read the same tokens, so
   they cannot be compared with the checker's state, which is gone. The
   invariant says instead that a *walk* exists: the checker's lists after each
   token (`Walk`, `Complete`). `LocalInv` and `DataInv` relate a translator's
   lists and memory to that walk after the tokens it has read: in general that
   they have filled no more, without gaps for one or two dimensions; for
   constants and variables that both count the same. There is one lemma per
   kind of token and translator, and `TransStep` puts them together.
9. `DriverProofs`, composition: the passes are instances of the modules above on
   the variables of `Driver`, so their invariants are used as they are, once their
   actions are shown to be those of an instance with the sets `Driver` really
   gives it (`SameSelect` ... `SameBuilder`). `IInv` says which pass has run:
   CFGBuilder's own invariant and that it takes the IR node by node (`Building`);
   that the back end is still as it is made (`Waiting`) until it gets the module,
   and from then on is in a state of its own model on that module (`Compiling`).
   The step between them is `StartModule`: what CFGBuilder's invariant says of a
   finished module is what `BackendAssumption` asks of one.
10. `DriverProofs`, labels: the places of a label are counted, in a sequence of
   nodes or of instructions, and counts of concatenations add up. A function's
   nodes have the places of the IR it was cut from, and its code has those and its
   exit label, once (`FunctionPlaces`); over the module the exit labels are
   distinct and no other label is one (`ExitDefined`, `NoExitPlaces`), so a label
   of the IR has as many places in the output as in the IR (`PlacesAgree`). By
   `ControlKept` a jump, branch, call or address of the output is one of a node of
   the IR, or the jump of a return to its own exit (`OutFrom`, `NodeFrom`). For
   addresses the same is done with globals, which are emitted one by one between
   two passes: `DataInv` says how many there are by now, and that none is left when
   the last function has been emitted (`AddressesAgree`).

11. `BackendProofs`, layout: to follow `sp`, `fp` and `ra` through code, every place
   gets a shape (`Layout`): the function it belongs to, how far that function's
   prologue or epilogue has come, and whether `t4` holds a constant or `sp` plus
   one, halfway through an expansion. `LaidOut` says that the emitted code can be
   annotated so, from outside of all functions to outside again. It speaks of the
   end of emission; `LayoutInv` says what each pass has before: selected and
   allocated code that works in the body only (it defines no `sp`, `fp` or `ra`,
   and stores from `sp` in slots other than theirs), and an output that leads from
   the outside to the body of the current function. That a frame still grows while
   its code is there already is why the stores are related to slots and not to
   numbers.
12. `DriverProofs`, execution: the assembly runs in *activations*, one per call that
   has not returned, each with the function, the `sp` it was entered with, and what
   `ra` and `fp` were then. `Loaded` says what of the program does not change: the
   output is laid out, frames have their slots apart from their arrays (`Sound`),
   a jump lands in the body it is in and a call at an entry (`Lands`, from
   `IRResolves` and `JumpsLocal`, since the passes keep every node in its
   function), and the data section lies above the stack. `Live` says what of the
   state does: the registers are what the shape of the place says they are in the
   last activation (`Here`), every activation below keeps in its slots what it has
   to restore and the frames lie one below the other (`Stacked`), and the history
   `calls` is that of the activations (`Recorded`). Neither property is inductive
   without the others: that a function returns right rests on its saved `ra`, which
   rests on all stores of all functions it called. `RunInv` says that a `Live`
   stack exists while the program runs. There is one lemma per kind of
   instruction (`RegisterStep`, `StoreStep`, `JumpStep`, `CallStep`, `ReturnStep`
   and others). A store in the prologue or to a slot stays out of the frames above
   by the layout; one through a computed address by `WritesInBounds`, whose arrays
   have no word in common with a slot (`BoundsSpare`).

Only model-checked, and why:

- liveness (`Terminates`, and that writes and the end do happen in
  `ImplementsSource`), which is out of the prover's reach;
- `IRResolves`, `JumpsLocal` and `WritesInBounds`: they are about what the
  translator returns, and the last also about the indexes the source program
  computes. The translator is recursive in the tree, and what a recursive definition
  computes for every tree cannot be proved here. The theorems that need them have
  them as hypotheses; TLC checks them of every program of `driver`, in the same run
  as the conclusions, so the hypotheses are met there;
- the safety part of `ImplementsSource`: it compares what was printed with what the
  source means, for which the same holds. What it rests on in the passes behind the
  translator is proved: accesses in their slots, prologue and epilogue in balance,
  labels in place, registers and frames kept across calls.

## 5. What is not modelled

- **Lexer and parser**: code that flex and bison generate from a list of
  patterns and a grammar, whose actions only build the tree. `Driver` begins with
  trees the checker accepts.
- **Printing** of tree, IR and assembly: text. What a printed instruction does is
  modelled, its layout is not, but for the operator that cannot be printed.
- **Names of files and opening them** in the driver: I/O around the passes.
- **Widths.** Values are integers, not words of 32 bits, in the machines as in
  the meaning of the source: both would have to wrap alike, which is a property of
  the processor and not of the compiler. Sizes and offsets stay far below 2^31.
- **The checker in `Driver`.** The trees of `MCDriver` have the unique names and
  the flags the checker leaves on them; what it accepts is `TypeChecker`'s and
  `InitList`'s matter.
- **More than eight arguments** in `Driver`: a finding of its own.
- `CFGBuilder::new_label`, the successors of blocks and `reg_map` are not used by
  the code; `alloc_reg` is not called either, and only `FrameAlloc` has it;
  `translateFuncFParam` is declared and not defined.
- Arrays without elements in `InitList`: a nested list in one divides by zero.

## 6. Plan

The order was by importance: the back end first, since its errors only show when
the compiled program runs, then what it relies on, then the whole.

1. Done: `Frame`, `FrameAlloc` with `StackRegions`; `Backend` over `InstSelector`,
   `RegAllocator` and `AsmEmitter`; `SymbolTable`, `TypeChecker` with
   `LexicalScopes`; `CFGBuilder`; `InitList`; proofs of the frame, the back end,
   the type checker, the CFG builder and initialisers.
2. Done: `Translator`, `DataSection` and `Driver`, with the printed program
   executed and compared with its source.
3. Done: transfers of control through the back end (`ControlKept`), and the driver:
   the passes composed, and labels from the IR to the assembly.
4. Done: what the printed assembly does to its stack (`OutputLaidOut`,
   `ReturnsRestore`, `CallersStayKept`), from the layout of the code and the
   activations of its execution.
5. Next: `Driver` over the trees that `TypeChecker` builds itself, once a front end
   step can hand them over; and the values of the other registers, as an invariant
   between `IRMachine` and `Machine` on the IR and the assembly of one program.

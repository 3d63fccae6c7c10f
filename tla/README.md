# cloxBooster: a verification project

cloxBooster (`src/`) is an interpreter for an extended Lox: a one-pass compiler that emits bytecode and optimises it as it goes, and a virtual machine with a value stack, call frames, closures, classes, hash tables whose readers cache positions, and a mark-and-sweep collector that an allocation may start. It is single-threaded. What makes it hard to test is not concurrency but *order*: what an instruction still holds in C locals when an allocation collects, which variable a slot number means after a call, a jump or a block end, which cached position is still right after a table has moved, which instructions may be merged when a jump leads past one of them.

This directory holds TLA+ modules of those mechanisms, TLC configurations that check them on small instances, and TLAPS proofs about the heap, the hash tables, the globals and their cache, the pools of constants, the calls, the upvalues, the scopes, the arenas, the line table and the parser. Every definition is translated from the C source; `PROJECT.json` names the lines each one stands for.

Running things: `tlc -config HeapClosures.cfg MCHeap.tla` (every run and its module are listed below), `tlapm HeapProofs.tla` (the proof modules are listed in section 4; `StoresTheorems` takes about a quarter of an hour, since every one of its obligations has the instances of `MCStores` around it, `TableTheorems` and `ScopesProofs` several minutes, and some print that Zenon cannot read a lambda of the library, in leaves that SMT proves). `stack` and `stores` take about two minutes, the three heap runs up to three, with two workers; the rest less.

## 1. Inventory

| Component | Where (`src/src/` unless noted) | State it keeps | Operations | Correct when |
|---|---|---|---|---|
| Object heap and collector | `gc.c`, `object.c`, `memory.c`, allocating instructions of `vm.c` | `vm.objects`, `isMarked`, `vm.gcMark`, `vm.gcWorking`, gray stack | allocate and link, mark roots, blacken, sweep and flip the meaning of the mark | nothing in use is freed, garbage is; unchecked casts find the right type; a collection ends |
| Hash table | `table.c` | `entries`, `count` (tombstones included), `capacity` | find, get, set (may grow), delete (tombstone), add all | it is a dictionary; searches end; tombstones are reused |
| Globals and their cache | `vm.c`, `table.c`, `ObjString.symbol` | `vm.globals`, an index per name | define, get, set | no stale index is used; an assignment to an undefined variable leaves it undefined |
| Calls and value stack | `vm.c`, `vm.h` | `stack`, `stackTop`, `frames`, `frameCount` | push, pop, local access, call, native call, return, runtime error | a slot number means the same variable to compiler and machine; an error ends the execution |
| Upvalues | `captureUpvalue`, `closeUpvalues` | `openUpvalues`, `location`, `closed`, `next` | capture, read, write, close | a local and the closures that captured it are one variable, for ever |
| Scopes and jumps | statements in `compiler.c` | `locals`, `scopeDepth`, loop context, pending jumps | blocks, conditionals, loops, break, continue, return, local functions | stack height at run time is what the compiler counted; captured locals are closed, never just popped; jumps land on instructions |
| Peephole optimiser | `instructionOptimize`, `emitBranchJump` in `compiler.c`, `chunk.c` | the chunk, `opStack` of the names of the last instructions | fold, merge an operand, merge a store, fuse a comparison with its jump | the optimised program does what the plain one does, errors included |
| Parser | `compiler.c` | two tokens, `panicMode`, `hadError`, `parseDepth`, the chains of `Compiler` and `ClassCompiler` | every statement, declaration and expression, recovery | every early return undoes the levels it raised; one report per place; recovery makes progress and ends |
| Constant and interning pools | `numberTable.c`, `stringTable.c`, `hash.c` | hash sets, an index per entry | intern, add constant | equal strings are one object, however they were made; a cached index is where that value is in `vm.constants` |
| Line information | `lineArray.c` | ranges of bytes per line | write, roll back, look up | a byte's line is the line it was written for |
| Scanner | `scanner.c` | position in the text | next token | accepts the lexical grammar |
| Slab arena | `third-party/memAllocator/arena_slab.c` | per class a chain of arenas with room and parked empty ones, a pool of dropped ones, free lists, a bump position | claim, release, park, revive, carve, trim | slots in use never overlap; no arena is lost or in two lists; memory is refused only when there is none |
| Bump arena | `arena_bump.c`, `palloc_os.c` | reserved and committed ranges | reserve, commit | what is written is committed; the stack is full only at its last slot |
| Memory bookkeeping, values, chunks, REPL, disassembler | `memory.c`, `value.c`, `chunk.c`, `entrance.c`, `debug.c` | counters; arrays; none | | |

How they interact. The compiler writes a chunk (through `chunk.c` and `lineArray.c`) and interns strings and numbers as it goes; `interpret` wraps the compiled function in a closure and pushes it. The machine's instructions read the chunk and work on the shared `VM` state: calls move windows over the value stack, closures capture slots of it, instances, classes and globals are hash tables. Whatever allocates (an object, a table that grows) goes through `memory.c`, which may run the collector *at that point*; the collector reads the stack, the frames, the open upvalues and the tables as its roots. A runtime error resets stack, frames and open upvalues from wherever it is raised, and the REPL goes on with the next line on the same heap and the same globals.

The hard behaviours, at their lines, are the `hazards` of `PROJECT.json`: 40 of them, 38 with properties that would catch them; the notes of the other two say why there is none.

## 2. Modules

| Module | Models | Composes / abstracts |
|---|---|---|
| `Heap` | every instruction that creates, links or drops a collected object, split at its allocations, and the collector | |
| `HeapInvariant` | the inductive invariant of `Heap` | extends `Heap` |
| `HeapProofs` | its proof and what follows from it | extends `HeapInvariant`, `TLAPS` |
| `MCHeap` | instances: which instructions a program uses | extends `HeapInvariant` |
| `Table` | `table.c` as operators on a table | |
| `Dictionary` | what instances and classes promise | abstract |
| `Fields` | tables of fields and methods as the instructions use them | extends `Table`, implements `Dictionary` |
| `Variables` | what global variables promise | abstract |
| `Globals` | the globals table behind the cached index of each name | extends `Table`, implements `Variables` |
| `ConstantTable` | what the compiler relies on when it asks for a constant | abstract |
| `Pools` | `numberTable.c`, `stringTable.c`, joined strings and their hash | implements `ConstantTable` |
| `Allocator` | what a program expects of memory | abstract |
| `SlabArena` | `arena_slab.c` for the classes of small slots | implements `Allocator` |
| `BumpArena` | committed pages of the stack and of the strings, with `stack_push` | |
| `LineArray` | `lineArray.c` and `chunk_fallback` | |
| `TableTheorems` | proofs about `Table`, `Fields` and `Globals` | extends `Fields`, `Globals` |
| `SlabProofs` | proofs about `SlabArena` | extends `SlabArena` |
| `MCStores` | instances of `Fields`, `Globals`, `Pools`, `SlabArena`, `BumpArena` and `LineArray` | extends `Pools` |
| `StoresTheorems` | proofs about `Pools`, `BumpArena` and `LineArray`, and the theorems of the other modules for `MCStores` | extends `MCStores` |
| `Activations` | what calls promise: every activation has variables of its own | abstract |
| `CallStack` | windows on one value stack | implements `Activations` |
| `SharedVariables` | what captured variables promise | abstract |
| `Upvalues` | the linked list of open upvalues | implements `SharedVariables` |
| `UpvaluesProofs` | proofs about `Upvalues` | extends `Upvalues` |
| `MCStack` | instances of `CallStack` and `Upvalues` | extends `CallStack` |
| `StackTheorems` | proofs about `CallStack`, and the theorems of `UpvaluesProofs` for `MCStack` | extends `MCStack` |
| `Scopes` | statements to jumps, pops and closes, and their execution | |
| `ScopesProofs` | proofs about `Scopes` | extends `Scopes` |
| `MCScopes` | families of functions | extends `Scopes` |
| `Peephole` | the optimiser, the plain compiler beside it, and an interpreter of both | |
| `MCPeephole` | families of programs | |
| `Parser` | the recursive descent and its recovery | |
| `ParserProofs` | proofs about `Parser` | extends `Parser` |
| `MCParser` | families of texts | extends `Parser` |

`MCStack` and `MCStores` put modules that share no variable into one run: `part`, chosen at the start, is the machine that moves in a behaviour, and the others rest in their initial state. `S == INSTANCE SlabProofs WITH ...` gives each its constants. `Pools` and `CallStack` are not instances: the modules extend them. `BumpArena` and `LineArray` are instances whose constants are those of `MCStores`, so that their theorems are in `StoresTheorems`, for every value of them. What has proofs is instantiated from its proof module (`F` and `G` are two instances of `TableTheorems`, `F` for the properties, `G` for the globals), so that `StoresTheorems` and `StackTheorems` can cite its theorems for the instance; the assumptions those rest on are assumptions of `MCStores` and `MCStack`, which TLC evaluates.

### Heap
A value is an object slot or `Nil`, which stands for everything the collector skips. `ref[o][f]` is the pointer or table entry `f` of `o`; `kind` its type tag; a slot outside `objects` is free and may be handed out again at once, which is when a dangling pointer becomes a wrong object. `allocateObject_slab` claims a slot, then lets `slab_allocObject` collect, then links: so an instruction that allocates is a `Start...` action that saves the C locals in `op`, some collector steps while `op.checks > 0`, and a `Finish...` action that goes on with those locals. `NoCollection` and `MarkRoots` are the two outcomes of the threshold test, left open: *any* allocation may collect. `OP_CLOSURE` allocates an upvalue per capture and is a loop of `StartCapture`, `CaptureOpen`, `CaptureEnclosing` and `FinishCapture`; `OP_INHERIT` copies method by method, since each copy may grow the table and collect.

The guards on operands (`Operands(n)`) stand for what the compiler guarantees: an instruction consumes temporaries above the frame's locals, and temporaries are never captured. `Scopes` is the model of that guarantee.

A field that holds `Nil` holds a plain value or is not there: a read of it, or a call through it, may go either way, and assigning `Nil` covers the assignment of a plain value and the deletion that assigning nil is. `Arguments` pads a call with any number of missing arguments.

### Table, Fields, Globals
`Table` keeps `entries`, `count` and `capacity` as the code does: linear probing from `hash & mask`, tombstones `(NULL, true)`, growth at three quarters of slots *ever used*, rehash in array order. `Fields` is the machine of `OP_GET_PROPERTY`, `OP_SET_PROPERTY` (nil deletes), `OP_NEW_PROPERTY`, `OP_METHOD` and `OP_INHERIT`. `Globals` adds `key->symbol`, written by every search, a growth's own searches included, and read by `OP_GET_GLOBAL` and `OP_SET_GLOBAL` before they search.

That a value is *some* value of the table is not what an instruction is asked for. So the abstract state of `Variables`, `Dictionary` and `ConstantTable` is the contents together with the last request and its answer: the kind of instruction, the name (and the owner, or the constant) it was about, and the value or index it got, or the error. The concrete modules record the same where the instruction ends: `read` in `Globals`, `answer` in `Fields` and `Pools`. A read through a slot that now holds another name, an assignment that creates a variable without an error, or an index where another constant is, is then no step of the abstract specification, although each would be a correct answer to some other request.

### Pools, SlabArena, BumpArena, LineArray
`Pools` keeps both pools as the code does (probing, growth at three quarters, no deletion) with the index into `vm.constants` that each entry caches. `answer` is the constant the compiler asked for, by its content, and the index it was given. A string is made from the text of a program (`copyString`) or joined by `+` (`connectString`), which hashes the two pieces as a stream before it builds the result: `StreamUpdate` keeps the bytes of an unfinished block between the pieces. The mixing itself is simpler than murmur's, since the property asks only that both ways agree; a number's hash is a constant, so that numbers collide.

`SlabArena` numbers the arenas in the order they are carved; the chains through their headers are sequences of these numbers, and an arena's free list is the sequence of its free slots above which `freeSlotCount` implies the bump position. Parked arenas of another class are re-initialised, dropped ones have no pages, and the operating system may refuse to commit. `ImplementsAllocator` maps a slot to its addresses, so slots of two classes that overlap in one arena would be seen.

`BumpArena` is what the stack and the strings use of `arena_bump.c`: `PushInside`, `PushCommit` and `PushLast` are the three ways through `stack_push`. Refusals of the system are a choice.

`LineArray` writes bytes with lines that never decrease and takes the last ones back. The first byte written after a rollback may get the line of a byte that was taken back there, because the range is cut to end *at* the target and not before it; `removed` is the history with which `LinesAreRight` allows exactly that. An instruction that replaces another one is reported, at worst, on the line of the one it replaces.

### CallStack
A frame is `[base, depth]`: where its window begins and how many slot numbers the compiler has given out in it. `frame` is the C local of `run()`, which differs from `frameCount` when `stack_push` resets the machine under an instruction that goes on. `EnterFrame` is `call`: missing arguments are pushed (each push may overflow), extra ones become nil and stay.

### Upvalues
The list is modelled as it is built, with `next`, `location` and the search of `captureUpvalue`; a slot is reused as soon as the stack is cut. `scope` and `held` are history variables: which variable of the program a slot or a closure stands for. They are what the refinement maps to `SharedVariables`.

### Scopes
`family` is the set of statements, conditions and bounds of the function. The first phase (`pc = 0`) is the compiler: each statement is an action that emits its instructions and patches jumps the way `compiler.c` does; instructions are numbered, not their bytes. The second phase is the machine, with conditions turning out either way. `VALUE` is any instruction that pushes, so a `var` is a `VALUE`; a local function captures one local of the enclosing function (`CLOSURE`).

### Peephole
`em` is what the optimising compiler emits for a program, `plain` what the same compiler would emit with `instructionOptimize` and `emitBranchJump`'s fusion switched off. Both are byte-addressed (an instruction occupies its first byte, the others are `none`), because rollback distances are in bytes. `SameMeaning` runs both with `Run`, the interpreter loop, for all values of locals and the global and compares stack, property, output and errors. `crossed` records that an instruction was merged which ends at the target of a jump.

Six families: known operands, operands of any type, stores whose value is dropped, subscripts (`mergeSubscript`, which takes back the load of a constant subscript, before the value that is assigned is compiled), conditions, and `and` with `or`, subscripts among their operands.

### Parser
`compiler.c` parses by recursive descent, so its state is the C stack. `todo` is that stack, innermost first: what the functions that are running have still to do, a thing being `consume` with its token, `precedence` with its level or the name of a continuation. A step does the first thing of it. Tokens are chosen when they are scanned, so one behaviour is the parsing of one text, correct or not, that may end anywhere; `family` fixes which tokens there are and how many. `compilers` and `classes` are the chains through `current` and `currentClass`, reduced to scope depth, loop, and whether there is a superclass. An action is one function of the source up to its next call, with its early returns: after an error in an object, a parameter list or a class body it leaves the way the code does. What needs names, types or values is a choice (`MayFail`), made where the code finds the error: a name that is taken, a variable read in its own initializer (before the value that is assigned to it), an assignment to a constant or to a numbered element (behind the value), constant operands that an operator does not take (`Check`). `brackets` and `fresh` are history variables for the properties.

## 3. Runs

| Run | Properties | Bounds and why they are enough |
|---|---|---|
| `heap_closures` | `NoDangling`, `OpenUpvalues`, `CollectsExactly` | 6 objects: closures, an upvalue, a superclass, its method and one slot to reuse, enough for every instruction on closures and for `super.m()` from a method; 3 frames. Symmetric in the objects. 411,383 states |
| `heap_classes` | `NoDangling`, `InitializerCache`, `UncheckedCasts` | 5 objects: script, superclass, subclass, method and instance or bound method; two names, so that `init` may be copied first or last; no upvalues. Symmetric. 585,659 states |
| `heap_tables` | `TypeOK`, `NoDangling`, `OpenUpvalues`, `UncheckedCasts`, `IInv`, `CollectionEnds` (liveness) | 3 objects make every shape of cycle (a closure captured by its own upvalue among them); every store may grow its table; fields are called for what they hold, and errors close what was captured. No symmetry, as it checks liveness. 83,247 states |
| `stores` | `TablesOK`, `TombstonesAreReused`, `ImplementsDictionary` | two programs: five names on one owner, with colliding hashes, arrays of 2, 4 and 8, growth with and without tombstones, wrap-around; two classes with two names, whose copy grows its target halfway |
| | `GlobalsOK`, `ImplementsVariables` | 4 names, array of 4 growing under cached positions, so that a cached slot comes to hold another name, a tombstone or nothing |
| | `StringsAreInterned`, `ImplementsConstantTable` | 3 numbers of two hashes, strings of up to 4 bytes joined in every way with blocks of 2 bytes, so that pieces meet inside a block and at its end; pools of 2 that grow; more constants than an index can name |
| | `EveryArenaHasItsPlace`, `RefusedOnlyWhenFull`, `ImplementsAllocator` | 3 arenas of two classes, with two slots each at different places of an arena, one spare kept and one dropped arena resident: an arena is full, half full, parked, dropped, revived for the other class |
| | `WritesAreCommitted`, `OverflowIsReal` | pages of 2, chunks of 4, reservations of 10, not a multiple of the chunk |
| | `LinesAreRight` | 6 bytes on 3 lines, up to 4 taken back at once. 146,833 states for the six parts of `stores` |
| `stack` | `FramesOK`, `ErrorsEnd`, `ImplementsActivations` | 3 frames of at most 4 slots, 13 slots: the limit on frames is reached, the one on slots is not |
| | `OpenSorted`, `ImplementsSharing` | 3 slots and 3 closures, captured in any order: insertion at the front, in the middle, at the end, and reuse. 346,799 states with the calls |
| `call_stack_extra` | `SlotsAgree` **violated** | as above, with arity 0 |
| `call_stack_full` | `ErrorsEnd` **violated** | 10 slots: the stack overflows first |
| `peephole` | `MergesAreRight` | programs of up to 9 to 11 bytes of six families, each with the constructs of one group: long enough for two merges in a row (a fold of a fold, a fused condition of a folded operand). 411,737 states |
| `peephole_across` | `SameMeaning` **violated** | `and`, `!` and locals suffice; a family with a subscript instead of `!` violates it as well |
| `scopes` | `CapturedClosed`, `HeightsAgree`, `Returns` (liveness) | three families of functions: captures around jumps out of a `for` (6 instructions, 3 locals), every statement with known and tested conditions (3 instructions before the last construct's own), three loops in one another |
| `parser` | `LevelsRestored`, `AcceptedIsBracketed`, `ReportsOnce`, `EndsUnlessTooDeep` (liveness) | ten families of 5 to 9 tokens, every text of up to 5 to 8 of them: each construct complete once, and cut off or wrong at each place; nesting limits of 4, 1 and 2 instead of 512, 12 and 8, so that they are reached. 765,270 states |
| `parser_deep` | `ParsingEnds` **violated** | the family of blocks |

In `peephole`, `scopes`, `parser` and the tables of `stores` the initial state chooses a family (`program`, `family`) from a constant, so that one run covers several small, dense sets of programs instead of one large and thin one. `MergesAreRight` is `SameMeaning` for every program in which nothing was merged across the target of a jump of an `and` or an `or`; in the families without them it is `SameMeaning`.

Every property has a mutant in `PROJECT.json`: a plausible bug in one definition (a root forgotten, the mark not flipped, a value popped before it is stored, a tombstone made a hole, a local popped where it should be closed, operands swapped, a free list kept for another class, a level not lowered on an early return) for which the same run finds the property violated.

`CHECK_DEADLOCK FALSE` is set where the modelled program may stop: when the bounded heap has no slot left for an instruction, when a function has returned, when a program or a text has reached its end, when strings are used up and the process exits. The calls and upvalues never stop and are checked for deadlock.

Fairness. `Heap!FairSpec` has weak fairness on the collector: `garbageCollect` is a C function on the only thread, so once it is entered its loops are all that runs. `Scopes!FairSpec` has weak fairness on `Execute`, the interpreter loop, for the same reason, and `MaxTurns` bounds how often a condition turns out true: `Returns` says that *the jumps* create no loop of their own. `Parser!FairSpec` is weak fairness on `Next`: `compile` is a C function on the only thread too, and the text is finite because every family bounds it.

### What the violations show
1. **Extra arguments** (`call_stack_extra`, `vm.c:312`). A call with more arguments than parameters sets the extra ones to nil but leaves them on the stack, where the first locals' numbers begin: `fun f(a) { var b = 5; print b; } f(1, 2);` prints nil.
2. **Overflow goes on** (`call_stack_full`, `vm.c:100`). `stack_push` reports an overflow, resets the machine and returns into an instruction that carries on; the error does not end the execution.
3. **Merging across a jump target** (`peephole_across`, `compiler.c:731`). `and` and `or` patch a jump to the end of their right operand but leave that operand's last instruction on the operator stack: the next operator is merged into an instruction the short circuit jumps over. `!(a and b)` with locals prints nil for a falsy `a`; `s[a or 1]` skips the subscript for a truthy `a` and leaves `s` on the stack below it. `peephole` shows that this is the only way the modelled merges go wrong.
4. **Nesting without end** (`parser_deep`, `compiler.c:1184`). At `MAX_PARSE_DEPTH` `statement` returns without consuming a token. If that token is one at which `synchronize` stops (`var`, `print`, `return`, ...), the enclosing `block` asks for the same declaration again, and `compile` never returns. `parser` shows that no text below the limit keeps the parser busy.

## 4. Proofs

Every theorem is of the specification that the runs check, for every value of its constants that satisfies the named assumptions; TLC evaluates the assumptions in the runs. Each module has one inductive invariant, and the properties follow from it.

| Module | Theorem | States | Assumes |
|---|---|---|---|
| `HeapProofs` | `Invariant` | `Spec => []IInv` | `ConstantsAssumption` |
| | `TypeCorrect`, `NothingDangles`, `CastsAreRight`, `UpvaluesAreDistinct` | `[]TypeOK`, `[]NoDangling`, `[]UncheckedCasts`, `[]OpenUpvalues` | |
| | `CollectionIsExact` | `CollectsExactly`: a sweep leaves what is reachable, no more and no less | |
| | `CachesAreRight` | `[]InitializerCache` | |
| `TableTheorems` | `TablesInvariant` | `Spec => []TablesInv`: every table is `Sound` | `FieldsAssumption` |
| | `TablesStayOK`, `TombstonesStayFew` | `[]TablesOK`, `[]TombstonesAreReused` | |
| | `FieldsAreDictionaries` | `ImplementsDictionary` | |
| | `GlobalsInvariant` | `GlobalsSpec => []GlobalsInv` | `GlobalsAssumption` |
| | `GlobalsStayOK`, `GlobalsAreVariables` | `[]GlobalsOK`, `ImplementsVariables` | |
| `StackTheorems` | `WindowsInvariant` | `Spec => []IInv` | `CallStackAssumption`, `NeverFull`, `NoExtraArguments` |
| | `WindowsAreAdjacent`, `ErrorsEndExecutions` | `[]FramesOK`, `[]ErrorsEnd` | |
| | `WindowsImplementActivations` | `ImplementsActivations` | |
| `UpvaluesProofs` | `ListInvariant` | `Spec => []IInv` | `UpvaluesAssumption` |
| | `OpenUpvaluesAreSorted`, `UpvaluesShareVariables` | `[]OpenSorted`, `ImplementsSharing` | |
| `SlabProofs` | `SlabInvariant` | `Spec => []IInv` | `SlabAssumption` |
| | `ArenasHavePlaces`, `MemoryIsRefusedWhenFull` | `[]EveryArenaHasItsPlace`, `[]RefusedOnlyWhenFull` | |
| | `SlabImplementsAllocator` | `ImplementsAllocator` | |
| `ScopesProofs` | `ScopesInvariant` | `Spec => []ScopesInv` | `ScopesAssumption` |
| | `HeightsAgreeAlways`, `CapturedClosedAlways` | `[]HeightsAgree`, `[]CapturedClosed` | |
| | `StaysInFunction` | `[]InFunction`: execution never leaves the code but by a return | |
| `ParserProofs` | `ParserInvariant` | `Spec => []ParserInv` | nothing |
| | `LevelsAreRestored`, `TextsAreBracketed` | `[]LevelsRestored`, `[]AcceptedIsBracketed` | |
| | `ErrorsAreReportedOnce` | `ReportsOnce` | |
| `StoresTheorems` | `PoolsInvariant` | `Spec => []PoolsAgree`, of `Pools` | `PoolsAssumption` |
| | `StreamHashIs` | `StreamHash(a, b) = OneShotHash(a \o b)` | |
| | `StringsStayInterned`, `TableImplemented` | `[]StringsAreInterned`, `ImplementsConstantTable` | |
| | `BumpInvariant` | `B!Spec => []BumpInv` | `B!BumpAssumption` |
| | `WritesAreInPages`, `OverflowsAreFull` | `[]B!WritesAreCommitted`, `B!OverflowIsReal` | |
| | `LineInvariant`, `BytesHaveTheirLines` | `L!Spec => []LineInv`, `L!Spec => []L!LinesAreRight` | `LineAssumption` |

The runs `stack` and `stores` check the properties on the modules composed by `MCStack` and `MCStores`. That a behaviour of the composition is one of each part, so that the properties hold there too, is proved as well: `StackOpenSorted` and `StackShares` in `StackTheorems`; `TablesAreTables`, `TombstonesAreFew`, `PropertiesAreDictionaries`, `GlobalsAreATable`, `CachesHideNothing`, `ArenasKeepTheirPlaces`, `RefusalsAreDue`, `SlotsAreMemory`, `WritesStayCommitted`, `OverflowsAreReal`, `StringsAreOne`, `PoolsAreATable` and `LinesAreFound` in `StoresTheorems`.

### The heap
For any set of objects, names, upvalue indices and globals, any limits on stack and frames and any choice of which allocations collect. Assumed: the names of the different kinds of fields are distinct, `Nil` is no object, the limits are positive.

Why `NoDangling` is not inductive, and what is added. That no root dangles after a sweep depends on the marks before it, so `Marks` states the tricolour invariant: the roots are marked, the gray objects are marked, what a black object refers to is marked; outside a collection nothing carries the current mark, which is what the flip preserves. That a C local survives depends on where else its object is reachable from, so `HeldRooted` says it is a root or, for the method found by `bindMethod`, at most three references from one (receiver, class, method; or closure, upvalue, superclass, method). To know that those references are of the right kind needs `UncheckedCasts`; to know that marking follows all of them needs `Shape` (an object uses only the pointers that `blackenObject` traces for its type). That the instruction's second half finds its operands needs `Pending`. The lemmas follow the actions: one `...Preserves` lemma per action, on lemmas shared by the ways actions move values (`PushesValue`, `PopsValues`, `CallEnds`, `StoresRef`, `ClosesUpvalues`, `LinksObject`).

`CollectionIsExact` adds the other half, that garbage is freed. While a collection runs, whatever is marked is reachable (`MarksReached`): the stack of the program does not move, so the roots do not, and a mark spreads along references only. The tricolour invariant gives the converse once the gray stack is empty: the marked objects are then a set that has the roots and is closed under references, and the reachable ones are the least such set. `CachesAreRight` needs to know what `OP_INHERIT` has copied so far (`CacheInv`): until it ends the subclass has no initializer, and its `init` is still to be copied or is the superclass's.

### Tables, properties and globals
For any finite set of keys (any set, for the globals), any hash codes, any initial capacity of two or more, and all sequences of operations. A value is never `Absent` and never `Undefined`, the answers for a key that is not there.

`TablesOK` is inductive but for the counter, and `TombstonesAreReused` is not: that a table never uses more slots than there are keys is not visible in the table, which forgets whose tombstone is whose. The invariant `Sound` says of the array of a table (`SoundArray`) that
- at most three quarters of it are in use, tombstones included, so that there is a hole and every search ends (`SearchEnds`; `ProbesReach` and `ProbesMeet` say of `(hash + i) & mask` that it visits every slot once);
- every key is `WellPlaced`: a search for it ends at its slot;
- the array `Recalls`: some assignment of *different* keys to the slots in use, tombstones too, has each key where it is and would have each search walk that far. `StoreRecalls` is the step that matters: a key that is stored in the first tombstone on its way takes over that slot, and if it was the key that another tombstone recalled, it gives that one the key whose slot it takes.

`Recalls` quantifies over functions, so it is proved and not checked by TLC, which checks what follows from it (`IsTable`, `TombstonesAreReused`). `RehashMoves` and `RehashCopies` say what the loops of `adjustCapacity` and `tableAddAll` leave, by induction on the number of entries they have visited.

The refinements go through `TableSetIs`, `TableDeleteIs`, `LookupIs` and `AddAllIs`: each operation in terms of the pairs `Maps(table, key, value)`. `GlobalsInv` adds that every cached index is `Invalid` or in the array. That suffices: the cached entry is used when it holds the name, and since a key is in one slot only, that is where a search would have ended. The step to prove is that growth keeps the indices in the array and that a cached entry that was moved no longer holds its name.

### Pools of constants
For any numbers with any hash codes, any literals, any bounds, blocks of the hash of two bytes or more and pools of two slots or more. The mixing of the hash is that of `Pools`; what is proved of it does not depend on more than that a block is mixed into what came before it.

`StringsAreInterned` is not inductive, and three things make it so (`PoolsAgree`):
- `Interned`: the hash in a string is `OneShotHash` of its content. For a joined string this is the theorem `StreamHashIs`. `AsAtOnce` is its invariant over the bytes: after `i` bytes the stream holds the hash of all full blocks among them and the bytes of the one begun, in whichever piece the block began (`ByteKeeps`, `PieceKeeps`).
- `Filed`: every string is in the pool, and in `SoundPool` every entry is at a slot which a search from its hash reaches over occupied slots (`Reaches`), no key is there twice, `count` is the number of entries and a slot is free. So a search for a string that exists finds it (`FindsKey`, `FoundIs`), and one for a string that does not exist ends (`FindsHole`). Growth is a fold over the old array; `ArrayIsCopied` says that its result has the same entries, each where a search reaches it, by the invariant `Copied` of that fold.
- `Tied`, for each pool: an index that an entry caches is where its value is in `vm.constants`, and of a value that is there the entry has cached an index, so that it is not added again. The values of numbers, strings and functions differ (`ConstantsDiffer`), so what one pool adds does not disturb the other.

Two strings of one content have one hash, hence the search before the second is made would have found the first. For `ImplementsConstantTable` a string in `vm.constants` is mapped to its content. `SharedIs` and `OfDiffers` carry `Tied` over to this image, and that needs interning: two objects of one content would be two indices of one constant.

`Tied` quantifies over all numbers and all strings, so no run checks `PoolsAgree`; `stores` checks what follows from it.

### Calls
For any data, arities and limits, and with two hypotheses that the first two findings show to be needed: `NeverFull` (the stack has room for `FramesMax` full activations) and `NoExtraArguments`.

`FramesOK` is not inductive: that `call` has room to push missing arguments depends on how far up the window begins. `Windows` adds that the `k`-th window begins at most `k - 1` full activations up (`Limit`), that each is as deep as `MaxDepth` at most, and that each ends where the next one begins. The refinement maps a frame to the sequence of the values in its window. `StepOnTop` is its core: a step that leaves the lower frames and what lies below `Base` alone replaces the last activation only, because `LowerVariablesKept` follows from adjacency. `CalleeVariables` is the only place where two activations meet: the top of the caller's window becomes the callee and its parameters.

### Upvalues
For any values, variables and bounds. `OpenSorted` says what walking the list gives, and is not inductive; `Linked` says of each link that it leads to the open upvalue of the next lower slot, and the head to the one of the highest. That the walk then meets all open upvalues in order, and that `captureUpvalue` stops at the slot or at the place to insert, is proved of `From` and `FirstAt` by the greatest slot that would contradict it. For the refinement `Names` ties the two history variables to the machine: closures hold the same variable if and only if they hold the same upvalue, and an open upvalue is of the variable whose slot it points to. Assumed: variables are numbers, of which there is always a new one.

### Arenas
`SlabProofs`: for any classes and sizes, any number of arenas and any choice of refusals. `EveryArenaHasItsPlace` needs more than lists: `InUse` says that the slots between an arena's header and its bump position are each in use or once in the free list (the bump position itself is implied by `freeSlotCount`, as in the code), `Chains` and `Pools` that the lists are disjoint and without doubles, `Places` that an arena outside the pool is in the chain of its class just when it has a free slot, and `Spared` that an arena with nothing in use is a spare or in the pool. For `ImplementsAllocator` a slot is mapped to its addresses, and two slots of one arena are disjoint because they are of one class.

`StoresTheorems`: for every page size, chunk, reservation and set of string lengths, the boundary that `stack_push` tests is where the committed pages end, and the next push has a page.

### Lines
For any program and any number of bytes taken back. The binary search may end at any of several ranges; `Answers` says which, and `Attributed` that each of these has a line of the byte. `Waiting` makes it inductive: a range that ends at the byte written *next* has the line of a byte that was taken back there. `GetLineAnswers` is about the recursive search: that the recursion is well founded (`SearchExists`) and that it ends at a range that answers (`SearchAnswers`), by induction on the length of the interval.

### Scopes
For every function of every family: any nesting of blocks, conditionals and loops, any number of locals, captures before or after the jumps around them in the text, any way the conditions turn out. Assumed: a condition is tested or known.

What the compiler knows of the stack is its height and which locals are captured, and it knows that at the end of the code only. The jumps lead elsewhere: a `break` to where the loop's block ends, with the locals of that block still counted by the compiler; a `continue` to a place with fewer locals; a loop back to where a local may since have been captured. The invariant gives every instruction that knowledge: `h[i]`, the height of the stack before it, and `o[i]`, the slots that may be open.
- `Draft`: every way from an instruction, to the next or along a patched jump, leads to one whose `h` is what the instruction leaves and whose `o` has what it leaves open. A jump that is not patched is among the pending ones.
- `AtEnd`: after the last instruction, the height is the number of locals, and the captured locals are what may be open.
- `Nest`: what each statement that is not complete knows of its pending jumps (they jump at the height of the locals it leaves, with only these open), of the beginning of the loop and of the locals of its block, which are the deepest ones.
- `Stays`: no jump leaves the body of a loop backwards, and inside it the stack never gets lower than the locals around it. This is what a capture needs. When a function captures a local *after* a loop began, `OP_LOOP` leads from there to instructions that were emitted without knowing of it. `CaptureKeeps` adds the slot to `o` from the beginning of the outermost loop inside which the local lives on; `Stays` says that no way from there leads back before it, and that no instruction emitted since gives up the slot.

`Well` is their conjunction, for some `h`, `o` and frames `g`; `Understood` says that there are some. `Emitted`, `PopKeeps`, `RemovalKeeps`, `PatchKeeps` and `BranchKeeps` are what emitting, removing locals and patching do to a draft; there is one `...Keeps` lemma per statement. At the end of the function no jump is pending, and what remains of `Draft` is `Sound`, which does not change any more: execution keeps `Runs`, that the stack is as high and no more is open than is known of `pc` (`ExecuteRuns`). `HeightsAgree`, `CapturedClosed` and `InFunction` follow at once.

`Understood` quantifies over functions, so it is proved and not checked by TLC, which checks what follows from it.

### The parser
For texts of any length from any family, and any limits on nesting. The state of a recursive descent is its C stack, so the invariant is about `todo`: it says what the functions that are running will have done when they return.

- Each thing to do has an effect on the levels (`LevelEffect`: `endScope` lowers the scope's depth, `endCompiler` takes a function off the chain, `returnFrom` lowers `parseDepth`, ...) and an effect on the open brackets (`BracketEffect`). `Leads(kind, items, c, d)` says that the effects of `items`, one after the other, lead from context `c` to `d`, and that each is possible where it is reached.
- `LevelInv`: all of `todo` leads from the present levels back to `Origin`. `BracketInv`: as long as there was no error, all of `todo` closes the brackets that are open. `LevelsRestored` and `AcceptedIsBracketed` say this where `todo` is `program` or empty.
- A step replaces the first thing by other things. That it keeps the invariant is one fact per action: what is put in its place leads from the new context to where the first thing led (`LeadsInstead`, `StepKeeps`). An early return that leaves a level raised is one for which that fact is false.
- Classes are the exception. What `endClass` has to undo depends on whether there is a superclass, which is known only after `superclass` has looked for `<`, so the effects of what comes after it change. `Follows` says what comes after it, the rest of a class, and `LeadsFromAnother` that a class with a superclass is left like one without. `Follows` also says what may come after `declaration`, `settle`, `synchronize` and `skip`, which the next conjunct needs.
- `StaleInv` for `ReportsOnce`: after a recovery, until a token is consumed, the first thing to do is one that does not report.

`Leads` quantifies over sequences of contexts, so it is proved and not checked by TLC, which checks what follows from it.

### Induction
The library's induction theorems take an operator as a parameter, which the provers cannot instantiate. Where a proof needs induction on a number (the folds of `Table`, the search of `LineArray`, the walk along the list of upvalues), it takes the least number at which the claim fails, which exists because `<` is well founded on the naturals (`WFMin`), and shows that there is none.

### What is left to the model checker
`MergesAreRight` of the optimiser: it compares what two interpreters do with whole programs, and a proof would be one of the compiler. Out of the prover's reach: liveness (`CollectionEnds`, `Returns`, `EndsUnlessTooDeep`).

## 5. Not modelled, and why

- Strings, functions and natives as heap objects: never collected by this program (strings are interned for its lifetime, functions are constants), hence `Nil` in `Heap`.
- `vm_free`, `/reset`, reading files and lines, printing, the disassembler: I/O or teardown.
- Widths of operands and jump distances: `Scopes` numbers instructions. A jump of 65536 bytes is out of TLC's reach, and with a scaled-down limit the property would restate the test.
- In the parser, the reports of limits on sizes (constants, arguments, locals): each is one report that changes nothing else. What is emitted is in `Scopes` and `Peephole`.
- Murmur's mixing and the escapes that `copyString` converts: `Pools` compares two ways to the same hash, whatever the mixing.
- What has no caller in the program: growth of a slab in place (`arenaSlab_realloc` through `GROW_ARRAY_SLAB`), `mark`, `rewind` and `shrink` of the bump arena, frozen tables.
- The scanner: a character-level recogniser whose model would be a transliteration.
- `OP_MULTIPLY`, `OP_DIVIDE`, `OP_MODULUS` in `Peephole`: folded and merged by the same macros as `OP_SUBTRACT`.
- Fields with computed names (`OP_GET_SUBSCRIPT`, `OP_SET_SUBSCRIPT`): on the heap they do what property accesses do.
- `Heap` on top of `SlabArena`: `Heap` assumes that a claimed unit is not in use, which is `ImplementsAllocator`; the two are not run together, nor are `CallStack` and `BumpArena`, since the states would multiply and the interface is one promise each.

## 6. Plan

Done first, because everything rests on it: the heap and its proofs. Then the tables, globals, calls, upvalues, scopes and the optimiser, each with its abstract specification where it has one.

Then what those rest on: the pools, the slab and bump arenas, the line table, the parser with its recovery, and `mergeSubscript` in the optimiser; the proofs about calls and committed memory.

Then the theorems of section 4, data structure by data structure.

Left: in `Scopes`, class declarations, whose `super` is a local of an extra scope, and shadowed names.

# A verification project for cyntatic

cyntatic is a small language toolchain in C: a virtual machine (`cynvm`, `src/src/vm`),
an assembler for it (`cynas`, `src/src/compiler/asm`) and the beginnings of a compiler
(`cync`, `src/src/compiler`), on a library of containers and allocators (`src/src/*.c`).
Everything runs in one thread. What is hard about it is not concurrency but bookkeeping: a
guest program drives the machine through any sequence of allocations, calls and returns, the
containers and the linker rearrange linked state in several steps that must agree, and the
lexer and the command line carry state from one token or argument to the next.

The modules here model that bookkeeping, TLC checks them on small instances, and TLAPS proves
the heap, the stack and its calls, the exceptions, the argument parser, the lexer with its
window of tokens, the assembler with its linker, the vector with its allocators, the map and
the red-black tree correct for instances of every size. Paths in this file are relative to the
repository.

## 1. Inventory

| component | state | operations | used by | properties that make it correct |
|---|---|---|---|---|
| VM heap (`vm/memory.c`) | descriptors on three lists (free, used, fresh), `top` | `VM_alloc`, `VM_free`, `VM_heap_compact` | `alloc`/`dlloc` instructions, `VM_cstring_dup_` | live blocks disjoint, in bounds and stable; no byte or descriptor lost; memory found when there is some |
| VM stack and calls (`vm/vm.c`, `vm.h`) | `sp`, `bp`, `ip`, memory | `VM_pushn`, `VM_popn`, the stack instructions, `VM_returnx`, `VM_run` | the assembler's output | never meets the heap; calls nest; a return restores the caller |
| VM instructions (`vm/vm.c`, `vm/code.c`, `vm/instr.h`) | registers, flags, memory | `VM_code_append_`, `VM_fetch`, `VM_execute`, `VM_code_disassemble_` | `cynvm` | encoder, decoder, listing and execution mean the same instruction |
| Memory layout (`VM_init_`, `VM_memory_init`) | region bounds | set up and tear down | heap, stack | regions disjoint and inside the memory |
| Native calls (`vm/builtins.c`) | none | one function per system call | `ncall` | a function reads the arguments it checked for |
| Assembler and linker (`compiler/asm/asm.c`, `asm/main.c`, `vm/code.c`) | symbols, instructions, patches, constants, errors, the output file | one parse function per statement, `Assembler_link`, `VM_code_append_`, `cmdAssemble` | `cynas` | names are replaced by what they stand for; the layout the linker assumes is the one the encoder writes; the exit status is right about the file |
| Red-black tree (`tree.c`) | nodes with links and colours | `RbTree_add_`, `RbTree_find_or_add_`, `RbTree_find_`, `RbTree_find_first_`, iteration, release | symbol table, patch lists, opcode names, identifiers | links agree, order kept, every element found |
| Pool and arena allocators (`compiler/common/heap.c`, `allocator.c`) | size classes with free lists, arena regions, metadata before each block | alloc, cAlloc, reAlloc, dealloc, relocate | all containers | blocks disjoint and large enough; contents kept |
| Vector, buffer (`vector.c`, `buffer.c`) | length, capacity, memory | push, pop, insert, splice, swap, reserve, compact, release | everything | the memory holds the elements through every growth and move |
| Map (`map.c`) | buckets with chains | set, get, remove, growth, iteration | keyword and name tables | a function from keys to values; walks visit once |
| Exceptions (`e4c.c`) | at most 16 frames, jump buffers, one exception | try, catch, finally, throw | parsers | blocks behave as try, catch, finally |
| Token parser (`compiler/common/itp.c`) | three-token window | advance, peek, check, match, consume | assembler | every token once and in order |
| Lexer (`lexer.c`, `token.c`, `source.c`, `log.c`, `ident.c`) | cursor, position, string-expression flag, queued token | next token | token parser | tokens at the right places; the end is reached |
| Arguments (`args.c`) | option tables, values | parse, defaults, getters | the mains | values the programs rely on are there |
| Code builder (`vm/builder.c`) | the linker again behind an interface | | nothing yet | |
| Compiler (`compiler/parser.c`, ...) | | | `cync` | |

Interaction: `cynas` reads its command line with `args.c`, then parses a file with the lexer
and the token parser; a statement that is malformed throws an exception that the assembler
catches per statement. Symbols, patches and references sit in red-black trees whose nodes, like
the vectors, come from the pool allocator. The linked code is loaded by the machine: the
constants become the bottom of its memory, the heap lies above them, the stack grows down from
the end to `ram.sb`, eight bytes above the heap's limit. Native calls run on the same stack.

What is hard to test, each with its line and the property that covers it, is listed under
`hazards` in `PROJECT.json`.

## 2. Modules

| module | models |
|---|---|
| `VMHeap` | `memory.c`: descriptors and lists, first fit, splitting, growing the top block, compaction |
| `HeapSpec` | what a heap promises: a set of live extents (abstract) |
| `VMHeapProofs` | theorems about `VMHeap` |
| `VMStack` | `VM_pushn`/`VM_popn`, push, pop, popn, alloca, store, jumps, call, ret, ncall, halt, the prologue of `VM_run` |
| `VMStackProofs` | theorems about `VMStack` |
| `Builtins` | which argument counts each native function accepts and how many arguments it reads |
| `CallSpec` | procedure calls as a stack of frames (abstract) |
| `Machine` | `instr.h`, `code.c`, `VM_fetch`, `VM_execute`, `VM_init_`: encoding, listing, fetching, executing, the layout of the memory |
| `Assembler` | the statements of a source file with every operand form, error recovery, `Assembler_link`, the encoder and the widths the decoder uses, `cmdAssemble` and its output file |
| `AssemblerProofs` | theorems about `Assembler` |
| `RbTree` | insertion (link, recolour, rotate, one round of the loop a step), search, iteration both ways, release |
| `RbTreeProofs` | theorems about `RbTree` |
| `Lexer` | `lexer.c`: one call of `Lexer_next`, step by step where the code loops |
| `TokenParser` | `itp.c`: the window of tokens on top of `Lexer` |
| `TokenParserProofs` | theorems about `Lexer` and `TokenParser` |
| `Args` | `args.c`, the phases of `parseCommandLineArguments_` |
| `Programs` | the commands `cynvm` and `cynas` declare, and what their functions read, on top of `Args` |
| `ArgsProofs` | theorems about `Args` |
| `Allocators` | `allocator.c` and `heap.c`: the front with its metadata, the system's allocator, the arena, the pool |
| `Vector` | `vector.c` and the release of a buffer, composed with `Allocators` and another client of it |
| `ContainerProofs` | theorems about `Allocators`, `Vector` and `Map` |
| `Map` | `map.c`: chains, growth and its failures, walks |
| `E4C` | `e4c.c` and the macros of `e4c.h` |
| `TrySpec` | blocks with try, catch and finally, each with an exception of its own (abstract) |
| `E4CProofs` | theorems about `E4C` |
| `MCVMHeap`, `MCVMStack`, `MCMachine`, `MCAssembler`, `MCRbTree`, `MCTokenParser`, `MCArgs`, `MCMap`, `MCE4C` | values of the constants for TLC |

Definitions whose comment starts with `Fault:` are not part of the models. Each is a
plausible mistake in the definition that follows it; `PROJECT.json` pairs it with the
property that notices it.

### How state and actions correspond to the code

*VMHeap.* `free`, `used`, `fresh` are the lists as sets. The free list is kept sorted, so its
order is a function of the addresses (`Precedes`); the other two are only pushed, popped and
searched. `addr`, `size` are the fields of the descriptors, numbers are `u32` modulo `M`.
`VM_alloc` has one action per way `VM_heap_alloc_heap_block` can end (`AllocTop`, `AllocWhole`,
`AllocSplit`, `AllocFresh`, `AllocFails`). `InsertAndCompact` is the sorted insertion together
with the compaction that always follows it: the first block of each run of adjoining blocks
takes over the run, the others return to `fresh`. The switches `CYN_HA_DISABLE_SPLIT` and
`CYN_HA_DISABLE_COMPACT` are off, as in the build.

*VMStack.* Addresses count words of 8 bytes. A count parameter is a `u8`, taken modulo `CB`.
A comparison that wraps below zero in `VM_pushn` is followed by an abort in `MEM`, so both are
one abort here. `Ret` is the whole instruction: pop the results, unwind, drop the arguments,
push the results from where they were. If they overlap, `memcpy` is undefined and `Copies` is a
choice. `Frames` reads the memory as the frames of `CallSpec`; no action uses it. The guest is assumed to keep to its frame: it pops and returns what it pushed, and
pushes the arguments and their count before a call. The machine does not enforce that; without
it nothing can be said about calls. Straight-line progress of `ip` is left out.

*Machine.* The header bytes of instructions are exact: `b1`, `b2`, `b3` are the bit fields of
`Instruction`, the constructors of `instr.h` (`rRa`, `mRb`, `xIMb`, ...) set them, and
`VM_code_append`, `VM_fetch`, `VM_code_instruction_at` pack and unpack them. A byte of data has
`Radix` values instead of 256, so that widths of 1, 2, 4 and 8 bytes keep their proportions.
`source` keeps the program as it was written; the properties compare with it and no action
reads it, and `asked` is the request `VM_init` was called with, for the properties too.
Outcomes C leaves undefined (a read outside the memory, a shift beyond the width, the smallest
number divided by -1, a marker written at the end of a memory that is all stack) end in the
status `wild`, or may.

*Assembler.* One action per kind of statement, `Malformed` for a statement given up in the
token parser, `EndOfFile`, then `CollectRefs`, one `LinkStep` per instruction, `EmitCode`, and
the end of `cmdAssemble` (`Write`, `ReportErrors`, `Cleanup`). `Assembler_parse_instruction_arg`
is a function of the operand: a register, a name, a number, a character, with or without
brackets, a subtraction and an effective address. Behind a name of value 0, or one put off,
nothing is subtracted (`asm.c:325`): what is left of the operand is an error. Behind the comma of
an effective address `#name` always fails, because the size that is looked up is that of the
token `#` (`asm.c:362`), and in `[#x, y]` the flag set in front of `x` makes `y` a size. An
instruction keeps its operands as the source has them, to state the properties with; no action
reads them. The program ends in one of three phases: `success`, `failure` (errors, or a file that
cannot be opened) and `abort` (an assertion in the middle of a statement). `file` is the output:
`old` until it is opened, which truncates it, then `empty`, then `code`, or `part` when `fwrite`,
whose result is not looked at (`asm/main.c:123`), wrote less.

*RbTree.* A node is `<<k, j>>`, the j-th with key `k`; linking it and each round of the loop
in `RbTree_insert__` is a step, so the properties hold between rounds too. Keys are names,
added with `strcmp` or with a length, and searched with `RbTree_strncmp`, as the opcode table
is. The two mirrored branches are `RotateRight` and `RotateLeft`, which share `Rotate` and
differ in the colour case 2 paints the old parent, as the code does.

*Lexer, TokenParser.* `fun` is where the call of `Lexer_next` stands. Operators, names and
numbers are one step, the loops over comments, strings and runes one step a character. `tokens`
is every token made, `taken` those a parser advanced over. At the end of the text `Lexer_next`
answers with the kind `tokCOUNT`, by which the window also tells that it has not peeked, as in
the code. The parser on top of the window is any parser: it peeks, checks, matches and
advances in any order.

*Args, Programs.* `phase` follows `parseCommandLineArguments_`: choose a command, parse, the
builtin commands, defaults, then main. The loop of `cmdParseBitFlags` takes one step for each
name. An argument is a record (`--`, a flag by letter, a flag by name, plain text), a name a
sequence of characters since flags are found by a prefix.

*Allocators, Vector.* A pool is the sequence of its free segments; a segment is where it was
cut from and how many bytes it has; a block is the segment, the manager and the size its
metadata record, and the data its client stored. Each manager's function says what a request
gives (`Answer`); the actions are the front's functions. `PoolAllocatorBlock_Init` cuts segments
as long as they start before `POOL_BLOCK_SIZE`, out of a memory that is shorter by the metadata
and a link (`PoolBytes`), so the last segment of a class, the first to be handed out, hangs over
the end: a client that uses it goes on, or has done harm and the model stops in the status `wild`
(`Outcomes`). `Vector` adds the vector's length and capacity and `elems`, the sequence it stands
for, with one action per operation of `vector.c`. `Vector_reserve` takes any count of the caller's.
With one below the length it records a capacity below the length (`vector.c:55`), and if the next
growth then asks for less than the elements need, the model stops in the status `overrun`.

*Map.* `buckets` are sequences of nodes, `dict` is the function the map stands for. `SetFails`
is a failed allocation: of the node, which leaves the map as it was, or of the buckets, after
which memory was overwritten (`mapStatus` is `wild`). Growth chains all nodes (`AllNodes`) and adds
them to the new buckets one by one (`Map_resized`), as `Map_resize_` does. `Map` names its
specification `MapSpec` and its variables `mapVars`, so that one module can extend it and `Vector`.

*E4C.* `frames`, `frame`, `err` are the context, `jump` says in which block each jump buffer was
set, `live` is the nesting of blocks in the C program. `at` tells whether the code of a block
runs or the macros' loop asks `e4c_hook` what is next. There is only one `e4c.err`, so a
finalizer that runs while an exception waits loses it if code nested in it throws and catches
another one; `Keeps` is the assumption that the code in the blocks does not do that.

## 3. What the runs check

| run | result |
|---|---|
| `heap` | passes: descriptors conserved, blocks in bounds and disjoint, free list compact, no byte lost, no false "out of memory", live blocks never move, and `VMHeap` implements `HeapSpec` |
| `heap_wrap` | violated: a request near the word size wraps `top + size` and is served beyond the limit, which `vm.h` rules out |
| `stack` | passes: the stack stays clear of the heap, a call that was admitted can return, and `VMStack` implements `CallSpec` |
| `machine` | passes: whatever is fetched is an instruction of the source, the listing shows it as it was written, the two decoders agree, every step does what the source says; the stack stays above its bottom, constants, heap and stack are apart whenever the request leaves a word besides the rounded stack, and of the constants only those at the place of the stack's marker are overwritten |
| `assembler` | passes: jumps land behind their label, operands arrive as written, linker and encoder agree on the layout, no instruction is patched for a statement that failed, and the program ends: with success when the code was handed to `fwrite`, with a failure or an abort and an empty file otherwise |
| `asm_refs` | violated: a label behind the last instruction and a variable used before its declaration are left half patched |
| `tree` | passes: links agree, iteration is sorted and stable, search finds what was added, the loop invariant of the insertion holds, the loop ends |
| `lexer` | passes: line and column are those of the place, ranges of neighbours can be joined, the string-expression flag follows the brackets, the window gives every token once and in order, the end of the text is reached except behind an unclosed rune of several bytes |
| `args` | passes: the values the mains use unasked are there, the arguments left over stand behind `--`, a flag given by its whole name is the one that is set, parsing ends except at a bit flag of one letter in front of a bar |
| `vector` | passes: every segment is in one place and large enough, blocks end inside the memory of the pool except in the last segment of a class, the vector holds its elements and meets too small a memory only where its capacity was reserved below its length, reallocation and relocation keep contents |
| `map` | passes: the map is the function it should be, walks end and visit every element outside bucket 0 once |
| `e4c` | passes: jumps lead to the innermost live block, and `E4C` implements `TrySpec` |

Several properties name an exception, because the code has one: the rune that is not closed
(`lexer.c:580` does not test for the end), the bit flag of one letter (`args.c:483` continues
without advancing), bucket 0 (`map.c:241` increments before it looks), arrays of
`Allocator_cAlloc` (the metadata have the size of one element), differences of a variable and
a constant that need more bytes than the constant, `[name, k]` where the sum needs more
bytes than `k`, requests that leave no heap (`vm.c:339`) and constants under the stack's marker
(`vm.c:363`), the last segment of a pool (`heap.c:116`), and a vector reserved below its length
(`vector.c:55`). Each is stated as narrowly as the code allows, and the hazards say so.

What the models contain without a property: `alloca` rounds its request down to words and cuts
the count to a byte (`vm.c:200`); `dup2` and `fcntl` read an argument that was not passed
(`builtins.c:235`, `456`); the header's `main` is an address plus an index (`asm.c:619`), which
no program reads; case 2 of one branch of the insertion paints the old parent black
(`tree.c:194`), so paths may differ in black nodes while the tree remains a search tree.

### Bounds

* heap: five descriptors (`b1`..`b5`), 16 bytes of heap starting at an odd address, five request
  sizes, alignment 2, split threshold 4. Five descriptors are enough for a free block with used
  blocks and free blocks on both sides, for a run of three to be merged and for running out of
  descriptors. Descriptors are interchangeable, so symmetry is sound.
* stack: 10 usable words, values 0 to 2 (values double as argument counts), counts modulo 4, one
  level of arguments for the program, up to three results and up to three nested frames. Deep
  enough to run into the boundary inside a call and inside a return. Native functions are three
  whose check and use of arguments agree. 114005 states.
* machine: four values a byte; programs of six instructions, two loads, one of a pool with every
  instruction in the operand forms, a push, one that uses the result, halt; five pairs of loaded
  values, among them addresses in the constants, in the heap, at the last byte and outside; 27
  bytes of constants; five requests: a stack that fits, one so small that its marker is written
  over the constants, one smaller than the memory that leaves no heap, one of all the memory, one
  that is larger; the last byte of the file may be missing. 225831 states.
* assembler: three instructions, of which the second has any operand form and the others jump;
  two labels, two variables, one literal at which signed and unsigned width differ, one error.
  This gives a jump forwards, backwards, to itself, and a label shared by two jumps, with an
  instruction of another size in between; the error may be a statement that fails behind its first
  operand. 562037 states.
* tree: four names, one a prefix of another, eight nodes: the rotation moves non-empty subtrees,
  recolouring climbs two levels, and equal keys meet. 20923 states.
* lexer: texts of two fragments of all kinds, three of runes and numbers, three and four of
  strings, four of comments; integers of three digits are the longest, of two the largest that
  fit, so that the two limits differ. 535506 states.
* args: every command line of at most three arguments out of 26, for both programs, which is
  enough for a command, a flag and its value, or a flag, a marker and the rest. 146257 states.
* vector: three pools with four, three and two segments, of which the last hangs over; an arena of
  6 bytes and at most two regions, vectors of at most three elements of two kinds, one other client
  asking for two sizes, who may take a released string too; pools run empty, the vector moves
  between classes, is reserved below its length, and the class behind the last pool is asked for.
  426216 states.
* map: five keys, one a prefix of another and two with one hash, tables of one to eight buckets.
* e4c: three frames, three types with a common supertype, four sets of handlers. Three frames
  give an exception in a finalizer nested in a handler nested in a block, and the limit.
  666304 states.

Where a run says `CHECK_DEADLOCK FALSE` the system may stop: the machine halts or aborts, the
assembler and the command line are done, a bound is reached.

### Fairness

Weak fairness of the assembler's steps from the end of the source on, which is reached because a
file is finite and every statement consumes some of it, of the rounds of the insertion loop, of the lexer's steps
and their delivery to the window, of the argument parser's steps and of a walk over a map. All
are loops in sequential code without waiting; weak fairness says no more than that the processor
goes on. `LexingEnds` also assumes strong fairness of `ITokenParser_advance`: a parser that may
look ahead as often as it likes does advance in the end, as every loop of the assembler does.
Nothing else is assumed of the guest, the source file or the command line.

## 4. What is proved

`VMHeapProofs` proves, for any number of descriptors, any word size, bounds, alignment, split
threshold and set of request sizes that satisfy `HeapAssumption`, under the hypothesis
`RequestsFit` (requests of at least one byte that do not wrap the sums with the limit; the
`heap_wrap` run shows that it is needed):

* `HeapSafe`: `HeapInvariant` holds in every reachable state. It is the conjunction of the
  named invariants and is inductive as a whole. The parts need each other: a merged length is
  right because blocks do not overlap, blocks stay disjoint because free ones are compact
  (an inserted block then merges with at most its two neighbours, so a run has at most three
  members), and growing the top block is safe because no byte below `top` is without a block;
* `TypeCorrect`, `DescriptorsAreConserved`, `StaysInBounds`, `BlocksAreDisjoint`,
  `FreeListIsCompact`, `NoByteIsLost`: its conjuncts;
* `MemoryIsFound`, `EmptyHeapServes`: consequences of the invariant. The second says that after
  everything was released the whole heap can be had again (`EmptyHeapIsWhole`); it needs at
  least one descriptor and is only proved, no run repeats it;
* `LiveBlocksAreStable`: an action property, from the same invariant;
* `HeapImplementsSpec`: every step maps to a step of `HeapSpec` or a stutter.

`VMStackProofs`, under `StackAssumption` (the heap lies below the end of the memory, code
addresses are natural numbers, the sets of counts and requests are any; the width of a count is
any `CB`):

* `StackInvariant`: the types, `StackClearOfHeap`, and `FramesChained`: the saved base pointers
  form a chain from `bp` to the end of the memory, in which each frame ends, with its arguments,
  below the one it returns to, and each saved `ip` is an address to return to. `StackClearOfHeap`
  alone is not inductive: `ret` sets `bp` from memory;
* `StackSafe` (`StackClearOfHeap`) and `ReturnsSafe` (`ReturnNeverAborts`): the unwound frame
  makes the room its results need;
* `CallsImplementSpec` (`ImplementsCallSpec`): the words in memory, with the saved registers and
  counts among them, are a stack of frames with arguments, a place to return to and operands of
  their own. Its hypotheses are what the guest owes: `ArgumentsFit`, a running frame has fewer
  arguments than the `u8` of `VM_popn` counts; `ResultsFit`, a frame returns at most three words,
  as many as the registers and the count it saved, since with more the `memcpy` of a return may
  overlap; `NativesAgree`, the native functions it calls read as many arguments as they check for
  (all but `dup2` and `fcntl`). TLC's instance satisfies the three. The frames above a base are a
  recursive function of the memory, which is defined because saved bases only go up
  (`FramesChained`); what a step leaves alone above a base leaves those frames alone
  (`CallersAgree`). Both are by the least base at which they fail (`FromTheHost`). Then there is
  one lemma for each instruction.

`E4CProofs`, under `TypesAssumption` (a map of supertypes, at least one frame):

* `ContextInvariant`: the frames and jump buffers follow the nesting of the blocks in the C
  program (`FramesFollowBlocks`), and the outer frames are in a stage in which they have entered
  code (`StagesEntered`);
* `JumpsSafe` (`JumpsToLiveBlock`);
* `MacrosImplementTry` (`BlocksMeanTry`): every step of the hook, the throw and the blocks is a
  step of `TrySpec`, where every block has an exception of its own. The mapping takes the one
  global exception for the block that waits to pass one on; that there is only one such block is
  the assumption `Keeps` of section 2.

`ArgsProofs`, for any programs and command lines under `ProgramsAssumption` (the tables are
arrays), `ReadsDeclared` (what a command reads unasked has a default or is required) and
`NamesApart` (no flag's name is, up to its last letter, a prefix of one declared earlier). TLC
evaluates all three for the commands `cynvm` and `cynas` really declare:

* `ParserInvariant`: `argc` counts what is left of `argv`, only `--` ends the walk before the
  last argument, and below the index `j` every default is filled in. A list of bit flags
  interrupts both walks, so the invariant also says where it returns to;
* `RestSafe` (`RestBehindMarker`), `ReadsSafe` (`ValuesPresent`);
* `NamesSafe` (`NamedFlagIsMeant`): an action property, although flags are found by a prefix.

`TokenParserProofs`, for any texts under `LexerAssumption` (texts are sequences of characters):

* `LexerInvariant`: the place a token starts at, noted before its loop, has the coordinates that
  counting from the start gives; tokens end before the place the next one starts at; a token is
  queued only behind the brace that closes a string expression; while the lexer works, the window
  has every token made before (`Waiting`). That counting on from a place agrees with counting from
  the start, and where the lexer's loops stop, are lemmas, by the least place at which they fail
  (`NatLeast`, from the well-foundedness of the naturals), since an induction schema cannot be
  instantiated;
* `CoordinatesSafe`, `RangesSafe`, `BracketsSafe`, `WindowSafe`: `CoordinatesAgree`,
  `RangesExtend`, `StrExprBracketed`, `WindowInOrder`.

`AssemblerProofs`, for any sources, names, builtin variables and bound on the errors under
`SourceAssumption` (a statement has at most two operands of the forms the grammar has; numbers
are not negative before their sign):

* `AssemblerInvariant`. `Built` holds as long as no error was counted: the size of an instruction
  is the one that will be written, it waits for one name at most, that of its last operand, and
  otherwise holds the operand's value in a width it fits (`Written`); labels are not behind the
  next instruction. This is where every form of operand, and every way an operand overwrites what
  the one before it left in the instruction, is gone through. In the loop of the linker (`Linked`)
  `ip` is the sum of the sizes so far, and a reference has the half `-ip` once the loop is past
  its instruction and `+ip` once it is past the label (`Halves`);
* `LayoutSafe` (`LayoutAgrees`): the recursive sum of the encoder and the running sum of the
  linker are one function (`SumsExist`, `SumsUnique`);
* `LinksSafe` (`JumpsResolve`), `OperandsSafe` (`OperandsSurvive`);
* `PatchesSafe` (`PatchesAreMeant`): a statement that failed may have left a reference under the
  index of the next instruction, but then an error was counted and nothing is linked.

`ContainerProofs`, for any number and size of pools, any arena and any clients under
`AllocatorsAssumption` (sizes are positive, requests are natural numbers), `CutAssumption` (the
last segment of every class starts inside the pool's memory, as it does for the sizes in the code)
and `VectorAssumption`:

* `VectorCorrect`: every segment is on one free list or held by one block, segments do not
  overlap, a block's segment has the room its metadata say (`HeapOK`), and the block of the vector
  has room for its capacity and for its length, either of which may be the larger, and starts with
  its elements (`VectorOK`). The class of a request is a
  power of two that holds it; what is needed of powers of two (they grow, their successor is the
  double) are lemmas about the recursive function `Pow2`;
* `VectorHoldsItsElements` (`VectorIsSequence`): insertion, splicing, swapping, reserving and every
  way to grow or shrink do to the memory what they should do to the sequence, and where an operation
  gets memory too small for the elements the capacity was below the length;
* `SegmentsStayInOnePlace` (`SegmentsInOnePlace`): the room of a segment and, by `CutAssumption`,
  that all but the last of a class end inside the pool's memory;
* `ContentsAreKept` (`ContentsKept`, an action property);

and for any keys, values, hashes and sizes under `MapAssumption` (the initial sizes are powers of two
or zero, the default size is a power of two, keys that begin with one another have different
hashes):

* `MapCorrect`: every node is in the bucket of its hash, each key has one node, the nodes are those
  of the function the map stands for and the count is its size (`Stores`, `MapInv`); an iterator has
  seen each key between bucket 1 and its node once and no other (`Walking`). Growth passes through
  buckets that hold a part of the function, one node more in every step (`PartOf`); that the chain of
  all nodes and the buckets being filled are defined at all is the lemma `Recursion`, and what they
  are is shown by induction on the set of indices for which it holds;
* `MapStaysFunction` (`MapIsFunction`): search finds each key with the value set last and no other;
* `WalksSeeEachOnce` (`EachVisitedOnce`, the safety half of `WalksVisitOnce`): a walk that ends has
  seen the keys outside of bucket 0 once.

`RbTreeProofs`, for any names, lengths and number of nodes under `RbTreeAssumption`:

* `TreeCorrect`: between any two rounds of the insertion the links agree and reach every node, the
  nodes are in order, equal keys are numbered in the order they were added, and only the node of
  the loop may be a red child of a red node. That links make a tree is said by ranks that fall
  from parent to child (`Ranked`), order by the set of nodes below each node (`Sorted`), neither of
  them a recursive notion. A rotation is one move of a child over its parent (`Lifted`), done once
  or twice, so what it preserves is proved for that move;
* `LinksStayInAgreement` (`LinksAgree`), `OnlyTheNodeOfTheLoopViolates` (`OnlyNodeViolates`);
* `IterationStaysSorted` (`IterationIsSorted`) and `SearchFindsWhatWasAdded`
  (`FindsWhatWasAdded`): search and iteration are recursive functions; they are defined because ranks
  fall (`RunsExist`), and what they return follows from the leaves or from the root
  (`FromTheLeaves`, `FromTheRoot`). A name of which a length is given compares with the stored
  ones as `strcmp` compares them (`WholeTells`, `CountedTells`).

`ReadBack` takes values in four and eight bytes as exact, so what is proved of immediates is
about programs and constants below 2 GB.

Only model-checked:

* liveness (`ExitTellsTheFile`, `InsertEnds`, `LexingEnds`, `ParsingEnds`, the end of walks in
  `WalksVisitOnce`), which the prover does not handle;
* `Machine`: it uses the bitwise operators, which the prover cannot load. Its properties also hold
  only of programs that leave the constants and `sp` alone, so a theorem would need a semantic condition on
  `Programs` in place of a list of them.

## 5. What is not modelled

* `vm/builder.c`: the linker once more, but not in `CMakeLists.txt` and not called.
* The compiler (`parser.c`, `codegen.c`, `type.c`): a stub at this commit.
* What system calls do; files and streams, timers, hashing, conversions between encodings:
  input and output without state of its own. `File_read_all0` (`file.c:52`) loops as long as
  `fread` returns nothing, which a model of files would have to show.
* Traces, the debugger hook, listings of heap and stack, the layout of usage texts and messages.
* `Buffer_vappendf` and the typed appends: formatted output through the C library, into memory
  reserved as `Vector` models it. `Buffer_seal`, which reserves 1 and stores a 0 over the last
  character.
* What a literal evaluates to, apart from whether it fits, and the choice of operand counts from
  the tables of mnemonics.
* Validators of the command line that no program uses (`cmdParseBoolean`, `cmdParseDouble`,
  `cmdParseInteger`).
* The erase half of the tree, which is static and never called, and the assembler's tree of
  references, which is filled and never read.
* Statistics of the allocators.

## 6. Plan

1. (done) `VMHeap`, `HeapSpec`, proofs; `VMStack`, `CallSpec`, `Builtins`; `Assembler`; `RbTree`.
2. (done) `Machine`; `Lexer` and `TokenParser`; `Args` and `Programs`; `Allocators` and `Vector`;
   `Map`; `E4C` against `TrySpec`; the assembler with all operands and its output file.
3. (done) Proofs: the invariants of `VMStack` and its refinement of `CallSpec`, `E4C` with its
   refinement, `Args`, `Lexer` and `TokenParser`, `Assembler`, `Allocators` and `Vector`, `RbTree`,
   `Map`.
4. Left to prove: `RegionsApart` and `ListingIsExecution` of `Machine`, with `xor`, `bor` and `band`
   as arithmetic in place of `Bitwise` and the condition on programs stated.

# A TLA+ model of Fth

Fth is a Forth interpreter and a library (libfth) built on a modified Ficl.
`ficl/` holds the virtual machine, dictionary and compiler; `src/` holds the
object system with its garbage collector, the data types (arrays, hashes,
strings, regexps, numbers, procs, hooks, ports), exceptions, and the REPL.
Fth is single-threaded. What makes it hard is not concurrency between threads
but non-local control: C functions call the VM, the VM calls C, every level has
a `setjmp` of its own, signals leave by `siglongjmp`, Forth callbacks change the
object that the calling C loop iterates over, and the collector may run at
every allocation.

## Inventory

| Part | State | Operations | Interacts with | Hard behaviours | Correct when |
|---|---|---|---|---|---|
| Arrays, `src/array.c` | `length`, `buf_length`, `top`, `buf` (gap buffer) | push, pop, shift, unshift, insert, delete, reject!, subarray, ... | GC marks elements; callbacks re-enter | growth and recentring at limits, callbacks, self-insertion | it behaves as a sequence; data stays in the buffer |
| Association arrays, lists, `src/array.c` | arrays of cells sorted by hash id | assoc, ref, set!, remove! | arrays, `fth_hash_id` | collisions, duplicates | lookup finds what was stored |
| Collector, `src/object.c` | instance table, free list, mark bits, frames | make-instance, gc-run, protect, unprotect, frames | everything that allocates | the moment of a collection; shared mark bits; table ends | nothing reachable is freed, nothing is handed out twice |
| Scopes: frames under loops, calls, catches | `gc_frame_level`, frame lists, saved VM copies | DO/LOOP/LEAVE/UNLOOP, `fth_evaluate`, `fth_execute_xt`, CATCH, throw, signals | collector, VM | levels left by longjmp; restored old lists | objects of running scopes survive |
| Exceptions, `ficl/vm.c`, `primitives.c`, `misc.c`, `utils.c` | `exceptionHandler`, `fth_catch_p`, `fth_sig_toplevel`, `*last-exception*` | evaluate, execute, catch, fth-catch, throw, signal | every C entry point | nesting, rethrow, stale jump buffers | an exception reaches the innermost catch, once |
| Inner interpreter and stacks, `ficl/vm.c`, `stack.c` | data, return and float stacks, ip | instructions | compiler, GC | depth limits, +LOOP edges | stack effects as documented |
| Dictionary, wordlists, search order, `dictionary.c`, `hash.c`, `search.c` | here, latest word, smudge, wordlists, order | define, find, forget, abort definition | compiler, exceptions | an error inside a definition | lookup finds the newest visible definition |
| Compiler words, `primitives.c`, `prefix.c`, `extras.c`, `tools.c` | compile state, control stack, locals | IF/ELSE/DO/..., locals, DOES> | dictionary | unbalanced control words | branches resolve inside the definition |
| Hashes, properties, `src/hash.c` | buckets of chained entries | set, ref, delete, clear, each, map | GC, callbacks | deletion during iteration, collisions | it behaves as a map |
| Hooks, `src/hook.c` | list of procs, arity | add, remove, run, reset | procs, symbols | a hook that edits itself | every listed proc runs once |
| Ports and IO, `port.c`, `io.c` | IO objects over streams, strings, descriptors and procs; current ports | open, read, write, seek, close, redirect | stdio, procs (soft ports), strings | stream buffer against descriptor, redirect inside redirect, exceptions | what is written comes in order; ports are set back |
| Strings, regexps | gap buffer of characters with a NUL behind them; match registers | push, insert, split, replace, match | arrays, C strings | as arrays; the NUL moves with the data | it behaves as a sequence, for C functions too |
| Numbers, `numbers.c` | tagged fixnums and boxed numbers | arithmetic, comparison, conversion | bignum library, libm | edges of a fixnum and a word, mixed types | exact where the type is |
| Procs, `proc.c` | arity, word, defaults | apply, call, make | VM | arity mismatch | called with as many arguments as it takes |
| REPL, options, autoload, `misc.c`, `utils.c`, `fth.c` | line, history, features | read, evaluate, print | all | signals at the prompt | the prompt returns |
| `lib/`, examples | | replacements of C library functions | | | not modelled |

The hazards of this code, each at its line, are in `PROJECT.json` under
`hazards`.

## Modules

`FthFrames` holds the frame list of the collector (`gc_inst`, `gc_frame_level`)
with `gc_push`, `gc_pop`, `gc_loop_reset`, `init_gc`. Two modules extend it.

`FthScopes` is the discipline: which scopes the program is in (loops,
`fth_evaluate`, `fth_execute_xt`, CATCH), which object each of them made, and
what happens to the frames when a scope ends normally, by LEAVE, by UNLOOP (no
`gc_pop`), by a throw (all of it skipped; CATCH puts the saved lists back), or
by a signal. A collection frees everything no active frame lists: the worst
case, where no stack cell, variable or container keeps an object.
`overflowed` remembers that `gc_push` once saturated; the properties end there.

`FthGc` is the collector itself: instance table with its mark bits, free list,
stack, variables that protect what they hold, containers with elements.
`GcRun` is `gc_run` with both loops ending one slot short, as in the code.
`MakeFromFreeList`, `MakeAfterGc`, `MakeGrowAfterGc` and `MakeGrow` are the
paths of `gc_next_instance`. `held` and `robbed` are history variables: what
the program asked to protect, and whose bit another holder cleared.

`FthVm` is the exception machinery: `ctx` is the stack of C functions that
called `setjmp`, each with the `exceptionHandler` it will put back; `vm` is the
saved and restored part of the VM; `flight` is an exception between
`ficlVmThrow` and the function that handles it. Positions in `ctx` stand for
jump buffers, and `Dead` for one whose function has returned.

`FthBuffer` is what arrays and strings have in common: a heap block of cells in
which the data begin at `top`, the rounding of `NEW_SEQ_LENGTH`, growing,
shrinking, moving, and what `realloc` leaves undefined (`Junk`). A block is a function
from its cells; once something has been written outside of it, `Beyond` is in its
domain too and stays there (`InBlock`).

`FthArray` is the array with its gap buffer, cell by cell. Words that call back
(`array-reject!`) and insertion at 0 (a loop of unshifts) are several steps, with
other operations in between where the code allows them. `InsertCell` is the
insertion `assoc_insert` makes. `FthList` adds the words on lists, which are
arrays with a flag; they run between the loops of `FthArray`, not from their
callbacks. `FthSeq` is the abstract array and list: a sequence
with the same words. `FthList` implements them (`RefinesSeq`) with `Contents` as
the refinement mapping. A part of an array (`array-subarray`, `cdr`, `list-head`) is
copied with the length of the whole array into a block made for the part. When it
does not fit, `Overrun` holds and the behaviour ends, as nothing is known of memory
from then on; `FthSeq` has nothing to say of that step but that it ends there.

`FthString` is the string: the same buffer with chars and a NUL behind them. Half
of the words work on `length` chars, half on the C string up to the first NUL.
`FthText` is the abstract string, a sequence of chars; its variable `open` says
that the chars have lost their NUL, and then a word on C strings may answer
anything. `string-shift` and a failing `string-replace!` do that. Where
`string-replace!` goes on in a block that `realloc` has left, or `string-reverse!`
swaps a string without its NUL beyond its end, the behaviour ends (`Overrun`).

`FthHash` is the hash: buckets of chains, new entries first. `hash-each` and
`hash-map` are walks of several steps; between two of them the block may set,
delete and clear. Deleting the entry the block was called with frees memory the
walk reads next: the walk then ends in `undefined`. `FthMap` is the abstract
map, and `FthHash` implements it (`RefinesMap`). `FthAssoc` is the sorted array
of cells with the bisection of `assoc_index`; keys of one id are one key.
`FthTables` puts the two side by side: a behaviour is one of a hash or one of an
association array, as they share only keys and ids. Association lists are such
arrays too; `acons` puts its cell before the others without sorting.

`FthCompile` is the compiler: a definition's code as a sequence of instructions,
the data stack with the addresses and tags that structure words leave for one
another, the number of locals and the locals dictionary. Other words may come in
any order; a word whose tag does not match raises, which is `Error`.
`done` is a history variable with the definition accepted last.

`FthDict` is the dictionary: words and word lists at addresses in memory,
buckets, links, the search order, the compilation word list, smudge. Some words
leave pointers into free memory or a link to itself; what follows is undefined,
so `broken` names the reason and the behaviour ends. `FthNames` is what it
promises: names and the words they mean. `FthForth` puts the two halves of a
definition, body and name, side by side.

`FthStack` is `ficl/stack.c`: cells and a top that nothing but the checks keeps
in its bounds. `FthInner` is the inner interpreter, one action per instruction,
with the arithmetic of `primitives.c` behind it, on a data stack, a return stack
and a little memory. A program (`prog`) is the set of instructions and operands
it is made of, executed in any order, as an interactive program may. Integers
wrap at `Width` bits; floats and integers too wide for a fixnum are objects that
copies of a cell share. Integers have `Width` bits and the ints of C that `CHECK_STACK`
and `abs` cut them to `IntWidth`. When an instruction goes past the end of its stacks,
`did` says so (`overrun`), and so it does when it reaches outside of them or of the
memory by an address or index (`wild`): the behaviour ends. `FthEffects` is what the documentation's
stack comments promise, with sequences for stacks and items (loops, frames,
return addresses) for the return stack.

`FthNumber` is the tower of `numbers.c`: machine integers, long-longs, floats,
complex numbers, bignums and ratios, the table of which type meets which, and the
words on them. Numbers are pairs (numerator, denominator); a float is such a pair
with `Mantissa` bits; `BN_get_word` saturates, `rt_to_int` goes through words,
as in the code. Where the code reads a value as another type than it is or traps,
`did.res` says `wild` or `signal` and the behaviour ends. `FthRational` is
arithmetic from a schoolbook, with denominators multiplied and nothing reduced.

`FthStdio` is what `io.c` uses of the C library: streams with what they have read
ahead and not yet written, descriptors with offsets, a disk. It assumes what
glibc and POSIX do: `a+` begins reading at 0, the end-of-file flag stays until it
is cleared, `fflush` of an input stream gives back what was read ahead. `FthIo`
has the functions of each kind of IO object (file, pipe, string, socket, soft
port); `FthIoWords` the words on them, with backups on opening, on files and on
sockets; `FthPort` the current ports, the
`with-*-to-port` words as frames around a proc during which any word may run, and
the specification of IO as a whole. `log` and `touched` are history.

`FthArgs` has the words that find optional and keyword arguments on the stack.
`FthProc` is procs: a proc that runs is a frame, and while it runs the program may
execute any word of its session, also on the hook that called it. `FthHook` adds
hooks and traced variables. `did` has what the last word was given and gave; `low`
of a frame how much of the stack, from the bottom, no word has touched since the
frame's proc began (a depth would not do: `get-optkey` in a proc may take a keyword
from below the arguments and leave the stack as deep as it was).

A module whose name ends in `Proofs` proves about the one it is named for
(`FthTablesProofs` and `FthForthProofs` about those it puts together). A module
`MC...` gives the constants of a run that a `.cfg` cannot write (functions,
programs, sessions); `FthScopes`, `FthGc` and `FthVm` are checked as they are.
`map` in `PROJECT.json` names the lines of each definition; a helper whose lines
another definition's row has already is left out of it.

## Runs

| Run | Expects | Shows |
|---|---|---|
| `array` | pass | `RefinesSeq`, `DataInBuffer`: every word on arrays and lists does to the buffer what it does to a sequence, at all lengths up to the longest the bound `MAX_SEQ_LENGTH` allows and with callbacks that edit the array; `OnlyPartsOverrun`: no write leaves a block but the moving of a part |
| `strings` | pass | `RefinesText`, `TextInBuffer`: the same for strings and their NUL |
| `tables` | pass | `RefinesMap`, `VisitsOnce`, `MapFollowsWalk` of hashes; `AssocFindsEveryKey`, `AssocOthersKeep` of association arrays and lists |
| `scopes` | pass | `ScopeObjectsAlive`, `FramesNotFreed` and the inductive invariant `ScopeInv` |
| `gc` | pass | `HeldAlive`, `FramesKept`, `KeepsElements`, `FreeListSound` |
| `gc_last` | violation | the sequence in the last slot does not mark its elements |
| `vm` | pass | `HandlerInnermost`, `NoCatchSkipped`, `QuietUntilNested`, `GivesWhatWasRaised`, `ThrowEnds` |
| `forth` | pass | `BranchesResolved`, `DoBodiesClosed`, `FramesMatch` of compiled definitions; `ChainsEnd`, `FindsMeaning`, `RefinesNames` of the dictionary |
| `inner` | pass | `RefinesEffects`: every instruction has its stack effect; `ChecksHold`: none that checks its stacks leaves them, but by an index that its check has cut |
| `numbers` | pass | `RefinesRational`: exact numbers give exact results; `LowestTerms` of ratios; `RationalizeWithin`: `rationalize` ends within the error asked for, when numerator and denominator of X are words |
| `io` | pass | `WrittenInOrder`, `CursorKept` of IO objects over buffered streams; `RedirectionsUndone` of ports; `BackupsKept` of files |
| `procs` | pass | `ArgumentsBound` of optional and keyword arguments; `RunsEachOnce` of hooks; `StackKept` of calls |

The type invariant `TypeOK` of a module is the first conjunct of one of the
invariants its run checks.

Bounds. `array`: `DEFAULT_SEQ_LENGTH` 2 and `MAX_SEQ_LENGTH` 6 instead of 128
and 2^28 or so: the code uses them only in `NEW_SEQ_LENGTH` and in comparisons,
and with these values arrays grow twice, shrink, recentre and hit the limit
within three elements, the longest the run makes (`MaxLen`); two values, one of
them nil (`array-compact!` tells it apart). `Capacity` in the abstract array is
half of the longest buffer: an array may be refused room from there on, since
`array-shift` leaves up to half of the buffer unused before the data. `strings`:
chunks of 3 cells, three of them; newline, a capital and its small letter for
chars; strings of up to two chars are put in, at both ends and beyond. `FthText`
computes its `Capacity` the same way, less the NUL and the cell before the data. `scopes`: 4 frames, 3 scopes and 2 objects: enough for a scope above a
leaked frame inside a catch, and for saturation. `gc`: chunk and limit 1 so
that every path of `gc_next_instance` is met with 3 instances; 2 frames; one
variable. `vm`: 4 nested functions and 2 exceptions: two catches with an
evaluation or execution between each, and one on top. `tables`: three keys
in two buckets and four cells: chains of two, and several cells of one key on
both sides of a bisection.
`forth`: definitions of up to 5 instructions besides the frame's own, enough
for every structure complete and two nested, 2 locals, and 3 names of locals
left by an error; 3 words or word lists in memory with 3 names (two in one
bucket), 2 word lists and a search order of 2 places instead of 16, so that it
fills, and memory that is reused after `forget`.

`inner`: words of 6 bits and ints of 4, so that the arithmetic instructions meet
integers on both sides of every edge of a word, an int and their halves, and an index cut
to an int is any of 0, a small one, the largest and a negative one; floats are halves
between -2 and 2; 17 families of programs, each with the instructions of one part
(shuffling, indices, arithmetic, loops, locals, memory, calls...) and stacks of one cell
more than the widest needs. `numbers`: words of 6 bits, floats of 4, numbers on both
sides of a fixnum, a word, an unsigned word and a float, two cells and one or two
operations deep. For `rationalize` X and ERR are integers, ratios and floats down to
9/512, so that a float can tell smaller numbers apart than words can hold as a ratio;
12 rounds of its loop in place of a million. Beside ERR the rounding of a float is allowed
for, (|X| + 1) / 2^`Mantissa`: all steps of the continued fraction are floats. `io`: ten
sessions, each with the words of one question (reading, writing, strings,
backups, files, pipes, redirections twice, nested redirections three deep,
sockets), 3 to 6 words long, texts of up to 5 characters. `procs`: every stack of
up to 5 cells, keywords and undef among them, for the argument words; sessions of
4 to 7 words with 2 procs, 2 hooks and one variable for the others, two procs
deep; one of 5 words with a proc that takes a keyword from below its arguments.

Fairness. Only `FthVm` has any: weak fairness of `Unwind` and `UnwindDead`,
because `longjmp` runs without giving control to anything else. What programs
do is never assumed to happen.

`CHECK_DEADLOCK FALSE` where a bound (scopes, instances, depth, length of a
session) or a crash really stops the model.

## Where code and documentation part

Met while modelling. The first is the run `gc_last`; in the others the abstract
specification or the property says what the code does, or makes it an exception,
which is named here.

- `gc_run` (`object.c:541`, and the sweep after it) ends one slot short.
- `array-subarray` (`array.c:1699`) copies the length of the whole array from
  START on: it reads behind the last element when START is not 0, and
  it writes behind the block of the part when that has fewer cells than the whole
  array: `0 0 array-subarray` on 100 cells writes cells 42 to 141 of a block of 128.
  `cdr`, `cddr` and `list-head` do the same. Exception: `Overrun` in `DataInBuffer`;
  `OnlyPartsOverrun` checks that no other word needs it.
- `pick`, `roll` and `-roll` (`vm.c:686`, `710`, `735`) check the stack for `(int)i + 1`
  cells and go by `i`: 2^32 passes as 0 and reaches outside of the stack, though
  `ficlStackCheck` is to throw (`stack.c:98`). Exception: `CutIndex` in `ChecksHold`.
- `abs` (`vm.c:1556`) cuts its operand to an int: of the least integer it gives 0,
  where `coretest.fth:291` expects the least integer. Exception: `FthEffects` promises
  `abs` for ints.
- `um/mod` (`primitives.c:2925`) leaves quotient and remainder the other way
  round than its documentation; `FthEffects` has them as the code does.
- `rt_to_float` (`numbers.c:3355`) takes a ratio's parts through words that stop at
  `ULONG_MAX`: `0.0001 0.00001 rationalize` is not within ERR of X, as its help says.
  Exception: `RationalizeWithin` speaks of an X whose exact ratio is one of words.
- `list-delete!` (`array.c:2786`) may raise after it has deleted everything;
  `set-cdr!` of a list of one gives a list of which the program's is not a part
  any more; `list-tail` out of range gives the list itself, not nil.
- `cons`, `cons2` and `acons` change the list they are given; the bisection of
  `list-assoc` misses keys behind an unsorted `acons` (`array.c:3068`).
- `fth-catch` for one exception catches every one (`misc.c:1934`); an inner one
  makes the outer one report what it catches (`misc.c:1909`).
- After an error in a definition with locals, `:noname ;` compiles an unlink
  without a link (`primitives.c:2387`); a symbol first used between `create` and
  `does>` takes the `DOES>` part (`vm.c:1229`).
- `string-shift` (`string.c:1428`) loses the NUL when it recentres: `string=` of
  the rest with an equal string may then be #f. `string-replace!` (`string.c:2234`)
  goes on with the old block after a `realloc` that moved it.
- `c<>` and `c0<>` are #f when only one part differs (`numbers.c:2377`, `2412`);
  `ud` words read a negative long-long as a ratio (`numbers.c:1317`); `qfloor`
  and `qceil` read any number as a ratio (`numbers.c:3584`); after a number too
  large for `strtoll`, `errno` makes the next number text fail (`numbers.c:2056`).
- The `with-*-to-port` words leave the port redirected after an exception
  (`port.c:968`). A string opened for reading and writing while it is empty
  has a position before its first character (`io.c:889`). The end-of-file flag
  outlives a seek (`io.c:642`). A failed name lookup leaks a descriptor
  (`io.c:1787`).
- `get-optkeys` with two keys rolls by the index of its array (`proc.c:1862`);
  several results of a proc come in reverse (`proc.c:574`); `proc-apply` cuts its
  arguments to the arity, keywords included (`proc.c:773`); `make-proc` changes
  the word it is given (`proc.c:352`).
- A hook from which a proc takes another while it runs skips one and adds #f
  (`hook.c:689`); a `to` compiled before `trace-var` does not run the hook
  (`primitives.c:2663`).

## Proofs

Eight modules prove about the components they extend, for every value of the
constants. TLC found each invariant true on the instance of its run before; the
inductive ones say more than the run's properties and hold there too. In all of
them the pattern is the same: one lemma per action (or group of actions that do
the same to the invariant), a step lemma that puts them together, and a theorem
for each property.

`FthScopesProofs` (the discipline of frames), for every `GC_FRAME_SIZE`, every
number of objects and every nesting bound: `TypeCorrect`, `ScopeInvariant`,
`ScopeObjectsSafe`, `FramesSafe`. `ScopeObjectsAlive` is not inductive: that a
collection spares an object depends on the object being listed, that it is
listed after the scopes inside end depends on their bases being above the frame
that lists it, and that CATCH puts back a list that has it depends on what CATCH
saved. `ScopeInv` is `TypeOK` and, while the frame stack lasts, these three, `OwnedListed`, `BasesOrdered` and
`SavedListed`, and that listed objects are live (needed since CATCH restores
lists older than the last collection). `PrefixSafe` carries the invariant to the
scopes left when a throw or a signal drops the rest.

`FthGcProofs` (the collector), for every number of slots, chunk size, frames,
variables and limits: `GcInvariant`, `FreeListSafe` (`FreeListSound`),
`HeldSafe` (`HeldAlive`), `FramesProtect` (`FramesKept`), `ElementsKept`
(`KeepsElements`). `GcInv` adds to `FreeListSound` that FREED is never set beside
another bit (`MarksSound`: otherwise a bit taken away by `fth_gc_unprotect`
could make an instance look freed), and that whoever counts on the PROTECT bit
has it, on an instance below `last_instance`, unless another holder took it away
(`HeldMarked`). `OnlyGarbageFreed` says what a collection frees, whichever of
the four paths of `gc_next_instance` it is part of; `FramesProtect` is what
`FthScopes` takes a collection to do. `MarkedElements` is a least closed set, so
that marking through containers needs no recursion (`ElementsClosed`).

`FthVmProofs` (exceptions), for every set of exceptions and every depth of the C
stack: `VmInvariant`, `HandlersNest` (`HandlerInnermost`), `CatchReached`
(`NoCatchSkipped`), `ReportsWhenUncaught` (`QuietUntilNested`),
`CatchAllGivesRaised` (`GivesWhatWasRaised`) and `NoDeadJump`: without a signal
no `longjmp` goes to a function that has returned. `VmInv` is `Shape` (buffers
belong to functions further down the C stack, also after signals), `Nested` (with
no signal so far, each function puts back its caller's buffer), `Guarded` (the
catch an exception should end in is still there, and no other is above it),
`Flagged` (`fth_catch_p`, and the copy that each CATCH has of it, is set only
under an fth-catch and clear only when every fth-catch around has ended another)
and `Recorded`. The copies have to be part of it because CATCH puts them back,
and `Flagged` is about the stack below each of them, since that is what is left.

`FthTablesProofs` has the hashes, for every number of buckets, all keys, values and
hash-ids, collisions included: `HashInvariant`, `EachVisitsOnce` (`VisitsOnce`),
`MapMakesKeys` (`MapFollowsWalk`), `HashIsMap`: `Spec => RefinesMap`, every step
is one of `FthMap` or a stutter; and `TablesKeep`, the same for the specification
the run checks. `HashInv` is `Table` (each key is in the bucket of its hash-id,
once, and the length counts the keys), `WalkSound` (what a walk has visited and
is still there is what it has passed; it has visited all it passed that stayed),
and `OutSound` (the hash that `hash-map` fills is a `Table` of the keys whose
block returned). What a step of the walk needs is the order of entries across
buckets and chains: `SetTable`, `DeleteTable`, `EmptyTable` say for each word
which keys there are, what they mean, and that the order of the others in a
chain stays; `FollowingIs` says that the entry the loops go to next is the
least of those behind.

`FthTablesProofs` has the association arrays too, for every length and all ids:
`AssocSorted`, `BisectionFinds` (`AssocFindsEveryKey`), `AssocOthersStay`
(`AssocOthersKeep`). `AssocInv`: the cells are sorted by id until `acons`.
`SearchFinds` is the bisection: for every pair of ends, by the distance between
them.

`FthForthProofs` has the dictionary, for all names, buckets and word lists and any
size of memory and of the search order: `DictInvariant`, `ChainsGoDown`
(`ChainsEnd`), `LookupFindsMeaning` (`FindsMeaning`) and `ImplementsNames`
(`RefinesNames`): every step is one of `FthNames`, or leaves pointers into free
memory (`broken`). `ChainsEnd` is not inductive. That a word just defined goes in
front of its chain needs all linked words to be older than it, also a definition
that was begun before other words were made: so `ChainSound` has them at or below
`smudge`, and `DictInProgress` says that a definition in progress is hidden, hence in
no chain. That `forget` keeps just the words below an address needs `ListsBetween`:
a word list that goes has no word that stays, though a list may be younger than
its words when it was made inside of the definition of one (`DictInProgress` again).
Chains are walks in any memory (`Chain(ws, a)`): `ChainLeast` and `ChainClosed` make
them the least closed sets from their first word, so that `ChainAgree`
(a memory with the same links has the same chain), `ChainCons` (a word in front)
and `ChainCut` (the words below an address are a chain) need no recursion.
`OwnIs`, `HashLookupIs` and `LookupIs` go from buckets to lists to the search order.

`FthForthProofs` has the compiler too, for any names, any number of locals and any
length of a definition (the rest of a behaviour leaves it alone, `HasBody`): `FrameInvariant`, `CompilerTypes` (`TypeOK`) and
`FramesAreMatched` (`FramesMatch`). `FramesMatch` speaks of accepted definitions;
`Framed` is what holds of one in progress: the (link) that `localsFixup` names is
the frame at its end and holds the number of its locals, and every instruction
so far is as `FramesMatch` wants it. Structure words patch by addresses they
find on the stack, so that no (link) is overwritten by one needs `Groups`: from
some cell on, the stack consists of whole groups (an address and its tag; a
case's addresses, their number and tag), and the addresses to patch are those
of branches. That cell is the bottom, unless a `while` stood between the cells of
a `case`, which it tears apart: `endcase` is then the only word that can go
below, and what it writes to is no address (`wild`), so the behaviour ends
(`Broken`). There is one lemma per structure word, and four about code alone
(`FramesAppend`, `FramedStructured`, `FramesBegin`, `FramesLeave`).

`BranchInvariant` is the one for `BranchesAreResolved` (`BranchesResolved`) and
`BodiesAreClosed` (`DoBodiesClosed`). Both properties leave out definitions with a
`while` outside of `begin`, so the invariant is about definitions without one so
far (`loose`), and there it says more of the stack than `Groups` (`Branchy`). `Nested`: each
group lies in the one it needs (an `of` in its case, a `do` above its `leave`), with
a branch of its own word. `Serves`: the branches that wait are those the cells
name, and no place to go back to is in a loop that is closed. `Ordered`: the
addresses of waiting branches grow with the stack, hence no two cells name the
same one, and no place to go back to is younger than a branch above it. Of the code
it says (`CodeRight`) that each patched branch goes where `BranchesResolved` and
`DoBodiesClosed` want it, that no waiting one is in a closed body, and that
nothing goes across a `do` that waits (`Apart`): that is what makes its body closed
when `loop` comes. (`while` puts its branch below the older place that `repeat` goes
back to: of a branch and a place above it, only `leave` and its `do` are in order.) There is one lemma
per word for the code and the stack together (`IfRight`, ..., `EndcaseRight`); `;`
finds the stack down to the tag of `:`, so nothing waits (`LastBranches`).

`FthArrayProofs` (arrays and lists), for every chunk of two cells or more, every
largest buffer and any values, indices and inserted arrays: `ArrayInvHolds`,
`DataStaysInBuffer` (`DataInBuffer`) and `PartsAlone` (`OnlyPartsOverrun`). The invariant
is `ArraySafe`: `ArrayInv`, or a part has been moved over the end of its block and
nothing follows (`Overrun`). `PartsAlone` says what that exception is worth: each word
but those that copy a part leaves `InBlock`, so that no other write is hidden by it.
What `DataInBuffer` says of the record is
nearly inductive; growing needs that `top` is at most half of the largest buffer
(`Fits`), which recentring sees to, and insertion at the front that its loop stays
inside of what is inserted (`Loops`). Each word has a lemma that says more than the
invariant needs: `Holds(a, s)` is that the record a is an array with the elements
s, and `PushHolds`, `UnshiftHolds`, `ShiftHolds`, `InsertHolds`, `DeleteHolds`, ...
say which elements a word leaves. `SameData` (`ResizeKeeps`, `GrowKeeps`,
`ShrinkKeeps`) is what `realloc` leaves alone.

`FthStringProofs` (strings), for every chunk of three cells or more, any chars,
integer indices and lengths, and any strings put in: `TextStays` (`TextInBuffer`).
`TextInBuffer` becomes inductive with the buffer's least length: a third of it
must be a cell at least, or `string-shift` and `string-unshift` would put the chars
at the first cell when they recentre (`IsSized`). `string-replace!` keeps it because
each turn makes room for what it puts in from the length the string has at that
turn, wherever `strstr` finds the next one (`TurnIs`, `ReplacementIs`). What a word
answers is of one of `Kinds`.

`FthHookProofs` (procs and hooks), for any words, variables and hooks, any stack, any
depth of calls and any sessions: `ProcInvariant`, `ProcTypes` (`TypeOK`), `RunsOnce`
(`RunsEachOnce`) and `StackStays` (`StackKept`). Both properties speak of the moment a
run or a proc ends; `ProcInv` is what holds of all frames meanwhile. `Running`: a
run of a hook that has lost no proc has called the procs up to the one it is at,
those it began with are still the first ones, and it has a result for each that
came back; it is an invariant although any proc may add to the hook, make it run
again inside of itself, or trace a variable, since a change of a hook marks every
frame that runs it (`EditedIs`). `Stays`: what was below the arguments when a proc
began is there as long as nothing has touched it, for all frames at once, though
only the last one's proc is running (`StaysLow`); with the depth that
`fth_proc_apply` notes this is what `execute_proc` leaves (`ResultIs`). Every word that
looks for arguments is shown to leave a stack of cells, whatever keywords it finds
and wherever (`OptkeysIs`, `ArgsOptionalIs`, `LocalsRunIs`); which ones it finds is
`ArgumentsBound`, and stays with TLC.

Functions defined by recursion (the walk along links, the entries of all chains, `hash-copy`,
`assoc_index`) are `CHOOSE`s to the prover: each has a lemma that a function
with that equation exists (`WalkIs`, `EntriesRuns`, `SetAllRuns`, `SearchRuns`; `Recursive` for
any sequence of steps; `FoldRuns` for the folds of the community modules), built from those on shorter arguments. Induction is `Upward`: a set of naturals that
holds 0, and n + 1 with n, holds all of them. It is a fact about sets,
not about predicates, and rests on `Least` (a set of naturals with a member has
a least one, by `NatLessThanWellFounded` of the library).

Assumptions are those of the modules: at least one frame, natural bounds,
markers that are not values; of a session (`ProcAssumption` of `FthProc`), that its
cells, arities and definitions are of the kinds there are. Two are there for the
proofs alone:
`None \notin Flight` (`FthVm`: "no exception" is not an exception in flight) and
`NoEntry # Freed` (`FthHash`: the place before the first entry is not freed
memory). That indices and lengths are integers (`FthString`) is what the words that
take them check.

Only model-checked:

- `ThrowEnds`, liveness under fairness: out of the prover's reach.
- `RefinesSeq`: the elements after each word are in the lemmas of `FthArrayProofs`;
  but `FthSeq` says with `SelectSeq` what removing words give (`Compact`, `Uniq`, `Remove`),
  whose recursion the prover cannot expand.
- `RefinesText`: that the words on strings give the results of `FthText`, not
  attempted so far.
- `ChecksHold`, `RefinesEffects`: shifts use `Bitwise`, which no module with a
  theorem may reach.
- `LowestTerms`, `RefinesRational`, `RationalizeWithin`: they rest on greatest
  common divisors, for which the library has no facts.
- `ArgumentsBound`: it compares two computations that go through the same arguments
  by recursion or a fold, from different ends; what each gives for every stack is an
  induction over data.
- `WrittenInOrder`, `RedirectionsUndone`, `CursorKept`, `BackupsKept`: not attempted so
  far.

## Not modelled

See the components with status `not_modelled` in `PROJECT.json`. In the modelled
ones: property lists (kept in instances, outside of what the collector marks
from); data space (`allot`, `,`), `see` and `forget-wid`; cyclic containers (the
collector's marking recurses without end, `object.c:823`), `gc-mark` and
`gc-unmark`; `array-sort` and `list-sort` (`qsort` on a buffer that the compare
proc may move, `array.c:1601`: undefined), `array-join`, nested copies; regular
expressions, the C library's; `sprintf` and formatting; transcendental functions
and random numbers; directories, permissions and times of files, nonblocking
descriptors and datagrams; VM statuses of `bye` and `break`; input buffers; what
happens after a use of freed or foreign memory (`overrun`, `wild`, `broken`,
`undefined`, `crashed`): the behaviours end there.

Words on lists run between the loops of `FthArray` only: a callback that is in
the middle of `array-reject!` changes the array by the words of `FthArray`.

## Plan

1. Proofs: `RefinesSeq` of `FthList`, `RefinesText` of `FthString`.
2. `FthProps`: property lists under the collector; `FthConfig`: autoload and
   features.
3. `FthFormat`: the directives of `printf.c` as a state machine over arguments.

# Verification of linc_tools

linc_tools is a set of C headers that are concatenated into one
(`amalgamate.lua`): growable arrays and strings, a dictionary, a prefix tree, a
command-line parser, a layout tree for terminal panes, logging, and checked
system calls. Its tests run under a vendored copy of the Unity test framework,
on whose verdict everything the repository tests depends. This directory holds
TLA+ models of all of them, the TLC configurations that check the models on
small instances, and proofs that TLAPS checks for every value of the constants.

Nothing in the library is concurrent: it starts no thread and takes no lock.
What is hard about it is memory: who owns a block, whether a pointer taken
before a `realloc` or a `memmove` is still good after it, whether a size
computed in `size_t` wraps; long sequences of legal calls; the recursion over a
tree that calls back into the program at every leaf; callbacks that fail; the
one `errno` that a failing call, the log and the fatal handler share; and the
`longjmp` by which a failed assertion leaves a test.

## The parts of the system

Paths are relative to `src/` of the repository. "Fatal" is
`_LINC_LIB_FATAL` (`common.h`): a message and `abort()`.

| part | state | operations | uses | what makes it correct |
|---|---|---|---|---|
| `common.h` | none | `_linc_lib_fatal` | | the process ends and no operation is half done that anyone could see |
| `hda.h` dynamic array | a handle: null, or a block of two header words `size`, `cap` and the elements | `hda_push`, `hda_insert(_buf)`, `hda_delete`, `hda_free`, `hda_size`, `hda_cap`, `hda_last` (over `_hda_reserve`, `_hda_grow`) | common | it is a sequence; elements lie inside the block whatever sizes are asked for; arguments may be elements of the array itself; growth is amortised |
| `hds.h` dynamic string | an hda of `char` whose last element is NUL | `hds_append(_n,_fmt)`, `hds_copy(_n,_fmt)`, `hds_len`, `hds_free` | hda | one NUL, at the end; `hds_len` agrees with `strlen`; sources may be parts of the string itself |
| `kval.h` dictionary | an hda of pairs of pointers to a key block and a value block | `kv_create`, `kv_add`, `kv_set`, `kv_lookup`, `kv_delete`, `kv_foreach`, `kv_free` | hda | it is a dictionary; every block is owned by one field of one pair; pointers from `kv_lookup` stay good; order is predictable |
| `splitty.h` layout tree | nodes (leaf, split, quad), each with its last rectangle; leaves have `is_data_init` and user data behind callbacks | `sp_new_leaf`, `sp_new_split`, `sp_new_quad`, `sp_refresh`, `sp_free`, `sp_data`, callbacks `init_data`, `resize`, `free_data` | calls back into the program | leaves tile the screen; a leaf hears of every change and of nothing else; every node and its data is freed once |
| `trie.h` prefix tree | nodes with 256 child pointers, `child_n`, `term`, `data` | `trie_create`, `trie_add`, `trie_put`, `trie_lookup`, `trie_destroy` | common | the status of a lookup is the relation of the word to the set of keys; blocks owned once |
| `args.h` command line | the caller's option table (`found`, `opt_arg_found`, the value), getopt's `optind`, `opterr`, `optarg` | `args_parse` | getopt_long | the result, `found` and the values tell what the command line says; `opterr` restored on every path |
| `dstr.h` string with fields | `c_str`, `len`, `size`, `cap` | `dstr_init`, `dstr_push`, `dstrcat`, `dstrncat`, `dstrcpy`, `dstrncpy`, `dstr_printf`, `dstr_clear`, `dstr_reserve`, `dstr_free` | common | `size` is `len + 1`, the string fits in `cap`, the text is what the calls spell |
| `darr.h` array with fields | `data`, `size`, `cap` | `da_init`, `da_push(_init)`, `da_insert`, `da_delete`, `da_reserve`, `da_free` | common | as hda, without header words, and with slots the caller writes |
| `llog.h` logging | a sink | `llog_log` | dstr | the sink sees a message without control characters; `errno` survives |
| `xfuncs.h` checked calls | a handler | 34 wrappers, one per system call | the kernel | no failure reaches the program; the handler is told the call that failed and its `errno` |
| `hash.h` | none | `hash_str` | | a pure function of the bytes |
| `unity/unity.c` assertions | the flags and counters of the current test | the `UNITY_TEST_ASSERT` functions and what they print | | an assertion fails exactly when what it says does not hold |
| `unity/unity_fixture.c` test runner | options, counters, the store of redirected pointers, a jump buffer | `UnityMain`, `UnityTestRunner`, `UnityIgnoreTest`, `UnityPointer_Set`, `UnityPointer_UndoAllSets` | assertions, setup, body and teardown of every test | every test is counted once by its first verdict; pointers are back after it; the run ends |
| `amalgamate.lua`, `makefile` | files | concatenate, build, run tests under valgrind | | no model: file handling and a build |

`hds` and `kval` are built on `hda` and are modelled over the same operators;
`llog` is built on `dstr`. `llog` and `xfuncs` meet in `errno`: a sink may make
checked calls and the fatal handler may log. The runner drives the assertions.
The other parts do not call each other. The makefile builds with
`-D_GNU_SOURCE -DUNITY_OUTPUT_COLOR -DUNITY_FIXTURE_NO_EXTRAS`, and so do the
models of Unity.

## The modules

| module | stands for |
|---|---|
| `HdaOps` | the functions of `hda.h` as operators on the value of a handle |
| `Hda` | one array under any sequence of calls |
| `AbsSeq` | what an array promises: a sequence |
| `Hds` | one string under any sequence of calls, over `HdaOps` |
| `AbsStr` | what a string promises |
| `Kval` | one dictionary, its heap blocks and a pointer a caller holds, over `HdaOps` |
| `AbsMap` | what a dictionary promises |
| `SplittyRects` | the arithmetic of `_sp_calc_split` and `_sp_calc_quad` |
| `Splitty` | the layout tree, one step per recursive call and per callback |
| `Trie` | the prefix tree, with a count of the data blocks |
| `AbsTrie` | what a trie promises: a set of keys with data, and lookups that place a word in it |
| `Darr` | one array of `darr.h`, over the same operators, implementing the same `AbsSeq` |
| `Arrays` | a process that uses an `hda` or a `darr`, over the same memory |
| `Dstr` | one string of `dstr.h` and the text its calls spell |
| `Hash` | `hash_str` |
| `CharStrings` | a process that uses an `hds` or a `dstr`, over the same memory, and hashes texts |
| `Args` | `args_parse`, again and again on one table, one step per return of `getopt_long` |
| `Llog` | `llog_log` with nested calls, and the conversion of a message |
| `Xfuncs` | the wrappers, the collecting of the report, the handler |
| `Diag` | `Llog` and `Xfuncs` in one thread, over one `errno` |
| `Process` | a process that parses command lines (`Args`) and logs and makes checked calls (`Diag`) |
| `UnityAsserts` | for each assertion, when it fails and what it prints for two numbers |
| `UnityFixture` | the runner, one step per option, per function of a test, per assertion and per pointer that is undone |
| `UnityRun` | a process that runs the suite, or makes one assertion on its own |
| `MCHda`, `MCHds`, `MCKval`, `MCSplitty`, `MCTrie`, `MCProcess`, `MCUnity` | the finite instances TLC checks |
| `HdaOpsProofs`, `HdaProofs` | proofs about the arrays of `hda.h` and `darr.h` |
| `HdsProofs` | proofs about the strings of `hds.h` and `dstr.h`, from `HdaOpsProofs`, and about the hash |
| `KvalProofs` | proofs about the dictionary, from `HdaOpsProofs` |
| `SplittyProofs` | proofs about the layout tree |
| `TrieProofs` | proofs about the prefix tree |
| `ProcessProofs` | proofs about the command line, the log and the checked calls |
| `UnityProofs` | proofs about the assertions and the test runner |

`Arrays`, `CharStrings`, `Process` and `UnityRun` compose parts of the library and
declare what is common to a run and the proofs about it: TLC instantiates them in
`MCHda`, `MCHds`, `MCProcess` and `MCUnity`, the proof modules extend them, and so the
theorems are about the very formulas the runs check.

### Memory, as the models see it

`HdaOps` has integers of the width of `size_t` (`Word`), a request that the
allocator refuses when it exceeds `PtrMax` (`PTRDIFF_MAX`), and cells that hold
`Junk` until they are written. A handle is null or a record of the header words
`size` and `cap` and of the storage, which has one cell for every whole element
that fits in the bytes *the allocator returned*, not in the bytes the header
claims. So a product that wraps shows as a storage that is shorter than `cap`.
`memmove` and `memcpy` past the storage lengthen it, reads past it give `Junk`:
no invariant allows either. `realloc` is a new storage with the old cells, so an
operator that goes on using the old handle reads the old value. A fatal end is
the step `Abort`, after which nothing happens.

### Actions and calls

| action | code |
|---|---|
| `Hda`: `PushValue`, `PushOwn` | `hda_push(h, v)`; `hda_push(h, h[i])`, whose initialiser is evaluated after the array grew |
| `Hda`: `InsertBuf`, `InsertSelf` | `hda_insert_buf` with a foreign buffer; with a run of the array itself |
| `Hda`: `InsertMiscounted` | `hda_insert_buf` with a count no array can hold |
| `Hda`: `Remove`, `Free` | `hda_delete`, `hda_free` |
| `Hds`: `AppendForeign`, `AppendSelf`, `AppendFormatted` | `hds_append_n`, with another string, with `hds + k`, and `hds_append_fmt("s%s", hds + k)` |
| `Hds`: `CopyForeign`, `CopySelf`, `CopyFormatted` | the same for `hds_copy` |
| `Hds`: `Free`, `Renull` | `hds_free`, which leaves the caller's handle dangling; the caller's assignment of null |
| `Kval`: `kv_create` .. `kv_free` | the calls of the same names |
| `Splitty`: `sp_new_leaf`, `sp_new_split`, `sp_new_quad` | the constructors; C evaluates their arguments first, so the children are the youngest roots |
| `Splitty`: `sp_refresh`, `RefreshContainer`, `RefreshLeaf` | a call from outside; one recursive call at a container, at a leaf |
| `Splitty`: `InitSucceeds`, `InitFails`, `ResizeReturns` | the return of a callback and what `sp_refresh` does then |
| `Splitty`: `sp_free`, `FreeLeaf`, `FreeDataReturns`, `FreeChild`, `FreeContainer` | a call from outside and the steps of its recursion |
| `Trie`: `trie_create`, `trie_add`, `trie_put`, `trie_lookup`, `trie_destroy` | the calls of the same names, each with its whole recursion, which calls nothing outside |
| `Darr`: `PushSlot`, `InsertSlot` | `da_push`, `da_insert` of a slot the caller leaves unwritten, and `da_push_init` whose initialiser fails |
| `Darr`: `PushWritten`, `InsertWritten`, `DeleteOne`, `ReserveSome`, `Release` | the macros followed by the caller's write; `da_delete`, `da_reserve`, `da_init` and `da_free` |
| `Dstr`: `New` .. `NCpy` | the functions with foreign strings |
| `Dstr`: `Printf`, `CatOwn`, `CpyOwn` | `dstr_printf` of the string itself, which is cut at the size of its buffer; `dstrcat` and `dstrcpy` from inside the string |
| `Args`: `Start`, `StartFails` | `args_parse` up to its loop; a table that cannot be allocated |
| `Args`: `OptionRefused`, `OptionRead`, `OptionsDone` | a turn of the loop where `getopt_long` returns `'?'`, an option, -1, with the exit it may lead to |
| `Llog`: `LogOpens`, `SinkRuns`, `LogReturns`, `LogDies`, `LogIgnored` | `llog_log` up to the sink, the sink, the rest; a failed allocation; a log without sink |
| `Xfuncs`: `Call`, `Collect`, `HandlerEnds`, `HandlerJumps` | a wrapper with the call it makes; `_xfuncs_collect_xinfo`; a handler that returns or ends the process, or leaves by `longjmp` as the one of the tests |
| `UnityFixture`: `ReadHelp` .. `OptionsRead` | `UnityGetCommandLineOptions` |
| `UnityFixture`: `BeginRun`, `EndRun`, `MainReturns` | `UnityMain` around `runAllTests` |
| `UnityFixture`: `SkipTest`, `UnityIgnoreTest`, `StartTest`, `FunctionReturns` | `UnityTestRunner` and `UnityIgnoreTest` of the next test; setup, body or teardown is left by return |
| `UnityFixture`: `AssertFunction`, `AssertCondition`, `UnityIgnore`, `TestPass`, `UnityPointer_Set` | what a function of a test calls, with the jump of those that leave it |
| `UnityFixture`: `UndoLast`, `UnityConcludeFixtureTest` | a turn of the loop of `UnityPointer_UndoAllSets`; the end of a test |

In `Trie` a node is named by the characters on the way to it. A child pointer
that is not null is then a longer name in the domain of `trie`; `child_n`,
`term` and `data` are stored fields, as in the code, and can disagree with the
shape of the tree. `blocks` counts what `trie_add` allocated for data. `call` is the
last call, with the word it was given and what it answered; `AbsTrie` has the
same, so that an answer counts for the word that was asked.

In `Args` a place of the command line is a long option, one letter, or a plain text; the
letters of a cluster (`-ab`) have a place each. What is attached to a letter is an
argument or the rest of the cluster: which of the two is for getopt to decide, and so
are abbreviations of long names (`Begins`). A text is what `strtol` makes of it. The
table is any table: getopt reads the `short_opts` that `args_parse` wrote up to the
first NUL (`Shorts`) and `long_opts` up to the first null name (`Longs`), in each the
first entry that fits counts, and what `getopt_long` returns is the `short_name` of that
entry, by which `args_parse` looks up an entry of its own (`Counted`), not always the
same. In `Llog` and `Xfuncs` every call into the C library, the kernel or the caller's
code leaves any `errno` behind.

In `UnityAsserts` a number is a bit pattern of `UNITY_INT`, cast by the macro of
each assertion; a pointer is null or what it points to. `Fails` follows the
code of each function, `Holds` says what the name of the assertion promises, and
`VerdictExact` compares the two. `Legal` says which calls a test can make at all:
an array and its length, its element size and the block it is read from agree, a
string is a text or null, and a tolerance is one that C can compute. The tolerance of a
WITHIN macro is cast to the unsigned type of the macro's width first (`Tolerance`),
and `Holds` is stated for what is left of it. In `UnityFixture` a step of a test is any of
the assertions, so a test may go any way in any repetition. `tally`, `first` and
`origin` are ghosts: how many tests ended with which first verdict, and the
pointers before the run.

Preconditions that the code asserts (an index in range, a ratio between 0 and
1) limit the inputs of the actions. They are duties of the caller.

## What TLC checks

| run | question | result |
|---|---|---|
| `hda` | do memory bounds, initialisation, the cost of growth and the sequence hold under every mix of calls, with aliased arguments and counts that overflow, and for `darr` with slots that stay unwritten? | holds |
| `hds` | is there exactly one NUL, and does the string read as the caller means when sources are parts of it? Do the fields of a `dstr` agree with its text and its block? Is the hash of a string the polynomial of its bytes? | holds |
| `dstr_overlong` | is a string a C string whose NUL is at `len`? | violated, see Findings |
| `kval` | does the dictionary leak, dangle, duplicate keys, invalidate a caller's pointer, reorder, or answer wrongly? | holds |
| `kval_charptr` | are keys unique when one is given as a literal and through a variable of type `char *`? | violated, see Findings |
| `splitty` | with nested splits or a quad, flaky inits, repeated refreshes and roots that become children: do leaves tile, is each node freed once, does each leaf hear of every change and only of changes, does every call return? | holds |
| `splitty_widegap` | do the leaves tile when a vertical split is narrower than its gap? | violated, see Findings |
| `trie` | do counters and lookups stay exact when words that begin, extend and repeat each other are added in any order, with and without data? | holds |
| `trie_readd` | does `trie_destroy` release everything? | violated, see Findings |
| `process` | do parses of any command lines leave in the table, in `opterr` and on stderr what they should, after failures too, with clusters, abbreviations, and entries that share or lack a letter or a name? Do log messages, `errno` and the reports of failed calls stay right when sinks make checked calls and the fatal handler logs? | holds |
| `args_noletter` | is `found` set for the option that was given, when some options have no letter? | violated, see Findings |
| `unity` | does every assertion fail exactly when it should and print the numbers it compared? Are tests counted by their first verdict, pointers restored, and does the run end, whatever setups, bodies and teardowns do? | holds |

### Bounds, and why they are enough

* `hda`: `SizeMax = 63`, `PtrMax = 31`, elements and header of 4 bytes. The
  ratio of the limit to `SIZE_MAX` is the real one. Capacities grow to 2 and 4, or
  to 3 and 6, the largest there is room for, so that a doubled request (8
  elements, 36 bytes) meets the limit; `InsertMiscounted` uses every
  count that is too large, those whose product wraps among them. Two element
  values tell cells apart; with `MaxBuf = 3` a buffer crosses a growth step.
  The `darr` of the same process has no header: 7 elements at most, and
  `MaxMin = 15` for what is reserved is twice that, so that doubled requests and
  requests by the caller both meet the limit and the width.
* `hds`: 15 bytes at most, 8 of header: 6 characters and the NUL; `MaxStr = 3`. A `dstr`
  gets `DstrMax = 7` bytes, the same 6 characters, and the buffer of `dstr_printf` is
  `FmtMax = 5`, less than the string and a source together, so that texts are cut. The
  `n` of `dstrncpy` and `dstrncat` goes `Beyond = 2` characters further than the source,
  enough to leave a byte unwritten and to append there. The hash is one of 6 bits over
  3-bit characters, so that sums wrap in strings of three letters; one of the letters is
  negative as a `char`.
* `kval`: three keys let a delete hit the first, a middle and the last pair; two
  values; 7 addresses are those of three pairs and one temporary key, so every
  freed address is reused at once if there is a step that would let it be seen.
  Elements of 2 bytes make the pair array grow to 2 and then 4. `VIEW Structure`
  replaces addresses by what the properties read through them: no call looks at
  an address except to compare it with another or to read the block, and the
  cells above `size` are never read.
* `splitty`: `MaxSplitNodes = 7` is a split below a split with both gaps;
  `MaxNodes = 10` a quad and its nine leaves, which a process builds in one
  expression before it shows or frees anything (`QuadFirst`). Gaps of the
  quads are below, between and above the sizes. `MaxShown` bounds how many
  different nodes the caller ever refreshes as roots. Ratios are in quarters, so
  that halves of odd sizes are cut off; rectangles differ in place, in size and
  in both. `Flaky` names leaves whose `init_data` may fail, again and again.
  `MaxManyShown = 4` bounds the nodes of a process that refreshes several of them as
  roots, up to all four, or leaves out a gap: one split with its children, each of
  them shown before the split was made or not (`Small`).
* `trie`: six words over two letters: the empty one, a branch of three, and a
  fork, so that every node can be a key or not, extended by one branch, by two or
  by none; two values tell old data from new; `MaxBlocks = 3` bounds the blocks
  that exist at a time, lost ones among them (adds without data go on).
* `process`: an `int` is -1 .. 1, so that numbers fall below, into and above it. The
  table has entries without argument, with a required and with an optional
  argument, of both types; two entries are the same, two have only a name, and one
  has only a letter, which the NUL of those hides. Elements are single letters,
  clusters, letters with an argument attached, names, abbreviations of one option and
  of two, and plain texts. `MaxArgs = 2` elements let an
  option take the next one, or miss it at the end; `MaxCalls = 2` parses of one
  table show what the first leaves for the second. `args_noletter`
  has three entries, one option on the command line and one call. `MaxDepth = 2` is a log
  call in a sink of another. `BtSize = 4` has full, short and empty backtraces.
  Texts have a letter, escapes of both kinds, both ends of the range of control
  characters, DEL and a byte above 0x7F. The parser and the log share no state, so
  the run looks at processes that do the one or the other.
* `unity`: a `char` has 2 bits and `UNITY_INT` 4, with both ends of each range;
  `VerdictExact` and `ReportTells` look at every call over all numbers of that width,
  arrays of at most two elements, strings of at most two letters, and floats that are
  small integers, infinite or NaN. The suite has three tests in two groups, one
  ignored; the functions of a test take up to three steps each, with two
  pointers to redirect and room for two entries, so that one may be set twice
  and the store may be full. Eight command lines use every option, and a
  missing argument of each that has one.

### Deadlock

`hda`, `hds` and `process` stop for good after a fatal end, `process` also when its
calls are used up, `splitty` runs when the allocation bound is reached and all
is freed, and `unity` when `UnityMain` has returned; these configurations say
`CHECK_DEADLOCK FALSE`. That no call of `splitty` gets stuck is the liveness
property `CallsReturn`, that the suite of `unity` does not is `SuiteEnds`. `kval`
and `trie` never stop and are checked for deadlock.

### Fairness

`Splitty` and `UnityFixture` have fairness conditions. In `Splitty` it is
`WF_vars(Return)`: a call of
`sp_refresh` or `sp_free` that was made runs on, and a callback that was called
returns. That is the C program running on its one thread, and the callbacks'
side of the interface. Nothing obliges the caller to call again, and nothing
obliges a flaky `init_data` to succeed, ever. In `UnityFixture` it is
`WF_vars(Next)`: the runner is one thread that nothing blocks; the tests it runs
take a bounded number of steps, which is what is assumed of them.

### Mutants

Beside some definitions stands "a variant with a mistake": the definition as a
plausible bug would have it (a guard dropped, a copy left out, an off-by-one).
No module uses them. Substituting the variant for the definition makes the named
property fail in its run: the property can tell the code from that bug.

| property (run) | definition | variant |
|---|---|---|
| `TypeOK` (hda) | `Insert` | `InsertReserveOnly` |
| `InBounds` (hda) | `InsertFails` | `InsertFailsUnchecked` |
| `Initialised` (hda) | `PushElement` | `PushElementOfLast` |
| `Amortised` (hda) | `NewCap` | `NewCapExact` |
| `RefinesAbsSeq` (hda), `RefinesAbsStr` (hds) | `InsertOwn` | `InsertOwnUncopied` |
| `TypeOK` (hds) | `Close` | `CloseUngrown` |
| `Terminated` (hds) | `AppendAt` | `AppendAtEnd` |
| `TypeOK` (kval) | `PushPair` | `PushPairNoValue` |
| `Ownership` (kval) | `AddExisting` | `AddExistingLeaks` |
| `UniqueKeys` (kval) | `Matches` | `MatchesFromOne` |
| `HeldIsValid`, `RefinesAbsMap` (kval) | `kv_delete` | `kv_deleteLate` |
| `OrderKept` (kval) | `Delete` | `DeleteUnordered` |
| `TypeOK` (splitty) | `Callback` | `CallbackAlways` |
| `Tiling` (splitty) | `Bands`, `QuadGap` | `BandsNoStep`, `QuadGapOfRows` |
| `FreedOnce` (splitty) | `LoopEnd` | `LoopEndEarly` |
| `CallsReturn` (splitty) | `AfterFailure` | `AfterFailureRetry` |
| `LeavesInformed` | `Callback` | `CallbackOnResize` |
| `FlagsExact` | `Flags` | `FlagsOfRows` |
| `TypeOK` (trie) | `Marked` | `MarkedWithoutData` |
| `Counted` (trie) | `ChildrenCreated` | `ChildrenCountedAgain` |
| `RefinesAbsTrie` (trie) | `Answer` | `AnswerEarly` |
| `DarrFits` (hda) | `DaRequest` | `DaRequestElements` |
| `DarrRefinesAbsSeq` (hda) | `da_insert` | `da_insert_short` |
| `DstrFits` (hds) | `dstrncpy` | `dstrncpy_tight` |
| `DstrSpelled` (hds) | `dstr_push` | `dstr_push_over` |
| `HashIsPolynomial` (hds) | `Byte` | `ByteSigned` |
| `ResultExact` (process) | `_args_get_int` | `_args_get_int_prefix` |
| `ValuesExact` (process) | `IntParsed` | `IntParsedKept` |
| `ErrorsAsAsked` (process) | `Leave` | `LeaveUnrestored` |
| `MessageClean` (process) | `Escaped` | `EscapedDecimal` |
| `ErrnoKept` (process) | `Opened` | `OpenedLate` |
| `OnlySuccessReturns` (process) | `MemoryChecks` | `MemoryChecksOfFiles` |
| `ReportExact` (process) | `Info` | `InfoErrnoLast` |
| `TotalsExact` (unity) | `UnityIgnore` | `UnityIgnoreAlways` |
| `PointersRestored` (unity) | `UndoLast` | `UndoFirst` |
| `VerdictExact` (unity) | `Gap` | `GapSigned` |
| `ReportTells` (unity) | `UnityPrintNumber` | `UnityPrintNumberOverflow` |
| `SuiteEnds` (unity) | `Abort` | `AbortToTeardown` |

## What is proved

### Arrays (`HdaOpsProofs`, `HdaProofs`)

For every element type, element size, header size and width of `size_t` that
satisfy `WidthAssumption` (the limit of the allocator is half the range of
`size_t`, and one element with its header fits), `ElemAssumption` and
`NullAssumption` (`Junk` and `NULL` are not values), and for all buffers:

* `TypeCorrect`, `MemorySafe` (`InBounds`), `NoUnwrittenElement`
  (`Initialised`), `GrowthIsAmortised` (`Amortised`);
* `HdaImplementsSeq`: an array implements `AbsSeq`, with `seq` the cells below
  `size`. Aliased arguments and fatal ends are part of it.

The argument is one inductive invariant, `IInv`: the handle is `Good` (size
within cap, the storage has exactly `cap` cells, the bytes of the capacity are
within the allocator's limit, cells below `size` are elements), `moved =< cap`
and `cap =< 2 * peak`. The properties alone are not inductive: without the limit
on the bytes, the next doubling might wrap; and the bound on `moved` needs the
link to the capacity, because what the last growth copied is at most half of
what it got. `HdaOpsProofs` proves what each operator does to a good handle:
that sums and products which pass the checks do not wrap (`NoWrap`), that a
grown block keeps the old cells (`GrowResult`), and what push, insert and delete
leave below `size` (`PushContents`, `InsertContents`, `DeleteContents`).

Of `darr.h`, for the same widths and whatever callers reserve that can be counted
in bytes (`MinsAssumption`, see below): `ArraysFit` (`DarrFits`) and
`DarrImplementsSeq` (`DarrRefinesAbsSeq`). The invariant `DarrInv` says that the
storage has exactly `cap` cells, that `size` is at most `cap`, and that the bytes of
the capacity are within the allocator's limit. The last part is what makes the
others inductive: `_da_reserve_imp` multiplies without a check, and the product of a
doubled capacity does not wrap because the bytes of the old one were at most half
the range of `size_t`. A slot
that nobody wrote is an element of the abstract sequence too, so the refinement
says that no call reads or moves a slot beyond `size`, or loses one.

### Strings (`HdsProofs`)

For the same widths and all elements and sources: `TypeCorrect`,
`AlwaysTerminated` (`Terminated`) and `HdsImplementsStr` (`RefinesAbsStr`).

The invariant says that a handle is dangling, or that there is a text without
NUL which it `Spells`: the handle is null and the text empty, or the contents
of the array are the text and one NUL. `Terminated` alone does not carry a step,
because an append puts its characters over the NUL and then pushes a new one;
in between there is none. The lemmas follow the calls through that moment
(`Contains`: what the array holds without its NUL) and use
`InsertContents` and `PushContents` for what the array does. A source inside the
string is read before it moves (`InsertOwn` copies it first, `hds_append_fmt`
prints it first), and `EmptiedResult` says why `hds_copy` may read its source
after the array was emptied: the cells are still what they were.

Of `dstr.h`, for every allocator limit and size of the format buffer
(`FormatAssumption`): `DstrsFit` (`DstrFits`) and `DstrsSpell` (`DstrSpelled`). The
invariant `DstrInv` says that the struct is zero and its text empty, or that it
`Holds` the text: the fields agree with each other and with the storage, the first
`len` cells are the text, and a NUL follows. An `n` of `dstrncat` larger than its
source ends that (`intact`), since the bytes up to `len` are then not written; what
remains for such a string is that `size` is `len + 1` and within `cap` (`Sized`), and
the next copy or clear makes it hold its text again. A text may contain NULs itself, because
`dstrncpy` fills up with them and `dstr_push` takes any character; that `strncat`
still appends behind the text is because it is given the cell at `len`, which is
the *least* place with a NUL from there on. `StrAt` chooses a least place, and that
there is one is a fact about well-founded sets (`Least`).

`HashesExact` (`HashIsPolynomial`): `hash_str` of every string is the polynomial of its
unsigned bytes in 31, reduced once at the end, for every width of the hash and of a
byte (`HashAssumption`) and every code of the characters, negative ones among them
(`CodeAssumption`). The loop and the polynomial are recursive functions, and the
proof is by induction on the characters that were read: what was summed so far and
what the loop has, times the power that is left, differ by a multiple of the
width (`HashStep`). `Induction` and `RecursionExists` stand in for the induction
theorems of the library: they speak of a set and of a function where those have an
operator as a parameter.

### The dictionary (`KvalProofs`)

For every set of keys, values and addresses, where the elements of the array
are the pairs of two addresses (`PairsAssumption`), `NULL` is no address or
value (`KeysAssumption`) and freed memory reads as no key (`CanonAssumption`):
`TypeCorrect`, `OwnershipCorrect` (`Ownership`), `HeldValid` (`HeldIsValid`), and
`KeysUnique` (`UniqueKeys`) if no key is a variable of type `char *`; with such
keys it does not hold, see Findings.

The invariant looks at a dictionary as the sequence of its pairs and the map of
its blocks. `Owned` says that the fields of the pairs and the blocks correspond
one to one, `Unique` that canonical keys differ, `HeldIn` that the caller's
pointer is the value of a pair with its key. None is inductive by itself:
`Unique` is needed for the pair that a lookup finds to be the only one, `Owned` for
the two blocks that go with it to be no one else's. `AddOwned` and `RemoveOwned` carry
all three over a new pair and over a removed one, and `kv_set` is the one after
the other, with a new value that may get the address just freed.

`OrderIsKept` (`OrderKept`) and `KvalImplementsMap` (`RefinesAbsMap`) follow step by
step. They look at a dictionary as the list of what its pairs say (a key and a
value each). A new pair is an `Append` to the list and a delete takes out one
entry (`KeysAppended`, `KeysWithout`), so the order of the others is kept; this
holds with `char *` keys too. The list `Means` one dictionary when its keys differ
(`MeansAppend`, `MeansWithout`): `KvalImplementsMap` therefore has the premise of
`KeysUnique`, and needs that what a lookup finds first is all there is for the key.

### The layout tree (`SplittyProofs`)

* `HSplitDivides`, `VSplitDivides`, `QuadDivides`: for every ratio, gap and
  rectangle, the children's rectangles have no negative sizes, cover the
  rectangle, and do not overlap; for a vertical split, if the gap is at most the
  columns. They rest on `ScaleBounds` (a ratio of a size is between 0 and the
  size) and `BandsCut` (along one axis).
* `TypeCorrect`: the type invariant, for any number of nodes and any
  configurations that the constructors accept.
* `NoChangeMissed` (`LeavesInformed`): at any moment that no callback of a leaf
  is running, its data was made for the rectangle the tree has for it. It is not
  inductive: while a callback runs, the rectangle has already changed. The
  strengthening `CallbackDue` says that the callback that is running is the one
  that puts it right: an `init_data` only for a leaf without data, a `resize`
  only for an initialised one.
* `FlagsAreExact` (`FlagsExact`): every callback has its reason, and a `resize` is
  told the whole difference to the rectangle its leaf last saw.
* `EachFreedOnce` (`FreedOnce`): between two calls exactly the nodes under the roots
  are live, and during a call the recursion is at no node that was freed. The
  invariant `FreeInv` is about the stack of the recursion: a node has at most one
  parent and is no root then (`Forest`); a child is freed once the loop of its parent
  has passed it, and that before the parent (`ChildrenFreed`); the parent of what is
  being freed is on the stack, just past it (`LoopsAbove`), and parents lie below
  their children there (`StackGrows`); no frame is at a freed node (`NoneTwice`).
* `LeavesPartition` (`Tiling`): the leaves of a tree that was refreshed partition the
  rectangle of its root, for trees of any depth, as far as vertical splits are as
  wide as their gaps. While `sp_refresh` runs some nodes have their new
  rectangle and some the old. `RefreshInv` tells them apart: `open` are the nodes that
  the running call has set, `done` those and the ones that earlier calls have, and
  each child of a node of `done` has the rectangle its parent gives it, or its call is
  on the stack (`AllMet`).

`FreedOnce` and `Tiling` speak of whole subtrees. Children are older than their
parents, so an induction over trees is one over node numbers: the nodes for which a
statement fails are a set of numbers, and it would have a least one. The function by
which `Under` collects a subtree exists for the same reason.

### The prefix tree (`TrieProofs`)

For every alphabet, set of words and type of data:

* `InductiveInvariant`, `TypeCorrect`, `CountersExact` (`Counted`);
* `TrieImplementsKeys`: a trie implements `AbsTrie`, where each answer stands beside
  the word that was asked. A lookup sees one node; the status it derives from `term`
  and `child_n` there says whether that word is a key and whether any key in the whole
  trie goes on from it, and the data it returns are that word's.

The invariant adds `Shape` to the two properties: children and owners of blocks
are finite sets, so that counts can be added up, no node owns a block that was
not allocated, and only added words are keys. `ExtendedAt` is the heart of it:
`child_n > 0` at a node exactly if some key extends it. One direction needs that
every branch leads to a key, the other that the nodes are closed under prefixes;
both are parts of `Counted`.

### The command line, the log and the checked calls (`ProcessProofs`)

For every table up to its zero entry (`TableAssumption`: short names are letters and
digits, or none; entries may share or lack letters and names), every relation of
abbreviation, all command lines of names, clusters of letters and texts
(`ArgvAssumption`), and any number of calls on one table:

* `ResultsAreExact` (`ResultExact`), where `char` is signed: `args_parse` succeeds exactly
  for the command lines all of whose options are well-formed. With an unsigned `char`
  it does not hold, see below;
* `ValuesAreExact` (`ValuesExact`): after a success `found` and the values of each entry
  are what the last options that count for it say, or what they were before. An option
  counts for the first entry with the `short_name` of the one getopt found;
* `ErrorsAreAsAsked` (`ErrorsAsAsked`): `opterr` is restored on every path.

What the command line says is defined over the whole of it, while the code reads one
option at a time and getopt passes over plain texts. The invariant `ParseInv` says,
of the options before the place where the parse is (`Says`), what the properties
say of all. That a step adds exactly one option to those is `NextOption` and
`OptionEnds`: what is passed over is plain; what is skipped behind an option is its
argument, the rest of its cluster or a whole cluster taken as an argument, and no option
itself; and the place after it is free again. Which places are options is defined by
what stands before each of them (`Taken`), and that this determines a set for every
command line is proved once (`PlacesExist`).

For all texts of bytes, values of `errno` and depths of nesting (`DiagAssumption`), with
sinks that make checked calls and handlers that log:

* `MessagesAreClean` (`MessageClean`): a sink reads the whole of a message without
  control characters;
* `ErrnoIsKept` (`ErrnoKept`): a log call returns with the `errno` it found;
* `FailuresStay` (`OnlySuccessReturns`) and `ReportsAreExact` (`ReportExact`): no wrapper
  returns a failure, and the handler is told the call that failed with its `errno`.

The first rests on what becomes of one byte, with the recursion of `FlattenSeq` (a
function, whose existence is proved) for the text. `ErrnoKept` needs that every open call
has the `errno` it saved (`LogInv`), `ReportExact` that nothing runs between a
failed call and the collecting of its report that could change it (`XfuncsInv`).

### The assertions (`UnityProofs`)

For every width of `char` and of `UNITY_INT`, every range of floats
(`AssertsAssumption`), and every legal call (`CallsAssumption`):

* `AssertionsExact` and `VerdictsExact` (`VerdictExact`): an assertion fails exactly when
  what its name says of its arguments does not hold;
* `ReportsTell` (`ReportTells`): the number that a failed assertion prints denotes the
  number it compared, and two masked numbers that differ are printed differently.

Two casts of numbers are equal exactly if the difference of the numbers is divisible by
the width (`CastsEqual`), and the unsigned difference by which `UNITY_NUMBERS_WITHIN`
measures is the distance (`GapIsDistance`), because no two values of a type are a whole
range of `UNITY_INT` apart. Strings that agree up to the end of the longer one are the
same. A block of bytes is compared element by element and byte by byte, and each byte is
one of one element. Two floats are near exactly if their difference is within the
tolerance, infinities and NaNs being near nothing but themselves. What is printed are
the digits of a quotient and remainders, which denote the number by Horner's scheme
(`DigitsDenote`); the least number of a type, which has no negative, is printed as
unsigned.

### The test runner (`UnityProofs`)

For every suite, every set of assertions and command lines, any number of
pointers and any room for them: `TotalsCorrect` (`TotalsExact`) and
`PointersCorrect` (`PointersRestored`).

`Shape` has the types. `Counted` says that the flags of the current test tell its
first verdict while it runs, and that the counters agree with the tally of first
verdicts but for the test that runs. `Undoable` says that a pointer without an
entry in the store is what it was before the tests, and that the oldest entry of
any other has that value: it is undone last. Setting a pointer twice adds an entry
behind it, and a full store adds none and sets nothing.

### Only model-checked

The liveness properties `CallsReturn` and `SuiteEnds`: the prover has no rule for
`ENABLED`, which fairness is made of. Every invariant, action property and refinement that
a run checks, and finds to hold, is also a theorem; `UniqueKeys` and `RefinesAbsMap`
under the premise that keys are no `char *` variables, `ResultExact` where `char` is
signed.

## Findings

1. `kval.h:29`: a key in a variable of type `char *` is stored by the bytes of the
   pointer, not of the text it points to, so a literal and a variable with equal
   texts are two keys (`kval_charptr` adds the one and then the other).
2. `splitty.h:219`: the vertical branch of `_sp_calc_split` clamps the gap and
   then uses the unclamped one (`splitty_widegap`). The horizontal branch does
   what `test/test_splitty.c:281` expects.
3. `trie.h:60`: adding data to a key that has data loses the old block; nothing
   releases it (`trie_readd`). The makefile runs the tests under a leak checker,
   but no test adds a key twice.
4. `dstr.h:138`: `dstrncat` adds `n` to `len` though `strncat` copies no more than the
   source has. For a larger `n` the bytes from the source's end on are not written, the
   NUL is no longer at `len`, and the next append looks for it from there
   (`dstr_overlong`). `dstrncpy` fills up with NULs and has no such bytes.
5. `args.h:170`: the NUL that an option without a letter leaves in `short_opts` hides the
   letters of all options behind it in the table (`args_noletter` parses `-v`). Options
   with only a long name are also all looked up as 0 (`args.h:189`), so the first of them
   is marked as found, and gets the argument, whichever was given; the same property of
   the same run fails for that, too.

`sp_new_split` accepts a missing gap child (`splitty.h:265`) where `sp_new_quad` asserts
all of its children. The model follows it: the first refresh ends in `assert(node)`, a
free in a null pointer, and `CallsReturn` says that no other call stays unfinished. No
text of the repository says what a caller may leave out.

## What is not modelled, and why

* In `Kval`, `Splitty` and `Trie` a fatal end on a failed allocation: the process is
  gone and its memory with it. `Hda`, `Hds`, `Darr`, `Dstr`, `Args` and `Llog` have it.
* `hda.h:158`: `index + n` of the assertion of a delete may wrap for a huge `n`.
  Indices are a duty of the caller here.
* `kval.h:78` reads `v_sz` bytes from a value that may be smaller: values are
  opaque in `Kval`.
* `splitty.h:132`: products of a size and a ratio are exact rationals here; in C
  they are floats, exact for the ratios of the runs and sizes below 2^24.
* `hds_append_fmt` when `vasprintf` fails.
* `dstr.h`: a source inside the string where memory moves or overlaps (the code
  would read freed memory), and `dstr_printf` of a string that is not one. An append
  that finds no NUL in the block writes behind it: the process of the model ends there.
* `darr.h:27`: `da_reserve` of more elements than can be counted in bytes, whose
  product wraps (`MinsAssumption`). Callers of the repository reserve what they hold.
* `args.h`: the element `--`, and the environment variable `POSIXLY_CORRECT`, with which
  getopt does not permute. The message about a bad argument prints `long_name`, which
  may be null for an entry with only a letter. `SignedChar` is a constant: on a platform
  with an unsigned `char` the end of the options is not recognised and every parse fails
  (`args.h:181`); the runs have it signed.
* `llog.h`: file, line and time, which are data for the sink. Where `char` is signed,
  `MessageClean` is about ASCII texts: a byte above 0x7F takes the branch of the
  control characters.
* `xfuncs.h`: the arguments of the calls, among them the `int` size of `xmalloc`.
* Unity: the printing of floats and of strings; doubles, which the build excludes;
  `UnityDefaultTestRun`, the detail stack and the options of `unity.c` for a
  command line, which the fixture does not use; the macros of `unity.h` that only
  rename. Floats are integers up to `FloatMax`, so rounding is left out, and a
  scalar delta is finite: with a NaN every finite pair is near (`unity.c:1020`).
  Where a tolerance is wider than the type the macro names, the macro cuts it
  (`unity_internals.h:1107`): `TEST_ASSERT_INT8_WITHIN(256, ...)` has a tolerance of 0, and
  the model says so. `TEST_ASSERT_EACH_EQUAL_MEMORY` takes the expected byte from a
  pointer to one (`unity_internals.h:1172`); with a length above 1 the code compares what
  else is there, and the model has whatever block of `length` bytes the pointer leads to.
  The tolerance of two float arrays is computed as a float: one that exceeds
  `FloatMax` would be infinite in C and is left out (`Tolerable`). Counters do not wrap.
* The contents of foreign strings beyond being told apart, and all output.
* `amalgamate.lua` and the makefile: text and files, no state.

## What is left

Floats that are not integers, and their printing, are the largest part of the code
without a model. The two liveness properties would follow from well-founded measures
(the stack of `Splitty` and the nodes that are left, the steps of a test and the tests
that are left) if fairness could be used in a proof; the measures themselves, as action
properties, could be proved.

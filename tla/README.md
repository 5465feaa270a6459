# A TLA+ verification of buildProtocolBuffers

The repository holds protobuf 32.1 (`src/protobuf321`) and Abseil
(`src/abseil-cpp`) as vendored sources, and the scripts that build them on
Windows for every architecture, configuration and library type
(`src/build_all_claude*.bat`, `src/test_*.bat`,
`src/protobuf321InstallationTest`). This directory models and verifies

* the **lifetime core of upb arenas** (`src/protobuf321/upb/mem/arena.c`): the
  lock-free reference-counted union-find on which every message of the C
  runtime, and of the Python, Ruby, PHP and Rust runtimes above it, lives;
* **allocation from an arena** (`upb/mem/arena.c`, `upb/mem/internal/arena.h`):
  blocks, size hints, resizing in place, failing allocators, the decoder's copy;
* the **decoder's input stream** (`upb/wire/eps_copy_input_stream.h`): the patch
  buffer and the limits;
* the **hash tables** (`upb/hash/common.c`) and the **DefPool** built on them
  (`upb/reflection/def_pool.c`): adding files and rolling them back;
* the **build script** `src/build_all_claude_logger.bat`, the repository's own
  program.

## 1. Inventory

| Component | State | Operations | Interaction | What is hard |
|---|---|---|---|---|
| upb arena, lifetimes (`upb/mem/arena.c`) | per arena `parent_or_count`, `next`, `previous_or_tail`, the initial-block bit | Init, Fuse, IsFused, IncRefFor, DecRefFor, Free, SpaceAllocated, DebugRefCount | any number of threads, through atomic words, without locks | every interleaving; multi-word updates; stale caches; retry loops; reclamation |
| upb arena, allocation (same file, `internal/arena.h`) | block list, `ptr`/`end`, `size_hint`, `space_allocated` | Malloc, SlowMalloc, Realloc, ShrinkLast, TryExtend, SwapIn/Out | one thread per arena; `space_allocated` is read by others | size arithmetic, allocation failure |
| `build_all_claude_logger.bat` | build, install and output directories, `result.txt`, flags | Abseil builds, protobuf builds, three copy steps | runs CMake; reads what earlier runs left | failure of one step of many; leftovers |
| `build_all_claude.bat`, `test_*.bat`, `create_proto.bat` | as above, no log | a fixed command list | CMake, protoc | little |
| upb hash tables (`upb/hash/common.c`) | slots with chains | insert, lookup, remove, iterate, grow | used by DefPool and the registries | relocation of colliding entries; removal during iteration; compaction |
| upb reflection (`upb/reflection`) | DefPool: symbol tables and files | add a file, look up | arena, hash tables | roll-back after an error (`setjmp`) |
| upb wire (`upb/wire`) | input stream with a patch buffer and limits | decode, encode | arena, mini tables | pointer arithmetic at buffer ends |
| upb messages, mini tables, mini descriptors | messages, tables | accessors, builders | arena | sequential |
| upb io, lex, json, text | parsers' positions | tokenize, parse, print | messages, defs | character-level parsing |
| protobuf C++ runtime (`src/google/protobuf`) | arenas, descriptors, messages, streams | the C++ API | Abseil | thread-safe arena, lazy descriptors |
| protoc and generators | files | generate | descriptors | text generation |
| Java, C#, Python, Ruby, PHP, Objective-C, Rust, Lua, hpb | language objects | language APIs | partly on upb | not built by this repository |
| Abseil | vendored library | - | used by the C++ runtime | `Mutex`, hash containers |
| conformance, benchmarks, CMake and Bazel files | - | - | - | no state |

What makes the modelled components correct:

* *Arenas*: parents form no cycle; the list of a group is exactly the group;
  a group's memory goes back when, and only when, nobody holds any of its
  arenas; nothing is touched afterwards; queries give answers that were true at
  some moment of the call; every call returns.
* *Allocation*: live allocations lie in a block and never overlap, whatever is
  shrunk, extended or moved; every block is counted and given back; blocks grow.
* *Input stream*: no byte outside the buffers is read, the bytes come in order
  across the flip to the patch buffer, limits end where they were set.
* *Hash tables*: a table is a finite map; its assertions hold; an iteration
  returns every entry once.
* *DefPool*: a file is added entirely or not at all.
* *Build script*: a failure stays within its configuration; the log says what
  happened; what is called PASSED was built by this run; the files collected in
  `outputs` belong together; flags mean what the README says.

## 2. Modules

| Module | Content |
|---|---|
| `Arena` | the arena operations, one action per atomic memory access; structural invariants; the inductive invariant |
| `ArenaLifetime` | abstract specification of `arena.h`: groups of arenas with held references; no threads, counts or pointers |
| `ArenaCheck` | the properties as callers see them, a history variable for the queries, and the refinement mapping to `ArenaLifetime` |
| `ArenaProofs` | TLAPS proofs about `Arena`: structure, assertions |
| `ArenaGroupProofs` | roots and groups; the results of Fuse and IsFused |
| `ArenaRefProofs` | the account of references; memory safety; the refinement of `ArenaLifetime` |
| `ArenaListProofs` | the lists; nothing leaks; the result of SpaceAllocated |
| `MCArena` | thread sets, symmetry and the constraint of the arena runs |
| `ArenaAlloc` | allocation from one arena |
| `ArenaAllocProofs` | the TLAPS proofs about `ArenaAlloc` |
| `DelimitedStream` | abstract specification of the input stream: a position and a stack of limits |
| `EpsCopyInputStream` | the stream with its buffers; refinement mapping to `DelimitedStream` |
| `EpsCopyProofs` | the TLAPS proofs about `EpsCopyInputStream`, the refinement included |
| `HashTable` | operators of `upb_table` and `upb_strtable` on table values; no state of its own |
| `FiniteMap` | abstract specification of `upb/hash/int_table.h`: a map with an iterator |
| `IntTable` | `upb_inttable` on `HashTable`; refinement mapping to `FiniteMap` |
| `DefPool` | `upb_DefPool_AddFile` and the extension registry on `HashTable` |
| `MCDefPool` | three files with colliding symbols |
| `DefPoolProofs` | the TLAPS proofs about `HashTable` and `DefPool` |
| `BuildAll` | the build script over several runs |
| `BuildAllProofs` | the TLAPS proofs about `BuildAll` |
| `MCBuildAll` | flag settings of the script's runs |

Definitions marked *Mutant* are not part of the specifications: each is a
plausible wrong version of the definition after it, kept to show that the
property it belongs to can fail.

### Arena

A tagged word is a record: the tag of `parent_or_count` is `"count"` or
`"ptr"`, that of `previous_or_tail` is `"tail"` or `"prev"`, as the low bit is
in C. An arena is its address (a positive number, 0 is `NULL`), because Fuse
directs the parent pointers by the order of addresses. `refs` counts, per arena, the
references callers hold; it is not program state and only the callers' obligations
and the properties read it.

`pc[t]` names a thread's next atomic access; the frames `find`, `fuse`, `roots`,
`link` and `walk` hold the local variables of the C functions that are live
there. Local computation and the following branch belong to the access before
them.

| C function | actions |
|---|---|
| `upb_Arena_Init`, `_upb_Arena_InitSlow` | `Arena_Init` |
| `_upb_Arena_FindRoot` | `FindRootLoad`, `FindRootReload`, `FindRootNext`, `FindRootSplit`; `Resume` continues in the caller |
| `upb_Arena_Fuse`, `_upb_Arena_DoFuse` | `Fuse`, `AfterFuse1`, `AfterFuse2` (with `LowerFirst`), `FuseCasR1`, `FuseCasR2` |
| `_upb_Arena_LinkForward` | `LinkForwardTail`, `LinkForwardNext`, `LinkForwardCas` |
| `_upb_Arena_UpdateParentTail` | `UpdateTailLoadChild`, `UpdateTailLoadParent`, `UpdateTailCas` |
| `_upb_Arena_LinkBackward` | `LinkBackward` |
| `_upb_Arena_FixupRefs` | `EnterFixup`, `FixupLoad`, `FixupCas` |
| `upb_Arena_IncRefFor` | `IncRefFor`, `AfterIncRef`, `IncRefCas`, `IncRefCasFails` |
| `upb_Arena_Free`, `upb_Arena_DecRefFor` | `Free`, `FreeLoad`, `FreeCas` (`FreeDispatch` is the code after the label `retry`) |
| `_upb_Arena_DoFree` | `DoFreeNext`, `DoFreeBlocks` |
| `upb_Arena_IsFused` | `IsFused`, `AfterIsFusedA`, `AfterIsFusedB`, `AfterIsFusedAgain` |
| `upb_Arena_SpaceAllocated` | `SpaceAllocated`, `SpaceAllocatedBack`, `SpaceAllocatedForward` |
| `upb_Arena_DebugRefCount` | `DebugRefCount`, `AfterDebugRefCount` |

Callers (external to `arena.c`) follow the contract the comments in `arena.c`
rely on ("fuse is not permitted to race with the final decrement"): they call
an operation on an arena they hold a reference to, and do not give up the last
reference to an arena while another call uses it. Threads may share one
reference. `Return` takes the result of a call.

Abstractions:

* accesses are sequentially consistent; the C11 memory orders are not modelled;
* a freed address is not used again by a new arena (`status` goes from
  `"unborn"` to `"live"` to `"freed"`); counts do have the ABA behaviour of the code;
* counts are integers: a `uintptr_t` count would overflow after 2^62 references;
* the sum of SpaceAllocated is the set of the arenas it added up, and the number
  of additions;
* blocks, allocator cleanup and trace handlers are left out: `DoFreeBlocks`
  frees all blocks of an arena at once (they are private to it by then), an
  arena in a caller's initial block counts as freed when its lifetime ends;
* `upb_Arena_Init` that fails for lack of memory changes nothing and is no action;
* a spurious failure of the weak exchanges in Free and LinkForward re-reads the
  same word, a stuttering step; in IncRefFor it starts FindRoot again and is the
  action `IncRefCasFails`.

### ArenaAlloc

An arena belongs to one thread while it allocates, so every call is one action:
`InitWithBlock`, `InitSlow`, `Malloc` (`FastMalloc`, `SlowMalloc`,
`SlowMallocFails`), `ShrinkLast`, `ReallocShrink`, `TryExtend`, `ReallocCopy`
(together `upb_Arena_Realloc`), `SetMaxBlockSize`, `DecoderInit` and
`DecoderDestroy` (`SwapIn`, `SwapOut`), `DoFree`. Addresses are numbers of bytes with the code's
constants (16 bytes of block header, 80 of arena state, 8 of alignment). `heap`
is what the allocator has handed out, with the sizes it reported; `blocks` is
the list the arena keeps. `Plan` is the computation at the top of
`_upb_Arena_SlowMalloc`, with the subtraction of `size_t` that wraps when
the maximum block size is below the header. `allocs`, `last` and `hint` are what callers
know: their allocations, which of them was obtained last, and the size they gave
to Init. A caller passes the size it was given last (the contract of Realloc and
ShrinkLast). The allocator may fail at any time, may place a block next to
another one and may report more than was asked.

The interplay with `Arena` is one-way: `DoFreeBlocks` there is `DoFree` here, and
the counter whose sum SpaceAllocated takes there is the one that
`SpaceAllocatedExact` is about. `UPB_MALLOC_ALIGN` is 8 (16 with HWASAN). Requests so
large that rounding them up wraps `size_t` are outside the model: the code does not
guard against them.

### EpsCopyInputStream

A pointer is its offset in the buffer being read; a byte of the input is its
position, so `patch` shows which bytes were copied and which were cleared or
never written. `status` is where the decoder is: it must call IsDone (`"ask"`),
may read 16 bytes (`"more"`), has read the fixed part of a field (`"field"`), or
has stopped. The actions are the branches of IsDone (`IsDoneNotDone`,
`IsDoneDone`, `IsDoneFallbackFlip`, `IsDoneFallbackError`), what the decoder does
with a field (`ReadField`, `EndField`, `SkipAvailable` for Skip, Copy and
ReadString, `SkipChecked` for `upb_WireReader_SkipValue`, `Malformed`) and the two
kinds of limits (`PushLimit`/`PopLimit`, `TryParseDelimitedFast`/`ParseDelimitedFastEnd`).
`frames` holds what the C stack holds: a delta, or `limit` and `limit_ptr`
themselves. `limits` is a history variable, the same limits as positions.
`input_delta` is relative to a patch that starts where the input starts (for a
short input it is then 0).
The slop is a parameter; sizes are integers (an `int` limit cannot overflow, since
the decoder accepts sizes below `INT32_MAX` only).

### HashTable, IntTable

A table is a record of size, count and entries; an entry number stands for a
pointer, and an empty entry keeps its stale `next` as the code leaves it. `insert`,
`rm`, `removeiter`, `next` and `Rehashed` are the C functions as operators, with
the linear searches as set expressions. A loop that changes something at every step is a
`Loop`: `Walk`, which follows a chain and is bounded by the size, the re-insertion of all
entries into a larger table, and the roll-backs of `DefPool`. Where the C code has a mask, a
remainder by the size stands.
`InsertDefined` collects the assertions of `insert` and `emptyent`.
`IntTable` has one action per function of `int_table.h` that changes the table or
an iterator; an allocation may fail wherever one is made. Its `found` is what
`upb_inttable_lookup` would return for every key, and the refinement maps it to
the map of `FiniteMap`. `upb_inttable_removeiter` has no caller in the repository and is
left out. `MIN_DENSITY` is the reciprocal of the code's 0.1.

### DefPool

The steps of `upb_DefPool_AddFile` are actions, because each may fail and jump
(`setjmp`/`longjmp`) to the roll-back `FailJmp`: the dependencies
(`MissingDependency`), one symbol after the other (`InsertSym`), resolving and
layouts (`Resolve`), the extensions (`InsertExt`), the registry (`AddArray` with
`BackOut`), and `Commit`. A definition is represented by the build it
belongs to, so that a symbol of a freed definition can be told from one of a
loaded file. `crashed` is a failed assertion in `insert`.

### BuildAll

`Settings` are the values of the CONFIGURATION FLAGS a user may put into the
script before a run; a value is its text and whether it is padded with spaces,
because `if "%X%"=="ON"` compares the spaces too. `todo` lists the tasks of the
current stage; each task goes through the steps of `:buildAbseilWithLog`
(`AbseilPrepare`, `AbseilConfigure`, `AbseilBuild`, `AbseilInstall`) or
`:buildProtoBufWithLog` (`ProtoBufPrepare`, `ProtoBufConfigure`,
`ProtoBufBuild`). Every CMake command may fail; a failing build may leave
nothing, a library, or everything. An artifact is represented by the number of
the run that made it (or, in an incremental build, found it up to date), so
that leftovers can be told from results. `CopyBinFiles`, `CopyLibFiles` and
`CopyHeaderFiles` are the copy steps; in the first two the files of at most one
build directory fail to be copied, in the last any part. `settings.sources` says which
source directories exist. Output directories always exist (`:ensureOutputDirs`).
The configurations are a parameter: `build_script` uses Release only, since the
script treats Release and Debug alike except in the header step.

## 3. Runs

All runs set `CHECK_DEADLOCK FALSE`: callers may stop calling, a user may stop
starting the script, and the bounds end every behaviour.

| Run | Instance | Shows |
|---|---|---|
| `arena_structure` | 3 arenas, 2 threads, 2 calls each of Fuse/Free; 620,000 states | `ParentBelow`, `AssertsHold`, `LinkExclusive`, `ListsAgree`, `ListIsGroup`, `OneWay`; `SafeLifetime`: `Arena` implements `ArenaLifetime` |
| `arena_references` | 3 created arenas, 2 threads, 2 calls each of Fuse/Free/IncRefFor, up to 2 references per arena; 720,000 states | `RefCountAccurate`, `ReclaimAlone`, `NoLeak`, `NoUseAfterFree` |
| `arena_queries` | 3 arenas, 2 threads, 2 calls each of Fuse and the queries, initial blocks | `FuseResult`, `IsFusedResult`, `SpaceAllocatedResult` |
| `arena_liveness` | 2 arenas, 2 threads, 2 calls each of Fuse/Free/IncRefFor, fairness | `Lifetime`, `CallsReturn` |
| `arena_alloc` | 2 allocations of 0, 100 or 200 bytes, 3 blocks at 3 addresses, initial block or not, maximum block size 8 or 1024; 650,000 states | `AllocationsSafe`, `SpaceAllocatedExact`, `EveryBlockFreed`, `LastIsRecognised`, `HintSuffices`, `FreeSpaceGrows` |
| `eps_stream` | slop 3, inputs of 0 to 9 bytes, 3 nested limits | `ReadsSafe`, `BytesInOrder`, `AssertsHold`, `CheckedIsAvailable`; `DelimitedSpec`: the stream implements `DelimitedStream` |
| `int_table` | 4 keys, hash part of 2 to 4 entries, array of up to 8; 150,000 states | `TableWellFormed` (with the assertions of `insert`), `CompactedArrayDense`; `MapSpec`: the table implements `FiniteMap` |
| `def_pool` | 3 files, 5 builds, tables of 4 and 8 entries; 112,000 states | `NoFreedSymbols`, `RegistryExact`, `SoundUntilRollback`, `CountExact` |
| `build_script` | 2 runs of the script, 5 settings with internal and external Abseil, fairness; 190,000 states | `EveryTaskLogged`, `PassedIsBuilt`, `DllOutputsMatch`, `BuildsIndependent`, `Completes` |

The type invariants of `Arena`, `ArenaAlloc` and `EpsCopyInputStream` and the
inductive invariants are proved for every instance and are not repeated in the
runs; `TableWellFormed` and `CountExact` include those of `IntTable` and `DefPool`.

*Bounds.* Three arenas are the least with which a thread can fuse into a root
that another thread is making a child, so that a parent is stale, a cached tail
is behind and path splitting has something to split. Two calls per thread let
references be lent by a fuse that fails and be taken back from a different
root, and let two appends race for the same last node. `MaxRefs = 2` gives
the counts the ABA behaviour. `CreatedSpec` starts when the arenas have been
initialised; creation itself is in the other runs. `OrderedArguments` fixes the
order of Fuse's two arguments in the largest runs; the others have both. Threads are
symmetric; the liveness run uses no symmetry.
Two runs of the script are enough for anything a run can leave to the next.

In `arena_alloc` the sizes and addresses are chosen so that the first block has
room for one of the larger requests and not for both, blocks can lie next to each other, a
block is put in front of and behind the head, and a maximum of 8 makes the size
computation wrap (`arena_test.cc` sets this value). In `eps_stream` an input
of three times the slop has a part read in place, a part that is read in
place and copied, and the flip at every overrun. In `int_table` keys 3 and 11 and keys 2
and 6 collide, and the table is full, grows, evicts and is compacted to and fro;
key 0 is left out because it is always in the array. In `def_pool` the symbols of two files
collide, and another symbol is evicted from where they overflow.

*Fairness.* A thread inside the API keeps running (weak fairness of `Step(t)`): there
is nothing to block on, and the operating system schedules it. A weak exchange
does not fail spuriously for ever (strong fairness of `IncRefCas`). Callers
need not call. Termination of the retry loops rests on `MaxCalls`: the
algorithm is lock-free, not wait-free, so a thread may be overtaken by an
endless stream of others. The script is weakly fair: the commands it waits for end. The
other modules are sequential and state no liveness: every loop in them is a single step.

### Where the code differs from what is written about it

Each of these runs is expected to end in a violation.

| Run | Text | What the code does |
|---|---|---|
| `arena_fixed` | `arena.h`: "If \|alloc\| is NULL, this is a fixed-size arena and cannot grow." | `_upb_Arena_SlowMalloc` tests `block_alloc` with the tag bit, which is set for an initial block; it goes on and calls the null allocator |
| `def_pool_rollback` | `def_builder.h`: "so we know which entries to remove if building this file fails" | `upb_strtable_removeiter` empties the head of a chain in place; the entries of other files behind it are lost, and a later insertion may fail its assertion on the chain |
| `build_stop` | README: `STOP_ON_PROTOBUF_ERROR` "ON=Hata durumunda dur" | `exit /b 1` leaves the subroutine only; the next build starts |

Of the build script, in the model but without a run of their own: the `set` line of
`BUILD_ARCHITECTURE` is padded, so that `"ALL     "` is not `"ALL"` and x64 is
built whatever is written there (README: ALL builds both); the DLL build's import
library replaces the static library of the same name in `outputs\lib` (README:
`libprotobuf.lib` is the static library); the check for an external Abseil tests
a directory that is created before the build.

Of upb:

* `CheckDataSizeAvailable` accepts sizes that end in the slop bytes beyond a pushed
  limit, although its comment says they "do not extend beyond any previously-pushed"
  one; the next IsDone reports the overrun (`DelimitedStream!Finish` allows it).
* "Scan all buckets except capped bucket" in `upb_inttable_compact` scans the capped
  bucket too; `CompactedArrayDense` therefore speaks of keys within the buckets only.
* The insertions of a compaction ignore failures: if the new hash part is capped and
  cannot grow, entries are lost although the call returns true. This takes some
  57,000 keys; `Compacted` has the case, no run reaches it.
* `SlowMalloc` changes `size_hint` before it knows whether the allocator fails.
* The assertion of `ShrinkLast` on an allocation behind the head compares with the
  block's size, and fails if the allocator reported more than was asked (`slack` in
  `LastIsRecognised`), or if the allocation was already shrunk by Realloc (`last`
  is 0 then, and the model's caller does not call it).
* The entries of `exts` that a failed file made are never removed, and the result of
  inserting a file's name is ignored (it is then loaded, but not known by its name).

Seen and not made a run: `STOP_ON_COPY_ERROR` is never read and no copy is
tested, so a failed copy is logged as PASSED; the Abseil headers are copied from
the x64 Release installation only, so a Win32 build leaves none; the final summary says "Total Builds: 8" whatever was
selected; `create_proto.bat` says its default is Release and sets Debug.

## 4. Proofs

### Arena

`ArenaProofs` proves, for every set of addresses, every set of threads, every
mix of calls and every bound (assumptions: addresses are positive naturals, the bounds are
naturals):

| Theorem | Statement |
|---|---|
| `Inductive` | `Spec => []IndInv` |
| `TypeCorrect` | `Spec => []TypeOK` |
| `Acyclic` | `Spec => []ParentBelow` |
| `AssertionsNeverFail` | `Spec => []AssertsHold` |
| `OneLinker` | `Spec => []LinkExclusive` |
| `ListsSound` | `Spec => []ListsAgree` |
| `NeverUndone` | `Spec => OneWay` |

None of these is inductive alone. That a path split keeps `ParentBelow` needs
to know that the word the thread read some steps ago was the parent of
its parent and therefore lies below both (`FindInv`); that two threads never
link the same child needs to know that a child in the course of linking is
no longer a root, still has a tail and is nobody's successor until the append
(`FuseInv`); and all of it needs that pointers lead to arenas that were created
(`MemoryInv`, `WalkInv`). `IndInv` is their conjunction.

The argument for a step is split by what it can disturb. `StepType` and
`CreateType`: the types. `StepShared`: the shared words change in one of five
ways (a count replaces a count, a parent replaces a parent or a count, one
append, one new tail, one back link), and each keeps the structural
invariants and is `Monotone`. `StepKeeps` and `OthersInv`: a monotone change
made by one thread keeps what the frames of the others say. `StepInv`: the
thread's own frames, one case per action. `StepLinks`: `LinkExclusive`.
`NextInd` puts them together.

### Arena: groups, references, lists

Three further modules, each extending the one before, prove what callers see
(`ArenaCheck`), for the same parameters and from the same assumptions:

| Module | Theorem | Statement |
|---|---|---|
| `ArenaGroupProofs` | `GroupsSound` | `Spec => []GroupInv` |
| | `IsFusedLinearizable` | `CheckSpec => []IsFusedResult` |
| | `FuseIsSound` | `CheckSpec => []FuseResult` |
| `ArenaRefProofs` | `ReferencesSound` | `Spec => [](Base /\ RefInv)` |
| | `MemoryIsSafe` | `CheckSpec => []NoUseAfterFree` |
| | `CountIsAccurate` | `CheckSpec => []RefCountAccurate` |
| | `ReclaimedOnce` | `CheckSpec => []ReclaimAlone` |
| | `ImplementsLifetime` | `CheckSpec => SafeLifetime` |
| `ArenaListProofs` | `ListsComplete` | `Spec => []ChainInv` |
| | `NothingForgotten` | `CheckSpec => []NoLeak` |
| | `ListsReachAll` | `CheckSpec => []ListIsGroup` |
| | `SpaceIsCounted` | `CheckSpec => []SpaceAllocatedResult` |

*Groups.* `RootOf` is a recursive function. `LeastElement` (a nonempty set of
addresses has a least one) shows that it is the only map that agrees with the
parent words, so a step's effect on all roots is found by exhibiting a map: every
step leaves `RootOf` alone, path splits included, except the second
compare-and-swap of a Fuse, which joins two groups (`StepRoots`). `GroupInv`
says that everything a thread holds in a frame stays in the group of the
argument it came from; groups only grow, so this survives the steps of others.

*References.* `RefInv` is an account. The count of a root in use is the number of
references held on its group, of Frees that have not decremented, and of
references that Fuses have lent it. The lent ones are the difficulty: a thread in a
retry loop has added counts to roots that have since become children of
others, and knows only their sum. The invariant says there is a map `loc` from
each lent reference to the arena it was lent to, in one of the two groups being
fused (`AccountInv`, `LoanInv`); joining groups joins the accounts of the two
roots, and FixupRefs takes the whole sum from one root, which by then has it all. The
other parts: a dead group concerns nobody (`DeadInv`), whoever calls holds a
reference (`HoldInv`), counts in frames are counts of references
(`CountInv`), a counted root has a positive count (`CountPos`), and what is given
back precedes in the list what is not (`ReclaimInv`, `FreedInv`). Every step is
first classified (`StepKinds`: it lends, joins, repays, gains, releases, counts
down, takes the last reference, gives back, or does none of these), and each part of
the invariant is proved per kind. The kinds are also the steps of `ArenaLifetime`,
which is how the refinement follows (`NextLifetime`).

*Lists.* That a list has no cycle is said without recursion: every nonempty set of arenas has
a member that follows no other of the set (`NoCycle`). It is inductive together
with a map from each arena to the head of its list, the lowest address of the list
(`Heads`): an append puts a list behind one with a lower head, since Fuse directs
parents by address. `Complete`: each arena but a root is somebody's successor
unless a thread is about to append it; `GivenInv` and `AtWork`: DoFree is at
the successor of what it has given back, and is not finished before the group is.
`FollowedBy` and `PrecededBy` in `ArenaCheck` are defined as least
closed sets, so that "reachable" can be reasoned about by giving a closed
set (`Followers`, `Predecessors`). SpaceAllocated is proved with an invariant
on what it has counted in both directions (`SpaceInv`): that it counts nothing
twice is `NoCycle` again.

### EpsCopyInputStream

For every slop of at least one byte, every length of the input and every depth of limits:

| Theorem | Statement |
|---|---|
| `Invariant` | `Spec => []IndInv` |
| `TypeCorrect` | `Spec => []TypeOK` |
| `ReadsAreSafe` | `Spec => []ReadsSafe` |
| `BytesAreInOrder` | `Spec => []BytesInOrder` |
| `AssertionsHold` | `Spec => []AssertsHold` |
| `CheckedSizesAreAvailable` | `Spec => []CheckedIsAvailable` |
| `Refinement` | `Spec => DelimitedSpec` |

`IndInv` says what the fields mean: the patch holds the end of the input
(`BufferInv`), `limit` and `limit_ptr` both encode the innermost limit, and limits
are nested (`LimitInv`), and so does every saved frame, a fast frame only while
no flip can happen before it is restored (`FrameInv`): this is why a flip, which
moves `end` under all of them, leaves a delta right and never meets a fast
frame. Without the frames the invariant is not inductive, since PopLimit and the end of the fast
path install what they saved. `FlipInv`, `PushInv` and `PopInv` are the three steps that matter;
`StepRefines` maps each action to a step of `DelimitedStream`.

### ArenaAlloc

For all sizes, addresses, allocators, sanitizer guards, reported sizes and bounds
(assumptions: they are naturals, and `size_t` can count a block header):

| Theorem | Statement |
|---|---|
| `Invariant` | `Spec => []IndInv` |
| `TypeCorrect` | `Spec => []TypeOK` |
| `AllocationsAreSafe` | `Spec => []AllocationsSafe` |
| `BlocksAreFreed` | `Spec => []EveryBlockFreed` |
| `LastIsAlwaysRecognised` | `Spec => []LastIsRecognised` |
| `HintIsEnough` | `Spec => []HintSuffices` |
| `FreeSpaceAlwaysGrows` | `Spec => FreeSpaceGrows` |
| `SpaceIsExact` | `Spec => []SpaceAllocatedExact` |

That an allocation is safe needs more than the allocations: blocks are apart
(`RegionsApart`) and at least as large as their header (`RegionsSized`), the
space between `ptr` and `end` lies in one of them (`CurrentInBlock`) and belongs
to no allocation (`FreeApart`), and the list holds exactly the blocks of the
allocator (`BlocksListed`). `PlanFacts` shows that a planned block has room for
the request even when the subtraction wraps; `GrownFacts`, `ResizeAtEnd` and `ShrinkElsewhere` are
the ways the state changes. An allocation of no bytes can lie on the boundary of a
block, hence `Apart` with its special case. `HintIsEnough` and
`FreeSpaceAlwaysGrows` use in addition that the size hint never falls below 8 (`HintFloor`). For `SpaceIsExact` the
sum of sizes is the cardinality of a set of bytes, so that adding a block is adding a disjoint
set (`SpaceInv`), and blocks the decoder's copy obtained are counted at SwapIn.

### BuildAll

For every sequence of configurations that has Release, every set of flag settings and
every number of runs (assumptions: that, the flags have their names, and the
bound is a natural):

| Theorem | Statement |
|---|---|
| `Inductive` | `Spec => []IndInv` |
| `TypeCorrect` | `Spec => []TypeOK` |
| `PassedStaysBuilt` | `Spec => []PassedIsBuilt` |
| `AllTasksLogged` | `Spec => []EveryTaskLogged` |
| `OutputsMatch` | `Spec => []DllOutputsMatch` |
| `TasksIndependent` | `Spec => BuildsIndependent` |

A task that passed stays built because it does not come up again: no task
is both in the log and still to do, and the tasks to do are different from each other
(`TodoInv`, `LogInv`). That every task is logged once and in order is the
invariant that the lines written followed by the lines to come are the promised
sequence (`OrderInv`). For the outputs, `CopyInv` says what each copy step
has already established for the DLL builds that passed.

### HashTable and DefPool

For every set of files, symbols, extensions and dependencies, every hash function, so all
patterns of collision, and every initial size and bound (assumptions: keys are positive
and hashes are naturals, symbols and extensions are sequences of keys, a new table is not empty):

| Theorem | Statement |
|---|---|
| `Invariant` | `Spec => []IInv` |
| `FreedSymbolsAreGone` | `Spec => []NoFreedSymbols` |
| `CountsAreExact` | `Spec => []CountExact` |
| `RegistryIsExact` | `Spec => []RegistryExact` |
| `PoolIsSound` | `Spec => []SoundUntilRollback` |

`def_pool_rollback` shows that a roll-back breaks chains, so there are two kinds of
facts about tables. The first hold of any table, broken or not: `Counted` (the count is the
number of entries in use) and what a table `Maps`, which is said of its entries without
looking at chains. Insertion adds one entry wherever there is an empty one
(`InsertAdds`), `removeiter` takes away one (`RemoveiterCounted`), growth keeps them
(`RehashedKeeps`), and the roll-back removes those of the failed build and no others
(`RemoveRemoves`): no entry moves while the table is iterated over. `NoFreedSymbols` and
`CountExact` need no more than this.

The second kind needs whole chains. `Chained` says that no key is there twice and that some
rank increases along every `next` (`ChainRank`): a chain starts in the main position
of its keys, has no cycle, and nothing but its predecessor points to an entry. The rank
replaces recursion: a walk along ranks below a finite bound cannot miss a stop that
lies ahead of it (`PathReaches`), hence keys are found (`FindFinds`). Each of
the three ways to insert and to remove gives a rank for the chains it leaves
(`InsertChained`, `RmRemoves`); eviction is the one where the predecessor matters.
A larger table has whole chains if no key was in the old one twice, whatever its chains were
(`RehashedKeeps`), and what `Grown` returns has room (`GrownKeeps`).

The loops are functions on `0 .. n` that are defined by themselves. `Iteration` shows that such a
function exists, and `UpTo` is induction over a set of step numbers, which follows from
the least element of the steps that fail; so each loop has a lemma that gives its trace and
one that proves what holds at every step (`AddedAdds`, `BackOutRemoves`, and those above).

`IInv`: symbols lead to kept builds and to the one under way (`SymsInv`); the registry maps
exactly the extensions of the kept builds, and of the current one between
`AddArray` and `Commit` (`RegInv`); and until a roll-back removes an entry, the chains are whole
and every symbol inserted is there (`SoundInv`). `SoundUntilRollback` alone is not
inductive: of the symbols of the build under way it says nothing, nor can well-formedness, in which
each entry is found, exclude that an emptied entry is still on a chain.

### Only model-checked

* Liveness (`Lifetime`, `CallsReturn`, `Completes`): needs fairness and ENABLED.
* `IntTable` (`TableWellFormed`, `MapSpec`, `CompactedArrayDense`): its hash is a bitwise
  exclusive or, and the prover accepts no module that uses `Bitwise`. What is
  proved of `HashTable` holds of the hash part of its tables, for any hash.

## 5. Plan

1. `IntTable` for an abstract hash and bucket function, so that its refinement of `FiniteMap`
   can be proved from the lemmas about `HashTable`.
2. The thread-safe arena of the C++ runtime, as a second concurrent component.

### Not modelled

The repository vendors two complete libraries of some 650,000 lines in nine
languages; most of it is generated code, code generators, text and byte formats,
language bindings, tests and data. A model of that is a copy of it. The modules cover the parts
of the C runtime that keep state over many calls and whose correctness is a matter of order,
failure and sharing, and the repository's own build script; as a share of all lines that
is small, and will stay so. `PROJECT.json` lists every part with the reason: the table-driven decoder
and encoder, JSON and text (data transformation); mini tables and messages
(sequential accessors); protoc and the generators (text); the other runtimes and Abseil (not the
subject of this repository, which only builds them); CMake and Bazel files (declarative);
the remaining scripts (command lists, or the predecessor of the one modelled). Weak
memory orders and the reuse of freed addresses are outside the models that are there.

## 6. Running

    tlc -workers 2 -config arena_structure.cfg MCArena
    tlapm ArenaProofs.tla
    tlapm ArenaGroupProofs.tla
    tlapm ArenaRefProofs.tla
    tlapm ArenaListProofs.tla
    tlapm EpsCopyProofs.tla
    tlapm ArenaAllocProofs.tla
    tlapm BuildAllProofs.tla
    tlapm DefPoolProofs.tla

The module of each run is in `PROJECT.json`. Each run takes less than five minutes with two
workers, each proof module a few minutes.

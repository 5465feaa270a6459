----------------------------- MODULE ArenaAlloc -----------------------------
(***************************************************************************)
(* Allocation from one upb_Arena: the bump pointer of the current block,   *)
(* the slow path that obtains blocks from the arena's upb_alloc, resizing  *)
(* in place, and the decoder's temporary copy of the arena.                *)
(*                                                                         *)
(* Addresses are numbers of bytes.  A pointer to a block is the base of    *)
(* the block; `heap' is what the allocator has handed out, with the sizes  *)
(* it reported, and `blocks' is the list the arena itself keeps (the next  *)
(* and size fields of upb_MemBlock).  An arena belongs to one thread while *)
(* it allocates, so every call is one step.  The global maximum block size *)
(* may change between any two calls.                                       *)
(***************************************************************************)
EXTENDS Integers, Sequences, FiniteSets

CONSTANTS
  Addresses,       \* where the allocator may put a block (aligned)
  Allocators,      \* values of the upb_alloc* given to Init; 0 is NULL
  Sizes,           \* sizes a caller asks for
  InitialSizes,    \* lengths of the caller's initial blocks
  MaxBlockSizes,   \* values given to upb_Arena_SetMaxBlockSize
  ExtraSizes,      \* bytes an allocator may report above what was asked
  Guard,           \* kUpb_Asan_GuardSize
  SizeMod,         \* number of values of size_t
  MaxAllocs,       \* bound: allocations of one arena
  MaxBlocks        \* bound: blocks of one arena

VARIABLES
  phase,           \* "none", "live", "freed", or "crashed" at a null allocator
  block_alloc,     \* tagged pointer: the allocator, low bit set for an initial block
  initial,         \* {} or the set of the caller's initial block
  heap,            \* blocks handed out by the allocator and not freed
  mem,             \* the arena and the decoder's copy of it
  active,          \* which of the two is being used
  max_block_size,  \* g_max_block_size
  allocs,          \* live allocations, in the order of their Malloc calls
  last,            \* index of the last malloc/realloc, 0 if it was shrunk since
  hint             \* first_size given to InitSlow, until the first allocation

vars == <<phase, block_alloc, initial, heap, mem, active, max_block_size,
          allocs, last, hint>>

kUpb_MemblockReserve == 16
sizeof_upb_ArenaState == 80
default_last_size == 128
min_first_size == 256

ASSUME ArenaAllocAssumption ==
  /\ Addresses \subseteq Nat /\ Allocators \subseteq Nat
  /\ Sizes \subseteq Nat /\ InitialSizes \subseteq Nat
  /\ MaxBlockSizes \subseteq Nat /\ ExtraSizes \subseteq Nat
  /\ Guard \in Nat
  /\ SizeMod \in Nat /\ SizeMod >= kUpb_MemblockReserve
  /\ MaxAllocs \in Nat /\ MaxBlocks \in Nat

-----------------------------------------------------------------------------
(* Sizes and tagged pointers *)

MaxOf(a, b) == IF a >= b THEN a ELSE b
MinOf(a, b) == IF a <= b THEN a ELSE b

\* UPB_ALIGN_MALLOC, and the bytes an allocation occupies.
Align(n) == ((n + 7) \div 8) * 8
AllocSpan(size) == Align(size) + Guard

\* Subtraction of size_t values, which wraps.
Minus(a, b) == IF a >= b THEN a - b ELSE a + SizeMod - b

MakeBlockAlloc(alloc, has_initial) == alloc + (IF has_initial THEN 1 ELSE 0)
BlockAlloc(tagged) == tagged - (tagged % 2)

Block(base, size) == [base |-> base, size |-> size]
Regions == heap \union initial

Apart(a, m, b, n) == m = 0 \/ n = 0 \/ a + m <= b \/ b + n <= a

\* The allocator hands out memory that nothing else occupies.
Unused(base, n) == \A r \in Regions : Apart(base, n, r.base, r.size)

-----------------------------------------------------------------------------
(* The state of an arena *)

A == mem[active]
ArenaHas(a) == a.end - a.ptr

\* Mutant: the block replaces the head.
AddBlockReplacing(a, block, offset) ==
  [a EXCEPT !.blocks = <<block>> \o (IF @ = <<>> THEN <<>> ELSE Tail(@)),
            !.ptr = block.base + offset,
            !.end = block.base + block.size]

\* _upb_Arena_AddBlock: block becomes the head of the list and the current one.
AddBlock(a, block, offset) ==
  [a EXCEPT !.blocks = <<block>> \o @,
            !.ptr = block.base + offset,
            !.end = block.base + block.size]

\* Mutant: the block is put in front of the head.
AddInFront(a, block) == [a EXCEPT !.blocks = <<block>> \o @]

\* The list operation of the slow path for a block behind the head.
AddBehind(a, block) ==
  [a EXCEPT !.blocks = <<Head(@), block>> \o Tail(@)]

AllocEnd(x) == x.at + AllocSpan(x.size)

WasLastAllocFromCurrentBlock(a, x) == AllocEnd(x) = a.ptr

\* _upb_Arena_WasLastAlloc, with the bytes it requires to be left over.
WasLastAlloc(a, x, slack) ==
  /\ Len(a.blocks) >= 2
  /\ x.at = a.blocks[2].base + kUpb_MemblockReserve
  /\ a.blocks[2].size - kUpb_MemblockReserve = AllocSpan(x.size) + slack

\* Mutant: every new block becomes the head.
NeverKeepHead(current_free, future_free) == FALSE

\* Whether the current block stays the head: a new one would leave no more free.
KeepHead(current_free, future_free) == current_free >= future_free

\* The hint grows with each block put behind the head.
NextHint(size_hint, span) ==
  MinOf(size_hint + span \div 2, max_block_size \div 2)

\* The size of the next block, computed at the top of _upb_Arena_SlowMalloc for
\* a request of span bytes: where the block goes, how large it is to be, and
\* the new size hint.
Plan(a, span) ==
  LET last_block == a.blocks # <<>>
      current_free == IF last_block THEN ArenaHas(a) ELSE 0
      Target(last_size) == MinOf(last_size * 2, max_block_size)
      FutureFree(target) ==
        MaxOf(span, Minus(target, kUpb_MemblockReserve)) - span
      natural == Target(IF last_block THEN Head(a.blocks).size
                                      ELSE default_last_size)
      target_size == IF /\ last_block
                        /\ current_free > FutureFree(natural)
                        /\ natural < max_block_size
                     THEN Target(a.size_hint) ELSE natural
      insert_after_head ==
        last_block /\ KeepHead(current_free, FutureFree(target_size))
      exact == span + kUpb_MemblockReserve
  IN [insert_after_head |-> insert_after_head,
      size_hint |-> IF insert_after_head /\ exact <= max_block_size
                    THEN NextHint(a.size_hint, span)
                    ELSE a.size_hint,
      block_size |-> IF insert_after_head THEN exact
                     ELSE MaxOf(exact, target_size)]

-----------------------------------------------------------------------------
Unborn == [ptr |-> 0, end |-> 0, blocks |-> <<>>, size_hint |-> 0,
           space_allocated |-> 0]

Init ==
  /\ phase = "none" /\ block_alloc = 0 /\ initial = {} /\ heap = {}
  /\ mem = [arena |-> Unborn, decoder |-> Unborn]
  /\ active = "arena"
  /\ max_block_size \in MaxBlockSizes
  /\ allocs = <<>> /\ last = 0 /\ hint = 0

\* upb_Arena_Init with an initial block of n aligned bytes at base that holds
\* the arena's own state.
InitWithBlock(base, n, alloc) ==
  /\ phase = "none"
  /\ n >= sizeof_upb_ArenaState
  /\ phase' = "live"
  /\ block_alloc' = MakeBlockAlloc(alloc, TRUE)
  /\ initial' = {Block(base, n)}
  /\ mem' = [mem EXCEPT !.arena =
               [ptr |-> base + sizeof_upb_ArenaState, end |-> base + n,
                blocks |-> <<>>, size_hint |-> 128, space_allocated |-> 0]]
  /\ UNCHANGED <<heap, active, max_block_size, allocs, last, hint>>

first_block_overhead == Align(kUpb_MemblockReserve + sizeof_upb_ArenaState)

\* Mutant: the block header is counted, the arena's own state is not.
FirstBlockSizeShort(first_size) ==
  kUpb_MemblockReserve + MaxOf(min_first_size, Align(first_size) + Guard)

FirstBlockSize(first_size) ==
  first_block_overhead + MaxOf(min_first_size, Align(first_size) + Guard)

\* upb_Arena_Init without an initial block (or with one that is too small, and
\* first_size = 0): _upb_Arena_InitSlow.  A null or failing allocator gives no
\* arena and no step.
InitSlow(base, first_size, alloc, extra) ==
  LET size == FirstBlockSize(first_size) + extra
      block == Block(base, size)
  IN /\ phase = "none"
     /\ alloc # 0
     /\ phase' = "live"
     /\ block_alloc' = MakeBlockAlloc(alloc, FALSE)
     /\ heap' = {block}
     /\ mem' = [mem EXCEPT !.arena =
                  AddBlock([Unborn EXCEPT !.size_hint = size,
                                          !.space_allocated = size],
                           block, first_block_overhead)]
     /\ hint' = first_size
     /\ UNCHANGED <<initial, active, max_block_size, allocs, last>>

\* The result of a malloc or a copying realloc, for allocation i.
Returned(i, at, size) ==
  /\ allocs' = [j \in 1..MaxOf(i, Len(allocs)) |->
                  IF j = i THEN [at |-> at, size |-> size] ELSE allocs[j]]
  /\ last' = i
  /\ hint' = 0

\* upb_Arena_Malloc when the current block has the space.
FastMalloc(i, size) ==
  /\ ArenaHas(A) >= AllocSpan(size)
  /\ mem' = [mem EXCEPT ![active].ptr = @ + AllocSpan(size)]
  /\ Returned(i, A.ptr, size)
  /\ UNCHANGED <<phase, block_alloc, initial, heap, active, max_block_size>>

\* The end of _upb_Arena_SlowMalloc: the new block and the allocation in it.
\* The span is rounded already, so the final upb_Arena_Malloc takes as much.
Grown(a, plan, block, span) ==
  LET counted == [a EXCEPT !.space_allocated = @ + block.size]
  IN IF plan.insert_after_head
     THEN AddBehind([counted EXCEPT !.size_hint = plan.size_hint], block)
     ELSE [AddBlock([counted EXCEPT !.size_hint = block.size], block,
                    kUpb_MemblockReserve) EXCEPT !.ptr = @ + span]

\* _upb_Arena_SlowMalloc.  The test of the tagged block_alloc is the code's;
\* a null allocator that passes it is an assertion failure in
\* upb_SizeReturningMalloc (a call through a null pointer in a release build).
SlowMalloc(i, size, base, extra) ==
  LET span == AllocSpan(size)
      plan == Plan(A, span)
      block == Block(base, plan.block_size + extra)
  IN /\ ArenaHas(A) < span
     /\ block_alloc # 0
     /\ BlockAlloc(block_alloc) # 0
     /\ Cardinality(heap) < MaxBlocks
     /\ Unused(block.base, block.size)
     /\ heap' = heap \union {block}
     /\ mem' = [mem EXCEPT ![active] = Grown(A, plan, block, span)]
     /\ Returned(i, base + kUpb_MemblockReserve, size)
     /\ UNCHANGED <<phase, block_alloc, initial, active, max_block_size>>

\* The same when the allocator fails: NULL is returned, but the size hint has
\* grown already.
SlowMallocFails(size) ==
  /\ ArenaHas(A) < AllocSpan(size)
  /\ block_alloc # 0
  /\ IF BlockAlloc(block_alloc) = 0
     THEN phase' = "crashed" /\ UNCHANGED mem
     ELSE /\ mem' = [mem EXCEPT ![active].size_hint =
                                   Plan(A, AllocSpan(size)).size_hint]
          /\ UNCHANGED phase
  /\ UNCHANGED <<block_alloc, initial, heap, active, max_block_size, allocs,
                 last, hint>>

AllocSome(i, size) ==
  \/ FastMalloc(i, size)
  \/ \E base \in Addresses, extra \in ExtraSizes : SlowMalloc(i, size, base, extra)
  \/ SlowMallocFails(size)

Malloc(size) ==
  /\ phase = "live"
  /\ Len(allocs) < MaxAllocs
  /\ AllocSome(Len(allocs) + 1, size)

Resized(i, size, ptr, newlast) ==
  /\ mem' = [mem EXCEPT ![active].ptr = ptr]
  /\ allocs' = [allocs EXCEPT ![i].size = size]
  /\ last' = newlast
  /\ UNCHANGED <<phase, block_alloc, initial, heap, active, max_block_size, hint>>

\* Mutant: the memory is reclaimed wherever the allocation is.
ReclaimedAlways(a, x, size) == a.ptr - (Align(x.size) - Align(size))

\* Where the bump pointer goes when x shrinks to size bytes.
Reclaimed(a, x, size) ==
  IF WasLastAllocFromCurrentBlock(a, x)
  THEN a.ptr - (Align(x.size) - Align(size)) ELSE a.ptr

\* upb_Arena_ShrinkLast; its caller promises that (ptr, oldsize) is the last
\* malloc or realloc.
ShrinkLast(i, size) ==
  /\ phase = "live"
  /\ i = last
  /\ size <= allocs[i].size
  /\ Resized(i, size, Reclaimed(A, allocs[i], size), 0)

\* A caller shrinks an allocation, whichever it is, with upb_Arena_Realloc.
ReallocShrink(i, size) ==
  /\ phase = "live"
  /\ size <= allocs[i].size
  /\ Resized(i, size, Reclaimed(A, allocs[i], size),
             IF WasLastAllocFromCurrentBlock(A, allocs[i]) THEN i
             ELSE IF last = i THEN 0 ELSE last)

Extension(x, size) == Align(size) - Align(x.size)

CanExtend(a, x, size) ==
  /\ WasLastAllocFromCurrentBlock(a, x)
  /\ ArenaHas(a) >= Extension(x, size)

\* upb_Arena_TryExtend, alone or in upb_Arena_Realloc, when it returns true
\* (it changes nothing when it returns false).
TryExtend(i, size) ==
  /\ phase = "live"
  /\ size > allocs[i].size
  /\ CanExtend(A, allocs[i], size)
  /\ Resized(i, size, A.ptr + Extension(allocs[i], size), i)

\* upb_Arena_Realloc that has to move the allocation.
ReallocCopy(i, size) ==
  /\ phase = "live"
  /\ size > allocs[i].size
  /\ ~ CanExtend(A, allocs[i], size)
  /\ AllocSome(i, size)

SetMaxBlockSize(max) ==
  /\ phase = "live"
  /\ max_block_size # max
  /\ max_block_size' = max
  /\ UNCHANGED <<phase, block_alloc, initial, heap, mem, active, allocs, last, hint>>

\* Mutant: the counter behind the offset of the memcpy is forgotten.
SwapInUncounted(des, src) ==
  [mem[src] EXCEPT !.space_allocated = mem[des].space_allocated]

\* _upb_Arena_SwapIn copies everything allocation uses into des.
SwapIn(des, src) == mem[src]

\* upb_Decoder_Init: the decoder allocates from its own copy of the arena.
DecoderInit ==
  /\ phase = "live"
  /\ active = "arena"
  /\ mem' = [mem EXCEPT !.decoder = SwapIn("decoder", "arena")]
  /\ active' = "decoder"
  /\ UNCHANGED <<phase, block_alloc, initial, heap, max_block_size, allocs, last, hint>>

\* upb_Decoder_Destroy: _upb_Arena_SwapOut, and the decoder is gone.
DecoderDestroy ==
  /\ phase = "live"
  /\ active = "decoder"
  /\ mem' = [arena |-> SwapIn("arena", "decoder"), decoder |-> Unborn]
  /\ active' = "arena"
  /\ UNCHANGED <<phase, block_alloc, initial, heap, max_block_size, allocs, last, hint>>

\* _upb_Arena_DoFree for the arena's own blocks: each is returned with the size
\* its header holds.
DoFree ==
  /\ phase = "live"
  /\ active = "arena"
  /\ heap' = {b \in heap : \A k \in 1..Len(A.blocks) : A.blocks[k] # b}
  /\ phase' = "freed"
  /\ allocs' = <<>> /\ last' = 0 /\ hint' = 0
  /\ UNCHANGED <<block_alloc, initial, mem, active, max_block_size>>

Next ==
  \/ \E base \in Addresses, n \in InitialSizes, alloc \in Allocators :
       InitWithBlock(base, n, alloc)
  \/ \E base \in Addresses, n \in Sizes, alloc \in Allocators, extra \in ExtraSizes :
       InitSlow(base, n, alloc, extra)
  \/ \E size \in Sizes : Malloc(size)
  \/ \E i \in 1..Len(allocs), size \in Sizes :
       \/ ShrinkLast(i, size)
       \/ ReallocShrink(i, size)
       \/ TryExtend(i, size)
       \/ ReallocCopy(i, size)
  \/ \E max \in MaxBlockSizes : SetMaxBlockSize(max)
  \/ DecoderInit
  \/ DecoderDestroy
  \/ DoFree

Spec == Init /\ [][Next]_vars

-----------------------------------------------------------------------------
(* Properties *)

BlockType == [base : Nat, size : Nat]
ArenaType == [ptr : Nat, end : Nat, blocks : Seq(BlockType), size_hint : Nat,
              space_allocated : Nat]

\* Every variable has its type.
TypeOK ==
  /\ phase \in {"none", "live", "freed", "crashed"}
  /\ block_alloc \in Nat
  /\ initial \subseteq BlockType /\ heap \subseteq BlockType
  /\ mem \in [{"arena", "decoder"} -> ArenaType]
  /\ active \in {"arena", "decoder"}
  /\ max_block_size \in Nat
  /\ allocs \in Seq([at : Nat, size : Nat])
  /\ last \in 0..Len(allocs)
  /\ hint \in Nat

\* No malloc, realloc, shrink or extension, in whatever order, through the
\* arena or the decoder's copy, hands out memory outside the data of one block
\* or memory that another live allocation (with its guard) occupies, even when
\* the allocator puts blocks next to each other.
InBlock(x) ==
  \E r \in Regions : /\ r.base + kUpb_MemblockReserve <= x.at
                     /\ AllocEnd(x) <= r.base + r.size
AllocationsSafe ==
  \A i \in 1..Len(allocs) :
    /\ InBlock(allocs[i])
    /\ \A j \in 1..Len(allocs) : i # j =>
         Apart(allocs[i].at, AllocSpan(allocs[i].size),
               allocs[j].at, AllocSpan(allocs[j].size))

Bytes(b) == b.base .. b.base + b.size - 1

\* space_allocated of the arena in use is the number of bytes the allocator has
\* handed out, so upb_Arena_SpaceAllocated reports the truth outside a decode.
SpaceAllocatedExact ==
  phase = "live" => A.space_allocated = Cardinality(UNION {Bytes(b) : b \in heap})

\* upb_Arena_Free returns every block the allocator handed out, with its size,
\* wherever the slow path linked it and whoever (arena or decoder) obtained it.
EveryBlockFreed == phase = "freed" => heap = {}

\* upb_Arena_ShrinkLast finds the allocation it is given, which its caller
\* obtained last: it ends at the bump pointer, or it fills the second block (up
\* to what the allocator reported above the request), as the assertion says.
LastIsRecognised ==
  last # 0 => \/ WasLastAllocFromCurrentBlock(A, allocs[last])
              \/ \E slack \in ExtraSizes : WasLastAlloc(A, allocs[last], slack)

\* An allocated block stops being the current one only for a block that leaves
\* more free space after the request, whatever was freed, hinted or set before.
FreeSpaceGrows ==
  [][ /\ phase = "live" /\ active' = active
      /\ A.blocks # <<>> /\ Head(A.blocks) # Head(A'.blocks)
      /\ max_block_size >= kUpb_MemblockReserve
      => ArenaHas(A) < ArenaHas(A') ]_vars

\* A Malloc of the size given as a hint to upb_Arena_Init needs no other block.
HintSuffices == hint # 0 => ArenaHas(A) >= AllocSpan(hint)

\* An arena without an allocator cannot grow: it fails, it never crashes.
FixedSizeCannotGrow == phase # "crashed"
=============================================================================

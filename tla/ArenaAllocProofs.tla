-------------------------- MODULE ArenaAllocProofs --------------------------
(***************************************************************************)
(* For every set of sizes and addresses, every guard size and every        *)
(* allocator: allocations are inside blocks and apart, every block is      *)
(* freed, ShrinkLast recognises the last allocation, the first block has   *)
(* the room it was created for, the free space of the current block only   *)
(* gives way to a larger one, and the arena counts the bytes it was given. *)
(***************************************************************************)
EXTENDS ArenaAlloc, FiniteSetTheorems, TLAPS

-----------------------------------------------------------------------------
(* The inductive invariant *)

Started == phase \in {"live", "crashed"}

\* What holds before an arena exists and after it is freed.
Quiet ==
  /\ phase = "none" => /\ allocs = <<>> /\ last = 0
                       /\ heap = {} /\ initial = {} /\ active = "arena"
  /\ phase = "freed" => allocs = <<>> /\ last = 0 /\ heap = {}

RegionsSized == \A r \in Regions : r.size >= kUpb_MemblockReserve
RegionsApart ==
  \A r, s \in Regions : r # s => \/ r.base + r.size <= s.base
                                 \/ s.base + s.size <= r.base

\* The free space is the end of one block, behind its header.
CurrentInBlock ==
  Started => \E r \in Regions : /\ r.base + kUpb_MemblockReserve <= A.ptr
                                /\ A.ptr <= A.end
                                /\ A.end = r.base + r.size

\* No allocation reaches into the free space.
FreeApart ==
  Started => \A i \in 1..Len(allocs) :
               Apart(allocs[i].at, AllocSpan(allocs[i].size), A.ptr, ArenaHas(A))

Listed(s, b) == \E k \in 1..Len(s) : s[k] = b

\* The arena in use lists exactly the blocks handed out.
BlocksListed ==
  Started => \A b : b \in heap <=> Listed(A.blocks, b)

IndInv == /\ TypeOK /\ Quiet /\ RegionsSized /\ RegionsApart
          /\ CurrentInBlock /\ FreeApart /\ BlocksListed
          /\ AllocationsSafe /\ LastIsRecognised

-----------------------------------------------------------------------------
(* Arithmetic *)

\* Rounding up to the malloc alignment never loses bytes and keeps the order.
LEMMA AlignFacts ==
  /\ \A n \in Nat : Align(n) \in Nat /\ Align(n) >= n
  /\ \A m, n \in Nat : m <= n => Align(m) <= Align(n)
BY DEF Align

\* The span of an allocation covers its bytes.
LEMMA SpanFacts ==
  /\ \A n \in Nat : AllocSpan(n) \in Nat /\ AllocSpan(n) >= n
  /\ \A m, n \in Nat : m <= n => AllocSpan(m) <= AllocSpan(n)
  /\ \A m, n \in Nat : AllocSpan(n) - AllocSpan(m) = Align(n) - Align(m)
BY AlignFacts, ArenaAllocAssumption DEF AllocSpan

\* A block planned for a request has room for its header and the request, and
\* goes behind the head only when there is a head.
LEMMA PlanFacts ==
  ASSUME TypeOK, NEW a \in ArenaType, NEW span \in Nat
  PROVE  /\ Plan(a, span).block_size \in Nat
         /\ Plan(a, span).block_size >= span + kUpb_MemblockReserve
         /\ Plan(a, span).insert_after_head =>
              /\ a.blocks # <<>>
              /\ Plan(a, span).block_size = span + kUpb_MemblockReserve
         /\ Plan(a, span).insert_after_head \in BOOLEAN
         /\ Plan(a, span).size_hint \in Nat
<1> DEFINE last_block == a.blocks # <<>>
           current_free == IF last_block THEN ArenaHas(a) ELSE 0
           Target(last_size) == MinOf(last_size * 2, max_block_size)
           FutureFree(target) ==
             MaxOf(span, Minus(target, kUpb_MemblockReserve)) - span
           natural == Target(IF last_block THEN Head(a.blocks).size
                                           ELSE default_last_size)
           target_size == IF /\ last_block
                             /\ current_free > FutureFree(natural)
                             /\ natural < max_block_size
                          THEN Target(a.size_hint) ELSE natural
           insert_after_head ==
             last_block /\ KeepHead(current_free, FutureFree(target_size))
           exact == span + kUpb_MemblockReserve
<1>1. max_block_size \in Nat
  BY DEF TypeOK
<1>2. \A n \in Nat : Target(n) \in Nat
  BY <1>1 DEF MinOf
<1>3. natural \in Nat
  <2>1. a.blocks \in Seq(BlockType)
    BY DEF ArenaType
  <2>2. last_block => Head(a.blocks) \in BlockType
    BY <2>1
  <2>3. last_block => Head(a.blocks).size \in Nat
    BY <2>2 DEF BlockType
  <2> QED
    BY <2>3, <1>2 DEF default_last_size
<1>4. target_size \in Nat
  <2>1. a.size_hint \in Nat
    BY DEF ArenaType
  <2> HIDE DEF Target, FutureFree, natural
  <2> QED
    BY <1>2, <1>3, <2>1
<1>5. exact \in Nat /\ insert_after_head \in BOOLEAN
  BY DEF kUpb_MemblockReserve
<1>6. \A n \in Nat : NextHint(n, span) \in Nat
  BY <1>1 DEF NextHint, MinOf
<1>7. a.size_hint \in Nat
  BY DEF ArenaType
<1>8. Plan(a, span) =
        [insert_after_head |-> insert_after_head,
         size_hint |-> IF insert_after_head /\ exact <= max_block_size
                       THEN NextHint(a.size_hint, span) ELSE a.size_hint,
         block_size |-> IF insert_after_head THEN exact
                        ELSE MaxOf(exact, target_size)]
  BY DEF Plan
<1>9. insert_after_head => a.blocks # <<>>
  OBVIOUS
<1> HIDE DEF insert_after_head, exact, target_size
<1>10. MaxOf(exact, target_size) \in Nat /\ MaxOf(exact, target_size) >= exact
  BY <1>4, <1>5 DEF MaxOf
<1>11. /\ Plan(a, span).block_size \in Nat
       /\ Plan(a, span).block_size >= exact
       /\ insert_after_head => Plan(a, span).block_size = exact
       /\ Plan(a, span).insert_after_head = insert_after_head
       /\ Plan(a, span).size_hint \in Nat
  BY <1>5, <1>6, <1>7, <1>8, <1>10
<1> QED
  BY <1>5, <1>9, <1>11 DEF exact

-----------------------------------------------------------------------------
(* Facts about a state *)

AllocType == [at : Nat, size : Nat]

\* The types of the parts a step reads.
LEMMA StateFacts ==
  ASSUME TypeOK
  PROVE  /\ A \in ArenaType /\ A.ptr \in Nat /\ A.end \in Nat
         /\ A.blocks \in Seq(BlockType)
         /\ \A r \in Regions : r.base \in Nat /\ r.size \in Nat
         /\ \A i \in 1..Len(allocs) :
              /\ allocs[i] \in AllocType
              /\ allocs[i].at \in Nat /\ allocs[i].size \in Nat
              /\ AllocSpan(allocs[i].size) \in Nat
<1>1. A \in ArenaType
  BY DEF TypeOK, A
<1>2. A.ptr \in Nat /\ A.end \in Nat /\ A.blocks \in Seq(BlockType)
  BY <1>1 DEF ArenaType
<1>3. \A r \in Regions : r.base \in Nat /\ r.size \in Nat
  BY DEF TypeOK, Regions, BlockType
<1>4. ASSUME NEW i \in 1..Len(allocs)
      PROVE  /\ allocs[i] \in AllocType
             /\ allocs[i].at \in Nat /\ allocs[i].size \in Nat
             /\ AllocSpan(allocs[i].size) \in Nat
  <2>1. allocs \in Seq(AllocType)
    BY DEF TypeOK, AllocType
  <2>2. allocs[i] \in AllocType
    BY <2>1
  <2>3. allocs[i].at \in Nat /\ allocs[i].size \in Nat
    BY <2>2 DEF AllocType
  <2> QED
    BY <2>2, <2>3, SpanFacts
<1> QED
  BY <1>1, <1>2, <1>3, <1>4

\* Moving the bump pointer changes nothing else.
LEMMA PtrMoved ==
  ASSUME NEW a \in ArenaType, NEW p \in Nat
  PROVE  /\ [a EXCEPT !.ptr = p] \in ArenaType
         /\ [a EXCEPT !.ptr = p].ptr = p
         /\ [a EXCEPT !.ptr = p].end = a.end
         /\ [a EXCEPT !.ptr = p].blocks = a.blocks
BY DEF ArenaType

\* Intervals: what is apart from the free space [p, e) is apart from its front
\* and from what remains, which are apart from each other.
LEMMA FrontApart ==
  ASSUME NEW a \in Nat, NEW m \in Nat, NEW p \in Nat, NEW e \in Nat, NEW s \in Nat,
         p + s <= e
  PROVE  /\ Apart(a, m, p, e - p) => /\ Apart(a, m, p, s)
                                     /\ Apart(a, m, p + s, e - (p + s))
         /\ Apart(p, s, p + s, e - (p + s))
BY DEF Apart

\* The two ways of linking a block keep the list's members and add the block.
LEMMA LinkedFacts ==
  ASSUME NEW s \in Seq(BlockType), NEW b \in BlockType
  PROVE  /\ <<b>> \o s \in Seq(BlockType)
         /\ \A c : (\E k \in 1..Len(<<b>> \o s) : (<<b>> \o s)[k] = c)
                   <=> (c = b \/ \E k \in 1..Len(s) : s[k] = c)
         /\ s # <<>> =>
              /\ <<Head(s), b>> \o Tail(s) \in Seq(BlockType)
              /\ Len(<<Head(s), b>> \o Tail(s)) >= 2
              /\ (<<Head(s), b>> \o Tail(s))[2] = b
              /\ \A c : (\E k \in 1..Len(<<Head(s), b>> \o Tail(s)) :
                            (<<Head(s), b>> \o Tail(s))[k] = c)
                        <=> (c = b \/ \E k \in 1..Len(s) : s[k] = c)
<1>1. <<b>> \o s \in Seq(BlockType) /\ Len(<<b>> \o s) = Len(s) + 1
      /\ (<<b>> \o s)[1] = b /\ \A k \in 1..Len(s) : (<<b>> \o s)[k + 1] = s[k]
  OBVIOUS
<1>2. ASSUME NEW c
      PROVE  (\E k \in 1..Len(<<b>> \o s) : (<<b>> \o s)[k] = c)
                <=> (c = b \/ \E k \in 1..Len(s) : s[k] = c)
  <2>1. ASSUME NEW k \in 1..Len(<<b>> \o s), (<<b>> \o s)[k] = c
        PROVE  c = b \/ \E l \in 1..Len(s) : s[l] = c
    <3>1. CASE k = 1
      BY <3>1, <2>1, <1>1
    <3>2. CASE k # 1
      <4>1. k - 1 \in 1..Len(s) /\ k = (k - 1) + 1
        BY <3>2, <2>1, <1>1
      <4> QED
        BY <4>1, <2>1, <1>1
    <3> QED
      BY <3>1, <3>2
  <2>2. ASSUME NEW k \in 1..Len(s), s[k] = c
        PROVE  \E l \in 1..Len(<<b>> \o s) : (<<b>> \o s)[l] = c
    <3>1. k + 1 \in 1..Len(<<b>> \o s) /\ (<<b>> \o s)[k + 1] = c
      BY <2>2, <1>1
    <3> QED
      BY <3>1
  <2>3. 1 \in 1..Len(<<b>> \o s)
    BY <1>1
  <2> QED
    BY <2>1, <2>2, <2>3, <1>1
<1>3. ASSUME s # <<>>
      PROVE  /\ <<Head(s), b>> \o Tail(s) \in Seq(BlockType)
             /\ Len(<<Head(s), b>> \o Tail(s)) >= 2
             /\ (<<Head(s), b>> \o Tail(s))[2] = b
             /\ \A c : (\E k \in 1..Len(<<Head(s), b>> \o Tail(s)) :
                           (<<Head(s), b>> \o Tail(s))[k] = c)
                       <=> (c = b \/ \E k \in 1..Len(s) : s[k] = c)
  <2> DEFINE u == <<Head(s), b>> \o Tail(s)
  <2>1. /\ Tail(s) \in Seq(BlockType) /\ Len(Tail(s)) = Len(s) - 1 /\ Len(s) >= 1
        /\ \A k \in 1..(Len(s) - 1) : Tail(s)[k] = s[k + 1]
        /\ Head(s) = s[1] /\ Head(s) \in BlockType
    BY <1>3
  <2>2. /\ u \in Seq(BlockType) /\ Len(u) = Len(s) + 1
        /\ u[1] = s[1] /\ u[2] = b
        /\ \A k \in 1..(Len(s) - 1) : u[k + 2] = Tail(s)[k]
    BY <2>1
  <2>3. \A k \in 2..Len(s) : u[k + 1] = s[k]
    <3>1. ASSUME NEW k \in 2..Len(s) PROVE u[k + 1] = s[k]
      <4>1. k - 1 \in 1..(Len(s) - 1) /\ (k - 1) + 2 = k + 1 /\ (k - 1) + 1 = k
        BY <2>1
      <4> QED
        BY <4>1, <2>1, <2>2
    <3> QED
      BY <3>1
  <2> HIDE DEF u
  <2>4. ASSUME NEW c
        PROVE  (\E k \in 1..Len(u) : u[k] = c)
                  <=> (c = b \/ \E k \in 1..Len(s) : s[k] = c)
    <3>1. ASSUME NEW k \in 1..Len(u), u[k] = c
          PROVE  c = b \/ \E l \in 1..Len(s) : s[l] = c
      <4>1. CASE k = 1 \/ k = 2
        BY <4>1, <3>1, <2>1, <2>2
      <4>2. CASE k > 2
        <5>1. k - 1 \in 2..Len(s) /\ (k - 1) + 1 = k
          BY <4>2, <3>1, <2>1, <2>2
        <5> QED
          <6>1. u[k] = s[k - 1] /\ k - 1 \in 1..Len(s)
            BY <5>1, <2>1, <2>3
          <6> QED
            BY <6>1, <3>1
      <4> QED
        BY <4>1, <4>2, <2>1, <2>2
    <3>2. ASSUME NEW k \in 1..Len(s), s[k] = c
          PROVE  \E l \in 1..Len(u) : u[l] = c
      <4>1. CASE k = 1
        BY <4>1, <3>2, <2>1, <2>2
      <4>2. CASE k > 1
        <5>1. k + 1 \in 1..Len(u) /\ u[k + 1] = c
          BY <4>2, <3>2, <2>1, <2>2, <2>3
        <5> QED
          BY <5>1
      <4> QED
        BY <4>1, <4>2, <2>1
    <3>3. 2 \in 1..Len(u)
      BY <2>1, <2>2
    <3> QED
      BY <3>1, <3>2, <3>3, <2>2
  <2>5. Len(u) >= 2
    BY <2>1, <2>2
  <2> QED
    BY <2>2, <2>4, <2>5 DEF u
<1> QED
  BY <1>1, <1>2, <1>3

\* What the result of a malloc or a copying realloc does to the allocations.
LEMMA ReturnedFacts ==
  ASSUME TypeOK, NEW i \in 1..(Len(allocs) + 1), NEW at \in Nat, NEW size \in Nat,
         Returned(i, at, size)
  PROVE  /\ allocs' \in Seq(AllocType)
         /\ i \in 1..Len(allocs')
         /\ allocs'[i] = [at |-> at, size |-> size]
         /\ \A j \in 1..Len(allocs') :
              j # i => j \in 1..Len(allocs) /\ allocs'[j] = allocs[j]
         /\ last' = i /\ last' \in 0..Len(allocs')
         /\ hint' = 0
<1> DEFINE n == MaxOf(i, Len(allocs))
<1>1. Len(allocs) \in Nat /\ allocs \in Seq(AllocType)
  BY DEF TypeOK, AllocType
<1>2. n \in Nat /\ i \in 1..n /\ \A j \in 1..n : j # i => j \in 1..Len(allocs)
  BY <1>1 DEF MaxOf
<1> HIDE DEF n
<1>3. allocs' = [j \in 1..n |-> IF j = i THEN [at |-> at, size |-> size]
                                        ELSE allocs[j]]
  BY DEF Returned, n
<1>4. \A j \in 1..n : j # i => allocs[j] \in AllocType
  BY <1>1, <1>2
<1>5. [at |-> at, size |-> size] \in AllocType
  BY DEF AllocType
<1>6. allocs' \in Seq(AllocType) /\ Len(allocs') = n
  BY <1>2, <1>3, <1>4, <1>5
<1>7. last' = i /\ hint' = 0
  BY DEF Returned
<1> QED
  BY <1>2, <1>3, <1>6, <1>7

\* What a resize in place does to the allocations.
LEMMA ResizedFacts ==
  ASSUME TypeOK, NEW i \in 1..Len(allocs), NEW size \in Nat,
         NEW ptr \in Nat, NEW newlast \in 0..Len(allocs),
         Resized(i, size, ptr, newlast)
  PROVE  /\ allocs' \in Seq(AllocType) /\ Len(allocs') = Len(allocs)
         /\ allocs'[i].at = allocs[i].at /\ allocs'[i].size = size
         /\ \A j \in 1..Len(allocs) : j # i => allocs'[j] = allocs[j]
         /\ mem' \in [{"arena", "decoder"} -> ArenaType]
         /\ active' = active
         /\ A'.ptr = ptr /\ A'.end = A.end /\ A'.blocks = A.blocks
         /\ last' = newlast /\ last' \in 0..Len(allocs')
<1>1. allocs \in Seq(AllocType)
  BY DEF TypeOK, AllocType
<1>2. allocs[i] \in AllocType
  BY <1>1
<1>3. allocs' = [allocs EXCEPT ![i].size = size] /\ active' = active
      /\ mem' = [mem EXCEPT ![active].ptr = ptr] /\ last' = newlast
  BY DEF Resized
<1>4. [allocs[i] EXCEPT !.size = size] \in AllocType
  BY <1>2 DEF AllocType
<1>5. allocs' \in Seq(AllocType) /\ Len(allocs') = Len(allocs)
  BY <1>1, <1>3, <1>4
<1>6. /\ allocs'[i].at = allocs[i].at /\ allocs'[i].size = size
      /\ \A j \in 1..Len(allocs) : j # i => allocs'[j] = allocs[j]
  BY <1>1, <1>2, <1>3 DEF AllocType
<1>7. mem \in [{"arena", "decoder"} -> ArenaType] /\ active \in {"arena", "decoder"}
  BY DEF TypeOK
<1>8. mem[active] \in ArenaType
  BY <1>7
<1>9. [mem[active] EXCEPT !.ptr = ptr] \in ArenaType
  BY <1>8 DEF ArenaType
<1>10. mem' \in [{"arena", "decoder"} -> ArenaType]
  BY <1>3, <1>7, <1>9
<1>11. A' = [mem[active] EXCEPT !.ptr = ptr]
  BY <1>3, <1>7 DEF A
<1>12. A'.ptr = ptr /\ A'.end = A.end /\ A'.blocks = A.blocks
  BY <1>8, <1>11 DEF A, ArenaType
<1> QED
  BY <1>3, <1>5, <1>6, <1>10, <1>12

\* A new allocation that is in a block and apart from the others is safe.
LEMMA NewAllocationSafe ==
  ASSUME TypeOK, AllocationsSafe, NEW i \in 1..(Len(allocs) + 1),
         NEW at \in Nat, NEW size \in Nat, Returned(i, at, size),
         Regions \subseteq Regions',
         \E r \in Regions' : /\ r.base + kUpb_MemblockReserve <= at
                              /\ at + AllocSpan(size) <= r.base + r.size,
         \A j \in 1..Len(allocs) :
            Apart(allocs[j].at, AllocSpan(allocs[j].size), at, AllocSpan(size))
  PROVE  AllocationsSafe'
<1> DEFINE x == [at |-> at, size |-> size]
<1>1. /\ i \in 1..Len(allocs') /\ allocs'[i] = x
      /\ \A j \in 1..Len(allocs') :
           j # i => j \in 1..Len(allocs) /\ allocs'[j] = allocs[j]
  BY ReturnedFacts
<1> DEFINE InNew(y) == \E r \in Regions' :
                          /\ r.base + kUpb_MemblockReserve <= y.at
                          /\ AllocEnd(y) <= r.base + r.size
<1>2. InNew(x)
  BY DEF AllocEnd
<1>3. \A y : InBlock(y) => InNew(y)
  BY DEF InBlock
<1> HIDE DEF InNew
<1>4. ASSUME NEW j \in 1..Len(allocs')
      PROVE  InNew(allocs'[j])
  <2>1. CASE j = i
    BY <2>1, <1>1, <1>2
  <2>2. CASE j # i
    BY <2>2, <1>1, <1>3 DEF AllocationsSafe
  <2> QED
    BY <2>1, <2>2
<1>5. ASSUME NEW j \in 1..Len(allocs'), NEW k \in 1..Len(allocs'), j # k
      PROVE  Apart(allocs'[j].at, AllocSpan(allocs'[j].size),
                   allocs'[k].at, AllocSpan(allocs'[k].size))
  <2>1. CASE j # i /\ k # i
    BY <2>1, <1>1, <1>5 DEF AllocationsSafe
  <2>2. CASE j = i
    BY <2>2, <1>1, <1>5 DEF Apart
  <2>3. CASE k = i
    BY <2>3, <1>1, <1>5
  <2> QED
    BY <2>1, <2>2, <2>3
<1> QED
  BY <1>4, <1>5 DEF AllocationsSafe, InBlock, InNew

-----------------------------------------------------------------------------
(* Steps that allocate *)

\* Taking the front of the free space for the allocation.
LEMMA FastMallocStep ==
  ASSUME IndInv, phase = "live", NEW size \in Sizes,
         NEW i \in 1..(Len(allocs) + 1), FastMalloc(i, size)
  PROVE  IndInv'
<1> DEFINE span == AllocSpan(size)
<1>1. TypeOK /\ AllocationsSafe /\ size \in Nat /\ span \in Nat
  BY ArenaAllocAssumption, SpanFacts DEF IndInv
<1>2. /\ A.ptr \in Nat /\ A.end \in Nat /\ A \in ArenaType
      /\ \A r \in Regions : r.base \in Nat /\ r.size \in Nat
      /\ \A j \in 1..Len(allocs) : /\ allocs[j].at \in Nat
                                    /\ AllocSpan(allocs[j].size) \in Nat
  BY <1>1, StateFacts
<1>3. A.ptr + span <= A.end
  BY <1>1, <1>2 DEF FastMalloc, ArenaHas
<1>4. /\ Returned(i, A.ptr, size) /\ mem' = [mem EXCEPT ![active].ptr = @ + span]
      /\ UNCHANGED <<phase, block_alloc, initial, heap, active, max_block_size>>
  BY DEF FastMalloc
<1> HIDE DEF span
<1>5. Regions' = Regions /\ Started
  BY <1>4 DEF Regions, Started
<1>6. mem' \in [{"arena", "decoder"} -> ArenaType]
      /\ A'.ptr = A.ptr + span /\ A'.end = A.end /\ A'.blocks = A.blocks
  <2>1. mem \in [{"arena", "decoder"} -> ArenaType] /\ active \in {"arena", "decoder"}
    BY <1>1 DEF TypeOK
  <2>2. A' = [A EXCEPT !.ptr = A.ptr + span]
    BY <2>1, <1>4 DEF A
  <2>3. A' \in ArenaType
    BY <2>2, <1>1, <1>2, PtrMoved, SMTT(30)
  <2>4. mem' = [mem EXCEPT ![active] = A']
    BY <2>1, <2>2, <1>4 DEF A
  <2> QED
    BY <2>1, <2>2, <2>3, <2>4, <1>1, <1>2, PtrMoved
<1>7. /\ allocs' \in Seq(AllocType) /\ i \in 1..Len(allocs')
      /\ allocs'[i] = [at |-> A.ptr, size |-> size]
      /\ \A j \in 1..Len(allocs') :
           j # i => j \in 1..Len(allocs) /\ allocs'[j] = allocs[j]
      /\ last' = i /\ last' \in 0..Len(allocs') /\ hint' = 0
  BY <1>1, <1>2, <1>4, ReturnedFacts
<1>8. TypeOK'
  BY <1>1, <1>4, <1>6, <1>7 DEF TypeOK, AllocType
<1>9. CurrentInBlock'
  BY <1>1, <1>2, <1>3, <1>5, <1>6 DEF IndInv, CurrentInBlock, kUpb_MemblockReserve
<1>10. AllocationsSafe'
  <2>1. PICK r \in Regions : /\ r.base + kUpb_MemblockReserve <= A.ptr
                             /\ A.end = r.base + r.size
    BY <1>5 DEF IndInv, CurrentInBlock
  <2>2. \E s \in Regions' : /\ s.base + kUpb_MemblockReserve <= A.ptr
                             /\ A.ptr + span <= s.base + s.size
    BY <2>1, <1>3, <1>5
  <2>3. ASSUME NEW j \in 1..Len(allocs)
        PROVE  Apart(allocs[j].at, AllocSpan(allocs[j].size), A.ptr, span)
    <3>1. Apart(allocs[j].at, AllocSpan(allocs[j].size), A.ptr, ArenaHas(A))
      BY <1>5 DEF IndInv, FreeApart
    <3> QED
      BY <3>1, <1>1, <1>2, <1>3, SMTT(30) DEF Apart, ArenaHas
  <2> QED
    BY <2>2, <2>3, <1>1, <1>2, <1>4, <1>5, NewAllocationSafe DEF span
<1>11. FreeApart'
  <2>1. ASSUME NEW j \in 1..Len(allocs')
        PROVE  Apart(allocs'[j].at, AllocSpan(allocs'[j].size),
                     A.ptr + span, A.end - (A.ptr + span))
    <3>1. CASE j = i
      BY <3>1, <1>1, <1>2, <1>7 DEF Apart, span
    <3>2. CASE j # i
      <4>1. /\ j \in 1..Len(allocs) /\ allocs'[j] = allocs[j]
            /\ Apart(allocs[j].at, AllocSpan(allocs[j].size), A.ptr, ArenaHas(A))
        BY <3>2, <1>5, <1>7 DEF IndInv, FreeApart
      <4>2. allocs[j].at \in Nat /\ AllocSpan(allocs[j].size) \in Nat
        BY <4>1, <1>2
      <4> QED
        BY <4>1, <4>2, <1>1, <1>2, <1>3, FrontApart DEF ArenaHas
    <3> QED
      BY <3>1, <3>2
  <2> QED
    BY <2>1, <1>6 DEF FreeApart, ArenaHas
<1>12. LastIsRecognised'
  BY <1>6, <1>7 DEF LastIsRecognised, WasLastAllocFromCurrentBlock, AllocEnd, span
<1>13. Quiet' /\ RegionsSized' /\ RegionsApart' /\ BlocksListed'
  BY <1>4, <1>5, <1>6 DEF IndInv, Quiet, RegionsSized, RegionsApart, BlocksListed, Started
<1> QED
  BY <1>8, <1>9, <1>10, <1>11, <1>12, <1>13 DEF IndInv

\* The arena after a new block, whichever place it took in the list.
LEMMA GrownFacts ==
  ASSUME TypeOK, NEW block \in BlockType, NEW span \in Nat
  PROVE  LET plan == Plan(A, span)
             g == Grown(A, plan, block, span)
         IN /\ g \in ArenaType
            /\ \A c : Listed(g.blocks, c)
                      <=> (c = block \/ Listed(A.blocks, c))
            /\ plan.insert_after_head =>
                 /\ g.ptr = A.ptr /\ g.end = A.end
                 /\ Len(g.blocks) >= 2 /\ g.blocks[2] = block
            /\ ~ plan.insert_after_head =>
                 /\ g.ptr = block.base + kUpb_MemblockReserve + span
                 /\ g.end = block.base + block.size
<1> DEFINE a == A
           plan == Plan(A, span)
           g == Grown(A, plan, block, span)
<1>a. a \in ArenaType
  BY StateFacts
<1>b. /\ plan.insert_after_head \in BOOLEAN /\ plan.size_hint \in Nat
      /\ plan.insert_after_head => a.blocks # <<>>
  BY PlanFacts, StateFacts
<1>c. g = Grown(a, plan, block, span)
  OBVIOUS
<1> SUFFICES
      /\ g \in ArenaType
      /\ \A c : Listed(g.blocks, c)
                <=> (c = block \/ Listed(a.blocks, c))
      /\ plan.insert_after_head =>
           /\ g.ptr = a.ptr /\ g.end = a.end
           /\ Len(g.blocks) >= 2 /\ g.blocks[2] = block
      /\ ~ plan.insert_after_head =>
           /\ g.ptr = block.base + kUpb_MemblockReserve + span
           /\ g.end = block.base + block.size
  OBVIOUS
<1> HIDE DEF a, plan, g
<1>1. /\ a = [ptr |-> a.ptr, end |-> a.end, blocks |-> a.blocks,
              size_hint |-> a.size_hint, space_allocated |-> a.space_allocated]
      /\ a.ptr \in Nat /\ a.end \in Nat /\ a.blocks \in Seq(BlockType)
      /\ a.size_hint \in Nat /\ a.space_allocated \in Nat
      /\ block.base \in Nat /\ block.size \in Nat
  BY <1>a DEF ArenaType, BlockType
<1>2. CASE plan.insert_after_head
  <2> DEFINE u == <<Head(a.blocks), block>> \o Tail(a.blocks)
  <2>1. g = [ptr |-> a.ptr, end |-> a.end, blocks |-> u,
             size_hint |-> plan.size_hint,
             space_allocated |-> a.space_allocated + block.size]
    BY <1>c, <1>1, <1>2 DEF Grown, AddBehind
  <2>2. /\ u \in Seq(BlockType) /\ Len(u) >= 2 /\ u[2] = block
        /\ \A c : Listed(u, c)
                  <=> (c = block \/ Listed(a.blocks, c))
    <3>1. a.blocks \in Seq(BlockType) /\ a.blocks # <<>>
      BY <1>b, <1>1, <1>2
    <3> QED
      BY <3>1, LinkedFacts, ZenonT(40) DEF Listed
  <2> HIDE DEF u
  <2>3. g \in ArenaType
    BY <2>1, <2>2, <1>1, <1>b DEF ArenaType
  <2>4. g.blocks = u /\ g.ptr = a.ptr /\ g.end = a.end
    BY <2>1
  <2> QED
    BY <2>2, <2>3, <2>4, <1>2
<1>3. CASE ~ plan.insert_after_head
  <2> DEFINE u == <<block>> \o a.blocks
  <2>1. g = [ptr |-> block.base + kUpb_MemblockReserve + span,
             end |-> block.base + block.size, blocks |-> u,
             size_hint |-> block.size,
             space_allocated |-> a.space_allocated + block.size]
    BY <1>c, <1>1, <1>3 DEF Grown, AddBlock
  <2>2. /\ u \in Seq(BlockType)
        /\ \A c : Listed(u, c)
                  <=> (c = block \/ Listed(a.blocks, c))
    BY <1>1, LinkedFacts DEF Listed
  <2> HIDE DEF u
  <2>3. g \in ArenaType
    <3>1. /\ block.base + kUpb_MemblockReserve + span \in Nat
          /\ block.base + block.size \in Nat
          /\ a.space_allocated + block.size \in Nat
      <4>1. block.base \in Nat /\ block.size \in Nat /\ a.space_allocated \in Nat
        BY <1>1
      <4> QED
        BY <4>1 DEF kUpb_MemblockReserve
    <3> QED
      BY <3>1, <2>1, <2>2, <1>1 DEF ArenaType
  <2>4. /\ g.blocks = u /\ g.ptr = block.base + kUpb_MemblockReserve + span
        /\ g.end = block.base + block.size
    BY <2>1
  <2> QED
    BY <2>2, <2>3, <2>4, <1>3
<1> QED
  BY <1>b, <1>2, <1>3

\* A new block, and the allocation at its front.
LEMMA SlowMallocStep ==
  ASSUME IndInv, phase = "live", NEW size \in Sizes,
         NEW i \in 1..(Len(allocs) + 1), NEW base \in Addresses,
         NEW extra \in ExtraSizes, SlowMalloc(i, size, base, extra)
  PROVE  IndInv'
<1> DEFINE span == AllocSpan(size)
           plan == Plan(A, span)
           n == plan.block_size + extra
           block == Block(base, n)
           at == base + kUpb_MemblockReserve
<1>1. TypeOK /\ AllocationsSafe /\ size \in Nat /\ span \in Nat
      /\ base \in Nat /\ extra \in Nat /\ at \in Nat
  BY ArenaAllocAssumption, SpanFacts DEF IndInv, kUpb_MemblockReserve
<1>2. /\ A.ptr \in Nat /\ A.end \in Nat /\ A \in ArenaType
      /\ \A r \in Regions : r.base \in Nat /\ r.size \in Nat
      /\ \A j \in 1..Len(allocs) : /\ allocs[j].at \in Nat
                                    /\ AllocSpan(allocs[j].size) \in Nat
  BY <1>1, StateFacts
<1>3. /\ Unused(base, n)
      /\ heap' = heap \union {block}
      /\ mem' = [mem EXCEPT ![active] = Grown(A, plan, block, span)]
      /\ Returned(i, at, size)
      /\ UNCHANGED <<phase, block_alloc, initial, active, max_block_size>>
  BY DEF SlowMalloc, Block
<1>4. /\ plan.block_size \in Nat /\ plan.block_size >= span + kUpb_MemblockReserve
      /\ plan.insert_after_head =>
           /\ A.blocks # <<>>
           /\ plan.block_size = span + kUpb_MemblockReserve
      /\ plan.insert_after_head \in BOOLEAN /\ plan.size_hint \in Nat
  <2> HIDE DEF span
  <2> QED
    BY <1>1, <1>2, PlanFacts
<1>5. AllocSpan(size) = span
  OBVIOUS
<1> HIDE DEF span, plan
<1>6. n \in Nat /\ n >= span + kUpb_MemblockReserve /\ n > 0
      /\ at + span <= base + n /\ base <= at
  BY <1>1, <1>4, SMTT(30) DEF kUpb_MemblockReserve
<1>7. block \in BlockType /\ block.base = base /\ block.size = n
  BY <1>1, <1>6 DEF Block, BlockType
<1> HIDE DEF n, block, at
<1>8. Started /\ Started' /\ Regions' = Regions \union {block}
  BY <1>3 DEF Regions, Started
<1>9. /\ mem' \in [{"arena", "decoder"} -> ArenaType]
      /\ \A c : Listed(A'.blocks, c)
                <=> (c = block \/ Listed(A.blocks, c))
      /\ plan.insert_after_head =>
           /\ A'.ptr = A.ptr /\ A'.end = A.end
           /\ Len(A'.blocks) >= 2 /\ A'.blocks[2] = block
      /\ ~ plan.insert_after_head => A'.ptr = at + span /\ A'.end = base + n
  <2> DEFINE g == Grown(A, plan, block, span)
  <2>1. mem \in [{"arena", "decoder"} -> ArenaType] /\ active \in {"arena", "decoder"}
    BY <1>1 DEF TypeOK
  <2>2. A' = g
    BY <2>1, <1>3 DEF A
  <2>3. /\ g \in ArenaType
        /\ \A c : Listed(g.blocks, c)
                  <=> (c = block \/ Listed(A.blocks, c))
        /\ plan.insert_after_head =>
             /\ g.ptr = A.ptr /\ g.end = A.end
             /\ Len(g.blocks) >= 2 /\ g.blocks[2] = block
        /\ ~ plan.insert_after_head =>
             /\ g.ptr = block.base + kUpb_MemblockReserve + span
             /\ g.end = block.base + block.size
    BY <1>1, <1>7, GrownFacts DEF plan
  <2> HIDE DEF g
  <2>4. mem' \in [{"arena", "decoder"} -> ArenaType]
    BY <2>1, <2>3, <1>3 DEF g
  <2> QED
    BY <2>2, <2>3, <2>4, <1>7 DEF at
<1>10. /\ allocs' \in Seq(AllocType) /\ i \in 1..Len(allocs')
       /\ allocs'[i] = [at |-> at, size |-> size]
       /\ \A j \in 1..Len(allocs') :
            j # i => j \in 1..Len(allocs) /\ allocs'[j] = allocs[j]
       /\ last' = i /\ last' \in 0..Len(allocs') /\ hint' = 0
  BY <1>1, <1>3, ReturnedFacts
<1>11. TypeOK'
  BY <1>1, <1>3, <1>7, <1>9, <1>10 DEF TypeOK, AllocType
<1>12. ASSUME NEW r \in Regions
       PROVE  /\ Apart(base, n, r.base, r.size)
              /\ r.size > 0 /\ r.base \in Nat /\ r.size \in Nat
  BY <1>2, <1>3 DEF Unused, IndInv, RegionsSized, kUpb_MemblockReserve
<1>13. RegionsSized' /\ RegionsApart'
  <2>1. \A r \in Regions : r.base + r.size <= base \/ base + n <= r.base
    BY <1>1, <1>6, <1>12 DEF Apart
  <2>2. n >= kUpb_MemblockReserve
    BY <1>1, <1>6 DEF kUpb_MemblockReserve
  <2> QED
    BY <2>1, <2>2, <1>7, <1>8 DEF IndInv, RegionsSized, RegionsApart
<1>14. ASSUME NEW j \in 1..Len(allocs), NEW q \in Nat, NEW l \in Nat,
              base <= q, q + l <= base + n
       PROVE  Apart(allocs[j].at, AllocSpan(allocs[j].size), q, l)
  <2>1. PICK r \in Regions : /\ r.base + kUpb_MemblockReserve <= allocs[j].at
                             /\ AllocEnd(allocs[j]) <= r.base + r.size
    BY <1>1 DEF AllocationsSafe, InBlock
  <2>2. r.base <= allocs[j].at
        /\ allocs[j].at + AllocSpan(allocs[j].size) <= r.base + r.size
        /\ allocs[j].at \in Nat /\ AllocSpan(allocs[j].size) \in Nat
    BY <2>1, <1>2, SMTT(30) DEF AllocEnd, kUpb_MemblockReserve
  <2>3. Apart(base, n, r.base, r.size) /\ r.size > 0
    BY <1>12
  <2> DEFINE rb == r.base  rs == r.size
             xa == allocs[j].at  xs == AllocSpan(allocs[j].size)
  <2>4. /\ rb \in Nat /\ rs \in Nat /\ rs > 0 /\ xa \in Nat /\ xs \in Nat
        /\ rb <= xa /\ xa + xs <= rb + rs /\ Apart(base, n, rb, rs)
        /\ base \in Nat /\ n \in Nat /\ n > 0
        /\ base <= q /\ q + l <= base + n
    BY <2>2, <2>3, <1>1, <1>2, <1>6, <1>14
  <2> HIDE DEF rb, rs, xa, xs
  <2>5. Apart(xa, xs, q, l)
    BY <2>4 DEF Apart
  <2> QED
    BY <2>5 DEF xa, xs
<1>15. AllocationsSafe'
  <2>1. \E s \in Regions' : /\ s.base + kUpb_MemblockReserve <= at
                             /\ at + AllocSpan(size) <= s.base + s.size
    BY <1>1, <1>5, <1>6, <1>7, <1>8 DEF at, kUpb_MemblockReserve
  <2>2. \A j \in 1..Len(allocs) :
           Apart(allocs[j].at, AllocSpan(allocs[j].size), at, AllocSpan(size))
    BY <1>1, <1>5, <1>6, <1>14
  <2> QED
    BY <2>1, <2>2, <1>1, <1>3, <1>8, NewAllocationSafe
<1>16. ASSUME plan.insert_after_head
       PROVE  CurrentInBlock' /\ FreeApart' /\ LastIsRecognised'
  <2>1. A'.ptr = A.ptr /\ A'.end = A.end
    BY <1>16, <1>9
  <2>2. PICK r \in Regions : /\ r.base + kUpb_MemblockReserve <= A.ptr
                             /\ A.ptr <= A.end /\ A.end = r.base + r.size
    BY <1>8 DEF IndInv, CurrentInBlock
  <2>3. CurrentInBlock'
    BY <2>1, <2>2, <1>8 DEF CurrentInBlock
  <2>4. Apart(at, span, A.ptr, ArenaHas(A))
    <3>1. /\ r.base <= A.ptr /\ ArenaHas(A) \in Nat
          /\ A.ptr + ArenaHas(A) <= r.base + r.size
      BY <2>2, <1>2 DEF ArenaHas, kUpb_MemblockReserve
    <3>2. Apart(base, n, r.base, r.size) /\ r.size > 0
      BY <1>12
    <3> DEFINE rb == r.base  rs == r.size  p == A.ptr  m == ArenaHas(A)
    <3>3. /\ rb \in Nat /\ rs \in Nat /\ rs > 0 /\ p \in Nat /\ m \in Nat
          /\ rb <= p /\ p + m <= rb + rs /\ Apart(base, n, rb, rs)
          /\ base \in Nat /\ n \in Nat /\ n > 0 /\ at \in Nat /\ span \in Nat
          /\ base <= at /\ at + span <= base + n
      BY <3>1, <3>2, <1>1, <1>2, <1>6
    <3> HIDE DEF rb, rs, p, m
    <3>4. Apart(at, span, p, m)
      BY <3>3 DEF Apart
    <3> QED
      BY <3>4 DEF p, m
  <2>5. ASSUME NEW j \in 1..Len(allocs')
        PROVE  Apart(allocs'[j].at, AllocSpan(allocs'[j].size), A.ptr, ArenaHas(A))
    <3>1. CASE j = i
      BY <3>1, <2>4, <1>5, <1>10
    <3>2. CASE j # i
      BY <3>2, <1>8, <1>10 DEF IndInv, FreeApart
    <3> QED
      BY <3>1, <3>2
  <2>6. FreeApart'
    BY <2>1, <2>5 DEF FreeApart, ArenaHas
  <2>7. LastIsRecognised'
    <3>1. A'.blocks[2] = block /\ Len(A'.blocks) >= 2
      BY <1>16, <1>9
    <3>2. block.size - kUpb_MemblockReserve = span + extra
      BY <1>1, <1>4, <1>7, <1>16, SMTT(30) DEF n, kUpb_MemblockReserve
    <3>3. WasLastAlloc(A', allocs'[i], extra)
      BY <3>1, <3>2, <1>5, <1>7, <1>10 DEF WasLastAlloc, at
    <3> QED
      BY <3>3, <1>10 DEF LastIsRecognised, WasLastAlloc
  <2> QED
    BY <2>3, <2>6, <2>7
<1>17. ASSUME ~ plan.insert_after_head
       PROVE  CurrentInBlock' /\ FreeApart' /\ LastIsRecognised'
  <2>1. A'.ptr = at + span /\ A'.end = base + n
    BY <1>17, <1>9
  <2>2. CurrentInBlock'
    BY <2>1, <1>1, <1>6, <1>7, <1>8 DEF CurrentInBlock, at, kUpb_MemblockReserve
  <2>3. ASSUME NEW j \in 1..Len(allocs')
        PROVE  Apart(allocs'[j].at, AllocSpan(allocs'[j].size),
                     at + span, base + n - (at + span))
    <3>1. CASE j = i
      BY <3>1, <1>1, <1>5, <1>6, <1>10 DEF Apart
    <3>2. CASE j # i
      <4>1. /\ at + span \in Nat /\ base + n - (at + span) \in Nat
            /\ base <= at + span
            /\ at + span + (base + n - (at + span)) <= base + n
        BY <1>1, <1>6
      <4> QED
        BY <4>1, <3>2, <1>10, <1>14
    <3> QED
      BY <3>1, <3>2
  <2>4. FreeApart'
    <3> DEFINE p == at + span  m == base + n - (at + span)
    <3>1. A'.end - A'.ptr = m /\ A'.ptr = p
      BY <2>1, <1>1, <1>6
    <3>2. \A j \in 1..Len(allocs') :
             Apart(allocs'[j].at, AllocSpan(allocs'[j].size), p, m)
      BY <2>3
    <3> HIDE DEF p, m
    <3>3. \A j \in 1..Len(allocs') :
             Apart(allocs'[j].at, AllocSpan(allocs'[j].size), A'.ptr, A'.end - A'.ptr)
      BY <3>1, <3>2, Zenon
    <3> QED
      BY <3>3 DEF FreeApart, ArenaHas
  <2>5. LastIsRecognised'
    BY <2>1, <1>5, <1>10 DEF LastIsRecognised, WasLastAllocFromCurrentBlock, AllocEnd
  <2> QED
    BY <2>2, <2>4, <2>5
<1>18. BlocksListed'
  BY <1>3, <1>8, <1>9 DEF IndInv, BlocksListed
<1>19. Quiet'
  BY <1>3 DEF Quiet
<1> QED
  BY <1>4, <1>11, <1>13, <1>15, <1>16, <1>17, <1>18, <1>19 DEF IndInv

\* An allocator that fails leaves everything but the hint.
LEMMA SlowMallocFailsStep ==
  ASSUME IndInv, phase = "live", NEW size \in Sizes, SlowMallocFails(size)
  PROVE  IndInv'
<1> DEFINE span == AllocSpan(size)
           h == Plan(A, span).size_hint
<1>1. TypeOK /\ span \in Nat
  BY ArenaAllocAssumption, SpanFacts DEF IndInv
<1>2. A \in ArenaType
  BY <1>1, StateFacts
<1>3. h \in Nat
  <2> HIDE DEF span
  <2> QED
    BY <1>1, <1>2, PlanFacts
<1>4. /\ UNCHANGED <<block_alloc, initial, heap, active, max_block_size, allocs,
                     last, hint>>
      /\ \/ phase' = "crashed" /\ mem' = mem
         \/ phase' = phase /\ mem' = [mem EXCEPT ![active].size_hint = h]
  BY DEF SlowMallocFails
<1> HIDE DEF h
<1>5. mem \in [{"arena", "decoder"} -> ArenaType] /\ active \in {"arena", "decoder"}
  BY <1>1 DEF TypeOK
<1>6. /\ mem' \in [{"arena", "decoder"} -> ArenaType]
      /\ A'.ptr = A.ptr /\ A'.end = A.end /\ A'.blocks = A.blocks
  <2>1. CASE mem' = mem
    BY <2>1, <1>4, <1>5 DEF A
  <2>2. CASE mem' = [mem EXCEPT ![active].size_hint = h]
    <3>1. A' = [A EXCEPT !.size_hint = h]
      BY <2>2, <1>4, <1>5 DEF A
    <3>2. A' \in ArenaType /\ A'.ptr = A.ptr /\ A'.end = A.end /\ A'.blocks = A.blocks
      BY <3>1, <1>2, <1>3 DEF ArenaType
    <3>3. mem' = [mem EXCEPT ![active] = A']
      BY <2>2, <3>1, <1>5 DEF A
    <3> QED
      BY <3>2, <3>3, <1>5
  <2> QED
    BY <2>1, <2>2, <1>4
<1>7. TypeOK'
  BY <1>1, <1>4, <1>6 DEF TypeOK
<1>8. Regions' = Regions /\ Started /\ Started'
  BY <1>4 DEF Regions, Started
<1>9. CurrentInBlock' /\ FreeApart' /\ BlocksListed' /\ RegionsSized' /\ RegionsApart'
  BY <1>4, <1>6, <1>8
     DEF IndInv, CurrentInBlock, FreeApart, ArenaHas, BlocksListed, RegionsSized,
         RegionsApart
<1>10. AllocationsSafe'
  BY <1>4, <1>8 DEF IndInv, AllocationsSafe, InBlock
<1>11. LastIsRecognised'
  BY <1>4, <1>6 DEF IndInv, LastIsRecognised, WasLastAllocFromCurrentBlock, WasLastAlloc
<1>12. Quiet'
  BY <1>4 DEF Quiet
<1> QED
  BY <1>7, <1>9, <1>10, <1>11, <1>12 DEF IndInv

-----------------------------------------------------------------------------
(* Steps that resize in place *)

\* An allocation that ends at the bump pointer is in the current block: a block
\* header separates it from the data of any other block.
LEMMA SameBlock ==
  ASSUME IndInv, Started, NEW i \in 1..Len(allocs),
         WasLastAllocFromCurrentBlock(A, allocs[i])
  PROVE  \E r \in Regions : /\ r.base + kUpb_MemblockReserve <= allocs[i].at
                            /\ A.ptr <= A.end
                            /\ A.end = r.base + r.size
<1> DEFINE at == allocs[i].at  span == AllocSpan(allocs[i].size)
<1>1. TypeOK
  BY DEF IndInv
<1>2. /\ A.ptr \in Nat /\ A.end \in Nat /\ at \in Nat /\ span \in Nat
      /\ \A r \in Regions : r.base \in Nat /\ r.size \in Nat
  BY <1>1, StateFacts
<1>3. at + span = A.ptr
  BY DEF WasLastAllocFromCurrentBlock, AllocEnd
<1>4. PICK r \in Regions : /\ r.base + kUpb_MemblockReserve <= at
                           /\ at + span <= r.base + r.size
  BY DEF IndInv, AllocationsSafe, InBlock, AllocEnd
<1>5. PICK c \in Regions : /\ c.base + kUpb_MemblockReserve <= A.ptr
                           /\ A.ptr <= A.end /\ A.end = c.base + c.size
  BY DEF IndInv, CurrentInBlock
<1>6. r = c
  <2> SUFFICES ASSUME r # c PROVE FALSE
    OBVIOUS
  <2>1. r.base + r.size <= c.base \/ c.base + c.size <= r.base
    BY DEF IndInv, RegionsApart
  <2> HIDE DEF at, span
  <2> QED
    BY <2>1, <1>2, <1>3, <1>4, <1>5, SMTT(30) DEF kUpb_MemblockReserve
<1> QED
  BY <1>4, <1>5, <1>6

\* Intervals: what is apart from [p, p + s) and from [p + s, e) is apart from
\* both parts when the boundary moves.
LEMMA BoundaryMoves ==
  ASSUME NEW a \in Nat, NEW m \in Nat, NEW p \in Nat, NEW e \in Nat, NEW s \in Nat,
         NEW z \in Nat, p + s <= e, p + z <= e,
         Apart(a, m, p, s), Apart(a, m, p + s, e - (p + s))
  PROVE  Apart(a, m, p, z) /\ Apart(a, m, p + z, e - (p + z))
BY DEF Apart

\* The allocation at the bump pointer shrinks or grows within its block.
LEMMA ResizeAtEnd ==
  ASSUME IndInv, phase = "live", NEW i \in 1..Len(allocs), NEW size \in Nat,
         WasLastAllocFromCurrentBlock(A, allocs[i]),
         allocs[i].at + AllocSpan(size) <= A.end,
         NEW newlast \in {0, i},
         Resized(i, size, allocs[i].at + AllocSpan(size), newlast)
  PROVE  IndInv'
<1> DEFINE at == allocs[i].at
           s == AllocSpan(allocs[i].size)
           z == AllocSpan(size)
           p == at + z
<1>1. TypeOK /\ AllocationsSafe /\ Started
  BY DEF IndInv, Started
<1>2. /\ A.ptr \in Nat /\ A.end \in Nat /\ at \in Nat /\ s \in Nat
      /\ \A r \in Regions : r.base \in Nat /\ r.size \in Nat
      /\ \A j \in 1..Len(allocs) : /\ allocs[j].at \in Nat
                                    /\ AllocSpan(allocs[j].size) \in Nat
  BY <1>1, StateFacts
<1>3. z \in Nat /\ p \in Nat /\ p <= A.end /\ at + s = A.ptr
  <2>1. z \in Nat
    BY SpanFacts
  <2>2. at + s = A.ptr
    BY DEF WasLastAllocFromCurrentBlock, AllocEnd
  <2> HIDE DEF at, s, z
  <2>3. p \in Nat
    BY <2>1, <1>2
  <2> QED
    BY <2>1, <2>2, <2>3 DEF at, z
<1>4. /\ allocs' \in Seq(AllocType) /\ Len(allocs') = Len(allocs)
      /\ allocs'[i].at = at /\ allocs'[i].size = size
      /\ \A j \in 1..Len(allocs) : j # i => allocs'[j] = allocs[j]
      /\ mem' \in [{"arena", "decoder"} -> ArenaType] /\ active' = active
      /\ A'.ptr = p /\ A'.end = A.end /\ A'.blocks = A.blocks
      /\ last' = newlast /\ last' \in 0..Len(allocs')
  <2>1. newlast \in 0..Len(allocs)
    BY <1>1 DEF TypeOK
  <2> QED
    BY <2>1, <1>1, <1>3, ResizedFacts
<1>5. UNCHANGED <<phase, block_alloc, initial, heap, active, max_block_size, hint>>
  BY DEF Resized
<1>6. AllocSpan(allocs'[i].size) = z /\ AllocSpan(allocs[i].size) = s
  BY <1>4
<1>7. WasLastAllocFromCurrentBlock(A', allocs'[i])
  BY <1>4 DEF WasLastAllocFromCurrentBlock, AllocEnd
<1> HIDE DEF at, s, z, p
<1>8. Regions' = Regions /\ Started'
  BY <1>1, <1>5 DEF Regions, Started
<1>9. TypeOK'
  BY <1>1, <1>4, <1>5 DEF TypeOK, AllocType
<1>10. PICK r \in Regions : /\ r.base + kUpb_MemblockReserve <= at
                            /\ A.ptr <= A.end /\ A.end = r.base + r.size
  BY <1>1, SameBlock DEF at
<1>11. CurrentInBlock'
  <2>1. r.base + kUpb_MemblockReserve <= p
    BY <1>2, <1>3, <1>10, SMTT(30) DEF p, kUpb_MemblockReserve
  <2> QED
    BY <2>1, <1>3, <1>4, <1>8, <1>10 DEF CurrentInBlock
<1>12. ASSUME NEW j \in 1..Len(allocs), j # i
       PROVE  /\ Apart(allocs[j].at, AllocSpan(allocs[j].size), at, z)
              /\ Apart(allocs[j].at, AllocSpan(allocs[j].size), p, A.end - p)
  <2>1. Apart(allocs[j].at, AllocSpan(allocs[j].size), at, s)
    BY <1>1, <1>6, <1>12 DEF AllocationsSafe, at
  <2>2. Apart(allocs[j].at, AllocSpan(allocs[j].size), at + s, A.end - (at + s))
    BY <1>1, <1>3 DEF IndInv, FreeApart, ArenaHas
  <2>3. allocs[j].at \in Nat /\ AllocSpan(allocs[j].size) \in Nat
        /\ at + s <= A.end /\ at + z <= A.end
    BY <1>2, <1>3, <1>10 DEF p
  <2> QED
    BY <2>1, <2>2, <2>3, <1>2, <1>3, BoundaryMoves DEF p
<1>13. FreeApart'
  <2>1. ASSUME NEW j \in 1..Len(allocs')
        PROVE  Apart(allocs'[j].at, AllocSpan(allocs'[j].size), p, A.end - p)
    <3>1. CASE j = i
      BY <3>1, <1>2, <1>3, <1>4, <1>6 DEF Apart, p
    <3>2. CASE j # i
      BY <3>2, <1>4, <1>12
    <3> QED
      BY <3>1, <3>2
  <2> QED
    BY <2>1, <1>4 DEF FreeApart, ArenaHas
<1>14. AllocationsSafe'
  <2>1. ASSUME NEW j \in 1..Len(allocs')
        PROVE  \E c \in Regions : /\ c.base + kUpb_MemblockReserve <= allocs'[j].at
                                  /\ AllocEnd(allocs'[j]) <= c.base + c.size
    <3>1. CASE j = i
      <4>1. AllocEnd(allocs'[i]) = p
        BY <1>4, <1>6 DEF AllocEnd, p
      <4> QED
        BY <4>1, <3>1, <1>3, <1>4, <1>10
    <3>2. CASE j # i
      BY <3>2, <1>1, <1>4 DEF AllocationsSafe, InBlock
    <3> QED
      BY <3>1, <3>2
  <2>2. ASSUME NEW j \in 1..Len(allocs'), NEW k \in 1..Len(allocs'), j # k
        PROVE  Apart(allocs'[j].at, AllocSpan(allocs'[j].size),
                     allocs'[k].at, AllocSpan(allocs'[k].size))
    <3>1. CASE j # i /\ k # i
      BY <3>1, <2>2, <1>1, <1>4 DEF AllocationsSafe
    <3>2. CASE k = i
      BY <3>2, <2>2, <1>4, <1>6, <1>12
    <3>3. CASE j = i
      <4>1. Apart(allocs'[k].at, AllocSpan(allocs'[k].size), at, z)
        BY <3>3, <2>2, <1>4, <1>12
      <4> QED
        BY <4>1, <3>3, <1>4, <1>6 DEF Apart
    <3> QED
      BY <3>1, <3>2, <3>3
  <2> QED
    BY <2>1, <2>2, <1>8 DEF AllocationsSafe, InBlock
<1>15. LastIsRecognised'
  BY <1>4, <1>7 DEF LastIsRecognised, WasLastAllocFromCurrentBlock
<1>16. Quiet' /\ RegionsSized' /\ RegionsApart' /\ BlocksListed'
  BY <1>1, <1>4, <1>5, <1>8
     DEF IndInv, Quiet, RegionsSized, RegionsApart, BlocksListed
<1> QED
  BY <1>9, <1>11, <1>13, <1>14, <1>15, <1>16 DEF IndInv

\* Any other allocation that shrinks keeps its place and its memory.
LEMMA ShrinkElsewhere ==
  ASSUME IndInv, phase = "live", NEW i \in 1..Len(allocs), NEW size \in Nat,
         size <= allocs[i].size,
         NEW newlast, newlast = 0 \/ (newlast = last /\ last # i),
         Resized(i, size, A.ptr, newlast)
  PROVE  IndInv'
<1> DEFINE s == AllocSpan(allocs[i].size)
           z == AllocSpan(size)
<1>1. TypeOK /\ AllocationsSafe /\ Started
  BY DEF IndInv, Started
<1>2. /\ A.ptr \in Nat /\ A.end \in Nat /\ s \in Nat
      /\ \A r \in Regions : r.base \in Nat /\ r.size \in Nat
      /\ \A j \in 1..Len(allocs) : /\ allocs[j].at \in Nat
                                    /\ allocs[j].size \in Nat
                                    /\ AllocSpan(allocs[j].size) \in Nat
  BY <1>1, StateFacts
<1>3. z \in Nat /\ z <= s
  BY <1>2, SpanFacts
<1>4. /\ allocs' \in Seq(AllocType) /\ Len(allocs') = Len(allocs)
      /\ allocs'[i].at = allocs[i].at /\ allocs'[i].size = size
      /\ \A j \in 1..Len(allocs) : j # i => allocs'[j] = allocs[j]
      /\ mem' \in [{"arena", "decoder"} -> ArenaType] /\ active' = active
      /\ A'.ptr = A.ptr /\ A'.end = A.end /\ A'.blocks = A.blocks
      /\ last' = newlast /\ last' \in 0..Len(allocs')
  <2>1. newlast \in 0..Len(allocs)
    BY <1>1 DEF TypeOK
  <2> QED
    BY <2>1, <1>1, <1>2, ResizedFacts
<1>5. UNCHANGED <<phase, block_alloc, initial, heap, active, max_block_size, hint>>
  BY DEF Resized
<1>6. /\ \A j \in 1..Len(allocs) :
           /\ allocs'[j].at = allocs[j].at
           /\ AllocSpan(allocs'[j].size) \in Nat
           /\ AllocSpan(allocs'[j].size) <= AllocSpan(allocs[j].size)
  <2>1. ASSUME NEW j \in 1..Len(allocs)
        PROVE  /\ allocs'[j].at = allocs[j].at
               /\ AllocSpan(allocs'[j].size) \in Nat
               /\ AllocSpan(allocs'[j].size) <= AllocSpan(allocs[j].size)
    <3>1. CASE j = i
      BY <3>1, <1>3, <1>4
    <3>2. CASE j # i
      <4>1. allocs'[j] = allocs[j] /\ AllocSpan(allocs[j].size) \in Nat
        BY <3>2, <1>2, <1>4
      <4> QED
        BY <4>1
    <3> QED
      BY <3>1, <3>2
  <2> QED
    BY <2>1
<1>7. Regions' = Regions /\ Started'
  BY <1>1, <1>5 DEF Regions, Started
<1>8. TypeOK'
  BY <1>1, <1>4, <1>5 DEF TypeOK, AllocType
<1>9. ASSUME NEW b \in Nat, NEW n \in Nat, NEW j \in 1..Len(allocs),
             Apart(allocs[j].at, AllocSpan(allocs[j].size), b, n)
      PROVE  Apart(allocs'[j].at, AllocSpan(allocs'[j].size), b, n)
  <2> DEFINE q == allocs[j].at  u == AllocSpan(allocs[j].size)
             v == AllocSpan(allocs'[j].size)
  <2>1. q \in Nat /\ u \in Nat /\ v \in Nat /\ v <= u /\ Apart(q, u, b, n)
        /\ allocs'[j].at = q
    BY <1>2, <1>6, <1>9
  <2> HIDE DEF q, u, v
  <2>2. Apart(q, v, b, n)
    BY <2>1 DEF Apart
  <2> QED
    BY <2>1, <2>2 DEF q, v
<1>10. FreeApart'
  <2>1. ArenaHas(A) \in Nat
    BY <1>1, <1>2 DEF IndInv, CurrentInBlock, ArenaHas
  <2>2. \A j \in 1..Len(allocs) :
           Apart(allocs'[j].at, AllocSpan(allocs'[j].size), A.ptr, ArenaHas(A))
    BY <2>1, <1>1, <1>2, <1>9 DEF IndInv, FreeApart
  <2> QED
    BY <2>2, <1>4 DEF FreeApart, ArenaHas
<1>11. AllocationsSafe'
  <2>1. ASSUME NEW j \in 1..Len(allocs')
        PROVE  \E c \in Regions : /\ c.base + kUpb_MemblockReserve <= allocs'[j].at
                                  /\ AllocEnd(allocs'[j]) <= c.base + c.size
    <3>1. PICK c \in Regions : /\ c.base + kUpb_MemblockReserve <= allocs[j].at
                               /\ AllocEnd(allocs[j]) <= c.base + c.size
      BY <1>1, <1>4 DEF AllocationsSafe, InBlock
    <3>2. AllocEnd(allocs'[j]) <= AllocEnd(allocs[j])
          /\ AllocEnd(allocs'[j]) \in Nat /\ AllocEnd(allocs[j]) \in Nat
      <4>1. /\ allocs'[j].at = allocs[j].at /\ allocs[j].at \in Nat
            /\ AllocSpan(allocs'[j].size) \in Nat /\ AllocSpan(allocs[j].size) \in Nat
            /\ AllocSpan(allocs'[j].size) <= AllocSpan(allocs[j].size)
        BY <1>2, <1>4, <1>6
      <4> QED
        BY <4>1, SMTT(30) DEF AllocEnd
    <3>3. c.base \in Nat /\ c.size \in Nat /\ allocs'[j].at = allocs[j].at
      BY <1>2, <1>4, <1>6
    <3>4. AllocEnd(allocs'[j]) <= c.base + c.size
      BY <3>1, <3>2, <3>3
    <3> QED
      BY <3>1, <3>3, <3>4
  <2>2. ASSUME NEW j \in 1..Len(allocs'), NEW k \in 1..Len(allocs'), j # k
        PROVE  Apart(allocs'[j].at, AllocSpan(allocs'[j].size),
                     allocs'[k].at, AllocSpan(allocs'[k].size))
    <3>1. Apart(allocs'[j].at, AllocSpan(allocs'[j].size),
                allocs[k].at, AllocSpan(allocs[k].size))
      BY <2>2, <1>1, <1>2, <1>4, <1>9 DEF AllocationsSafe
    <3>2. Apart(allocs[k].at, AllocSpan(allocs[k].size),
                allocs'[j].at, AllocSpan(allocs'[j].size))
      BY <3>1 DEF Apart
    <3>3. Apart(allocs'[k].at, AllocSpan(allocs'[k].size),
                allocs'[j].at, AllocSpan(allocs'[j].size))
      BY <3>2, <1>2, <1>4, <1>6, <1>9
    <3> QED
      BY <3>3 DEF Apart
  <2> QED
    BY <2>1, <2>2, <1>7 DEF AllocationsSafe, InBlock
<1>12. CurrentInBlock'
  BY <1>1, <1>4, <1>7 DEF IndInv, CurrentInBlock
<1>13. LastIsRecognised'
  <2>1. CASE last' = 0
    BY <2>1 DEF LastIsRecognised
  <2>2. CASE last' # 0
    <3>1. last' = last /\ last \in 1..Len(allocs) /\ allocs'[last] = allocs[last]
      BY <2>2, <1>1, <1>4 DEF TypeOK
    <3> QED
      BY <2>2, <3>1, <1>4
         DEF IndInv, LastIsRecognised, WasLastAllocFromCurrentBlock, WasLastAlloc
  <2> QED
    BY <2>1, <2>2
<1>14. Quiet' /\ RegionsSized' /\ RegionsApart' /\ BlocksListed'
  BY <1>1, <1>4, <1>5, <1>7
     DEF IndInv, Quiet, RegionsSized, RegionsApart, BlocksListed
<1> QED
  BY <1>8, <1>10, <1>11, <1>12, <1>13, <1>14 DEF IndInv

\* Where the bump pointer is after a resize of the allocation that ends at it.
LEMMA MovedPtr ==
  ASSUME IndInv, Started, NEW i \in 1..Len(allocs), NEW size \in Nat,
         WasLastAllocFromCurrentBlock(A, allocs[i])
  PROVE  /\ A.ptr - (Align(allocs[i].size) - Align(size)) =
              allocs[i].at + AllocSpan(size)
         /\ A.ptr + Extension(allocs[i], size) = allocs[i].at + AllocSpan(size)
         /\ size <= allocs[i].size => allocs[i].at + AllocSpan(size) <= A.end
         /\ ArenaHas(A) >= Extension(allocs[i], size) =>
              allocs[i].at + AllocSpan(size) <= A.end
<1> DEFINE at == allocs[i].at  old == allocs[i].size
<1>1. TypeOK
  BY DEF IndInv
<1>2. A.ptr \in Nat /\ A.end \in Nat /\ at \in Nat /\ old \in Nat
  BY <1>1, StateFacts
<1>3. at + AllocSpan(old) = A.ptr
  BY DEF WasLastAllocFromCurrentBlock, AllocEnd
<1>4. A.ptr <= A.end
  BY SameBlock
<1>5. /\ Align(old) \in Nat /\ Align(size) \in Nat /\ Guard \in Nat
      /\ size <= old => Align(size) <= Align(old)
  BY <1>2, AlignFacts, ArenaAllocAssumption
<1>6. AllocSpan(old) = Align(old) + Guard /\ AllocSpan(size) = Align(size) + Guard
  BY DEF AllocSpan
<1>7. Extension(allocs[i], size) = Align(size) - Align(old)
      /\ ArenaHas(A) = A.end - A.ptr
  BY DEF Extension, ArenaHas
<1> DEFINE x == Align(old)  y == Align(size)  p == A.ptr  e == A.end
<1>8. /\ x \in Nat /\ y \in Nat /\ p \in Nat /\ e \in Nat /\ at \in Nat
      /\ at + (x + Guard) = p /\ p <= e /\ Guard \in Nat
      /\ size <= old => y <= x
  <2>1. at + (Align(old) + Guard) = A.ptr
    <3> HIDE DEF at, old
    <3> QED
      BY <1>3, <1>6
  <2>2. p \in Nat /\ e \in Nat /\ p <= e /\ x \in Nat /\ y \in Nat
    BY <1>2, <1>4, <1>5
  <2>3. at + (x + Guard) = p
    BY <2>1
  <2> HIDE DEF p, e, x, y, at
  <2> QED
    BY <2>2, <2>3, <1>2, <1>5 DEF x, y
<1> HIDE DEF x, y, p, e, at
<1>9. /\ p - (x - y) = at + (y + Guard) /\ p + (y - x) = at + (y + Guard)
      /\ y <= x => at + (y + Guard) <= e
      /\ e - p >= y - x => at + (y + Guard) <= e
  BY <1>8
<1> QED
  BY <1>6, <1>7, <1>8, <1>9 DEF x, y, p, e, at

\* upb_Arena_ShrinkLast and the shrinking upb_Arena_Realloc.
LEMMA ShrinkSteps ==
  ASSUME IndInv, NEW i \in 1..Len(allocs), NEW size \in Sizes,
         ShrinkLast(i, size) \/ ReallocShrink(i, size)
  PROVE  IndInv'
<1>1. size \in Nat /\ size <= allocs[i].size /\ phase = "live" /\ Started
  BY ArenaAllocAssumption DEF ShrinkLast, ReallocShrink, Started
<1>2. PICK newlast :
        /\ Resized(i, size, Reclaimed(A, allocs[i], size), newlast)
        /\ \/ newlast = 0
           \/ newlast = i /\ WasLastAllocFromCurrentBlock(A, allocs[i])
           \/ newlast = last /\ last # i /\ ~ WasLastAllocFromCurrentBlock(A, allocs[i])
  BY DEF ShrinkLast, ReallocShrink
<1>3. CASE WasLastAllocFromCurrentBlock(A, allocs[i])
  <2>1. Reclaimed(A, allocs[i], size) = allocs[i].at + AllocSpan(size)
        /\ allocs[i].at + AllocSpan(size) <= A.end
    BY <1>1, <1>3, MovedPtr DEF Reclaimed
  <2>2. newlast \in {0, i}
    BY <1>2, <1>3
  <2>3. Resized(i, size, allocs[i].at + AllocSpan(size), newlast)
    BY <1>2, <2>1
  <2> QED
    BY <2>1, <2>2, <2>3, <1>1, <1>3, ResizeAtEnd
<1>4. CASE ~ WasLastAllocFromCurrentBlock(A, allocs[i])
  <2>1. Resized(i, size, A.ptr, newlast) /\ (newlast = 0 \/ (newlast = last /\ last # i))
    BY <1>2, <1>4 DEF Reclaimed
  <2> QED
    BY <2>1, <1>1, ShrinkElsewhere
<1> QED
  BY <1>3, <1>4

\* upb_Arena_TryExtend.
LEMMA TryExtendStep ==
  ASSUME IndInv, NEW i \in 1..Len(allocs), NEW size \in Sizes, TryExtend(i, size)
  PROVE  IndInv'
<1>1. /\ size \in Nat /\ phase = "live" /\ Started
      /\ WasLastAllocFromCurrentBlock(A, allocs[i])
      /\ ArenaHas(A) >= Extension(allocs[i], size)
      /\ Resized(i, size, A.ptr + Extension(allocs[i], size), i)
  BY ArenaAllocAssumption DEF TryExtend, CanExtend, Started
<1>2. A.ptr + Extension(allocs[i], size) = allocs[i].at + AllocSpan(size)
      /\ allocs[i].at + AllocSpan(size) <= A.end
  BY <1>1, MovedPtr
<1>3. Resized(i, size, allocs[i].at + AllocSpan(size), i) /\ i \in {0, i}
  BY <1>1, <1>2
<1> QED
  BY <1>1, <1>2, <1>3, ResizeAtEnd

-----------------------------------------------------------------------------
(* Creating, lending and freeing *)

\* upb_Arena_Init in the caller's block.
LEMMA InitWithBlockStep ==
  ASSUME IndInv, NEW base \in Addresses, NEW n \in InitialSizes,
         NEW alloc \in Allocators, InitWithBlock(base, n, alloc)
  PROVE  IndInv'
<1> DEFINE a == [ptr |-> base + sizeof_upb_ArenaState, end |-> base + n,
                 blocks |-> <<>>, size_hint |-> 128, space_allocated |-> 0]
<1>1. /\ TypeOK /\ base \in Nat /\ n \in Nat /\ alloc \in Nat
      /\ n >= sizeof_upb_ArenaState /\ phase = "none"
      /\ allocs = <<>> /\ last = 0 /\ heap = {} /\ active = "arena"
  BY ArenaAllocAssumption DEF IndInv, Quiet, InitWithBlock
<1>2. /\ phase' = "live" /\ block_alloc' = MakeBlockAlloc(alloc, TRUE)
      /\ initial' = {Block(base, n)} /\ mem' = [mem EXCEPT !.arena = a]
      /\ UNCHANGED <<heap, active, max_block_size, allocs, last, hint>>
  BY DEF InitWithBlock
<1>3. a \in ArenaType /\ a.ptr = base + sizeof_upb_ArenaState
      /\ a.end = base + n /\ a.blocks = <<>>
  BY <1>1 DEF ArenaType, sizeof_upb_ArenaState
<1> HIDE DEF a
<1>4. Block(base, n) \in BlockType /\ Block(base, n).base = base /\ Block(base, n).size = n
  BY <1>1 DEF Block, BlockType
<1>5. A' = a /\ mem' \in [{"arena", "decoder"} -> ArenaType]
  BY <1>1, <1>2, <1>3 DEF A, TypeOK
<1>6. Regions' = {Block(base, n)} /\ Started'
  BY <1>1, <1>2 DEF Regions, Started
<1>7. TypeOK'
  BY <1>1, <1>2, <1>4, <1>5 DEF TypeOK, MakeBlockAlloc
<1>8. Len(allocs') = 0 /\ last' = 0 /\ heap' = {} /\ Len(a.blocks) = 0
  BY <1>1, <1>2, <1>3
<1>9. CurrentInBlock'
  BY <1>1, <1>3, <1>4, <1>5, <1>6
     DEF CurrentInBlock, sizeof_upb_ArenaState, kUpb_MemblockReserve
<1>10. FreeApart' /\ AllocationsSafe' /\ LastIsRecognised'
  BY <1>8 DEF FreeApart, AllocationsSafe, LastIsRecognised
<1>11. BlocksListed'
  BY <1>5, <1>8 DEF BlocksListed, Listed
<1>12. RegionsSized' /\ RegionsApart' /\ Quiet'
  BY <1>1, <1>2, <1>4, <1>6
     DEF RegionsSized, RegionsApart, Quiet, sizeof_upb_ArenaState, kUpb_MemblockReserve
<1> QED
  BY <1>7, <1>9, <1>10, <1>11, <1>12 DEF IndInv

\* A block at the head of the list is the current one.
LEMMA AddBlockFacts ==
  ASSUME NEW a \in ArenaType, NEW block \in BlockType, NEW offset \in Nat
  PROVE  /\ AddBlock(a, block, offset) \in ArenaType
         /\ AddBlock(a, block, offset).ptr = block.base + offset
         /\ AddBlock(a, block, offset).end = block.base + block.size
         /\ AddBlock(a, block, offset).blocks = <<block>> \o a.blocks
<1>1. /\ block.base + offset \in Nat /\ block.base + block.size \in Nat
  BY DEF BlockType
<1>2. <<block>> \o a.blocks \in Seq(BlockType)
  BY LinkedFacts DEF ArenaType
<1> QED
  BY <1>1, <1>2 DEF AddBlock, ArenaType

\* _upb_Arena_InitSlow: the arena in the first block of its own.
LEMMA InitSlowStep ==
  ASSUME IndInv, NEW base \in Addresses, NEW first_size \in Sizes,
         NEW alloc \in Allocators, NEW extra \in ExtraSizes,
         InitSlow(base, first_size, alloc, extra)
  PROVE  IndInv'
<1> DEFINE n == FirstBlockSize(first_size) + extra
           block == Block(base, n)
           u == [Unborn EXCEPT !.size_hint = n, !.space_allocated = n]
           a == AddBlock(u, block, first_block_overhead)
<1>1. /\ TypeOK /\ base \in Nat /\ first_size \in Nat /\ alloc \in Nat
      /\ extra \in Nat /\ phase = "none" /\ initial = {}
      /\ allocs = <<>> /\ last = 0 /\ heap = {} /\ active = "arena"
  BY ArenaAllocAssumption DEF IndInv, Quiet, InitSlow
<1>2. first_block_overhead \in Nat /\ first_block_overhead >= kUpb_MemblockReserve
  BY DEF first_block_overhead, Align, kUpb_MemblockReserve, sizeof_upb_ArenaState
<1>3. n \in Nat /\ n >= first_block_overhead
  <2>1. Align(first_size) \in Nat /\ Guard \in Nat
    BY <1>1, AlignFacts, ArenaAllocAssumption
  <2>2. MaxOf(min_first_size, Align(first_size) + Guard) \in Nat
    BY <2>1 DEF MaxOf, min_first_size
  <2> DEFINE m == MaxOf(min_first_size, Align(first_size) + Guard)
  <2>3. n = first_block_overhead + m + extra
    BY DEF FirstBlockSize
  <2>4. m \in Nat
    BY <2>2
  <2> HIDE DEF m, n
  <2> QED
    BY <2>3, <2>4, <1>1, <1>2 DEF kUpb_MemblockReserve
<1>4. block \in BlockType /\ block.base = base /\ block.size = n
  <2> HIDE DEF n
  <2> QED
    BY <1>1, <1>3 DEF Block, BlockType
<1>6. /\ phase' = "live" /\ block_alloc' = MakeBlockAlloc(alloc, FALSE)
      /\ heap' = {block} /\ mem' = [mem EXCEPT !.arena = a] /\ hint' = first_size
      /\ UNCHANGED <<initial, active, max_block_size, allocs, last>>
  BY DEF InitSlow
<1> HIDE DEF n, block
<1>7. a \in ArenaType /\ a.ptr = base + first_block_overhead
      /\ a.end = base + n /\ a.blocks = <<block>>
  <2>1. Unborn \in ArenaType /\ Unborn.blocks = <<>>
    BY DEF Unborn, ArenaType
  <2>2. u \in ArenaType /\ u.blocks = <<>>
    BY <2>1, <1>3 DEF ArenaType
  <2> HIDE DEF u
  <2>3. <<block>> \o <<>> = <<block>>
    BY <1>4
  <2>4. /\ a \in ArenaType /\ a.ptr = block.base + first_block_overhead
        /\ a.end = block.base + block.size /\ a.blocks = <<block>> \o u.blocks
    BY <2>2, <1>2, <1>4, AddBlockFacts
  <2> HIDE DEF a
  <2> QED
    BY <2>2, <2>3, <2>4, <1>4
<1> HIDE DEF a
<1>8. A' = a /\ mem' \in [{"arena", "decoder"} -> ArenaType]
  BY <1>1, <1>6, <1>7 DEF A, TypeOK
<1>9. Regions' = {block} /\ Started'
  BY <1>1, <1>6 DEF Regions, Started
<1>10. TypeOK'
  BY <1>1, <1>4, <1>6, <1>8 DEF TypeOK, MakeBlockAlloc
<1>11. Len(allocs') = 0 /\ last' = 0
  BY <1>1, <1>6
<1>12. CurrentInBlock'
  <2>1. /\ base + kUpb_MemblockReserve <= base + first_block_overhead
        /\ base + first_block_overhead <= base + n
    BY <1>1, <1>2, <1>3 DEF kUpb_MemblockReserve
  <2> QED
    BY <2>1, <1>4, <1>7, <1>8, <1>9 DEF CurrentInBlock
<1>13. FreeApart' /\ AllocationsSafe' /\ LastIsRecognised'
  BY <1>11 DEF FreeApart, AllocationsSafe, LastIsRecognised
<1>14. BlocksListed'
  <2>1. \A b : Listed(<<block>>, b) <=> b = block
    BY DEF Listed
  <2> QED
    BY <2>1, <1>6, <1>7, <1>8 DEF BlocksListed
<1>15. RegionsSized' /\ RegionsApart' /\ Quiet'
  <2>1. n >= kUpb_MemblockReserve
    BY <1>2, <1>3 DEF kUpb_MemblockReserve
  <2> QED
    BY <2>1, <1>4, <1>6, <1>9 DEF RegionsSized, RegionsApart, Quiet
<1> QED
  BY <1>10, <1>12, <1>13, <1>14, <1>15 DEF IndInv

\* The decoder's copy is as good as the arena, and so is what it copies back.
LEMMA DecoderSteps ==
  ASSUME IndInv, DecoderInit \/ DecoderDestroy
  PROVE  IndInv'
<1>1. TypeOK /\ mem \in [{"arena", "decoder"} -> ArenaType]
  BY DEF IndInv, TypeOK
<1>2. Unborn \in ArenaType
  BY DEF Unborn, ArenaType
<1>3. /\ mem' \in [{"arena", "decoder"} -> ArenaType]
      /\ A' = A /\ active' \in {"arena", "decoder"} /\ phase = "live"
      /\ UNCHANGED <<phase, block_alloc, initial, heap, max_block_size, allocs, last, hint>>
  <2>1. CASE DecoderInit
    BY <2>1, <1>1 DEF DecoderInit, SwapIn, A
  <2>2. CASE DecoderDestroy
    <3>1. mem["decoder"] \in ArenaType
      BY <1>1
    <3>2. mem' = [arena |-> mem["decoder"], decoder |-> Unborn]
          /\ active = "decoder" /\ active' = "arena" /\ phase = "live"
          /\ UNCHANGED <<phase, block_alloc, initial, heap, max_block_size, allocs,
                         last, hint>>
      BY <2>2 DEF DecoderDestroy, SwapIn
    <3>3. mem'["arena"] = mem["decoder"]
      BY <3>2
    <3>4. mem' \in [{"arena", "decoder"} -> ArenaType]
      BY <3>1, <3>2, <1>2
    <3> QED
      BY <3>2, <3>3, <3>4 DEF A
  <2> QED
    BY <2>1, <2>2
<1>4. TypeOK'
  BY <1>1, <1>3 DEF TypeOK
<1>5. Regions' = Regions /\ Started' = Started
  BY <1>3 DEF Regions, Started
<1>6. CurrentInBlock' /\ FreeApart' /\ BlocksListed' /\ RegionsSized' /\ RegionsApart'
  BY <1>3, <1>5
     DEF IndInv, CurrentInBlock, FreeApart, BlocksListed, RegionsSized, RegionsApart
<1>7. AllocationsSafe' /\ LastIsRecognised'
  BY <1>3, <1>5 DEF IndInv, AllocationsSafe, InBlock, LastIsRecognised
<1>8. Quiet'
  BY <1>3 DEF Quiet
<1> QED
  BY <1>4, <1>6, <1>7, <1>8 DEF IndInv

\* upb_Arena_SetMaxBlockSize, and a step that changes nothing.
LEMMA QuietSteps ==
  ASSUME IndInv,
         (\E max \in MaxBlockSizes : SetMaxBlockSize(max)) \/ UNCHANGED vars
  PROVE  IndInv'
<1>1. /\ UNCHANGED <<phase, block_alloc, initial, heap, mem, active, allocs, last, hint>>
      /\ TypeOK
      /\ max_block_size' \in Nat
  BY ArenaAllocAssumption DEF IndInv, SetMaxBlockSize, vars, TypeOK
<1>2. TypeOK'
  BY <1>1 DEF TypeOK
<1>3. Regions' = Regions /\ Started' = Started /\ A' = A
  BY <1>1 DEF Regions, Started, A
<1>4. CurrentInBlock' /\ FreeApart' /\ BlocksListed' /\ RegionsSized' /\ RegionsApart'
  BY <1>1, <1>3
     DEF IndInv, CurrentInBlock, FreeApart, BlocksListed, RegionsSized, RegionsApart
<1>5. AllocationsSafe' /\ LastIsRecognised'
  BY <1>1, <1>3 DEF IndInv, AllocationsSafe, InBlock, LastIsRecognised
<1>6. Quiet'
  BY <1>1 DEF IndInv, Quiet
<1> QED
  BY <1>2, <1>4, <1>5, <1>6 DEF IndInv

\* Freeing the list frees the heap.
LEMMA DoFreeStep ==
  ASSUME IndInv, DoFree
  PROVE  IndInv'
<1>1. /\ TypeOK /\ Started /\ phase' = "freed"
      /\ heap' = {b \in heap : \A k \in 1..Len(A.blocks) : A.blocks[k] # b}
      /\ allocs' = <<>> /\ last' = 0 /\ hint' = 0
      /\ UNCHANGED <<block_alloc, initial, mem, active, max_block_size>>
  BY DEF IndInv, DoFree, Started
<1>2. \A b \in heap : \E k \in 1..Len(A.blocks) : A.blocks[k] = b
  BY <1>1 DEF IndInv, BlocksListed, Listed
<1>3. heap' = {}
  BY <1>1, <1>2
<1>4. Regions' \subseteq Regions /\ ~ Started' /\ Len(allocs') = 0
  BY <1>1, <1>3 DEF Regions, Started
<1>5. TypeOK'
  BY <1>1, <1>3 DEF TypeOK
<1>6. CurrentInBlock' /\ FreeApart' /\ BlocksListed'
  BY <1>4 DEF CurrentInBlock, FreeApart, BlocksListed
<1>7. AllocationsSafe' /\ LastIsRecognised'
  BY <1>1, <1>4 DEF AllocationsSafe, LastIsRecognised
<1>8. RegionsSized' /\ RegionsApart' /\ Quiet'
  BY <1>1, <1>3, <1>4 DEF IndInv, RegionsSized, RegionsApart, Quiet
<1> QED
  BY <1>5, <1>6, <1>7, <1>8 DEF IndInv

-----------------------------------------------------------------------------
(* Theorems *)

\* The inductive invariant holds at the start.
LEMMA InitInv == Init => IndInv
<1> SUFFICES ASSUME Init PROVE IndInv
  OBVIOUS
<1>1. Unborn \in ArenaType
  BY DEF Unborn, ArenaType
<1>2. TypeOK
  BY <1>1, ArenaAllocAssumption DEF Init, TypeOK
<1>3. Regions = {} /\ ~ Started /\ Len(allocs) = 0 /\ last = 0
  BY DEF Init, Regions, Started
<1>4. Quiet
  BY DEF Init, Quiet
<1> QED
  BY <1>2, <1>3, <1>4
     DEF IndInv, RegionsSized, RegionsApart, CurrentInBlock, FreeApart, BlocksListed,
         AllocationsSafe, LastIsRecognised

\* Every operation on an arena keeps it.
LEMMA NextInv == IndInv /\ [Next]_vars => IndInv'
<1> SUFFICES ASSUME IndInv, [Next]_vars PROVE IndInv'
  OBVIOUS
<1>1. ASSUME NEW i \in 1..(Len(allocs) + 1), NEW size \in Sizes,
             phase = "live", AllocSome(i, size)
      PROVE  IndInv'
  BY <1>1, FastMallocStep, SlowMallocStep, SlowMallocFailsStep DEF AllocSome
<1>2. Len(allocs) \in Nat
  BY DEF IndInv, TypeOK
<1>3. ASSUME NEW size \in Sizes, Malloc(size) PROVE IndInv'
  BY <1>1, <1>2, <1>3 DEF Malloc
<1>4. ASSUME NEW i \in 1..Len(allocs), NEW size \in Sizes, ReallocCopy(i, size)
      PROVE  IndInv'
  <2>1. i \in 1..(Len(allocs) + 1)
    BY <1>2
  <2> QED
    BY <2>1, <1>1, <1>4 DEF ReallocCopy
<1> QED
  BY <1>3, <1>4, ShrinkSteps, TryExtendStep, InitWithBlockStep, InitSlowStep,
     DecoderSteps, QuietSteps, DoFreeStep DEF Next

\* The inductive invariant holds of every behaviour.
THEOREM Invariant == Spec => []IndInv
BY InitInv, NextInv, PTL DEF Spec

\* Every variable keeps its type.
THEOREM TypeCorrect == Spec => []TypeOK
<1>1. IndInv => TypeOK
  BY DEF IndInv
<1> QED
  BY <1>1, Invariant, PTL

\* Whatever is asked for, resized, lent to a decoder or refused, every live
\* allocation is inside the data of one block and apart from every other.
THEOREM AllocationsAreSafe == Spec => []AllocationsSafe
<1>1. IndInv => AllocationsSafe
  BY DEF IndInv
<1> QED
  BY <1>1, Invariant, PTL

\* upb_Arena_Free returns every block it obtained.
THEOREM BlocksAreFreed == Spec => []EveryBlockFreed
<1>1. IndInv => EveryBlockFreed
  BY DEF IndInv, Quiet, EveryBlockFreed
<1> QED
  BY <1>1, Invariant, PTL

\* ShrinkLast's test finds the allocation its contract allows.
THEOREM LastIsAlwaysRecognised == Spec => []LastIsRecognised
<1>1. IndInv => LastIsRecognised
  BY DEF IndInv
<1> QED
  BY <1>1, Invariant, PTL

-----------------------------------------------------------------------------
(* The size of the blocks *)

\* The size hint never falls so low that twice the hint is less than a block
\* header, and until the first allocation there is room for the initial hint.
HintFloor == Started => A.size_hint >= 8
HintRoom == hint # 0 => /\ Started /\ allocs = <<>>
                        /\ ArenaHas(A) >= AllocSpan(hint)
HintInv == HintFloor /\ HintRoom

\* A plan keeps the floor, and a block planned as the new head leaves more free
\* space than the current one has.
LEMMA PlanHints ==
  ASSUME TypeOK, NEW a \in ArenaType, NEW span \in Nat, a.size_hint >= 8
  PROVE  /\ Plan(a, span).size_hint >= 8
         /\ /\ a.blocks # <<>> /\ Head(a.blocks).size >= kUpb_MemblockReserve
            /\ max_block_size >= kUpb_MemblockReserve
            /\ ~ Plan(a, span).insert_after_head
            => ArenaHas(a) < Plan(a, span).block_size - kUpb_MemblockReserve - span
<1> DEFINE last_block == a.blocks # <<>>
           current_free == IF last_block THEN ArenaHas(a) ELSE 0
           Target(last_size) == MinOf(last_size * 2, max_block_size)
           FutureFree(target) ==
             MaxOf(span, Minus(target, kUpb_MemblockReserve)) - span
           natural == Target(IF last_block THEN Head(a.blocks).size
                                           ELSE default_last_size)
           target_size == IF /\ last_block
                             /\ current_free > FutureFree(natural)
                             /\ natural < max_block_size
                          THEN Target(a.size_hint) ELSE natural
           insert_after_head ==
             last_block /\ KeepHead(current_free, FutureFree(target_size))
           exact == span + kUpb_MemblockReserve
<1>1. max_block_size \in Nat /\ a.size_hint \in Nat
  BY DEF TypeOK, ArenaType
<1>2. Plan(a, span) =
        [insert_after_head |-> insert_after_head,
         size_hint |-> IF insert_after_head /\ exact <= max_block_size
                       THEN NextHint(a.size_hint, span) ELSE a.size_hint,
         block_size |-> IF insert_after_head THEN exact
                        ELSE MaxOf(exact, target_size)]
  BY DEF Plan
<1>3. exact <= max_block_size => NextHint(a.size_hint, span) >= 8
  BY <1>1 DEF NextHint, MinOf, kUpb_MemblockReserve
<1>4. Plan(a, span).size_hint >= 8
  <2> HIDE DEF insert_after_head, exact
  <2> QED
    BY <1>2, <1>3
<1>5. ASSUME a.blocks # <<>>, Head(a.blocks).size >= kUpb_MemblockReserve,
             max_block_size >= kUpb_MemblockReserve,
             ~ Plan(a, span).insert_after_head
      PROVE  ArenaHas(a) < Plan(a, span).block_size - kUpb_MemblockReserve - span
  <2>1. ~ insert_after_head /\ Plan(a, span).block_size = MaxOf(exact, target_size)
    <3> HIDE DEF insert_after_head, exact, target_size
    <3> QED
      BY <1>2, <1>5
  <2>2. a.blocks \in Seq(BlockType) /\ a.ptr \in Nat /\ a.end \in Nat
    BY DEF ArenaType
  <2>3. Head(a.blocks) \in BlockType
    BY <2>2, <1>5
  <2>4. Head(a.blocks).size \in Nat
    BY <2>3 DEF BlockType
  <2>5. \A s \in Nat : s >= 8 => Target(s) \in Nat /\ Target(s) >= kUpb_MemblockReserve
    BY <1>1, <1>5 DEF MinOf, kUpb_MemblockReserve
  <2> HIDE DEF Target
  <2>6. natural \in Nat /\ natural >= kUpb_MemblockReserve
    <3>1. Head(a.blocks).size >= 8
      BY <2>4, <1>5 DEF kUpb_MemblockReserve
    <3>2. natural = Target(Head(a.blocks).size)
      BY <1>5
    <3> HIDE DEF natural
    <3> QED
      BY <3>1, <3>2, <2>4, <2>5
  <2> HIDE DEF natural
  <2>7. target_size \in Nat /\ target_size >= kUpb_MemblockReserve
    <3>1. target_size = Target(a.size_hint) \/ target_size = natural
      OBVIOUS
    <3>2. Target(a.size_hint) \in Nat /\ Target(a.size_hint) >= kUpb_MemblockReserve
      BY <2>5, <1>1
    <3> HIDE DEF target_size
    <3> QED
      BY <3>1, <3>2, <2>6
  <2>8. ~ KeepHead(ArenaHas(a), FutureFree(target_size))
    <3> HIDE DEF target_size, FutureFree
    <3> QED
      BY <2>1, <1>5
  <2> HIDE DEF target_size
  <2>9. FutureFree(target_size) =
          MaxOf(span, target_size - kUpb_MemblockReserve) - span
    BY <2>7 DEF Minus
  <2>10. ArenaHas(a) \in Int
    BY <2>2 DEF ArenaHas
  <2>11. ArenaHas(a) < MaxOf(span, target_size - kUpb_MemblockReserve) - span
    <3>1. MaxOf(span, target_size - kUpb_MemblockReserve) - span \in Int
      BY <2>7 DEF MaxOf, kUpb_MemblockReserve
    <3> HIDE DEF FutureFree
    <3> QED
      BY <3>1, <2>8, <2>9, <2>10 DEF KeepHead
  <2>12. MaxOf(span, target_size - kUpb_MemblockReserve) - span =
           MaxOf(exact, target_size) - kUpb_MemblockReserve - span
    BY <2>7 DEF MaxOf, kUpb_MemblockReserve
  <2> QED
    BY <2>1, <2>11, <2>12
<1> QED
  BY <1>4, <1>5

\* The fields a step of the slow path leaves in the arena.
LEMMA GrownFields ==
  ASSUME TypeOK, NEW block \in BlockType, NEW span \in Nat
  PROVE  LET plan == Plan(A, span)
             g == Grown(A, plan, block, span)
         IN /\ g.size_hint = IF plan.insert_after_head THEN plan.size_hint
                                                      ELSE block.size
            /\ plan.insert_after_head => Head(g.blocks) = Head(A.blocks)
<1> DEFINE plan == Plan(A, span)
           g == Grown(A, plan, block, span)
<1>1. A \in ArenaType
  BY StateFacts
<1>2. /\ A = [ptr |-> A.ptr, end |-> A.end, blocks |-> A.blocks,
              size_hint |-> A.size_hint, space_allocated |-> A.space_allocated]
  BY <1>1 DEF ArenaType
<1>3. plan.insert_after_head \in BOOLEAN
      /\ (plan.insert_after_head => A.blocks # <<>>) /\ A.blocks \in Seq(BlockType)
  BY PlanFacts, StateFacts
<1> HIDE DEF plan
<1>4. CASE plan.insert_after_head
  <2>1. g = [ptr |-> A.ptr, end |-> A.end,
             blocks |-> <<Head(A.blocks), block>> \o Tail(A.blocks),
             size_hint |-> plan.size_hint,
             space_allocated |-> A.space_allocated + block.size]
    BY <1>2, <1>4 DEF Grown, AddBehind
  <2>2. Head(<<Head(A.blocks), block>> \o Tail(A.blocks)) = Head(A.blocks)
    <3>1. A.blocks \in Seq(BlockType) /\ A.blocks # <<>>
      BY <1>3, <1>4
    <3>2. Tail(A.blocks) \in Seq(BlockType) /\ Head(A.blocks) \in BlockType
      BY <3>1
    <3>3. <<Head(A.blocks), block>> \in Seq(BlockType)
          /\ Len(<<Head(A.blocks), block>>) = 2
      BY <3>2
    <3> QED
      BY <3>2, <3>3
  <2> HIDE DEF g
  <2>3. g.size_hint = plan.size_hint /\ Head(g.blocks) = Head(A.blocks)
    BY <2>1, <2>2
  <2> QED
    BY <2>3, <1>4 DEF g, plan
<1>5. CASE ~ plan.insert_after_head
  <2>1. g = [ptr |-> block.base + kUpb_MemblockReserve + span,
             end |-> block.base + block.size, blocks |-> <<block>> \o A.blocks,
             size_hint |-> block.size,
             space_allocated |-> A.space_allocated + block.size]
    BY <1>2, <1>5 DEF Grown, AddBlock
  <2> HIDE DEF g
  <2>2. g.size_hint = block.size
    BY <2>1
  <2> QED
    BY <2>2, <1>5 DEF g, plan
<1> QED
  BY <1>3, <1>4, <1>5

\* What a new block does to the hint and to the head of the list.
LEMMA SlowMallocHints ==
  ASSUME IndInv, HintInv, phase = "live", NEW size \in Sizes,
         NEW i \in 1..(Len(allocs) + 1), NEW base \in Addresses,
         NEW extra \in ExtraSizes, SlowMalloc(i, size, base, extra)
  PROVE  /\ HintInv'
         /\ /\ A.blocks # <<>> /\ Head(A.blocks) # Head(A'.blocks)
            /\ max_block_size >= kUpb_MemblockReserve
            => ArenaHas(A) < ArenaHas(A')
<1> DEFINE span == AllocSpan(size)
           plan == Plan(A, span)
           n == plan.block_size + extra
           block == Block(base, n)
           g == Grown(A, plan, block, span)
<1>1. TypeOK /\ size \in Nat /\ span \in Nat /\ base \in Nat /\ extra \in Nat /\ Started
  BY ArenaAllocAssumption, SpanFacts DEF IndInv, Started
<1>2. A \in ArenaType /\ A.ptr \in Nat /\ A.end \in Nat /\ A.size_hint >= 8
      /\ A.blocks \in Seq(BlockType)
  BY <1>1, StateFacts DEF HintInv, HintFloor
<1>3. /\ mem' = [mem EXCEPT ![active] = g] /\ Returned(i, base + kUpb_MemblockReserve, size)
      /\ active' = active
  BY DEF SlowMalloc, Block
<1> HIDE DEF span
<1>4. /\ plan.block_size \in Nat /\ plan.block_size >= span + kUpb_MemblockReserve
      /\ plan.insert_after_head \in BOOLEAN /\ plan.size_hint \in Nat
  BY <1>1, <1>2, PlanFacts
<1>5. /\ plan.size_hint >= 8
      /\ /\ A.blocks # <<>> /\ Head(A.blocks).size >= kUpb_MemblockReserve
         /\ max_block_size >= kUpb_MemblockReserve
         /\ ~ plan.insert_after_head
         => ArenaHas(A) < plan.block_size - kUpb_MemblockReserve - span
  BY <1>1, <1>2, PlanHints
<1>6. block \in BlockType /\ block.base = base /\ block.size = n
      /\ n \in Nat /\ n >= plan.block_size /\ n >= 8
  <2>1. n \in Nat /\ n >= plan.block_size /\ n >= 8
    BY <1>1, <1>4 DEF kUpb_MemblockReserve
  <2> HIDE DEF n
  <2> QED
    BY <2>1, <1>1 DEF Block, BlockType
<1>7. A' = g
  BY <1>1, <1>3 DEF A, TypeOK
<1>8. /\ g.size_hint = IF plan.insert_after_head THEN plan.size_hint ELSE block.size
      /\ plan.insert_after_head => Head(g.blocks) = Head(A.blocks)
  <2> HIDE DEF n, block
  <2> QED
    BY <1>1, <1>6, GrownFields
<1>9. ~ plan.insert_after_head =>
        /\ g.ptr = block.base + kUpb_MemblockReserve + span
        /\ g.end = block.base + block.size
  <2> HIDE DEF n, block
  <2> QED
    BY <1>1, <1>6, GrownFacts
<1> HIDE DEF g, block, n, plan
<1>10. HintInv'
  <2>1. A'.size_hint >= 8
    BY <1>4, <1>5, <1>6, <1>7, <1>8
  <2>2. hint' = 0
    BY <1>3 DEF Returned
  <2> QED
    BY <2>1, <2>2 DEF HintInv, HintFloor, HintRoom
<1>11. ASSUME A.blocks # <<>>, Head(A.blocks) # Head(A'.blocks),
              max_block_size >= kUpb_MemblockReserve
       PROVE  ArenaHas(A) < ArenaHas(A')
  <2>1. ~ plan.insert_after_head
    BY <1>7, <1>8, <1>11
  <2>2. Head(A.blocks).size >= kUpb_MemblockReserve
    <3>1. Len(A.blocks) \in Nat /\ 1 \in 1..Len(A.blocks) /\ Head(A.blocks) = A.blocks[1]
      BY <1>2, <1>11
    <3>2. Listed(A.blocks, Head(A.blocks))
      BY <3>1 DEF Listed
    <3>3. Head(A.blocks) \in Regions
      BY <3>2, <1>1 DEF IndInv, BlocksListed, Regions
    <3> QED
      BY <3>3 DEF IndInv, RegionsSized
  <2>3. ArenaHas(A) < plan.block_size - kUpb_MemblockReserve - span
    BY <2>1, <2>2, <1>5, <1>11
  <2>4. ArenaHas(A') = n - kUpb_MemblockReserve - span
    <3>1. A'.ptr = base + kUpb_MemblockReserve + span /\ A'.end = base + n
      BY <2>1, <1>6, <1>7, <1>9
    <3> QED
      BY <3>1, <1>1, <1>6 DEF ArenaHas, kUpb_MemblockReserve
  <2>5. ArenaHas(A) \in Int
    BY <1>2 DEF ArenaHas
  <2> QED
    BY <2>3, <2>4, <2>5, <1>1, <1>4, <1>6, SMTT(30) DEF kUpb_MemblockReserve
<1> QED
  BY <1>10, <1>11

\* The other steps that change the arena keep its list of blocks and the hint.
LEMMA OtherHints ==
  ASSUME IndInv, HintInv, phase = "live",
         \/ \E i \in 1..(Len(allocs) + 1), size \in Sizes : FastMalloc(i, size)
         \/ \E size \in Sizes : SlowMallocFails(size)
         \/ \E i \in 1..Len(allocs), size \in Sizes :
              ShrinkLast(i, size) \/ ReallocShrink(i, size) \/ TryExtend(i, size)
  PROVE  HintInv' /\ A'.blocks = A.blocks
<1>1. /\ TypeOK /\ Started /\ A \in ArenaType /\ A.size_hint >= 8
      /\ mem \in [{"arena", "decoder"} -> ArenaType] /\ active \in {"arena", "decoder"}
  BY StateFacts DEF IndInv, Started, HintInv, HintFloor, TypeOK
<1>2. ASSUME NEW p, mem' = [mem EXCEPT ![active].ptr = p], active' = active
      PROVE  A'.size_hint >= 8 /\ A'.blocks = A.blocks
  <2>1. A' = [A EXCEPT !.ptr = p]
    BY <1>1, <1>2 DEF A
  <2>2. A'.size_hint = A.size_hint /\ A'.blocks = A.blocks
    BY <2>1, <1>1 DEF ArenaType
  <2> QED
    BY <2>2, <1>1
<1>3. ASSUME NEW i \in 1..(Len(allocs) + 1), NEW size \in Sizes, FastMalloc(i, size)
      PROVE  HintInv' /\ A'.blocks = A.blocks
  <2>1. mem' = [mem EXCEPT ![active].ptr = mem[active].ptr + AllocSpan(size)]
        /\ active' = active /\ hint' = 0
    BY <1>1, <1>3 DEF FastMalloc, Returned
  <2> QED
    BY <2>1, <1>2 DEF HintInv, HintFloor, HintRoom
<1>4. ASSUME NEW i \in 1..Len(allocs), NEW size \in Sizes,
             ShrinkLast(i, size) \/ ReallocShrink(i, size) \/ TryExtend(i, size)
      PROVE  HintInv' /\ A'.blocks = A.blocks
  <2>1. PICK p, newlast : Resized(i, size, p, newlast)
    BY <1>4 DEF ShrinkLast, ReallocShrink, TryExtend
  <2>2. allocs # <<>>
    OBVIOUS
  <2>3. hint' = 0
    BY <2>1, <2>2 DEF Resized, HintInv, HintRoom
  <2> QED
    BY <2>1, <2>3, <1>2 DEF Resized, HintInv, HintFloor, HintRoom
<1>5. ASSUME NEW size \in Sizes, SlowMallocFails(size)
      PROVE  HintInv' /\ A'.blocks = A.blocks
  <2> DEFINE h == Plan(A, AllocSpan(size)).size_hint
  <2>1. AllocSpan(size) \in Nat
    BY ArenaAllocAssumption, SpanFacts
  <2>2. h >= 8
    BY <2>1, <1>1, PlanHints
  <2>3. /\ UNCHANGED <<active, allocs, hint>> /\ Started'
        /\ mem' = mem \/ mem' = [mem EXCEPT ![active].size_hint = h]
    BY <1>5, <1>1 DEF SlowMallocFails, Started
  <2> HIDE DEF h
  <2>4. A' = A \/ A' = [A EXCEPT !.size_hint = h]
    BY <2>3, <1>1 DEF A
  <2>5. A'.size_hint >= 8 /\ A'.blocks = A.blocks /\ A'.ptr = A.ptr /\ A'.end = A.end
    BY <2>2, <2>4, <1>1 DEF ArenaType
  <2> QED
    BY <2>3, <2>5 DEF HintInv, HintFloor, HintRoom, ArenaHas
<1> QED
  BY <1>3, <1>4, <1>5

\* A new arena has the room it was asked for.
LEMMA InitHints ==
  ASSUME IndInv, HintInv,
         \/ \E base \in Addresses, n \in InitialSizes, alloc \in Allocators :
              InitWithBlock(base, n, alloc)
         \/ \E base \in Addresses, n \in Sizes, alloc \in Allocators,
               extra \in ExtraSizes : InitSlow(base, n, alloc, extra)
  PROVE  HintInv'
<1>1. /\ TypeOK /\ phase = "none" /\ hint = 0 /\ allocs = <<>> /\ active = "arena"
      /\ mem \in [{"arena", "decoder"} -> ArenaType]
  BY DEF InitWithBlock, InitSlow, IndInv, Quiet, HintInv, HintRoom, Started, TypeOK
<1>2. ASSUME NEW base \in Addresses, NEW n \in InitialSizes, NEW alloc \in Allocators,
             InitWithBlock(base, n, alloc)
      PROVE  HintInv'
  <2>1. /\ A' = [ptr |-> base + sizeof_upb_ArenaState, end |-> base + n,
                 blocks |-> <<>>, size_hint |-> 128, space_allocated |-> 0]
        /\ hint' = 0
    BY <1>1, <1>2 DEF InitWithBlock, A
  <2>2. A'.size_hint = 128
    BY <2>1
  <2> QED
    BY <2>1, <2>2 DEF HintInv, HintFloor, HintRoom
<1>3. ASSUME NEW base \in Addresses, NEW first_size \in Sizes, NEW alloc \in Allocators,
             NEW extra \in ExtraSizes, InitSlow(base, first_size, alloc, extra)
      PROVE  HintInv'
  <2> DEFINE n == FirstBlockSize(first_size) + extra
             block == Block(base, n)
             u == [Unborn EXCEPT !.size_hint = n, !.space_allocated = n]
             a == AddBlock(u, block, first_block_overhead)
             m == MaxOf(min_first_size, Align(first_size) + Guard)
             room == Align(first_size) + Guard
  <2>1. /\ mem' = [mem EXCEPT !.arena = a] /\ hint' = first_size /\ active' = active
        /\ phase' = "live" /\ allocs' = allocs
    BY <1>3 DEF InitSlow
  <2>2. base \in Nat /\ first_size \in Nat /\ extra \in Nat
    BY ArenaAllocAssumption
  <2>3. room \in Nat
    BY <2>2, AlignFacts, ArenaAllocAssumption
  <2>4. m \in Nat /\ m >= room
    <3> HIDE DEF room
    <3>1. m = MaxOf(min_first_size, room)
      BY DEF room
    <3> QED
      BY <2>3, <3>1 DEF MaxOf, min_first_size
  <2>5. first_block_overhead \in Nat /\ first_block_overhead >= 8
    BY DEF first_block_overhead, Align, kUpb_MemblockReserve, sizeof_upb_ArenaState
  <2>6. n = first_block_overhead + m + extra
    BY DEF FirstBlockSize
  <2> HIDE DEF room, m, n
  <2>7. n \in Nat /\ n >= 8 /\ n - first_block_overhead >= room
    BY <2>2, <2>3, <2>4, <2>5, <2>6
  <2>8. block = [base |-> base, size |-> n]
    BY DEF Block
  <2>9. u \in ArenaType /\ u.size_hint = n
    <3>1. Unborn \in ArenaType
      BY DEF Unborn, ArenaType
    <3> QED
      BY <3>1, <2>7 DEF ArenaType
  <2>10. /\ a.ptr = base + first_block_overhead /\ a.end = base + n
         /\ a.size_hint = n
    <3>1. block.base = base /\ block.size = n
      BY <2>8
    <3> DEFINE b == <<block>> \o u.blocks
               p == block.base + first_block_overhead
               e == block.base + block.size
    <3>2. a = [u EXCEPT !.blocks = b, !.ptr = p, !.end = e]
      BY DEF AddBlock
    <3> HIDE DEF b, p, e, u, block, a
    <3>4. a.ptr = p /\ a.end = e /\ a.size_hint = n
      BY <2>9, <3>2 DEF ArenaType
    <3> QED
      BY <3>1, <3>4 DEF p, e
  <2> HIDE DEF a, block
  <2>11. A' = a
    BY <2>1, <1>1 DEF A
  <2>12. A'.ptr = base + first_block_overhead /\ A'.end = base + n /\ A'.size_hint = n
    BY <2>10, <2>11
  <2>13. ArenaHas(A') = n - first_block_overhead
    BY <2>12, <2>2, <2>5, <2>7 DEF ArenaHas
  <2>14. ArenaHas(A') >= AllocSpan(first_size)
    BY <2>7, <2>13 DEF AllocSpan, room
  <2>15. ArenaHas(A)' >= AllocSpan(hint')
    BY <2>14, <2>1 DEF ArenaHas
  <2>16. Started' /\ allocs' = <<>> /\ A'.size_hint >= 8
    BY <2>1, <2>7, <2>12, <1>1 DEF Started
  <2> QED
    BY <2>15, <2>16 DEF HintInv, HintFloor, HintRoom
<1> QED
  BY <1>2, <1>3

\* Every operation keeps the hint's promise, and a head gives way only to a
\* block that leaves more free space.
LEMMA HintStep ==
  ASSUME IndInv, HintInv, [Next]_vars
  PROVE  /\ HintInv'
         /\ /\ phase = "live" /\ active' = active
            /\ A.blocks # <<>> /\ Head(A.blocks) # Head(A'.blocks)
            /\ max_block_size >= kUpb_MemblockReserve
            => ArenaHas(A) < ArenaHas(A')
<1> DEFINE Goal == /\ HintInv'
                   /\ /\ phase = "live" /\ active' = active
                      /\ A.blocks # <<>> /\ Head(A.blocks) # Head(A'.blocks)
                      /\ max_block_size >= kUpb_MemblockReserve
                      => ArenaHas(A) < ArenaHas(A')
<1>1. Len(allocs) \in Nat
  BY DEF IndInv, TypeOK
<1>2. ASSUME HintInv', A'.blocks = A.blocks PROVE Goal
  BY <1>2
<1>3. ASSUME NEW i \in 1..(Len(allocs) + 1), NEW size \in Sizes,
             phase = "live", AllocSome(i, size)
      PROVE  Goal
  <2>1. CASE FastMalloc(i, size) \/ SlowMallocFails(size)
    BY <2>1, <1>2, <1>3, OtherHints
  <2>2. ASSUME NEW base \in Addresses, NEW extra \in ExtraSizes,
               SlowMalloc(i, size, base, extra)
        PROVE  Goal
    BY <2>2, <1>3, SlowMallocHints
  <2> QED
    BY <2>1, <2>2, <1>3 DEF AllocSome
<1>4. ASSUME NEW size \in Sizes, Malloc(size) PROVE Goal
  BY <1>1, <1>3, <1>4 DEF Malloc
<1>5. ASSUME NEW i \in 1..Len(allocs), NEW size \in Sizes, ReallocCopy(i, size)
      PROVE  Goal
  <2>1. i \in 1..(Len(allocs) + 1)
    BY <1>1
  <2> QED
    BY <2>1, <1>3, <1>5 DEF ReallocCopy
<1>6. ASSUME NEW i \in 1..Len(allocs), NEW size \in Sizes,
             ShrinkLast(i, size) \/ ReallocShrink(i, size) \/ TryExtend(i, size)
      PROVE  Goal
  <2>1. phase = "live"
    BY <1>6 DEF ShrinkLast, ReallocShrink, TryExtend
  <2>2. HintInv' /\ A'.blocks = A.blocks
    BY <2>1, <1>6, OtherHints
  <2> QED
    BY <2>2, <1>2
<1>7. ASSUME \/ \E base \in Addresses, n \in InitialSizes, alloc \in Allocators :
                  InitWithBlock(base, n, alloc)
             \/ \E base \in Addresses, n \in Sizes, alloc \in Allocators,
                   extra \in ExtraSizes : InitSlow(base, n, alloc, extra)
      PROVE  Goal
  <2>1. HintInv'
    BY <1>7, InitHints
  <2>2. phase # "live"
    BY <1>7 DEF InitWithBlock, InitSlow
  <2> QED
    BY <2>1, <2>2
<1>8. ASSUME \/ DecoderInit \/ DecoderDestroy \/ UNCHANGED vars
             \/ \E max \in MaxBlockSizes : SetMaxBlockSize(max)
      PROVE  Goal
  <2>1. A' = A /\ UNCHANGED <<phase, allocs, hint>>
    <3>1. mem \in [{"arena", "decoder"} -> ArenaType]
      BY DEF IndInv, TypeOK
    <3>2. CASE DecoderInit
      BY <3>1, <3>2 DEF DecoderInit, SwapIn, A
    <3>3. CASE DecoderDestroy
      BY <3>3 DEF DecoderDestroy, SwapIn, A
    <3>4. CASE UNCHANGED vars \/ \E max \in MaxBlockSizes : SetMaxBlockSize(max)
      BY <3>4 DEF vars, SetMaxBlockSize, A
    <3> QED
      BY <3>2, <3>3, <3>4, <1>8
  <2>2. HintInv'
    BY <2>1 DEF HintInv, HintFloor, HintRoom, Started
  <2> QED
    BY <2>1, <2>2
<1>9. ASSUME DoFree PROVE Goal
  <2>1. A' = A /\ ~ Started' /\ hint' = 0
    BY <1>9 DEF DoFree, Started, A
  <2> QED
    BY <2>1 DEF HintInv, HintFloor, HintRoom
<1> HIDE DEF Goal
<1>10. Goal
  BY <1>4, <1>5, <1>6, <1>7, <1>8, <1>9 DEF Next
<1> QED
  BY <1>10 DEF Goal

\* The first allocation of the size given as a hint fits the first block.
THEOREM HintIsEnough == Spec => []HintSuffices
<1>1. Init => HintInv
  BY DEF Init, HintInv, HintFloor, HintRoom, Started
<1>2. IndInv /\ HintInv /\ [Next]_vars => HintInv'
  BY HintStep
<1>3. HintInv => HintSuffices
  BY DEF HintInv, HintRoom, HintSuffices
<1> QED
  BY <1>1, <1>2, <1>3, Invariant, PTL DEF Spec

\* A block gives way as the current one only for one that leaves more free.
THEOREM FreeSpaceAlwaysGrows == Spec => FreeSpaceGrows
<1>1. Init => HintInv
  BY DEF Init, HintInv, HintFloor, HintRoom, Started
<1>2. IndInv /\ HintInv /\ [Next]_vars => HintInv'
  BY HintStep
<1>3. IndInv /\ HintInv /\ [Next]_vars =>
        [ /\ phase = "live" /\ active' = active
          /\ A.blocks # <<>> /\ Head(A.blocks) # Head(A'.blocks)
          /\ max_block_size >= kUpb_MemblockReserve
          => ArenaHas(A) < ArenaHas(A') ]_vars
  BY HintStep
<1> QED
  BY <1>1, <1>2, <1>3, Invariant, PTL DEF Spec, FreeSpaceGrows

-----------------------------------------------------------------------------
(* The bytes handed out *)

HeapBytes(blocks) == UNION {Bytes(b) : b \in blocks}

\* The count is that of the bytes in the blocks; it outlives a decoder's copy.
SpaceInv == Started => /\ IsFiniteSet(HeapBytes(heap))
                       /\ A.space_allocated = Cardinality(HeapBytes(heap))

LEMMA BytesCount ==
  ASSUME NEW b \in BlockType
  PROVE  IsFiniteSet(Bytes(b)) /\ Cardinality(Bytes(b)) = b.size
<1>1. b.base \in Nat /\ b.size \in Nat
  BY DEF BlockType
<1>2. b.base \in Int /\ b.base + b.size - 1 \in Int
  BY <1>1
<1>3. /\ IsFiniteSet(Bytes(b))
      /\ Cardinality(Bytes(b)) = IF b.base > b.base + b.size - 1 THEN 0
                                 ELSE (b.base + b.size - 1) - b.base + 1
  BY <1>2, FS_Interval DEF Bytes
<1> QED
  BY <1>1, <1>3

\* A block that nothing else occupies adds its size.
LEMMA BytesAdded ==
  ASSUME NEW blocks \in SUBSET BlockType, IsFiniteSet(HeapBytes(blocks)), NEW b \in BlockType,
         \A r \in blocks : Apart(b.base, b.size, r.base, r.size)
  PROVE  /\ IsFiniteSet(HeapBytes(blocks \union {b}))
         /\ Cardinality(HeapBytes(blocks \union {b})) =
              Cardinality(HeapBytes(blocks)) + b.size
<1>1. HeapBytes(blocks \union {b}) = HeapBytes(blocks) \union Bytes(b)
  BY DEF HeapBytes
<1>2. ASSUME NEW x \in HeapBytes(blocks), x \in Bytes(b) PROVE FALSE
  <2>1. PICK r \in blocks : x \in Bytes(r)
    BY DEF HeapBytes
  <2>2. /\ r.base \in Nat /\ r.size \in Nat /\ b.base \in Nat /\ b.size \in Nat
    BY <2>1 DEF BlockType
  <2>3. /\ x \in Int /\ r.base <= x /\ x <= r.base + r.size - 1
        /\ b.base <= x /\ x <= b.base + b.size - 1
    BY <1>2, <2>1, <2>2 DEF Bytes
  <2> QED
    BY <2>2, <2>3 DEF Apart
<1>3. HeapBytes(blocks) \cap Bytes(b) = {}
  BY <1>2
<1>4. IsFiniteSet(Bytes(b)) /\ Cardinality(Bytes(b)) = b.size /\ b.size \in Nat
  BY BytesCount DEF BlockType
<1>5. Cardinality(HeapBytes(blocks)) \in Nat
  BY FS_CardinalityType
<1>6. Cardinality({}) = 0
  BY FS_EmptySet
<1>7. /\ IsFiniteSet(HeapBytes(blocks) \union Bytes(b))
      /\ Cardinality(HeapBytes(blocks) \union Bytes(b)) =
           Cardinality(HeapBytes(blocks)) + Cardinality(Bytes(b))
             - Cardinality(HeapBytes(blocks) \cap Bytes(b))
  BY <1>4, FS_Union
<1>8. Cardinality(HeapBytes(blocks) \cap Bytes(b)) = 0
  BY <1>3, <1>6
<1> DEFINE c == Cardinality(HeapBytes(blocks))
           d == Cardinality(HeapBytes(blocks) \union Bytes(b))
<1>9. d = c + b.size - 0
  BY <1>4, <1>7, <1>8
<1> HIDE DEF c, d
<1>10. d = c + b.size
  BY <1>4, <1>5, <1>9 DEF c
<1> QED
  BY <1>1, <1>7, <1>10 DEF c, d

\* The counter grows by the block.
LEMMA GrownSpace ==
  ASSUME TypeOK, NEW block \in BlockType, NEW span \in Nat, NEW plan,
         plan.insert_after_head \in BOOLEAN
  PROVE  Grown(A, plan, block, span).space_allocated = A.space_allocated + block.size
<1> DEFINE g == Grown(A, plan, block, span)
<1>1. A \in ArenaType
  BY StateFacts
<1>2. A = [ptr |-> A.ptr, end |-> A.end, blocks |-> A.blocks,
           size_hint |-> A.size_hint, space_allocated |-> A.space_allocated]
  BY <1>1 DEF ArenaType
<1>3. CASE plan.insert_after_head
  <2>1. g = [ptr |-> A.ptr, end |-> A.end,
             blocks |-> <<Head(A.blocks), block>> \o Tail(A.blocks),
             size_hint |-> plan.size_hint,
             space_allocated |-> A.space_allocated + block.size]
    BY <1>2, <1>3 DEF Grown, AddBehind
  <2> QED
    BY <2>1
<1>4. CASE ~ plan.insert_after_head
  <2>1. g = [ptr |-> block.base + kUpb_MemblockReserve + span,
             end |-> block.base + block.size, blocks |-> <<block>> \o A.blocks,
             size_hint |-> block.size,
             space_allocated |-> A.space_allocated + block.size]
    BY <1>2, <1>4 DEF Grown, AddBlock
  <2> QED
    BY <2>1
<1> QED
  BY <1>3, <1>4

LEMMA SlowMallocSpace ==
  ASSUME IndInv, SpaceInv, phase = "live", NEW size \in Sizes, NEW i,
         NEW base \in Addresses, NEW extra \in ExtraSizes, SlowMalloc(i, size, base, extra)
  PROVE  SpaceInv'
<1> DEFINE span == AllocSpan(size)
           plan == Plan(A, span)
           block == Block(base, plan.block_size + extra)
<1>1. TypeOK /\ span \in Nat /\ base \in Nat /\ extra \in Nat /\ Started
  BY ArenaAllocAssumption, SpanFacts DEF IndInv, Started
<1>2. /\ Unused(block.base, block.size) /\ heap' = heap \union {block}
      /\ mem' = [mem EXCEPT ![active] = Grown(A, plan, block, span)]
      /\ active' = active
  BY DEF SlowMalloc
<1>3. plan.block_size \in Nat /\ plan.insert_after_head \in BOOLEAN
  BY <1>1, PlanFacts, StateFacts
<1> HIDE DEF plan, span
<1>4. block \in BlockType
  BY <1>1, <1>3 DEF Block, BlockType
<1> HIDE DEF block
<1>5. \A r \in heap : Apart(block.base, block.size, r.base, r.size)
  BY <1>2 DEF Unused, Regions
<1>6. IsFiniteSet(HeapBytes(heap)) /\ A.space_allocated = Cardinality(HeapBytes(heap))
  BY <1>1 DEF SpaceInv
<1>7. heap \in SUBSET BlockType
  BY <1>1 DEF TypeOK
<1>8. /\ IsFiniteSet(HeapBytes(heap'))
      /\ Cardinality(HeapBytes(heap')) = Cardinality(HeapBytes(heap)) + block.size
  BY <1>2, <1>4, <1>5, <1>6, <1>7, BytesAdded
<1>9. A' = Grown(A, plan, block, span)
  BY <1>1, <1>2 DEF A, TypeOK
<1>10. A'.space_allocated = A.space_allocated + block.size
  BY <1>1, <1>3, <1>4, <1>9, GrownSpace
<1> QED
  BY <1>6, <1>8, <1>10 DEF SpaceInv

\* A new arena has its first block, or none.
LEMMA InitSpace ==
  ASSUME IndInv,
         \/ \E base \in Addresses, n \in InitialSizes, alloc \in Allocators :
              InitWithBlock(base, n, alloc)
         \/ \E base \in Addresses, n \in Sizes, alloc \in Allocators,
               extra \in ExtraSizes : InitSlow(base, n, alloc, extra)
  PROVE  SpaceInv'
<1>1. /\ heap = {} /\ active = "arena" /\ mem \in [{"arena", "decoder"} -> ArenaType]
  BY DEF InitWithBlock, InitSlow, IndInv, Quiet, TypeOK
<1>2. HeapBytes({}) = {} /\ IsFiniteSet({}) /\ Cardinality({}) = 0
  BY FS_EmptySet DEF HeapBytes
<1>3. ASSUME NEW base \in Addresses, NEW n \in InitialSizes, NEW alloc \in Allocators,
             InitWithBlock(base, n, alloc)
      PROVE  SpaceInv'
  <2>1. /\ A' = [ptr |-> base + sizeof_upb_ArenaState, end |-> base + n,
                 blocks |-> <<>>, size_hint |-> 128, space_allocated |-> 0]
        /\ heap' = {}
    BY <1>1, <1>3 DEF InitWithBlock, A
  <2>2. A'.space_allocated = 0
    BY <2>1
  <2> QED
    BY <1>2, <2>1, <2>2 DEF SpaceInv
<1>4. ASSUME NEW base \in Addresses, NEW first_size \in Sizes, NEW alloc \in Allocators,
             NEW extra \in ExtraSizes, InitSlow(base, first_size, alloc, extra)
      PROVE  SpaceInv'
  <2> DEFINE n == FirstBlockSize(first_size) + extra
             block == Block(base, n)
             u == [Unborn EXCEPT !.size_hint = n, !.space_allocated = n]
             a == AddBlock(u, block, first_block_overhead)
  <2>1. mem' = [mem EXCEPT !.arena = a] /\ active' = active /\ heap' = {block}
    BY <1>4 DEF InitSlow
  <2>2. base \in Nat /\ n \in Nat
    <3>1. base \in Nat /\ first_size \in Nat /\ extra \in Nat /\ Guard \in Nat
      BY ArenaAllocAssumption
    <3>2. Align(first_size) \in Nat /\ first_block_overhead \in Nat
      BY <3>1, AlignFacts DEF first_block_overhead, kUpb_MemblockReserve,
                              sizeof_upb_ArenaState
    <3> QED
      BY <3>1, <3>2 DEF FirstBlockSize, MaxOf, min_first_size
  <2> HIDE DEF n
  <2>3. block \in BlockType /\ block.size = n
    BY <2>2 DEF Block, BlockType
  <2>4. a.space_allocated = n
    <3>1. Unborn \in ArenaType
      BY DEF Unborn, ArenaType
    <3>2. u \in ArenaType /\ u.space_allocated = n
      BY <2>2, <3>1 DEF ArenaType
    <3> DEFINE b == <<block>> \o u.blocks
               p == block.base + first_block_overhead
               e == block.base + block.size
    <3>3. a = [u EXCEPT !.blocks = b, !.ptr = p, !.end = e]
      BY DEF AddBlock
    <3> HIDE DEF b, p, e, u, block, a
    <3> QED
      BY <3>2, <3>3 DEF ArenaType
  <2> HIDE DEF a, block
  <2>5. A' = a
    BY <2>1, <1>1 DEF A
  <2>6. HeapBytes(heap') = Bytes(block)
    BY <2>1 DEF HeapBytes
  <2> QED
    BY <2>3, <2>4, <2>5, <2>6, BytesCount DEF SpaceInv
<1> QED
  BY <1>3, <1>4

\* Every other operation changes neither the blocks nor the count.
LEMMA SpaceStep ==
  ASSUME IndInv, SpaceInv, [Next]_vars
  PROVE  SpaceInv'
<1>1. /\ Len(allocs) \in Nat /\ A \in ArenaType /\ mem \in [{"arena", "decoder"} -> ArenaType]
      /\ active \in {"arena", "decoder"}
  BY StateFacts DEF IndInv, TypeOK
<1>2. ASSUME A'.space_allocated = A.space_allocated, heap' = heap, Started
      PROVE  SpaceInv'
  BY <1>2 DEF SpaceInv
<1>3. ASSUME NEW p, mem' = [mem EXCEPT ![active].ptr = p], active' = active
      PROVE  A'.space_allocated = A.space_allocated
  <2>1. A' = [A EXCEPT !.ptr = p]
    BY <1>1, <1>3 DEF A
  <2> QED
    BY <2>1, <1>1 DEF ArenaType
<1>4. ASSUME NEW i, NEW size \in Sizes, phase = "live", AllocSome(i, size)
      PROVE  SpaceInv'
  <2>1. CASE FastMalloc(i, size)
    <3>1. /\ mem' = [mem EXCEPT ![active].ptr = mem[active].ptr + AllocSpan(size)]
          /\ active' = active /\ heap' = heap
      BY <2>1 DEF FastMalloc
    <3> QED
      BY <3>1, <1>2, <1>3, <1>4 DEF Started
  <2>2. CASE SlowMallocFails(size)
    <3> DEFINE h == Plan(A, AllocSpan(size)).size_hint
    <3>1. /\ active' = active /\ heap' = heap
          /\ mem' = mem \/ mem' = [mem EXCEPT ![active].size_hint = h]
      BY <2>2 DEF SlowMallocFails
    <3> HIDE DEF h
    <3>2. A' = A \/ A' = [A EXCEPT !.size_hint = h]
      BY <3>1, <1>1 DEF A
    <3>3. A'.space_allocated = A.space_allocated
      BY <3>2, <1>1 DEF ArenaType
    <3> QED
      BY <3>1, <3>3, <1>2, <1>4 DEF Started
  <2>3. ASSUME NEW base \in Addresses, NEW extra \in ExtraSizes,
               SlowMalloc(i, size, base, extra)
        PROVE  SpaceInv'
    BY <2>3, <1>4, SlowMallocSpace
  <2> QED
    BY <2>1, <2>2, <2>3, <1>4 DEF AllocSome
<1>5. ASSUME NEW size \in Sizes, Malloc(size) PROVE SpaceInv'
  BY <1>4, <1>5 DEF Malloc
<1>6. ASSUME NEW i \in 1..Len(allocs), NEW size \in Sizes, ReallocCopy(i, size)
      PROVE  SpaceInv'
  BY <1>4, <1>6 DEF ReallocCopy
<1>7. ASSUME NEW i \in 1..Len(allocs), NEW size \in Sizes,
             ShrinkLast(i, size) \/ ReallocShrink(i, size) \/ TryExtend(i, size)
      PROVE  SpaceInv'
  <2>1. PICK p, newlast : Resized(i, size, p, newlast)
    BY <1>7 DEF ShrinkLast, ReallocShrink, TryExtend
  <2>2. phase = "live" /\ heap' = heap /\ active' = active
        /\ mem' = [mem EXCEPT ![active].ptr = p]
    BY <1>7, <2>1 DEF ShrinkLast, ReallocShrink, TryExtend, Resized
  <2> QED
    BY <2>2, <1>2, <1>3 DEF Started
<1>8. CASE \/ DecoderInit \/ DecoderDestroy \/ UNCHANGED vars
           \/ \E max \in MaxBlockSizes : SetMaxBlockSize(max)
  <2>1. A' = A /\ UNCHANGED <<phase, heap>>
    <3>1. CASE DecoderInit
      BY <1>1, <3>1 DEF DecoderInit, SwapIn, A
    <3>2. CASE DecoderDestroy
      BY <3>2 DEF DecoderDestroy, SwapIn, A
    <3>3. CASE UNCHANGED vars \/ \E max \in MaxBlockSizes : SetMaxBlockSize(max)
      BY <3>3 DEF vars, SetMaxBlockSize, A
    <3> QED
      BY <3>1, <3>2, <3>3, <1>8
  <2> QED
    BY <2>1 DEF SpaceInv, Started
<1>9. CASE DoFree
  BY <1>9 DEF DoFree, SpaceInv, Started
<1>10. CASE \/ \E base \in Addresses, n \in InitialSizes, alloc \in Allocators :
                  InitWithBlock(base, n, alloc)
            \/ \E base \in Addresses, n \in Sizes, alloc \in Allocators,
                  extra \in ExtraSizes : InitSlow(base, n, alloc, extra)
  BY <1>10, InitSpace
<1> QED
  BY <1>5, <1>6, <1>7, <1>8, <1>9, <1>10 DEF Next

\* upb_Arena_SpaceAllocated, outside a decode, is the number of bytes that the
\* allocator has handed out: no block is forgotten, counted twice or counted
\* with another size, through the arena or the decoder's copy.
THEOREM SpaceIsExact == Spec => []SpaceAllocatedExact
<1>1. Init => SpaceInv
  BY DEF Init, SpaceInv, Started
<1>2. IndInv /\ SpaceInv /\ [Next]_vars => SpaceInv'
  BY SpaceStep
<1>3. SpaceInv => SpaceAllocatedExact
  BY DEF SpaceInv, SpaceAllocatedExact, Started, HeapBytes
<1> QED
  BY <1>1, <1>2, <1>3, Invariant, PTL DEF Spec
=============================================================================

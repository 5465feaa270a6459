------------------------------- MODULE Arena -------------------------------
(***************************************************************************)
(* The reference-counting core of upb arenas (upb/mem/arena.c): a          *)
(* lock-free union-find whose roots carry the reference count of a group   *)
(* of fused arenas, threaded by a doubly linked list that upb_Arena_Free   *)
(* walks to reclaim the group.                                             *)
(*                                                                         *)
(* One action is one atomic access to shared memory, with the local        *)
(* computation up to the next one; accesses are sequentially consistent.   *)
(* An arena is its address: fusing is directed by the order of addresses.  *)
(***************************************************************************)
EXTENDS Integers

CONSTANTS
  Arena,      \* addresses at which upb_Arena_Init may place an arena
  Thread,     \* callers of the API
  Calls,      \* the operations the callers of an instance use
  MaxRefs,    \* bound: references callers may hold on one arena
  MaxCalls    \* bound: calls a thread makes

ASSUME ArenaAssumption  == Arena \subseteq Nat \ {0}
ASSUME BoundsAssumption == MaxRefs \in Nat /\ MaxCalls \in Nat

NULL == 0

VARIABLES
  status,            \* the memory of an arena: "unborn", "live" or "freed"
  initial_block,     \* HasInitialBlock: the low bit of block_alloc
  parent_or_count,   \* tagged word: count of a root, or parent
  next,              \* successor in the list of the fused group
  previous_or_tail,  \* tagged word: cached tail, or predecessor
  refs,              \* references held by callers (not program state)
  pc,                \* next atomic access of a thread
  call,              \* operation in progress, its arguments and result
  find,              \* frame of _upb_Arena_FindRoot
  fuse,              \* frame of upb_Arena_Fuse
  roots,             \* frame of _upb_Arena_DoFuse: the two roots, their counts
  link,              \* frame of _upb_Arena_DoFuseArenaLists and what it calls
  walk,              \* frame of Free, IncRefFor, IsFused, SpaceAllocated
  calls              \* calls started by a thread (bounded by MaxCalls)

memory == <<status, initial_block, parent_or_count, next, previous_or_tail>>
fusing == <<fuse, roots, link>>
vars   == <<memory, refs, pc, call, find, fusing, walk, calls>>

-----------------------------------------------------------------------------
(* Tagged words.                                                           *)

TaggedFromRefcount(n) == [tag |-> "count", val |-> n]
TaggedFromPointer(p)  == [tag |-> "ptr",   val |-> p]
IsTaggedRefcount(w)   == w.tag = "count"
IsTaggedPointer(w)    == w.tag = "ptr"

TaggedFromTail(a)     == [tag |-> "tail", val |-> a]
TaggedFromPrevious(a) == [tag |-> "prev", val |-> a]
IsTaggedTail(w)       == w.tag = "tail"
IsTaggedPrevious(w)   == w.tag = "prev"

-----------------------------------------------------------------------------
(* Frames of the C functions; an idle thread's frames are empty.           *)

Call(op, a, b, ans)         == [op |-> op, a |-> a, b |-> b, ans |-> ans]
FindFrame(ai, nxt, poc, ret) == [ai |-> ai, nxt |-> nxt, poc |-> poc, ret |-> ret]
FuseFrame(ai1, ai2, delta)  == [ai1 |-> ai1, ai2 |-> ai2, delta |-> delta]
RootsFrame(r1, n1, r2, n2)  == [r1 |-> r1, n1 |-> n1, r2 |-> r2, n2 |-> n2]
LinkFrame(tail, newtail, pot) == [tail |-> tail, newtail |-> newtail, pot |-> pot]
WalkFrame(ai, other, n, seen) == [ai |-> ai, other |-> other, n |-> n, seen |-> seen]

NoCall  == Call("none", NULL, NULL, FALSE)
NoFind  == FindFrame(NULL, NULL, TaggedFromRefcount(0), "none")
NoFuse  == FuseFrame(NULL, NULL, 0)
NoRoots == RootsFrame(NULL, 0, NULL, 0)
NoLink  == LinkFrame(NULL, NULL, TaggedFromTail(NULL))
NoWalk  == WalkFrame(NULL, NULL, 0, {})

Goto(t, label) == pc' = [pc EXCEPT ![t] = label]

\* The operation is over, with the given result.
Finish(t, ans) ==
  /\ Goto(t, "ret")
  /\ call' = [call EXCEPT ![t] = Call(@.op, @.a, @.b, ans)]

\* The caller takes the result and stops relying on its references.
Return(t) ==
  /\ pc[t] = "ret"
  /\ Goto(t, "idle")
  /\ call' = [call EXCEPT ![t] = NoCall]
  /\ find' = [find EXCEPT ![t] = NoFind]
  /\ fuse' = [fuse EXCEPT ![t] = NoFuse]
  /\ roots' = [roots EXCEPT ![t] = NoRoots]
  /\ link' = [link EXCEPT ![t] = NoLink]
  /\ walk' = [walk EXCEPT ![t] = NoWalk]
  /\ UNCHANGED <<memory, refs, calls>>

-----------------------------------------------------------------------------
(* What callers may do: an operation is called on arenas somebody holds a  *)
(* reference to, and no reference is given up to upb_Arena_Free while      *)
(* another thread is inside an operation that relies on it.                *)

Borrowers(a) == {t \in Thread : pc[t] # "idle" /\ call[t].op # "Free"
                                /\ a \in {call[t].a, call[t].b}}

CanUse(a)     == status[a] = "live" /\ refs[a] > 0
CanRelease(a) == CanUse(a) /\ (Borrowers(a) # {} => refs[a] > 1)

StartCall(t, op) ==
  /\ pc[t] = "idle"
  /\ op \in Calls
  /\ calls[t] < MaxCalls
  /\ calls' = [calls EXCEPT ![t] = @ + 1]

-----------------------------------------------------------------------------
(* upb_Arena_Init, with or without an initial block.                       *)

Arena_Init(a, has_initial) ==
  /\ status[a] = "unborn"
  /\ has_initial => "InitialBlock" \in Calls
  /\ status' = [status EXCEPT ![a] = "live"]
  /\ initial_block' = [initial_block EXCEPT ![a] = has_initial]
  /\ parent_or_count' = [parent_or_count EXCEPT ![a] = TaggedFromRefcount(1)]
  /\ next' = [next EXCEPT ![a] = NULL]
  /\ previous_or_tail' = [previous_or_tail EXCEPT ![a] = TaggedFromTail(a)]
  /\ refs' = [refs EXCEPT ![a] = 1]
  /\ UNCHANGED <<pc, call, find, fusing, walk, calls>>

-----------------------------------------------------------------------------
(* _upb_Arena_FindRoot, called with a label to resume at.                  *)

FindRoot(t, a, ret) ==
  /\ Goto(t, "fr_load")
  /\ find' = [find EXCEPT ![t] = FindFrame(a, NULL, TaggedFromRefcount(0), ret)]

\* DoFuse: r1 is found, r2 comes next.
AfterFuse1(t, root, n) ==
  /\ find[t].ret = "fuse1"
  /\ roots' = [roots EXCEPT ![t] = RootsFrame(root, n, NULL, 0)]
  /\ FindRoot(t, fuse[t].ai2, "fuse2")
  /\ UNCHANGED <<call, fuse, link, walk>>

\* upb_Arena_Fuse after a DoFuse that returned a root: FixupRefs, which has
\* nothing to do when no reference is to be taken back.
EnterFixup(t) ==
  \/ /\ fuse[t].delta = 0
     /\ Finish(t, TRUE)
  \/ /\ fuse[t].delta # 0
     /\ Goto(t, "fx_load")
     /\ UNCHANGED call

\* Mutant: the roots stay in the order in which they were found.
AsFound(r, root, n) == RootsFrame(r.r1, r.n1, root, n)

\* r1 is the root with the lower address.
LowerFirst(r, root, n) ==
  IF r.r1 > root THEN RootsFrame(root, n, r.r1, r.n1) ELSE RootsFrame(r.r1, r.n1, root, n)

\* DoFuse: both roots are known.
AfterFuse2(t, root, n) ==
  LET r == roots[t] IN
  /\ find[t].ret = "fuse2"
  /\ \/ /\ r.r1 = root
        /\ EnterFixup(t)
        /\ UNCHANGED <<fuse, roots>>
     \/ /\ r.r1 # root
        /\ fuse' = [fuse EXCEPT ![t] = FuseFrame(r.r1, root, @.delta)]
        /\ roots' = [roots EXCEPT ![t] = LowerFirst(r, root, n)]
        /\ Goto(t, "cas_r1")
        /\ UNCHANGED call
  /\ UNCHANGED <<find, link, walk>>

AfterIncRef(t, root, n) ==
  /\ find[t].ret = "incref"
  /\ walk' = [walk EXCEPT ![t] = WalkFrame(root, NULL, n, {})]
  /\ Goto(t, "inc_cas")
  /\ UNCHANGED <<call, find, fusing>>

AfterDebugRefCount(t, root, n) ==
  /\ find[t].ret = "debug"
  /\ Finish(t, TRUE)
  /\ walk' = [walk EXCEPT ![t] = WalkFrame(root, NULL, n, {})]
  /\ UNCHANGED <<find, fusing>>

\* upb_Arena_IsFused: ra is walk.other, rb is walk.ai.
AfterIsFusedA(t, root, n) ==
  /\ find[t].ret = "isfused_a"
  /\ walk' = [walk EXCEPT ![t] = WalkFrame(@.ai, root, 0, {})]
  /\ FindRoot(t, walk[t].ai, "isfused_b")
  /\ UNCHANGED <<call, fusing>>

\* Mutant: different roots are taken for an answer, without looking again.
AfterIsFusedBOnce(t, root, n) ==
  /\ find[t].ret = "isfused_b"
  /\ walk' = [walk EXCEPT ![t] = WalkFrame(root, @.other, 0, {})]
  /\ Finish(t, walk[t].other = root)
  /\ UNCHANGED <<find, fusing>>

AfterIsFusedB(t, root, n) ==
  /\ find[t].ret = "isfused_b"
  /\ walk' = [walk EXCEPT ![t] = WalkFrame(root, @.other, 0, {})]
  /\ \/ /\ walk[t].other = root
        /\ Finish(t, TRUE)
        /\ UNCHANGED find
     \/ /\ walk[t].other # root
        /\ FindRoot(t, walk[t].other, "isfused_again")
        /\ UNCHANGED call
  /\ UNCHANGED fusing

AfterIsFusedAgain(t, root, n) ==
  /\ find[t].ret = "isfused_again"
  /\ walk' = [walk EXCEPT ![t] = WalkFrame(@.ai, root, 0, {})]
  /\ \/ /\ walk[t].other = root
        /\ Finish(t, FALSE)
        /\ UNCHANGED find
     \/ /\ walk[t].other # root
        /\ FindRoot(t, walk[t].ai, "isfused_b")
        /\ UNCHANGED call
  /\ UNCHANGED fusing

Resume(t, root, n) ==
  \/ AfterFuse1(t, root, n)
  \/ AfterFuse2(t, root, n)
  \/ AfterIncRef(t, root, n)
  \/ AfterDebugRefCount(t, root, n)
  \/ AfterIsFusedA(t, root, n)
  \/ AfterIsFusedB(t, root, n)
  \/ AfterIsFusedAgain(t, root, n)

\* The fast path: ai is a root.
FindRootLoad(t) ==
  LET ai  == find[t].ai
      poc == parent_or_count[ai] IN
  /\ pc[t] = "fr_load"
  /\ \/ /\ IsTaggedRefcount(poc)
        /\ Resume(t, ai, poc.val)
     \/ /\ IsTaggedPointer(poc)
        /\ Goto(t, "fr_reload")
        /\ UNCHANGED <<call, find, fusing, walk>>
  /\ UNCHANGED <<memory, refs, calls>>

FindRootReload(t) ==
  /\ pc[t] = "fr_reload"
  /\ find' = [find EXCEPT ![t] = FindFrame(@.ai, NULL, parent_or_count[@.ai], @.ret)]
  /\ Goto(t, "fr_next")
  /\ UNCHANGED <<memory, refs, call, fusing, walk, calls>>

FindRootNext(t) ==
  LET nxt == find[t].poc.val
      poc == parent_or_count[nxt] IN
  /\ pc[t] = "fr_next"
  /\ \/ /\ IsTaggedRefcount(poc)
        /\ Resume(t, nxt, poc.val)
     \/ /\ IsTaggedPointer(poc)
        /\ find' = [find EXCEPT ![t] = FindFrame(@.ai, nxt, poc, @.ret)]
        /\ Goto(t, "fr_split")
        /\ UNCHANGED <<call, fusing, walk>>
  /\ UNCHANGED <<memory, refs, calls>>

\* Mutant: path halving, which skips a node and keeps the word of the old one.
FindRootHalve(t) ==
  LET f == find[t] IN
  /\ pc[t] = "fr_split"
  /\ parent_or_count' = [parent_or_count EXCEPT ![f.ai] = f.poc]
  /\ find' = [find EXCEPT ![t] = FindFrame(f.poc.val, NULL, f.poc, f.ret)]
  /\ Goto(t, "fr_next")
  /\ UNCHANGED <<status, initial_block, next, previous_or_tail,
                 refs, call, fusing, walk, calls>>

\* Path splitting: a plain store, whatever ai's parent is by now.
FindRootSplit(t) ==
  LET f == find[t] IN
  /\ pc[t] = "fr_split"
  /\ parent_or_count' = [parent_or_count EXCEPT ![f.ai] = f.poc]
  /\ find' = [find EXCEPT ![t] = FindFrame(f.nxt, NULL, f.poc, f.ret)]
  /\ Goto(t, "fr_next")
  /\ UNCHANGED <<status, initial_block, next, previous_or_tail,
                 refs, call, fusing, walk, calls>>

-----------------------------------------------------------------------------
(* upb_Arena_Fuse.                                                         *)

\* Mutant: an initial block is only refused when both arenas have one.
FuseOneInitial(t, a, b) ==
  /\ StartCall(t, "Fuse")
  /\ CanUse(a) /\ CanUse(b)
  /\ a # b
  /\ ~(initial_block[a] /\ initial_block[b])
  /\ call' = [call EXCEPT ![t] = Call("Fuse", a, b, FALSE)]
  /\ fuse' = [fuse EXCEPT ![t] = FuseFrame(a, b, 0)]
  /\ FindRoot(t, a, "fuse1")
  /\ UNCHANGED <<memory, refs, roots, link, walk>>

Fuse(t, a, b) ==
  /\ StartCall(t, "Fuse")
  /\ CanUse(a) /\ CanUse(b)
  /\ \/ /\ a = b
        /\ Goto(t, "ret")
        /\ call' = [call EXCEPT ![t] = Call("Fuse", a, b, TRUE)]
        /\ UNCHANGED <<find, fuse>>
     \/ /\ a # b
        /\ initial_block[a] \/ initial_block[b]
        /\ Goto(t, "ret")
        /\ call' = [call EXCEPT ![t] = Call("Fuse", a, b, FALSE)]
        /\ UNCHANGED <<find, fuse>>
     \/ /\ a # b
        /\ ~initial_block[a] /\ ~initial_block[b]
        /\ call' = [call EXCEPT ![t] = Call("Fuse", a, b, FALSE)]
        /\ fuse' = [fuse EXCEPT ![t] = FuseFrame(a, b, 0)]
        /\ FindRoot(t, a, "fuse1")
  /\ UNCHANGED <<memory, refs, roots, link, walk>>

\* The loop of upb_Arena_Fuse calls DoFuse again.
RetryFuse(t) == FindRoot(t, fuse[t].ai1, "fuse1")

\* Mutant: r1 does not take r2's references.
FuseCasR1NoLoan(t) ==
  /\ pc[t] = "cas_r1"
  /\ Goto(t, "cas_r2")
  /\ UNCHANGED <<memory, refs, call, find, fusing, walk, calls>>

\* Mutant: a failed compare-and-swap is repeated with the old count.
FuseCasR1Spin(t) ==
  LET r == roots[t] IN
  /\ pc[t] = "cas_r1"
  /\ parent_or_count[r.r1] = TaggedFromRefcount(r.n1)
  /\ parent_or_count' = [parent_or_count EXCEPT
                           ![r.r1] = TaggedFromRefcount(r.n1 + r.n2)]
  /\ Goto(t, "cas_r2")
  /\ UNCHANGED <<status, initial_block, next, previous_or_tail,
                 refs, call, find, fusing, walk, calls>>

\* r1 takes r2's references before r2 is made its child.
FuseCasR1(t) ==
  LET r == roots[t] IN
  /\ pc[t] = "cas_r1"
  /\ \/ /\ parent_or_count[r.r1] = TaggedFromRefcount(r.n1)
        /\ parent_or_count' = [parent_or_count EXCEPT
                                 ![r.r1] = TaggedFromRefcount(r.n1 + r.n2)]
        /\ Goto(t, "cas_r2")
        /\ UNCHANGED find
     \/ /\ parent_or_count[r.r1] # TaggedFromRefcount(r.n1)
        /\ RetryFuse(t)
        /\ UNCHANGED parent_or_count
  /\ UNCHANGED <<status, initial_block, next, previous_or_tail,
                 refs, call, fusing, walk, calls>>

\* Mutant: the references lent by a failed attempt are forgotten.
FuseCasR2NoDelta(t) ==
  LET r == roots[t] IN
  /\ pc[t] = "cas_r2"
  /\ \/ /\ parent_or_count[r.r2] = TaggedFromRefcount(r.n2)
        /\ parent_or_count' = [parent_or_count EXCEPT ![r.r2] = TaggedFromPointer(r.r1)]
        /\ Goto(t, "lf_tail")
        /\ UNCHANGED find
     \/ /\ parent_or_count[r.r2] # TaggedFromRefcount(r.n2)
        /\ RetryFuse(t)
        /\ UNCHANGED parent_or_count
  /\ UNCHANGED <<status, initial_block, next, previous_or_tail,
                 refs, call, fusing, walk, calls>>

\* r2 becomes a child of r1, or the references it lent are to be taken back.
FuseCasR2(t) ==
  LET r == roots[t] IN
  /\ pc[t] = "cas_r2"
  /\ \/ /\ parent_or_count[r.r2] = TaggedFromRefcount(r.n2)
        /\ parent_or_count' = [parent_or_count EXCEPT ![r.r2] = TaggedFromPointer(r.r1)]
        /\ Goto(t, "lf_tail")
        /\ UNCHANGED <<find, fuse>>
     \/ /\ parent_or_count[r.r2] # TaggedFromRefcount(r.n2)
        /\ fuse' = [fuse EXCEPT ![t] = FuseFrame(@.ai1, @.ai2, @.delta + r.n2)]
        /\ RetryFuse(t)
        /\ UNCHANGED parent_or_count
  /\ UNCHANGED <<status, initial_block, next, previous_or_tail,
                 refs, call, roots, link, walk, calls>>

\* _upb_Arena_LinkForward: start at the cached tail if the parent has one,
LinkForwardTail(t) ==
  LET parent == roots[t].r1
      pot    == previous_or_tail[parent] IN
  /\ pc[t] = "lf_tail"
  /\ link' = [link EXCEPT ![t] =
                 LinkFrame(IF IsTaggedTail(pot) THEN pot.val ELSE parent, @.newtail, @.pot)]
  /\ Goto(t, "lf_next")
  /\ UNCHANGED <<memory, refs, call, find, fuse, roots, walk, calls>>

\* walk to the last node,
LinkForwardNext(t) ==
  LET nxt == next[link[t].tail] IN
  /\ pc[t] = "lf_next"
  /\ \/ /\ nxt # NULL
        /\ link' = [link EXCEPT ![t] = LinkFrame(nxt, @.newtail, @.pot)]
        /\ UNCHANGED pc
     \/ /\ nxt = NULL
        /\ Goto(t, "lf_cas")
        /\ UNCHANGED link
  /\ UNCHANGED <<memory, refs, call, find, fuse, roots, walk, calls>>

\* Mutant: a plain store instead of a compare-and-swap.
LinkForwardStore(t) ==
  /\ pc[t] = "lf_cas"
  /\ next' = [next EXCEPT ![link[t].tail] = roots[t].r2]
  /\ Goto(t, "ut_child")
  /\ UNCHANGED <<status, initial_block, parent_or_count, previous_or_tail,
                 refs, call, find, fusing, walk, calls>>

\* Mutant: the result of the compare-and-swap is ignored.
LinkForwardCasOnce(t) ==
  LET tail == link[t].tail IN
  /\ pc[t] = "lf_cas"
  /\ next' = [next EXCEPT ![tail] = IF @ = NULL THEN roots[t].r2 ELSE @]
  /\ Goto(t, "ut_child")
  /\ UNCHANGED <<status, initial_block, parent_or_count, previous_or_tail,
                 refs, call, find, fusing, walk, calls>>

\* and append the child unless another thread appended first.  (A spurious
\* failure of the weak exchange reads NULL again and changes nothing.)
LinkForwardCas(t) ==
  LET tail == link[t].tail IN
  /\ pc[t] = "lf_cas"
  /\ \/ /\ next[tail] = NULL
        /\ next' = [next EXCEPT ![tail] = roots[t].r2]
        /\ Goto(t, "ut_child")
        /\ UNCHANGED link
     \/ /\ next[tail] # NULL
        /\ link' = [link EXCEPT ![t] = LinkFrame(next[tail], @.newtail, @.pot)]
        /\ Goto(t, "lf_next")
        /\ UNCHANGED next
  /\ UNCHANGED <<status, initial_block, parent_or_count, previous_or_tail,
                 refs, call, find, fuse, roots, walk, calls>>

\* _upb_Arena_UpdateParentTail.
UpdateTailLoadChild(t) ==
  /\ pc[t] = "ut_child"
  /\ link' = [link EXCEPT ![t] =
                 LinkFrame(@.tail, previous_or_tail[roots[t].r2].val, @.pot)]
  /\ Goto(t, "ut_parent")
  /\ UNCHANGED <<memory, refs, call, find, fuse, roots, walk, calls>>

UpdateTailLoadParent(t) ==
  LET pot == previous_or_tail[roots[t].r1] IN
  /\ pc[t] = "ut_parent"
  /\ \/ /\ IsTaggedTail(pot)
        /\ link' = [link EXCEPT ![t] = LinkFrame(@.tail, @.newtail, pot)]
        /\ Goto(t, "ut_cas")
     \/ /\ IsTaggedPrevious(pot)
        /\ Goto(t, "lb_store")
        /\ UNCHANGED link
  /\ UNCHANGED <<memory, refs, call, find, fuse, roots, walk, calls>>

\* Mutant: a plain store instead of a compare-and-swap.
UpdateTailStore(t) ==
  /\ pc[t] = "ut_cas"
  /\ previous_or_tail' = [previous_or_tail EXCEPT
                            ![roots[t].r1] = TaggedFromTail(link[t].newtail)]
  /\ Goto(t, "lb_store")
  /\ UNCHANGED <<status, initial_block, parent_or_count, next,
                 refs, call, find, fusing, walk, calls>>

UpdateTailCas(t) ==
  LET parent == roots[t].r1 IN
  /\ pc[t] = "ut_cas"
  /\ previous_or_tail' =
       IF previous_or_tail[parent] = link[t].pot
       THEN [previous_or_tail EXCEPT ![parent] = TaggedFromTail(link[t].newtail)]
       ELSE previous_or_tail
  /\ Goto(t, "lb_store")
  /\ UNCHANGED <<status, initial_block, parent_or_count, next,
                 refs, call, find, fusing, walk, calls>>

\* Mutant: the parent, not the old tail, becomes the predecessor.
LinkBackwardToParent(t) ==
  /\ pc[t] = "lb_store"
  /\ previous_or_tail' = [previous_or_tail EXCEPT
                            ![roots[t].r2] = TaggedFromPrevious(roots[t].r1)]
  /\ EnterFixup(t)
  /\ UNCHANGED <<status, initial_block, parent_or_count, next,
                 refs, find, fusing, walk, calls>>

\* _upb_Arena_LinkBackward; the list is complete, FixupRefs comes next.
LinkBackward(t) ==
  /\ pc[t] = "lb_store"
  /\ previous_or_tail' = [previous_or_tail EXCEPT
                            ![roots[t].r2] = TaggedFromPrevious(link[t].tail)]
  /\ EnterFixup(t)
  /\ UNCHANGED <<status, initial_block, parent_or_count, next,
                 refs, find, fusing, walk, calls>>

\* _upb_Arena_FixupRefs on the new root; the count read is kept in n1.
FixupLoad(t) ==
  LET poc == parent_or_count[roots[t].r1] IN
  /\ pc[t] = "fx_load"
  /\ \/ /\ IsTaggedPointer(poc)
        /\ RetryFuse(t)
        /\ UNCHANGED roots
     \/ /\ IsTaggedRefcount(poc)
        /\ roots' = [roots EXCEPT ![t] = RootsFrame(@.r1, poc.val, @.r2, @.n2)]
        /\ Goto(t, "fx_cas")
        /\ UNCHANGED find
  /\ UNCHANGED <<memory, refs, call, fuse, link, walk, calls>>

FixupCas(t) ==
  LET r == roots[t] IN
  /\ pc[t] = "fx_cas"
  /\ \/ /\ parent_or_count[r.r1] = TaggedFromRefcount(r.n1)
        /\ parent_or_count' = [parent_or_count EXCEPT
                                 ![r.r1] = TaggedFromRefcount(r.n1 - fuse[t].delta)]
        /\ Finish(t, TRUE)
        /\ UNCHANGED find
     \/ /\ parent_or_count[r.r1] # TaggedFromRefcount(r.n1)
        /\ RetryFuse(t)
        /\ UNCHANGED <<parent_or_count, call>>
  /\ UNCHANGED <<status, initial_block, next, previous_or_tail,
                 refs, fusing, walk, calls>>

-----------------------------------------------------------------------------
(* upb_Arena_IncRefFor, upb_Arena_DebugRefCount, upb_Arena_IsFused.        *)

IncRefFor(t, a) ==
  /\ StartCall(t, "IncRefFor")
  /\ CanUse(a) /\ refs[a] < MaxRefs
  /\ call' = [call EXCEPT ![t] = Call("IncRefFor", a, a, FALSE)]
  /\ \/ /\ initial_block[a]
        /\ Goto(t, "ret")
        /\ UNCHANGED find
     \/ /\ ~initial_block[a]
        /\ FindRoot(t, a, "incref")
  /\ UNCHANGED <<memory, refs, fusing, walk>>

IncRefCas(t) ==
  LET w == walk[t] IN
  /\ pc[t] = "inc_cas"
  /\ parent_or_count[w.ai] = TaggedFromRefcount(w.n)
  /\ parent_or_count' = [parent_or_count EXCEPT ![w.ai] = TaggedFromRefcount(w.n + 1)]
  /\ refs' = [refs EXCEPT ![call[t].a] = @ + 1]
  /\ Finish(t, TRUE)
  /\ UNCHANGED <<status, initial_block, next, previous_or_tail,
                 find, fusing, walk, calls>>

\* compare_exchange_weak failed: the word changed, or spuriously.
IncRefCasFails(t) ==
  /\ pc[t] = "inc_cas"
  /\ FindRoot(t, walk[t].ai, "incref")
  /\ UNCHANGED <<memory, refs, call, fusing, walk, calls>>

DebugRefCount(t, a) ==
  /\ StartCall(t, "DebugRefCount")
  /\ CanUse(a)
  /\ call' = [call EXCEPT ![t] = Call("DebugRefCount", a, a, FALSE)]
  /\ FindRoot(t, a, "debug")
  /\ UNCHANGED <<memory, refs, fusing, walk>>

IsFused(t, a, b) ==
  /\ StartCall(t, "IsFused")
  /\ CanUse(a) /\ CanUse(b)
  /\ \/ /\ a = b
        /\ Goto(t, "ret")
        /\ call' = [call EXCEPT ![t] = Call("IsFused", a, b, TRUE)]
        /\ UNCHANGED <<find, walk>>
     \/ /\ a # b
        /\ call' = [call EXCEPT ![t] = Call("IsFused", a, b, FALSE)]
        /\ walk' = [walk EXCEPT ![t] = WalkFrame(b, NULL, 0, {})]
        /\ FindRoot(t, a, "isfused_a")
  /\ UNCHANGED <<memory, refs, fusing>>

-----------------------------------------------------------------------------
(* upb_Arena_SpaceAllocated: first backwards, then forwards from a.  The   *)
(* sum stands for the set of the arenas added; n is local_fused_count.     *)

SpaceAllocated(t, a) ==
  /\ StartCall(t, "SpaceAllocated")
  /\ CanUse(a)
  /\ call' = [call EXCEPT ![t] = Call("SpaceAllocated", a, a, FALSE)]
  /\ walk' = [walk EXCEPT ![t] = WalkFrame(a, NULL, 0, {})]
  /\ Goto(t, "sa_back")
  /\ UNCHANGED <<memory, refs, find, fusing>>

\* Mutant: the way forward starts where the way back ended.
SpaceAllocatedBackStays(t) ==
  LET pot == previous_or_tail[walk[t].ai] IN
  /\ pc[t] = "sa_back"
  /\ \/ /\ IsTaggedPrevious(pot)
        /\ walk' = [walk EXCEPT ![t] = WalkFrame(pot.val, NULL, @.n + 1, @.seen \cup {pot.val})]
        /\ UNCHANGED pc
     \/ /\ IsTaggedTail(pot)
        /\ Goto(t, "sa_forward")
        /\ UNCHANGED walk
  /\ UNCHANGED <<memory, refs, call, find, fusing, calls>>

SpaceAllocatedBack(t) ==
  LET pot == previous_or_tail[walk[t].ai] IN
  /\ pc[t] = "sa_back"
  /\ \/ /\ IsTaggedPrevious(pot)
        /\ walk' = [walk EXCEPT ![t] = WalkFrame(pot.val, NULL, @.n + 1, @.seen \cup {pot.val})]
        /\ UNCHANGED pc
     \/ /\ IsTaggedTail(pot)
        /\ walk' = [walk EXCEPT ![t] = WalkFrame(call[t].a, NULL, @.n, @.seen)]
        /\ Goto(t, "sa_forward")
  /\ UNCHANGED <<memory, refs, call, find, fusing, calls>>

SpaceAllocatedForward(t) ==
  LET ai == walk[t].ai IN
  /\ pc[t] = "sa_forward"
  /\ walk' = [walk EXCEPT ![t] = WalkFrame(next[ai], NULL, @.n + 1, @.seen \cup {ai})]
  /\ \/ /\ next[ai] = NULL
        /\ Finish(t, TRUE)
     \/ /\ next[ai] # NULL
        /\ UNCHANGED <<pc, call>>
  /\ UNCHANGED <<memory, refs, find, fusing, calls>>

-----------------------------------------------------------------------------
(* upb_Arena_Free (and upb_Arena_DecRefFor, which is the same call).       *)

Free(t, a) ==
  /\ StartCall(t, "Free")
  /\ CanRelease(a)
  /\ refs' = [refs EXCEPT ![a] = @ - 1]
  /\ call' = [call EXCEPT ![t] = Call("Free", a, a, FALSE)]
  /\ walk' = [walk EXCEPT ![t] = WalkFrame(a, NULL, 0, {})]
  /\ Goto(t, "free_load")
  /\ UNCHANGED <<memory, find, fusing>>

\* Mutant: nobody notices the last reference.
FreeDispatchNeverLast(t, poc) ==
  \/ /\ IsTaggedPointer(poc)
     /\ walk' = [walk EXCEPT ![t] = WalkFrame(poc.val, NULL, 0, {})]
     /\ Goto(t, "free_load")
  \/ /\ IsTaggedRefcount(poc)
     /\ walk' = [walk EXCEPT ![t] = WalkFrame(@.ai, NULL, poc.val, {})]
     /\ Goto(t, "free_cas")

\* What Free does with the word it has read from, or failed to replace in, ai.
FreeDispatch(t, poc) ==
  \/ /\ IsTaggedPointer(poc)
     /\ walk' = [walk EXCEPT ![t] = WalkFrame(poc.val, NULL, 0, {})]
     /\ Goto(t, "free_load")
  \/ /\ poc = TaggedFromRefcount(1)
     /\ walk' = [walk EXCEPT ![t] = WalkFrame(@.ai, NULL, 1, {})]
     /\ Goto(t, "df_next")
  \/ /\ IsTaggedRefcount(poc) /\ poc.val # 1
     /\ walk' = [walk EXCEPT ![t] = WalkFrame(@.ai, NULL, poc.val, {})]
     /\ Goto(t, "free_cas")

FreeLoad(t) ==
  /\ pc[t] = "free_load"
  /\ FreeDispatch(t, parent_or_count[walk[t].ai])
  /\ UNCHANGED <<memory, refs, call, find, fusing, calls>>

\* A spurious failure of the weak exchange reads the same word again, and
\* changes nothing.
FreeCas(t) ==
  LET w == walk[t] IN
  /\ pc[t] = "free_cas"
  /\ \/ /\ parent_or_count[w.ai] = TaggedFromRefcount(w.n)
        /\ parent_or_count' = [parent_or_count EXCEPT ![w.ai] = TaggedFromRefcount(w.n - 1)]
        /\ Finish(t, TRUE)
        /\ UNCHANGED walk
     \/ /\ parent_or_count[w.ai] # TaggedFromRefcount(w.n)
        /\ FreeDispatch(t, parent_or_count[w.ai])
        /\ UNCHANGED <<parent_or_count, call>>
  /\ UNCHANGED <<status, initial_block, next, previous_or_tail,
                 refs, find, fusing, calls>>

\* Mutant: the blocks go back before the successor is read.
DoFreeNextLate(t) ==
  /\ pc[t] = "df_next"
  /\ status' = [status EXCEPT ![walk[t].ai] = "freed"]
  /\ walk' = [walk EXCEPT ![t] = WalkFrame(@.ai, next[@.ai], @.n, {})]
  /\ Goto(t, "df_blocks")
  /\ UNCHANGED <<initial_block, parent_or_count, next, previous_or_tail,
                 refs, call, find, fusing, calls>>

\* _upb_Arena_DoFree: the successor is read before the arena's own blocks,
\* one of which holds the arena itself, are given back.
DoFreeNext(t) ==
  /\ pc[t] = "df_next"
  /\ walk' = [walk EXCEPT ![t] = WalkFrame(@.ai, next[@.ai], @.n, {})]
  /\ Goto(t, "df_blocks")
  /\ UNCHANGED <<memory, refs, call, find, fusing, calls>>

\* Mutant: only the root's own blocks go back.
DoFreeBlocksRootOnly(t) ==
  /\ pc[t] = "df_blocks"
  /\ status' = [status EXCEPT ![walk[t].ai] = "freed"]
  /\ Finish(t, TRUE)
  /\ UNCHANGED <<initial_block, parent_or_count, next, previous_or_tail,
                 refs, find, fusing, walk, calls>>

DoFreeBlocks(t) ==
  LET w == walk[t] IN
  /\ pc[t] = "df_blocks"
  /\ status' = [status EXCEPT ![w.ai] = "freed"]
  /\ walk' = [walk EXCEPT ![t] = WalkFrame(w.other, NULL, w.n, {})]
  /\ \/ /\ w.other = NULL
        /\ Finish(t, TRUE)
     \/ /\ w.other # NULL
        /\ Goto(t, "df_next")
        /\ UNCHANGED call
  /\ UNCHANGED <<initial_block, parent_or_count, next, previous_or_tail,
                 refs, find, fusing, calls>>

-----------------------------------------------------------------------------
InitLists ==
  /\ initial_block = [a \in Arena |-> FALSE]
  /\ next = [a \in Arena |-> NULL]
  /\ previous_or_tail = [a \in Arena |-> TaggedFromTail(a)]

InitThreads ==
  /\ pc = [t \in Thread |-> "idle"]
  /\ call = [t \in Thread |-> NoCall]
  /\ find = [t \in Thread |-> NoFind]
  /\ fuse = [t \in Thread |-> NoFuse]
  /\ roots = [t \in Thread |-> NoRoots]
  /\ link = [t \in Thread |-> NoLink]
  /\ walk = [t \in Thread |-> NoWalk]
  /\ calls = [t \in Thread |-> 0]

\* No arena has been created and no thread is inside the API.
Init ==
  /\ status = [a \in Arena |-> "unborn"]
  /\ parent_or_count = [a \in Arena |-> TaggedFromRefcount(0)]
  /\ refs = [a \in Arena |-> 0]
  /\ InitLists /\ InitThreads

\* A caller enters the API.
Caller(t) ==
  \/ \E a, b \in Arena : Fuse(t, a, b) \/ IsFused(t, a, b)
  \/ \E a \in Arena : \/ Free(t, a)
                      \/ IncRefFor(t, a)
                      \/ DebugRefCount(t, a)
                      \/ SpaceAllocated(t, a)

\* A thread inside the API takes its next step.
Step(t) ==
  \/ FindRootLoad(t) \/ FindRootReload(t) \/ FindRootNext(t) \/ FindRootSplit(t)
  \/ FuseCasR1(t) \/ FuseCasR2(t)
  \/ LinkForwardTail(t) \/ LinkForwardNext(t) \/ LinkForwardCas(t)
  \/ UpdateTailLoadChild(t) \/ UpdateTailLoadParent(t) \/ UpdateTailCas(t)
  \/ LinkBackward(t)
  \/ FixupLoad(t) \/ FixupCas(t)
  \/ IncRefCas(t) \/ IncRefCasFails(t)
  \/ SpaceAllocatedBack(t) \/ SpaceAllocatedForward(t)
  \/ FreeLoad(t) \/ FreeCas(t) \/ DoFreeNext(t) \/ DoFreeBlocks(t)
  \/ Return(t)

Next ==
  \/ \E a \in Arena, has_initial \in BOOLEAN : Arena_Init(a, has_initial)
  \/ \E t \in Thread : Caller(t) \/ Step(t)

\* A thread inside the API keeps running, and compare_exchange_weak does not
\* fail spuriously for ever; callers need not call.
Fairness == \A t \in Thread : WF_vars(Step(t)) /\ SF_vars(IncRefCas(t))

Spec     == Init /\ [][Next]_vars
FairSpec == Spec /\ Fairness

-----------------------------------------------------------------------------
(* Types.                                                                  *)

Born      == {a \in Arena : status[a] # "unborn"}
Pointer   == Arena \cup {NULL}
CountWord == [tag : {"count"}, val : Int]
Word      == CountWord \cup [tag : {"ptr"}, val : Arena]
ListWord  == [tag : {"tail", "prev"}, val : Pointer]

Finding == {"fr_load", "fr_reload", "fr_next", "fr_split"}
Linking == {"lf_tail", "lf_next", "lf_cas", "ut_child", "ut_parent", "ut_cas", "lb_store"}
Linked  == {"ut_child", "ut_parent", "ut_cas", "lb_store"}
Walking == {"inc_cas", "sa_back", "sa_forward", "free_load", "free_cas", "df_next", "df_blocks"}
Labels  == {"idle", "ret", "cas_r1", "cas_r2", "fx_load", "fx_cas"}
             \cup Finding \cup Linking \cup Walking

Ops  == {"none", "Fuse", "Free", "IncRefFor", "DebugRefCount", "IsFused", "SpaceAllocated"}
Rets == {"none", "fuse1", "fuse2", "incref", "debug",
         "isfused_a", "isfused_b", "isfused_again"}

(* Every word, frame and label of the program has its type.                *)
TypeOK ==
  /\ status \in [Arena -> {"unborn", "live", "freed"}]
  /\ initial_block \in [Arena -> BOOLEAN]
  /\ parent_or_count \in [Arena -> Word]
  /\ next \in [Arena -> Pointer]
  /\ previous_or_tail \in [Arena -> ListWord]
  /\ refs \in [Arena -> Int]
  /\ pc \in [Thread -> Labels]
  /\ call \in [Thread -> [op : Ops, a : Pointer, b : Pointer, ans : BOOLEAN]]
  /\ find \in [Thread -> [ai : Pointer, nxt : Pointer, poc : Word, ret : Rets]]
  /\ fuse \in [Thread -> [ai1 : Pointer, ai2 : Pointer, delta : Int]]
  /\ roots \in [Thread -> [r1 : Pointer, n1 : Int, r2 : Pointer, n2 : Int]]
  /\ link \in [Thread -> [tail : Pointer, newtail : Pointer, pot : ListWord]]
  /\ walk \in [Thread -> [ai : Pointer, other : Pointer, n : Int, seen : SUBSET Arena]]
  /\ calls \in [Thread -> Nat]

-----------------------------------------------------------------------------
(* Safety of the shared structures.                                        *)

(* A parent has a lower address than its children, so that however the     *)
(* fuses and the path splits of FindRoot race, parents form no cycle and   *)
(* every walk towards a root ends.                                         *)
ParentBelow ==
  \A a \in Arena : IsTaggedPointer(parent_or_count[a]) => parent_or_count[a].val < a

(* The assertions of FindRoot, that an arena is neither its own parent nor *)
(* its own grandparent, and of TailFromTagged in UpdateParentTail, that    *)
(* the child still has a tail although it is no longer a root.             *)
AssertsHold ==
  \A t \in Thread :
    /\ pc[t] = "fr_next"  => IsTaggedPointer(find[t].poc) /\ find[t].ai # find[t].poc.val
    /\ pc[t] = "fr_split" => find[t].ai # find[t].poc.val
    /\ pc[t] = "ut_child" => IsTaggedTail(previous_or_tail[roots[t].r2])

(* The claims of LinkBackward: one thread at most links a given child, and *)
(* it has made the child the successor of the node it will point back to.  *)
LinkExclusive ==
  \A t \in Thread :
    /\ pc[t] \in Linked => next[link[t].tail] = roots[t].r2
    /\ pc[t] \in Linking => \A u \in Thread \ {t} :
         pc[u] \in Linking => roots[u].r2 # roots[t].r2

(* The group's list is a list: an arena follows one arena at most, a root  *)
(* follows none, and back pointers agree with forward pointers.            *)
ListsAgree ==
  /\ \A a, b \in Arena : (next[a] = next[b] /\ next[a] # NULL) => a = b
  /\ \A a, b \in Arena : next[a] = b => IsTaggedPointer(parent_or_count[b])
  /\ \A a \in Arena : IsTaggedPrevious(previous_or_tail[a]) =>
        /\ previous_or_tail[a].val \in Arena
        /\ next[previous_or_tail[a].val] = a

(* "If this Arena isn't a root, it can't ever become one" (FindRoot); a    *)
(* successor, and a predecessor once LinkBackward has stored it, is final, *)
(* in spite of the tails that racing fuses are still writing.              *)
OneWay ==
  [][\A a \in Arena :
       /\ IsTaggedPointer(parent_or_count[a]) => IsTaggedPointer(parent_or_count'[a])
       /\ next[a] # NULL => next'[a] = next[a]
       /\ IsTaggedPrevious(previous_or_tail[a]) =>
            previous_or_tail'[a] = previous_or_tail[a]]_vars

-----------------------------------------------------------------------------
(* The strengthening that makes these inductive: what the words and, at    *)
(* each label, the frames refer to.                                        *)

MemoryInv ==
  \A a \in Arena :
    /\ IsTaggedPointer(parent_or_count[a]) => parent_or_count[a].val \in Born
    /\ next[a] \in Born \cup {NULL}
    /\ a \in Born => previous_or_tail[a].val \in Born
    /\ a \notin Born => /\ IsTaggedRefcount(parent_or_count[a])
                        /\ next[a] = NULL
    /\ IsTaggedRefcount(parent_or_count[a]) => IsTaggedTail(previous_or_tail[a])

FindInv(t) ==
  LET f == find[t] IN
  pc[t] \in Finding =>
    /\ f.ai \in Born
    /\ f.ret = "incref" => call[t].a \in Born
    /\ f.ret \in {"fuse1", "fuse2"} => {fuse[t].ai1, fuse[t].ai2} \subseteq Born
    /\ f.ret = "fuse2" => roots[t].r1 \in Born
    /\ f.ret \in {"isfused_a", "isfused_b", "isfused_again"} => walk[t].ai \in Born
    /\ f.ret \in {"isfused_b", "isfused_again"} => walk[t].other \in Born
    /\ pc[t] # "fr_load" => IsTaggedPointer(parent_or_count[f.ai])
    /\ pc[t] = "fr_next" => /\ IsTaggedPointer(f.poc)
                            /\ f.poc.val \in Born
                            /\ f.poc.val < f.ai
    /\ pc[t] = "fr_split" => /\ IsTaggedPointer(f.poc)
                             /\ {f.nxt, f.poc.val} \subseteq Born
                             /\ f.poc.val < f.nxt /\ f.nxt < f.ai
                             /\ IsTaggedPointer(parent_or_count[f.nxt])

FuseInv(t) ==
  LET r == roots[t] IN
  /\ pc[t] \in {"cas_r1", "cas_r2", "fx_load", "fx_cas"} \cup Linking =>
       {fuse[t].ai1, fuse[t].ai2, r.r1} \subseteq Born
  /\ pc[t] \in {"cas_r1", "cas_r2"} \cup Linking => r.r2 \in Born /\ r.r1 < r.r2
  /\ pc[t] \in Linking => /\ IsTaggedPointer(parent_or_count[r.r2])
                          /\ IsTaggedTail(previous_or_tail[r.r2])
  /\ pc[t] \in Linking \ {"lf_tail"} => link[t].tail \in Born
  /\ pc[t] \in Linking \ Linked => \A a \in Arena : next[a] # r.r2
  /\ pc[t] \in {"ut_parent", "ut_cas"} => link[t].newtail \in Born
  /\ pc[t] = "ut_cas" => IsTaggedTail(link[t].pot)

WalkInv(t) ==
  /\ pc[t] \in Walking => walk[t].ai \in Born
  /\ pc[t] = "df_blocks" => walk[t].other \in Born \cup {NULL}
  /\ pc[t] \in {"inc_cas", "sa_back"} => call[t].a \in Born

(* The inductive invariant of the proofs.                                  *)
IndInv ==
  /\ TypeOK /\ ParentBelow /\ LinkExclusive /\ ListsAgree /\ MemoryInv
  /\ \A t \in Thread : FindInv(t) /\ FuseInv(t) /\ WalkInv(t)

=============================================================================

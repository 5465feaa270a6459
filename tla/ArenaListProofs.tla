-------------------------- MODULE ArenaListProofs --------------------------
(***************************************************************************)
(* Proofs about the lists of the groups: they have no cycles, they miss no *)
(* arena but those a Fuse is still linking, and so _upb_Arena_DoFree gives *)
(* everything back and upb_Arena_SpaceAllocated counts everything once.    *)
(***************************************************************************)
EXTENDS ArenaRefProofs

-----------------------------------------------------------------------------
(* The inductive invariant.                                                *)

\* Every set of arenas has one that follows no other of the set.
NoCycle == \A S \in SUBSET Arena : S # {} => \E b \in S : \A a \in S : next[a] # b

\* h maps an arena to the first of its list, which has the lowest address;
\* a tail that is cached, or that a thread is about to use, is in the list.
LinkHead(h, t) ==
  /\ pc[t] \in Linking \ {"lf_tail"} => h[link[t].tail] = h[roots[t].r1]
  /\ pc[t] \in {"ut_parent", "ut_cas"} => h[link[t].newtail] = h[roots[t].r1]

Heads(h) ==
  /\ h \in [Arena -> Arena]
  /\ \A a \in Arena :
       /\ h[a] <= a
       /\ next[a] # NULL => h[next[a]] = h[a]
       /\ (\A p \in Arena : next[p] # a) => h[a] = a
       /\ (a \in Born /\ IsTaggedTail(previous_or_tail[a])) => h[previous_or_tail[a].val] = h[a]
  /\ \A t \in Thread : LinkHead(h, t)

\* Every arena but a root is in the list, or a thread is about to append it,
\* and points back, or a thread is about to make it.
Complete ==
  \A a \in Arena : RootOf[a] # a =>
    /\ \/ \E p \in Arena : next[p] = a
       \/ \E t \in Thread : pc[t] \in Linking \ Linked /\ roots[t].r2 = a
    /\ \/ IsTaggedPrevious(previous_or_tail[a])
       \/ \E t \in Thread : pc[t] \in Linking /\ roots[t].r2 = a

\* DoFree is at the successor of what it has given back, if there is one.
GivenInv ==
  \A b \in Arena : (status[b] = "freed" /\ next[b] # NULL) =>
    \/ status[next[b]] = "freed"
    \/ \E t \in Thread : Reclaims(t) /\ walk[t].ai = next[b]

\* It is not over before the whole group is given back.
AtWork ==
  \A a \in Arena : (status[a] = "live" /\ status[RootOf[a]] = "freed") =>
    \E t \in Thread : Reclaims(t) /\ RootOf[call[t].a] = RootOf[a]

ChainInv == NoCycle /\ (\E h : Heads(h)) /\ Complete /\ GivenInv /\ AtWork

-----------------------------------------------------------------------------
(* The steps that change lists.                                            *)

(* The labels of _upb_Arena_DoFuseArenaLists.                              *)
LEMMA AtLinking ==
  ASSUME NEW t \in Thread, Caller(t) \/ Step(t), pc[t] \in Linking
  PROVE  \/ LinkForwardTail(t) \/ LinkForwardNext(t) \/ LinkForwardCas(t)
         \/ UpdateTailLoadChild(t) \/ UpdateTailLoadParent(t) \/ UpdateTailCas(t)
         \/ LinkBackward(t)
<1>1. ~Caller(t)
  BY DEF Caller, Fuse, IsFused, Free, IncRefFor, DebugRefCount, SpaceAllocated, StartCall, Linking
<1>2. ~(FindRootLoad(t) \/ FindRootReload(t) \/ FindRootNext(t) \/ FindRootSplit(t))
  BY DEF FindRootLoad, FindRootReload, FindRootNext, FindRootSplit, Linking
<1>3. ~(FuseCasR1(t) \/ FuseCasR2(t) \/ FixupLoad(t) \/ FixupCas(t) \/ IncRefCas(t) \/ IncRefCasFails(t))
  BY DEF FuseCasR1, FuseCasR2, FixupLoad, FixupCas, IncRefCas, IncRefCasFails, Linking
<1>4. ~(\/ SpaceAllocatedBack(t) \/ SpaceAllocatedForward(t)
        \/ FreeLoad(t) \/ FreeCas(t) \/ DoFreeNext(t) \/ DoFreeBlocks(t) \/ Return(t))
  BY DEF SpaceAllocatedBack, SpaceAllocatedForward, FreeLoad, FreeCas, DoFreeNext, DoFreeBlocks,
     Return, Linking
<1> QED BY <1>1, <1>2, <1>3, <1>4 DEF Step

(* Any other step leaves the lists alone, and leads to the first of the    *)
(* labels at most.                                                         *)
LEMMA OffLinking ==
  ASSUME TypeOK, NEW t \in Thread, Caller(t) \/ Step(t), pc[t] \notin Linking
  PROVE  UNCHANGED <<next, previous_or_tail>> /\ pc'[t] \notin Linking \ {"lf_tail"}
<1>0. ~(\/ LinkForwardTail(t) \/ LinkForwardNext(t) \/ LinkForwardCas(t)
        \/ UpdateTailLoadChild(t) \/ UpdateTailLoadParent(t) \/ UpdateTailCas(t)
        \/ LinkBackward(t))
  BY DEF LinkForwardTail, LinkForwardNext, LinkForwardCas, UpdateTailLoadChild,
     UpdateTailLoadParent, UpdateTailCas, LinkBackward, Linking
<1>r. ASSUME NEW root, NEW n, Resume(t, root, n) PROVE pc'[t] \notin Linking \ {"lf_tail"}
  <2>1. ASSUME NEW a, NEW ret, FindRoot(t, a, ret) PROVE pc'[t] \notin Linking \ {"lf_tail"}
    BY <2>1, FindRootFacts DEF Linking
  <2>2. ASSUME NEW ans, Finish(t, ans) PROVE pc'[t] \notin Linking \ {"lf_tail"}
    BY <2>2, FinishFacts DEF Linking
  <2>3. EnterFixup(t) => pc'[t] \notin Linking \ {"lf_tail"}
    BY EnterFixupFacts DEF Linking
  <2>4. ASSUME Goto(t, "cas_r1") \/ Goto(t, "inc_cas") PROVE pc'[t] \notin Linking \ {"lf_tail"}
    BY <2>4 DEF Goto, TypeOK, Linking
  <2> QED BY <1>r, <2>1, <2>2, <2>3, <2>4 DEF Resume, AfterFuse1, AfterFuse2, AfterIncRef,
             AfterDebugRefCount, AfterIsFusedA, AfterIsFusedB, AfterIsFusedAgain
<1>1. CASE Caller(t)
  BY <1>1 DEF Caller, Fuse, IsFused, Free, IncRefFor, DebugRefCount, SpaceAllocated, memory,
     Goto, FindRoot, TypeOK, Linking
<1>2. CASE FindRootLoad(t)
  <2>1. UNCHANGED <<next, previous_or_tail>>
    BY <1>2 DEF FindRootLoad, memory
  <2>2. CASE Goto(t, "fr_reload")
    BY <2>1, <2>2 DEF Goto, TypeOK, Linking
  <2>3. CASE Resume(t, find[t].ai, parent_or_count[find[t].ai].val)
    BY <1>r, <2>1, <2>3
  <2> QED BY <1>2, <2>2, <2>3 DEF FindRootLoad
<1>3. CASE FindRootNext(t)
  <2>1. UNCHANGED <<next, previous_or_tail>>
    BY <1>3 DEF FindRootNext, memory
  <2>2. CASE Goto(t, "fr_split")
    BY <2>1, <2>2 DEF Goto, TypeOK, Linking
  <2>3. CASE Resume(t, find[t].poc.val, parent_or_count[find[t].poc.val].val)
    BY <1>r, <2>1, <2>3
  <2> QED BY <1>3, <2>2, <2>3 DEF FindRootNext
<1>4. CASE FindRootReload(t) \/ FindRootSplit(t)
  BY <1>4 DEF FindRootReload, FindRootSplit, memory, Goto, TypeOK, Linking
<1>5. CASE FuseCasR1(t) \/ FuseCasR2(t) \/ FixupLoad(t)
  BY <1>5 DEF FuseCasR1, FuseCasR2, FixupLoad, RetryFuse, FindRoot, memory, Goto, TypeOK, Linking
<1>6. CASE FixupCas(t) \/ IncRefCas(t) \/ IncRefCasFails(t) \/ Return(t)
  BY <1>6 DEF FixupCas, IncRefCas, IncRefCasFails, Return, RetryFuse, FindRoot, Finish, memory,
     Goto, TypeOK, Linking
<1>7. CASE SpaceAllocatedBack(t) \/ SpaceAllocatedForward(t)
  BY <1>7 DEF SpaceAllocatedBack, SpaceAllocatedForward, Finish, memory, Goto, TypeOK, Linking
<1>8. CASE FreeLoad(t) \/ FreeCas(t)
  BY <1>8 DEF FreeLoad, FreeCas, FreeDispatch, Finish, memory, Goto, TypeOK, Linking
<1>9. CASE DoFreeNext(t) \/ DoFreeBlocks(t)
  BY <1>9 DEF DoFreeNext, DoFreeBlocks, Finish, memory, Goto, TypeOK, Linking
<1> QED BY <1>0, <1>1, <1>2, <1>3, <1>4, <1>5, <1>6, <1>7, <1>8, <1>9 DEF Step

-----------------------------------------------------------------------------
(* Heads.                                                                  *)

(* A step that changes no list and keeps the claims of its thread.         *)
LEMMA HeadsKept ==
  ASSUME NEW t \in Thread, OthersKeep(t), NEW h, Heads(h), Born' = Born,
         UNCHANGED <<next, previous_or_tail>>, LinkHead(h, t)'
  PROVE  Heads(h)'
<1>1. \A u \in Thread : LinkHead(h, u)'
  BY DEF OthersKeep, Heads, LinkHead
<1> QED BY <1>1 DEF Heads

\* Thread t has appended the list of r2 to the list of r1.
Append(t) ==
  /\ pc[t] = "lf_cas" /\ pc'[t] = "ut_child"
  /\ next[link[t].tail] = NULL
  /\ next' = [next EXCEPT ![link[t].tail] = roots[t].r2]
  /\ UNCHANGED <<previous_or_tail, roots, link>>

(* The arenas of the appended list get the head of the other one: r2 is    *)
(* first in its list, because nothing precedes it, and r1's head is lower. *)
LEMMA AppendHeads ==
  ASSUME IndInv, NEW t \in Thread, OthersKeep(t), Append(t), Born' = Born, NEW h, Heads(h)
  PROVE  /\ link[t].tail \in Arena /\ roots[t].r2 \in Arena
         /\ \A p \in Arena : next[p] # roots[t].r2
         /\ h[roots[t].r2] = roots[t].r2 /\ h[link[t].tail] # roots[t].r2
         /\ \E g : Heads(g)'
<1> DEFINE x == link[t].tail
           y == roots[t].r2
           r == roots[t].r1
<1>g. PICK g : g = [a \in Arena |-> IF h[a] = y THEN h[r] ELSE h[a]]
  OBVIOUS
<1>t. TypeOK /\ MemoryInv /\ FuseInv(t) /\ Born \subseteq Arena
  BY Pointers DEF IndInv
<1>1. pc[t] \in Linking /\ pc[t] \notin Linked /\ pc[t] # "lf_tail"
  BY DEF Append, Linking, Linked
<1>2. /\ x \in Arena /\ y \in Arena /\ r \in Arena /\ r < y
      /\ \A p \in Arena : next[p] # y
  BY <1>1, <1>t DEF FuseInv
<1>3. h[y] = y /\ h[x] = h[r] /\ h[r] <= r /\ h \in [Arena -> Arena]
  BY <1>1, <1>2 DEF Heads, LinkHead
<1>i. \A a \in Arena : a \in Int
  BY ArenaAssumption
<1>4. h[r] # y /\ h[r] \in Arena /\ h[r] < y
  BY <1>2, <1>3, <1>i
<1>5. \A a \in Arena : g[a] = IF h[a] = y THEN h[r] ELSE h[a]
  BY <1>g
<1>6. \A a, b \in Arena : h[a] = h[b] => g[a] = g[b]
  BY <1>5
<1>7. g \in [Arena -> Arena]
  BY <1>g, <1>3, <1>4
<1>8. \A a \in Arena : next'[a] = IF a = x THEN y ELSE next[a]
  BY <1>t, <1>2 DEF Append, TypeOK
<1>9. ASSUME NEW a \in Arena
      PROVE  /\ g[a] <= a
             /\ next'[a] # NULL => g[next'[a]] = g[a]
             /\ (\A p \in Arena : next'[p] # a) => g[a] = a
             /\ (a \in Born' /\ IsTaggedTail(previous_or_tail'[a])) =>
                  g[previous_or_tail'[a].val] = g[a]
  <2>1. h[a] <= a /\ h[a] \in Arena
    BY <1>3 DEF Heads
  <2>2. g[a] <= a
    BY <1>4, <1>5, <1>i, <2>1
  <2>3. next'[a] # NULL => g[next'[a]] = g[a]
    <3>1. CASE a = x
      BY <1>2, <1>3, <1>4, <1>5, <1>8, <3>1
    <3>2. CASE a # x /\ next[a] # NULL
      <4>1. next[a] \in Arena /\ h[next[a]] = h[a]
        BY <1>t, <3>2 DEF TypeOK, Pointer, Heads
      <4> QED BY <1>6, <1>8, <3>2, <4>1
    <3> QED BY <1>8, <3>1, <3>2
  <2>4. (\A p \in Arena : next'[p] # a) => g[a] = a
    <3> SUFFICES ASSUME \A p \in Arena : next'[p] # a PROVE g[a] = a
      OBVIOUS
    <3>1. a # y
      BY <1>2, <1>8
    <3>2. \A p \in Arena : next[p] # a
      <4> SUFFICES ASSUME NEW p \in Arena, next[p] = a PROVE FALSE
        OBVIOUS
      <4>1. p = x
        BY <1>8
      <4> QED BY <4>1, NullIsNoArena DEF Append
    <3>3. h[a] = a
      BY <3>2 DEF Heads
    <3> QED BY <1>5, <3>1, <3>3
  <2>5. (a \in Born' /\ IsTaggedTail(previous_or_tail'[a])) => g[previous_or_tail'[a].val] = g[a]
    <3> SUFFICES ASSUME a \in Born, IsTaggedTail(previous_or_tail[a])
                 PROVE  g[previous_or_tail[a].val] = g[a]
      BY DEF Append
    <3>1. previous_or_tail[a].val \in Arena /\ h[previous_or_tail[a].val] = h[a]
      BY <1>t DEF MemoryInv, Heads
    <3> QED BY <1>6, <3>1
  <2> QED BY <2>2, <2>3, <2>4, <2>5
<1>10. ASSUME NEW u \in Thread PROVE LinkHead(g, u)'
  <2>1. LinkHead(h, u) /\ FuseInv(u)
    BY DEF Heads, IndInv
  <2>2. CASE u # t
    <3>1. pc'[u] = pc[u] /\ link'[u] = link[u] /\ roots'[u] = roots[u]
      BY <2>2 DEF OthersKeep
    <3>2. pc[u] \in Linking \ {"lf_tail"} => link[u].tail \in Arena /\ roots[u].r1 \in Arena
      BY <1>t, <2>1 DEF FuseInv
    <3>3. pc[u] \in {"ut_parent", "ut_cas"} => link[u].newtail \in Arena /\ roots[u].r1 \in Arena
      BY <1>t, <2>1 DEF FuseInv, Linking
    <3> QED BY <1>6, <2>1, <3>1, <3>2, <3>3 DEF LinkHead
  <2>3. CASE u = t
    BY <1>2, <1>3, <1>6, <2>3 DEF Append, LinkHead
  <2> QED BY <2>2, <2>3
<1>11. Heads(g)'
  BY <1>7, <1>9, <1>10 DEF Heads
<1> QED BY <1>2, <1>3, <1>4, <1>11

(* No cycle is closed.                                                     *)
LEMMA AppendNoCycle ==
  ASSUME IndInv, NEW t \in Thread, OthersKeep(t), Append(t), Born' = Born, NoCycle, NEW h, Heads(h)
  PROVE  NoCycle'
<1> DEFINE x == link[t].tail
           y == roots[t].r2
<1>1. x \in Arena /\ y \in Arena /\ h[y] = y /\ h[x] # y
  BY AppendHeads
<1>2. \A a \in Arena : next'[a] = IF a = x THEN y ELSE next[a]
  BY <1>1 DEF Append, IndInv, TypeOK
<1> HIDE DEF x, y
<1>3. SUFFICES ASSUME NEW S \in SUBSET Arena, S # {}, \A b \in S : \E a \in S : next'[a] = b
               PROVE  FALSE
  BY DEF NoCycle
<1>4. CASE ~(x \in S /\ y \in S)
  <2>1. \A b \in S : \E a \in S : next[a] = b
    BY <1>2, <1>3, <1>4
  <2> QED BY <1>3, <2>1 DEF NoCycle
<1>5. CASE x \in S /\ y \in S
  <2> DEFINE T == {a \in S : h[a] = h[x]}
  <2>1. T \in SUBSET Arena /\ x \in T
    BY <1>3, <1>5
  <2>2. ASSUME NEW b \in T PROVE \E a \in T : next[a] = b
    <3>1. PICK a \in S : next'[a] = b
      BY <1>3, <2>2
    <3>2. b # y
      BY <1>1, <2>2
    <3>3. next[a] = b /\ a \in Arena /\ b # NULL
      BY <1>2, <3>1, <3>2, <2>2, NullIsNoArena
    <3>4. h[a] = h[b]
      BY <3>3 DEF Heads
    <3> QED BY <2>2, <3>1, <3>3, <3>4
  <2> HIDE DEF T
  <2> QED BY <2>1, <2>2 DEF NoCycle
<1> QED BY <1>4, <1>5


(* The steps that link lists keep the heads, and only appending changes a  *)
(* successor.                                                              *)
LEMMA LinkKinds ==
  ASSUME TypeOK, NEW t \in Thread, Caller(t) \/ Step(t), pc[t] \in Linking
  PROVE  /\ roots'[t] = roots[t]
         /\ \/ Append(t)
            \/ UNCHANGED next /\ LinkBackward(t)
            \/ /\ UNCHANGED next /\ pc'[t] \in Linking
               /\ pc'[t] \in Linked <=> pc[t] \in Linked
<1>1. CASE LinkForwardTail(t) \/ LinkForwardNext(t)
  BY <1>1 DEF LinkForwardTail, LinkForwardNext, Goto, TypeOK, memory, Linking, Linked
<1>2. CASE LinkForwardCas(t)
  <2>1. CASE next[link[t].tail] = NULL
    BY <1>2, <2>1 DEF LinkForwardCas, Append, Goto, TypeOK, fusing
  <2>2. CASE next[link[t].tail] # NULL
    BY <1>2, <2>2 DEF LinkForwardCas, Goto, TypeOK, fusing, Linking, Linked
  <2> QED BY <2>1, <2>2
<1>3. CASE UpdateTailLoadChild(t) \/ UpdateTailLoadParent(t) \/ UpdateTailCas(t)
  BY <1>3 DEF UpdateTailLoadChild, UpdateTailLoadParent, UpdateTailCas, Goto, TypeOK, memory,
     fusing, Linking, Linked
<1>4. CASE LinkBackward(t)
  BY <1>4 DEF LinkBackward, fusing
<1> QED BY <1>1, <1>2, <1>3, <1>4, AtLinking

LEMMA LinkHeads ==
  ASSUME IndInv, NEW t \in Thread, OthersKeep(t), Caller(t) \/ Step(t), pc[t] \in Linking,
         ~Append(t), Born' = Born, NEW h, Heads(h)
  PROVE  Heads(h)'
<1>t. TypeOK /\ MemoryInv /\ LinkExclusive /\ FuseInv(t) /\ LinkHead(h, t) /\ Born \subseteq Arena
  BY Pointers DEF IndInv, Heads
<1>1. /\ roots[t].r1 \in Born /\ roots[t].r2 \in Born
      /\ pc[t] # "lf_tail" => link[t].tail \in Born
      /\ IsTaggedTail(previous_or_tail[roots[t].r2])
  BY <1>t DEF FuseInv
<1>2. \A a \in Born : IsTaggedTail(previous_or_tail[a]) => h[previous_or_tail[a].val] = h[a]
  BY <1>t DEF Heads
<1>3. CASE LinkForwardTail(t)
  <2>1. /\ UNCHANGED <<next, previous_or_tail, roots>> /\ pc'[t] = "lf_next"
        /\ link'[t].tail = IF IsTaggedTail(previous_or_tail[roots[t].r1])
                           THEN previous_or_tail[roots[t].r1].val ELSE roots[t].r1
    BY <1>3, <1>t DEF LinkForwardTail, Goto, TypeOK, memory, LinkFrame
  <2>2. h[link'[t].tail] = h[roots[t].r1]
    BY <1>1, <1>2, <2>1
  <2>3. LinkHead(h, t)'
    BY <2>1, <2>2 DEF LinkHead
  <2> QED BY <2>1, <2>3, HeadsKept
<1>4. CASE LinkForwardNext(t) \/ LinkForwardCas(t)
  <2>1. /\ UNCHANGED <<next, previous_or_tail, roots>> /\ pc'[t] \in {"lf_next", "lf_cas"}
        /\ \/ link'[t].tail = link[t].tail
           \/ next[link[t].tail] # NULL /\ link'[t].tail = next[link[t].tail]
    <3>1. CASE LinkForwardNext(t)
      BY <3>1, <1>t DEF LinkForwardNext, Goto, TypeOK, memory, LinkFrame
    <3>2. CASE LinkForwardCas(t) /\ next[link[t].tail] # NULL
      BY <3>2, <1>t DEF LinkForwardCas, Goto, TypeOK, LinkFrame
    <3>3. CASE LinkForwardCas(t) /\ next[link[t].tail] = NULL
      BY <3>3, <1>t DEF LinkForwardCas, Append, Goto, TypeOK, fusing
    <3> QED BY <1>4, <3>1, <3>2, <3>3
  <2>2. pc[t] \in Linking \ {"lf_tail"}
    BY <1>4 DEF LinkForwardNext, LinkForwardCas, Linking
  <2>3. h[link'[t].tail] = h[roots[t].r1]
    <3>1. h[link[t].tail] = h[roots[t].r1] /\ link[t].tail \in Arena
      BY <1>1, <1>t, <2>2 DEF LinkHead
    <3> QED BY <2>1, <3>1 DEF Heads
  <2>4. LinkHead(h, t)'
    BY <2>1, <2>3 DEF LinkHead
  <2> QED BY <2>1, <2>4, HeadsKept
<1>5. CASE UpdateTailLoadChild(t)
  <2>1. /\ UNCHANGED <<next, previous_or_tail, roots>> /\ pc'[t] = "ut_parent" /\ pc[t] = "ut_child"
        /\ link'[t].tail = link[t].tail
        /\ link'[t].newtail = previous_or_tail[roots[t].r2].val
    BY <1>5, <1>t DEF UpdateTailLoadChild, Goto, TypeOK, memory, LinkFrame
  <2>2. pc[t] \in Linking \ {"lf_tail"} /\ pc[t] \in Linked
    BY <2>1 DEF Linking, Linked
  <2>3. h[link[t].tail] = h[roots[t].r1] /\ next[link[t].tail] = roots[t].r2
    BY <1>t, <2>2 DEF LinkHead, LinkExclusive
  <2>4. h[roots[t].r2] = h[link[t].tail]
    <3>1. link[t].tail \in Arena /\ next[link[t].tail] # NULL
      BY <1>1, <1>t, <2>2, <2>3, NullIsNoArena
    <3> QED BY <2>3, <3>1 DEF Heads
  <2>5. h[link'[t].newtail] = h[roots[t].r1]
    BY <1>1, <1>2, <2>1, <2>3, <2>4
  <2>6. LinkHead(h, t)'
    BY <2>1, <2>3, <2>5 DEF LinkHead
  <2> QED BY <2>1, <2>6, HeadsKept
<1>6. CASE UpdateTailLoadParent(t)
  <2>1. /\ UNCHANGED <<next, previous_or_tail, roots>> /\ pc'[t] \in {"ut_cas", "lb_store"}
        /\ pc[t] = "ut_parent"
        /\ link'[t].tail = link[t].tail /\ link'[t].newtail = link[t].newtail
    BY <1>6, <1>t DEF UpdateTailLoadParent, Goto, TypeOK, memory, LinkFrame
  <2>2. LinkHead(h, t)'
    BY <1>t, <2>1 DEF LinkHead, Linking
  <2> QED BY <2>1, <2>2, HeadsKept
<1>7. ASSUME UNCHANGED <<next, roots, link>>, pc'[t] \notin {"ut_parent", "ut_cas"},
             pc'[t] \in Linking \ {"lf_tail"} => pc[t] \in Linking \ {"lf_tail"},
             \A a \in Born : IsTaggedTail(previous_or_tail'[a]) => h[previous_or_tail'[a].val] = h[a]
      PROVE  Heads(h)'
  <2>1. LinkHead(h, t)'
    BY <1>7, <1>t DEF LinkHead
  <2>2. \A u \in Thread : LinkHead(h, u)'
    BY <2>1 DEF OthersKeep, Heads, LinkHead
  <2> QED BY <1>7, <2>2 DEF Heads
<1>8. CASE UpdateTailCas(t)
  <2>1. /\ pc[t] = "ut_cas" /\ pc'[t] = "lb_store" /\ UNCHANGED <<next, roots, link>>
        /\ \A a \in Arena : \/ previous_or_tail'[a] = previous_or_tail[a]
                            \/ a = roots[t].r1 /\ previous_or_tail'[a].val = link[t].newtail
    BY <1>8, <1>1, <1>t DEF UpdateTailCas, Goto, TypeOK, fusing, TaggedFromTail
  <2>2. h[link[t].newtail] = h[roots[t].r1]
    BY <1>t, <2>1 DEF LinkHead
  <2>3. \A a \in Born : IsTaggedTail(previous_or_tail'[a]) => h[previous_or_tail'[a].val] = h[a]
    BY <1>2, <1>t, <2>1, <2>2
  <2>4. pc[t] \in Linking \ {"lf_tail"}
    BY <2>1 DEF Linking
  <2> QED BY <1>7, <2>1, <2>3, <2>4
<1>9. CASE LinkBackward(t)
  <2>1. /\ UNCHANGED <<next, roots, link>> /\ EnterFixup(t)
        /\ \A a \in Arena : \/ previous_or_tail'[a] = previous_or_tail[a]
                            \/ previous_or_tail'[a] = TaggedFromPrevious(link[t].tail)
    BY <1>9, <1>1, <1>t DEF LinkBackward, TypeOK, fusing
  <2>2. ~IsTaggedTail(TaggedFromPrevious(link[t].tail))
    BY DEF IsTaggedTail, TaggedFromPrevious
  <2>3. \A a \in Born : IsTaggedTail(previous_or_tail'[a]) => h[previous_or_tail'[a].val] = h[a]
    BY <1>2, <1>t, <2>1, <2>2
  <2>4. pc'[t] \in {"ret", "fx_load"}
    BY <1>t, <2>1, EnterFixupFacts
  <2> QED BY <1>7, <2>1, <2>3, <2>4 DEF Linking
<1> QED BY <1>3, <1>4, <1>5, <1>6, <1>8, <1>9, AtLinking

(* Every step of a thread keeps lists without cycles and their heads.      *)
LEMMA StepHeads ==
  ASSUME IndInv, NEW t \in Thread, Caller(t) \/ Step(t), NoCycle, NEW h, Heads(h)
  PROVE  NoCycle' /\ \E g : Heads(g)'
<1>1. OthersKeep(t) /\ Born' = Born /\ TypeOK
  BY StepKeeps, StepBorn DEF IndInv
<1>2. CASE Append(t)
  BY <1>1, <1>2, AppendHeads, AppendNoCycle
<1>3. CASE pc[t] \in Linking /\ ~Append(t)
  <2>1. UNCHANGED next
    BY <1>1, <1>3, LinkKinds
  <2>2. Heads(h)'
    BY <1>1, <1>3, LinkHeads
  <2> QED BY <2>1, <2>2 DEF NoCycle
<1>4. CASE pc[t] \notin Linking
  <2>1. UNCHANGED <<next, previous_or_tail>> /\ pc'[t] \notin Linking \ {"lf_tail"}
    BY <1>1, <1>4, OffLinking
  <2>2. LinkHead(h, t)'
    BY <2>1 DEF LinkHead, Linking
  <2>3. Heads(h)'
    BY <1>1, <2>1, <2>2, HeadsKept
  <2> QED BY <2>1, <2>3 DEF NoCycle
<1> QED BY <1>2, <1>3, <1>4


-----------------------------------------------------------------------------
(* Lists are complete.                                                     *)

LEMMA StepComplete ==
  ASSUME IndInv, IndInv', GroupInv, NEW t \in Thread, Caller(t) \/ Step(t), Complete
  PROVE  Complete'
<1>t. TypeOK /\ FuseInv(t) /\ RootInv /\ Born \subseteq Arena /\ Monotone /\ OthersKeep(t)
  BY Pointers, StepInd, StepKeeps DEF IndInv, GroupInv
<1>1. SUFFICES ASSUME NEW a \in Arena, RootOf'[a] # a
               PROVE  /\ \/ \E p \in Arena : next'[p] = a
                         \/ \E u \in Thread : pc'[u] \in Linking \ Linked /\ roots'[u].r2 = a
                      /\ \/ IsTaggedPrevious(previous_or_tail'[a])
                         \/ \E u \in Thread : pc'[u] \in Linking /\ roots'[u].r2 = a
  BY DEF Complete
<1>2. CASE RootOf[a] = a
  <2>1. JoinStep(t)
    BY <1>1, <1>2, StepRoots DEF Base
  <2>2. a = roots[t].r2 /\ pc'[t] = "lf_tail" /\ UNCHANGED roots
    BY <1>1, <1>2, <2>1 DEF JoinStep, Joined, fusing
  <2> QED BY <2>2 DEF Linking, Linked
<1>3. CASE RootOf[a] # a
  <2>1. \/ \E p \in Arena : next'[p] = a
        \/ \E u \in Thread : pc'[u] \in Linking \ Linked /\ roots'[u].r2 = a
    <3>1. CASE \E p \in Arena : next[p] = a
      BY <1>t, <3>1, NullIsNoArena DEF Monotone
    <3>2. ASSUME NEW u \in Thread, pc[u] \in Linking \ Linked, roots[u].r2 = a
          PROVE  \/ \E p \in Arena : next'[p] = a
                 \/ \E v \in Thread : pc'[v] \in Linking \ Linked /\ roots'[v].r2 = a
      <4>1. CASE u # t
        BY <1>t, <3>2, <4>1 DEF OthersKeep
      <4>2. CASE u = t /\ Append(t)
        <5>1. link[t].tail \in Arena
          BY <1>t, <4>2 DEF FuseInv, Append, Linking
        <5> QED BY <1>t, <3>2, <4>2, <5>1 DEF Append, TypeOK
      <4>3. CASE u = t /\ ~Append(t)
        <5>1. ~LinkBackward(t)
          BY <3>2, <4>3 DEF LinkBackward, Linked
        <5> QED BY <1>t, <3>2, <4>3, <5>1, LinkKinds
      <4> QED BY <4>1, <4>2, <4>3
    <3> QED BY <1>3, <3>1, <3>2 DEF Complete
  <2>2. \/ IsTaggedPrevious(previous_or_tail'[a])
        \/ \E u \in Thread : pc'[u] \in Linking /\ roots'[u].r2 = a
    <3>1. CASE IsTaggedPrevious(previous_or_tail[a])
      BY <1>t, <3>1 DEF Monotone
    <3>2. ASSUME NEW u \in Thread, pc[u] \in Linking, roots[u].r2 = a
          PROVE  \/ IsTaggedPrevious(previous_or_tail'[a])
                 \/ \E v \in Thread : pc'[v] \in Linking /\ roots'[v].r2 = a
      <4>1. CASE u # t
        BY <1>t, <3>2, <4>1 DEF OthersKeep
      <4>2. CASE u = t /\ LinkBackward(t)
        <5>1. previous_or_tail'[a] = TaggedFromPrevious(link[t].tail)
          BY <1>t, <3>2, <4>2 DEF LinkBackward, TypeOK
        <5> QED BY <5>1 DEF IsTaggedPrevious, TaggedFromPrevious
      <4>3. CASE u = t /\ ~LinkBackward(t)
        <5>1. pc'[t] \in Linking
          BY <1>t, <3>2, <4>3, LinkKinds DEF Append, Linking
        <5> QED BY <1>t, <3>2, <4>3, <5>1, LinkKinds
      <4> QED BY <4>1, <4>2, <4>3
    <3> QED BY <1>3, <3>1, <3>2 DEF Complete
  <2> QED BY <2>1, <2>2
<1> QED BY <1>2, <1>3

(* DoFree ends with the last arena of the group.                           *)
LEMMA WholeGroup ==
  ASSUME Base, RefInv, ChainInv, NEW t \in Thread, pc[t] = "df_blocks", walk[t].other = NULL,
         NEW a \in Arena, RootOf[a] = RootOf[call[t].a], status[a] # "freed"
  PROVE  a = walk[t].ai
<1> DEFINE w == walk[t].ai
           r == RootOf[call[t].a]
           S == {b \in Arena : RootOf[b] = r /\ status[b] # "freed" /\ b # w}
<1>1. /\ Reclaims(t) /\ ReclaimInv(t) /\ DeadInv /\ NoCycle /\ Complete /\ GivenInv /\ TypeOK
      /\ ListInv /\ CallInv(t) /\ WalkGroup(t)
  BY DEF Reclaims, RefInv, ChainInv, Base, IndInv, GroupInv, ThreadGroup
<1>2. pc[t] \in Walking /\ pc[t] # "idle"
  BY DEF Walking
<1>3. w \in Arena /\ RootOf[w] = r /\ next[w] = NULL
  BY <1>1, <1>2, FrameArenas DEF Base, WalkGroup, Fused, ReclaimInv
<1>4. Dead(r)
  BY <1>1 DEF Dead
<1>5. ASSUME NEW b \in S PROVE \E p \in S : next[p] = b
  <2>1. b \in Arena /\ RootOf[b] = r /\ status[b] # "freed" /\ b # w /\ b # NULL
    BY <1>5, NullIsNoArena
  <2>2. RootOf[b] # b
    <3> SUFFICES ASSUME b = r PROVE FALSE
      BY <2>1
    <3>1. PICK p \in Arena : status[p] = "freed" /\ next[p] = w
      BY <1>1, <2>1 DEF ReclaimInv
    <3>2. RootOf[p] = r
      BY <1>1, <1>3, <3>1, NullIsNoArena DEF ListInv, Fused
    <3> QED BY <1>1, <2>1, <3>1, <3>2 DEF DeadInv
  <2>3. ASSUME NEW u \in Thread, pc[u] \in Linking, roots[u].r2 = b PROVE FALSE
    <3>1. CallInv(u) /\ FuseGroup(u)
      BY DEF Base, GroupInv, ThreadGroup
    <3>2. Uses(u) /\ RootOf[b] = RootOf[call[u].a]
      BY <2>3, <3>1 DEF Uses, CallInv, FuseGroup, Fused, Linking
    <3>3. ~Dead(RootOf[b])
      BY <2>1, <3>2, UsedIsCounted
    <3> QED BY <1>4, <2>1, <3>3
  <2>4. PICK p \in Arena : next[p] = b
    BY <1>1, <2>1, <2>2, <2>3 DEF Complete
  <2>5. RootOf[p] = r /\ p # w
    BY <1>1, <1>3, <2>1, <2>4 DEF ListInv, Fused
  <2>6. status[p] # "freed"
    <3> SUFFICES ASSUME status[p] = "freed" PROVE FALSE
      OBVIOUS
    <3>1. PICK u \in Thread : Reclaims(u) /\ walk[u].ai = b
      BY <1>1, <2>1, <2>4 DEF GivenInv
    <3>2. pc[u] \in Walking /\ WalkGroup(u)
      BY <3>1 DEF Reclaims, Walking, Base, GroupInv, ThreadGroup
    <3>3. Fused(call[u].a, call[t].a)
      BY <2>1, <3>1, <3>2 DEF WalkGroup, Fused
    <3>4. u = t
      BY <1>1, <3>1, <3>3 DEF DeadInv
    <3> QED BY <2>1, <3>1, <3>4
  <2> QED BY <2>4, <2>5, <2>6
<1>6. S = {}
  BY <1>1, <1>5 DEF NoCycle
<1> QED BY <1>6

(* What has been given back precedes what has not.                         *)
LEMMA StepGiven ==
  ASSUME Base, RefInv, ChainInv, NEW t \in Thread, OthersKeep(t), Kinds(t), Caller(t) \/ Step(t)
  PROVE  GivenInv'
<1>t. TypeOK /\ GivenInv /\ DeadInv
  BY DEF Base, IndInv, ChainInv, RefInv
<1>1. SUFFICES ASSUME NEW b \in Arena, status'[b] = "freed", next'[b] # NULL
               PROVE  \/ status'[next'[b]] = "freed"
                      \/ \E u \in Thread : Reclaims(u)' /\ walk'[u].ai = next'[b]
  BY DEF GivenInv
<1>2. \A p \in Arena : status[p] = "freed" => status'[p] = "freed"
  BY <1>t DEF Kinds, Quiet, Lend, JoinStep, Repay, Gain, Release, CountDown, Last, GiveBack, TypeOK
<1>3. CASE status[b] = "freed"
  <2>1. Dead(RootOf[b])
    BY <1>3, <1>t DEF DeadInv, Dead
  <2>2. next'[b] = next[b] /\ next[b] \in Arena
    <3>1. next'[b] = next[b]
      BY <2>1, AppendInUse
    <3> QED BY <1>1, <1>t, <3>1 DEF TypeOK, Pointer
  <2>3. CASE status[next[b]] = "freed"
    BY <1>2, <2>2, <2>3
  <2>4. ASSUME NEW u \in Thread, Reclaims(u), walk[u].ai = next[b]
        PROVE  \/ status'[next'[b]] = "freed"
               \/ \E v \in Thread : Reclaims(v)' /\ walk'[v].ai = next'[b]
    <3>1. CASE u # t
      BY <2>2, <2>4, <3>1, OthersStand DEF OthersKeep
    <3>2. CASE u = t /\ DoFreeNext(t)
      BY <1>t, <2>2, <2>4, <3>2 DEF DoFreeNext, Goto, TypeOK, WalkFrame, Reclaims
    <3>3. CASE u = t /\ DoFreeBlocks(t)
      BY <1>t, <2>2, <2>4, <3>3 DEF DoFreeBlocks, TypeOK
    <3> QED BY <2>4, <3>1, <3>2, <3>3, AtDoFree
  <2> QED BY <1>1, <1>3, <1>t, <2>2, <2>3, <2>4 DEF GivenInv
<1>4. CASE status[b] # "freed"
  <2>1. GiveBack(t)
    BY <1>1, <1>4 DEF Kinds, Quiet, Lend, JoinStep, Repay, Gain, Release, CountDown, Last
  <2>2. b = walk[t].ai /\ UNCHANGED next /\ pc[t] = "df_blocks" /\ ReclaimInv(t)
    BY <1>1, <1>4, <1>t, <2>1 DEF GiveBack, TypeOK, RefInv
  <2>3. walk[t].other = next[b]
    BY <2>2 DEF ReclaimInv, Reclaims
  <2>4. Reclaims(t)' /\ walk'[t].ai = next'[b]
    BY <1>1, <2>1, <2>2, <2>3 DEF GiveBack, Reclaims
  <2> QED BY <2>4
<1> QED BY <1>3, <1>4

LEMMA StepAtWork ==
  ASSUME Base, RefInv, ChainInv, NEW t \in Thread, OthersKeep(t), Kinds(t), Caller(t) \/ Step(t)
  PROVE  AtWork'
<1>t. TypeOK /\ AtWork
  BY DEF Base, IndInv, ChainInv
<1>1. SUFFICES ASSUME NEW a \in Arena, status'[a] = "live", status'[RootOf'[a]] = "freed"
               PROVE  \E u \in Thread : Reclaims(u)' /\ RootOf'[call'[u].a] = RootOf'[a]
  BY DEF AtWork
<1>2. CASE GiveBack(t)
  <2>1. /\ RootOf[walk[t].ai] = RootOf[call[t].a] /\ walk[t].ai \in Arena
        /\ \A b \in Arena : status'[b] = IF b = walk[t].ai THEN "freed" ELSE status[b]
    <3>1. pc[t] \in Walking /\ CallInv(t)
      BY <1>2 DEF GiveBack, Walking, Base, GroupInv, ThreadGroup
    <3> QED BY <1>2, <3>1, GiveBackDead, FrameArenas DEF Base
  <2>2. RootOf' = RootOf /\ Reclaims(t) /\ call'[t].a = call[t].a /\ RootOf[a] \in Arena
    BY <1>2, RootFacts DEF GiveBack, Reclaims
  <2>3. status[a] = "live" /\ a # walk[t].ai
    BY <1>1, <2>1
  <2>4. PICK u \in Thread : Reclaims(u) /\ RootOf[call[u].a] = RootOf[a]
    <3>1. CASE status[RootOf[a]] = "freed"
      BY <1>t, <2>3, <3>1 DEF AtWork
    <3>2. CASE status[RootOf[a]] # "freed"
      <4>1. RootOf[a] = walk[t].ai /\ RootOf[RootOf[a]] = RootOf[a]
        BY <1>1, <2>1, <2>2, <3>2, RootFacts
      <4> QED BY <2>1, <2>2, <4>1
    <3> QED BY <3>1, <3>2
  <2>5. CASE u # t
    BY <2>2, <2>4, <2>5, OthersStand
  <2>6. CASE u = t
    <3>1. walk[t].other # NULL
      BY <1>2, <2>3, <2>4, <2>6, WholeGroup DEF GiveBack
    <3>2. Reclaims(t)'
      BY <1>2, <3>1 DEF GiveBack, Reclaims
    <3> QED BY <2>2, <2>4, <2>6, <3>2
  <2> QED BY <2>5, <2>6
<1>3. ASSUME UNCHANGED status, RootOf'[a] = RootOf[a],
             \A u \in Thread : Reclaims(u) => /\ Reclaims(u)' /\ call'[u].a = call[u].a
                                              /\ RootOf'[call[u].a] = RootOf[call[u].a]
      PROVE  \E u \in Thread : Reclaims(u)' /\ RootOf'[call'[u].a] = RootOf'[a]
  <2>1. PICK u \in Thread : Reclaims(u) /\ RootOf[call[u].a] = RootOf[a]
    BY <1>1, <1>3, <1>t DEF AtWork
  <2> QED BY <1>3, <2>1
<1>4. CASE JoinStep(t)
  <2>1. /\ \A u \in Thread : Reclaims(u)' <=> Reclaims(u)
        /\ UNCHANGED <<status, refs, call>>
    BY <1>4, JoinDead
  <2>2. /\ \A b \in Arena : RootOf'[b] = IF RootOf[b] = roots[t].r2 THEN RootOf[roots[t].r1]
                                         ELSE RootOf[b]
        /\ status[RootOf[roots[t].r1]] = "live" /\ ~Dead(roots[t].r2)
    BY <1>4, JoinRoots DEF Counted
  <2>3. \A u \in Thread : Reclaims(u) => call[u].a \in Arena /\ RootOf[call[u].a] # roots[t].r2
    <3> SUFFICES ASSUME NEW u \in Thread, Reclaims(u)
                 PROVE  call[u].a \in Arena /\ RootOf[call[u].a] # roots[t].r2
      OBVIOUS
    <3>1. pc[u] # "idle" /\ CallInv(u)
      BY DEF Reclaims, Base, GroupInv, ThreadGroup
    <3>2. call[u].a \in Arena
      BY <3>1, FrameArenas DEF Base
    <3> QED BY <2>2, <3>2 DEF Dead
  <2>4. RootOf'[a] = RootOf[a]
    BY <1>1, <2>1, <2>2
  <2> QED BY <1>3, <2>1, <2>2, <2>3, <2>4
<1>5. CASE Last(t)
  <2>1. UNCHANGED <<status, call>> /\ RootOf' = RootOf /\ Reclaims(t)'
    BY <1>5 DEF Last, Reclaims
  <2>2. \A u \in Thread : Reclaims(u) => Reclaims(u)'
    BY <2>1, OthersStand
  <2> QED BY <1>3, <2>1, <2>2
<1>6. CASE Quiet(t) \/ Lend(t) \/ Repay(t) \/ Gain(t) \/ Release(t) \/ CountDown(t)
  <2>1. Settled(t)
    BY <1>6, MostSettled
  <2> QED BY <1>3, <2>1, SettledDead DEF Settled
<1> QED BY <1>2, <1>4, <1>5, <1>6 DEF Kinds


-----------------------------------------------------------------------------
(* The invariant is inductive.                                             *)

LEMMA StepChain ==
  ASSUME Base, RefInv, ChainInv, IndInv', GroupInv', NEW t \in Thread, Caller(t) \/ Step(t)
  PROVE  ChainInv'
<1>t. IndInv /\ GroupInv /\ NoCycle /\ Complete /\ OthersKeep(t) /\ Kinds(t)
  BY StepKeeps, StepKinds DEF Base, IndInv, ChainInv
<1>1. PICK h : Heads(h)
  BY DEF ChainInv
<1>2. NoCycle' /\ \E g : Heads(g)'
  BY <1>t, <1>1, StepHeads
<1>3. Complete'
  BY <1>t, StepComplete
<1>4. GivenInv' /\ AtWork'
  BY <1>t, StepGiven, StepAtWork
<1> QED BY <1>2, <1>3, <1>4 DEF ChainInv

(* A new arena is a list of its own.                                       *)
LEMMA CreateChain ==
  ASSUME Base, ChainInv, IndInv', NEW a \in Arena, NEW i \in BOOLEAN, Arena_Init(a, i)
  PROVE  ChainInv'
<1>t. TypeOK /\ MemoryInv /\ InitialInv /\ Born \subseteq Arena /\ NULL \notin Arena
  BY Pointers, NullIsNoArena DEF Base, IndInv
<1>1. /\ a \notin Born /\ Born' = Born \cup {a}
      /\ UNCHANGED <<pc, call, roots, link, walk>>
  BY <1>t DEF Arena_Init, Born, fusing, TypeOK
<1>2. next' = next
  <2>1. next[a] = NULL
    BY <1>1, <1>t DEF MemoryInv
  <2> QED BY <1>t, <2>1 DEF Arena_Init, TypeOK
<1>3. \A b \in Arena : previous_or_tail'[b] = IF b = a THEN TaggedFromTail(a) ELSE previous_or_tail[b]
  BY <1>t DEF Arena_Init, TypeOK
<1>4. RootOf' = RootOf /\ RootOf[a] = a
  BY <1>1, <1>t, CreateGroup, RootFacts DEF Base, MemoryInv
<1>5. \A p \in Arena : next[p] # a
  BY <1>1, <1>t DEF MemoryInv
<1>6. NoCycle'
  BY <1>2 DEF ChainInv, NoCycle
<1>7. PICK h : Heads(h)
  BY DEF ChainInv
<1>8. Heads(h)'
  <2>1. ASSUME NEW b \in Arena
        PROVE  /\ h[b] <= b
               /\ next'[b] # NULL => h[next'[b]] = h[b]
               /\ (\A p \in Arena : next'[p] # b) => h[b] = b
               /\ (b \in Born' /\ IsTaggedTail(previous_or_tail'[b])) =>
                    h[previous_or_tail'[b].val] = h[b]
    BY <1>1, <1>2, <1>3, <1>7 DEF Heads, TaggedFromTail
  <2>2. \A t \in Thread : LinkHead(h, t)'
    BY <1>1, <1>7 DEF Heads, LinkHead
  <2> QED BY <1>7, <2>1, <2>2 DEF Heads
<1>9. Complete'
  BY <1>1, <1>2, <1>3, <1>4 DEF ChainInv, Complete
<1>10. \A b \in Arena : /\ status'[b] = "freed" <=> status[b] = "freed"
                        /\ b # a => status'[b] = status[b]
                        /\ RootOf[b] \in Arena
  BY <1>t, RootFacts DEF Arena_Init, TypeOK
<1>11. status[a] # "freed"
  BY <1>1, <1>t DEF Born
<1>12. \A t \in Thread : Reclaims(t)' <=> Reclaims(t)
  BY <1>1 DEF Reclaims
<1>13. GivenInv'
  <2>1. \A b \in Arena : next[b] \in Arena \cup {NULL}
    BY <1>t DEF MemoryInv
  <2> QED BY <1>1, <1>2, <1>10, <1>12, <2>1 DEF ChainInv, GivenInv
<1>14. AtWork'
  BY <1>1, <1>4, <1>10, <1>11, <1>12 DEF ChainInv, AtWork
<1> QED BY <1>6, <1>8, <1>9, <1>13, <1>14 DEF ChainInv

LEMMA StutterChain ==
  ASSUME Base, IndInv', ChainInv, UNCHANGED vars
  PROVE  ChainInv'
<1>1. UNCHANGED <<status, next, previous_or_tail, pc, call, roots, link, walk>>
  BY DEF vars, memory, fusing
<1>2. RootOf' = RootOf /\ Born' = Born
  BY <1>1, StutterGroup DEF Base, Born
<1>3. \A t \in Thread : Reclaims(t)' <=> Reclaims(t)
  BY <1>1 DEF Reclaims
<1>4. PICK h : Heads(h)
  BY DEF ChainInv
<1>5. Heads(h)'
  BY <1>1, <1>2, <1>4 DEF Heads, LinkHead
<1>6. NoCycle' /\ Complete'
  BY <1>1, <1>2 DEF ChainInv, NoCycle, Complete
<1>7. GivenInv' /\ AtWork'
  BY <1>1, <1>2, <1>3 DEF ChainInv, GivenInv, AtWork
<1> QED BY <1>5, <1>6, <1>7 DEF ChainInv

LEMMA InitChain == Init => ChainInv
<1> SUFFICES ASSUME Init PROVE ChainInv
  OBVIOUS
<1>1. /\ \A a \in Arena : status[a] = "unborn" /\ next[a] = NULL
      /\ \A t \in Thread : pc[t] = "idle"
  BY DEF Init, InitLists, InitThreads
<1>2. RootOf = [a \in Arena |-> a]
  BY InitInd, OwnRoots DEF IndInv, Init, IsTaggedPointer, TaggedFromRefcount
<1>3. NoCycle
  BY <1>1, NullIsNoArena DEF NoCycle
<1>4. Heads([a \in Arena |-> a])
  <2>1. \A a \in Arena : a <= a
    BY ArenaAssumption
  <2>2. \A t \in Thread : LinkHead([a \in Arena |-> a], t)
    BY <1>1 DEF LinkHead, Linking
  <2> QED BY <1>1, <2>1, <2>2 DEF Heads, Born
<1>5. Complete
  BY <1>2 DEF Complete
<1>6. GivenInv /\ AtWork
  BY <1>1 DEF GivenInv, AtWork
<1> QED BY <1>3, <1>4, <1>5, <1>6 DEF ChainInv

LEMMA NextChain == Base /\ RefInv /\ ChainInv /\ IndInv' /\ GroupInv' /\ [Next]_vars => ChainInv'
<1> SUFFICES ASSUME Base, RefInv, ChainInv, IndInv', GroupInv', [Next]_vars PROVE ChainInv'
  OBVIOUS
<1>1. CASE UNCHANGED vars
  BY <1>1, StutterChain
<1>2. ASSUME NEW a \in Arena, NEW i \in BOOLEAN, Arena_Init(a, i) PROVE ChainInv'
  BY <1>2, CreateChain
<1>3. ASSUME NEW t \in Thread, Caller(t) \/ Step(t) PROVE ChainInv'
  BY <1>3, StepChain
<1> QED BY <1>1, <1>2, <1>3 DEF Next

(* The lists that _upb_Arena_DoFuseArenaLists makes, however many threads  *)
(* append to one another's tails, have no cycles and miss only what some   *)
(* thread is still linking, and _upb_Arena_DoFree goes through them to the *)
(* end.                                                                    *)
THEOREM ListsComplete == Spec => []ChainInv
<1>1. Spec => [](IndInv /\ GroupInv)
  BY Inductive, GroupsSound, PTL
<1> QED BY <1>1, ReferencesSound, InitChain, NextChain, PTL DEF Spec

-----------------------------------------------------------------------------
(* Nothing is forgotten.                                                   *)

LEMMA GroupNotForgotten ==
  ASSUME Base, RefInv, ChainInv
  PROVE  NoLeak
<1> SUFFICES ASSUME NEW a \in Live, Held(GroupOf(a)) = 0,
                    Freeing(GroupOf(a)) = {}, Reclaiming(GroupOf(a)) = {}
             PROVE  FALSE
  BY DEF NoLeak
<1> DEFINE r == RootOf[a]
<1>t. a \in Arena /\ status[a] = "live" /\ a \in Born /\ DeadInv
  BY DEF Live, Born, RefInv
<1>1. r \in Arena /\ RootOf[r] = r /\ r \in Born
  BY <1>t, RootFacts
<1>2. GroupOf(a) = GroupOf(r)
  BY <1>1 DEF GroupOf
<1>3. status[r] # "freed"
  <2> SUFFICES ASSUME status[r] = "freed" PROVE FALSE
    OBVIOUS
  <2>1. PICK t \in Thread : Reclaims(t) /\ RootOf[call[t].a] = r
    BY <1>t DEF ChainInv, AtWork
  <2>2. pc[t] # "idle" /\ CallInv(t)
    BY <2>1 DEF Reclaims, Base, GroupInv, ThreadGroup
  <2>3. call[t].a \in Arena
    BY <2>2, FrameArenas DEF Base
  <2>4. call[t].a \in GroupOf(a)
    BY <2>1, <2>3 DEF GroupOf
  <2> QED BY <2>1, <2>4 DEF Reclaiming, Reclaims
<1>4. r \in Live
  BY <1>1, <1>3, RootFacts DEF Live
<1>5. Counted(r)
  BY <1>1, <1>2, <1>4, LiveIsCounted
<1>6. PICK loc : AccountInv(loc)
  BY DEF RefInv
<1>7. Balanced(loc, r) /\ parent_or_count[r].val >= 1
  BY <1>1, <1>5, <1>6 DEF AccountInv, RefInv, CountPos
<1>8. Cardinality(RefsOn(r)) = 0 /\ FreesOn(r) = {}
  BY <1>1, <1>2, <1>t, GroupCounts DEF Held
<1>9. RefsOn(r) = {}
  BY <1>7, <1>8, FS_EmptySet DEF Balanced
<1>10. LentTo(loc, r) = {}
  <2> SUFFICES ASSUME NEW z \in LentTo(loc, r) PROVE FALSE
    OBVIOUS
  <2>1. PICK t \in Thread, k \in Nat :
          z = <<t, k>> /\ k \in 1 .. Owed(t) /\ RootOf[loc[<<t, k>>]] = r
    BY DEF LentTo
  <2>2. RootOf[call[t].a] = r \/ RootOf[call[t].b] = r
    BY <1>6, <2>1 DEF AccountInv, LoanInv, Fused
  <2>3. call[t].op = "Fuse" /\ pc[t] \notin {"idle", "ret"}
    BY <2>1 DEF Owed
  <2>4. call[t].a \in Arena /\ call[t].b \in Arena
    BY <2>3, FrameArenas DEF Base, GroupInv, ThreadGroup
  <2>5. refs[call[t].a] > 0 /\ refs[call[t].b] > 0
    <3>1. Uses(t)
      BY <2>3 DEF Uses
    <3> QED BY <3>1 DEF RefInv, HoldInv
  <2>6. \A b \in Arena : RootOf[b] = r => ~(refs[b] > 0)
    <3> SUFFICES ASSUME NEW b \in Arena, RootOf[b] = r, refs[b] > 0 PROVE FALSE
      OBVIOUS
    <3>1. refs[b] \in Int
      BY DEF Base, IndInv, TypeOK
    <3>2. 1 \in 1 .. refs[b]
      BY <3>1
    <3>3. <<b, 1>> \in RefsOn(r)
      BY <3>2 DEF RefsOn
    <3> QED BY <1>9, <3>3
  <2> QED BY <2>2, <2>4, <2>5, <2>6
<1>11. parent_or_count[r].val = 0
  <2>1. Cardinality(FreesOn(r)) = 0 /\ Cardinality(LentTo(loc, r)) = 0
    BY <1>8, <1>10, FS_EmptySet
  <2> QED BY <1>7, <1>8, <2>1 DEF Balanced
<1> QED BY <1>7, <1>11

(* No group is forgotten: as long as any memory of a group that nobody     *)
(* references is not given back, an upb_Arena_Free on the group is at      *)
(* work.                                                                   *)
THEOREM NothingForgotten == CheckSpec => []NoLeak
<1>1. Base /\ RefInv /\ ChainInv => NoLeak
  BY GroupNotForgotten
<1> QED BY <1>1, ReferencesSound, ListsComplete, CheckImplies, PTL


-----------------------------------------------------------------------------
(* What the list pointers lead to.                                         *)

\* A set that next, or the pointers to predecessors, do not leave.
ClosedForward(S)  == \A x \in S : next[x] \in S \cup {NULL}
ClosedBackward(S) == \A x \in S : IsTaggedPrevious(previous_or_tail[x]) =>
                                    previous_or_tail[x].val \in S

LEMMA Followers ==
  ASSUME TypeOK, NEW a \in Arena
  PROVE  /\ a \in FollowedBy(a) /\ FollowedBy(a) \subseteq Arena
         /\ ClosedForward(FollowedBy(a))
         /\ \A S \in SUBSET Arena : (a \in S /\ ClosedForward(S)) => FollowedBy(a) \subseteq S
<1>1. \A x \in Arena : next[x] \in Arena \cup {NULL}
  BY DEF TypeOK, Pointer
<1>2. \A b : b \in FollowedBy(a) <=>
        b \in Arena /\ \A S \in SUBSET Arena : (a \in S /\ ClosedForward(S)) => b \in S
  BY DEF FollowedBy, ClosedForward
<1>3. a \in FollowedBy(a) /\ FollowedBy(a) \subseteq Arena
  BY <1>2
<1>4. \A S \in SUBSET Arena : (a \in S /\ ClosedForward(S)) => FollowedBy(a) \subseteq S
  BY <1>2
<1>5. ASSUME NEW x \in FollowedBy(a), next[x] # NULL PROVE next[x] \in FollowedBy(a)
  <2>1. next[x] \in Arena
    BY <1>1, <1>3, <1>5
  <2>2. ASSUME NEW S \in SUBSET Arena, a \in S, ClosedForward(S) PROVE next[x] \in S
    BY <1>2, <1>5, <2>2 DEF ClosedForward
  <2> QED BY <1>2, <2>1, <2>2
<1> QED BY <1>3, <1>4, <1>5 DEF ClosedForward

LEMMA Predecessors ==
  ASSUME ListsAgree, NEW a \in Arena
  PROVE  /\ a \in PrecededBy(a) /\ PrecededBy(a) \subseteq Arena
         /\ ClosedBackward(PrecededBy(a))
         /\ \A S \in SUBSET Arena : (a \in S /\ ClosedBackward(S)) => PrecededBy(a) \subseteq S
         /\ \A p \in PrecededBy(a) : \/ p = a
                                     \/ next[p] \in PrecededBy(a)
<1>1. \A x \in Arena : IsTaggedPrevious(previous_or_tail[x]) => /\ previous_or_tail[x].val \in Arena
                                                                /\ next[previous_or_tail[x].val] = x
  BY DEF ListsAgree
<1>2. \A b : b \in PrecededBy(a) <=>
        b \in Arena /\ \A S \in SUBSET Arena : (a \in S /\ ClosedBackward(S)) => b \in S
  BY DEF PrecededBy, ClosedBackward
<1>3. a \in PrecededBy(a) /\ PrecededBy(a) \subseteq Arena
  BY <1>2
<1>4. \A S \in SUBSET Arena : (a \in S /\ ClosedBackward(S)) => PrecededBy(a) \subseteq S
  BY <1>2
<1>5. ASSUME NEW x \in PrecededBy(a), IsTaggedPrevious(previous_or_tail[x])
      PROVE  previous_or_tail[x].val \in PrecededBy(a)
  <2>1. previous_or_tail[x].val \in Arena
    BY <1>1, <1>3, <1>5
  <2>2. ASSUME NEW S \in SUBSET Arena, a \in S, ClosedBackward(S)
        PROVE  previous_or_tail[x].val \in S
    BY <1>2, <1>5, <2>2 DEF ClosedBackward
  <2> QED BY <1>2, <2>1, <2>2
<1>6. ASSUME NEW p \in PrecededBy(a), p # a, next[p] \notin PrecededBy(a) PROVE FALSE
  <2> DEFINE S == PrecededBy(a) \ {p}
  <2>1. S \in SUBSET Arena /\ a \in S
    BY <1>3, <1>6
  <2>2. ClosedBackward(S)
    BY <1>1, <1>3, <1>5, <1>6 DEF ClosedBackward
  <2>3. PrecededBy(a) \subseteq S
    BY <1>4, <2>1, <2>2
  <2> QED BY <1>6, <2>3
<1> QED BY <1>3, <1>4, <1>5, <1>6 DEF ClosedBackward

(* When nobody is fusing, the list is the group.                           *)
LEMMA ListsAreGroups ==
  ASSUME Base, NoCycle, Complete
  PROVE  ListIsGroup
<1>1. SUFFICES ASSUME NEW a \in Live, Fusing(GroupOf(a)) = {}
               PROVE  /\ Listed(a) = GroupOf(a)
                      /\ RootOf[a] = a => FollowedBy(a) = GroupOf(a)
  BY DEF ListIsGroup
<1> DEFINE r == RootOf[a]
           G == GroupOf(a)
<1>t. TypeOK /\ ListsAgree /\ ListInv /\ a \in Arena /\ a \in G
  BY DEF Base, IndInv, GroupInv, Live, GroupOf
<1>2. G = {b \in Arena : RootOf[b] = r}
  BY DEF GroupOf
<1>3. r \in Arena /\ RootOf[r] = r /\ r \in G /\ \A p \in Arena : next[p] # r
  <2>1. r \in Arena /\ RootOf[r] = r /\ ~IsTaggedPointer(parent_or_count[r])
    BY <1>t, RootFacts
  <2> QED BY <1>2, <1>t, <2>1 DEF ListsAgree
<1>4. \A x \in G : next[x] # NULL => next[x] \in G
  <2>1. \A x \in Arena : next[x] # NULL => next[x] \in Arena /\ RootOf[next[x]] = RootOf[x]
    BY <1>t DEF ListInv, Fused, TypeOK, Pointer
  <2> QED BY <1>2, <2>1
<1>5. \A p \in Arena : next[p] \in G => p \in G
  BY <1>2, <1>t, NullIsNoArena DEF ListInv, Fused
<1>6. ASSUME NEW b \in G, b # r
      PROVE  /\ \E p \in G : next[p] = b
             /\ IsTaggedPrevious(previous_or_tail[b])
             /\ previous_or_tail[b].val \in G /\ next[previous_or_tail[b].val] = b
  <2>1. b \in Arena /\ RootOf[b] # b /\ RootOf[b] = r
    BY <1>2, <1>6
  <2>2. ASSUME NEW u \in Thread, pc[u] \in Linking, roots[u].r2 = b PROVE FALSE
    <3>1. CallInv(u) /\ FuseGroup(u) /\ pc[u] \notin {"idle", "ret"}
      BY <2>2 DEF Base, GroupInv, ThreadGroup, Linking
    <3>2. call[u].op = "Fuse" /\ RootOf[b] = RootOf[call[u].a]
      BY <2>2, <3>1 DEF CallInv, FuseGroup, Fused, Linking
    <3>3. call[u].a \in Arena
      BY <3>1, FrameArenas DEF Base
    <3>4. u \in Fusing(G)
      BY <1>2, <2>1, <3>1, <3>2, <3>3 DEF Fusing
    <3> QED BY <1>1, <3>4
  <2>3. PICK p \in Arena : next[p] = b
    BY <2>1, <2>2 DEF Complete
  <2>4. IsTaggedPrevious(previous_or_tail[b])
    BY <2>1, <2>2 DEF Complete
  <2>5. previous_or_tail[b].val \in Arena /\ next[previous_or_tail[b].val] = b
    BY <1>t, <2>1, <2>4 DEF ListsAgree
  <2> QED BY <1>5, <1>6, <2>3, <2>4, <2>5
<1>7. \A x \in {a, r} : /\ x \in FollowedBy(x) /\ FollowedBy(x) \subseteq G
                        /\ ClosedForward(FollowedBy(x))
  <2> SUFFICES ASSUME NEW x \in {a, r}
               PROVE  /\ x \in FollowedBy(x) /\ FollowedBy(x) \subseteq G
                      /\ ClosedForward(FollowedBy(x))
    OBVIOUS
  <2>1. x \in Arena /\ x \in G /\ G \in SUBSET Arena /\ ClosedForward(G)
    BY <1>2, <1>3, <1>4, <1>t DEF ClosedForward
  <2> QED BY <1>t, <2>1, Followers
<1>8. a \in PrecededBy(a) /\ PrecededBy(a) \subseteq G /\ ClosedBackward(PrecededBy(a))
  <2>1. ClosedBackward(G)
    BY <1>2, <1>5, <1>t DEF ClosedBackward, ListsAgree
  <2> QED BY <1>2, <1>t, <2>1, Predecessors
<1>9. r \in PrecededBy(a)
  <2> SUFFICES ASSUME r \notin PrecededBy(a) PROVE FALSE
    OBVIOUS
  <2>1. ASSUME NEW x \in PrecededBy(a) PROVE \E p \in PrecededBy(a) : next[p] = x
    <3>1. x \in G /\ x # r
      BY <1>8, <2>1
    <3> QED BY <1>6, <1>8, <3>1 DEF ClosedBackward
  <2>2. PrecededBy(a) \in SUBSET Arena /\ PrecededBy(a) # {}
    BY <1>2, <1>8
  <2> QED BY <2>1, <2>2 DEF NoCycle
<1>10. ASSUME NEW S \in SUBSET G, r \in S, \A p \in S : next[p] \in S \cup {NULL}
       PROVE  S = G
  <2> SUFFICES ASSUME G \ S # {} PROVE FALSE
    OBVIOUS
  <2>1. G \ S \in SUBSET Arena
    BY <1>2
  <2>2. PICK b \in G \ S : \A p \in G \ S : next[p] # b
    BY <2>1 DEF NoCycle
  <2>3. PICK p \in G : next[p] = b
    BY <1>6, <1>10, <2>2
  <2>4. b # NULL
    BY <1>2, <2>2, NullIsNoArena
  <2> QED BY <1>10, <2>2, <2>3, <2>4
<1>11. FollowedBy(r) = G
  <2>1. \A p \in FollowedBy(r) : next[p] \in FollowedBy(r) \cup {NULL}
    BY <1>7 DEF ClosedForward
  <2> QED BY <1>7, <1>10, <2>1
<1>12. Listed(a) = G
  <2> DEFINE S == FollowedBy(a) \cup PrecededBy(a)
  <2>1. \A p \in S : next[p] \in S \cup {NULL}
    BY <1>7, <1>t, Predecessors DEF ClosedForward
  <2>2. S \in SUBSET G /\ r \in S
    BY <1>7, <1>8, <1>9
  <2> HIDE DEF S
  <2>3. S = G
    BY <1>10, <2>1, <2>2
  <2> QED BY <2>3 DEF S, Listed
<1> QED BY <1>11, <1>12

(* When no upb_Arena_Fuse is in flight, the list through any arena of a    *)
(* group is the whole group: _upb_Arena_DoFree, which starts at the root,  *)
(* reaches every member, and upb_Arena_SpaceAllocated, which starts        *)
(* anywhere, counts every member.                                          *)
THEOREM ListsReachAll == CheckSpec => []ListIsGroup
<1>1. Base /\ ChainInv => ListIsGroup
  BY ListsAreGroups DEF ChainInv
<1> QED BY <1>1, ReferencesSound, ListsComplete, CheckImplies, PTL


-----------------------------------------------------------------------------
(* upb_Arena_SpaceAllocated.                                               *)

\* On the way back from a it has counted S and is at ai: each of them but ai
\* has its predecessor in S.
WayBack(a, ai, S) ==
  /\ S \subseteq PrecededBy(a) /\ ai \in S \cup {a} /\ a \notin S
  /\ \A x \in (S \cup {a}) \ {ai} : /\ IsTaggedPrevious(previous_or_tail[x])
                                    /\ previous_or_tail[x].val \in S

\* On the way forward it has counted S and is at ai: each of them but the
\* first follows one of S.
WayForward(a, ai, S) ==
  /\ S \subseteq Listed(a) /\ ai \in FollowedBy(a) /\ ai \notin S
  /\ \E b : \A x \in (S \cup {ai}) \ {b} : \E p \in S : next[p] = x

\* All that was listed at the call is counted or still ahead.
SpaceInv(t) ==
  LET a == call[t].a
      w == walk[t]
      listed == atStart[t].listed IN
  call[t].op = "SpaceAllocated" =>
    /\ pc[t] \in {"sa_back", "sa_forward", "ret"}
    /\ IsFiniteSet(w.seen) /\ w.n = Cardinality(w.seen)
    /\ pc[t] = "sa_back" => listed \subseteq Listed(a) /\ WayBack(a, w.ai, w.seen)
    /\ pc[t] = "sa_forward" => listed \subseteq w.seen \cup FollowedBy(w.ai)
                               /\ WayForward(a, w.ai, w.seen)
    /\ pc[t] = "ret" => listed \subseteq w.seen /\ w.seen \subseteq Listed(a)


(* A step back finds an arena that has not been counted.                   *)
LEMMA BackMoves ==
  ASSUME ListsAgree, NoCycle, NEW a \in Arena, NEW ai, NEW S \in SUBSET Arena, WayBack(a, ai, S),
         IsTaggedPrevious(previous_or_tail[ai]), NEW p, p = previous_or_tail[ai].val
  PROVE  p \notin S /\ WayBack(a, p, S \cup {p})
<1>1. ai \in Arena /\ p \in Arena
  BY DEF WayBack, ListsAgree
<1>2. \A x \in S \cup {a} : /\ IsTaggedPrevious(previous_or_tail[x])
                            /\ previous_or_tail[x].val \in S \cup {p}
                            /\ next[previous_or_tail[x].val] = x
  BY DEF WayBack, ListsAgree
<1>3. p \notin S \cup {a}
  <2> SUFFICES ASSUME p \in S \cup {a} PROVE FALSE
    OBVIOUS
  <2>1. \A x \in S \cup {a} : \E q \in S \cup {a} : next[q] = x
    BY <1>2
  <2>2. S \cup {a} \in SUBSET Arena /\ S \cup {a} # {}
    OBVIOUS
  <2> HIDE DEF WayBack
  <2> QED BY <2>1, <2>2 DEF NoCycle
<1>4. p \in PrecededBy(a)
  <2>1. ai \in PrecededBy(a)
    BY Predecessors DEF WayBack
  <2> QED BY <2>1, Predecessors DEF ClosedBackward
<1> QED BY <1>2, <1>3, <1>4 DEF WayBack

(* At the end of the way back, all that is listed and not ahead is counted.*)
LEMMA BackEnds ==
  ASSUME TypeOK, ListsAgree, NEW a \in Arena, NEW ai, NEW S \in SUBSET Arena, WayBack(a, ai, S),
         ~IsTaggedPrevious(previous_or_tail[ai])
  PROVE  Listed(a) \subseteq S \cup FollowedBy(a) /\ WayForward(a, a, S)
<1>1. ClosedBackward(S \cup {a})
  BY DEF WayBack, ClosedBackward
<1>2. PrecededBy(a) \subseteq S \cup {a}
  BY <1>1, Predecessors
<1>3. a \in FollowedBy(a)
  BY Followers
<1>4. Listed(a) \subseteq S \cup FollowedBy(a)
  BY <1>2, <1>3 DEF Listed
<1>5. \A x \in (S \cup {a}) \ {ai} : \E p \in S : next[p] = x
  BY DEF WayBack, ListsAgree
<1> QED BY <1>3, <1>4, <1>5 DEF WayBack, WayForward, Listed

(* A step forward finds an arena that has not been counted.                *)
LEMMA ForwardMoves ==
  ASSUME TypeOK, ListsAgree, NoCycle, NEW a \in Arena, NEW ai, NEW S \in SUBSET Arena,
         WayForward(a, ai, S), next[ai] # NULL
  PROVE  /\ WayForward(a, next[ai], S \cup {ai})
         /\ FollowedBy(ai) \subseteq {ai} \cup FollowedBy(next[ai])
<1> DEFINE y == next[ai]
<1>1. ai \in Arena /\ y \in Arena /\ y \in FollowedBy(a)
  <2>1. ai \in FollowedBy(a) /\ ai \in Arena
    BY Followers DEF WayForward
  <2>2. y \in Arena
    BY <2>1 DEF TypeOK, Pointer
  <2> QED BY <2>1, <2>2, Followers DEF ClosedForward
<1>2. PICK b : \A x \in (S \cup {ai}) \ {b} : \E p \in S : next[p] = x
  BY DEF WayForward
<1>3. y \notin S \cup {ai}
  <2> SUFFICES ASSUME y \in S \cup {ai} PROVE FALSE
    OBVIOUS
  <2>1. y = b
    <3> SUFFICES ASSUME y # b PROVE FALSE
      OBVIOUS
    <3>1. PICK p \in S : next[p] = y
      BY <1>2
    <3>2. p = ai
      BY <1>1, <3>1 DEF ListsAgree
    <3> QED BY <3>1, <3>2 DEF WayForward
  <2>2. \A x \in S \cup {ai} : \E p \in S \cup {ai} : next[p] = x
    BY <1>2, <2>1
  <2>3. S \cup {ai} \in SUBSET Arena /\ S \cup {ai} # {}
    BY <1>1
  <2> QED BY <2>2, <2>3 DEF NoCycle
<1>4. \A x \in ((S \cup {ai}) \cup {y}) \ {b} : \E p \in S \cup {ai} : next[p] = x
  BY <1>2
<1>5. S \cup {ai} \subseteq Listed(a)
  BY DEF WayForward, Listed
<1>6. FollowedBy(ai) \subseteq {ai} \cup FollowedBy(y)
  <2>1. y \in FollowedBy(y) /\ FollowedBy(y) \subseteq Arena /\ ClosedForward(FollowedBy(y))
    BY <1>1, Followers
  <2>2. ClosedForward({ai} \cup FollowedBy(y)) /\ {ai} \cup FollowedBy(y) \in SUBSET Arena
    BY <1>1, <2>1 DEF ClosedForward
  <2> QED BY <1>1, <2>2, Followers
<1> QED BY <1>1, <1>3, <1>4, <1>5, <1>6 DEF WayForward

LEMMA ForwardEnds ==
  ASSUME TypeOK, NEW a \in Arena, NEW ai, NEW S \in SUBSET Arena,
         WayForward(a, ai, S), next[ai] = NULL
  PROVE  S \cup {ai} \subseteq Listed(a) /\ FollowedBy(ai) \subseteq {ai}
<1>1. ai \in Arena
  BY Followers DEF WayForward
<1>2. ClosedForward({ai})
  BY DEF ClosedForward
<1>3. FollowedBy(ai) \subseteq {ai}
  BY <1>1, <1>2, Followers
<1> QED BY <1>3 DEF WayForward, Listed

\* What Followers and Predecessors say of the closures.
Closures ==
  \A a \in Arena :
    /\ a \in FollowedBy(a) /\ FollowedBy(a) \subseteq Arena /\ ClosedForward(FollowedBy(a))
    /\ a \in PrecededBy(a) /\ PrecededBy(a) \subseteq Arena /\ ClosedBackward(PrecededBy(a))

LEMMA ArenaClosures == IndInv => Closures
  BY Followers, Predecessors DEF IndInv, Closures

(* Successors and predecessors are final, so lists only grow.              *)
LEMMA ListsGrow ==
  ASSUME IndInv, IndInv', Monotone, NEW a \in Arena
  PROVE  /\ FollowedBy(a) \subseteq FollowedBy(a)' /\ PrecededBy(a) \subseteq PrecededBy(a)'
         /\ Listed(a) \subseteq Listed(a)'
<1>2. (IndInv => Closures)'
  BY ArenaClosures, PTL
<1>3. PICK F : F = FollowedBy(a)'
  OBVIOUS
<1>4. PICK P : P = PrecededBy(a)'
  OBVIOUS
<1>5. /\ a \in F /\ F \subseteq Arena /\ \A x \in F : next'[x] \in F \cup {NULL}
      /\ a \in P /\ P \subseteq Arena
      /\ \A x \in P : IsTaggedPrevious(previous_or_tail'[x]) => previous_or_tail'[x].val \in P
  <2>1. Closures'
    BY <1>2
  <2> QED BY <1>3, <1>4, <2>1 DEF Closures, ClosedForward, ClosedBackward
<1>6. ClosedForward(F) /\ ClosedBackward(P)
  BY <1>5 DEF Monotone, ClosedForward, ClosedBackward, IsTaggedPrevious
<1>7. FollowedBy(a) \subseteq F /\ PrecededBy(a) \subseteq P
  BY <1>5, <1>6, Followers, Predecessors DEF IndInv
<1>8. Listed(a) \subseteq F \cup P /\ Listed(a)' = F \cup P
  BY <1>3, <1>4, <1>7 DEF Listed
<1> QED BY <1>3, <1>4, <1>7, <1>8


(* What the history keeps of the list when a call starts.                  *)
LEMMA RememberList ==
  ASSUME [CheckNext]_<<vars, atStart>>, NEW t \in Thread, pc[t] = "idle", NEW a, a = call'[t].a,
         pc'[t] # "idle"
  PROVE  atStart'[t].listed = Listed(a)
<1>1. CASE CheckNext
  BY <1>1 DEF CheckNext, Remember
<1>2. CASE UNCHANGED <<vars, atStart>>
  BY <1>2 DEF vars
<1> QED BY <1>1, <1>2

(* Steps of others only add to the lists.                                  *)
LEMMA OthersSpace ==
  ASSUME IndInv, IndInv', GroupInv, Monotone, NEW t \in Thread, SpaceInv(t),
         pc'[t] = pc[t], call'[t] = call[t], walk'[t] = walk[t],
         pc[t] # "idle" => atStart'[t] = atStart[t]
  PROVE  SpaceInv(t)'
<1>1. SUFFICES ASSUME call[t].op = "SpaceAllocated" PROVE SpaceInv(t)'
  BY DEF SpaceInv
<1>t. /\ pc[t] \in {"sa_back", "sa_forward", "ret"} /\ TypeOK /\ ListsAgree
      /\ CallInv(t) /\ pc[t] # "idle"
  BY <1>1 DEF SpaceInv, IndInv, GroupInv, ThreadGroup
<1>2. PICK a : a = call[t].a
  OBVIOUS
<1>3. PICK ai : ai = walk[t].ai
  OBVIOUS
<1>4. PICK S : S = walk[t].seen
  OBVIOUS
<1>5. a \in Arena /\ S \subseteq Arena /\ atStart'[t] = atStart[t]
  BY <1>2, <1>4, <1>t, FrameArenas DEF TypeOK
<1>6. FollowedBy(a) \subseteq FollowedBy(a)' /\ PrecededBy(a) \subseteq PrecededBy(a)'
      /\ Listed(a) \subseteq Listed(a)'
  BY <1>5, ListsGrow
<1>7. IsFiniteSet(S) /\ walk[t].n = Cardinality(S)
  BY <1>1, <1>4 DEF SpaceInv
<1>8. CASE pc[t] = "sa_back"
  <2>1. atStart[t].listed \subseteq Listed(a) /\ WayBack(a, ai, S)
    BY <1>1, <1>2, <1>3, <1>4, <1>8 DEF SpaceInv
  <2>2. WayBack(a, ai, S)'
    BY <1>5, <1>6, <2>1 DEF WayBack, Monotone, IsTaggedPrevious
  <2> QED BY <1>2, <1>3, <1>4, <1>5, <1>6, <1>7, <1>8, <2>1, <2>2 DEF SpaceInv
<1>9. CASE pc[t] = "sa_forward"
  <2>1. atStart[t].listed \subseteq S \cup FollowedBy(ai) /\ WayForward(a, ai, S)
    BY <1>1, <1>2, <1>3, <1>4, <1>9 DEF SpaceInv
  <2>2. ai \in Arena
    BY <1>5, <1>t, <2>1, Followers DEF WayForward
  <2>3. FollowedBy(ai) \subseteq FollowedBy(ai)'
    BY <2>2, ListsGrow
  <2>4. WayForward(a, ai, S)'
    <3>1. PICK b : \A x \in (S \cup {ai}) \ {b} : \E p \in S : next[p] = x
      BY <2>1 DEF WayForward
    <3>2. \A x \in (S \cup {ai}) \ {b} : \E p \in S : next'[p] = x
      BY <1>5, <2>2, <3>1, NullIsNoArena DEF Monotone
    <3> QED BY <1>6, <2>1, <3>2 DEF WayForward
  <2> QED BY <1>2, <1>3, <1>4, <1>5, <1>6, <1>7, <1>9, <2>1, <2>3, <2>4 DEF SpaceInv
<1>10. CASE pc[t] = "ret"
  <2>1. atStart[t].listed \subseteq S /\ S \subseteq Listed(a)
    BY <1>1, <1>2, <1>4, <1>10 DEF SpaceInv
  <2> QED BY <1>2, <1>4, <1>5, <1>6, <1>7, <1>10, <2>1 DEF SpaceInv
<1> QED BY <1>t, <1>8, <1>9, <1>10

LEMMA OwnSpace ==
  ASSUME IndInv, GroupInv, NoCycle, NEW t \in Thread, SpaceInv(t), Step(t), pc'[t] # "idle",
         atStart'[t] = atStart[t]
  PROVE  SpaceInv(t)'
<1>1. SUFFICES ASSUME call[t].op = "SpaceAllocated" PROVE SpaceInv(t)'
  BY StepArgs DEF SpaceInv, IndInv
<1>t. /\ pc[t] \in {"sa_back", "sa_forward", "ret"} /\ TypeOK /\ ListsAgree
      /\ CallInv(t) /\ pc[t] # "idle"
  BY <1>1 DEF SpaceInv, IndInv, GroupInv, ThreadGroup
<1>2. PICK a : a = call[t].a
  OBVIOUS
<1>3. PICK ai : ai = walk[t].ai
  OBVIOUS
<1>4. PICK S : S = walk[t].seen
  OBVIOUS
<1>5. a \in Arena /\ S \in SUBSET Arena /\ call'[t].a = a
  BY <1>2, <1>4, <1>t, FrameArenas, StepArgs DEF TypeOK
<1>7. IsFiniteSet(S) /\ walk[t].n = Cardinality(S)
  BY <1>1, <1>4 DEF SpaceInv
<1>8. SpaceAllocatedBack(t) \/ SpaceAllocatedForward(t)
  <2>1. ~Return(t)
    BY <1>t DEF Return, Goto, TypeOK
  <2> QED BY <1>t, <2>1 DEF Step, FindRootLoad, FindRootReload, FindRootNext, FindRootSplit,
     FuseCasR1, FuseCasR2, LinkForwardTail, LinkForwardNext, LinkForwardCas, UpdateTailLoadChild,
     UpdateTailLoadParent, UpdateTailCas, LinkBackward, FixupLoad, FixupCas, IncRefCas,
     IncRefCasFails, FreeLoad, FreeCas, DoFreeNext, DoFreeBlocks, Finding
<1>9. /\ \A x, y, T : /\ WayBack(x, y, T)' <=> WayBack(x, y, T)
                      /\ WayForward(x, y, T)' <=> WayForward(x, y, T)
      /\ \A x : Listed(x)' = Listed(x) /\ FollowedBy(x)' = FollowedBy(x)
  <2>1. UNCHANGED <<next, previous_or_tail>>
    BY <1>8 DEF SpaceAllocatedBack, SpaceAllocatedForward, memory
  <2>2. \A x : FollowedBy(x)' = FollowedBy(x) /\ PrecededBy(x)' = PrecededBy(x)
    BY <2>1 DEF FollowedBy, PrecededBy
  <2>3. \A x : Listed(x)' = Listed(x)
    BY <2>2 DEF Listed
  <2>4. \A x, y, T : WayBack(x, y, T)' <=> WayBack(x, y, T)
    BY <2>1, <2>2 DEF WayBack
  <2>5. \A x, y, T : WayForward(x, y, T)' <=> WayForward(x, y, T)
    BY <2>1, <2>2, <2>3 DEF WayForward
  <2> QED BY <2>2, <2>3, <2>4, <2>5
<1>10. CASE SpaceAllocatedBack(t)
  <2>1. pc[t] = "sa_back" /\ call' = call
    BY <1>10 DEF SpaceAllocatedBack
  <2>2. atStart[t].listed \subseteq Listed(a) /\ WayBack(a, ai, S)
    BY <1>1, <1>2, <1>3, <1>4, <2>1 DEF SpaceInv
  <2>3. CASE IsTaggedPrevious(previous_or_tail[ai])
    <3>1. PICK p : p = previous_or_tail[ai].val
      OBVIOUS
    <3>2. /\ walk'[t].ai = p /\ walk'[t].n = walk[t].n + 1 /\ walk'[t].seen = S \cup {p}
          /\ pc'[t] = "sa_back"
      BY <1>3, <1>4, <1>10, <1>t, <2>3, <3>1
         DEF SpaceAllocatedBack, IsTaggedPrevious, IsTaggedTail, WalkFrame, TypeOK
    <3>3. p \notin S /\ WayBack(a, p, S \cup {p})
      BY <1>5, <1>t, <2>2, <2>3, <3>1, BackMoves
    <3>4. IsFiniteSet(S \cup {p}) /\ walk'[t].n = Cardinality(S \cup {p})
      <4>1. IsFiniteSet(S \cup {p}) /\ Cardinality(S \cup {p}) = Cardinality(S) + 1
        BY <1>7, <3>3, FS_AddElement
      <4> QED BY <1>7, <3>2, <4>1
    <3> QED BY <1>5, <1>9, <2>1, <2>2, <3>2, <3>3, <3>4 DEF SpaceInv
  <2>4. CASE ~IsTaggedPrevious(previous_or_tail[ai])
    <3>1. walk'[t].ai = a /\ walk'[t].n = walk[t].n /\ walk'[t].seen = S /\ pc'[t] = "sa_forward"
      BY <1>2, <1>3, <1>4, <1>10, <1>t, <2>4 DEF SpaceAllocatedBack, WalkFrame, Goto, TypeOK
    <3>2. Listed(a) \subseteq S \cup FollowedBy(a) /\ WayForward(a, a, S)
      BY <1>5, <1>t, <2>2, <2>4, BackEnds
    <3>3. atStart[t].listed \subseteq S \cup FollowedBy(a)
      BY <2>2, <3>2
    <3> QED BY <1>5, <1>7, <1>9, <2>1, <3>1, <3>2, <3>3 DEF SpaceInv
  <2> QED BY <2>3, <2>4
<1>11. CASE SpaceAllocatedForward(t)
  <2>1. /\ pc[t] = "sa_forward" /\ call'[t].op = "SpaceAllocated"
        /\ walk'[t].ai = next[ai] /\ walk'[t].n = walk[t].n + 1 /\ walk'[t].seen = S \cup {ai}
    BY <1>1, <1>3, <1>4, <1>11, <1>t, StepArgs DEF SpaceAllocatedForward, WalkFrame, TypeOK
  <2>2. atStart[t].listed \subseteq S \cup FollowedBy(ai) /\ WayForward(a, ai, S)
    BY <1>1, <1>2, <1>3, <1>4, <2>1 DEF SpaceInv
  <2>3. IsFiniteSet(S \cup {ai}) /\ walk'[t].n = Cardinality(S \cup {ai})
    <3>1. ai \notin S
      BY <2>2 DEF WayForward
    <3>2. IsFiniteSet(S \cup {ai}) /\ Cardinality(S \cup {ai}) = Cardinality(S) + 1
      BY <1>7, <3>1, FS_AddElement
    <3> QED BY <1>7, <2>1, <3>2
  <2>4. CASE next[ai] # NULL
    <3>1. pc'[t] = "sa_forward"
      BY <1>3, <1>11, <2>1, <2>4 DEF SpaceAllocatedForward
    <3>2. /\ WayForward(a, next[ai], S \cup {ai})
          /\ FollowedBy(ai) \subseteq {ai} \cup FollowedBy(next[ai])
      BY <1>5, <1>t, <2>2, <2>4, ForwardMoves
    <3>3. PICK y : y = next[ai]
      OBVIOUS
    <3>4. atStart[t].listed \subseteq (S \cup {ai}) \cup FollowedBy(y)
      BY <2>2, <3>2, <3>3
    <3>5. WayForward(a, y, S \cup {ai})
      BY <3>2, <3>3
    <3>6. walk'[t].ai = y
      BY <2>1, <3>3
    <3> QED BY <1>5, <1>9, <2>1, <2>3, <3>1, <3>4, <3>5, <3>6 DEF SpaceInv
  <2>5. CASE next[ai] = NULL
    <3>1. pc'[t] = "ret"
      BY <1>3, <1>11, <1>t, <2>1, <2>5, FinishFacts DEF SpaceAllocatedForward
    <3>2. S \cup {ai} \subseteq Listed(a) /\ FollowedBy(ai) \subseteq {ai}
      BY <1>5, <1>t, <2>2, <2>5, ForwardEnds
    <3>3. atStart[t].listed \subseteq S \cup {ai}
      BY <2>2, <3>2
    <3> QED BY <1>5, <1>9, <2>1, <2>3, <3>1, <3>2, <3>3 DEF SpaceInv
  <2> QED BY <2>4, <2>5
<1> QED BY <1>8, <1>10, <1>11

LEMMA CallSpace ==
  ASSUME IndInv, NEW t \in Thread, NEW a \in Arena, SpaceAllocated(t, a),
         atStart'[t].listed = Listed(a)
  PROVE  SpaceInv(t)'
<1>t. TypeOK
  BY DEF IndInv
<1>1. /\ call'[t].a = a /\ walk'[t].ai = a /\ walk'[t].n = 0 /\ walk'[t].seen = {}
      /\ pc'[t] = "sa_back" /\ UNCHANGED <<next, previous_or_tail>>
  BY <1>t DEF SpaceAllocated, Call, WalkFrame, Goto, memory, TypeOK
<1>2. Listed(a)' = Listed(a)
  BY <1>1 DEF Listed, FollowedBy, PrecededBy
<1>3. WayBack(a, a, {})'
  BY DEF WayBack
<1>4. IsFiniteSet({}) /\ Cardinality({}) = 0
  BY FS_EmptySet
<1> QED BY <1>1, <1>2, <1>3, <1>4 DEF SpaceInv

LEMMA NextSpace ==
  IndInv /\ IndInv' /\ GroupInv /\ ChainInv /\ (\A t \in Thread : SpaceInv(t))
    /\ [CheckNext]_<<vars, atStart>> => \A t \in Thread : SpaceInv(t)'
<1> SUFFICES ASSUME IndInv, IndInv', GroupInv, ChainInv, \A t \in Thread : SpaceInv(t),
                    [CheckNext]_<<vars, atStart>>, NEW t \in Thread
             PROVE  SpaceInv(t)'
  OBVIOUS
<1>t. TypeOK /\ NoCycle
  BY DEF IndInv, ChainInv
<1>1. [Next]_vars
  BY DEF CheckNext
<1>2. ASSUME Monotone, pc'[t] = pc[t], call'[t] = call[t], walk'[t] = walk[t]
      PROVE  SpaceInv(t)'
  <2>1. pc[t] # "idle" => atStart'[t] = atStart[t]
    BY <1>2, RememberFacts
  <2> QED BY <1>2, <2>1, OthersSpace
<1>3. CASE UNCHANGED vars
  <2>1. Monotone
    BY <1>3 DEF Monotone, vars, memory, Born
  <2> QED BY <1>2, <1>3, <2>1 DEF vars
<1>4. ASSUME NEW a \in Arena, NEW i \in BOOLEAN, Arena_Init(a, i) PROVE SpaceInv(t)'
  <2>1. Monotone
    BY <1>4, CreateInd
  <2> QED BY <1>2, <1>4, <2>1 DEF Arena_Init
<1>5. ASSUME NEW u \in Thread, Caller(u) \/ Step(u) PROVE SpaceInv(t)'
  <2>1. Monotone
    BY <1>5, StepInd
  <2>2. CASE u # t
    BY <1>2, <1>5, <1>t, <2>1, <2>2, StepKeeps DEF OthersKeep
  <2>3. CASE u = t /\ Caller(u)
    <3>1. SUFFICES ASSUME call'[t].op = "SpaceAllocated" PROVE SpaceInv(t)'
      BY DEF SpaceInv
    <3>2. PICK a \in Arena : SpaceAllocated(t, a)
      BY <1>t, <2>3, <3>1 DEF Caller, Fuse, IsFused, Free, IncRefFor, DebugRefCount, Call, TypeOK
    <3>3. pc[t] = "idle" /\ pc'[t] # "idle" /\ a = call'[t].a
      BY <1>t, <3>2 DEF SpaceAllocated, StartCall, Goto, Call, TypeOK
    <3> QED BY <3>2, <3>3, RememberList, CallSpace
  <2>4. CASE u = t /\ Step(u)
    <3>1. CASE pc'[t] = "idle"
      <4>1. call'[t].op = "none"
        <5>1. (\A v \in Thread : CallInv(v))'
          BY <1>1, NextGroup DEF GroupInv, ThreadGroup
        <5> QED BY <3>1, <5>1 DEF CallInv
      <4> QED BY <4>1 DEF SpaceInv
    <3>2. CASE pc'[t] # "idle"
      BY <1>t, <2>4, <3>2, OwnSpace, RememberFacts, StepArgs
    <3> QED BY <3>1, <3>2
  <2> QED BY <1>5, <2>2, <2>3, <2>4
<1> QED BY <1>1, <1>3, <1>4, <1>5 DEF Next

(* upb_Arena_SpaceAllocated, which goes back and then forward through a    *)
(* list that other threads are appending to, counts no arena twice, every  *)
(* arena that was listed when it was called, and none that is not listed   *)
(* when it returns.                                                        *)
THEOREM SpaceIsCounted == CheckSpec => []SpaceAllocatedResult
<1>1. CheckSpec => [](IndInv /\ GroupInv /\ ChainInv)
  BY CheckImplies, Inductive, GroupsSound, ListsComplete, PTL
<1>2. CheckInit => \A t \in Thread : SpaceInv(t)
  BY DEF CheckInit, Init, InitThreads, NoCall, Call, SpaceInv
<1>3. (\A t \in Thread : SpaceInv(t)) => SpaceAllocatedResult
  BY DEF SpaceInv, SpaceAllocatedResult
<1>4. (\A t \in Thread : SpaceInv(t))' <=> (\A t \in Thread : SpaceInv(t)')
  OBVIOUS
<1> QED BY <1>1, <1>2, <1>3, <1>4, NextSpace, PTL DEF CheckSpec
=============================================================================

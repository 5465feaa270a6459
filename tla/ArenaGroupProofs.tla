-------------------------- MODULE ArenaGroupProofs --------------------------
(***************************************************************************)
(* Proofs about the groups of fused arenas: parents lead to one root, what *)
(* has been fused stays fused, and every pointer a thread or a list holds  *)
(* stays within the groups its call is about.                              *)
(***************************************************************************)
EXTENDS ArenaCheck, ArenaProofs, FiniteSetTheorems, WellFoundedInduction

-----------------------------------------------------------------------------
(* The inductive invariant.                                                *)

\* RootOf is well defined, and a root lies at or below its arenas.
RootInv ==
  /\ RootOf \in [Arena -> Arena]
  /\ \A a \in Arena :
       /\ RootOf[a] = IF IsTaggedPointer(parent_or_count[a])
                      THEN RootOf[parent_or_count[a].val] ELSE a
       /\ RootOf[a] <= a
       /\ IsTaggedRefcount(parent_or_count[RootOf[a]])

\* The lists stay within the groups.
ListInv ==
  \A a \in Arena :
    /\ next[a] # NULL => Fused(next[a], a)
    /\ a \in Born => Fused(previous_or_tail[a].val, a)

\* The operation that the labels of a thread belong to, and its arguments.
CallInv(t) ==
  LET op  == call[t].op
      ret == find[t].ret IN
  /\ pc[t] = "idle" <=> op = "none"
  /\ pc[t] # "idle" => call[t].a \in Born /\ call[t].b \in Born
  /\ op \notin {"Fuse", "IsFused"} => call[t].a = call[t].b
  /\ pc[t] \in {"cas_r1", "cas_r2", "fx_load", "fx_cas"} \cup Linking => op = "Fuse"
  /\ pc[t] = "inc_cas" => op = "IncRefFor"
  /\ pc[t] \in {"sa_back", "sa_forward"} => op = "SpaceAllocated"
  /\ pc[t] \in {"free_load", "free_cas", "df_next", "df_blocks"} => op = "Free"
  /\ pc[t] \in Finding =>
       \/ ret \in {"fuse1", "fuse2"} /\ op = "Fuse"
       \/ ret = "incref" /\ op = "IncRefFor"
       \/ ret = "debug" /\ op = "DebugRefCount"
       \/ ret \in {"isfused_a", "isfused_b", "isfused_again"} /\ op = "IsFused"

\* The argument whose root FindRoot is looking for.
Wanted(t) == IF find[t].ret \in {"fuse2", "isfused_b"} THEN call[t].b ELSE call[t].a

FindGroup(t) ==
  LET f == find[t] IN
  pc[t] \in Finding =>
    /\ Fused(f.ai, Wanted(t))
    /\ f.ret = "fuse2" => Fused(roots[t].r1, call[t].a)
    /\ f.ret \in {"isfused_a", "isfused_b", "isfused_again"} => Fused(walk[t].ai, call[t].b)
    /\ f.ret \in {"isfused_b", "isfused_again"} => Fused(walk[t].other, call[t].a)
    /\ pc[t] = "fr_next" => Fused(f.poc.val, f.ai)
    /\ pc[t] = "fr_split" => Fused(f.nxt, f.ai) /\ Fused(f.poc.val, f.ai)

FuseGroup(t) ==
  LET c == call[t]
      r == roots[t] IN
  /\ (c.op = "Fuse" /\ pc[t] # "ret") => Fused(fuse[t].ai1, c.a) /\ Fused(fuse[t].ai2, c.b)
  /\ pc[t] \in {"cas_r1", "cas_r2"} => \/ Fused(r.r1, c.a) /\ Fused(r.r2, c.b)
                                       \/ Fused(r.r1, c.b) /\ Fused(r.r2, c.a)
  /\ pc[t] \in Linking \cup {"fx_load", "fx_cas"} => Fused(c.a, c.b) /\ Fused(r.r1, c.a)
  /\ pc[t] \in Linking => Fused(r.r2, c.a)
  /\ pc[t] \in Linking \ {"lf_tail"} => Fused(link[t].tail, c.a)
  /\ pc[t] \in {"ut_parent", "ut_cas"} => Fused(link[t].newtail, c.a)
  /\ (pc[t] = "ret" /\ c.op \in {"Fuse", "IsFused"} /\ c.ans) => Fused(c.a, c.b)

WalkGroup(t) ==
  /\ pc[t] \in Walking => Fused(walk[t].ai, call[t].a)
  /\ (pc[t] = "df_blocks" /\ walk[t].other # NULL) => Fused(walk[t].other, call[t].a)

ThreadGroup(t) == CallInv(t) /\ FindGroup(t) /\ FuseGroup(t) /\ WalkGroup(t)

GroupInv == RootInv /\ ListInv /\ \A t \in Thread : ThreadGroup(t)

-----------------------------------------------------------------------------
(* Roots.                                                                  *)

(* A set of numbers that is not empty has a least element.                 *)
LEMMA LeastElement ==
  ASSUME NEW S \in SUBSET Nat, S # {}
  PROVE  \E x \in S : \A y \in S : x <= y
<1>1. IsWellFoundedOn(OpToRel(<, Nat), Nat)
  BY NatLessThanWellFounded
<1>2. PICK x \in S : \A y \in S : ~(<<y, x>> \in OpToRel(<, Nat))
  BY <1>1, WFMin
<1>3. \A y \in S : ~(y < x)
  BY <1>2 DEF OpToRel
<1> QED BY <1>3

\* A solution of the equation that defines RootOf.
IsRootMap(f) ==
  f = [a \in Arena |-> IF IsTaggedPointer(parent_or_count[a])
                       THEN f[parent_or_count[a].val] ELSE a]

(* Parents have lower addresses, so the equation has one solution at most: *)
(* two solutions cannot differ at a lowest address.                        *)
LEMMA RootUnique ==
  ASSUME TypeOK, ParentBelow, NEW f, NEW g, IsRootMap(f), IsRootMap(g)
  PROVE  f = g
<1> DEFINE D == {a \in Arena : f[a] # g[a]}
<1>1. SUFFICES D = {}
  BY DEF IsRootMap
<1>2. SUFFICES ASSUME D # {} PROVE FALSE
  OBVIOUS
<1>3. PICK a \in D : \A b \in D : a <= b
  BY <1>2, LeastElement, ArenaAssumption
<1>4. a \in Arena /\ f[a] # g[a] /\ a \in Nat
  BY <1>3, ArenaAssumption
<1>5. CASE IsTaggedPointer(parent_or_count[a])
  <2>1. PICK p \in Arena : p = parent_or_count[a].val /\ p < a
    BY <1>4, <1>5, WordCases DEF TypeOK, ParentBelow
  <2>2. f[a] = f[p] /\ g[a] = g[p]
    BY <1>4, <1>5, <2>1 DEF IsRootMap
  <2>3. a <= p
    BY <1>3, <1>4, <2>1, <2>2
  <2>4. p \in Nat
    BY <2>1, ArenaAssumption
  <2> QED BY <2>1, <2>3, <2>4, <1>4
<1>6. CASE ~IsTaggedPointer(parent_or_count[a])
  BY <1>4, <1>6 DEF IsRootMap
<1> QED BY <1>5, <1>6

(* RootOf is the solution, if there is one.                                *)
LEMMA RootIs ==
  ASSUME TypeOK, ParentBelow, NEW f, IsRootMap(f)
  PROVE  RootOf = f
<1>1. IsRootMap(RootOf)
  BY DEF RootOf, IsRootMap
<1> QED BY <1>1, RootUnique

(* The same in the state after a step.                                     *)
LEMMA RootIsNext ==
  ASSUME TypeOK', ParentBelow', NEW f,
         f = [a \in Arena |-> IF IsTaggedPointer(parent_or_count'[a])
                              THEN f[parent_or_count'[a].val] ELSE a]
  PROVE  RootOf' = f
<1>1. (TypeOK /\ ParentBelow /\ IsRootMap(f) => RootOf = f)'
  BY RootIs, PTL
<1> QED BY <1>1 DEF IsRootMap

(* A change that leaves roots roots and parents within the group keeps     *)
(* RootOf.                                                                 *)
LEMMA RootKept ==
  ASSUME TypeOK', ParentBelow', RootInv,
         \A a \in Arena : IsTaggedPointer(parent_or_count'[a]) <=> IsTaggedPointer(parent_or_count[a]),
         \A a \in Arena : IsTaggedPointer(parent_or_count'[a]) =>
                            RootOf[parent_or_count'[a].val] = RootOf[a]
  PROVE  RootInv' /\ RootOf' = RootOf
<1> DEFINE f == RootOf
<1>1. f = [a \in Arena |-> IF IsTaggedPointer(parent_or_count'[a])
                           THEN f[parent_or_count'[a].val] ELSE a]
  <2>1. \A a \in Arena : f[a] = IF IsTaggedPointer(parent_or_count'[a])
                                THEN f[parent_or_count'[a].val] ELSE a
    BY DEF RootInv
  <2>2. f = [a \in Arena |-> f[a]]
    BY DEF RootInv
  <2> HIDE DEF f
  <2> QED BY <2>1, <2>2
<1>2. RootOf' = f
  <2> HIDE DEF f
  <2> QED BY <1>1, RootIsNext
<1>3. \A a \in Arena : IsTaggedRefcount(parent_or_count'[a]) <=> ~IsTaggedPointer(parent_or_count'[a])
  BY WordCases DEF TypeOK
<1>4. \A a \in Arena : ~IsTaggedPointer(parent_or_count[RootOf[a]])
  BY DEF RootInv, IsTaggedRefcount, IsTaggedPointer
<1>5. RootOf \in [Arena -> Arena] /\ \A a \in Arena : RootOf[a] <= a
  BY DEF RootInv
<1>6. \A a \in Arena : RootOf[a] = IF IsTaggedPointer(parent_or_count'[a])
                                   THEN RootOf[parent_or_count'[a].val] ELSE a
  BY DEF RootInv
<1> QED BY <1>2, <1>3, <1>4, <1>5, <1>6 DEF RootInv

\* The group of root y has joined the group of x.
Joined(x, y) == RootOf' = [a \in Arena |-> IF RootOf[a] = y THEN RootOf[x] ELSE RootOf[a]]

(* A root that becomes a child of x takes its group with it.               *)
LEMMA RootJoined ==
  ASSUME TypeOK, TypeOK', ParentBelow', RootInv, NEW x \in Arena, NEW y \in Arena, x < y,
         IsTaggedRefcount(parent_or_count[y]),
         parent_or_count' = [parent_or_count EXCEPT ![y] = TaggedFromPointer(x)]
  PROVE  RootInv' /\ Joined(x, y)
<1> DEFINE f == [a \in Arena |-> IF RootOf[a] = y THEN RootOf[x] ELSE RootOf[a]]
<1>1. /\ \A a \in Arena \ {y} : parent_or_count'[a] = parent_or_count[a]
      /\ IsTaggedPointer(parent_or_count'[y]) /\ parent_or_count'[y].val = x
      /\ ~IsTaggedPointer(parent_or_count[y])
  BY DEF TypeOK, TaggedFromPointer, IsTaggedPointer, IsTaggedRefcount
<1>2. /\ RootOf[y] = y /\ RootOf[x] # y /\ RootOf[x] \in Arena
      /\ \A a \in Arena : RootOf[a] \in Arena
  BY <1>1, ArenaAssumption DEF RootInv
<1>3. \A a \in Arena : f[a] = IF IsTaggedPointer(parent_or_count'[a])
                              THEN f[parent_or_count'[a].val] ELSE a
  <2> SUFFICES ASSUME NEW a \in Arena
               PROVE  f[a] = IF IsTaggedPointer(parent_or_count'[a])
                             THEN f[parent_or_count'[a].val] ELSE a
    OBVIOUS
  <2>1. CASE a = y
    BY <2>1, <1>1, <1>2
  <2>2. CASE a # y /\ IsTaggedPointer(parent_or_count[a])
    <3>1. parent_or_count[a].val \in Arena
      BY <2>2, WordCases DEF TypeOK
    <3>2. RootOf[a] = RootOf[parent_or_count[a].val]
      BY <2>2 DEF RootInv
    <3> QED BY <2>2, <3>1, <3>2, <1>1
  <2>3. CASE a # y /\ ~IsTaggedPointer(parent_or_count[a])
    <3>1. RootOf[a] = a
      BY <2>3 DEF RootInv
    <3> QED BY <2>3, <3>1, <1>1
  <2> QED BY <2>1, <2>2, <2>3
<1>4. RootOf' = f
  <2>1. f = [a \in Arena |-> IF IsTaggedPointer(parent_or_count'[a])
                             THEN f[parent_or_count'[a].val] ELSE a]
    <3>1. f = [a \in Arena |-> f[a]]
      OBVIOUS
    <3> HIDE DEF f
    <3> QED BY <1>3, <3>1
  <2> HIDE DEF f
  <2> QED BY <2>1, RootIsNext
<1>5. \A a \in Arena : f[a] \in Arena /\ f[a] # y /\ IsTaggedRefcount(parent_or_count[f[a]])
  BY <1>2 DEF RootInv
<1>6. \A a \in Arena : f[a] <= a
  <2> SUFFICES ASSUME NEW a \in Arena PROVE f[a] <= a
    OBVIOUS
  <2>1. RootOf[a] <= a /\ RootOf[x] <= x /\ x \in Nat /\ y \in Nat /\ a \in Nat
        /\ RootOf[x] \in Nat /\ RootOf[a] \in Nat
    BY <1>2, ArenaAssumption DEF RootInv
  <2> QED BY <2>1
<1>7. f \in [Arena -> Arena]
  BY <1>5
<1> HIDE DEF f
<1>8. RootInv'
  BY <1>1, <1>3, <1>4, <1>5, <1>6, <1>7 DEF RootInv
<1>9. Joined(x, y)
  BY <1>4 DEF Joined, f
<1> QED BY <1>8, <1>9

(* A step that writes no parent keeps RootOf.                              *)
LEMMA CountsOnly ==
  ASSUME TypeOK, TypeOK', ParentBelow', RootInv,
         \A a \in Arena : \/ parent_or_count'[a] = parent_or_count[a]
                          \/ /\ IsTaggedRefcount(parent_or_count[a])
                             /\ IsTaggedRefcount(parent_or_count'[a])
  PROVE  RootInv' /\ RootOf' = RootOf
<1>1. \A a \in Arena : IsTaggedPointer(parent_or_count'[a]) <=> IsTaggedPointer(parent_or_count[a])
  BY DEF IsTaggedPointer, IsTaggedRefcount
<1>2. \A a \in Arena : IsTaggedPointer(parent_or_count'[a]) =>
                         RootOf[parent_or_count'[a].val] = RootOf[a]
  BY DEF IsTaggedPointer, IsTaggedRefcount, RootInv
<1> QED BY <1>1, <1>2, RootKept

(* The words whose counts a compare-and-swap of the thread replaces.       *)
LEMMA CasCounts ==
  ASSUME TypeOK, NEW x \in Arena, NEW n, NEW m,
         parent_or_count[x] = TaggedFromRefcount(n),
         parent_or_count' = [parent_or_count EXCEPT ![x] = TaggedFromRefcount(m)]
  PROVE  \A a \in Arena : \/ parent_or_count'[a] = parent_or_count[a]
                          \/ /\ IsTaggedRefcount(parent_or_count[a])
                             /\ IsTaggedRefcount(parent_or_count'[a])
  BY DEF TypeOK, TaggedFromRefcount, IsTaggedRefcount

\* The step of Fuse that makes two groups one.
JoinStep(t) ==
  /\ pc[t] = "cas_r2" /\ pc'[t] = "lf_tail"
  /\ parent_or_count[roots[t].r2] = TaggedFromRefcount(roots[t].n2)
  /\ parent_or_count' = [parent_or_count EXCEPT ![roots[t].r2] = TaggedFromPointer(roots[t].r1)]
  /\ UNCHANGED <<status, initial_block, next, previous_or_tail,
                 refs, call, find, fusing, walk, calls>>
  /\ Joined(roots[t].r1, roots[t].r2)

(* Only the second compare-and-swap of Fuse changes a root; a path split   *)
(* moves an arena within its group.                                        *)
LEMMA StepRoots ==
  ASSUME IndInv, IndInv', GroupInv, NEW t \in Thread, Caller(t) \/ Step(t)
  PROVE  RootInv' /\ (RootOf' = RootOf \/ JoinStep(t))
<1>t. TypeOK /\ TypeOK' /\ ParentBelow' /\ RootInv /\ ThreadGroup(t) /\ Born \subseteq Arena
  BY Pointers DEF IndInv, GroupInv
<1>i. FindInv(t) /\ FuseInv(t) /\ WalkInv(t)
  BY DEF IndInv
<1>u. CASE UNCHANGED parent_or_count
  BY <1>t, <1>u, CountsOnly
<1>1. CASE FindRootSplit(t)
  <2> DEFINE f == find[t]
  <2>1. /\ f.ai \in Arena /\ IsTaggedPointer(parent_or_count[f.ai])
        /\ IsTaggedPointer(f.poc) /\ RootOf[f.poc.val] = RootOf[f.ai]
    BY <1>1, <1>t, <1>i DEF FindRootSplit, FindInv, ThreadGroup, FindGroup, Finding, Fused
  <2>2. parent_or_count' = [parent_or_count EXCEPT ![f.ai] = f.poc]
    BY <1>1 DEF FindRootSplit
  <2> HIDE DEF f
  <2>3. \A a \in Arena : IsTaggedPointer(parent_or_count'[a]) <=> IsTaggedPointer(parent_or_count[a])
    BY <2>1, <2>2, <1>t DEF TypeOK
  <2>4. \A a \in Arena : IsTaggedPointer(parent_or_count'[a]) =>
                           RootOf[parent_or_count'[a].val] = RootOf[a]
    BY <2>1, <2>2, <1>t DEF TypeOK, RootInv
  <2> QED BY <1>t, <2>3, <2>4, RootKept
<1>2. CASE FuseCasR1(t)
  <2>1. roots[t].r1 \in Arena
    BY <1>2, <1>t, <1>i DEF FuseCasR1, FuseInv
  <2> QED BY <1>2, <1>t, <1>u, <2>1, CasCounts, CountsOnly DEF FuseCasR1
<1>3. CASE FuseCasR2(t)
  <2>1. roots[t].r1 \in Arena /\ roots[t].r2 \in Arena /\ roots[t].r1 < roots[t].r2
    BY <1>3, <1>t, <1>i DEF FuseCasR2, FuseInv
  <2>2. CASE parent_or_count' = parent_or_count
    BY <2>2, <1>u
  <2>3. CASE /\ parent_or_count[roots[t].r2] = TaggedFromRefcount(roots[t].n2)
             /\ parent_or_count' = [parent_or_count EXCEPT
                                      ![roots[t].r2] = TaggedFromPointer(roots[t].r1)]
             /\ Goto(t, "lf_tail")
             /\ UNCHANGED <<find, fuse>>
    <3>1. IsTaggedRefcount(parent_or_count[roots[t].r2])
      BY <2>3 DEF IsTaggedRefcount, TaggedFromRefcount
    <3>2. RootInv' /\ Joined(roots[t].r1, roots[t].r2)
      BY <1>t, <2>1, <2>3, <3>1, RootJoined
    <3>3. pc[t] = "cas_r2" /\ pc'[t] = "lf_tail"
      BY <1>3, <2>3, <1>t DEF FuseCasR2, Goto, TypeOK
    <3>4. UNCHANGED <<status, initial_block, next, previous_or_tail,
                      refs, call, find, fusing, walk, calls>>
      BY <1>3, <2>3 DEF FuseCasR2, fusing
    <3> QED BY <2>3, <3>2, <3>3, <3>4 DEF JoinStep
  <2> QED BY <1>3, <2>2, <2>3 DEF FuseCasR2
<1>4. CASE FixupCas(t)
  <2>1. roots[t].r1 \in Arena
    BY <1>4, <1>t, <1>i DEF FixupCas, FuseInv
  <2> QED BY <1>4, <1>t, <1>u, <2>1, CasCounts, CountsOnly DEF FixupCas
<1>5. CASE IncRefCas(t)
  <2>1. walk[t].ai \in Arena
    BY <1>5, <1>t, <1>i DEF IncRefCas, WalkInv, Walking
  <2> QED BY <1>5, <1>t, <2>1, CasCounts, CountsOnly DEF IncRefCas
<1>6. CASE FreeCas(t)
  <2>1. walk[t].ai \in Arena
    BY <1>6, <1>t, <1>i DEF FreeCas, WalkInv, Walking
  <2> QED BY <1>6, <1>t, <1>u, <2>1, CasCounts, CountsOnly DEF FreeCas
<1>7. Caller(t) => UNCHANGED parent_or_count
  BY DEF Caller, Fuse, IsFused, Free, IncRefFor, DebugRefCount, SpaceAllocated, memory
<1>8. Step(t) => \/ UNCHANGED parent_or_count
                 \/ FindRootSplit(t) \/ FuseCasR1(t) \/ FuseCasR2(t)
                 \/ FixupCas(t) \/ IncRefCas(t) \/ FreeCas(t)
  BY DEF Step, FindRootLoad, FindRootReload, FindRootNext, LinkForwardTail, LinkForwardNext,
     LinkForwardCas, UpdateTailLoadChild, UpdateTailLoadParent, UpdateTailCas, LinkBackward,
     FixupLoad, IncRefCasFails, SpaceAllocatedBack, SpaceAllocatedForward, FreeLoad,
     DoFreeNext, DoFreeBlocks, Return, memory
<1> QED BY <1>u, <1>1, <1>2, <1>3, <1>4, <1>5, <1>6, <1>7, <1>8

\* What has been fused stays fused.
Growing == \A a, b \in Arena : RootOf[a] = RootOf[b] => RootOf'[a] = RootOf'[b]

LEMMA StepGrows ==
  ASSUME RootInv, NEW t, RootOf' = RootOf \/ JoinStep(t)
  PROVE  Growing
  BY DEF JoinStep, Joined, Growing, RootInv

(* In particular the two groups that a step joins.                         *)
LEMMA JoinFuses ==
  ASSUME RootInv, NEW t, JoinStep(t), roots[t].r1 \in Arena, roots[t].r2 \in Arena,
         roots[t].r1 < roots[t].r2
  PROVE  RootOf[roots[t].r2] = roots[t].r2 /\ RootOf'[roots[t].r1] = RootOf'[roots[t].r2]
<1>1. ~IsTaggedPointer(parent_or_count[roots[t].r2])
  BY DEF JoinStep, TaggedFromRefcount, IsTaggedPointer
<1>2. RootOf[roots[t].r2] = roots[t].r2
  BY <1>1 DEF RootInv
<1> QED BY <1>2 DEF JoinStep, Joined

-----------------------------------------------------------------------------
(* Lists and frames stay within the groups.                                *)

(* The lists after a step: the append, the new tail and the back link are  *)
(* within the group that the linking thread has joined.                    *)
LEMMA StepLists ==
  ASSUME IndInv, GroupInv, Growing, NEW t \in Thread, Caller(t) \/ Step(t)
  PROVE  ListInv'
<1>t. TypeOK /\ MemoryInv /\ ListInv /\ ThreadGroup(t) /\ FuseInv(t) /\ Born \subseteq Arena
  BY Pointers DEF IndInv, GroupInv
<1>b. Born' = Born
  BY StepBorn
<1>n. \A a \in Arena : next[a] # NULL => next[a] \in Arena /\ RootOf'[next[a]] = RootOf'[a]
  BY <1>t DEF TypeOK, Pointer, ListInv, Fused, Growing
<1>p. \A a \in Born : /\ previous_or_tail[a].val \in Arena
                      /\ RootOf'[previous_or_tail[a].val] = RootOf'[a]
  BY <1>t DEF MemoryInv, ListInv, Fused, Growing
<1>u. CASE UNCHANGED <<next, previous_or_tail>>
  BY <1>u, <1>b, <1>n, <1>p DEF ListInv, Fused
<1>1. CASE LinkForwardCas(t)
  <2>1. CASE next' = next
    BY <2>1, <1>1, <1>u DEF LinkForwardCas
  <2>2. CASE next' = [next EXCEPT ![link[t].tail] = roots[t].r2]
    <3>1. /\ link[t].tail \in Arena /\ roots[t].r2 \in Arena /\ call[t].a \in Arena
          /\ RootOf[link[t].tail] = RootOf[call[t].a] /\ RootOf[roots[t].r2] = RootOf[call[t].a]
      BY <1>1, <1>t DEF LinkForwardCas, FuseInv, Linking, Linked, ThreadGroup, FuseGroup,
         CallInv, Fused
    <3>2. RootOf'[roots[t].r2] = RootOf'[link[t].tail]
      BY <3>1 DEF Growing
    <3>3. UNCHANGED previous_or_tail
      BY <1>1 DEF LinkForwardCas
    <3>4. \A a \in Arena : next'[a] = IF a = link[t].tail THEN roots[t].r2 ELSE next[a]
      BY <1>t, <2>2 DEF TypeOK
    <3> QED BY <1>b, <1>n, <1>p, <3>1, <3>2, <3>3, <3>4 DEF ListInv, Fused
  <2> QED BY <1>1, <2>1, <2>2 DEF LinkForwardCas
<1>2. CASE UpdateTailCas(t)
  <2>1. CASE previous_or_tail' = previous_or_tail
    BY <2>1, <1>2, <1>u DEF UpdateTailCas
  <2>2. CASE previous_or_tail' =
               [previous_or_tail EXCEPT ![roots[t].r1] = TaggedFromTail(link[t].newtail)]
    <3>1. /\ link[t].newtail \in Arena /\ roots[t].r1 \in Arena /\ call[t].a \in Arena
          /\ RootOf[link[t].newtail] = RootOf[call[t].a] /\ RootOf[roots[t].r1] = RootOf[call[t].a]
      BY <1>2, <1>t DEF UpdateTailCas, FuseInv, Linking, Linked, ThreadGroup, FuseGroup,
         CallInv, Fused
    <3>2. RootOf'[link[t].newtail] = RootOf'[roots[t].r1]
      BY <3>1 DEF Growing
    <3>3. UNCHANGED next
      BY <1>2 DEF UpdateTailCas
    <3>4. \A a \in Arena : previous_or_tail'[a].val =
                             IF a = roots[t].r1 THEN link[t].newtail ELSE previous_or_tail[a].val
      BY <1>t, <2>2 DEF TypeOK, TaggedFromTail
    <3> QED BY <1>b, <1>n, <1>p, <1>t, <3>1, <3>2, <3>3, <3>4 DEF ListInv, Fused
  <2> QED BY <1>2, <2>1, <2>2 DEF UpdateTailCas
<1>3. CASE LinkBackward(t)
  <2>1. /\ link[t].tail \in Arena /\ roots[t].r2 \in Arena /\ call[t].a \in Arena
        /\ RootOf[link[t].tail] = RootOf[call[t].a] /\ RootOf[roots[t].r2] = RootOf[call[t].a]
    BY <1>3, <1>t DEF LinkBackward, FuseInv, Linking, Linked, ThreadGroup, FuseGroup,
       CallInv, Fused
  <2>2. RootOf'[link[t].tail] = RootOf'[roots[t].r2]
    BY <2>1 DEF Growing
  <2>3. UNCHANGED next
    BY <1>3 DEF LinkBackward
  <2>4. \A a \in Arena : previous_or_tail'[a].val =
                           IF a = roots[t].r2 THEN link[t].tail ELSE previous_or_tail[a].val
    BY <1>t, <1>3 DEF LinkBackward, TypeOK, TaggedFromPrevious
  <2> QED BY <1>b, <1>n, <1>p, <1>t, <2>1, <2>2, <2>3, <2>4 DEF ListInv, Fused
<1>4. Caller(t) => UNCHANGED <<next, previous_or_tail>>
  BY DEF Caller, Fuse, IsFused, Free, IncRefFor, DebugRefCount, SpaceAllocated, memory
<1>5. Step(t) => \/ UNCHANGED <<next, previous_or_tail>>
                 \/ LinkForwardCas(t) \/ UpdateTailCas(t) \/ LinkBackward(t)
  BY DEF Step, FindRootLoad, FindRootReload, FindRootNext, FindRootSplit, FuseCasR1, FuseCasR2,
     LinkForwardTail, LinkForwardNext, UpdateTailLoadChild, UpdateTailLoadParent, FixupLoad,
     FixupCas, IncRefCas, IncRefCasFails, SpaceAllocatedBack, SpaceAllocatedForward, FreeLoad,
     FreeCas, DoFreeNext, DoFreeBlocks, Return, memory
<1> QED BY <1>u, <1>1, <1>2, <1>3, <1>4, <1>5

(* The arenas in the frames of a thread are arenas.                        *)
LEMMA FrameArenas ==
  ASSUME IndInv, NEW t \in Thread, CallInv(t)
  PROVE  /\ pc[t] # "idle" => call[t].a \in Arena /\ call[t].b \in Arena
         /\ pc[t] \in Finding => /\ find[t].ai \in Arena
                                 /\ pc[t] \in {"fr_next", "fr_split"} => find[t].poc.val \in Arena
                                 /\ pc[t] = "fr_split" => find[t].nxt \in Arena
         /\ (pc[t] \in Finding /\ find[t].ret = "fuse2") => roots[t].r1 \in Arena
         /\ (pc[t] \in Finding /\ find[t].ret \in {"isfused_a", "isfused_b", "isfused_again"}) =>
              walk[t].ai \in Arena
         /\ (pc[t] \in Finding /\ find[t].ret \in {"isfused_b", "isfused_again"}) =>
              walk[t].other \in Arena
         /\ (call[t].op = "Fuse" /\ pc[t] # "ret") => fuse[t].ai1 \in Arena /\ fuse[t].ai2 \in Arena
         /\ pc[t] \in {"cas_r1", "cas_r2", "fx_load", "fx_cas"} \cup Linking => roots[t].r1 \in Arena
         /\ pc[t] \in {"cas_r1", "cas_r2"} \cup Linking => roots[t].r2 \in Arena
         /\ pc[t] \in Linking \ {"lf_tail"} => link[t].tail \in Arena
         /\ pc[t] \in {"ut_parent", "ut_cas"} => link[t].newtail \in Arena
         /\ pc[t] \in Walking => walk[t].ai \in Arena
<1>1. FindInv(t) /\ FuseInv(t) /\ WalkInv(t) /\ Born \subseteq Arena
  BY Pointers DEF IndInv
<1>2. pc[t] # "idle" => call[t].a \in Arena /\ call[t].b \in Arena
  BY <1>1 DEF CallInv
<1>3. (call[t].op = "Fuse" /\ pc[t] # "ret") => fuse[t].ai1 \in Arena /\ fuse[t].ai2 \in Arena
  <2> SUFFICES ASSUME call[t].op = "Fuse", pc[t] # "ret"
               PROVE  fuse[t].ai1 \in Arena /\ fuse[t].ai2 \in Arena
    OBVIOUS
  <2>1. pc[t] \in Labels /\ find[t].ret \in Rets
    BY DEF IndInv, TypeOK
  <2>2. CASE pc[t] \in Finding
    <3>1. find[t].ret \in {"fuse1", "fuse2"}
      BY <2>1, <2>2 DEF CallInv
    <3> QED BY <1>1, <2>2, <3>1 DEF FindInv
  <2>3. CASE pc[t] \in {"cas_r1", "cas_r2", "fx_load", "fx_cas"} \cup Linking
    BY <1>1, <2>3 DEF FuseInv
  <2>4. CASE pc[t] \in Walking \cup {"idle"}
    BY <2>4 DEF CallInv, Walking
  <2> QED BY <2>1, <2>2, <2>3, <2>4 DEF Labels
<1>4. pc[t] \in Finding => /\ find[t].ai \in Arena
                           /\ pc[t] \in {"fr_next", "fr_split"} => find[t].poc.val \in Arena
                           /\ pc[t] = "fr_split" => find[t].nxt \in Arena
  BY <1>1 DEF FindInv
<1>5. /\ (pc[t] \in Finding /\ find[t].ret = "fuse2") => roots[t].r1 \in Arena
      /\ (pc[t] \in Finding /\ find[t].ret \in {"isfused_a", "isfused_b", "isfused_again"}) =>
           walk[t].ai \in Arena
      /\ (pc[t] \in Finding /\ find[t].ret \in {"isfused_b", "isfused_again"}) =>
           walk[t].other \in Arena
  BY <1>1 DEF FindInv
<1>6. /\ pc[t] \in {"cas_r1", "cas_r2", "fx_load", "fx_cas"} \cup Linking => roots[t].r1 \in Arena
      /\ pc[t] \in {"cas_r1", "cas_r2"} \cup Linking => roots[t].r2 \in Arena
      /\ pc[t] \in Linking \ {"lf_tail"} => link[t].tail \in Arena
      /\ pc[t] \in {"ut_parent", "ut_cas"} => link[t].newtail \in Arena
  BY <1>1 DEF FuseInv
<1>7. pc[t] \in Walking => walk[t].ai \in Arena
  BY <1>1 DEF WalkInv
<1> QED BY <1>2, <1>3, <1>4, <1>5, <1>6, <1>7

(* Threads that do not move keep what the groups say of their frames.      *)
LEMMA OthersGroup ==
  ASSUME IndInv, GroupInv, Growing, Born \subseteq Born',
         NEW t \in Thread, OthersKeep(t), NEW u \in Thread \ {t}
  PROVE  ThreadGroup(u)'
<1>1. /\ pc'[u] = pc[u] /\ call'[u] = call[u] /\ find'[u] = find[u] /\ fuse'[u] = fuse[u]
      /\ roots'[u] = roots[u] /\ link'[u] = link[u] /\ walk'[u] = walk[u]
  BY DEF OthersKeep
<1>2. CallInv(u) /\ FindGroup(u) /\ FuseGroup(u) /\ WalkGroup(u)
  BY DEF GroupInv, ThreadGroup
<1>3. CallInv(u)'
  BY <1>1, <1>2 DEF CallInv
<1>4. Wanted(u)' = Wanted(u) /\ (pc[u] # "idle" => Wanted(u) \in Arena)
  BY <1>1, <1>2, FrameArenas DEF Wanted
<1>5. FindGroup(u)'
  <2> SUFFICES ASSUME pc[u] \in Finding PROVE FindGroup(u)'
    BY <1>1 DEF FindGroup
  <2>1. pc[u] # "idle"
    BY DEF Finding
  <2>2. RootOf'[find[u].ai] = RootOf'[Wanted(u)]
    BY <1>2, <1>4, <2>1, FrameArenas DEF FindGroup, Fused, Growing
  <2>3. find[u].ret = "fuse2" => RootOf'[roots[u].r1] = RootOf'[call[u].a]
    BY <1>2, <2>1, FrameArenas DEF FindGroup, Fused, Growing
  <2>4. /\ find[u].ret \in {"isfused_a", "isfused_b", "isfused_again"} =>
             RootOf'[walk[u].ai] = RootOf'[call[u].b]
        /\ find[u].ret \in {"isfused_b", "isfused_again"} =>
             RootOf'[walk[u].other] = RootOf'[call[u].a]
    BY <1>2, <2>1, FrameArenas DEF FindGroup, Fused, Growing
  <2>5. /\ pc[u] = "fr_next" => RootOf'[find[u].poc.val] = RootOf'[find[u].ai]
        /\ pc[u] = "fr_split" => /\ RootOf'[find[u].nxt] = RootOf'[find[u].ai]
                                 /\ RootOf'[find[u].poc.val] = RootOf'[find[u].ai]
    BY <1>2, FrameArenas DEF FindGroup, Fused, Growing
  <2> QED BY <1>1, <2>2, <2>3, <2>4, <2>5 DEF FindGroup, Fused, Wanted
<1>6. FuseGroup(u)'
  <2>1. pc[u] = "idle" => call[u].op = "none"
    BY <1>2 DEF CallInv
  <2> QED BY <1>1, <1>2, <2>1, FrameArenas DEF FuseGroup, Fused, Growing, Linking, Linked
<1>7. WalkGroup(u)'
  <2>1. pc[u] = "df_blocks" => walk[u].other \in Arena \cup {NULL}
    BY Pointers DEF IndInv, WalkInv
  <2> QED BY <1>1, <1>2, <2>1, FrameArenas DEF WalkGroup, Fused, Growing, Walking
<1> QED BY <1>3, <1>5, <1>6, <1>7 DEF ThreadGroup

-----------------------------------------------------------------------------
(* The call that a thread is in.                                           *)

(* What the end of a call changes.                                         *)
LEMMA FinishFacts ==
  ASSUME TypeOK, NEW t \in Thread, NEW ans, Finish(t, ans)
  PROVE  /\ pc'[t] = "ret" /\ call'[t].ans = ans
         /\ call'[t].op = call[t].op /\ call'[t].a = call[t].a /\ call'[t].b = call[t].b
  BY DEF TypeOK, Finish, Goto, Call

(* What entering FindRoot changes.                                         *)
LEMMA FindRootFacts ==
  ASSUME TypeOK, NEW t \in Thread, NEW a, NEW ret, FindRoot(t, a, ret)
  PROVE  pc'[t] = "fr_load" /\ find'[t].ai = a /\ find'[t].ret = ret
  BY DEF TypeOK, FindRoot, Goto, FindFrame

(* What entering FixupRefs, or skipping it, changes.                       *)
LEMMA EnterFixupFacts ==
  ASSUME TypeOK, NEW t \in Thread, EnterFixup(t)
  PROVE  /\ \/ pc'[t] = "ret" /\ call'[t].ans = TRUE /\ fuse[t].delta = 0
            \/ pc'[t] = "fx_load" /\ call'[t].ans = call[t].ans
         /\ call'[t].op = call[t].op /\ call'[t].a = call[t].a /\ call'[t].b = call[t].b
<1>1. CASE Finish(t, TRUE) /\ fuse[t].delta = 0
  BY <1>1, FinishFacts
<1>2. CASE Goto(t, "fx_load") /\ UNCHANGED call
  BY <1>2 DEF Goto, TypeOK
<1> QED BY <1>1, <1>2 DEF EnterFixup

(* What CallInv asks of a thread inside FindRoot.                          *)
LEMMA FindingCall ==
  ASSUME NEW t \in Thread, pc'[t] \in Finding,
         call'[t].op # "none", call'[t].a \in Born', call'[t].b \in Born',
         call'[t].op \notin {"Fuse", "IsFused"} => call'[t].a = call'[t].b,
         \/ find'[t].ret \in {"fuse1", "fuse2"} /\ call'[t].op = "Fuse"
         \/ find'[t].ret = "incref" /\ call'[t].op = "IncRefFor"
         \/ find'[t].ret = "debug" /\ call'[t].op = "DebugRefCount"
         \/ /\ find'[t].ret \in {"isfused_a", "isfused_b", "isfused_again"}
            /\ call'[t].op = "IsFused"
  PROVE  CallInv(t)'
<1>1. pc'[t] \notin {"idle", "ret", "cas_r1", "cas_r2", "fx_load", "fx_cas", "inc_cas", "sa_back",
                    "sa_forward", "free_load", "free_cas", "df_next", "df_blocks"} \cup Linking
  BY DEF Finding, Linking
<1> QED BY <1>1 DEF CallInv

(* A thread that goes on with its call, or ends it.                        *)
LEMMA CallGoesOn ==
  ASSUME IndInv, NEW t \in Thread, CallInv(t), pc[t] # "idle", Born \subseteq Born',
         call'[t].op = call[t].op, call'[t].a = call[t].a, call'[t].b = call[t].b,
         \/ pc'[t] = "ret"
         \/ /\ pc'[t] \in {"cas_r1", "cas_r2", "fx_load", "fx_cas"} \cup Linking
            /\ call[t].op = "Fuse"
         \/ pc'[t] = "inc_cas" /\ call[t].op = "IncRefFor"
         \/ pc'[t] \in {"sa_back", "sa_forward"} /\ call[t].op = "SpaceAllocated"
         \/ pc'[t] \in {"free_load", "free_cas", "df_next", "df_blocks"} /\ call[t].op = "Free"
         \/ /\ pc'[t] \in Finding
            /\ \/ find'[t].ret = find[t].ret /\ pc[t] \in Finding
               \/ find'[t].ret \in {"fuse1", "fuse2"} /\ call[t].op = "Fuse"
               \/ find'[t].ret = "incref" /\ call[t].op = "IncRefFor"
               \/ /\ find'[t].ret \in {"isfused_a", "isfused_b", "isfused_again"}
                  /\ call[t].op = "IsFused"
  PROVE  CallInv(t)'
<1>1. call[t].op # "none" /\ call[t].a \in Born' /\ call[t].b \in Born'
  BY DEF CallInv
<1>2. call[t].op \notin {"Fuse", "IsFused"} => call[t].a = call[t].b
  BY DEF CallInv
<1>3. pc[t] \in Finding => \/ find[t].ret \in {"fuse1", "fuse2"} /\ call[t].op = "Fuse"
                           \/ find[t].ret = "incref" /\ call[t].op = "IncRefFor"
                           \/ find[t].ret = "debug" /\ call[t].op = "DebugRefCount"
                           \/ /\ find[t].ret \in {"isfused_a", "isfused_b", "isfused_again"}
                              /\ call[t].op = "IsFused"
  BY DEF CallInv
<1>4. CASE pc'[t] = "ret"
  BY <1>1, <1>2, <1>4 DEF CallInv, Finding, Linking
<1>5. CASE /\ pc'[t] \in {"cas_r1", "cas_r2", "fx_load", "fx_cas"} \cup Linking
           /\ call[t].op = "Fuse"
  BY <1>1, <1>2, <1>5 DEF CallInv, Finding, Linking
<1>6. CASE \/ pc'[t] = "inc_cas" /\ call[t].op = "IncRefFor"
           \/ pc'[t] \in {"sa_back", "sa_forward"} /\ call[t].op = "SpaceAllocated"
           \/ pc'[t] \in {"free_load", "free_cas", "df_next", "df_blocks"} /\ call[t].op = "Free"
  BY <1>1, <1>2, <1>6 DEF CallInv, Finding, Linking
<1>7. CASE pc'[t] \in Finding
  <2>1. \/ find'[t].ret \in {"fuse1", "fuse2"} /\ call[t].op = "Fuse"
        \/ find'[t].ret = "incref" /\ call[t].op = "IncRefFor"
        \/ find'[t].ret = "debug" /\ call[t].op = "DebugRefCount"
        \/ /\ find'[t].ret \in {"isfused_a", "isfused_b", "isfused_again"}
           /\ call[t].op = "IsFused"
    BY <1>3, <1>7 DEF Finding, Linking
  <2>2. pc'[t] \notin {"idle", "ret", "cas_r1", "cas_r2", "fx_load", "fx_cas", "inc_cas", "sa_back",
                      "sa_forward", "free_load", "free_cas", "df_next", "df_blocks"} \cup Linking
    BY <1>7 DEF Finding, Linking
  <2>3. /\ pc'[t] = "idle" <=> call'[t].op = "none"
        /\ pc'[t] # "idle" => call'[t].a \in Born' /\ call'[t].b \in Born'
        /\ call'[t].op \notin {"Fuse", "IsFused"} => call'[t].a = call'[t].b
    BY <1>1, <1>2, <2>2, Zenon
  <2>4. \/ find'[t].ret \in {"fuse1", "fuse2"} /\ call'[t].op = "Fuse"
        \/ find'[t].ret = "incref" /\ call'[t].op = "IncRefFor"
        \/ find'[t].ret = "debug" /\ call'[t].op = "DebugRefCount"
        \/ /\ find'[t].ret \in {"isfused_a", "isfused_b", "isfused_again"}
           /\ call'[t].op = "IsFused"
    BY <2>1, Zenon
  <2> QED BY <1>7, <2>3, <2>4, FindingCall
<1> QED BY <1>4, <1>5, <1>6, <1>7

LEMMA ResumeCall ==
  ASSUME IndInv, NEW t \in Thread, CallInv(t), pc[t] \in Finding, Born \subseteq Born',
         NEW root, NEW n, Resume(t, root, n)
  PROVE  CallInv(t)'
<1>t. TypeOK /\ pc[t] # "idle"
  BY DEF IndInv, Finding
<1>1. CASE AfterFuse1(t, root, n)
  <2>1. find[t].ret = "fuse1" /\ FindRoot(t, fuse[t].ai2, "fuse2") /\ UNCHANGED call
    BY <1>1 DEF AfterFuse1
  <2> QED BY <1>t, <2>1, FindRootFacts, CallGoesOn DEF CallInv, Finding
<1>2. CASE AfterFuse2(t, root, n)
  <2>1. find[t].ret = "fuse2" /\ call[t].op = "Fuse"
    BY <1>2 DEF AfterFuse2, CallInv
  <2>2. CASE EnterFixup(t)
    BY <1>t, <2>1, <2>2, EnterFixupFacts, CallGoesOn
  <2>3. CASE Goto(t, "cas_r1") /\ UNCHANGED call
    BY <1>t, <2>1, <2>3, CallGoesOn DEF Goto, TypeOK
  <2> QED BY <1>2, <2>2, <2>3 DEF AfterFuse2
<1>3. CASE AfterIncRef(t, root, n)
  <2>1. call[t].op = "IncRefFor" /\ pc'[t] = "inc_cas" /\ UNCHANGED call
    BY <1>3, <1>t DEF AfterIncRef, CallInv, Goto, TypeOK
  <2> QED BY <1>t, <2>1, CallGoesOn
<1>4. CASE AfterDebugRefCount(t, root, n)
  BY <1>4, <1>t, FinishFacts, CallGoesOn DEF AfterDebugRefCount
<1>5. CASE AfterIsFusedA(t, root, n)
  <2>1. call[t].op = "IsFused" /\ FindRoot(t, walk[t].ai, "isfused_b") /\ UNCHANGED call
    BY <1>5 DEF AfterIsFusedA, CallInv
  <2> QED BY <1>t, <2>1, FindRootFacts, CallGoesOn DEF Finding
<1>6. CASE AfterIsFusedB(t, root, n)
  <2>1. call[t].op = "IsFused"
    BY <1>6 DEF AfterIsFusedB, CallInv
  <2>2. CASE Finish(t, TRUE)
    BY <1>t, <2>2, FinishFacts, CallGoesOn
  <2>3. CASE FindRoot(t, walk[t].other, "isfused_again") /\ UNCHANGED call
    BY <1>t, <2>1, <2>3, FindRootFacts, CallGoesOn DEF Finding
  <2> QED BY <1>6, <2>2, <2>3 DEF AfterIsFusedB
<1>7. CASE AfterIsFusedAgain(t, root, n)
  <2>1. call[t].op = "IsFused"
    BY <1>7 DEF AfterIsFusedAgain, CallInv
  <2>2. CASE Finish(t, FALSE)
    BY <1>t, <2>2, FinishFacts, CallGoesOn
  <2>3. CASE FindRoot(t, walk[t].ai, "isfused_b") /\ UNCHANGED call
    BY <1>t, <2>1, <2>3, FindRootFacts, CallGoesOn DEF Finding
  <2> QED BY <1>7, <2>2, <2>3 DEF AfterIsFusedAgain
<1> QED BY <1>1, <1>2, <1>3, <1>4, <1>5, <1>6, <1>7 DEF Resume

LEMMA StepCall ==
  ASSUME IndInv, NEW t \in Thread, CallInv(t), Step(t)
  PROVE  CallInv(t)'
<1>t. TypeOK /\ Born \subseteq Born'
  BY StepBorn DEF IndInv
<1>i. pc[t] # "idle"
  BY DEF Step, FindRootLoad, FindRootReload, FindRootNext, FindRootSplit, FuseCasR1, FuseCasR2,
     LinkForwardTail, LinkForwardNext, LinkForwardCas, UpdateTailLoadChild, UpdateTailLoadParent,
     UpdateTailCas, LinkBackward, FixupLoad, FixupCas, IncRefCas, IncRefCasFails,
     SpaceAllocatedBack, SpaceAllocatedForward, FreeLoad, FreeCas, DoFreeNext, DoFreeBlocks, Return
<1> USE DEF Goto
<1>1. CASE FindRootLoad(t) \/ FindRootNext(t)
  <2>1. pc[t] \in Finding
    BY <1>1 DEF FindRootLoad, FindRootNext, Finding
  <2>2. CASE \E root, n : Resume(t, root, n)
    BY <1>t, <2>1, <2>2, ResumeCall
  <2>3. CASE /\ UNCHANGED call /\ pc'[t] \in Finding
             /\ find'[t].ret = find[t].ret
    BY <1>t, <1>i, <2>1, <2>3, CallGoesOn
  <2> QED BY <1>1, <1>t, <2>2, <2>3 DEF FindRootLoad, FindRootNext, TypeOK, FindFrame, Finding
<1>2. CASE FindRootReload(t) \/ FindRootSplit(t)
  <2>1. pc[t] \in Finding /\ UNCHANGED call /\ pc'[t] \in Finding /\ find'[t].ret = find[t].ret
    BY <1>2, <1>t DEF FindRootReload, FindRootSplit, TypeOK, FindFrame, Finding
  <2> QED BY <1>t, <1>i, <2>1, CallGoesOn
<1>3. CASE FuseCasR1(t) \/ FuseCasR2(t)
  <2>1. call[t].op = "Fuse" /\ UNCHANGED call
    BY <1>3 DEF FuseCasR1, FuseCasR2, CallInv
  <2>2. \/ pc'[t] \in {"cas_r2", "lf_tail"}
        \/ pc'[t] = "fr_load" /\ find'[t].ret = "fuse1"
    BY <1>3, <1>t, FindRootFacts DEF FuseCasR1, FuseCasR2, RetryFuse, TypeOK
  <2> QED BY <1>t, <1>i, <2>1, <2>2, CallGoesOn DEF Finding, Linking
<1>4. CASE \/ LinkForwardTail(t) \/ LinkForwardNext(t) \/ LinkForwardCas(t)
           \/ UpdateTailLoadChild(t) \/ UpdateTailLoadParent(t) \/ UpdateTailCas(t)
  <2>1. call[t].op = "Fuse" /\ UNCHANGED call
    BY <1>4 DEF LinkForwardTail, LinkForwardNext, LinkForwardCas, UpdateTailLoadChild,
       UpdateTailLoadParent, UpdateTailCas, CallInv, Linking
  <2>2. pc'[t] \in Linking
    BY <1>4, <1>t DEF LinkForwardTail, LinkForwardNext, LinkForwardCas, UpdateTailLoadChild,
       UpdateTailLoadParent, UpdateTailCas, TypeOK, Linking
  <2> QED BY <1>t, <1>i, <2>1, <2>2, CallGoesOn
<1>5. CASE LinkBackward(t)
  <2>1. call[t].op = "Fuse" /\ EnterFixup(t)
    BY <1>5 DEF LinkBackward, CallInv, Linking
  <2> QED BY <1>t, <1>i, <2>1, EnterFixupFacts, CallGoesOn
<1>6. CASE FixupLoad(t)
  <2>1. call[t].op = "Fuse" /\ UNCHANGED call
    BY <1>6 DEF FixupLoad, CallInv
  <2>2. pc'[t] = "fx_cas" \/ (pc'[t] = "fr_load" /\ find'[t].ret = "fuse1")
    BY <1>6, <1>t, FindRootFacts DEF FixupLoad, RetryFuse, TypeOK
  <2> QED BY <1>t, <1>i, <2>1, <2>2, CallGoesOn DEF Finding
<1>7. CASE FixupCas(t)
  <2>1. call[t].op = "Fuse"
    BY <1>7 DEF FixupCas, CallInv
  <2>2. CASE Finish(t, TRUE)
    BY <1>t, <1>i, <2>2, FinishFacts, CallGoesOn
  <2>3. CASE RetryFuse(t) /\ UNCHANGED call
    BY <1>t, <1>i, <2>1, <2>3, FindRootFacts, CallGoesOn DEF RetryFuse, Finding
  <2> QED BY <1>7, <2>2, <2>3 DEF FixupCas
<1>8. CASE IncRefCas(t)
  BY <1>8, <1>t, <1>i, FinishFacts, CallGoesOn DEF IncRefCas
<1>9. CASE IncRefCasFails(t)
  <2>1. call[t].op = "IncRefFor" /\ FindRoot(t, walk[t].ai, "incref") /\ UNCHANGED call
    BY <1>9 DEF IncRefCasFails, CallInv
  <2> QED BY <1>t, <1>i, <2>1, FindRootFacts, CallGoesOn DEF Finding
<1>10. CASE SpaceAllocatedBack(t) \/ SpaceAllocatedForward(t)
  <2>1. call[t].op = "SpaceAllocated"
    BY <1>10 DEF SpaceAllocatedBack, SpaceAllocatedForward, CallInv
  <2>2. CASE Finish(t, TRUE)
    BY <1>t, <1>i, <2>2, FinishFacts, CallGoesOn
  <2>3. CASE UNCHANGED call /\ pc'[t] \in {"sa_back", "sa_forward"}
    BY <1>t, <1>i, <2>1, <2>3, CallGoesOn
  <2> QED BY <1>10, <1>t, <2>2, <2>3 DEF SpaceAllocatedBack, SpaceAllocatedForward, TypeOK
<1>11. CASE FreeLoad(t) \/ FreeCas(t) \/ DoFreeNext(t) \/ DoFreeBlocks(t)
  <2>1. call[t].op = "Free"
    BY <1>11 DEF FreeLoad, FreeCas, DoFreeNext, DoFreeBlocks, CallInv
  <2>2. CASE Finish(t, TRUE)
    BY <1>t, <1>i, <2>2, FinishFacts, CallGoesOn
  <2>3. CASE UNCHANGED call /\ pc'[t] \in {"free_load", "free_cas", "df_next", "df_blocks"}
    BY <1>t, <1>i, <2>1, <2>3, CallGoesOn
  <2> QED BY <1>11, <1>t, <2>2, <2>3 DEF FreeLoad, FreeCas, DoFreeNext, DoFreeBlocks,
             FreeDispatch, TypeOK
<1>12. CASE Return(t)
  BY <1>12, <1>t DEF Return, NoCall, Call, CallInv, TypeOK, Finding, Linking
<1> QED BY <1>1, <1>2, <1>3, <1>4, <1>5, <1>6, <1>7, <1>8, <1>9, <1>10, <1>11, <1>12 DEF Step

-----------------------------------------------------------------------------
(* The frames of the thread that moves.                                    *)

FramesGroup(t) == FindGroup(t) /\ FuseGroup(t) /\ WalkGroup(t)

(* What entering FindRoot asks for.                                        *)
LEMMA EnterFindGroup ==
  ASSUME NEW t \in Thread, NEW a, NEW ret, TypeOK, FindRoot(t, a, ret), call'[t].op # "none",
         RootOf'[a] = RootOf'[IF ret \in {"fuse2", "isfused_b"} THEN call'[t].b ELSE call'[t].a],
         call'[t].op = "Fuse" => /\ RootOf'[fuse'[t].ai1] = RootOf'[call'[t].a]
                                 /\ RootOf'[fuse'[t].ai2] = RootOf'[call'[t].b],
         ret = "fuse2" => RootOf'[roots'[t].r1] = RootOf'[call'[t].a],
         ret \in {"isfused_a", "isfused_b", "isfused_again"} =>
           RootOf'[walk'[t].ai] = RootOf'[call'[t].b],
         ret \in {"isfused_b", "isfused_again"} =>
           RootOf'[walk'[t].other] = RootOf'[call'[t].a]
  PROVE  FramesGroup(t)'
<1>1. pc'[t] = "fr_load" /\ find'[t].ai = a /\ find'[t].ret = ret
  BY FindRootFacts
<1>2. FindGroup(t)'
  BY <1>1 DEF FindGroup, Fused, Wanted
<1>3. FuseGroup(t)'
  BY <1>1 DEF FuseGroup, Fused, Linking
<1>4. WalkGroup(t)'
  BY <1>1 DEF WalkGroup, Walking
<1> QED BY <1>2, <1>3, <1>4 DEF FramesGroup

(* What FixupRefs, or the end of a Fuse, asks for.                         *)
LEMMA EnterFixupGroup ==
  ASSUME NEW t \in Thread, TypeOK, EnterFixup(t), call[t].op = "Fuse", RootOf' = RootOf,
         RootOf[fuse'[t].ai1] = RootOf[call[t].a], RootOf[fuse'[t].ai2] = RootOf[call[t].b],
         RootOf[call[t].a] = RootOf[call[t].b], RootOf[roots'[t].r1] = RootOf[call[t].a]
  PROVE  FramesGroup(t)'
<1>1. /\ pc'[t] \in {"ret", "fx_load"}
      /\ call'[t].op = call[t].op /\ call'[t].a = call[t].a /\ call'[t].b = call[t].b
  BY EnterFixupFacts
<1>2. FindGroup(t)'
  BY <1>1 DEF FindGroup, Finding
<1>3. FuseGroup(t)'
  BY <1>1 DEF FuseGroup, Fused, Linking
<1>4. WalkGroup(t)'
  BY <1>1 DEF WalkGroup, Walking
<1> QED BY <1>2, <1>3, <1>4 DEF FramesGroup

LEMMA ResumeGroup ==
  ASSUME IndInv, GroupInv, RootOf' = RootOf, NEW t \in Thread, pc[t] \in Finding,
         NEW root \in Arena, NEW n, RootOf[root] = RootOf[Wanted(t)], Resume(t, root, n)
  PROVE  FramesGroup(t)'
<1>t. /\ TypeOK /\ CallInv(t) /\ FindGroup(t) /\ FuseGroup(t) /\ RootInv /\ pc[t] \notin {"idle", "ret"}
      /\ call[t].op # "none"
  BY DEF IndInv, GroupInv, ThreadGroup, Finding, CallInv
<1>f. /\ call[t].a \in Arena /\ call[t].b \in Arena
      /\ find[t].ret \in {"isfused_a", "isfused_b", "isfused_again"} =>
           /\ call[t].op = "IsFused"
           /\ RootOf[walk[t].ai] = RootOf[call[t].b]
      /\ find[t].ret \in {"isfused_b", "isfused_again"} =>
           RootOf[walk[t].other] = RootOf[call[t].a]
  BY <1>t, FrameArenas DEF FindGroup, Fused, CallInv
<1>g. call[t].op = "Fuse" => /\ RootOf[fuse[t].ai1] = RootOf[call[t].a]
                             /\ RootOf[fuse[t].ai2] = RootOf[call[t].b]
  BY <1>t DEF FuseGroup, Fused
<1>h. TypeOK /\ call[t].op # "none"
  BY <1>t
<1>1. CASE AfterFuse1(t, root, n)
  <2>1. /\ find[t].ret = "fuse1" /\ FindRoot(t, fuse[t].ai2, "fuse2") /\ UNCHANGED <<call, fuse>>
        /\ roots'[t].r1 = root
    BY <1>1, <1>t DEF AfterFuse1, TypeOK, RootsFrame
  <2>2. RootOf[root] = RootOf[call[t].a] /\ call[t].op = "Fuse"
    BY <1>t, <2>1 DEF Wanted, CallInv
  <2> QED BY <1>h, <1>g, <2>1, <2>2, EnterFindGroup
<1>2. CASE AfterFuse2(t, root, n)
  <2>1. find[t].ret = "fuse2" /\ call[t].op = "Fuse" /\ UNCHANGED <<find, link, walk>>
    BY <1>2, <1>t DEF AfterFuse2, CallInv
  <2>2. RootOf[root] = RootOf[call[t].b] /\ RootOf[roots[t].r1] = RootOf[call[t].a]
    BY <1>t, <2>1 DEF Wanted, FindGroup, Fused
  <2>3. CASE roots[t].r1 = root /\ EnterFixup(t) /\ UNCHANGED <<fuse, roots>>
    BY <1>h, <1>g, <2>1, <2>2, <2>3, EnterFixupGroup
  <2>4. CASE /\ fuse' = [fuse EXCEPT ![t] = FuseFrame(roots[t].r1, root, @.delta)]
             /\ roots' = [roots EXCEPT ![t] = LowerFirst(roots[t], root, n)]
             /\ Goto(t, "cas_r1")
             /\ UNCHANGED call
    <3>1. pc'[t] = "cas_r1" /\ fuse'[t].ai1 = roots[t].r1 /\ fuse'[t].ai2 = root
      BY <2>4, <1>t DEF Goto, TypeOK, FuseFrame
    <3>2. \/ roots'[t].r1 = roots[t].r1 /\ roots'[t].r2 = root
          \/ roots'[t].r1 = root /\ roots'[t].r2 = roots[t].r1
      BY <2>4, <1>t DEF TypeOK, LowerFirst, RootsFrame
    <3>3. FindGroup(t)' /\ WalkGroup(t)'
      BY <3>1 DEF FindGroup, Finding, WalkGroup, Walking
    <3>4. FuseGroup(t)'
      BY <2>2, <2>4, <3>1, <3>2 DEF FuseGroup, Fused, Linking
    <3> QED BY <3>3, <3>4 DEF FramesGroup
  <2> QED BY <1>2, <2>3, <2>4 DEF AfterFuse2
<1>3. CASE AfterIncRef(t, root, n)
  <2>1. /\ pc'[t] = "inc_cas" /\ call' = call /\ walk'[t].ai = root
        /\ RootOf[root] = RootOf[call[t].a] /\ call[t].op = "IncRefFor"
    BY <1>3, <1>t DEF AfterIncRef, Goto, TypeOK, WalkFrame, Wanted, CallInv
  <2> QED BY <2>1 DEF FramesGroup, FindGroup, FuseGroup, WalkGroup, Finding, Linking, Fused
<1>4. CASE AfterDebugRefCount(t, root, n)
  <2>1. pc'[t] = "ret" /\ call'[t].op = "DebugRefCount"
    BY <1>4, <1>t, FinishFacts DEF AfterDebugRefCount, CallInv
  <2> QED BY <2>1 DEF FramesGroup, FindGroup, FuseGroup, WalkGroup, Finding, Linking, Walking
<1>5. CASE AfterIsFusedA(t, root, n)
  <2>1. /\ find[t].ret = "isfused_a" /\ FindRoot(t, walk[t].ai, "isfused_b") /\ UNCHANGED call
        /\ walk'[t].ai = walk[t].ai /\ walk'[t].other = root
    BY <1>5, <1>t DEF AfterIsFusedA, TypeOK, WalkFrame
  <2>2. RootOf[root] = RootOf[call[t].a]
    BY <2>1 DEF Wanted
  <2> QED BY <1>h, <1>f, <2>1, <2>2, EnterFindGroup
<1>6. CASE AfterIsFusedB(t, root, n)
  <2>1. find[t].ret = "isfused_b" /\ walk'[t].ai = root /\ walk'[t].other = walk[t].other
    BY <1>6, <1>t DEF AfterIsFusedB, TypeOK, WalkFrame
  <2>2. RootOf[root] = RootOf[call[t].b]
    BY <2>1 DEF Wanted
  <2>3. CASE walk[t].other = root /\ Finish(t, TRUE)
    <3>1. pc'[t] = "ret" /\ call'[t].a = call[t].a /\ call'[t].b = call[t].b
      BY <2>3, <1>t, FinishFacts
    <3> QED BY <1>f, <2>1, <2>2, <2>3, <3>1
            DEF FramesGroup, FindGroup, FuseGroup, WalkGroup, Finding, Linking, Walking, Fused
  <2>4. CASE FindRoot(t, walk[t].other, "isfused_again") /\ UNCHANGED call
    BY <1>h, <1>f, <2>1, <2>2, <2>4, EnterFindGroup
  <2> QED BY <1>6, <2>3, <2>4 DEF AfterIsFusedB
<1>7. CASE AfterIsFusedAgain(t, root, n)
  <2>1. find[t].ret = "isfused_again" /\ walk'[t].ai = walk[t].ai /\ walk'[t].other = root
    BY <1>7, <1>t DEF AfterIsFusedAgain, TypeOK, WalkFrame
  <2>2. RootOf[root] = RootOf[call[t].a]
    BY <2>1 DEF Wanted
  <2>3. CASE Finish(t, FALSE)
    <3>1. pc'[t] = "ret" /\ call'[t].ans = FALSE
      BY <2>3, <1>t, FinishFacts
    <3> QED BY <3>1 DEF FramesGroup, FindGroup, FuseGroup, WalkGroup, Finding, Linking, Walking
  <2>4. CASE FindRoot(t, walk[t].ai, "isfused_b") /\ UNCHANGED call
    BY <1>h, <1>f, <2>1, <2>2, <2>4, EnterFindGroup
  <2> QED BY <1>7, <2>3, <2>4 DEF AfterIsFusedAgain
<1> QED BY <1>1, <1>2, <1>3, <1>4, <1>5, <1>6, <1>7 DEF Resume

(* Words that FindRoot and Free read lead to the same root.                *)
LEMMA ParentFused ==
  ASSUME TypeOK, RootInv, NEW a \in Arena, IsTaggedPointer(parent_or_count[a])
  PROVE  parent_or_count[a].val \in Arena /\ RootOf[parent_or_count[a].val] = RootOf[a]
  BY WordCases DEF TypeOK, RootInv

(* A step of FindRoot stays in the group of the arena asked for.           *)
LEMMA FindStepGroup ==
  ASSUME IndInv, GroupInv, RootOf' = RootOf, NEW t \in Thread,
         FindRootLoad(t) \/ FindRootReload(t) \/ FindRootNext(t) \/ FindRootSplit(t)
  PROVE  FramesGroup(t)'
<1>p. pc[t] \in Finding /\ pc[t] \notin {"idle", "ret"}
  BY DEF FindRootLoad, FindRootReload, FindRootNext, FindRootSplit, Finding
<1>t. /\ TypeOK /\ CallInv(t) /\ FindGroup(t) /\ FuseGroup(t) /\ RootInv
      /\ FindInv(t) /\ Born \subseteq Arena
  BY Pointers DEF IndInv, GroupInv, ThreadGroup
<1>f. /\ call[t].a \in Arena /\ call[t].b \in Arena /\ find[t].ai \in Arena
      /\ pc[t] = "fr_next" => find[t].poc.val \in Arena
      /\ pc[t] # "fr_load" => IsTaggedPointer(parent_or_count[find[t].ai])
      /\ RootOf[find[t].ai] = RootOf[Wanted(t)]
      /\ pc[t] = "fr_next" => RootOf[find[t].poc.val] = RootOf[Wanted(t)]
      /\ pc[t] = "fr_split" => /\ RootOf[find[t].nxt] = RootOf[Wanted(t)]
                               /\ RootOf[find[t].poc.val] = RootOf[Wanted(t)]
  BY <1>p, <1>t, FrameArenas DEF FindGroup, Fused, FindInv
\* A step that stays in FindRoot only moves the frame of FindRoot.
<1>s. ASSUME UNCHANGED <<call, fuse, roots, walk>>, pc'[t] \in Finding,
             find'[t].ret = find[t].ret, RootOf[find'[t].ai] = RootOf[Wanted(t)],
             pc'[t] = "fr_next" => RootOf[find'[t].poc.val] = RootOf[Wanted(t)],
             pc'[t] = "fr_split" => /\ RootOf[find'[t].nxt] = RootOf[Wanted(t)]
                                    /\ RootOf[find'[t].poc.val] = RootOf[Wanted(t)]
      PROVE  FramesGroup(t)'
  <2>1. FindGroup(t)'
    BY <1>p, <1>t, <1>s DEF FindGroup, Fused, Wanted
  <2>2. FuseGroup(t)' /\ WalkGroup(t)'
    BY <1>p, <1>t, <1>s DEF FuseGroup, WalkGroup, Fused, Finding, Linking, Walking
  <2> QED BY <2>1, <2>2 DEF FramesGroup
<1> USE DEF Goto, fusing
<1>1. CASE FindRootLoad(t)
  <2>1. CASE Resume(t, find[t].ai, parent_or_count[find[t].ai].val)
    BY <1>p, <1>f, <2>1, ResumeGroup
  <2>2. CASE Goto(t, "fr_reload") /\ UNCHANGED <<call, find, fusing, walk>>
    <3>1. pc'[t] = "fr_reload"
      BY <2>2, <1>t DEF TypeOK
    <3> QED BY <2>2, <3>1, <1>f, <1>s DEF Finding
  <2> QED BY <1>1, <2>1, <2>2 DEF FindRootLoad
<1>2. CASE FindRootReload(t)
  <2>1. /\ pc'[t] = "fr_next" /\ find'[t].ai = find[t].ai /\ find'[t].ret = find[t].ret
        /\ find'[t].poc = parent_or_count[find[t].ai] /\ pc[t] = "fr_reload"
        /\ UNCHANGED <<call, fuse, roots, walk>>
    BY <1>2, <1>t DEF FindRootReload, TypeOK, FindFrame
  <2>2. RootOf[parent_or_count[find[t].ai].val] = RootOf[find[t].ai]
    BY <1>t, <1>f, <2>1, ParentFused
  <2> QED BY <1>f, <1>s, <2>1, <2>2 DEF Finding
<1>3. CASE FindRootNext(t)
  <2>1. CASE Resume(t, find[t].poc.val, parent_or_count[find[t].poc.val].val)
    BY <1>3, <1>p, <1>f, <2>1, ResumeGroup DEF FindRootNext
  <2>2. CASE /\ IsTaggedPointer(parent_or_count[find[t].poc.val])
             /\ find' = [find EXCEPT ![t] = FindFrame(@.ai, find[t].poc.val,
                                              parent_or_count[find[t].poc.val], @.ret)]
             /\ Goto(t, "fr_split")
             /\ UNCHANGED <<call, fusing, walk>>
    <3>1. /\ pc'[t] = "fr_split" /\ find'[t].ai = find[t].ai /\ find'[t].ret = find[t].ret
          /\ find'[t].nxt = find[t].poc.val /\ pc[t] = "fr_next"
          /\ find'[t].poc = parent_or_count[find[t].poc.val]
      BY <1>3, <2>2, <1>t DEF FindRootNext, TypeOK, FindFrame
    <3>2. RootOf[parent_or_count[find[t].poc.val].val] = RootOf[find[t].poc.val]
      BY <1>t, <1>f, <2>2, <3>1, ParentFused
    <3> QED BY <1>f, <1>s, <2>2, <3>1, <3>2 DEF Finding
  <2> QED BY <1>3, <2>1, <2>2 DEF FindRootNext
<1>4. CASE FindRootSplit(t)
  <2>1. /\ pc'[t] = "fr_next" /\ find'[t].ai = find[t].nxt /\ find'[t].ret = find[t].ret
        /\ find'[t].poc = find[t].poc /\ pc[t] = "fr_split"
        /\ UNCHANGED <<call, fuse, roots, walk>>
    BY <1>4, <1>t DEF FindRootSplit, TypeOK, FindFrame
  <2> QED BY <1>f, <1>s, <2>1 DEF Finding
<1> QED BY <1>1, <1>2, <1>3, <1>4

(* A step of Fuse outside FindRoot stays in the groups it fuses.           *)
LEMMA FuseStepGroup ==
  ASSUME IndInv, GroupInv, RootInv', NEW t \in Thread, RootOf' = RootOf \/ JoinStep(t),
         \/ FuseCasR1(t) \/ FuseCasR2(t)
         \/ LinkForwardTail(t) \/ LinkForwardNext(t) \/ LinkForwardCas(t)
         \/ UpdateTailLoadChild(t) \/ UpdateTailLoadParent(t) \/ UpdateTailCas(t)
         \/ LinkBackward(t)
         \/ FixupLoad(t) \/ FixupCas(t)
  PROVE  FramesGroup(t)'
<1>p. /\ pc[t] \in {"cas_r1", "cas_r2", "fx_load", "fx_cas"} \cup Linking
      /\ pc[t] \notin {"idle", "ret"} \cup Finding \cup Walking
  BY DEF FuseCasR1, FuseCasR2, LinkForwardTail, LinkForwardNext, LinkForwardCas,
     UpdateTailLoadChild, UpdateTailLoadParent, UpdateTailCas, LinkBackward, FixupLoad, FixupCas,
     Linking, Finding, Walking
<1>t. /\ TypeOK /\ CallInv(t) /\ FuseGroup(t) /\ RootInv /\ ListInv /\ MemoryInv
      /\ FuseInv(t) /\ Born \subseteq Arena /\ call[t].op = "Fuse"
  BY <1>p, Pointers DEF IndInv, GroupInv, ThreadGroup, CallInv
<1>f. /\ call[t].a \in Arena /\ call[t].b \in Arena /\ roots[t].r1 \in Born
      /\ pc[t] \in {"cas_r1", "cas_r2"} \cup Linking => roots[t].r2 \in Born
      /\ pc[t] \in Linking \ {"lf_tail"} => link[t].tail \in Born
      /\ fuse[t].ai1 \in Arena /\ fuse[t].ai2 \in Arena
  BY <1>p, <1>t, FrameArenas DEF FuseInv
<1>g. /\ RootOf[fuse[t].ai1] = RootOf[call[t].a] /\ RootOf[fuse[t].ai2] = RootOf[call[t].b]
      /\ pc[t] \in Linking \cup {"fx_load", "fx_cas"} =>
           RootOf[call[t].a] = RootOf[call[t].b] /\ RootOf[roots[t].r1] = RootOf[call[t].a]
      /\ pc[t] \in Linking => RootOf[roots[t].r2] = RootOf[call[t].a]
      /\ pc[t] \in Linking \ {"lf_tail"} => RootOf[link[t].tail] = RootOf[call[t].a]
      /\ pc[t] \in {"ut_parent", "ut_cas"} => RootOf[link[t].newtail] = RootOf[call[t].a]
  BY <1>p, <1>t DEF FuseGroup, Fused
<1>h. TypeOK /\ call[t].op = "Fuse"
  BY <1>t
<1>j. CASE JoinStep(t)
  <2>1. /\ RootOf[roots[t].r2] = roots[t].r2 /\ RootOf'[roots[t].r1] = RootOf'[roots[t].r2]
        /\ roots[t].r1 \in Arena /\ roots[t].r2 \in Arena
    BY <1>j, <1>t, <1>f, JoinFuses DEF JoinStep, FuseInv
  <2>2. Growing
    BY <1>j, <1>t, StepGrows
  <2>3. UNCHANGED <<call, fuse, roots>> /\ pc'[t] = "lf_tail" /\ pc[t] = "cas_r2"
    BY <1>j DEF JoinStep, fusing
  <2>4. \/ RootOf[roots[t].r1] = RootOf[call[t].a] /\ RootOf[roots[t].r2] = RootOf[call[t].b]
        \/ RootOf[roots[t].r1] = RootOf[call[t].b] /\ RootOf[roots[t].r2] = RootOf[call[t].a]
    BY <1>t, <2>3 DEF FuseGroup, Fused
  <2>5. /\ RootOf'[call[t].a] = RootOf'[call[t].b] /\ RootOf'[roots[t].r1] = RootOf'[call[t].a]
        /\ RootOf'[roots[t].r2] = RootOf'[call[t].a]
    BY <2>1, <2>2, <2>4, <1>f DEF Growing
  <2>6. RootOf'[fuse[t].ai1] = RootOf'[call[t].a] /\ RootOf'[fuse[t].ai2] = RootOf'[call[t].b]
    BY <2>2, <1>f, <1>g DEF Growing
  <2>7. FuseGroup(t)'
    BY <2>3, <2>5, <2>6 DEF FuseGroup, Fused, Linking
  <2> QED BY <2>3, <2>7 DEF FramesGroup, FindGroup, WalkGroup, Finding, Walking
<1>k. SUFFICES ASSUME RootOf' = RootOf PROVE FramesGroup(t)'
  BY <1>j
\* A step that goes on linking only moves the frame of the lists.
<1>s. ASSUME UNCHANGED <<call, fuse, roots>>, pc[t] \in Linking, pc'[t] \in Linking,
             pc'[t] # "lf_tail" => RootOf[link'[t].tail] = RootOf[call[t].a],
             pc'[t] \in {"ut_parent", "ut_cas"} => RootOf[link'[t].newtail] = RootOf[call[t].a]
      PROVE  FramesGroup(t)'
  <2>1. pc'[t] \notin {"cas_r1", "cas_r2", "fx_load", "fx_cas", "ret", "idle"} \cup Finding \cup Walking
    BY <1>s DEF Linking, Finding, Walking
  <2>2. FuseGroup(t)'
    BY <1>g, <1>k, <1>s, <2>1 DEF FuseGroup, Fused
  <2> QED BY <2>1, <2>2 DEF FramesGroup, FindGroup, WalkGroup, Walking
\* A retry starts from ai1.
<1>r. ASSUME RetryFuse(t), UNCHANGED <<call, roots>>, fuse'[t].ai1 = fuse[t].ai1,
             fuse'[t].ai2 = fuse[t].ai2
      PROVE  FramesGroup(t)'
  BY <1>g, <1>h, <1>k, <1>r, EnterFindGroup DEF RetryFuse
<1> USE DEF Goto, fusing
<1>1. CASE FuseCasR1(t)
  <2>1. CASE RetryFuse(t)
    BY <1>1, <2>1, <1>r DEF FuseCasR1
  <2>2. CASE Goto(t, "cas_r2")
    <3>1. pc'[t] = "cas_r2" /\ pc[t] = "cas_r1" /\ UNCHANGED <<call, fuse, roots>>
      BY <1>1, <2>2, <1>t DEF FuseCasR1, TypeOK
    <3> QED BY <1>k, <1>t, <3>1
            DEF FramesGroup, FindGroup, FuseGroup, WalkGroup, Finding, Linking, Walking, Fused
  <2> QED BY <1>1, <2>1, <2>2 DEF FuseCasR1
<1>2. CASE FuseCasR2(t)
  <2>1. CASE RetryFuse(t) /\ UNCHANGED parent_or_count
            /\ fuse' = [fuse EXCEPT ![t] = FuseFrame(@.ai1, @.ai2, @.delta + roots[t].n2)]
    <3>1. fuse'[t].ai1 = fuse[t].ai1 /\ fuse'[t].ai2 = fuse[t].ai2 /\ UNCHANGED <<call, roots>>
      BY <1>2, <2>1, <1>t DEF FuseCasR2, TypeOK, FuseFrame
    <3> QED BY <2>1, <3>1, <1>r
  <2>2. CASE /\ parent_or_count[roots[t].r2] = TaggedFromRefcount(roots[t].n2)
             /\ parent_or_count' = [parent_or_count EXCEPT
                                      ![roots[t].r2] = TaggedFromPointer(roots[t].r1)]
    \* Then the groups would have been joined.
    <3>1. /\ roots[t].r2 \in Arena /\ roots[t].r1 \in Arena
          /\ ~IsTaggedPointer(parent_or_count[roots[t].r2])
          /\ IsTaggedPointer(parent_or_count'[roots[t].r2])
      BY <1>2, <2>2, <1>f, <1>t DEF FuseCasR2, IsTaggedPointer, TaggedFromPointer,
         TaggedFromRefcount, TypeOK
    <3>2. /\ RootOf[roots[t].r2] = roots[t].r2
          /\ RootOf'[roots[t].r2] = RootOf'[roots[t].r1] /\ RootOf'[roots[t].r1] <= roots[t].r1
      <4>1. parent_or_count'[roots[t].r2].val = roots[t].r1
        BY <2>2, <3>1, <1>t DEF TypeOK, TaggedFromPointer
      <4> QED BY <3>1, <4>1, <1>t DEF RootInv
    <3>3. roots[t].r1 < roots[t].r2 /\ roots[t].r1 \in Int /\ roots[t].r2 \in Int
      BY <1>2, <1>t, <3>1, ArenaAssumption DEF FuseCasR2, FuseInv
    <3> QED BY <1>k, <3>2, <3>3
  <2> QED BY <1>2, <2>1, <2>2 DEF FuseCasR2
<1>3. CASE LinkForwardTail(t)
  <2>1. /\ pc'[t] = "lf_next" /\ pc[t] = "lf_tail" /\ UNCHANGED <<call, fuse, roots>>
        /\ \/ link'[t].tail = roots[t].r1
           \/ link'[t].tail = previous_or_tail[roots[t].r1].val
    BY <1>3, <1>t DEF LinkForwardTail, TypeOK, LinkFrame
  <2>2. RootOf[previous_or_tail[roots[t].r1].val] = RootOf[roots[t].r1]
    BY <1>t, <1>f DEF ListInv, Fused
  <2> QED BY <1>g, <1>s, <2>1, <2>2 DEF Linking
<1>4. CASE LinkForwardNext(t) \/ LinkForwardCas(t)
  <2>1. /\ pc[t] \in {"lf_next", "lf_cas"} /\ pc'[t] \in {"lf_next", "lf_cas", "ut_child"}
        /\ UNCHANGED <<call, fuse, roots>>
        /\ \/ link'[t].tail = link[t].tail
           \/ link'[t].tail = next[link[t].tail] /\ next[link[t].tail] # NULL
    BY <1>4, <1>t DEF LinkForwardNext, LinkForwardCas, TypeOK, LinkFrame
  <2>2. next[link[t].tail] # NULL => RootOf[next[link[t].tail]] = RootOf[link[t].tail]
    BY <1>t, <1>f, <2>1 DEF ListInv, Fused, Linking
  <2> QED BY <1>g, <1>s, <2>1, <2>2 DEF Linking
<1>5. CASE UpdateTailLoadChild(t)
  <2>1. /\ pc'[t] = "ut_parent" /\ pc[t] = "ut_child" /\ UNCHANGED <<call, fuse, roots>>
        /\ link'[t].tail = link[t].tail /\ link'[t].newtail = previous_or_tail[roots[t].r2].val
    BY <1>5, <1>t DEF UpdateTailLoadChild, TypeOK, LinkFrame
  <2>2. RootOf[previous_or_tail[roots[t].r2].val] = RootOf[roots[t].r2]
    BY <1>t, <1>f, <2>1 DEF ListInv, Fused, Linking
  <2> QED BY <1>g, <1>s, <2>1, <2>2 DEF Linking
<1>6. CASE UpdateTailLoadParent(t) \/ UpdateTailCas(t)
  <2>1. /\ pc[t] \in {"ut_parent", "ut_cas"} /\ pc'[t] \in {"ut_cas", "lb_store"}
        /\ UNCHANGED <<call, fuse, roots>>
        /\ link'[t].tail = link[t].tail /\ link'[t].newtail = link[t].newtail
    BY <1>6, <1>t DEF UpdateTailLoadParent, UpdateTailCas, TypeOK, LinkFrame
  <2> QED BY <1>g, <1>s, <2>1 DEF Linking
<1>7. CASE LinkBackward(t)
  <2>1. EnterFixup(t) /\ pc[t] = "lb_store" /\ UNCHANGED <<fuse, roots>>
    BY <1>7 DEF LinkBackward
  <2> QED BY <1>g, <1>h, <1>k, <2>1, EnterFixupGroup DEF Linking
<1>8. CASE FixupLoad(t)
  <2>1. CASE RetryFuse(t) /\ UNCHANGED roots
    BY <1>8, <2>1, <1>r DEF FixupLoad
  <2>2. CASE Goto(t, "fx_cas") /\ roots' = [roots EXCEPT ![t] =
               RootsFrame(@.r1, parent_or_count[roots[t].r1].val, @.r2, @.n2)]
    <3>1. /\ pc'[t] = "fx_cas" /\ pc[t] = "fx_load" /\ UNCHANGED <<call, fuse>>
          /\ roots'[t].r1 = roots[t].r1
      BY <1>8, <2>2, <1>t DEF FixupLoad, TypeOK, RootsFrame
    <3> QED BY <1>g, <1>k, <3>1
            DEF FramesGroup, FindGroup, FuseGroup, WalkGroup, Finding, Linking, Walking, Fused
  <2> QED BY <1>8, <2>1, <2>2 DEF FixupLoad
<1>9. CASE FixupCas(t)
  <2>1. CASE RetryFuse(t) /\ UNCHANGED call
    BY <1>9, <2>1, <1>r DEF FixupCas
  <2>2. CASE Finish(t, TRUE)
    <3>1. pc'[t] = "ret" /\ call'[t].a = call[t].a /\ call'[t].b = call[t].b /\ pc[t] = "fx_cas"
      BY <1>9, <2>2, <1>t, FinishFacts DEF FixupCas
    <3> QED BY <1>g, <1>k, <3>1
            DEF FramesGroup, FindGroup, FuseGroup, WalkGroup, Finding, Linking, Walking, Fused
  <2> QED BY <1>9, <2>1, <2>2 DEF FixupCas
<1> QED BY <1>1, <1>2, <1>3, <1>4, <1>5, <1>6, <1>7, <1>8, <1>9

(* A step of the walks over counts, parents and lists stays in the group.  *)
LEMMA WalkStepGroup ==
  ASSUME IndInv, GroupInv, RootOf' = RootOf, NEW t \in Thread,
         \/ IncRefCas(t) \/ IncRefCasFails(t)
         \/ SpaceAllocatedBack(t) \/ SpaceAllocatedForward(t)
         \/ FreeLoad(t) \/ FreeCas(t) \/ DoFreeNext(t) \/ DoFreeBlocks(t)
  PROVE  FramesGroup(t)'
<1>p. pc[t] \in Walking /\ pc[t] \notin {"idle", "ret"}
  BY DEF IncRefCas, IncRefCasFails, SpaceAllocatedBack, SpaceAllocatedForward, FreeLoad, FreeCas,
     DoFreeNext, DoFreeBlocks, Walking
<1>t. /\ TypeOK /\ CallInv(t) /\ WalkGroup(t) /\ RootInv /\ ListInv /\ MemoryInv
      /\ WalkInv(t) /\ Born \subseteq Arena
  BY Pointers DEF IndInv, GroupInv, ThreadGroup
<1>o. call[t].op \notin {"none", "Fuse", "IsFused"}
  BY <1>t, <1>p DEF CallInv, Walking
<1>f. call[t].a \in Arena /\ walk[t].ai \in Born
  BY <1>t, <1>p, FrameArenas DEF WalkInv
<1>g. RootOf[walk[t].ai] = RootOf[call[t].a]
  BY <1>t, <1>p DEF WalkGroup, Fused
<1>l. /\ next[walk[t].ai] # NULL => RootOf[next[walk[t].ai]] = RootOf[call[t].a]
      /\ RootOf[previous_or_tail[walk[t].ai].val] = RootOf[call[t].a]
  BY <1>t, <1>f, <1>g DEF ListInv, Fused
<1>c. IsTaggedPointer(parent_or_count[walk[t].ai]) =>
        RootOf[parent_or_count[walk[t].ai].val] = RootOf[call[t].a]
  BY <1>t, <1>f, <1>g, ParentFused
\* A step that goes on walking, or ends.
<1>s. ASSUME call'[t].op = call[t].op, call'[t].a = call[t].a,
             pc'[t] \in Walking => RootOf[walk'[t].ai] = RootOf[call[t].a],
             pc'[t] \in Walking \cup {"ret"},
             (pc'[t] = "df_blocks" /\ walk'[t].other # NULL) =>
                RootOf[walk'[t].other] = RootOf[call[t].a]
      PROVE  FramesGroup(t)'
  <2>1. pc'[t] \notin {"cas_r1", "cas_r2", "fx_load", "fx_cas", "idle"} \cup Finding \cup Linking
    BY <1>s DEF Linking, Finding, Walking
  <2>2. FuseGroup(t)'
    BY <1>o, <1>s, <2>1 DEF FuseGroup, Linking
  <2>3. WalkGroup(t)'
    BY <1>s DEF WalkGroup, Fused
  <2> QED BY <2>1, <2>2, <2>3 DEF FramesGroup, FindGroup
<1>d. ASSUME FreeDispatch(t, parent_or_count[walk[t].ai]), UNCHANGED call PROVE FramesGroup(t)'
  <2>1. /\ pc'[t] \in {"free_load", "free_cas", "df_next"}
        /\ \/ walk'[t].ai = walk[t].ai
           \/ /\ IsTaggedPointer(parent_or_count[walk[t].ai])
              /\ walk'[t].ai = parent_or_count[walk[t].ai].val
    BY <1>d, <1>t DEF FreeDispatch, Goto, TypeOK, WalkFrame
  <2> QED BY <1>c, <1>d, <1>g, <1>s, <2>1 DEF Walking
<1>e. ASSUME NEW ans, Finish(t, ans) PROVE FramesGroup(t)'
  BY <1>e, <1>t, <1>s, FinishFacts DEF Walking
<1> USE DEF Goto
<1>1. CASE IncRefCas(t)
  BY <1>1, <1>e DEF IncRefCas
<1>2. CASE IncRefCasFails(t)
  <2>1. FindRoot(t, walk[t].ai, "incref") /\ UNCHANGED call /\ TypeOK
    BY <1>2, <1>t DEF IncRefCasFails
  <2> QED BY <1>o, <1>g, <2>1, EnterFindGroup
<1>3. CASE SpaceAllocatedBack(t)
  <2>1. /\ pc'[t] \in {"sa_back", "sa_forward"} /\ UNCHANGED call
        /\ walk'[t].ai \in {call[t].a, previous_or_tail[walk[t].ai].val}
    BY <1>3, <1>t DEF SpaceAllocatedBack, TypeOK, WalkFrame
  <2> QED BY <1>l, <1>s, <2>1 DEF Walking
<1>4. CASE SpaceAllocatedForward(t)
  <2>1. CASE Finish(t, TRUE)
    BY <2>1, <1>e
  <2>2. CASE next[walk[t].ai] # NULL /\ UNCHANGED <<pc, call>>
    <3>1. pc'[t] = "sa_forward" /\ walk'[t].ai = next[walk[t].ai]
      BY <1>4, <2>2, <1>t DEF SpaceAllocatedForward, TypeOK, WalkFrame
    <3> QED BY <1>l, <1>s, <2>2, <3>1 DEF Walking
  <2> QED BY <1>4, <2>1, <2>2 DEF SpaceAllocatedForward
<1>5. CASE FreeLoad(t)
  BY <1>5, <1>d DEF FreeLoad
<1>6. CASE FreeCas(t)
  BY <1>6, <1>d, <1>e DEF FreeCas
<1>7. CASE DoFreeNext(t)
  <2>1. /\ pc'[t] = "df_blocks" /\ UNCHANGED call /\ walk'[t].ai = walk[t].ai
        /\ walk'[t].other = next[walk[t].ai]
    BY <1>7, <1>t DEF DoFreeNext, TypeOK, WalkFrame
  <2> QED BY <1>g, <1>l, <1>s, <2>1 DEF Walking
<1>8. CASE DoFreeBlocks(t)
  <2>1. CASE Finish(t, TRUE)
    BY <2>1, <1>e
  <2>2. CASE walk[t].other # NULL /\ Goto(t, "df_next") /\ UNCHANGED call
    <3>1. pc'[t] = "df_next" /\ walk'[t].ai = walk[t].other /\ pc[t] = "df_blocks"
      BY <1>8, <2>2, <1>t DEF DoFreeBlocks, TypeOK, WalkFrame
    <3>2. RootOf[walk[t].other] = RootOf[call[t].a]
      BY <1>t, <2>2, <3>1 DEF WalkGroup, Fused
    <3> QED BY <1>s, <2>2, <3>1, <3>2 DEF Walking
  <2> QED BY <1>8, <2>1, <2>2 DEF DoFreeBlocks
<1> QED BY <1>1, <1>2, <1>3, <1>4, <1>5, <1>6, <1>7, <1>8

(* A call starts with its own arguments.                                   *)
LEMMA CallerGroup ==
  ASSUME IndInv, GroupInv, RootOf' = RootOf, NEW t \in Thread, Caller(t)
  PROVE  CallInv(t)' /\ FramesGroup(t)'
<1>t. TypeOK /\ Born' = Born /\ \A a \in Arena : status[a] = "live" => a \in Born
  BY StepBorn DEF IndInv, Born
<1> USE DEF CanUse, CanRelease, Goto
\* A call that returns at once.
<1>e. ASSUME NEW op \in {"Fuse", "IsFused", "IncRefFor"}, NEW a \in Born, NEW b \in Born, NEW ans,
             call'[t] = Call(op, a, b, ans), ans \/ op = "IncRefFor" => a = b, pc'[t] = "ret"
      PROVE  CallInv(t)' /\ FramesGroup(t)'
  <2>1. CallInv(t)'
    BY <1>e, <1>t DEF CallInv, Call, Finding, Linking
  <2> QED BY <1>e, <2>1 DEF FramesGroup, FindGroup, FuseGroup, WalkGroup, Finding, Linking, Walking,
             Call, Fused
\* A call that starts with FindRoot.
<1>f. ASSUME NEW op, NEW a \in Born, NEW b \in Born, NEW ret,
             call'[t] = Call(op, a, b, FALSE), FindRoot(t, a, ret),
             \/ op = "Fuse" /\ ret = "fuse1" /\ fuse'[t].ai1 = a /\ fuse'[t].ai2 = b
             \/ op = "IsFused" /\ ret = "isfused_a" /\ walk'[t].ai = b
             \/ op = "IncRefFor" /\ ret = "incref" /\ a = b
             \/ op = "DebugRefCount" /\ ret = "debug" /\ a = b
      PROVE  CallInv(t)' /\ FramesGroup(t)'
  <2>1. pc'[t] = "fr_load" /\ find'[t].ai = a /\ find'[t].ret = ret
    BY <1>f, <1>t, FindRootFacts
  <2>2. call'[t].op = op /\ call'[t].a = a /\ call'[t].b = b
    BY <1>f DEF Call
  <2>3. CallInv(t)'
    BY <1>f, <1>t, <2>1, <2>2, FindingCall DEF Finding
  <2>4. FramesGroup(t)'
    BY <1>f, <1>t, <2>1, <2>2, EnterFindGroup
  <2> QED BY <2>3, <2>4
\* A call that starts walking.
<1>w. ASSUME NEW op, NEW a \in Born, call'[t] = Call(op, a, a, FALSE), walk'[t].ai = a,
             \/ op = "SpaceAllocated" /\ pc'[t] = "sa_back"
             \/ op = "Free" /\ pc'[t] = "free_load"
      PROVE  CallInv(t)' /\ FramesGroup(t)'
  <2>1. CallInv(t)'
    BY <1>w, <1>t DEF CallInv, Call, Finding, Linking
  <2> QED BY <1>w, <2>1 DEF FramesGroup, FindGroup, FuseGroup, WalkGroup, Finding, Linking, Walking,
             Call, Fused
<1>1. ASSUME NEW a \in Arena, NEW b \in Arena, Fuse(t, a, b)
      PROVE  CallInv(t)' /\ FramesGroup(t)'
  <2>1. a \in Born /\ b \in Born
    BY <1>1, <1>t DEF Fuse
  <2>2. CASE a = b /\ Goto(t, "ret") /\ call' = [call EXCEPT ![t] = Call("Fuse", a, b, TRUE)]
    <3>1. pc'[t] = "ret" /\ call'[t] = Call("Fuse", a, b, TRUE)
      BY <2>2, <1>t DEF TypeOK
    <3> QED BY <1>e, <2>1, <2>2, <3>1
  <2>3. CASE Goto(t, "ret") /\ call' = [call EXCEPT ![t] = Call("Fuse", a, b, FALSE)]
    <3>1. pc'[t] = "ret" /\ call'[t] = Call("Fuse", a, b, FALSE)
      BY <2>3, <1>t DEF TypeOK
    <3> QED BY <1>e, <2>1, <3>1
  <2>4. CASE /\ call' = [call EXCEPT ![t] = Call("Fuse", a, b, FALSE)]
             /\ fuse' = [fuse EXCEPT ![t] = FuseFrame(a, b, 0)]
             /\ FindRoot(t, a, "fuse1")
    <3>1. call'[t] = Call("Fuse", a, b, FALSE) /\ fuse'[t].ai1 = a /\ fuse'[t].ai2 = b
      BY <2>4, <1>t DEF TypeOK, FuseFrame
    <3> QED BY <1>f, <2>1, <2>4, <3>1
  <2> QED BY <1>1, <2>2, <2>3, <2>4 DEF Fuse
<1>2. ASSUME NEW a \in Arena, NEW b \in Arena, IsFused(t, a, b)
      PROVE  CallInv(t)' /\ FramesGroup(t)'
  <2>1. a \in Born /\ b \in Born
    BY <1>2, <1>t DEF IsFused
  <2>2. CASE a = b /\ Goto(t, "ret") /\ call' = [call EXCEPT ![t] = Call("IsFused", a, b, TRUE)]
    <3>1. pc'[t] = "ret" /\ call'[t] = Call("IsFused", a, b, TRUE)
      BY <2>2, <1>t DEF TypeOK
    <3> QED BY <1>e, <2>1, <2>2, <3>1
  <2>3. CASE /\ call' = [call EXCEPT ![t] = Call("IsFused", a, b, FALSE)]
             /\ walk' = [walk EXCEPT ![t] = WalkFrame(b, NULL, 0, {})]
             /\ FindRoot(t, a, "isfused_a")
    <3>1. call'[t] = Call("IsFused", a, b, FALSE) /\ walk'[t].ai = b
      BY <2>3, <1>t DEF TypeOK, WalkFrame
    <3> QED BY <1>f, <2>1, <2>3, <3>1
  <2> QED BY <1>2, <2>2, <2>3 DEF IsFused
<1>3. ASSUME NEW a \in Arena, Free(t, a) PROVE CallInv(t)' /\ FramesGroup(t)'
  <2>1. /\ a \in Born /\ call'[t] = Call("Free", a, a, FALSE) /\ walk'[t].ai = a
        /\ pc'[t] = "free_load"
    BY <1>3, <1>t DEF Free, TypeOK, WalkFrame
  <2> QED BY <1>w, <2>1
<1>4. ASSUME NEW a \in Arena, IncRefFor(t, a) PROVE CallInv(t)' /\ FramesGroup(t)'
  <2>1. /\ a \in Born /\ call'[t] = Call("IncRefFor", a, a, FALSE)
        /\ pc'[t] = "ret" \/ FindRoot(t, a, "incref")
    BY <1>4, <1>t DEF IncRefFor, TypeOK
  <2> QED BY <1>e, <1>f, <2>1
<1>5. ASSUME NEW a \in Arena, DebugRefCount(t, a) PROVE CallInv(t)' /\ FramesGroup(t)'
  <2>1. /\ a \in Born /\ call'[t] = Call("DebugRefCount", a, a, FALSE) /\ FindRoot(t, a, "debug")
    BY <1>5, <1>t DEF DebugRefCount, TypeOK
  <2> QED BY <1>f, <2>1
<1>6. ASSUME NEW a \in Arena, SpaceAllocated(t, a) PROVE CallInv(t)' /\ FramesGroup(t)'
  <2>1. /\ a \in Born /\ call'[t] = Call("SpaceAllocated", a, a, FALSE) /\ walk'[t].ai = a
        /\ pc'[t] = "sa_back"
    BY <1>6, <1>t DEF SpaceAllocated, TypeOK, WalkFrame
  <2> QED BY <1>w, <2>1
<1> QED BY <1>1, <1>2, <1>3, <1>4, <1>5, <1>6 DEF Caller

(* Every thread's frames stay within the groups of its call.               *)
LEMMA StepGroup ==
  ASSUME IndInv, IndInv', GroupInv, NEW t \in Thread, Caller(t) \/ Step(t)
  PROVE  GroupInv'
<1>1. RootInv /\ RootInv' /\ (RootOf' = RootOf \/ JoinStep(t))
  BY StepRoots DEF GroupInv
<1>2. Growing
  BY <1>1, StepGrows
<1>3. ListInv'
  BY <1>2, StepLists
<1>4. \A u \in Thread \ {t} : ThreadGroup(u)'
  BY <1>2, OthersGroup, StepKeeps, StepBorn DEF IndInv
<1>5. CallInv(t)' /\ FramesGroup(t)'
  <2>1. CASE Caller(t)
    <3>1. ~JoinStep(t)
      BY <2>1 DEF Caller, JoinStep, Fuse, IsFused, Free, IncRefFor, DebugRefCount, SpaceAllocated,
         StartCall
    <3> QED BY <1>1, <2>1, <3>1, CallerGroup
  <2>2. CASE Step(t)
    <3>1. CallInv(t)'
      BY <2>2, StepCall DEF GroupInv, ThreadGroup
    <3>2. CASE FindRootLoad(t) \/ FindRootReload(t) \/ FindRootNext(t) \/ FindRootSplit(t)
      <4>1. ~JoinStep(t)
        BY <3>2 DEF JoinStep, FindRootLoad, FindRootReload, FindRootNext, FindRootSplit
      <4> QED BY <1>1, <3>1, <3>2, <4>1, FindStepGroup
    <3>3. CASE \/ FuseCasR1(t) \/ FuseCasR2(t)
               \/ LinkForwardTail(t) \/ LinkForwardNext(t) \/ LinkForwardCas(t)
               \/ UpdateTailLoadChild(t) \/ UpdateTailLoadParent(t) \/ UpdateTailCas(t)
               \/ LinkBackward(t)
               \/ FixupLoad(t) \/ FixupCas(t)
      BY <1>1, <3>1, <3>3, FuseStepGroup
    <3>4. CASE \/ IncRefCas(t) \/ IncRefCasFails(t)
               \/ SpaceAllocatedBack(t) \/ SpaceAllocatedForward(t)
               \/ FreeLoad(t) \/ FreeCas(t) \/ DoFreeNext(t) \/ DoFreeBlocks(t)
      <4>1. ~JoinStep(t)
        BY <3>4 DEF JoinStep, IncRefCas, IncRefCasFails, SpaceAllocatedBack, SpaceAllocatedForward,
           FreeLoad, FreeCas, DoFreeNext, DoFreeBlocks
      <4> QED BY <1>1, <3>1, <3>4, <4>1, WalkStepGroup
    <3>5. CASE Return(t)
      <4>1. pc'[t] = "idle" /\ call'[t].op = "none"
        BY <3>5 DEF Return, Goto, NoCall, Call, IndInv, TypeOK
      <4> QED BY <3>1, <4>1 DEF FramesGroup, FindGroup, FuseGroup, WalkGroup, Finding, Linking, Walking
    <3> QED BY <2>2, <3>2, <3>3, <3>4, <3>5 DEF Step
  <2> QED BY <2>1, <2>2
<1> QED BY <1>1, <1>3, <1>4, <1>5 DEF GroupInv, ThreadGroup, FramesGroup

-----------------------------------------------------------------------------
(* The group invariant is inductive.                                       *)

(* Without parents every arena is its own root.                            *)
LEMMA OwnRoots ==
  ASSUME TypeOK, ParentBelow, \A a \in Arena : ~IsTaggedPointer(parent_or_count[a])
  PROVE  RootOf = [a \in Arena |-> a]
<1> DEFINE f == [a \in Arena |-> a]
<1>1. f = [a \in Arena |-> IF IsTaggedPointer(parent_or_count[a])
                           THEN f[parent_or_count[a].val] ELSE a]
  OBVIOUS
<1> HIDE DEF f
<1>2. RootOf = f
  BY <1>1, RootIs DEF IsRootMap
<1> QED BY <1>2 DEF f

LEMMA InitGroup == Init => GroupInv
<1> SUFFICES ASSUME Init PROVE GroupInv
  OBVIOUS
<1>1. TypeOK /\ ParentBelow
  BY InitInd DEF IndInv
<1>b. Born = {}
  BY DEF Init, Born
<1>2. \A a \in Arena : parent_or_count[a] = TaggedFromRefcount(0)
  BY DEF Init
<1>3. RootOf = [a \in Arena |-> a]
  BY <1>1, <1>2, OwnRoots DEF IsTaggedPointer, TaggedFromRefcount
<1>4. RootInv
  <2>1. \A a \in Arena : /\ ~IsTaggedPointer(parent_or_count[a])
                         /\ IsTaggedRefcount(parent_or_count[a])
    BY DEF Init, IsTaggedPointer, IsTaggedRefcount, TaggedFromRefcount
  <2>2. RootOf \in [Arena -> Arena] /\ \A a \in Arena : RootOf[a] = a
    BY <1>3
  <2>3. \A a \in Arena : a <= a
    BY ArenaAssumption
  <2> QED BY <2>1, <2>2, <2>3 DEF RootInv
<1>5. ListInv
  BY <1>b DEF ListInv, Init, InitLists
<1>6. ASSUME NEW t \in Thread PROVE ThreadGroup(t)
  <2>1. pc[t] = "idle" /\ call[t].op = "none" /\ call[t].a = call[t].b
    BY DEF Init, InitThreads, NoCall, Call
  <2> QED BY <2>1 DEF ThreadGroup, CallInv, FindGroup, FuseGroup, WalkGroup, Finding, Linking, Walking
<1> QED BY <1>4, <1>5, <1>6 DEF GroupInv

(* A new arena is a group of its own.                                      *)
LEMMA CreateGroup ==
  ASSUME IndInv, IndInv', GroupInv, NEW a \in Arena, NEW h \in BOOLEAN, Arena_Init(a, h)
  PROVE  GroupInv' /\ RootOf' = RootOf
<1>t. TypeOK /\ TypeOK' /\ ParentBelow' /\ RootInv /\ MemoryInv /\ ListInv
  BY DEF IndInv, GroupInv
<1>1. a \notin Born /\ Born' = Born \cup {a} /\ Born \subseteq Born'
  BY <1>t DEF Arena_Init, Born, TypeOK
<1>2. IsTaggedRefcount(parent_or_count[a])
  BY <1>1, <1>t DEF MemoryInv
<1>3. \A b \in Arena : \/ parent_or_count'[b] = parent_or_count[b]
                       \/ /\ IsTaggedRefcount(parent_or_count[b])
                          /\ IsTaggedRefcount(parent_or_count'[b])
  BY <1>2, <1>t DEF Arena_Init, TypeOK, IsTaggedRefcount, TaggedFromRefcount
<1>4. RootInv' /\ RootOf' = RootOf
  BY <1>3, <1>t, CountsOnly
<1>5. ListInv'
  <2>1. \A b \in Arena : /\ next'[b] = IF b = a THEN NULL ELSE next[b]
                         /\ previous_or_tail'[b].val = IF b = a THEN a ELSE previous_or_tail[b].val
    BY <1>t DEF Arena_Init, TypeOK, TaggedFromTail
  <2> QED BY <1>1, <1>4, <1>t, <2>1 DEF ListInv, Fused
<1>6. UNCHANGED <<pc, call, find, fuse, roots, link, walk>>
  BY DEF Arena_Init, fusing
<1>7. ASSUME NEW t \in Thread PROVE ThreadGroup(t)'
  <2>1. CallInv(t) /\ FindGroup(t) /\ FuseGroup(t) /\ WalkGroup(t)
    BY DEF GroupInv, ThreadGroup
  <2>2. CallInv(t)'
    BY <1>1, <1>6, <2>1 DEF CallInv
  <2>3. FindGroup(t)' /\ FuseGroup(t)' /\ WalkGroup(t)'
    BY <1>4, <1>6, <2>1 DEF FindGroup, FuseGroup, WalkGroup, Fused, Wanted
  <2> QED BY <2>2, <2>3 DEF ThreadGroup
<1> QED BY <1>4, <1>5, <1>7 DEF GroupInv

LEMMA StutterGroup ==
  ASSUME IndInv, IndInv', GroupInv, UNCHANGED vars
  PROVE  GroupInv' /\ RootOf' = RootOf
<1>1. UNCHANGED <<status, initial_block, parent_or_count, next, previous_or_tail, refs, pc, call,
                  find, fuse, roots, link, walk, calls>>
  BY DEF vars, memory, fusing
<1>2. RootInv' /\ RootOf' = RootOf
  BY <1>1, CountsOnly DEF IndInv, GroupInv
<1>3. ListInv'
  BY <1>1, <1>2 DEF GroupInv, ListInv, Fused, Born
<1>4. ASSUME NEW t \in Thread PROVE ThreadGroup(t)'
  <2>1. CallInv(t) /\ FindGroup(t) /\ FuseGroup(t) /\ WalkGroup(t)
    BY DEF GroupInv, ThreadGroup
  <2>2. CallInv(t)'
    BY <1>1, <2>1 DEF CallInv, Born
  <2>3. FindGroup(t)' /\ FuseGroup(t)' /\ WalkGroup(t)'
    BY <1>1, <1>2, <2>1 DEF FindGroup, FuseGroup, WalkGroup, Fused, Wanted
  <2> QED BY <2>2, <2>3 DEF ThreadGroup
<1> QED BY <1>2, <1>3, <1>4 DEF GroupInv

LEMMA NextGroup == IndInv /\ IndInv' /\ GroupInv /\ [Next]_vars => GroupInv' /\ Growing
<1> SUFFICES ASSUME IndInv, IndInv', GroupInv, [Next]_vars PROVE GroupInv' /\ Growing
  OBVIOUS
<1>1. CASE UNCHANGED vars
  BY <1>1, StutterGroup DEF Growing
<1>2. ASSUME NEW a \in Arena, NEW h \in BOOLEAN, Arena_Init(a, h) PROVE GroupInv' /\ Growing
  BY <1>2, CreateGroup DEF Growing
<1>3. ASSUME NEW t \in Thread, Caller(t) \/ Step(t) PROVE GroupInv' /\ Growing
  <2>1. RootInv /\ (RootOf' = RootOf \/ JoinStep(t))
    BY <1>3, StepRoots DEF GroupInv
  <2> QED BY <1>3, <2>1, StepGroup, StepGrows
<1> QED BY <1>1, <1>2, <1>3 DEF Next

(* Parents lead to one root, and every pointer in a list or a frame stays  *)
(* within the groups of the arenas that the call was made with, whatever   *)
(* fuses and splits in between.                                            *)
THEOREM GroupsSound == Spec => []GroupInv
<1>1. Spec => []IndInv
  BY Inductive
<1> QED BY <1>1, InitGroup, NextGroup, PTL DEF Spec

-----------------------------------------------------------------------------
(* The results of upb_Arena_IsFused and upb_Arena_Fuse.                    *)

(* The history variable observes the program and does not change it.       *)
LEMMA CheckImplies == CheckSpec => Spec
<1>1. CheckInit => Init
  BY DEF CheckInit
<1>2. [CheckNext]_<<vars, atStart>> => [Next]_vars
  BY DEF CheckNext
<1> QED BY <1>1, <1>2, PTL DEF CheckSpec, Spec

(* The history of a thread that goes on with its call is kept.             *)
LEMMA RememberFacts ==
  ASSUME [CheckNext]_<<vars, atStart>>, NEW t \in Thread
  PROVE  /\ (pc[t] # "idle" /\ pc'[t] # "idle") => atStart'[t] = atStart[t]
         /\ (pc[t] = "idle" /\ pc'[t] # "idle") =>
              atStart'[t].fused = (RootOf[call'[t].a] = RootOf[call'[t].b])
<1>1. CASE CheckNext
  BY <1>1 DEF CheckNext, Remember, Fused
<1>2. CASE UNCHANGED <<vars, atStart>>
  BY <1>2 DEF vars
<1> QED BY <1>1, <1>2

\* What IsFused relies on when it was called on fused arenas: the second
\* look at ra's root is only taken when ra has stopped being one.
IsFusedInv(t) ==
  (pc[t] # "idle" /\ call[t].op = "IsFused" /\ atStart[t].fused) =>
    /\ Fused(call[t].a, call[t].b)
    /\ (pc[t] \in Finding /\ find[t].ret = "isfused_again") =>
          IsTaggedPointer(parent_or_count[walk[t].other])
    /\ pc[t] = "ret" => call[t].ans

(* A step inside a call keeps the call's arguments, until it returns.      *)
LEMMA StepArgs ==
  ASSUME TypeOK, NEW t \in Thread, Step(t)
  PROVE  /\ pc[t] # "idle"
         /\ pc'[t] # "idle" => /\ call'[t].op = call[t].op
                               /\ call'[t].a = call[t].a /\ call'[t].b = call[t].b
<1>1. pc[t] # "idle"
  BY DEF Step, FindRootLoad, FindRootReload, FindRootNext, FindRootSplit, FuseCasR1, FuseCasR2,
     LinkForwardTail, LinkForwardNext, LinkForwardCas, UpdateTailLoadChild, UpdateTailLoadParent,
     UpdateTailCas, LinkBackward, FixupLoad, FixupCas, IncRefCas, IncRefCasFails,
     SpaceAllocatedBack, SpaceAllocatedForward, FreeLoad, FreeCas, DoFreeNext, DoFreeBlocks, Return
<1>2. \/ Return(t) \/ EnterFixup(t) \/ UNCHANGED call \/ Finish(t, TRUE) \/ Finish(t, FALSE)
  <2>1. ASSUME NEW root, NEW n, Resume(t, root, n)
        PROVE  EnterFixup(t) \/ UNCHANGED call \/ Finish(t, TRUE) \/ Finish(t, FALSE)
    BY <2>1 DEF Resume, AfterFuse1, AfterFuse2, AfterIncRef, AfterDebugRefCount, AfterIsFusedA,
       AfterIsFusedB, AfterIsFusedAgain
  <2> QED BY <2>1 DEF Step, FindRootLoad, FindRootReload, FindRootNext, FindRootSplit, FuseCasR1,
             FuseCasR2, LinkForwardTail, LinkForwardNext, LinkForwardCas, UpdateTailLoadChild,
             UpdateTailLoadParent, UpdateTailCas, LinkBackward, FixupLoad, FixupCas, IncRefCas,
             IncRefCasFails, SpaceAllocatedBack, SpaceAllocatedForward, FreeLoad, FreeCas,
             DoFreeNext, DoFreeBlocks
<1>3. CASE Return(t)
  BY <1>1, <1>3 DEF Return, Goto, TypeOK
<1>4. CASE EnterFixup(t)
  BY <1>1, <1>4, EnterFixupFacts
<1>5. CASE Finish(t, TRUE) \/ Finish(t, FALSE)
  BY <1>1, <1>5, FinishFacts
<1> QED BY <1>1, <1>2, <1>3, <1>4, <1>5

(* Both answers of IsFused follow from the two roots it has seen.          *)
LEMMA ResumeIsFused ==
  ASSUME IndInv, GroupInv, NEW t \in Thread, pc[t] \in Finding, call[t].op = "IsFused",
         IsFusedInv(t), atStart[t].fused, RootOf' = RootOf, parent_or_count' = parent_or_count,
         NEW root \in Arena, NEW n, RootOf[root] = RootOf[Wanted(t)],
         IsTaggedRefcount(parent_or_count[root]), Resume(t, root, n),
         atStart'[t] = atStart[t]
  PROVE  IsFusedInv(t)'
<1>t. /\ TypeOK /\ CallInv(t) /\ FindGroup(t) /\ RootInv /\ FindInv(t) /\ Born \subseteq Arena
      /\ pc[t] \notin {"idle", "ret"}
  BY Pointers DEF IndInv, GroupInv, ThreadGroup, Finding
<1>f. /\ RootOf[call[t].a] = RootOf[call[t].b]
      /\ find[t].ret = "isfused_again" => IsTaggedPointer(parent_or_count[walk[t].other])
  BY <1>t DEF IsFusedInv, Fused
<1>r. find[t].ret \in {"isfused_a", "isfused_b", "isfused_again"}
  BY <1>t DEF CallInv
<1>1. CASE AfterIsFusedA(t, root, n)
  <2>1. pc'[t] = "fr_load" /\ find'[t].ret = "isfused_b" /\ call' = call
    BY <1>1, <1>t, FindRootFacts DEF AfterIsFusedA
  <2> QED BY <1>f, <2>1 DEF IsFusedInv, Fused
<1>2. CASE AfterIsFusedB(t, root, n)
  <2>1. find[t].ret = "isfused_b" /\ walk'[t].other = walk[t].other
    BY <1>2, <1>t DEF AfterIsFusedB, TypeOK, WalkFrame
  <2>2. CASE Finish(t, TRUE)
    <3>1. pc'[t] = "ret" /\ call'[t].ans = TRUE /\ call'[t].a = call[t].a /\ call'[t].b = call[t].b
      BY <2>2, <1>t, FinishFacts
    <3> QED BY <1>f, <3>1 DEF IsFusedInv, Fused, Finding
  <2>3. CASE walk[t].other # root /\ FindRoot(t, walk[t].other, "isfused_again") /\ UNCHANGED call
    <3>1. pc'[t] = "fr_load" /\ find'[t].ret = "isfused_again"
      BY <2>3, <1>t, FindRootFacts
    <3>2. RootOf[root] = root
      BY <1>t DEF RootInv, IsTaggedRefcount, IsTaggedPointer
    <3>3. RootOf[root] = RootOf[call[t].b] /\ RootOf[walk[t].other] = RootOf[call[t].a]
      BY <1>t, <2>1 DEF Wanted, FindGroup, Fused
    <3>4. walk[t].other \in Arena
      BY <1>t, <2>1 DEF FindInv
    <3>5. IsTaggedPointer(parent_or_count[walk[t].other])
      BY <1>f, <1>t, <2>3, <3>2, <3>3, <3>4 DEF RootInv
    <3> QED BY <1>f, <2>1, <2>3, <3>1, <3>5 DEF IsFusedInv, Fused
  <2> QED BY <1>2, <2>2, <2>3 DEF AfterIsFusedB
<1>3. CASE AfterIsFusedAgain(t, root, n)
  <2>1. CASE Finish(t, FALSE) /\ walk[t].other = root
    BY <1>3, <1>f, <2>1 DEF AfterIsFusedAgain, IsTaggedPointer, IsTaggedRefcount
  <2>2. CASE FindRoot(t, walk[t].ai, "isfused_b") /\ UNCHANGED call
    <3>1. pc'[t] = "fr_load" /\ find'[t].ret = "isfused_b"
      BY <2>2, <1>t, FindRootFacts
    <3> QED BY <1>f, <2>2, <3>1 DEF IsFusedInv, Fused
  <2> QED BY <1>3, <2>1, <2>2 DEF AfterIsFusedAgain
<1> QED BY <1>1, <1>2, <1>3, <1>r DEF Resume, AfterFuse1, AfterFuse2, AfterIncRef, AfterDebugRefCount

LEMMA StepIsFused ==
  ASSUME IndInv, IndInv', GroupInv, Growing, NEW t \in Thread, IsFusedInv(t),
         NEW u \in Thread, Caller(u) \/ Step(u),
         (pc[t] # "idle" /\ pc'[t] # "idle") => atStart'[t] = atStart[t],
         (pc[t] = "idle" /\ pc'[t] # "idle") =>
            atStart'[t].fused = (RootOf[call'[t].a] = RootOf[call'[t].b])
  PROVE  IsFusedInv(t)'
<1>t. /\ TypeOK /\ CallInv(t) /\ FindGroup(t) /\ RootInv /\ FindInv(t) /\ Born \subseteq Arena
  BY Pointers DEF IndInv, GroupInv, ThreadGroup
<1>m. \A a \in Arena : IsTaggedPointer(parent_or_count[a]) => IsTaggedPointer(parent_or_count'[a])
  BY StepInd DEF Monotone
<1>1. CASE u # t
  <2>1. /\ pc'[t] = pc[t] /\ call'[t] = call[t] /\ find'[t] = find[t] /\ walk'[t] = walk[t]
    BY <1>1, StepKeeps DEF OthersKeep, IndInv
  <2>2. pc[t] # "idle" => call[t].a \in Arena /\ call[t].b \in Arena
    BY <1>t, FrameArenas
  <2>3. (pc[t] \in Finding /\ find[t].ret = "isfused_again") => walk[t].other \in Arena
    BY <1>t DEF FindInv
  <2> QED BY <2>1, <2>2, <2>3, <1>m DEF IsFusedInv, Fused, Growing
<1>2. CASE u = t /\ Caller(u)
  <2>1. SUFFICES ASSUME call'[t].op = "IsFused", pc'[t] # "idle", atStart'[t].fused
                 PROVE  IsFusedInv(t)'
    BY DEF IsFusedInv
  <2>2. PICK a \in Arena, b \in Arena : IsFused(t, a, b)
    BY <1>2, <1>t, <2>1 DEF Caller, Fuse, Free, IncRefFor, DebugRefCount, SpaceAllocated, Call, TypeOK
  <2>3. pc[t] = "idle"
    BY <2>2 DEF IsFused, StartCall
  <2>4. CASE a = b /\ Goto(t, "ret") /\ call' = [call EXCEPT ![t] = Call("IsFused", a, b, TRUE)]
    <3>1. pc'[t] = "ret" /\ call'[t].ans = TRUE /\ call'[t].a = a /\ call'[t].b = b
      BY <2>4, <1>t DEF Goto, Call, TypeOK
    <3> QED BY <2>4, <3>1 DEF IsFusedInv, Fused, Finding
  <2>5. CASE /\ call' = [call EXCEPT ![t] = Call("IsFused", a, b, FALSE)]
             /\ FindRoot(t, a, "isfused_a")
    <3>1. call'[t].a = a /\ call'[t].b = b
      BY <2>5, <1>t DEF Call, TypeOK
    <3>2. pc'[t] = "fr_load" /\ find'[t].ret = "isfused_a"
      BY <2>5, <1>t, FindRootFacts
    <3>3. RootOf[a] = RootOf[b]
      BY <2>1, <2>3, <3>1
    <3> QED BY <3>1, <3>2, <3>3 DEF IsFusedInv, Fused, Growing
  <2> QED BY <2>2, <2>4, <2>5 DEF IsFused
<1>3. CASE u = t /\ Step(u)
  <2>1. pc[t] # "idle" /\ (pc'[t] # "idle" => /\ call'[t].op = call[t].op
                                              /\ call'[t].a = call[t].a /\ call'[t].b = call[t].b)
    BY <1>3, <1>t, StepArgs
  <2>2. SUFFICES ASSUME call[t].op = "IsFused", pc'[t] # "idle", atStart[t].fused
                 PROVE  IsFusedInv(t)'
    BY <2>1 DEF IsFusedInv
  <2>3. FindRootLoad(t) \/ FindRootReload(t) \/ FindRootNext(t) \/ FindRootSplit(t)
    <3>1. pc[t] \in Finding \cup {"ret"}
      BY <1>t, <2>1, <2>2 DEF CallInv, TypeOK, Labels, Walking, Linking
    <3>2. ~Return(t)
      BY <2>2, <1>t DEF Return, Goto, TypeOK
    <3> QED BY <1>3, <3>1, <3>2 DEF Step, FuseCasR1, FuseCasR2,
       LinkForwardTail, LinkForwardNext, LinkForwardCas, UpdateTailLoadChild, UpdateTailLoadParent,
       UpdateTailCas, LinkBackward, FixupLoad, FixupCas, IncRefCas, IncRefCasFails,
       SpaceAllocatedBack, SpaceAllocatedForward, FreeLoad, FreeCas, DoFreeNext, DoFreeBlocks, Finding
  <2>4. /\ pc[t] \in Finding /\ find[t].ai \in Arena
        /\ pc[t] = "fr_next" => find[t].poc.val \in Arena
        /\ RootOf[find[t].ai] = RootOf[Wanted(t)]
        /\ pc[t] = "fr_next" => RootOf[find[t].poc.val] = RootOf[Wanted(t)]
        /\ find[t].ret = "isfused_again" => walk[t].other \in Arena
    BY <2>3, <1>t DEF FindRootLoad, FindRootReload, FindRootNext, FindRootSplit, Finding, FindInv,
       FindGroup, Fused
  <2>5. atStart'[t] = atStart[t]
    BY <2>1, <2>2
  <2>6. CASE \E root \in Arena : \E n :
               /\ Resume(t, root, n) /\ RootOf[root] = RootOf[Wanted(t)]
               /\ IsTaggedRefcount(parent_or_count[root])
               /\ parent_or_count' = parent_or_count
    <3>1. RootOf' = RootOf
      BY <2>6, <1>t, CountsOnly DEF IndInv
    <3> QED BY <2>2, <2>4, <2>5, <2>6, <3>1, ResumeIsFused
  <2>7. CASE pc'[t] \in Finding /\ find'[t].ret = find[t].ret /\ UNCHANGED <<call, walk>>
    <3>1. pc'[t] # "ret" /\ RootOf'[call[t].a] = RootOf'[call[t].b]
      BY <2>1, <2>2, <2>7, <1>t, FrameArenas DEF IsFusedInv, Fused, Growing, Finding
    <3> QED BY <1>m, <2>1, <2>2, <2>4, <2>5, <2>7, <3>1 DEF IsFusedInv, Fused
  <2>8. CASE FindRootLoad(t)
    BY <2>8, <2>4, <2>6, <2>7, <1>t DEF FindRootLoad, Goto, TypeOK, memory, Finding
  <2>9. CASE FindRootNext(t)
    BY <2>9, <2>4, <2>6, <2>7, <1>t DEF FindRootNext, Goto, TypeOK, memory, Finding, FindFrame
  <2>10. CASE FindRootReload(t) \/ FindRootSplit(t)
    BY <2>10, <2>7, <1>t DEF FindRootReload, FindRootSplit, Goto, TypeOK, Finding, FindFrame
  <2> QED BY <2>3, <2>8, <2>9, <2>10
<1> QED BY <1>1, <1>2, <1>3

LEMMA NextIsFused ==
  IndInv /\ IndInv' /\ GroupInv /\ (\A t \in Thread : IsFusedInv(t)) /\ [CheckNext]_<<vars, atStart>>
    => \A t \in Thread : IsFusedInv(t)'
<1> SUFFICES ASSUME IndInv, IndInv', GroupInv, \A t \in Thread : IsFusedInv(t),
                    [CheckNext]_<<vars, atStart>>, NEW t \in Thread
             PROVE  IsFusedInv(t)'
  OBVIOUS
<1>1. [Next]_vars
  BY DEF CheckNext
<1>2. Growing
  BY <1>1, NextGroup
<1>3. ASSUME NEW u \in Thread, Caller(u) \/ Step(u) PROVE IsFusedInv(t)'
  BY <1>2, <1>3, RememberFacts, StepIsFused
<1>4. ASSUME UNCHANGED <<pc, call, find, walk>>,
             \A a \in Arena : IsTaggedPointer(parent_or_count[a]) => IsTaggedPointer(parent_or_count'[a])
      PROVE  IsFusedInv(t)'
  <2>1. pc[t] # "idle" => call[t].a \in Arena /\ call[t].b \in Arena
    BY FrameArenas DEF GroupInv, ThreadGroup
  <2>2. (pc[t] \in Finding /\ find[t].ret = "isfused_again") => walk[t].other \in Arena
    BY Pointers DEF IndInv, FindInv
  <2>3. pc[t] # "idle" => atStart'[t] = atStart[t]
    BY <1>4, RememberFacts
  <2> QED BY <1>2, <1>4, <2>1, <2>2, <2>3 DEF IsFusedInv, Fused, Growing
<1>5. CASE UNCHANGED vars
  BY <1>4, <1>5 DEF vars, memory
<1>6. ASSUME NEW a \in Arena, NEW h \in BOOLEAN, Arena_Init(a, h) PROVE IsFusedInv(t)'
  <2>1. \A b \in Arena : IsTaggedPointer(parent_or_count[b]) => IsTaggedPointer(parent_or_count'[b])
    BY <1>6, CreateInd DEF Monotone
  <2> QED BY <1>4, <1>6, <2>1 DEF Arena_Init
<1> QED BY <1>1, <1>3, <1>5, <1>6 DEF Next

(* upb_Arena_IsFused is linearizable, although it reads two roots at       *)
(* different moments while other threads fuse: true means fused on return, *)
(* false means not fused at the call.                                      *)
THEOREM IsFusedLinearizable == CheckSpec => []IsFusedResult
<1>1. CheckSpec => [](IndInv /\ GroupInv)
  BY CheckImplies, Inductive, GroupsSound, PTL
<1>2. CheckInit => \A t \in Thread : IsFusedInv(t)
  BY DEF CheckInit, Init, InitThreads, IsFusedInv
<1>3. GroupInv /\ (\A t \in Thread : IsFusedInv(t)) => IsFusedResult
  BY DEF GroupInv, ThreadGroup, FuseGroup, IsFusedInv, IsFusedResult
<1>4. (\A t \in Thread : IsFusedInv(t))' <=> (\A t \in Thread : IsFusedInv(t)')
  OBVIOUS
<1> QED BY <1>1, <1>2, <1>3, <1>4, NextIsFused, PTL DEF CheckSpec

\* An arena with an initial block has no second reference and no group, and
\* Fuse and IncRefFor have looked at it before they go on.
InitialInv ==
  /\ \A b \in Arena : RootOf[b] = b \/ RootOf[b] \in Born
  /\ \A a \in Arena : initial_block[a] =>
       a \in Born /\ refs[a] <= 1 /\ \A b \in Arena : Fused(a, b) => a = b

InitialCall(t) ==
  LET c == call[t] IN
  /\ (c.op = "Fuse" /\ pc[t] # "ret") => ~initial_block[c.a] /\ ~initial_block[c.b]
  /\ (c.op = "IncRefFor" /\ pc[t] # "ret") => ~initial_block[c.a]
  /\ (c.op = "Fuse" /\ pc[t] = "ret" /\ ~c.ans) => initial_block[c.a] \/ initial_block[c.b]

(* A Fuse that has come past the test of the initial blocks succeeds.      *)
LEMMA FuseEndsTrue ==
  ASSUME IndInv, NEW t \in Thread, CallInv(t), Step(t), call[t].op = "Fuse", pc'[t] = "ret"
  PROVE  call'[t].ans = TRUE
<1>t. TypeOK
  BY DEF IndInv
<1>e. ASSUME EnterFixup(t) PROVE call'[t].ans = TRUE
  BY <1>e, <1>t, EnterFixupFacts
<1>f. ASSUME Finish(t, TRUE) PROVE call'[t].ans = TRUE
  BY <1>f, <1>t, FinishFacts
<1> USE DEF Goto
<1>r. ASSUME pc[t] \in Finding, NEW root, NEW n, Resume(t, root, n)
      PROVE  call'[t].ans = TRUE
  <2>1. find[t].ret \in {"fuse1", "fuse2"}
    BY <1>r DEF CallInv
  <2>2. CASE AfterFuse1(t, root, n)
    BY <2>2, <1>t, FindRootFacts DEF AfterFuse1
  <2>3. CASE AfterFuse2(t, root, n)
    BY <2>3, <1>t, <1>e DEF AfterFuse2, TypeOK
  <2> QED BY <1>r, <2>1, <2>2, <2>3 DEF Resume, AfterIncRef, AfterDebugRefCount, AfterIsFusedA,
             AfterIsFusedB, AfterIsFusedAgain
<1>1. CASE FindRootLoad(t)
  BY <1>1, <1>r, <1>t DEF FindRootLoad, TypeOK, Finding
<1>2. CASE FindRootNext(t)
  BY <1>2, <1>r, <1>t DEF FindRootNext, TypeOK, Finding
<1>3. CASE RetryFuse(t)
  BY <1>3, <1>t, FindRootFacts DEF RetryFuse
<1>4. CASE FuseCasR1(t) \/ FuseCasR2(t) \/ FixupLoad(t) \/ FixupCas(t)
  BY <1>4, <1>3, <1>f, <1>t DEF FuseCasR1, FuseCasR2, FixupLoad, FixupCas, TypeOK
<1>5. CASE LinkBackward(t)
  BY <1>5, <1>e DEF LinkBackward
<1>6. CASE \/ FindRootReload(t) \/ FindRootSplit(t)
           \/ LinkForwardTail(t) \/ LinkForwardNext(t) \/ LinkForwardCas(t)
           \/ UpdateTailLoadChild(t) \/ UpdateTailLoadParent(t) \/ UpdateTailCas(t) \/ Return(t)
  BY <1>6, <1>t DEF FindRootReload, FindRootSplit, LinkForwardTail, LinkForwardNext,
     LinkForwardCas, UpdateTailLoadChild, UpdateTailLoadParent, UpdateTailCas, Return, TypeOK
<1>7. ~(\/ IncRefCas(t) \/ IncRefCasFails(t) \/ SpaceAllocatedBack(t) \/ SpaceAllocatedForward(t)
        \/ FreeLoad(t) \/ FreeCas(t) \/ DoFreeNext(t) \/ DoFreeBlocks(t))
  BY DEF CallInv, IncRefCas, IncRefCasFails, SpaceAllocatedBack, SpaceAllocatedForward, FreeLoad,
     FreeCas, DoFreeNext, DoFreeBlocks
<1> QED BY <1>1, <1>2, <1>4, <1>5, <1>6, <1>7 DEF Step

(* The calls' side of the invariant.                                       *)
LEMMA StepInitialCall ==
  ASSUME IndInv, GroupInv, NEW t \in Thread, InitialCall(t), NEW u \in Thread, Caller(u) \/ Step(u)
  PROVE  InitialCall(t)'
<1>t. TypeOK /\ CallInv(t)
  BY DEF IndInv, GroupInv, ThreadGroup
<1>b. UNCHANGED initial_block
  <2>1. Caller(u) => UNCHANGED initial_block
    BY DEF Caller, Fuse, IsFused, Free, IncRefFor, DebugRefCount, SpaceAllocated, memory
  <2>2. Step(u) => UNCHANGED initial_block
    BY DEF Step, FindRootLoad, FindRootReload, FindRootNext, FindRootSplit, FuseCasR1, FuseCasR2,
       LinkForwardTail, LinkForwardNext, LinkForwardCas, UpdateTailLoadChild, UpdateTailLoadParent,
       UpdateTailCas, LinkBackward, FixupLoad, FixupCas, IncRefCas, IncRefCasFails,
       SpaceAllocatedBack, SpaceAllocatedForward, FreeLoad, FreeCas, DoFreeNext, DoFreeBlocks,
       Return, memory
  <2> QED BY <2>1, <2>2
<1>1. CASE u # t
  <2>1. pc'[t] = pc[t] /\ call'[t] = call[t]
    BY <1>1, StepKeeps DEF OthersKeep, IndInv
  <2> QED BY <1>b, <2>1 DEF InitialCall
<1>2. CASE u = t /\ Step(u)
  <2>1. /\ pc[t] # "idle"
        /\ pc[t] # "ret" \/ pc'[t] = "idle"
        /\ pc'[t] # "idle" => /\ call'[t].op = call[t].op
                              /\ call'[t].a = call[t].a /\ call'[t].b = call[t].b
    <3>1. pc[t] = "ret" => Return(t)
      BY <1>2 DEF Step, FindRootLoad, FindRootReload, FindRootNext, FindRootSplit, FuseCasR1,
         FuseCasR2, LinkForwardTail, LinkForwardNext, LinkForwardCas, UpdateTailLoadChild,
         UpdateTailLoadParent, UpdateTailCas, LinkBackward, FixupLoad, FixupCas, IncRefCas,
         IncRefCasFails, SpaceAllocatedBack, SpaceAllocatedForward, FreeLoad, FreeCas, DoFreeNext,
         DoFreeBlocks
    <3> QED BY <1>2, <1>t, <3>1, StepArgs DEF Return, Goto, TypeOK
  <2>2. CASE pc'[t] = "idle"
    <3>1. CallInv(t)'
      BY <1>2, <1>t, StepCall
    <3> QED BY <2>2, <3>1 DEF CallInv, InitialCall
  <2>3. CASE pc'[t] = "ret" /\ call[t].op = "Fuse"
    BY <1>2, <1>t, <2>3, <2>1, FuseEndsTrue DEF InitialCall
  <2> QED BY <1>b, <2>1, <2>2, <2>3 DEF InitialCall
<1>3. CASE u = t /\ Caller(u)
  <2>1. ASSUME NEW a \in Arena, NEW b \in Arena, Fuse(t, a, b) PROVE InitialCall(t)'
    <3>1. CASE pc'[t] = "ret" /\ call' = [call EXCEPT ![t] = Call("Fuse", a, b, TRUE)]
      BY <3>1, <1>t DEF InitialCall, TypeOK, Call
    <3>2. CASE /\ pc'[t] = "ret" /\ call' = [call EXCEPT ![t] = Call("Fuse", a, b, FALSE)]
               /\ initial_block[a] \/ initial_block[b]
      BY <3>2, <1>b, <1>t DEF InitialCall, TypeOK, Call
    <3>3. CASE /\ pc'[t] = "fr_load" /\ call' = [call EXCEPT ![t] = Call("Fuse", a, b, FALSE)]
               /\ ~initial_block[a] /\ ~initial_block[b]
      BY <3>3, <1>b, <1>t DEF InitialCall, TypeOK, Call
    <3> QED BY <2>1, <1>t, <3>1, <3>2, <3>3, FindRootFacts DEF Fuse, Goto, TypeOK
  <2>2. ASSUME NEW a \in Arena, IncRefFor(t, a) PROVE InitialCall(t)'
    <3>1. /\ call'[t].op = "IncRefFor" /\ call'[t].a = a
          /\ pc'[t] = "ret" \/ ~initial_block[a]
      BY <2>2, <1>t, FindRootFacts DEF IncRefFor, Goto, TypeOK, Call
    <3> QED BY <1>b, <3>1 DEF InitialCall
  <2>3. CASE call'[t].op \notin {"Fuse", "IncRefFor"}
    BY <2>3 DEF InitialCall
  <2> QED BY <1>3, <1>t, <2>1, <2>2, <2>3 DEF Caller, IsFused, Free, DebugRefCount, SpaceAllocated,
             Call, TypeOK
<1> QED BY <1>1, <1>2, <1>3

(* The arenas' side of the invariant.                                      *)
LEMMA StepInitial ==
  ASSUME IndInv, IndInv', GroupInv, InitialInv, NEW t \in Thread, InitialCall(t), Caller(t) \/ Step(t)
  PROVE  InitialInv'
<1>t. /\ TypeOK /\ CallInv(t) /\ RootInv /\ FuseGroup(t) /\ FuseInv(t) /\ Born' = Born
      /\ Born \subseteq Arena
  BY StepBorn, Pointers DEF IndInv, GroupInv, ThreadGroup
<1>b. /\ UNCHANGED initial_block
      /\ \A a \in Arena : \/ refs'[a] = refs[a] \/ refs'[a] = refs[a] - 1
                          \/ IncRefCas(t) /\ a = call[t].a
  <2>1. ASSUME Caller(t)
        PROVE  /\ UNCHANGED initial_block
               /\ \A a \in Arena : refs'[a] = refs[a] \/ refs'[a] = refs[a] - 1
    <3>1. CASE \E a \in Arena : Free(t, a)
      BY <3>1, <1>t DEF Free, memory, TypeOK
    <3>2. CASE UNCHANGED <<initial_block, refs>>
      BY <3>2
    <3> QED BY <2>1, <3>1, <3>2 DEF Caller, Fuse, IsFused, IncRefFor, DebugRefCount,
               SpaceAllocated, memory
  <2>2. Step(t) /\ ~IncRefCas(t) => UNCHANGED <<initial_block, refs>>
    BY DEF Step, FindRootLoad, FindRootReload, FindRootNext, FindRootSplit, FuseCasR1, FuseCasR2,
       LinkForwardTail, LinkForwardNext, LinkForwardCas, UpdateTailLoadChild, UpdateTailLoadParent,
       UpdateTailCas, LinkBackward, FixupLoad, FixupCas, IncRefCasFails,
       SpaceAllocatedBack, SpaceAllocatedForward, FreeLoad, FreeCas, DoFreeNext, DoFreeBlocks,
       Return, memory
  <2>3. IncRefCas(t) => /\ UNCHANGED initial_block
                        /\ \A a \in Arena : refs'[a] = refs[a] \/ a = call[t].a
    BY <1>t DEF IncRefCas, TypeOK
  <2> QED BY <2>1, <2>2, <2>3
<1>1. \A a \in Arena : initial_block'[a] => a \in Born' /\ refs'[a] <= 1
  <2>1. IncRefCas(t) => ~initial_block[call[t].a]
    BY <1>t DEF IncRefCas, CallInv, InitialCall
  <2>2. \A a \in Arena : refs[a] \in Int
    BY <1>t DEF TypeOK
  <2> QED BY <1>b, <1>t, <2>1, <2>2 DEF InitialInv
<1>2. /\ \A b \in Arena : RootOf'[b] = b \/ RootOf'[b] \in Born'
      /\ \A a \in Arena : initial_block'[a] => \A b \in Arena : RootOf'[a] = RootOf'[b] => a = b
  <2>1. CASE RootOf' = RootOf
    BY <1>b, <1>t, <2>1 DEF InitialInv, Fused
  <2>2. CASE JoinStep(t)
    <3> DEFINE r == roots[t]
    <3>1. /\ r.r1 \in Born /\ r.r2 \in Born /\ r.r1 < r.r2 /\ call[t].op = "Fuse"
          /\ ~initial_block[call[t].a] /\ ~initial_block[call[t].b]
          /\ call[t].a \in Arena /\ call[t].b \in Arena
      BY <2>2, <1>t, FrameArenas DEF JoinStep, FuseInv, CallInv, InitialCall
    <3>2. RootOf[r.r2] = r.r2
      BY <2>2, <1>t, <3>1, JoinFuses
    <3>3. \A c \in Arena : RootOf'[c] = IF RootOf[c] = r.r2 THEN RootOf[r.r1] ELSE RootOf[c]
      BY <2>2 DEF JoinStep, Joined
    <3>4. \/ RootOf[r.r1] = RootOf[call[t].a] /\ RootOf[r.r2] = RootOf[call[t].b]
          \/ RootOf[r.r1] = RootOf[call[t].b] /\ RootOf[r.r2] = RootOf[call[t].a]
      BY <2>2, <1>t DEF JoinStep, FuseGroup, Fused
    <3> HIDE DEF r
    <3>5. \A b \in Arena : RootOf'[b] = b \/ RootOf'[b] \in Born'
      BY <1>t, <3>1, <3>3 DEF InitialInv
    \* The groups of the two arguments have no initial blocks.
    <3>6. \A a \in Arena : initial_block[a] => RootOf[a] # RootOf[r.r1] /\ RootOf[a] # r.r2
      BY <3>1, <3>2, <3>4 DEF InitialInv, Fused
    <3>7. \A a \in Arena : initial_block[a] => \A b \in Arena : RootOf'[a] = RootOf'[b] => a = b
      BY <3>3, <3>6 DEF InitialInv, Fused
    <3> QED BY <1>b, <3>5, <3>7
  <2> QED BY <2>1, <2>2, StepRoots
<1> QED BY <1>1, <1>2 DEF InitialInv, Fused

LEMMA NextInitial ==
  /\ IndInv /\ IndInv' /\ GroupInv /\ InitialInv /\ (\A t \in Thread : InitialCall(t))
  /\ [Next]_vars
  => InitialInv' /\ \A t \in Thread : InitialCall(t)'
<1> SUFFICES ASSUME IndInv, IndInv', GroupInv, InitialInv, \A t \in Thread : InitialCall(t), [Next]_vars
             PROVE  InitialInv' /\ \A t \in Thread : InitialCall(t)'
  OBVIOUS
<1>1. CASE UNCHANGED vars
  <2>1. UNCHANGED <<status, initial_block, refs, pc, call>> /\ RootOf' = RootOf
    BY <1>1, StutterGroup DEF vars, memory
  <2> QED BY <2>1 DEF InitialInv, InitialCall, Fused, Born
<1>2. ASSUME NEW a \in Arena, NEW h \in BOOLEAN, Arena_Init(a, h)
      PROVE  InitialInv' /\ \A t \in Thread : InitialCall(t)'
  <2>1. RootOf' = RootOf /\ UNCHANGED <<pc, call>>
    BY <1>2, CreateGroup DEF Arena_Init
  <2>2. /\ a \notin Born /\ Born' = Born \cup {a}
        /\ \A b \in Arena \ {a} : initial_block'[b] = initial_block[b] /\ refs'[b] = refs[b]
        /\ refs'[a] = 1
    BY <1>2 DEF Arena_Init, Born, IndInv, TypeOK
  <2>3. RootOf[a] = a
    BY <2>2 DEF InitialInv, GroupInv, RootInv, IndInv, MemoryInv, IsTaggedRefcount, IsTaggedPointer
  <2>4. \A b \in Arena : RootOf[a] = RootOf[b] => a = b
    BY <2>2, <2>3 DEF InitialInv
  <2>5. InitialInv'
    BY <2>1, <2>2, <2>4 DEF InitialInv, Fused
  <2>6. ASSUME NEW t \in Thread PROVE InitialCall(t)'
    <3>1. pc[t] # "idle" => call[t].a \in Born /\ call[t].b \in Born
      BY DEF GroupInv, ThreadGroup, CallInv
    <3>2. pc[t] = "idle" => call[t].op = "none"
      BY DEF GroupInv, ThreadGroup, CallInv
    <3>3. Born \subseteq Arena
      BY Pointers
    <3> QED BY <2>1, <2>2, <3>1, <3>2, <3>3 DEF InitialCall
  <2> QED BY <2>5, <2>6
<1>3. ASSUME NEW t \in Thread, Caller(t) \/ Step(t)
      PROVE  InitialInv' /\ \A u \in Thread : InitialCall(u)'
  BY <1>3, StepInitial, StepInitialCall
<1> QED BY <1>1, <1>2, <1>3 DEF Next

(* At most one reference is one reference at most.                         *)
LEMMA HeldOnce ==
  ASSUME NEW a \in Arena, refs[a] \in Int, refs[a] <= 1
  PROVE  Held({a}) <= 1
<1>1. CASE refs[a] = 1
  <2>1. References({a}) = {<<a, 1>>}
    BY <1>1 DEF References
  <2>2. Cardinality({<<a, 1>>}) = 1
    BY FS_Singleton
  <2> QED BY <2>1, <2>2 DEF Held
<1>2. CASE refs[a] < 1
  <2>1. References({a}) = {}
    BY <1>2 DEF References
  <2> QED BY <2>1, FS_EmptySet DEF Held
<1> QED BY <1>1, <1>2

(* The initial blocks stay apart.                                          *)
LEMMA InitialSound == Spec => [](InitialInv /\ \A t \in Thread : InitialCall(t))
<1>1. Spec => [](IndInv /\ GroupInv)
  BY Inductive, GroupsSound, PTL
<1>2. Init => InitialInv /\ \A t \in Thread : InitialCall(t)
  <2> SUFFICES ASSUME Init PROVE InitialInv /\ \A t \in Thread : InitialCall(t)
    OBVIOUS
  <2>1. RootOf = [a \in Arena |-> a]
    BY InitInd, OwnRoots DEF IndInv, Init, IsTaggedPointer, TaggedFromRefcount
  <2>2. InitialInv
    BY <2>1 DEF InitialInv, Init, InitLists
  <2>3. \A t \in Thread : InitialCall(t)
    BY DEF Init, InitThreads, InitialCall, NoCall, Call
  <2> QED BY <2>2, <2>3
<1>3. (\A t \in Thread : InitialCall(t))' <=> (\A t \in Thread : InitialCall(t)')
  OBVIOUS
<1> QED BY <1>1, <1>2, <1>3, NextInitial, PTL DEF Spec

(* upb_Arena_Fuse answers true only for arenas that share a lifetime and   *)
(* false only for initial blocks, however many threads fuse at once; an    *)
(* arena with an initial block stays alone, with one reference.            *)
THEOREM FuseIsSound == CheckSpec => []FuseResult
<1>1. Spec => [](IndInv /\ GroupInv)
  BY Inductive, GroupsSound, PTL
<1>2. ASSUME TypeOK, GroupInv, InitialInv, \A t \in Thread : InitialCall(t) PROVE FuseResult
  <2>1. ASSUME NEW t \in Thread, pc[t] = "ret", call[t].op = "Fuse"
        PROVE  IF call[t].ans THEN Fused(call[t].a, call[t].b)
               ELSE initial_block[call[t].a] \/ initial_block[call[t].b]
    BY <1>2, <2>1 DEF GroupInv, ThreadGroup, FuseGroup, InitialCall
  <2>2. ASSUME NEW a \in Live, initial_block[a] PROVE GroupOf(a) = {a} /\ Held({a}) <= 1
    <3>1. a \in Arena /\ refs[a] \in Int /\ refs[a] <= 1 /\ \A b \in Arena : Fused(a, b) => a = b
      BY <1>2, <2>2 DEF Live, InitialInv, TypeOK
    <3>2. GroupOf(a) = {a}
      BY <3>1 DEF GroupOf, Fused
    <3> QED BY <3>1, <3>2, HeldOnce
  <2> QED BY <2>1, <2>2 DEF FuseResult
<1>3. IndInv /\ GroupInv /\ InitialInv /\ (\A t \in Thread : InitialCall(t)) => FuseResult
  BY <1>2 DEF IndInv
<1> QED BY <1>1, <1>3, InitialSound, CheckImplies, PTL
=============================================================================

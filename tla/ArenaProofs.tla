---------------------------- MODULE ArenaProofs ----------------------------
(***************************************************************************)
(* Proofs about Arena for any set of addresses, any set of threads and any *)
(* mix of calls: IndInv is inductive, and it implies the safety of the     *)
(* shared structures.                                                      *)
(***************************************************************************)
EXTENDS Arena, TLAPS

-----------------------------------------------------------------------------
(* IndInv holds before any arena has been created.                         *)
LEMMA InitInd == Init => IndInv
<1> SUFFICES ASSUME Init PROVE IndInv
  OBVIOUS
<1> USE DEF Init, InitLists, InitThreads
<1>1. TypeOK
  BY ArenaAssumption DEF TypeOK, Pointer, Word, CountWord, ListWord, Labels, Ops, Rets,
     NoCall, NoFind, NoFuse, NoRoots, NoLink, NoWalk, TaggedFromRefcount, TaggedFromTail,
     Call, FindFrame, FuseFrame, RootsFrame, LinkFrame, WalkFrame,
     NULL, Finding, Linking, Walking
<1>2. ParentBelow /\ ListsAgree /\ MemoryInv
  BY ArenaAssumption DEF ParentBelow, ListsAgree, MemoryInv, IsTaggedPointer, Born, NULL,
     IsTaggedRefcount, IsTaggedPrevious, IsTaggedTail, TaggedFromRefcount, TaggedFromTail
<1>3. LinkExclusive
  BY DEF LinkExclusive, Linked, Linking
<1>4. \A t \in Thread : FindInv(t) /\ FuseInv(t) /\ WalkInv(t)
  BY DEF FindInv, FuseInv, WalkInv, Finding, Linking, Walking, Linked
<1> QED BY <1>1, <1>2, <1>3, <1>4 DEF IndInv

-----------------------------------------------------------------------------
(* The sets the types are made of, so that no proof has to open them.      *)

(* NULL and every arena are pointers.                                      *)
LEMMA Pointers == NULL \in Pointer /\ Arena \subseteq Pointer /\ Born \subseteq Arena
  BY DEF Pointer, Born

(* Addresses are numbers, so that < orders them.                           *)
LEMMA ArenasAreNumbers == \A a \in Born : a \in Int
  BY ArenaAssumption DEF Born

(* NULL is no arena.                                                       *)
LEMMA NullIsNoArena == NULL \notin Arena
  BY ArenaAssumption DEF NULL

(* Tagging a count gives a word.                                           *)
LEMMA CountWords == \A n \in Int : TaggedFromRefcount(n) \in Word
  BY DEF Word, CountWord, TaggedFromRefcount

(* Tagging a parent gives a word.                                          *)
LEMMA PointerWords == \A p \in Arena : TaggedFromPointer(p) \in Word
  BY DEF Word, TaggedFromPointer

(* A word is a count or a parent, and the tag tells which.                 *)
LEMMA WordCases ==
  \A w \in Word : \/ IsTaggedPointer(w) /\ ~IsTaggedRefcount(w) /\ w.val \in Arena
                  \/ IsTaggedRefcount(w) /\ ~IsTaggedPointer(w) /\ w.val \in Int
  BY DEF Word, CountWord, IsTaggedPointer, IsTaggedRefcount

(* Tails and predecessors are list words, and the tag tells which.         *)
LEMMA ListWords ==
  /\ \A p \in Pointer : TaggedFromTail(p) \in ListWord /\ TaggedFromPrevious(p) \in ListWord
  /\ \A w \in ListWord : /\ w.val \in Pointer
                         /\ IsTaggedTail(w) <=> ~IsTaggedPrevious(w)
  BY DEF ListWord, TaggedFromTail, TaggedFromPrevious, IsTaggedTail, IsTaggedPrevious

(* The labels, resumption points and operations the actions use.           *)
LEMMA Names ==
  /\ {"idle", "ret", "cas_r1", "cas_r2", "fx_load", "fx_cas", "fr_load", "fr_reload",
      "fr_next", "fr_split", "lf_tail", "lf_next", "lf_cas", "ut_child", "ut_parent",
      "ut_cas", "lb_store", "inc_cas", "sa_back", "sa_forward", "free_load", "free_cas",
      "df_next", "df_blocks"} \subseteq Labels
  /\ {"none", "fuse1", "fuse2", "incref", "debug", "isfused_a", "isfused_b",
      "isfused_again"} \subseteq Rets
  /\ {"none", "Fuse", "Free", "IncRefFor", "DebugRefCount", "IsFused",
      "SpaceAllocated"} \subseteq Ops
  BY DEF Labels, Finding, Linking, Walking, Rets, Ops

-----------------------------------------------------------------------------
(* What a call of FindRoot leaves behind.                                  *)
LEMMA FindRootType ==
  ASSUME TypeOK, NEW t \in Thread, NEW a \in Arena,
         NEW ret \in Rets, FindRoot(t, a, ret)
  PROVE  /\ pc' \in [Thread -> Labels]
         /\ find' \in [Thread -> [ai : Pointer, nxt : Pointer, poc : Word, ret : Rets]]
<1>1. FindFrame(a, NULL, TaggedFromRefcount(0), ret)
        \in [ai : Pointer, nxt : Pointer, poc : Word, ret : Rets]
  BY Pointers, CountWords DEF FindFrame
<1> QED BY <1>1, Names DEF TypeOK, FindRoot, Goto

(* What the end of a call leaves behind.                                   *)
LEMMA FinishType ==
  ASSUME TypeOK, NEW t \in Thread, NEW ans \in BOOLEAN, Finish(t, ans)
  PROVE  /\ pc' \in [Thread -> Labels]
         /\ call' \in [Thread -> [op : Ops, a : Pointer, b : Pointer, ans : BOOLEAN]]
<1>1. call \in [Thread -> [op : Ops, a : Pointer, b : Pointer, ans : BOOLEAN]]
  BY DEF TypeOK
<1>2. Call(call[t].op, call[t].a, call[t].b, ans)
        \in [op : Ops, a : Pointer, b : Pointer, ans : BOOLEAN]
  BY <1>1 DEF Call
<1> QED BY <1>1, <1>2, Names DEF TypeOK, Finish, Goto

(* What entering FixupRefs, or skipping it, leaves behind.                 *)
LEMMA EnterFixupType ==
  ASSUME TypeOK, NEW t \in Thread, EnterFixup(t)
  PROVE  /\ pc' \in [Thread -> Labels]
         /\ call' \in [Thread -> [op : Ops, a : Pointer, b : Pointer, ans : BOOLEAN]]
<1>1. CASE Finish(t, TRUE)
  BY <1>1, FinishType
<1>2. CASE Goto(t, "fx_load") /\ UNCHANGED call
  BY <1>2, Names DEF Goto, TypeOK
<1> QED BY <1>1, <1>2 DEF EnterFixup

(* Returning from FindRoot keeps the types.                                *)
LEMMA ResumeType ==
  ASSUME IndInv, NEW t \in Thread, pc[t] \in Finding,
         NEW root \in Arena, NEW n \in Int, Resume(t, root, n)
  PROVE  /\ pc' \in [Thread -> Labels]
         /\ call' \in [Thread -> [op : Ops, a : Pointer, b : Pointer, ans : BOOLEAN]]
         /\ find' \in [Thread -> [ai : Pointer, nxt : Pointer, poc : Word, ret : Rets]]
         /\ fuse' \in [Thread -> [ai1 : Pointer, ai2 : Pointer, delta : Int]]
         /\ roots' \in [Thread -> [r1 : Pointer, n1 : Int, r2 : Pointer, n2 : Int]]
         /\ link' \in [Thread -> [tail : Pointer, newtail : Pointer, pot : ListWord]]
         /\ walk' \in [Thread -> [ai : Pointer, other : Pointer, n : Int, seen : SUBSET Arena]]
<1>t. TypeOK /\ root \in Pointer /\ NULL \in Pointer
  BY Pointers DEF IndInv
<1>f. FindInv(t) /\ Born \subseteq Arena
  BY Pointers DEF IndInv
<1> USE DEF Goto, fusing
<1>1. CASE AfterFuse1(t, root, n)
  <2>1. fuse[t].ai2 \in Arena
    BY <1>1, <1>f DEF FindInv, AfterFuse1
  <2>2. FindRoot(t, fuse[t].ai2, "fuse2")
    BY <1>1 DEF AfterFuse1
  <2> QED BY <1>1, <1>t, <2>1, <2>2, FindRootType, Names DEF AfterFuse1, RootsFrame, TypeOK
<1>2. CASE AfterFuse2(t, root, n)
  <2>1. CASE roots[t].r1 = root /\ EnterFixup(t) /\ UNCHANGED <<fuse, roots>>
    <3>1. /\ pc' \in [Thread -> Labels]
          /\ call' \in [Thread -> [op : Ops, a : Pointer, b : Pointer, ans : BOOLEAN]]
      BY <1>t, <2>1, EnterFixupType
    <3> QED BY <1>2, <1>t, <2>1, <3>1 DEF AfterFuse2, TypeOK
  <2>2. CASE /\ fuse' = [fuse EXCEPT ![t] = FuseFrame(roots[t].r1, root, @.delta)]
             /\ roots' = [roots EXCEPT ![t] = IF roots[t].r1 > root
                             THEN RootsFrame(root, n, roots[t].r1, roots[t].n1)
                             ELSE RootsFrame(roots[t].r1, roots[t].n1, root, n)]
             /\ Goto(t, "cas_r1") /\ UNCHANGED call
    <3>1. fuse' \in [Thread -> [ai1 : Pointer, ai2 : Pointer, delta : Int]]
      BY <1>t, <2>2 DEF TypeOK, FuseFrame
    <3>2. roots' \in [Thread -> [r1 : Pointer, n1 : Int, r2 : Pointer, n2 : Int]]
      <4>1. roots \in [Thread -> [r1 : Pointer, n1 : Int, r2 : Pointer, n2 : Int]]
        BY <1>t DEF TypeOK
      <4> QED BY <1>t, <2>2, <4>1 DEF RootsFrame
    <3> QED BY <1>2, <1>t, <2>2, <3>1, <3>2, Names DEF AfterFuse2, LowerFirst, TypeOK
  <2> QED BY <1>2, <2>1, <2>2 DEF AfterFuse2, LowerFirst
<1>3. CASE AfterIncRef(t, root, n)
  BY <1>3, <1>t, Names DEF AfterIncRef, WalkFrame, TypeOK
<1>4. CASE AfterDebugRefCount(t, root, n)
  BY <1>4, <1>t, FinishType DEF AfterDebugRefCount, WalkFrame, TypeOK
<1>5. CASE AfterIsFusedA(t, root, n)
  <2>1. walk[t].ai \in Arena
    BY <1>5, <1>f DEF FindInv, AfterIsFusedA
  <2>2. FindRoot(t, walk[t].ai, "isfused_b")
    BY <1>5 DEF AfterIsFusedA
  <2> QED BY <1>5, <1>t, <2>1, <2>2, FindRootType, Names DEF AfterIsFusedA, WalkFrame, TypeOK
<1>6. CASE AfterIsFusedB(t, root, n)
  <2>1. walk[t].other \in Arena
    BY <1>6, <1>f DEF FindInv, AfterIsFusedB
  <2>w. walk' \in [Thread -> [ai : Pointer, other : Pointer, n : Int, seen : SUBSET Arena]]
    BY <1>6, <1>t DEF AfterIsFusedB, WalkFrame, TypeOK
  <2>2. CASE Finish(t, TRUE) /\ UNCHANGED find
    BY <1>6, <1>t, <2>2, <2>w, FinishType DEF AfterIsFusedB, TypeOK
  <2>3. CASE FindRoot(t, walk[t].other, "isfused_again") /\ UNCHANGED call
    BY <1>6, <1>t, <2>1, <2>3, <2>w, FindRootType, Names DEF AfterIsFusedB, TypeOK
  <2> QED BY <1>6, <2>2, <2>3 DEF AfterIsFusedB
<1>7. CASE AfterIsFusedAgain(t, root, n)
  <2>1. walk[t].ai \in Arena
    BY <1>7, <1>f DEF FindInv, AfterIsFusedAgain
  <2>w. walk' \in [Thread -> [ai : Pointer, other : Pointer, n : Int, seen : SUBSET Arena]]
    BY <1>7, <1>t DEF AfterIsFusedAgain, WalkFrame, TypeOK
  <2>2. CASE Finish(t, FALSE) /\ UNCHANGED find
    BY <1>7, <1>t, <2>2, <2>w, FinishType DEF AfterIsFusedAgain, TypeOK
  <2>3. CASE FindRoot(t, walk[t].ai, "isfused_b") /\ UNCHANGED call
    BY <1>7, <1>t, <2>1, <2>3, <2>w, FindRootType, Names DEF AfterIsFusedAgain, TypeOK
  <2> QED BY <1>7, <2>2, <2>3 DEF AfterIsFusedAgain
<1> QED BY <1>1, <1>2, <1>3, <1>4, <1>5, <1>6, <1>7 DEF Resume

(* A step of a thread keeps the types, because the frames refer to arenas  *)
(* where the labels say so.                                                *)
LEMMA StepType ==
  ASSUME IndInv, NEW t \in Thread, Caller(t) \/ Step(t)
  PROVE  TypeOK'
<1>t. TypeOK /\ NULL \in Pointer /\ Arena \subseteq Pointer /\ Born \subseteq Arena
  BY Pointers DEF IndInv
<1>i. FindInv(t) /\ FuseInv(t) /\ WalkInv(t) /\ MemoryInv
  BY DEF IndInv
<1> USE DEF Goto, memory, fusing
<1>1. CASE FindRootLoad(t)
  <2>1. find[t].ai \in Arena /\ pc[t] \in Finding
    BY <1>1, <1>i, <1>t DEF FindRootLoad, FindInv, Finding
  <2>2. CASE IsTaggedRefcount(parent_or_count[find[t].ai]) /\ Resume(t, find[t].ai, parent_or_count[find[t].ai].val)
    <3>1. parent_or_count[find[t].ai].val \in Int
      BY <1>t, <2>1, <2>2, WordCases DEF TypeOK
    <3> QED BY <1>1, <1>t, <2>1, <2>2, <3>1, ResumeType DEF FindRootLoad, TypeOK
  <2>3. CASE Goto(t, "fr_reload") /\ UNCHANGED <<call, find, fusing, walk>>
    BY <1>1, <1>t, <2>3, Names DEF FindRootLoad, TypeOK
  <2> QED BY <1>1, <2>2, <2>3 DEF FindRootLoad
<1>2. CASE FindRootReload(t)
  <2>1. parent_or_count[find[t].ai] \in Word
    BY <1>2, <1>i, <1>t DEF FindRootReload, FindInv, Finding, TypeOK
  <2> QED BY <1>2, <1>t, <2>1, Names DEF FindRootReload, FindFrame, TypeOK
<1>3. CASE FindRootNext(t)
  <2>d DEFINE nxt == find[t].poc.val
  <2>1. nxt \in Arena /\ pc[t] \in Finding
    BY <1>3, <1>i, <1>t DEF FindRootNext, FindInv, Finding
  <2>2. CASE IsTaggedRefcount(parent_or_count[nxt]) /\ Resume(t, nxt, parent_or_count[nxt].val)
    <3>1. parent_or_count[nxt].val \in Int
      BY <1>t, <2>1, <2>2, WordCases DEF TypeOK
    <3> QED BY <1>3, <1>t, <2>1, <2>2, <3>1, ResumeType DEF FindRootNext, TypeOK
  <2>3. CASE /\ find' = [find EXCEPT ![t] = FindFrame(@.ai, nxt, parent_or_count[nxt], @.ret)]
             /\ Goto(t, "fr_split") /\ UNCHANGED <<call, fusing, walk>>
    BY <1>3, <1>t, <2>1, <2>3, Names DEF FindRootNext, TypeOK, FindFrame
  <2> QED BY <1>3, <2>2, <2>3 DEF FindRootNext
<1>4. CASE FindRootSplit(t)
  BY <1>4, <1>t, Names DEF FindRootSplit, FindFrame, TypeOK
<1>r. RetryFuse(t) /\ fuse[t].ai1 \in Born =>
        /\ pc' \in [Thread -> Labels]
        /\ find' \in [Thread -> [ai : Pointer, nxt : Pointer, poc : Word, ret : Rets]]
  BY <1>t, FindRootType, Names DEF RetryFuse
<1>5. CASE FuseCasR1(t)
  <2>1. fuse[t].ai1 \in Born
    BY <1>5, <1>i DEF FuseCasR1, FuseInv
  <2>2. CASE /\ parent_or_count' = [parent_or_count EXCEPT
                 ![roots[t].r1] = TaggedFromRefcount(roots[t].n1 + roots[t].n2)]
             /\ Goto(t, "cas_r2") /\ UNCHANGED find
    <3>1. TaggedFromRefcount(roots[t].n1 + roots[t].n2) \in Word
      BY <1>t, CountWords DEF TypeOK
    <3> QED BY <1>5, <1>t, <2>2, <3>1, Names DEF FuseCasR1, TypeOK
  <2>3. CASE RetryFuse(t) /\ UNCHANGED parent_or_count
    BY <1>5, <1>r, <1>t, <2>1, <2>3 DEF FuseCasR1, TypeOK
  <2> QED BY <1>5, <2>2, <2>3 DEF FuseCasR1
<1>6. CASE FuseCasR2(t)
  <2>1. fuse[t].ai1 \in Born /\ roots[t].r1 \in Born
    BY <1>6, <1>i DEF FuseCasR2, FuseInv
  <2>2. CASE /\ parent_or_count' = [parent_or_count EXCEPT
                 ![roots[t].r2] = TaggedFromPointer(roots[t].r1)]
             /\ Goto(t, "lf_tail") /\ UNCHANGED <<find, fuse>>
    <3>1. TaggedFromPointer(roots[t].r1) \in Word
      BY <1>t, <2>1, PointerWords
    <3> QED BY <1>6, <1>t, <2>2, <3>1, Names DEF FuseCasR2, TypeOK
  <2>3. CASE /\ fuse' = [fuse EXCEPT ![t] = FuseFrame(@.ai1, @.ai2, @.delta + roots[t].n2)]
             /\ RetryFuse(t) /\ UNCHANGED parent_or_count
    <3>1. fuse' \in [Thread -> [ai1 : Pointer, ai2 : Pointer, delta : Int]]
      BY <1>t, <2>3 DEF TypeOK, FuseFrame
    <3> QED BY <1>6, <1>r, <1>t, <2>1, <2>3, <3>1 DEF FuseCasR2, TypeOK
  <2> QED BY <1>6, <2>2, <2>3 DEF FuseCasR2
<1>7. CASE LinkForwardTail(t)
  <2>1. previous_or_tail[roots[t].r1] \in ListWord
    BY <1>7, <1>i, <1>t DEF LinkForwardTail, FuseInv, Linking, TypeOK
  <2>2. previous_or_tail[roots[t].r1].val \in Pointer
    BY <2>1, ListWords
  <2> QED BY <1>7, <1>t, <2>2, Names DEF LinkForwardTail, TypeOK, LinkFrame
<1>8. CASE LinkForwardNext(t)
  <2>1. next[link[t].tail] \in Pointer
    BY <1>8, <1>i, <1>t DEF LinkForwardNext, FuseInv, Linking, TypeOK
  <2>2. link' \in [Thread -> [tail : Pointer, newtail : Pointer, pot : ListWord]]
    <3>1. CASE link' = [link EXCEPT ![t] = LinkFrame(next[link[t].tail], @.newtail, @.pot)]
      BY <1>t, <2>1, <3>1 DEF TypeOK, LinkFrame
    <3> QED BY <1>8, <1>t, <3>1 DEF LinkForwardNext, TypeOK
  <2>3. pc' \in [Thread -> Labels]
    BY <1>8, <1>t, Names DEF LinkForwardNext, TypeOK
  <2> QED BY <1>8, <1>t, <2>2, <2>3 DEF LinkForwardNext, TypeOK
<1>9. CASE LinkForwardCas(t)
  <2>1. next[link[t].tail] \in Pointer
    BY <1>9, <1>i, <1>t DEF LinkForwardCas, FuseInv, Linking, TypeOK
  <2>2. link' \in [Thread -> [tail : Pointer, newtail : Pointer, pot : ListWord]]
    <3>1. CASE link' = [link EXCEPT ![t] = LinkFrame(next[link[t].tail], @.newtail, @.pot)]
      BY <1>t, <2>1, <3>1 DEF TypeOK, LinkFrame
    <3> QED BY <1>9, <1>t, <3>1 DEF LinkForwardCas, TypeOK
  <2>3. pc' \in [Thread -> Labels] /\ next' \in [Arena -> Pointer]
    <3>1. CASE next' = [next EXCEPT ![link[t].tail] = roots[t].r2] /\ Goto(t, "ut_child")
      BY <1>t, <3>1, Names DEF TypeOK
    <3>2. CASE UNCHANGED next /\ Goto(t, "lf_next")
      BY <1>t, <3>2, Names DEF TypeOK
    <3> QED BY <1>9, <3>1, <3>2 DEF LinkForwardCas
  <2> QED BY <1>9, <1>t, <2>2, <2>3 DEF LinkForwardCas, TypeOK
<1>10. CASE UpdateTailLoadChild(t)
  <2>1. previous_or_tail[roots[t].r2] \in ListWord
    BY <1>10, <1>i, <1>t DEF UpdateTailLoadChild, FuseInv, Linking, TypeOK
  <2>2. previous_or_tail[roots[t].r2].val \in Pointer
    BY <2>1, ListWords
  <2> QED BY <1>10, <1>t, <2>2, Names DEF UpdateTailLoadChild, TypeOK, LinkFrame
<1>11. CASE UpdateTailLoadParent(t)
  <2>1. previous_or_tail[roots[t].r1] \in ListWord
    BY <1>11, <1>i, <1>t DEF UpdateTailLoadParent, FuseInv, Linking, TypeOK
  <2>2. link' \in [Thread -> [tail : Pointer, newtail : Pointer, pot : ListWord]]
    <3>1. CASE link' = [link EXCEPT ![t] =
                 LinkFrame(@.tail, @.newtail, previous_or_tail[roots[t].r1])]
      BY <1>t, <2>1, <3>1 DEF TypeOK, LinkFrame
    <3> QED BY <1>11, <1>t, <3>1 DEF UpdateTailLoadParent, TypeOK
  <2>3. pc' \in [Thread -> Labels]
    BY <1>11, <1>t, Names DEF UpdateTailLoadParent, TypeOK
  <2> QED BY <1>11, <1>t, <2>2, <2>3 DEF UpdateTailLoadParent, TypeOK
<1>12. CASE UpdateTailCas(t)
  <2>1. TaggedFromTail(link[t].newtail) \in ListWord
    BY <1>t, ListWords DEF TypeOK
  <2> QED BY <1>12, <1>t, <2>1, Names DEF UpdateTailCas, TypeOK
<1>13. CASE LinkBackward(t)
  <2>1. TaggedFromPrevious(link[t].tail) \in ListWord
    BY <1>t, ListWords DEF TypeOK
  <2>2. /\ pc' \in [Thread -> Labels]
        /\ call' \in [Thread -> [op : Ops, a : Pointer, b : Pointer, ans : BOOLEAN]]
    BY <1>13, <1>t, EnterFixupType DEF LinkBackward
  <2> QED BY <1>13, <1>t, <2>1, <2>2 DEF LinkBackward, TypeOK
<1>14. CASE FixupLoad(t)
  <2>1. fuse[t].ai1 \in Born /\ roots[t].r1 \in Arena
    BY <1>14, <1>i, <1>t DEF FixupLoad, FuseInv
  <2>2. CASE /\ IsTaggedRefcount(parent_or_count[roots[t].r1])
             /\ roots' = [roots EXCEPT ![t] =
                  RootsFrame(@.r1, parent_or_count[roots[t].r1].val, @.r2, @.n2)]
             /\ Goto(t, "fx_cas") /\ UNCHANGED find
    <3>1. parent_or_count[roots[t].r1].val \in Int
      BY <1>t, <2>1, <2>2, WordCases DEF TypeOK
    <3> QED BY <1>14, <1>t, <2>2, <3>1, Names DEF FixupLoad, TypeOK, RootsFrame
  <2>3. CASE RetryFuse(t) /\ UNCHANGED roots
    BY <1>14, <1>r, <1>t, <2>1, <2>3 DEF FixupLoad, TypeOK
  <2> QED BY <1>14, <2>2, <2>3 DEF FixupLoad
<1>15. CASE FixupCas(t)
  <2>1. fuse[t].ai1 \in Born
    BY <1>15, <1>i DEF FixupCas, FuseInv
  <2>2. CASE /\ parent_or_count' = [parent_or_count EXCEPT
                 ![roots[t].r1] = TaggedFromRefcount(roots[t].n1 - fuse[t].delta)]
             /\ Finish(t, TRUE) /\ UNCHANGED find
    <3>1. TaggedFromRefcount(roots[t].n1 - fuse[t].delta) \in Word
      BY <1>t, CountWords DEF TypeOK
    <3> QED BY <1>15, <1>t, <2>2, <3>1, FinishType DEF FixupCas, TypeOK
  <2>3. CASE RetryFuse(t) /\ UNCHANGED <<parent_or_count, call>>
    BY <1>15, <1>r, <1>t, <2>1, <2>3 DEF FixupCas, TypeOK
  <2> QED BY <1>15, <2>2, <2>3 DEF FixupCas
<1>16. CASE IncRefCas(t)
  <2>1. call[t].a \in Arena
    BY <1>16, <1>i, <1>t DEF IncRefCas, WalkInv
  <2>2. TaggedFromRefcount(walk[t].n + 1) \in Word
    BY <1>t, CountWords DEF TypeOK
  <2>3. parent_or_count' \in [Arena -> Word]
    BY <1>16, <1>t, <2>2 DEF IncRefCas, TypeOK
  <2>r. refs' \in [Arena -> Int]
    <3>1. refs \in [Arena -> Int] /\ refs[call[t].a] \in Int
      BY <1>t, <2>1 DEF TypeOK
    <3> QED BY <1>16, <2>1, <3>1 DEF IncRefCas
  <2>4. /\ pc' \in [Thread -> Labels]
        /\ call' \in [Thread -> [op : Ops, a : Pointer, b : Pointer, ans : BOOLEAN]]
    BY <1>16, <1>t, FinishType DEF IncRefCas
  <2> QED BY <1>16, <1>t, <2>3, <2>r, <2>4 DEF IncRefCas, TypeOK
<1>17. CASE IncRefCasFails(t)
  <2>1. walk[t].ai \in Arena
    BY <1>17, <1>i, <1>t DEF IncRefCasFails, WalkInv, Walking
  <2>2. FindRoot(t, walk[t].ai, "incref")
    BY <1>17 DEF IncRefCasFails
  <2> QED BY <1>17, <1>t, <2>1, <2>2, FindRootType, Names DEF IncRefCasFails, TypeOK
<1>18. CASE SpaceAllocatedBack(t)
  <2>1. walk[t].ai \in Arena /\ call[t].a \in Arena
    BY <1>18, <1>i, <1>t DEF SpaceAllocatedBack, WalkInv, Walking
  <2>2. CASE /\ IsTaggedPrevious(previous_or_tail[walk[t].ai])
             /\ walk' = [walk EXCEPT ![t] = WalkFrame(previous_or_tail[walk[t].ai].val, NULL,
                           @.n + 1, @.seen \cup {previous_or_tail[walk[t].ai].val})]
             /\ UNCHANGED pc
    <3>1. previous_or_tail[walk[t].ai].val \in Arena
      BY <2>1, <2>2 DEF IndInv, ListsAgree
    <3> QED BY <1>18, <1>t, <2>2, <3>1 DEF SpaceAllocatedBack, TypeOK, WalkFrame
  <2>3. CASE /\ walk' = [walk EXCEPT ![t] = WalkFrame(call[t].a, NULL, @.n, @.seen)]
             /\ Goto(t, "sa_forward")
    BY <1>18, <1>t, <2>1, <2>3, Names DEF SpaceAllocatedBack, TypeOK, WalkFrame
  <2> QED BY <1>18, <2>2, <2>3 DEF SpaceAllocatedBack
<1>19. CASE SpaceAllocatedForward(t)
  <2>1. walk[t].ai \in Arena /\ next[walk[t].ai] \in Pointer
    BY <1>19, <1>i, <1>t DEF SpaceAllocatedForward, WalkInv, Walking, TypeOK
  <2>2. walk' \in [Thread -> [ai : Pointer, other : Pointer, n : Int, seen : SUBSET Arena]]
    BY <1>19, <1>t, <2>1 DEF SpaceAllocatedForward, TypeOK, WalkFrame
  <2>3. /\ pc' \in [Thread -> Labels]
        /\ call' \in [Thread -> [op : Ops, a : Pointer, b : Pointer, ans : BOOLEAN]]
    BY <1>19, <1>t, FinishType DEF SpaceAllocatedForward, TypeOK
  <2> QED BY <1>19, <1>t, <2>2, <2>3 DEF SpaceAllocatedForward, TypeOK
<1>d. ASSUME NEW w \in Word, FreeDispatch(t, w)
      PROVE  /\ pc' \in [Thread -> Labels]
             /\ walk' \in [Thread -> [ai : Pointer, other : Pointer, n : Int, seen : SUBSET Arena]]
  <2>1. (IsTaggedPointer(w) => w.val \in Pointer) /\ (IsTaggedRefcount(w) => w.val \in Int)
    BY <1>t, WordCases
  <2>2. CASE IsTaggedPointer(w) /\ walk' = [walk EXCEPT ![t] = WalkFrame(w.val, NULL, 0, {})]
             /\ Goto(t, "free_load")
    BY <1>t, <2>1, <2>2, Names DEF TypeOK, WalkFrame
  <2>3. CASE walk' = [walk EXCEPT ![t] = WalkFrame(@.ai, NULL, 1, {})] /\ Goto(t, "df_next")
    BY <1>t, <2>3, Names DEF TypeOK, WalkFrame
  <2>4. CASE /\ IsTaggedRefcount(w) /\ Goto(t, "free_cas")
             /\ walk' = [walk EXCEPT ![t] = WalkFrame(@.ai, NULL, w.val, {})]
    BY <1>t, <2>1, <2>4, Names DEF TypeOK, WalkFrame
  <2> QED BY <1>d, <2>2, <2>3, <2>4 DEF FreeDispatch
<1>20. CASE FreeLoad(t)
  <2>1. parent_or_count[walk[t].ai] \in Word
    BY <1>20, <1>i, <1>t DEF FreeLoad, WalkInv, Walking, TypeOK
  <2> QED BY <1>20, <1>d, <1>t, <2>1 DEF FreeLoad, TypeOK
<1>21. CASE FreeCas(t)
  <2>1. parent_or_count[walk[t].ai] \in Word
    BY <1>21, <1>i, <1>t DEF FreeCas, WalkInv, Walking, TypeOK
  <2>2. CASE /\ parent_or_count' = [parent_or_count EXCEPT
                 ![walk[t].ai] = TaggedFromRefcount(walk[t].n - 1)]
             /\ Finish(t, TRUE) /\ UNCHANGED walk
    <3>1. TaggedFromRefcount(walk[t].n - 1) \in Word
      BY <1>t, CountWords DEF TypeOK
    <3> QED BY <1>21, <1>t, <2>2, <3>1, FinishType DEF FreeCas, TypeOK
  <2>3. CASE FreeDispatch(t, parent_or_count[walk[t].ai]) /\ UNCHANGED <<parent_or_count, call>>
    BY <1>21, <1>d, <1>t, <2>1, <2>3 DEF FreeCas, TypeOK
  <2> QED BY <1>21, <2>2, <2>3 DEF FreeCas
<1>22. CASE DoFreeNext(t)
  <2>1. next[walk[t].ai] \in Pointer
    BY <1>22, <1>i, <1>t DEF DoFreeNext, WalkInv, Walking, TypeOK
  <2> QED BY <1>22, <1>t, <2>1, Names DEF DoFreeNext, TypeOK, WalkFrame
<1>23. CASE DoFreeBlocks(t)
  <2>1. /\ status' \in [Arena -> {"unborn", "live", "freed"}]
        /\ walk' \in [Thread -> [ai : Pointer, other : Pointer, n : Int, seen : SUBSET Arena]]
    BY <1>23, <1>t DEF DoFreeBlocks, TypeOK, WalkFrame
  <2>2. /\ pc' \in [Thread -> Labels]
        /\ call' \in [Thread -> [op : Ops, a : Pointer, b : Pointer, ans : BOOLEAN]]
    <3>1. CASE Finish(t, TRUE)
      BY <1>t, <3>1, FinishType
    <3>2. CASE Goto(t, "df_next") /\ UNCHANGED call
      BY <1>t, <3>2, Names DEF TypeOK
    <3> QED BY <1>23, <3>1, <3>2 DEF DoFreeBlocks
  <2> QED BY <1>23, <1>t, <2>1, <2>2 DEF DoFreeBlocks, TypeOK
<1>24. CASE Return(t)
  BY <1>24, <1>t, Names, CountWords, ListWords DEF Return, NoCall, NoFind, NoFuse, NoRoots,
     NoLink, NoWalk, Call, FindFrame, FuseFrame, RootsFrame, LinkFrame, WalkFrame, TypeOK
<1>c. ASSUME NEW op \in Ops, StartCall(t, op) PROVE calls' \in [Thread -> Nat]
  BY <1>t, <1>c DEF StartCall, TypeOK
<1>s. ASSUME NEW op \in Ops, NEW a \in Arena, NEW b \in Arena, NEW ans \in BOOLEAN,
             call' = [call EXCEPT ![t] = Call(op, a, b, ans)]
      PROVE  call' \in [Thread -> [op : Ops, a : Pointer, b : Pointer, ans : BOOLEAN]]
  <2>1. Call(op, a, b, ans) \in [op : Ops, a : Pointer, b : Pointer, ans : BOOLEAN]
    BY <1>t DEF Call
  <2> QED BY <1>s, <1>t, <2>1 DEF TypeOK
<1>25. ASSUME NEW a \in Arena, NEW b \in Arena, Fuse(t, a, b) PROVE TypeOK'
  <2>c. calls' \in [Thread -> Nat]
    BY <1>25, <1>c, Names DEF Fuse
  <2>1. CASE /\ Goto(t, "ret") /\ UNCHANGED <<find, fuse>>
             /\ \E ans \in BOOLEAN : call' = [call EXCEPT ![t] = Call("Fuse", a, b, ans)]
    <3>1. call' \in [Thread -> [op : Ops, a : Pointer, b : Pointer, ans : BOOLEAN]]
      BY <2>1, <1>s, Names
    <3> QED BY <1>25, <1>t, <2>c, <2>1, <3>1, Names DEF Fuse, TypeOK
  <2>2. CASE /\ call' = [call EXCEPT ![t] = Call("Fuse", a, b, FALSE)]
             /\ fuse' = [fuse EXCEPT ![t] = FuseFrame(a, b, 0)]
             /\ FindRoot(t, a, "fuse1")
    <3>1. call' \in [Thread -> [op : Ops, a : Pointer, b : Pointer, ans : BOOLEAN]]
      BY <2>2, <1>s, Names
    <3>2. fuse' \in [Thread -> [ai1 : Pointer, ai2 : Pointer, delta : Int]]
      BY <2>2, <1>t DEF TypeOK, FuseFrame
    <3>3. /\ pc' \in [Thread -> Labels]
          /\ find' \in [Thread -> [ai : Pointer, nxt : Pointer, poc : Word, ret : Rets]]
      BY <2>2, <1>t, FindRootType, Names
    <3> QED BY <1>25, <1>t, <2>c, <3>1, <3>2, <3>3 DEF Fuse, TypeOK
  <2> QED BY <1>25, <2>1, <2>2 DEF Fuse
<1>26. ASSUME NEW a \in Arena, NEW b \in Arena, IsFused(t, a, b) PROVE TypeOK'
  <2>c. calls' \in [Thread -> Nat]
    BY <1>26, <1>c, Names DEF IsFused
  <2>1. CASE /\ Goto(t, "ret") /\ UNCHANGED <<find, walk>>
             /\ call' = [call EXCEPT ![t] = Call("IsFused", a, b, TRUE)]
    <3>1. call' \in [Thread -> [op : Ops, a : Pointer, b : Pointer, ans : BOOLEAN]]
      BY <2>1, <1>s, Names
    <3> QED BY <1>26, <1>t, <2>c, <2>1, <3>1, Names DEF IsFused, TypeOK
  <2>2. CASE /\ call' = [call EXCEPT ![t] = Call("IsFused", a, b, FALSE)]
             /\ walk' = [walk EXCEPT ![t] = WalkFrame(b, NULL, 0, {})]
             /\ FindRoot(t, a, "isfused_a")
    <3>1. call' \in [Thread -> [op : Ops, a : Pointer, b : Pointer, ans : BOOLEAN]]
      BY <2>2, <1>s, Names
    <3>2. walk' \in [Thread -> [ai : Pointer, other : Pointer, n : Int, seen : SUBSET Arena]]
      BY <2>2, <1>t DEF TypeOK, WalkFrame
    <3>3. /\ pc' \in [Thread -> Labels]
          /\ find' \in [Thread -> [ai : Pointer, nxt : Pointer, poc : Word, ret : Rets]]
      BY <2>2, <1>t, FindRootType, Names
    <3> QED BY <1>26, <1>t, <2>c, <3>1, <3>2, <3>3 DEF IsFused, TypeOK
  <2> QED BY <1>26, <2>1, <2>2 DEF IsFused
<1>27. ASSUME NEW a \in Arena, Free(t, a) PROVE TypeOK'
  <2>1. /\ calls' \in [Thread -> Nat]
        /\ call' \in [Thread -> [op : Ops, a : Pointer, b : Pointer, ans : BOOLEAN]]
    BY <1>27, <1>c, <1>s, Names DEF Free
  <2>2. walk' \in [Thread -> [ai : Pointer, other : Pointer, n : Int, seen : SUBSET Arena]]
    BY <1>27, <1>t DEF Free, TypeOK, WalkFrame
  <2>3. refs' \in [Arena -> Int] /\ pc' \in [Thread -> Labels]
    BY <1>27, <1>t, Names DEF Free, TypeOK
  <2> QED BY <1>27, <1>t, <2>1, <2>2, <2>3 DEF Free, TypeOK
<1>28. ASSUME NEW a \in Arena, IncRefFor(t, a) PROVE TypeOK'
  <2>1. /\ calls' \in [Thread -> Nat]
        /\ call' \in [Thread -> [op : Ops, a : Pointer, b : Pointer, ans : BOOLEAN]]
    BY <1>28, <1>c, <1>s, Names DEF IncRefFor
  <2>2. /\ pc' \in [Thread -> Labels]
        /\ find' \in [Thread -> [ai : Pointer, nxt : Pointer, poc : Word, ret : Rets]]
    BY <1>28, <1>t, FindRootType, Names DEF IncRefFor, TypeOK
  <2> QED BY <1>28, <1>t, <2>1, <2>2 DEF IncRefFor, TypeOK
<1>29. ASSUME NEW a \in Arena, DebugRefCount(t, a) PROVE TypeOK'
  <2>1. /\ calls' \in [Thread -> Nat]
        /\ call' \in [Thread -> [op : Ops, a : Pointer, b : Pointer, ans : BOOLEAN]]
    BY <1>29, <1>c, <1>s, Names DEF DebugRefCount
  <2>2. /\ pc' \in [Thread -> Labels]
        /\ find' \in [Thread -> [ai : Pointer, nxt : Pointer, poc : Word, ret : Rets]]
    BY <1>29, <1>t, FindRootType, Names DEF DebugRefCount
  <2> QED BY <1>29, <1>t, <2>1, <2>2 DEF DebugRefCount, TypeOK
<1>30. ASSUME NEW a \in Arena, SpaceAllocated(t, a) PROVE TypeOK'
  <2>1. /\ calls' \in [Thread -> Nat]
        /\ call' \in [Thread -> [op : Ops, a : Pointer, b : Pointer, ans : BOOLEAN]]
    BY <1>30, <1>c, <1>s, Names DEF SpaceAllocated
  <2>2. walk' \in [Thread -> [ai : Pointer, other : Pointer, n : Int, seen : SUBSET Arena]]
    BY <1>30, <1>t DEF SpaceAllocated, TypeOK, WalkFrame
  <2> QED BY <1>30, <1>t, <2>1, <2>2, Names DEF SpaceAllocated, TypeOK
<1> QED
  BY <1>1, <1>2, <1>3, <1>4, <1>5, <1>6, <1>7, <1>8, <1>9, <1>10, <1>11, <1>12, <1>13,
     <1>14, <1>15, <1>16, <1>17, <1>18, <1>19, <1>20, <1>21, <1>22, <1>23, <1>24, <1>25,
     <1>26, <1>27, <1>28, <1>29, <1>30 DEF Caller, Step

(* So does the creation of an arena.                                       *)
LEMMA CreateType ==
  ASSUME TypeOK, NEW a \in Arena, NEW has_initial \in BOOLEAN, Arena_Init(a, has_initial)
  PROVE  TypeOK'
<1>1. TaggedFromRefcount(1) \in Word /\ TaggedFromTail(a) \in ListWord /\ NULL \in Pointer
  BY CountWords, ListWords, Pointers
<1>2. /\ parent_or_count' \in [Arena -> Word]
      /\ previous_or_tail' \in [Arena -> ListWord]
      /\ next' \in [Arena -> Pointer]
  BY <1>1 DEF Arena_Init, TypeOK
<1>3. status' \in [Arena -> {"unborn", "live", "freed"}] /\ refs' \in [Arena -> Int]
  BY DEF Arena_Init, TypeOK
<1>4. initial_block' \in [Arena -> BOOLEAN]
  BY DEF Arena_Init, TypeOK
<1>5. UNCHANGED <<pc, call, find, fusing, walk, calls>>
  BY DEF Arena_Init
<1> QED BY <1>2, <1>3, <1>4, <1>5 DEF fusing, TypeOK

-----------------------------------------------------------------------------
(* What a step does to the shared structures.                              *)

SharedInv == ParentBelow /\ ListsAgree /\ MemoryInv

\* Nothing is undone: arenas stay born, children stay children, links stay.
Monotone ==
  /\ Born \subseteq Born'
  /\ \A a \in Arena : IsTaggedPointer(parent_or_count[a]) => IsTaggedPointer(parent_or_count'[a])
  /\ \A a \in Arena : next[a] # NULL => next'[a] = next[a]
  /\ \A a \in Arena : IsTaggedPrevious(previous_or_tail[a]) =>
                        previous_or_tail'[a] = previous_or_tail[a]

\* A step does not disturb the child that thread u is linking.
Undisturbed(u) ==
  pc[u] \in Linking =>
    /\ IsTaggedTail(previous_or_tail'[roots[u].r2])
    /\ pc[u] \notin Linked => \A a \in Arena : next'[a] # roots[u].r2

(* A step that leaves the words alone.                                     *)
LEMMA WordsUnchanged ==
  ASSUME IndInv, UNCHANGED <<parent_or_count, next, previous_or_tail>>, Born' = Born
  PROVE  SharedInv' /\ Monotone /\ \A u \in Thread : Undisturbed(u)
<1>1. SharedInv /\ \A u \in Thread : FuseInv(u)
  BY DEF IndInv, SharedInv
<1>2. SharedInv'
  BY <1>1 DEF SharedInv, ParentBelow, ListsAgree, MemoryInv
<1>3. Monotone
  BY DEF Monotone
<1>4. \A u \in Thread : Undisturbed(u)
  BY <1>1 DEF Undisturbed, FuseInv
<1> QED BY <1>2, <1>3, <1>4

(* A step that replaces the count of a root by another count.              *)
LEMMA CountReplaced ==
  ASSUME IndInv, NEW x \in Arena, NEW m \in Int, IsTaggedRefcount(parent_or_count[x]),
         parent_or_count' = [parent_or_count EXCEPT ![x] = TaggedFromRefcount(m)],
         UNCHANGED <<next, previous_or_tail>>, Born' = Born
  PROVE  SharedInv' /\ Monotone /\ \A u \in Thread : Undisturbed(u)
<1>1. SharedInv /\ \A u \in Thread : FuseInv(u)
  BY DEF IndInv, SharedInv
<1>2. /\ \A a \in Arena : a # x => parent_or_count'[a] = parent_or_count[a]
      /\ IsTaggedRefcount(parent_or_count'[x]) /\ ~IsTaggedPointer(parent_or_count'[x])
      /\ ~IsTaggedPointer(parent_or_count[x])
  BY DEF IndInv, TypeOK, TaggedFromRefcount, IsTaggedRefcount, IsTaggedPointer
<1>3. SharedInv'
  BY <1>1, <1>2 DEF SharedInv, ParentBelow, ListsAgree, MemoryInv
<1>4. Monotone
  BY <1>2 DEF Monotone
<1>5. \A u \in Thread : Undisturbed(u)
  BY <1>1 DEF Undisturbed, FuseInv
<1> QED BY <1>3, <1>4, <1>5

(* A step that gives x a parent below it.                                  *)
LEMMA ParentReplaced ==
  ASSUME IndInv, NEW x \in Born, NEW w, IsTaggedPointer(w), w.val \in Born, w.val < x,
         parent_or_count' = [parent_or_count EXCEPT ![x] = w],
         UNCHANGED <<next, previous_or_tail>>, Born' = Born
  PROVE  SharedInv' /\ Monotone /\ \A u \in Thread : Undisturbed(u)
<1>1. SharedInv /\ \A u \in Thread : FuseInv(u)
  BY DEF IndInv, SharedInv
<1>2. /\ x \in Arena
      /\ \A a \in Arena : a # x => parent_or_count'[a] = parent_or_count[a]
      /\ parent_or_count'[x] = w /\ ~IsTaggedRefcount(parent_or_count'[x])
  BY Pointers DEF IndInv, TypeOK, IsTaggedRefcount, IsTaggedPointer
<1>3. SharedInv'
  BY <1>1, <1>2 DEF SharedInv, ParentBelow, ListsAgree, MemoryInv
<1>4. Monotone
  BY <1>2 DEF Monotone
<1>5. \A u \in Thread : Undisturbed(u)
  BY <1>1 DEF Undisturbed, FuseInv
<1> QED BY <1>3, <1>4, <1>5

(* Every step of a thread keeps the shared structures, undoes nothing and  *)
(* disturbs no other thread.                                               *)
LEMMA StepShared ==
  ASSUME IndInv, NEW t \in Thread, Caller(t) \/ Step(t)
  PROVE  SharedInv' /\ Monotone /\ \A u \in Thread \ {t} : Undisturbed(u)
<1>t. TypeOK /\ NULL \in Pointer /\ Arena \subseteq Pointer /\ Born \subseteq Arena
  BY Pointers DEF IndInv
<1>i. FindInv(t) /\ FuseInv(t) /\ WalkInv(t) /\ LinkExclusive
  BY DEF IndInv
<1>s. SharedInv /\ \A u \in Thread : FuseInv(u)
  BY DEF IndInv, SharedInv
<1>m. ASSUME UNCHANGED memory
      PROVE  SharedInv' /\ Monotone /\ \A u \in Thread \ {t} : Undisturbed(u)
  BY <1>m, WordsUnchanged DEF memory, Born
<1>b. UNCHANGED status => Born' = Born
  BY DEF Born
<1>1. CASE FindRootSplit(t)
  <2>1. /\ find[t].ai \in Born /\ IsTaggedPointer(find[t].poc)
        /\ find[t].poc.val \in Born /\ find[t].nxt \in Born
        /\ find[t].poc.val < find[t].nxt /\ find[t].nxt < find[t].ai
    BY <1>1, <1>i DEF FindRootSplit, FindInv, Finding
  <2>n. find[t].poc.val \in Int /\ find[t].nxt \in Int /\ find[t].ai \in Int
    BY <2>1, ArenasAreNumbers
  <2>2. find[t].poc.val < find[t].ai
    BY <2>1, <2>n
  <2> QED BY <1>1, <1>b, <2>1, <2>2, ParentReplaced DEF FindRootSplit
<1>2. CASE FuseCasR1(t)
  <2>1. roots[t].r1 \in Arena /\ roots[t].n1 + roots[t].n2 \in Int
    BY <1>2, <1>i, <1>t DEF FuseCasR1, FuseInv, TypeOK
  <2>2. CASE /\ parent_or_count[roots[t].r1] = TaggedFromRefcount(roots[t].n1)
             /\ parent_or_count' = [parent_or_count EXCEPT
                  ![roots[t].r1] = TaggedFromRefcount(roots[t].n1 + roots[t].n2)]
    <3>1. IsTaggedRefcount(parent_or_count[roots[t].r1])
      BY <2>2 DEF IsTaggedRefcount, TaggedFromRefcount
    <3> QED BY <1>2, <1>b, <2>1, <2>2, <3>1, CountReplaced DEF FuseCasR1
  <2>3. CASE UNCHANGED parent_or_count
    BY <1>2, <1>b, <2>3, WordsUnchanged DEF FuseCasR1
  <2> QED BY <1>2, <2>2, <2>3 DEF FuseCasR1
<1>3. CASE FuseCasR2(t)
  <2>1. roots[t].r1 \in Born /\ roots[t].r2 \in Born /\ roots[t].r1 < roots[t].r2
    BY <1>3, <1>i DEF FuseCasR2, FuseInv
  <2>2. CASE parent_or_count' = [parent_or_count EXCEPT
                                   ![roots[t].r2] = TaggedFromPointer(roots[t].r1)]
    <3>1. IsTaggedPointer(TaggedFromPointer(roots[t].r1)) /\ TaggedFromPointer(roots[t].r1).val = roots[t].r1
      BY DEF IsTaggedPointer, TaggedFromPointer
    <3> QED BY <1>3, <1>b, <2>1, <2>2, <3>1, ParentReplaced DEF FuseCasR2
  <2>3. CASE UNCHANGED parent_or_count
    BY <1>3, <1>b, <2>3, WordsUnchanged DEF FuseCasR2
  <2> QED BY <1>3, <2>2, <2>3 DEF FuseCasR2
<1>4. CASE LinkForwardCas(t)
  <2>d DEFINE tail == link[t].tail
             child == roots[t].r2
  <2>1. /\ tail \in Born /\ child \in Born /\ tail \in Arena /\ child \in Arena
        /\ IsTaggedPointer(parent_or_count[child])
        /\ pc[t] \in Linking /\ \A a \in Arena : next[a] # child
    BY <1>4, <1>i, <1>t DEF LinkForwardCas, FuseInv, Linking, Linked
  <2>2. CASE next[tail] = NULL /\ next' = [next EXCEPT ![tail] = child]
    <3>1. /\ next'[tail] = child
          /\ \A a \in Arena : a # tail => next'[a] = next[a]
          /\ Born' = Born /\ UNCHANGED <<parent_or_count, previous_or_tail>>
          /\ child # NULL
      BY <1>4, <1>b, <1>t, <2>1, <2>2, NullIsNoArena DEF LinkForwardCas, TypeOK
    <3>2. ParentBelow' /\ MemoryInv'
      BY <1>s, <2>1, <2>2, <3>1 DEF SharedInv, ParentBelow, MemoryInv
    <3>3. ListsAgree'
      BY <1>s, <2>1, <2>2, <3>1, NullIsNoArena DEF SharedInv, ListsAgree
    <3>4. Monotone
      BY <2>2, <3>1 DEF Monotone
    <3>5. ASSUME NEW u \in Thread \ {t} PROVE Undisturbed(u)
      <4>1. pc[u] \in Linking => roots[u].r2 # child
        BY <1>i, <2>1 DEF LinkExclusive
      <4>2. FuseInv(u)
        BY <1>s
      <4> QED BY <4>1, <4>2, <3>1, <2>1 DEF Undisturbed, FuseInv
    <3> QED BY <3>2, <3>3, <3>4, <3>5 DEF SharedInv
  <2>3. CASE UNCHANGED next
    BY <1>4, <1>b, <2>3, WordsUnchanged DEF LinkForwardCas
  <2> QED BY <1>4, <2>2, <2>3 DEF LinkForwardCas
<1>5. CASE UpdateTailCas(t)
  <2>d DEFINE parent == roots[t].r1
             w == TaggedFromTail(link[t].newtail)
  <2>1. /\ parent \in Arena /\ link[t].newtail \in Born /\ IsTaggedTail(link[t].pot)
        /\ IsTaggedTail(w) /\ ~IsTaggedPrevious(w) /\ w.val = link[t].newtail
    BY <1>5, <1>i, <1>t DEF UpdateTailCas, FuseInv, Linking, IsTaggedTail, IsTaggedPrevious,
       TaggedFromTail
  <2>2. CASE /\ previous_or_tail[parent] = link[t].pot
             /\ previous_or_tail' = [previous_or_tail EXCEPT ![parent] = w]
    <3>1. /\ previous_or_tail'[parent] = w
          /\ \A a \in Arena : a # parent => previous_or_tail'[a] = previous_or_tail[a]
          /\ Born' = Born /\ UNCHANGED <<parent_or_count, next>>
          /\ ~IsTaggedPrevious(previous_or_tail[parent])
      BY <1>5, <1>b, <1>t, <2>1, <2>2 DEF UpdateTailCas, TypeOK, IsTaggedTail, IsTaggedPrevious
    <3>2. SharedInv'
      BY <1>s, <2>1, <3>1 DEF SharedInv, ParentBelow, ListsAgree, MemoryInv
    <3>3. Monotone
      BY <3>1 DEF Monotone
    <3>4. ASSUME NEW u \in Thread PROVE Undisturbed(u)
      <4>1. FuseInv(u) /\ (pc[u] \in Linking => roots[u].r2 \in Arena)
        BY <1>s, <1>t DEF FuseInv
      <4> QED BY <4>1, <3>1, <2>1 DEF Undisturbed, FuseInv
    <3> QED BY <3>2, <3>3, <3>4
  <2>3. CASE UNCHANGED previous_or_tail
    BY <1>5, <1>b, <2>3, WordsUnchanged DEF UpdateTailCas
  <2> QED BY <1>5, <2>2, <2>3 DEF UpdateTailCas
<1>6. CASE LinkBackward(t)
  <2>d DEFINE child == roots[t].r2
             w == TaggedFromPrevious(link[t].tail)
  <2>1. /\ pc[t] \in Linked /\ pc[t] \in Linking
        /\ child \in Arena /\ link[t].tail \in Born
        /\ IsTaggedTail(previous_or_tail[child]) /\ IsTaggedPointer(parent_or_count[child])
        /\ next[link[t].tail] = child
    BY <1>6, <1>i, <1>t DEF LinkBackward, FuseInv, LinkExclusive, Linking, Linked
  <2>2. IsTaggedPrevious(w) /\ ~IsTaggedTail(w) /\ w.val = link[t].tail
        /\ ~IsTaggedPrevious(previous_or_tail[child]) /\ ~IsTaggedRefcount(parent_or_count[child])
    BY <2>1 DEF IsTaggedTail, IsTaggedPrevious, TaggedFromPrevious, IsTaggedPointer, IsTaggedRefcount
  <2>3. /\ previous_or_tail'[child] = w
        /\ \A a \in Arena : a # child => previous_or_tail'[a] = previous_or_tail[a]
        /\ Born' = Born /\ UNCHANGED <<parent_or_count, next>>
    BY <1>6, <1>b, <1>t, <2>1 DEF LinkBackward, TypeOK
  <2>4. ParentBelow' /\ MemoryInv'
    BY <1>s, <2>1, <2>2, <2>3 DEF SharedInv, ParentBelow, MemoryInv
  <2>5. ListsAgree'
    BY <1>s, <1>t, <2>1, <2>2, <2>3 DEF SharedInv, ListsAgree
  <2>6. Monotone
    BY <2>2, <2>3 DEF Monotone
  <2>7. ASSUME NEW u \in Thread \ {t} PROVE Undisturbed(u)
    <3>1. pc[u] \in Linking => roots[u].r2 # child
      BY <1>i, <2>1 DEF LinkExclusive
    <3>2. FuseInv(u) /\ (pc[u] \in Linking => roots[u].r2 \in Arena)
      BY <1>s, <1>t DEF FuseInv
    <3> QED BY <3>1, <3>2, <2>3 DEF Undisturbed, FuseInv
  <2> QED BY <2>4, <2>5, <2>6, <2>7 DEF SharedInv
<1>7. CASE FixupCas(t)
  <2>1. roots[t].r1 \in Arena /\ roots[t].n1 - fuse[t].delta \in Int
    BY <1>7, <1>i, <1>t DEF FixupCas, FuseInv, TypeOK
  <2>2. CASE /\ parent_or_count[roots[t].r1] = TaggedFromRefcount(roots[t].n1)
             /\ parent_or_count' = [parent_or_count EXCEPT
                  ![roots[t].r1] = TaggedFromRefcount(roots[t].n1 - fuse[t].delta)]
    <3>1. IsTaggedRefcount(parent_or_count[roots[t].r1])
      BY <2>2 DEF IsTaggedRefcount, TaggedFromRefcount
    <3> QED BY <1>7, <1>b, <2>1, <2>2, <3>1, CountReplaced DEF FixupCas
  <2>3. CASE UNCHANGED parent_or_count
    BY <1>7, <1>b, <2>3, WordsUnchanged DEF FixupCas
  <2> QED BY <1>7, <2>2, <2>3 DEF FixupCas
<1>8. CASE IncRefCas(t)
  <2>1. walk[t].ai \in Arena /\ walk[t].n + 1 \in Int
    BY <1>8, <1>i, <1>t DEF IncRefCas, WalkInv, Walking, TypeOK
  <2>2. IsTaggedRefcount(parent_or_count[walk[t].ai])
    BY <1>8 DEF IncRefCas, IsTaggedRefcount, TaggedFromRefcount
  <2> QED BY <1>8, <1>b, <2>1, <2>2, CountReplaced DEF IncRefCas
<1>9. CASE FreeCas(t)
  <2>1. walk[t].ai \in Arena /\ walk[t].n - 1 \in Int
    BY <1>9, <1>i, <1>t DEF FreeCas, WalkInv, Walking, TypeOK
  <2>2. CASE /\ parent_or_count[walk[t].ai] = TaggedFromRefcount(walk[t].n)
             /\ parent_or_count' = [parent_or_count EXCEPT
                  ![walk[t].ai] = TaggedFromRefcount(walk[t].n - 1)]
    <3>1. IsTaggedRefcount(parent_or_count[walk[t].ai])
      BY <2>2 DEF IsTaggedRefcount, TaggedFromRefcount
    <3> QED BY <1>9, <1>b, <2>1, <2>2, <3>1, CountReplaced DEF FreeCas
  <2>3. CASE UNCHANGED parent_or_count
    BY <1>9, <1>b, <2>3, WordsUnchanged DEF FreeCas
  <2> QED BY <1>9, <2>2, <2>3 DEF FreeCas
<1>10. CASE DoFreeBlocks(t)
  <2>1. walk[t].ai \in Born
    BY <1>10, <1>i DEF DoFreeBlocks, WalkInv, Walking
  <2>2. Born' = Born
    BY <1>10, <1>t, <2>1 DEF DoFreeBlocks, Born, TypeOK
  <2> QED BY <1>10, <2>2, WordsUnchanged DEF DoFreeBlocks
<1>11. CASE UNCHANGED memory
  BY <1>11, <1>m
<1>12. Caller(t) => UNCHANGED memory
  BY DEF Caller, Fuse, IsFused, Free, IncRefFor, DebugRefCount, SpaceAllocated
<1>13. Step(t) => \/ UNCHANGED memory
                  \/ FindRootSplit(t) \/ FuseCasR1(t) \/ FuseCasR2(t) \/ LinkForwardCas(t)
                  \/ UpdateTailCas(t) \/ LinkBackward(t) \/ FixupCas(t) \/ IncRefCas(t)
                  \/ FreeCas(t) \/ DoFreeBlocks(t)
  BY DEF Step, FindRootLoad, FindRootReload, FindRootNext, LinkForwardTail, LinkForwardNext,
     UpdateTailLoadChild, UpdateTailLoadParent, FixupLoad, IncRefCasFails, SpaceAllocatedBack,
     SpaceAllocatedForward, FreeLoad, DoFreeNext, Return
<1> QED BY <1>1, <1>2, <1>3, <1>4, <1>5, <1>6, <1>7, <1>8, <1>9, <1>10, <1>11, <1>12, <1>13

-----------------------------------------------------------------------------
(* What a step does to the frames of the threads.                          *)

\* A step of t leaves the frames of the other threads alone.
OthersKeep(t) ==
  \A u \in Thread \ {t} :
    /\ pc'[u] = pc[u] /\ call'[u] = call[u] /\ find'[u] = find[u]
    /\ fuse'[u] = fuse[u] /\ roots'[u] = roots[u] /\ link'[u] = link[u] /\ walk'[u] = walk[u]

(* FindRoot's return touches the caller's frames only.                     *)
LEMMA ResumeKeeps ==
  ASSUME TypeOK, NEW t \in Thread, NEW root, NEW n, Resume(t, root, n)
  PROVE  OthersKeep(t)
<1> USE DEF OthersKeep, TypeOK, Goto, fusing, FindRoot, Finish, EnterFixup
<1>1. CASE AfterFuse1(t, root, n)
  BY <1>1 DEF AfterFuse1
<1>2. CASE AfterFuse2(t, root, n)
  BY <1>2 DEF AfterFuse2
<1>3. CASE AfterIncRef(t, root, n)
  BY <1>3 DEF AfterIncRef
<1>4. CASE AfterDebugRefCount(t, root, n)
  BY <1>4 DEF AfterDebugRefCount
<1>5. CASE AfterIsFusedA(t, root, n)
  BY <1>5 DEF AfterIsFusedA
<1>6. CASE AfterIsFusedB(t, root, n)
  BY <1>6 DEF AfterIsFusedB
<1>7. CASE AfterIsFusedAgain(t, root, n)
  BY <1>7 DEF AfterIsFusedAgain
<1> QED BY <1>1, <1>2, <1>3, <1>4, <1>5, <1>6, <1>7 DEF Resume

(* So does every step of a thread.                                         *)
LEMMA StepKeeps ==
  ASSUME TypeOK, NEW t \in Thread, Caller(t) \/ Step(t)
  PROVE  OthersKeep(t)
<1> USE DEF OthersKeep, TypeOK, Goto, fusing, FindRoot, RetryFuse, Finish, EnterFixup, FreeDispatch
<1>1. CASE FindRootLoad(t)
  BY <1>1, ResumeKeeps DEF FindRootLoad
<1>2. CASE FindRootNext(t)
  BY <1>2, ResumeKeeps DEF FindRootNext
<1>3. CASE FindRootReload(t)
  BY <1>3 DEF FindRootReload
<1>4. CASE FindRootSplit(t)
  BY <1>4 DEF FindRootSplit
<1>5. CASE FuseCasR1(t)
  BY <1>5 DEF FuseCasR1
<1>6. CASE FuseCasR2(t)
  BY <1>6 DEF FuseCasR2
<1>7. CASE LinkForwardTail(t)
  BY <1>7 DEF LinkForwardTail
<1>8. CASE LinkForwardNext(t)
  BY <1>8 DEF LinkForwardNext
<1>9. CASE LinkForwardCas(t)
  BY <1>9 DEF LinkForwardCas
<1>10. CASE UpdateTailLoadChild(t)
  BY <1>10 DEF UpdateTailLoadChild
<1>11. CASE UpdateTailLoadParent(t)
  BY <1>11 DEF UpdateTailLoadParent
<1>12. CASE UpdateTailCas(t)
  BY <1>12 DEF UpdateTailCas
<1>13. CASE LinkBackward(t)
  BY <1>13 DEF LinkBackward
<1>14. CASE FixupLoad(t)
  BY <1>14 DEF FixupLoad
<1>15. CASE FixupCas(t)
  BY <1>15 DEF FixupCas
<1>16. CASE IncRefCas(t)
  BY <1>16 DEF IncRefCas
<1>17. CASE IncRefCasFails(t)
  BY <1>17 DEF IncRefCasFails
<1>18. CASE SpaceAllocatedBack(t)
  BY <1>18 DEF SpaceAllocatedBack
<1>19. CASE SpaceAllocatedForward(t)
  BY <1>19 DEF SpaceAllocatedForward
<1>20. CASE FreeLoad(t)
  BY <1>20 DEF FreeLoad
<1>21. CASE FreeCas(t)
  BY <1>21 DEF FreeCas
<1>22. CASE DoFreeNext(t)
  BY <1>22 DEF DoFreeNext
<1>23. CASE DoFreeBlocks(t)
  BY <1>23 DEF DoFreeBlocks
<1>24. CASE Return(t)
  BY <1>24 DEF Return
<1>25. CASE Caller(t)
  <2>1. ASSUME NEW a \in Arena, NEW b \in Arena, Fuse(t, a, b) PROVE OthersKeep(t)
    BY <2>1 DEF Fuse, StartCall
  <2>2. ASSUME NEW a \in Arena, NEW b \in Arena, IsFused(t, a, b) PROVE OthersKeep(t)
    BY <2>2 DEF IsFused, StartCall
  <2>3. ASSUME NEW a \in Arena, Free(t, a) PROVE OthersKeep(t)
    BY <2>3 DEF Free, StartCall
  <2>4. ASSUME NEW a \in Arena, IncRefFor(t, a) PROVE OthersKeep(t)
    BY <2>4 DEF IncRefFor, StartCall
  <2>5. ASSUME NEW a \in Arena, DebugRefCount(t, a) PROVE OthersKeep(t)
    BY <2>5 DEF DebugRefCount, StartCall
  <2>6. ASSUME NEW a \in Arena, SpaceAllocated(t, a) PROVE OthersKeep(t)
    BY <2>6 DEF SpaceAllocated, StartCall
  <2> QED BY <1>25, <2>1, <2>2, <2>3, <2>4, <2>5, <2>6 DEF Caller
<1> QED
  BY <1>1, <1>2, <1>3, <1>4, <1>5, <1>6, <1>7, <1>8, <1>9, <1>10, <1>11, <1>12, <1>13,
     <1>14, <1>15, <1>16, <1>17, <1>18, <1>19, <1>20, <1>21, <1>22, <1>23, <1>24, <1>25
     DEF Step

(* Threads that do not move keep their frame invariants.                   *)
LEMMA OthersInv ==
  ASSUME IndInv, NEW t \in Thread, OthersKeep(t), Monotone,
         \A u \in Thread \ {t} : Undisturbed(u), NEW u \in Thread \ {t}
  PROVE  FindInv(u)' /\ FuseInv(u)' /\ WalkInv(u)'
<1>1. FindInv(u) /\ FuseInv(u) /\ WalkInv(u) /\ Born \subseteq Arena
  BY Pointers DEF IndInv
<1>2. FindInv(u)'
  BY <1>1 DEF FindInv, OthersKeep, Monotone, Finding
<1>3. FuseInv(u)'
  <2>1. pc'[u] = pc[u] /\ fuse'[u] = fuse[u] /\ roots'[u] = roots[u] /\ link'[u] = link[u]
    BY DEF OthersKeep
  <2>2. pc[u] \in Linking => /\ roots[u].r2 \in Arena
                             /\ IsTaggedPointer(parent_or_count'[roots[u].r2])
                             /\ IsTaggedTail(previous_or_tail'[roots[u].r2])
                             /\ pc[u] \notin Linked => \A a \in Arena : next'[a] # roots[u].r2
    BY <1>1 DEF FuseInv, Monotone, Undisturbed
  <2>3. Born \subseteq Born'
    BY DEF Monotone
  <2> QED BY <1>1, <2>1, <2>2, <2>3 DEF FuseInv
<1>4. WalkInv(u)'
  BY <1>1 DEF WalkInv, OthersKeep, Monotone
<1> QED BY <1>2, <1>3, <1>4

ThreadInv(t) == FindInv(t) /\ FuseInv(t) /\ WalkInv(t)

(* A thread that is outside the API, or about to leave it, owes nothing.   *)
LEMMA OutsideInv ==
  ASSUME NEW t \in Thread, pc'[t] \in {"idle", "ret"}
  PROVE  ThreadInv(t)'
  BY DEF ThreadInv, FindInv, FuseInv, WalkInv, Finding, Linking, Linked, Walking

(* A thread that enters FindRoot owes the arenas it will resume with.      *)
LEMMA EnterFindInv ==
  ASSUME TypeOK, NEW t \in Thread, NEW a \in Born', NEW ret, FindRoot(t, a, ret),
         ret = "incref" => call'[t].a \in Born',
         ret \in {"fuse1", "fuse2"} => fuse'[t].ai1 \in Born' /\ fuse'[t].ai2 \in Born',
         ret = "fuse2" => roots'[t].r1 \in Born',
         ret \in {"isfused_a", "isfused_b", "isfused_again"} => walk'[t].ai \in Born',
         ret \in {"isfused_b", "isfused_again"} => walk'[t].other \in Born'
  PROVE  ThreadInv(t)'
<1>1. pc'[t] = "fr_load" /\ find'[t].ai = a /\ find'[t].ret = ret
  BY DEF TypeOK, FindRoot, Goto, FindFrame
<1>2. FindInv(t)'
  BY <1>1 DEF FindInv
<1>3. FuseInv(t)' /\ WalkInv(t)'
  BY <1>1 DEF FuseInv, WalkInv, Linking, Linked, Walking
<1> QED BY <1>2, <1>3 DEF ThreadInv

(* A thread at one of the labels of Fuse owes what FuseInv says.           *)
LEMMA AtFuseInv ==
  ASSUME NEW t \in Thread, pc'[t] \in {"cas_r1", "cas_r2", "fx_load", "fx_cas"} \cup Linking,
         FuseInv(t)'
  PROVE  ThreadInv(t)'
  BY DEF ThreadInv, FindInv, WalkInv, Finding, Linking, Walking

(* A thread at one of the labels of the walks owes what WalkInv says.      *)
LEMMA AtWalkInv ==
  ASSUME NEW t \in Thread, pc'[t] \in Walking, WalkInv(t)'
  PROVE  ThreadInv(t)'
  BY DEF ThreadInv, FindInv, FuseInv, Finding, Linking, Linked, Walking

(* The end of a Fuse, or the start of FixupRefs.                           *)
LEMMA EnterFixupInv ==
  ASSUME TypeOK, NEW t \in Thread, EnterFixup(t),
         fuse'[t].ai1 \in Born', fuse'[t].ai2 \in Born', roots'[t].r1 \in Born'
  PROVE  ThreadInv(t)'
<1>1. CASE Finish(t, TRUE)
  BY <1>1, OutsideInv DEF TypeOK, Finish, Goto
<1>2. CASE Goto(t, "fx_load")
  <2>1. pc'[t] = "fx_load"
    BY <1>2 DEF Goto, TypeOK
  <2>2. FuseInv(t)'
    BY <2>1 DEF FuseInv, Linking, Linked
  <2> QED BY <2>1, <2>2, AtFuseInv
<1> QED BY <1>1, <1>2 DEF EnterFixup

(* FindRoot's return leaves the thread where its caller resumes.           *)
LEMMA ResumeInv ==
  ASSUME IndInv, NEW t \in Thread, pc[t] \in Finding, NEW root \in Born, NEW n \in Int,
         Resume(t, root, n), Born' = Born
  PROVE  ThreadInv(t)'
<1>t. TypeOK /\ FindInv(t)
  BY DEF IndInv
<1> USE DEF Goto
<1>1. CASE AfterFuse1(t, root, n)
  <2>1. fuse[t].ai1 \in Born /\ fuse[t].ai2 \in Born
    BY <1>1, <1>t DEF AfterFuse1, FindInv
  <2>2. /\ FindRoot(t, fuse[t].ai2, "fuse2")
        /\ fuse'[t] = fuse[t] /\ roots'[t].r1 = root
    BY <1>1, <1>t DEF AfterFuse1, TypeOK, RootsFrame
  <2> QED BY <1>t, <2>1, <2>2, EnterFindInv
<1>2. CASE AfterFuse2(t, root, n)
  <2>1. fuse[t].ai1 \in Born /\ fuse[t].ai2 \in Born /\ roots[t].r1 \in Born
    BY <1>2, <1>t DEF AfterFuse2, FindInv
  <2>2. CASE EnterFixup(t) /\ UNCHANGED <<fuse, roots>>
    BY <1>t, <2>1, <2>2, EnterFixupInv
  <2>3. CASE /\ roots[t].r1 # root
             /\ fuse' = [fuse EXCEPT ![t] = FuseFrame(roots[t].r1, root, @.delta)]
             /\ roots' = [roots EXCEPT ![t] = IF roots[t].r1 > root
                             THEN RootsFrame(root, n, roots[t].r1, roots[t].n1)
                             ELSE RootsFrame(roots[t].r1, roots[t].n1, root, n)]
             /\ Goto(t, "cas_r1")
    <3>1. pc'[t] = "cas_r1" /\ fuse'[t].ai1 = roots[t].r1 /\ fuse'[t].ai2 = root
      BY <1>t, <2>3 DEF TypeOK, FuseFrame
    <3>2. roots[t].r1 \in Int /\ root \in Int
      BY <2>1, ArenasAreNumbers
    <3>3. /\ roots'[t].r1 \in Born /\ roots'[t].r2 \in Born
          /\ roots'[t].r1 < roots'[t].r2
      <4>1. CASE roots[t].r1 > root
        <5>1. roots'[t] = RootsFrame(root, n, roots[t].r1, roots[t].n1)
          BY <1>t, <2>3, <4>1 DEF TypeOK
        <5> QED BY <2>1, <3>2, <4>1, <5>1 DEF RootsFrame
      <4>2. CASE ~(roots[t].r1 > root)
        <5>1. roots'[t] = RootsFrame(roots[t].r1, roots[t].n1, root, n)
          BY <1>t, <2>3, <4>2 DEF TypeOK
        <5> QED BY <2>1, <2>3, <3>2, <4>2, <5>1 DEF RootsFrame
      <4> QED BY <4>1, <4>2
    <3>4. FuseInv(t)'
      BY <2>1, <3>1, <3>3 DEF FuseInv, Linking, Linked
    <3> QED BY <3>1, <3>4, AtFuseInv
  <2> QED BY <1>2, <2>2, <2>3 DEF AfterFuse2, LowerFirst
<1>3. CASE AfterIncRef(t, root, n)
  <2>1. pc'[t] = "inc_cas" /\ walk'[t].ai = root /\ call'[t] = call[t] /\ call[t].a \in Born
    BY <1>3, <1>t DEF AfterIncRef, FindInv, TypeOK, WalkFrame
  <2>2. WalkInv(t)' /\ pc'[t] \in Walking
    BY <2>1 DEF WalkInv, Walking
  <2> QED BY <2>2, AtWalkInv
<1>4. CASE AfterDebugRefCount(t, root, n)
  BY <1>4, <1>t, OutsideInv DEF AfterDebugRefCount, Finish, TypeOK
<1>5. CASE AfterIsFusedA(t, root, n)
  <2>1. /\ walk[t].ai \in Born /\ FindRoot(t, walk[t].ai, "isfused_b")
        /\ walk'[t].ai = walk[t].ai /\ walk'[t].other = root
    BY <1>5, <1>t DEF AfterIsFusedA, FindInv, TypeOK, WalkFrame
  <2> QED BY <1>t, <2>1, EnterFindInv
<1>6. CASE AfterIsFusedB(t, root, n)
  <2>1. /\ walk[t].other \in Born /\ walk'[t].ai = root /\ walk'[t].other = walk[t].other
    BY <1>6, <1>t DEF AfterIsFusedB, FindInv, TypeOK, WalkFrame
  <2>2. CASE Finish(t, TRUE)
    BY <1>t, <2>2, OutsideInv DEF Finish, TypeOK
  <2>3. CASE FindRoot(t, walk[t].other, "isfused_again")
    BY <1>t, <2>1, <2>3, EnterFindInv
  <2> QED BY <1>6, <2>2, <2>3 DEF AfterIsFusedB
<1>7. CASE AfterIsFusedAgain(t, root, n)
  <2>1. /\ walk[t].ai \in Born /\ walk'[t].ai = walk[t].ai /\ walk'[t].other = root
    BY <1>7, <1>t DEF AfterIsFusedAgain, FindInv, TypeOK, WalkFrame
  <2>2. CASE Finish(t, FALSE)
    BY <1>t, <2>2, OutsideInv DEF Finish, TypeOK
  <2>3. CASE FindRoot(t, walk[t].ai, "isfused_b")
    BY <1>t, <2>1, <2>3, EnterFindInv
  <2> QED BY <1>7, <2>2, <2>3 DEF AfterIsFusedAgain
<1> QED BY <1>1, <1>2, <1>3, <1>4, <1>5, <1>6, <1>7 DEF Resume

(* Threads create no arenas, and giving memory back does not make an arena *)
(* unborn.                                                                 *)
LEMMA StepBorn ==
  ASSUME IndInv, NEW t \in Thread, Caller(t) \/ Step(t)
  PROVE  Born' = Born
<1>1. CASE DoFreeBlocks(t)
  <2>1. walk[t].ai \in Born /\ TypeOK
    BY <1>1 DEF IndInv, DoFreeBlocks, WalkInv, Walking
  <2> QED BY <1>1, <2>1 DEF DoFreeBlocks, Born, TypeOK
<1>2. Caller(t) => UNCHANGED status
  BY DEF Caller, Fuse, IsFused, Free, IncRefFor, DebugRefCount, SpaceAllocated, memory
<1>3. Step(t) => DoFreeBlocks(t) \/ UNCHANGED status
  BY DEF Step, memory, FindRootLoad, FindRootReload, FindRootNext, FindRootSplit, FuseCasR1,
     FuseCasR2, LinkForwardTail, LinkForwardNext, LinkForwardCas, UpdateTailLoadChild,
     UpdateTailLoadParent, UpdateTailCas, LinkBackward, FixupLoad, FixupCas, IncRefCas,
     IncRefCasFails, SpaceAllocatedBack, SpaceAllocatedForward, FreeLoad, FreeCas,
     DoFreeNext, Return
<1> QED BY <1>1, <1>2, <1>3 DEF Born

(* The thread that moves keeps its own frame invariants, and keeps what it *)
(* claims about the child it links.                                        *)
LEMMA StepInv ==
  ASSUME IndInv, NEW t \in Thread, Caller(t) \/ Step(t), SharedInv', Monotone
  PROVE  /\ ThreadInv(t)'
         /\ pc'[t] \in Linked => next'[link'[t].tail] = roots'[t].r2
         /\ pc'[t] \in Linking => \/ pc[t] \in Linking /\ roots'[t] = roots[t]
                                  \/ IsTaggedRefcount(parent_or_count[roots'[t].r2])
<1> DEFINE Links == /\ pc'[t] \in Linked => next'[link'[t].tail] = roots'[t].r2
                    /\ pc'[t] \in Linking => \/ pc[t] \in Linking /\ roots'[t] = roots[t]
                                             \/ IsTaggedRefcount(parent_or_count[roots'[t].r2])
<1>t. TypeOK /\ FindInv(t) /\ FuseInv(t) /\ WalkInv(t) /\ SharedInv /\ LinkExclusive
  BY DEF IndInv, SharedInv
<1>b. Born' = Born /\ Born \subseteq Arena
  BY StepBorn, Pointers
<1>n. ASSUME pc'[t] \notin Linking PROVE Links
  BY <1>n DEF Linking, Linked
<1>o. ASSUME pc'[t] \in {"idle", "ret"} PROVE ThreadInv(t)' /\ Links
  BY <1>o, <1>n, OutsideInv DEF Linking
<1>f. ASSUME NEW a \in Born, NEW ret, FindRoot(t, a, ret) PROVE Links
  <2>1. pc'[t] = "fr_load"
    BY <1>f, <1>t DEF FindRoot, Goto, TypeOK
  <2> QED BY <2>1, <1>n DEF Linking
<1>r. ASSUME RetryFuse(t), fuse[t].ai1 \in Born, fuse'[t].ai1 = fuse[t].ai1,
             fuse'[t].ai2 \in Born
      PROVE  ThreadInv(t)' /\ Links
  BY <1>r, <1>b, <1>t, <1>f, EnterFindInv DEF RetryFuse
<1>p. ASSUME NEW root \in Born, NEW n \in Int, Resume(t, root, n), pc[t] \in Finding
      PROVE  ThreadInv(t)' /\ Links
  <2>1. pc'[t] \notin Linking
    BY <1>p, <1>t DEF Resume, AfterFuse1, AfterFuse2, AfterIncRef, AfterDebugRefCount,
       AfterIsFusedA, AfterIsFusedB, AfterIsFusedAgain, FindRoot, Goto, Finish, EnterFixup,
       TypeOK, Linking
  <2> QED BY <1>p, <1>b, <1>n, <2>1, ResumeInv
<1>g. ASSUME pc[t] \in Finding, pc'[t] \in Finding, UNCHANGED <<call, fuse, roots, walk>>,
             find'[t].ret = find[t].ret, find'[t].ai \in Born,
             pc'[t] # "fr_load" => IsTaggedPointer(parent_or_count'[find'[t].ai]),
             pc'[t] = "fr_next" => /\ IsTaggedPointer(find'[t].poc)
                                   /\ find'[t].poc.val \in Born
                                   /\ find'[t].poc.val < find'[t].ai,
             pc'[t] = "fr_split" => /\ IsTaggedPointer(find'[t].poc)
                                    /\ find'[t].nxt \in Born /\ find'[t].poc.val \in Born
                                    /\ find'[t].poc.val < find'[t].nxt
                                    /\ find'[t].nxt < find'[t].ai
                                    /\ IsTaggedPointer(parent_or_count'[find'[t].nxt])
      PROVE  FindInv(t)' /\ FuseInv(t)' /\ WalkInv(t)'
  <2>1. /\ find[t].ret = "incref" => call[t].a \in Born
        /\ find[t].ret \in {"fuse1", "fuse2"} => {fuse[t].ai1, fuse[t].ai2} \subseteq Born
        /\ find[t].ret = "fuse2" => roots[t].r1 \in Born
        /\ find[t].ret \in {"isfused_a", "isfused_b", "isfused_again"} => walk[t].ai \in Born
        /\ find[t].ret \in {"isfused_b", "isfused_again"} => walk[t].other \in Born
    BY <1>g, <1>t DEF FindInv
  <2>2. FindInv(t)'
    BY <1>g, <1>b, <2>1 DEF FindInv
  <2>3. FuseInv(t)' /\ WalkInv(t)'
    BY <1>g DEF FuseInv, WalkInv, Finding, Linking, Linked, Walking
  <2> QED BY <2>2, <2>3
<1>w. ASSUME pc'[t] \in Walking, walk'[t].ai \in Born,
             pc'[t] = "df_blocks" => walk'[t].other \in Born \cup {NULL},
             pc'[t] \in {"inc_cas", "sa_back"} => call'[t].a \in Born
      PROVE  ThreadInv(t)' /\ Links
  <2>1. WalkInv(t)'
    BY <1>w, <1>b DEF WalkInv
  <2>2. pc'[t] \notin Linking
    BY <1>w DEF Walking, Linking
  <2> QED BY <1>w, <1>n, <2>1, <2>2, AtWalkInv
<1> USE DEF Goto
<1>1. CASE FindRootLoad(t)
  <2>1. find[t].ai \in Born /\ pc[t] \in Finding
    BY <1>1, <1>t DEF FindRootLoad, FindInv, Finding
  <2>2. CASE IsTaggedRefcount(parent_or_count[find[t].ai]) /\ Resume(t, find[t].ai, parent_or_count[find[t].ai].val)
    <3>1. parent_or_count[find[t].ai].val \in Int
      BY <1>b, <1>t, <2>1, <2>2, WordCases DEF TypeOK
    <3> QED BY <1>p, <2>1, <2>2, <3>1
  <2>3. CASE /\ IsTaggedPointer(parent_or_count[find[t].ai])
             /\ Goto(t, "fr_reload") /\ UNCHANGED <<call, find, fusing, walk>>
    <3>1. pc'[t] = "fr_reload" /\ UNCHANGED <<call, find, fuse, roots, walk, parent_or_count>>
      BY <1>1, <1>t, <2>3 DEF FindRootLoad, TypeOK, fusing, memory
    <3>2. FindInv(t)' /\ FuseInv(t)' /\ WalkInv(t)'
      BY <1>g, <2>1, <2>3, <3>1 DEF Finding
    <3> QED BY <1>n, <3>1, <3>2 DEF ThreadInv, Linking
  <2> QED BY <1>1, <2>2, <2>3 DEF FindRootLoad
<1>2. CASE FindRootReload(t)
  <2>1. /\ find[t].ai \in Born /\ IsTaggedPointer(parent_or_count[find[t].ai])
        /\ pc[t] \in Finding
    BY <1>2, <1>t DEF FindRootReload, FindInv, Finding
  <2>2. /\ pc'[t] = "fr_next" /\ UNCHANGED <<call, fuse, roots, walk, parent_or_count>>
        /\ find'[t].ai = find[t].ai /\ find'[t].ret = find[t].ret
        /\ find'[t].poc = parent_or_count[find[t].ai]
    BY <1>2, <1>t DEF FindRootReload, TypeOK, fusing, memory, FindFrame
  <2>3. parent_or_count[find[t].ai].val \in Born /\ parent_or_count[find[t].ai].val < find[t].ai
    BY <1>b, <1>t, <2>1 DEF SharedInv, MemoryInv, ParentBelow
  <2>4. FindInv(t)' /\ FuseInv(t)' /\ WalkInv(t)'
    BY <1>g, <2>1, <2>2, <2>3 DEF Finding
  <2> QED BY <1>n, <2>2, <2>4 DEF ThreadInv, Linking
<1>3. CASE FindRootNext(t)
  <2>d DEFINE nxt == find[t].poc.val
  <2>1. /\ nxt \in Born /\ pc[t] \in Finding /\ find[t].ai \in Born /\ nxt < find[t].ai
        /\ IsTaggedPointer(parent_or_count[find[t].ai])
    BY <1>3, <1>t DEF FindRootNext, FindInv, Finding
  <2>2. CASE IsTaggedRefcount(parent_or_count[nxt]) /\ Resume(t, nxt, parent_or_count[nxt].val)
    <3>1. parent_or_count[nxt].val \in Int
      BY <1>b, <1>t, <2>1, <2>2, WordCases DEF TypeOK
    <3> QED BY <1>p, <2>1, <2>2, <3>1
  <2>3. CASE /\ IsTaggedPointer(parent_or_count[nxt])
             /\ find' = [find EXCEPT ![t] = FindFrame(@.ai, nxt, parent_or_count[nxt], @.ret)]
             /\ Goto(t, "fr_split") /\ UNCHANGED <<call, fusing, walk>>
    <3>1. /\ pc'[t] = "fr_split" /\ UNCHANGED <<call, fuse, roots, walk, parent_or_count>>
          /\ find'[t].ai = find[t].ai /\ find'[t].ret = find[t].ret
          /\ find'[t].poc = parent_or_count[nxt] /\ find'[t].nxt = nxt
      BY <1>3, <1>t, <2>3 DEF FindRootNext, TypeOK, fusing, memory, FindFrame
    <3>2. parent_or_count[nxt].val \in Born /\ parent_or_count[nxt].val < nxt
      BY <1>b, <1>t, <2>1, <2>3 DEF SharedInv, MemoryInv, ParentBelow
    <3>3. FindInv(t)' /\ FuseInv(t)' /\ WalkInv(t)'
      BY <1>g, <2>1, <2>3, <3>1, <3>2 DEF Finding
    <3> QED BY <1>n, <3>1, <3>3 DEF ThreadInv, Linking
  <2> QED BY <1>3, <2>2, <2>3 DEF FindRootNext
<1>4. CASE FindRootSplit(t)
  <2>1. /\ find[t].nxt \in Born /\ IsTaggedPointer(find[t].poc) /\ find[t].poc.val \in Born
        /\ find[t].poc.val < find[t].nxt /\ pc[t] \in Finding
        /\ IsTaggedPointer(parent_or_count[find[t].nxt])
    BY <1>4, <1>t DEF FindRootSplit, FindInv, Finding
  <2>2. /\ pc'[t] = "fr_next" /\ UNCHANGED <<call, fuse, roots, walk>>
        /\ find'[t].ai = find[t].nxt /\ find'[t].ret = find[t].ret
        /\ find'[t].poc = find[t].poc
    BY <1>4, <1>t DEF FindRootSplit, TypeOK, fusing, memory, FindFrame
  <2>3. IsTaggedPointer(parent_or_count'[find[t].nxt])
    BY <1>b, <2>1 DEF Monotone
  <2>4. FindInv(t)' /\ FuseInv(t)' /\ WalkInv(t)'
    BY <1>g, <2>1, <2>2, <2>3 DEF Finding
  <2> QED BY <1>n, <2>2, <2>4 DEF ThreadInv, Linking
<1>5. CASE FuseCasR1(t)
  <2>1. /\ fuse[t].ai1 \in Born /\ fuse[t].ai2 \in Born /\ roots[t].r1 \in Born
        /\ roots[t].r2 \in Born /\ roots[t].r1 < roots[t].r2
    BY <1>5, <1>t DEF FuseCasR1, FuseInv
  <2>2. UNCHANGED <<fuse, roots>>
    BY <1>5 DEF FuseCasR1, fusing
  <2>3. CASE Goto(t, "cas_r2")
    <3>1. pc'[t] = "cas_r2"
      BY <1>t, <2>3 DEF TypeOK
    <3>2. FuseInv(t)'
      BY <1>b, <2>1, <2>2, <3>1 DEF FuseInv, Linking, Linked
    <3> QED BY <1>n, <3>1, <3>2, AtFuseInv DEF Linking
  <2>4. CASE RetryFuse(t)
    BY <1>r, <2>1, <2>2, <2>4
  <2> QED BY <1>5, <2>3, <2>4 DEF FuseCasR1
<1>6. CASE FuseCasR2(t)
  <2>1. /\ fuse[t].ai1 \in Born /\ fuse[t].ai2 \in Born /\ roots[t].r1 \in Born
        /\ roots[t].r2 \in Born /\ roots[t].r1 < roots[t].r2
    BY <1>6, <1>t DEF FuseCasR2, FuseInv
  <2>2. CASE /\ parent_or_count[roots[t].r2] = TaggedFromRefcount(roots[t].n2)
             /\ parent_or_count' = [parent_or_count EXCEPT
                                      ![roots[t].r2] = TaggedFromPointer(roots[t].r1)]
             /\ Goto(t, "lf_tail") /\ UNCHANGED <<find, fuse>>
    <3>1. /\ pc'[t] = "lf_tail" /\ UNCHANGED <<fuse, roots, next, previous_or_tail>>
          /\ IsTaggedRefcount(parent_or_count[roots[t].r2])
          /\ IsTaggedPointer(parent_or_count'[roots[t].r2])
      BY <1>6, <1>b, <1>t, <2>1, <2>2 DEF FuseCasR2, TypeOK, IsTaggedRefcount, IsTaggedPointer,
         TaggedFromRefcount, TaggedFromPointer
    <3>2. IsTaggedTail(previous_or_tail[roots[t].r2])
      BY <1>b, <1>t, <2>1, <3>1 DEF SharedInv, MemoryInv
    <3>3. ~IsTaggedPointer(parent_or_count[roots[t].r2])
      BY <3>1 DEF IsTaggedRefcount, IsTaggedPointer
    <3>4. \A a \in Arena : next[a] # roots[t].r2
      BY <1>b, <1>t, <2>1, <3>3 DEF SharedInv, ListsAgree
    <3>5. FuseInv(t)'
      BY <1>b, <2>1, <3>1, <3>2, <3>4 DEF FuseInv, Linking, Linked
    <3>6. pc'[t] \in Linking /\ pc'[t] \notin Linked
      BY <3>1 DEF Linking, Linked
    <3> QED BY <3>1, <3>5, <3>6, AtFuseInv
  <2>3. CASE /\ fuse' = [fuse EXCEPT ![t] = FuseFrame(@.ai1, @.ai2, @.delta + roots[t].n2)]
             /\ RetryFuse(t)
    <3>1. fuse'[t].ai1 = fuse[t].ai1 /\ fuse'[t].ai2 = fuse[t].ai2
      BY <1>t, <2>3 DEF TypeOK, FuseFrame
    <3> QED BY <1>r, <2>1, <2>3, <3>1
  <2> QED BY <1>6, <2>2, <2>3 DEF FuseCasR2
<1>l. ASSUME pc[t] \in Linking, pc'[t] \in Linking, UNCHANGED <<fuse, roots>>,
             pc[t] \in Linked <=> pc'[t] \in Linked,
             UNCHANGED <<parent_or_count, next>>,
             IsTaggedTail(previous_or_tail'[roots[t].r2]),
             pc'[t] # "lf_tail" => link'[t].tail \in Born,
             pc'[t] \in Linked => link'[t].tail = link[t].tail,
             pc'[t] \in {"ut_parent", "ut_cas"} => link'[t].newtail \in Born,
             pc'[t] = "ut_cas" => IsTaggedTail(link'[t].pot)
      PROVE  ThreadInv(t)' /\ Links
  <2>1. /\ {fuse[t].ai1, fuse[t].ai2, roots[t].r1} \subseteq Born
        /\ roots[t].r2 \in Born /\ roots[t].r1 < roots[t].r2
        /\ IsTaggedPointer(parent_or_count[roots[t].r2])
        /\ pc[t] \notin Linked => \A a \in Arena : next[a] # roots[t].r2
    BY <1>l, <1>t DEF FuseInv
  <2>2. FuseInv(t)'
    BY <1>b, <1>l, <2>1 DEF FuseInv
  <2>3. Links
    BY <1>l, <1>t DEF LinkExclusive
  <2> QED BY <1>l, <2>2, <2>3, AtFuseInv
<1>7. CASE LinkForwardTail(t)
  <2>1. /\ pc[t] \in Linking /\ pc[t] \notin Linked /\ roots[t].r1 \in Born
        /\ IsTaggedTail(previous_or_tail[roots[t].r2])
    BY <1>7, <1>t DEF LinkForwardTail, FuseInv, Linking, Linked
  <2>2. /\ pc'[t] = "lf_next" /\ UNCHANGED <<fuse, roots, parent_or_count, next, previous_or_tail>>
        /\ link'[t].tail \in {previous_or_tail[roots[t].r1].val, roots[t].r1}
    BY <1>7, <1>t DEF LinkForwardTail, TypeOK, memory, LinkFrame
  <2>3. previous_or_tail[roots[t].r1].val \in Born
    BY <1>b, <1>t, <2>1 DEF SharedInv, MemoryInv
  <2> QED BY <1>l, <2>1, <2>2, <2>3 DEF Linking, Linked
<1>8. CASE LinkForwardNext(t)
  <2>1. /\ pc[t] \in Linking /\ pc[t] \notin Linked /\ link[t].tail \in Born
        /\ IsTaggedTail(previous_or_tail[roots[t].r2]) /\ pc[t] = "lf_next"
    BY <1>8, <1>t DEF LinkForwardNext, FuseInv, Linking, Linked
  <2>2. next[link[t].tail] \in Born \cup {NULL}
    BY <1>b, <1>t, <2>1 DEF SharedInv, MemoryInv
  <2>3. UNCHANGED <<fuse, roots, parent_or_count, next, previous_or_tail>>
    BY <1>8 DEF LinkForwardNext, memory
  <2>4. CASE /\ next[link[t].tail] # NULL /\ UNCHANGED pc
             /\ link' = [link EXCEPT ![t] = LinkFrame(next[link[t].tail], @.newtail, @.pot)]
    <3>1. link'[t].tail = next[link[t].tail] /\ pc'[t] = "lf_next"
      BY <1>t, <2>1, <2>4 DEF TypeOK, LinkFrame
    <3> QED BY <1>l, <2>1, <2>2, <2>3, <2>4, <3>1 DEF Linking, Linked
  <2>5. CASE Goto(t, "lf_cas") /\ UNCHANGED link
    <3>1. pc'[t] = "lf_cas"
      BY <1>t, <2>5 DEF TypeOK
    <3> QED BY <1>l, <2>1, <2>3, <2>5, <3>1 DEF Linking, Linked
  <2> QED BY <1>8, <2>4, <2>5 DEF LinkForwardNext
<1>9. CASE LinkForwardCas(t)
  <2>1. /\ pc[t] \in Linking /\ pc[t] \notin Linked /\ link[t].tail \in Born
        /\ IsTaggedTail(previous_or_tail[roots[t].r2]) /\ roots[t].r2 \in Born
        /\ IsTaggedPointer(parent_or_count[roots[t].r2])
        /\ {fuse[t].ai1, fuse[t].ai2, roots[t].r1} \subseteq Born /\ roots[t].r1 < roots[t].r2
    BY <1>9, <1>t DEF LinkForwardCas, FuseInv, Linking, Linked
  <2>2. UNCHANGED <<fuse, roots, parent_or_count, previous_or_tail>>
    BY <1>9 DEF LinkForwardCas
  <2>3. CASE /\ next' = [next EXCEPT ![link[t].tail] = roots[t].r2]
             /\ Goto(t, "ut_child") /\ UNCHANGED link
    <3>1. pc'[t] = "ut_child" /\ next'[link[t].tail] = roots[t].r2
      BY <1>b, <1>t, <2>1, <2>3 DEF TypeOK
    <3>2. FuseInv(t)'
      BY <1>b, <2>1, <2>2, <2>3, <3>1 DEF FuseInv, Linking, Linked
    <3>3. Links
      BY <2>1, <2>2, <2>3, <3>1
    <3> QED BY <3>1, <3>2, <3>3, AtFuseInv DEF Linking
  <2>4. CASE /\ next[link[t].tail] # NULL /\ Goto(t, "lf_next") /\ UNCHANGED next
             /\ link' = [link EXCEPT ![t] = LinkFrame(next[link[t].tail], @.newtail, @.pot)]
    <3>1. link'[t].tail = next[link[t].tail] /\ pc'[t] = "lf_next"
      BY <1>t, <2>4 DEF TypeOK, LinkFrame
    <3>2. next[link[t].tail] \in Born
      BY <1>b, <1>t, <2>1, <2>4 DEF SharedInv, MemoryInv
    <3> QED BY <1>l, <2>1, <2>2, <2>4, <3>1, <3>2 DEF Linking, Linked
  <2> QED BY <1>9, <2>3, <2>4 DEF LinkForwardCas
<1>10. CASE UpdateTailLoadChild(t)
  <2>1. /\ pc[t] \in Linking /\ pc[t] \in Linked /\ link[t].tail \in Born
        /\ IsTaggedTail(previous_or_tail[roots[t].r2]) /\ roots[t].r2 \in Born
    BY <1>10, <1>t DEF UpdateTailLoadChild, FuseInv, Linking, Linked
  <2>2. /\ pc'[t] = "ut_parent" /\ UNCHANGED <<fuse, roots, parent_or_count, next, previous_or_tail>>
        /\ link'[t].tail = link[t].tail
        /\ link'[t].newtail = previous_or_tail[roots[t].r2].val
    BY <1>10, <1>t DEF UpdateTailLoadChild, TypeOK, memory, LinkFrame
  <2>3. previous_or_tail[roots[t].r2].val \in Born
    BY <1>b, <1>t, <2>1 DEF SharedInv, MemoryInv
  <2> QED BY <1>l, <2>1, <2>2, <2>3 DEF Linking, Linked
<1>11. CASE UpdateTailLoadParent(t)
  <2>1. /\ pc[t] \in Linking /\ pc[t] \in Linked /\ link[t].tail \in Born
        /\ IsTaggedTail(previous_or_tail[roots[t].r2]) /\ link[t].newtail \in Born
    BY <1>11, <1>t DEF UpdateTailLoadParent, FuseInv, Linking, Linked
  <2>2. UNCHANGED <<fuse, roots, parent_or_count, next, previous_or_tail>>
    BY <1>11 DEF UpdateTailLoadParent, memory
  <2>3. CASE /\ IsTaggedTail(previous_or_tail[roots[t].r1]) /\ Goto(t, "ut_cas")
             /\ link' = [link EXCEPT ![t] =
                  LinkFrame(@.tail, @.newtail, previous_or_tail[roots[t].r1])]
    <3>1. /\ pc'[t] = "ut_cas" /\ link'[t].tail = link[t].tail
          /\ link'[t].newtail = link[t].newtail
          /\ link'[t].pot = previous_or_tail[roots[t].r1]
      BY <1>t, <2>3 DEF TypeOK, LinkFrame
    <3> QED BY <1>l, <2>1, <2>2, <2>3, <3>1 DEF Linking, Linked
  <2>4. CASE Goto(t, "lb_store") /\ UNCHANGED link
    <3>1. pc'[t] = "lb_store"
      BY <1>t, <2>4 DEF TypeOK
    <3> QED BY <1>l, <2>1, <2>2, <2>4, <3>1 DEF Linking, Linked
  <2> QED BY <1>11, <2>3, <2>4 DEF UpdateTailLoadParent
<1>12. CASE UpdateTailCas(t)
  <2>1. /\ pc[t] \in Linking /\ pc[t] \in Linked /\ link[t].tail \in Born
        /\ IsTaggedTail(previous_or_tail[roots[t].r2]) /\ roots[t].r2 \in Born
    BY <1>12, <1>t DEF UpdateTailCas, FuseInv, Linking, Linked
  <2>2. /\ pc'[t] = "lb_store"
        /\ UNCHANGED <<fuse, roots, link, parent_or_count, next>>
    BY <1>12, <1>t DEF UpdateTailCas, TypeOK, fusing
  <2>3. IsTaggedTail(previous_or_tail'[roots[t].r2])
    BY <1>12, <1>b, <1>t, <2>1 DEF UpdateTailCas, TypeOK, IsTaggedTail, TaggedFromTail
  <2> QED BY <1>l, <2>1, <2>2, <2>3 DEF Linking, Linked
<1>13. CASE LinkBackward(t)
  <2>1. fuse[t].ai1 \in Born /\ fuse[t].ai2 \in Born /\ roots[t].r1 \in Born
    BY <1>13, <1>t DEF LinkBackward, FuseInv, Linking
  <2>2. UNCHANGED <<fuse, roots>> /\ EnterFixup(t)
    BY <1>13 DEF LinkBackward, fusing
  <2>3. pc'[t] \in {"ret", "fx_load"}
    BY <1>t, <2>2 DEF EnterFixup, Finish, TypeOK
  <2> QED BY <1>b, <1>n, <1>t, <2>1, <2>2, <2>3, EnterFixupInv DEF Linking
<1>14. CASE FixupLoad(t)
  <2>1. fuse[t].ai1 \in Born /\ fuse[t].ai2 \in Born /\ roots[t].r1 \in Born
    BY <1>14, <1>t DEF FixupLoad, FuseInv
  <2>2. CASE RetryFuse(t)
    BY <1>14, <1>r, <2>1, <2>2 DEF FixupLoad
  <2>3. CASE /\ roots' = [roots EXCEPT ![t] =
                  RootsFrame(@.r1, parent_or_count[roots[t].r1].val, @.r2, @.n2)]
             /\ Goto(t, "fx_cas")
    <3>1. pc'[t] = "fx_cas" /\ UNCHANGED fuse /\ roots'[t].r1 = roots[t].r1
      BY <1>14, <1>t, <2>3 DEF FixupLoad, TypeOK, RootsFrame
    <3>2. FuseInv(t)'
      BY <1>b, <2>1, <3>1 DEF FuseInv, Linking, Linked
    <3> QED BY <1>n, <3>1, <3>2, AtFuseInv DEF Linking
  <2> QED BY <1>14, <2>2, <2>3 DEF FixupLoad
<1>15. CASE FixupCas(t)
  <2>1. fuse[t].ai1 \in Born /\ fuse[t].ai2 \in Born /\ UNCHANGED fuse
    BY <1>15, <1>t DEF FixupCas, FuseInv, fusing
  <2>2. CASE RetryFuse(t)
    BY <1>r, <2>1, <2>2
  <2>3. CASE Finish(t, TRUE)
    BY <1>o, <1>t, <2>3 DEF Finish, TypeOK
  <2> QED BY <1>15, <2>2, <2>3 DEF FixupCas
<1>16. CASE IncRefCas(t)
  BY <1>16, <1>o, <1>t DEF IncRefCas, Finish, TypeOK
<1>17. CASE IncRefCasFails(t)
  <2>1. walk[t].ai \in Born /\ call'[t].a \in Born /\ FindRoot(t, walk[t].ai, "incref")
    BY <1>17, <1>t DEF IncRefCasFails, WalkInv, Walking
  <2> QED BY <1>b, <1>f, <1>t, <2>1, EnterFindInv
<1>18. CASE SpaceAllocatedBack(t)
  <2>1. walk[t].ai \in Born /\ call'[t] = call[t] /\ call[t].a \in Born
    BY <1>18, <1>t DEF SpaceAllocatedBack, WalkInv, Walking
  <2>2. previous_or_tail[walk[t].ai].val \in Born
    BY <1>b, <1>t, <2>1 DEF SharedInv, MemoryInv
  <2>3. /\ pc'[t] \in {"sa_back", "sa_forward"}
        /\ walk'[t].ai \in {previous_or_tail[walk[t].ai].val, call[t].a}
    BY <1>18, <1>t DEF SpaceAllocatedBack, TypeOK, WalkFrame
  <2> QED BY <1>w, <2>1, <2>2, <2>3 DEF Walking
<1>19. CASE SpaceAllocatedForward(t)
  <2>1. walk[t].ai \in Born /\ walk'[t].ai = next[walk[t].ai]
    BY <1>19, <1>t DEF SpaceAllocatedForward, WalkInv, Walking, TypeOK, WalkFrame
  <2>2. CASE Finish(t, TRUE)
    BY <1>o, <1>t, <2>2 DEF Finish, TypeOK
  <2>3. CASE next[walk[t].ai] # NULL /\ UNCHANGED pc
    <3>1. walk'[t].ai \in Born
      BY <1>b, <1>t, <2>1, <2>3 DEF SharedInv, MemoryInv
    <3>2. pc'[t] = "sa_forward"
      BY <1>19, <2>3 DEF SpaceAllocatedForward
    <3> QED BY <1>w, <3>1, <3>2 DEF Walking
  <2> QED BY <1>19, <2>2, <2>3 DEF SpaceAllocatedForward
<1>d. ASSUME walk[t].ai \in Born, FreeDispatch(t, parent_or_count[walk[t].ai])
      PROVE  ThreadInv(t)' /\ Links
  <2>1. IsTaggedPointer(parent_or_count[walk[t].ai]) => parent_or_count[walk[t].ai].val \in Born
    BY <1>b, <1>d, <1>t DEF SharedInv, MemoryInv
  <2>2. /\ pc'[t] \in {"free_load", "df_next", "free_cas"}
        /\ \/ walk'[t].ai = walk[t].ai
           \/ /\ IsTaggedPointer(parent_or_count[walk[t].ai])
              /\ walk'[t].ai = parent_or_count[walk[t].ai].val
    BY <1>d, <1>t DEF FreeDispatch, TypeOK, WalkFrame
  <2> QED BY <1>d, <1>w, <2>1, <2>2 DEF Walking
<1>20. CASE FreeLoad(t)
  BY <1>20, <1>d, <1>t DEF FreeLoad, WalkInv, Walking
<1>21. CASE FreeCas(t)
  <2>1. walk[t].ai \in Born
    BY <1>21, <1>t DEF FreeCas, WalkInv, Walking
  <2>2. CASE Finish(t, TRUE)
    BY <1>o, <1>t, <2>2 DEF Finish, TypeOK
  <2>3. CASE FreeDispatch(t, parent_or_count[walk[t].ai])
    BY <1>d, <2>1, <2>3
  <2> QED BY <1>21, <2>2, <2>3 DEF FreeCas
<1>22. CASE DoFreeNext(t)
  <2>1. walk[t].ai \in Born
    BY <1>22, <1>t DEF DoFreeNext, WalkInv, Walking
  <2>2. next[walk[t].ai] \in Born \cup {NULL}
    BY <1>b, <1>t, <2>1 DEF SharedInv, MemoryInv
  <2>3. /\ pc'[t] = "df_blocks" /\ walk'[t].ai = walk[t].ai
        /\ walk'[t].other = next[walk[t].ai]
    BY <1>22, <1>t DEF DoFreeNext, TypeOK, WalkFrame
  <2> QED BY <1>w, <2>1, <2>2, <2>3 DEF Walking
<1>23. CASE DoFreeBlocks(t)
  <2>1. walk[t].other \in Born \cup {NULL} /\ walk'[t].ai = walk[t].other
    BY <1>23, <1>t DEF DoFreeBlocks, WalkInv, TypeOK, WalkFrame
  <2>2. CASE Finish(t, TRUE)
    BY <1>o, <1>t, <2>2 DEF Finish, TypeOK
  <2>3. CASE walk[t].other # NULL /\ Goto(t, "df_next")
    <3>1. pc'[t] = "df_next"
      BY <1>t, <2>3 DEF TypeOK
    <3> QED BY <1>w, <2>1, <2>3, <3>1 DEF Walking
  <2> QED BY <1>23, <2>2, <2>3 DEF DoFreeBlocks
<1>24. CASE Return(t)
  BY <1>24, <1>o, <1>t DEF Return, TypeOK
<1>u. ASSUME NEW a \in Arena, CanUse(a) PROVE a \in Born
  BY <1>u DEF CanUse, Born
<1>25. ASSUME NEW a \in Arena, NEW b \in Arena, Fuse(t, a, b) PROVE ThreadInv(t)' /\ Links
  <2>1. a \in Born /\ b \in Born
    BY <1>25, <1>u DEF Fuse
  <2>2. CASE Goto(t, "ret")
    BY <1>o, <1>t, <2>2 DEF TypeOK
  <2>3. CASE fuse' = [fuse EXCEPT ![t] = FuseFrame(a, b, 0)] /\ FindRoot(t, a, "fuse1")
    <3>1. fuse'[t].ai1 = a /\ fuse'[t].ai2 = b
      BY <1>t, <2>3 DEF TypeOK, FuseFrame
    <3> QED BY <1>b, <1>f, <1>t, <2>1, <2>3, <3>1, EnterFindInv
  <2> QED BY <1>25, <2>2, <2>3 DEF Fuse
<1>26. ASSUME NEW a \in Arena, NEW b \in Arena, IsFused(t, a, b) PROVE ThreadInv(t)' /\ Links
  <2>1. a \in Born /\ b \in Born
    BY <1>26, <1>u DEF IsFused
  <2>2. CASE Goto(t, "ret")
    BY <1>o, <1>t, <2>2 DEF TypeOK
  <2>3. CASE walk' = [walk EXCEPT ![t] = WalkFrame(b, NULL, 0, {})] /\ FindRoot(t, a, "isfused_a")
    <3>1. walk'[t].ai = b
      BY <1>t, <2>3 DEF TypeOK, WalkFrame
    <3> QED BY <1>b, <1>f, <1>t, <2>1, <2>3, <3>1, EnterFindInv
  <2> QED BY <1>26, <2>2, <2>3 DEF IsFused
<1>27. ASSUME NEW a \in Arena, Free(t, a) PROVE ThreadInv(t)' /\ Links
  <2>1. a \in Born
    BY <1>27, <1>u DEF Free, CanRelease
  <2>2. pc'[t] = "free_load" /\ walk'[t].ai = a
    BY <1>27, <1>t DEF Free, TypeOK, WalkFrame
  <2> QED BY <1>w, <2>1, <2>2 DEF Walking
<1>28. ASSUME NEW a \in Arena, IncRefFor(t, a) PROVE ThreadInv(t)' /\ Links
  <2>1. a \in Born
    BY <1>28, <1>u DEF IncRefFor
  <2>2. call'[t].a = a
    BY <1>28, <1>t DEF IncRefFor, TypeOK, Call
  <2>3. CASE Goto(t, "ret")
    BY <1>o, <1>t, <2>3 DEF TypeOK
  <2>4. CASE FindRoot(t, a, "incref")
    BY <1>b, <1>f, <1>t, <2>1, <2>2, <2>4, EnterFindInv
  <2> QED BY <1>28, <2>3, <2>4 DEF IncRefFor
<1>29. ASSUME NEW a \in Arena, DebugRefCount(t, a) PROVE ThreadInv(t)' /\ Links
  <2>1. a \in Born /\ FindRoot(t, a, "debug")
    BY <1>29, <1>u DEF DebugRefCount
  <2> QED BY <1>b, <1>f, <1>t, <2>1, EnterFindInv
<1>30. ASSUME NEW a \in Arena, SpaceAllocated(t, a) PROVE ThreadInv(t)' /\ Links
  <2>1. a \in Born
    BY <1>30, <1>u DEF SpaceAllocated
  <2>2. pc'[t] = "sa_back" /\ walk'[t].ai = a /\ call'[t].a = a
    BY <1>30, <1>t DEF SpaceAllocated, TypeOK, WalkFrame, Call
  <2> QED BY <1>w, <2>1, <2>2 DEF Walking
<1> QED
  BY <1>1, <1>2, <1>3, <1>4, <1>5, <1>6, <1>7, <1>8, <1>9, <1>10, <1>11, <1>12, <1>13,
     <1>14, <1>15, <1>16, <1>17, <1>18, <1>19, <1>20, <1>21, <1>22, <1>23, <1>24, <1>25,
     <1>26, <1>27, <1>28, <1>29, <1>30 DEF Caller, Step


-----------------------------------------------------------------------------
(* The inductive step.                                                     *)

(* Two threads never link the same child: the one that moves links a child *)
(* it linked before, or one that was a root, which no other thread links.  *)
LEMMA StepLinks ==
  ASSUME IndInv, NEW t \in Thread, Caller(t) \/ Step(t)
  PROVE  LinkExclusive'
<1>1. OthersKeep(t) /\ SharedInv' /\ Monotone /\ Born \subseteq Arena
  BY StepShared, StepKeeps, Pointers DEF IndInv
<1>2. /\ pc'[t] \in Linked => next'[link'[t].tail] = roots'[t].r2
      /\ pc'[t] \in Linking => \/ pc[t] \in Linking /\ roots'[t] = roots[t]
                               \/ IsTaggedRefcount(parent_or_count[roots'[t].r2])
  BY <1>1, StepInv
<1>3. ASSUME NEW u \in Thread \ {t}, pc'[u] \in Linked
      PROVE  next'[link'[u].tail] = roots'[u].r2
  <2>1. pc[u] \in Linked /\ link'[u] = link[u] /\ roots'[u] = roots[u] /\ pc[u] \in Linking
    BY <1>1, <1>3 DEF OthersKeep, Linked, Linking
  <2>2. /\ link[u].tail \in Arena /\ roots[u].r2 \in Arena
        /\ next[link[u].tail] = roots[u].r2
    BY <1>1, <2>1 DEF IndInv, FuseInv, LinkExclusive, Linking, Linked
  <2> QED BY <1>1, <2>1, <2>2, NullIsNoArena DEF Monotone
<1>4. ASSUME NEW u \in Thread \ {t}, pc'[u] \in Linking
      PROVE  /\ pc[u] \in Linking /\ roots'[u] = roots[u]
             /\ ~IsTaggedRefcount(parent_or_count[roots[u].r2])
  <2>1. pc[u] \in Linking /\ roots'[u] = roots[u]
    BY <1>1, <1>4 DEF OthersKeep
  <2>2. IsTaggedPointer(parent_or_count[roots[u].r2])
    BY <2>1 DEF IndInv, FuseInv
  <2> QED BY <2>1, <2>2 DEF IsTaggedPointer, IsTaggedRefcount
<1>5. ASSUME NEW u \in Thread \ {t}, pc'[u] \in Linking, pc'[t] \in Linking
      PROVE  roots'[u].r2 # roots'[t].r2
  BY <1>2, <1>4, <1>5 DEF IndInv, LinkExclusive
<1>6. ASSUME NEW u \in Thread \ {t}, NEW v \in Thread \ {t}, u # v,
             pc'[u] \in Linking, pc'[v] \in Linking
      PROVE  roots'[u].r2 # roots'[v].r2
  BY <1>4, <1>6 DEF IndInv, LinkExclusive
<1>7. \A u \in Thread : pc'[u] \in Linked => next'[link'[u].tail] = roots'[u].r2
  BY <1>2, <1>3
<1>8. \A u, v \in Thread : (u # v /\ pc'[u] \in Linking /\ pc'[v] \in Linking) =>
         roots'[v].r2 # roots'[u].r2
  BY <1>5, <1>6
<1> QED BY <1>7, <1>8 DEF LinkExclusive

(* Every step of a thread preserves IndInv and undoes nothing.             *)
LEMMA StepInd ==
  ASSUME IndInv, NEW t \in Thread, Caller(t) \/ Step(t)
  PROVE  IndInv' /\ Monotone
<1>1. TypeOK'
  BY StepType DEF IndInv
<1>2. SharedInv' /\ Monotone /\ \A u \in Thread \ {t} : Undisturbed(u)
  BY StepShared
<1>3. OthersKeep(t)
  BY StepKeeps DEF IndInv
<1>4. ThreadInv(t)'
  BY <1>2, StepInv
<1>5. \A u \in Thread \ {t} : FindInv(u)' /\ FuseInv(u)' /\ WalkInv(u)'
  BY <1>2, <1>3, OthersInv
<1>6. LinkExclusive'
  BY StepLinks
<1> QED BY <1>1, <1>2, <1>4, <1>5, <1>6 DEF IndInv, SharedInv, ThreadInv

(* So does the creation of an arena: nothing refers to an unborn one.      *)
LEMMA CreateInd ==
  ASSUME IndInv, NEW a \in Arena, NEW has_initial \in BOOLEAN, Arena_Init(a, has_initial)
  PROVE  IndInv' /\ Monotone
<1>1. TypeOK' /\ TypeOK
  BY CreateType DEF IndInv
<1>2. SharedInv /\ LinkExclusive /\ \A u \in Thread : FindInv(u) /\ FuseInv(u) /\ WalkInv(u)
  BY DEF IndInv, SharedInv
<1>3. Born' = Born \cup {a} /\ a \notin Born /\ Born \subseteq Arena
  BY <1>1 DEF Arena_Init, Born, TypeOK
<1>4. /\ \A b \in Arena : b # a => /\ parent_or_count'[b] = parent_or_count[b]
                                   /\ previous_or_tail'[b] = previous_or_tail[b]
      /\ parent_or_count'[a] = TaggedFromRefcount(1)
      /\ previous_or_tail'[a] = TaggedFromTail(a)
      /\ next' = [next EXCEPT ![a] = NULL]
  BY <1>1 DEF Arena_Init, TypeOK
<1>5. /\ IsTaggedRefcount(parent_or_count'[a]) /\ ~IsTaggedPointer(parent_or_count'[a])
      /\ IsTaggedTail(previous_or_tail'[a]) /\ ~IsTaggedPrevious(previous_or_tail'[a])
      /\ previous_or_tail'[a].val = a
  BY <1>4 DEF IsTaggedRefcount, IsTaggedPointer, IsTaggedTail, IsTaggedPrevious,
     TaggedFromRefcount, TaggedFromTail
<1>6. /\ IsTaggedRefcount(parent_or_count[a]) /\ ~IsTaggedPointer(parent_or_count[a])
      /\ IsTaggedTail(previous_or_tail[a]) /\ ~IsTaggedPrevious(previous_or_tail[a])
      /\ next[a] = NULL
  BY <1>2, <1>3 DEF SharedInv, MemoryInv, IsTaggedRefcount, IsTaggedPointer, IsTaggedTail,
     IsTaggedPrevious
<1>7. next' = next
  BY <1>1, <1>4, <1>6 DEF TypeOK
<1>8. ParentBelow' /\ ListsAgree'
  BY <1>2, <1>4, <1>5, <1>6, <1>7 DEF SharedInv, ParentBelow, ListsAgree
<1>9. MemoryInv'
  BY <1>2, <1>3, <1>4, <1>5, <1>7 DEF SharedInv, MemoryInv
<1>10. Monotone
  BY <1>3, <1>4, <1>6, <1>7 DEF Monotone
<1>11. UNCHANGED <<pc, call, find, fuse, roots, link, walk>>
  BY DEF Arena_Init, fusing
<1>12. LinkExclusive'
  BY <1>2, <1>7, <1>11 DEF LinkExclusive
<1>13. ASSUME NEW u \in Thread PROVE FindInv(u)' /\ FuseInv(u)' /\ WalkInv(u)'
  <2>1. FindInv(u) /\ FuseInv(u) /\ WalkInv(u)
    BY <1>2
  <2>2. FindInv(u)'
    BY <1>3, <1>10, <1>11, <2>1 DEF FindInv, Monotone, Finding
  <2>3. pc[u] \in Linking => /\ IsTaggedPointer(parent_or_count'[roots[u].r2])
                             /\ IsTaggedTail(previous_or_tail'[roots[u].r2])
    BY <1>3, <1>4, <2>1 DEF FuseInv
  <2>4. FuseInv(u)'
    BY <1>3, <1>7, <1>11, <2>1, <2>3 DEF FuseInv
  <2>5. WalkInv(u)'
    BY <1>3, <1>11, <2>1 DEF WalkInv
  <2> QED BY <2>2, <2>4, <2>5
<1> QED BY <1>1, <1>8, <1>9, <1>10, <1>12, <1>13 DEF IndInv

(* Nothing happens.                                                        *)
LEMMA StutterInd == IndInv /\ UNCHANGED vars => IndInv'
<1> SUFFICES ASSUME IndInv, UNCHANGED vars PROVE IndInv'
  OBVIOUS
<1>1. /\ UNCHANGED <<status, initial_block, parent_or_count, next, previous_or_tail>>
      /\ UNCHANGED <<refs, pc, call, find, fuse, roots, link, walk, calls>>
  BY DEF vars, memory, fusing
<1>2. TypeOK' /\ LinkExclusive'
  BY <1>1 DEF IndInv, TypeOK, LinkExclusive
<1>3. ParentBelow' /\ ListsAgree' /\ MemoryInv'
  BY <1>1 DEF IndInv, ParentBelow, ListsAgree, MemoryInv, Born
<1>4. \A t \in Thread : FindInv(t)' /\ FuseInv(t)' /\ WalkInv(t)'
  BY <1>1 DEF IndInv, FindInv, FuseInv, WalkInv, Born
<1> QED BY <1>2, <1>3, <1>4 DEF IndInv

(* IndInv is inductive, and no step undoes what OneWay says is final.      *)
LEMMA NextInd == IndInv /\ [Next]_vars => IndInv' /\ [Monotone]_vars
<1> SUFFICES ASSUME IndInv, [Next]_vars PROVE IndInv' /\ [Monotone]_vars
  OBVIOUS
<1>1. CASE UNCHANGED vars
  BY <1>1, StutterInd
<1>2. CASE Next
  BY <1>2, StepInd, CreateInd DEF Next
<1> QED BY <1>1, <1>2

-----------------------------------------------------------------------------
(* The theorems.                                                           *)

(* The inductive invariant holds whatever arenas are created, however many *)
(* threads call upb_Arena_Fuse, Free, IncRefFor, IsFused, SpaceAllocated   *)
(* and DebugRefCount on them, and however their atomic accesses interleave.*)
THEOREM Inductive == Spec => []IndInv
<1>1. Init => IndInv
  BY InitInd
<1>2. IndInv /\ [Next]_vars => IndInv'
  BY NextInd
<1> QED BY <1>1, <1>2, PTL DEF Spec

(* Every word of an arena and every frame of a call has its type; no call  *)
(* ever follows a pointer to something that is not an arena.               *)
THEOREM TypeCorrect == Spec => []TypeOK
<1>1. IndInv => TypeOK
  BY DEF IndInv
<1> QED BY <1>1, Inductive, PTL

(* Racing fuses and path splits of FindRoot never make a cycle of parents: *)
(* a parent always has the lower address.                                  *)
THEOREM Acyclic == Spec => []ParentBelow
<1>1. IndInv => ParentBelow
  BY DEF IndInv
<1> QED BY <1>1, Inductive, PTL

(* The assertions in FindRoot and in TailFromTagged never fail.            *)
THEOREM AssertionsNeverFail == Spec => []AssertsHold
<1>1. IndInv => AssertsHold
  <2> SUFFICES ASSUME IndInv, NEW t \in Thread
               PROVE  /\ pc[t] = "fr_next"  => /\ IsTaggedPointer(find[t].poc)
                                               /\ find[t].ai # find[t].poc.val
                      /\ pc[t] = "fr_split" => find[t].ai # find[t].poc.val
                      /\ pc[t] = "ut_child" => IsTaggedTail(previous_or_tail[roots[t].r2])
    BY DEF AssertsHold
  <2>1. FindInv(t) /\ FuseInv(t)
    BY DEF IndInv
  <2>2. ASSUME pc[t] = "fr_next"
        PROVE  IsTaggedPointer(find[t].poc) /\ find[t].ai # find[t].poc.val
    <3>1. /\ IsTaggedPointer(find[t].poc) /\ find[t].ai \in Born
          /\ find[t].poc.val \in Born /\ find[t].poc.val < find[t].ai
      BY <2>1, <2>2 DEF FindInv, Finding
    <3> QED BY <3>1, ArenasAreNumbers
  <2>3. ASSUME pc[t] = "fr_split" PROVE find[t].ai # find[t].poc.val
    <3>1. /\ {find[t].ai, find[t].nxt, find[t].poc.val} \subseteq Born
          /\ find[t].poc.val < find[t].nxt /\ find[t].nxt < find[t].ai
      BY <2>1, <2>3 DEF FindInv, Finding
    <3> QED BY <3>1, ArenasAreNumbers
  <2>4. pc[t] = "ut_child" => IsTaggedTail(previous_or_tail[roots[t].r2])
    BY <2>1 DEF FuseInv, Linking
  <2> QED BY <2>2, <2>3, <2>4
<1> QED BY <1>1, Inductive, PTL

(* Only one thread links a given child, and it is the child's predecessor  *)
(* that it will store in the child: what LinkBackward relies on to store   *)
(* without a compare-and-swap.                                             *)
THEOREM OneLinker == Spec => []LinkExclusive
<1>1. IndInv => LinkExclusive
  BY DEF IndInv
<1> QED BY <1>1, Inductive, PTL

(* The list that DoFree and SpaceAllocated walk is never knotted: each     *)
(* arena has one predecessor at most, a root has none, and the backward    *)
(* pointers retrace the forward ones.                                      *)
THEOREM ListsSound == Spec => []ListsAgree
<1>1. IndInv => ListsAgree
  BY DEF IndInv
<1> QED BY <1>1, Inductive, PTL

(* Nothing is undone: a child never becomes a root again, and no link of   *)
(* the list, once made, is overwritten.                                    *)
THEOREM NeverUndone == Spec => OneWay
<1>1. Monotone => \A a \in Arena :
         /\ IsTaggedPointer(parent_or_count[a]) => IsTaggedPointer(parent_or_count'[a])
         /\ next[a] # NULL => next'[a] = next[a]
         /\ IsTaggedPrevious(previous_or_tail[a]) => previous_or_tail'[a] = previous_or_tail[a]
  BY DEF Monotone
<1>2. IndInv /\ [Next]_vars =>
       [\A a \in Arena :
         /\ IsTaggedPointer(parent_or_count[a]) => IsTaggedPointer(parent_or_count'[a])
         /\ next[a] # NULL => next'[a] = next[a]
         /\ IsTaggedPrevious(previous_or_tail[a]) =>
              previous_or_tail'[a] = previous_or_tail[a]]_vars
  BY <1>1, NextInd
<1> QED BY <1>2, Inductive, PTL DEF Spec, OneWay

=============================================================================

--------------------------- MODULE ArenaRefProofs ---------------------------
(***************************************************************************)
(* Proofs about the reference counts of the groups: what the count of a    *)
(* root stands for, that memory is given back once and by one thread, and  *)
(* that nobody touches it afterwards.                                      *)
(***************************************************************************)
EXTENDS ArenaGroupProofs

-----------------------------------------------------------------------------
(* What a thread stands for in the accounts of the groups.                 *)

\* Inside a call that relies on a reference to each of its arguments.
Uses(t) == pc[t] # "idle" /\ call[t].op # "Free"

\* Has given up a reference that the count still contains.
Frees(t) == pc[t] \in {"free_load", "free_cas"}

\* Has found the count 1 and gives the group's memory back.
Reclaims(t) == pc[t] \in {"df_next", "df_blocks"}

\* The references a Fuse has lent to roots and not yet taken back.
Owed(t) ==
  IF call[t].op = "Fuse" /\ pc[t] \notin {"idle", "ret"}
  THEN fuse[t].delta + (IF pc[t] = "cas_r2" THEN roots[t].n2 ELSE 0)
  ELSE 0

\* The group of root r is being, or has been, given back.
Dead(r) == status[r] = "freed" \/ \E t \in Thread : Reclaims(t) /\ RootOf[call[t].a] = r

\* A root whose count is in use.
Counted(r) == status[r] = "live" /\ RootOf[r] = r /\ ~Dead(r)

-----------------------------------------------------------------------------
(* The inductive invariant.                                                *)

\* Nobody holds, or is about to count down, a reference to a dead group, and
\* one thread gives it back.
DeadInv ==
  /\ \A a \in Arena : Dead(RootOf[a]) => refs[a] = 0
  /\ \A t \in Thread : Frees(t) => ~Dead(RootOf[call[t].a])
  /\ \A a \in Arena : status[a] = "freed" => status[RootOf[a]] = "freed"
  /\ \A a \in Arena : refs[a] >= 0 /\ (status[a] = "unborn" => refs[a] = 0)
  /\ \A t, u \in Thread : (Reclaims(t) /\ Reclaims(u) /\ Fused(call[t].a, call[u].a)) => t = u

HoldInv(t) == Uses(t) => refs[call[t].a] > 0 /\ refs[call[t].b] > 0

\* The counts a Fuse or a Free works with are counts of references.
CountInv(t) ==
  /\ (call[t].op = "Fuse" /\ pc[t] # "ret") => fuse[t].delta \in Nat
  /\ (pc[t] \in Finding /\ find[t].ret = "fuse2") => roots[t].n1 \in Nat
  /\ pc[t] \in {"cas_r1", "cas_r2"} => roots[t].n1 \in Nat /\ roots[t].n2 \in Nat
  /\ pc[t] = "free_cas" => walk[t].n # 1

\* DoFree goes through the list: what it has given back precedes what it has
\* not.
ReclaimInv(t) ==
  Reclaims(t) =>
    /\ status[walk[t].ai] = "live"
    /\ \/ walk[t].ai = RootOf[call[t].a]
       \/ \E p \in Arena : status[p] = "freed" /\ next[p] = walk[t].ai
    /\ pc[t] = "df_blocks" => walk[t].other = next[walk[t].ai]

FreedInv ==
  \A b \in Arena : (status[b] = "freed" /\ RootOf[b] # b) =>
    \E p \in Arena : status[p] = "freed" /\ next[p] = b

CountPos == \A r \in Arena : Counted(r) => parent_or_count[r].val >= 1

\* What the count of root r stands for: the references callers hold on the
\* group, the Frees that have not decremented yet, and what Fuses have lent.
\* The k-th reference lent by t was lent to the arena loc[<<t, k>>].
RefsOn(r)      == {x \in Arena \X Nat : x[2] \in 1 .. refs[x[1]] /\ RootOf[x[1]] = r}
FreesOn(r)     == {t \in Thread : Frees(t) /\ RootOf[call[t].a] = r}
LentTo(loc, r) == {x \in Thread \X Nat : x[2] \in 1 .. Owed(x[1]) /\ RootOf[loc[x]] = r}

Balanced(loc, r) ==
  /\ IsFiniteSet(RefsOn(r)) /\ IsFiniteSet(FreesOn(r)) /\ IsFiniteSet(LentTo(loc, r))
  /\ parent_or_count[r].val =
       Cardinality(RefsOn(r)) + Cardinality(FreesOn(r)) + Cardinality(LentTo(loc, r))

LoanInv(loc, t) ==
  /\ \A k \in 1 .. Owed(t) :
       /\ loc[<<t, k>>] \in Arena
       /\ Fused(loc[<<t, k>>], call[t].a) \/ Fused(loc[<<t, k>>], call[t].b)
  /\ pc[t] = "cas_r2" =>
       \A k \in (fuse[t].delta + 1) .. Owed(t) : Fused(loc[<<t, k>>], roots[t].r1)

AccountInv(loc) ==
  /\ \A r \in Arena : Counted(r) => Balanced(loc, r)
  /\ \A t \in Thread : LoanInv(loc, t)

RefInv ==
  /\ DeadInv /\ FreedInv /\ CountPos
  /\ \A t \in Thread : HoldInv(t) /\ CountInv(t) /\ ReclaimInv(t)
  /\ \E loc : AccountInv(loc)

\* The invariants proved before.
Base == IndInv /\ GroupInv /\ InitialInv

-----------------------------------------------------------------------------
(* Groups in use are not dead.                                             *)

(* Roots are roots.                                                        *)
LEMMA RootFacts ==
  ASSUME Base
  PROVE  /\ \A a \in Arena : RootOf[a] \in Arena /\ RootOf[RootOf[a]] = RootOf[a]
         /\ \A a \in Arena : RootOf[a] = a <=> IsTaggedRefcount(parent_or_count[a])
         /\ \A a \in Arena : RootOf[a] = a <=> ~IsTaggedPointer(parent_or_count[a])
         /\ \A a \in Born : RootOf[a] \in Born
         /\ \A a \in Born : status[a] # "freed" => status[a] = "live"
<1>1. TypeOK /\ ParentBelow /\ RootInv /\ InitialInv
  BY DEF Base, IndInv, GroupInv
<1>2. \A a \in Arena : IsTaggedRefcount(parent_or_count[a]) <=> ~IsTaggedPointer(parent_or_count[a])
  BY <1>1, WordCases DEF TypeOK
<1>3. \A a \in Arena : RootOf[a] \in Arena /\ (~IsTaggedPointer(parent_or_count[a]) => RootOf[a] = a)
  BY <1>1 DEF RootInv
<1>4. \A a \in Arena : RootOf[a] = a => IsTaggedRefcount(parent_or_count[a])
  BY <1>1 DEF RootInv
<1>5. \A a \in Arena : IsTaggedRefcount(parent_or_count[RootOf[a]])
  BY <1>1 DEF RootInv
<1>6. \A a \in Born : RootOf[a] \in Born
  BY <1>1, Pointers DEF InitialInv
<1>7. \A a \in Born : status[a] # "freed" => status[a] = "live"
  BY <1>1 DEF Born, TypeOK
<1> QED BY <1>2, <1>3, <1>4, <1>5, <1>6, <1>7

(* A group with a reference is counted, and all its memory is there.       *)
LEMMA HeldIsCounted ==
  ASSUME Base, DeadInv, NEW x \in Arena, NEW a \in Born, RootOf[x] = RootOf[a],
         refs[a] > 0 \/ ~Dead(RootOf[a])
  PROVE  Counted(RootOf[x]) /\ ~Dead(RootOf[x]) /\ (x \in Born => status[x] = "live")
<1>1. a \in Arena /\ RootOf[a] \in Born /\ RootOf[RootOf[x]] = RootOf[x] /\ refs[a] \in Int
  BY RootFacts, Pointers DEF Base, IndInv, TypeOK
<1>2. ~Dead(RootOf[x])
  BY <1>1 DEF DeadInv
<1>3. status[RootOf[x]] # "freed"
  BY <1>2 DEF Dead
<1>4. status[RootOf[x]] = "live"
  BY <1>1, <1>3, RootFacts
<1>5. status[x] # "freed"
  BY <1>3 DEF DeadInv
<1> QED BY <1>1, <1>2, <1>4, <1>5, RootFacts DEF Counted

(* In particular the groups of the arguments of a call,                    *)
LEMMA UsedIsCounted ==
  ASSUME Base, RefInv, NEW t \in Thread, Uses(t), NEW x \in Arena,
         RootOf[x] = RootOf[call[t].a] \/ RootOf[x] = RootOf[call[t].b]
  PROVE  Counted(RootOf[x]) /\ ~Dead(RootOf[x]) /\ (x \in Born => status[x] = "live")
<1>1. call[t].a \in Born /\ call[t].b \in Born
  BY DEF Uses, Base, GroupInv, ThreadGroup, CallInv
<1>2. refs[call[t].a] > 0 /\ refs[call[t].b] > 0 /\ DeadInv
  BY DEF RefInv, HoldInv
<1> QED BY <1>1, <1>2, HeldIsCounted

(* and the group of a Free that has not decremented yet.                   *)
LEMMA FreedIsCounted ==
  ASSUME Base, RefInv, NEW t \in Thread, Frees(t), NEW x \in Arena, RootOf[x] = RootOf[call[t].a]
  PROVE  Counted(RootOf[x]) /\ ~Dead(RootOf[x]) /\ (x \in Born => status[x] = "live")
<1>1. call[t].a \in Born
  BY DEF Frees, Base, GroupInv, ThreadGroup, CallInv
<1>2. ~Dead(RootOf[call[t].a]) /\ DeadInv
  BY DEF RefInv, DeadInv
<1> QED BY <1>1, <1>2, HeldIsCounted

-----------------------------------------------------------------------------
(* The kinds of steps, for the accounts.                                   *)

\* What a thread stands for stays as it is.
Unaltered(t) ==
  /\ Frees(t)' <=> Frees(t)
  /\ Reclaims(t)' <=> Reclaims(t)
  /\ Owed(t)' = Owed(t)
  /\ (Frees(t) \/ Reclaims(t) \/ Owed(t) # 0) => call'[t].a = call[t].a /\ call'[t].b = call[t].b
  /\ Uses(t)' => \/ Uses(t) /\ call'[t].a = call[t].a /\ call'[t].b = call[t].b
                 \/ CanUse(call'[t].a) /\ CanUse(call'[t].b)
  /\ pc'[t] # "cas_r2"

\* The counts of the roots, and what they stand for, stay.
Quiet(t) ==
  /\ UNCHANGED <<status, refs>> /\ RootOf' = RootOf
  /\ \A r \in Arena : RootOf[r] = r => parent_or_count'[r] = parent_or_count[r]
  /\ Unaltered(t)

\* Fuse lends r2's references to r1.
Lend(t) ==
  LET r == roots[t] IN
  /\ pc[t] = "cas_r1" /\ pc'[t] = "cas_r2"
  /\ parent_or_count[r.r1] = TaggedFromRefcount(r.n1)
  /\ parent_or_count' = [parent_or_count EXCEPT ![r.r1] = TaggedFromRefcount(r.n1 + r.n2)]
  /\ UNCHANGED <<status, refs, call, fuse, roots>> /\ RootOf' = RootOf

\* FixupRefs takes back what was lent.
Repay(t) ==
  LET r == roots[t] IN
  /\ pc[t] = "fx_cas" /\ pc'[t] = "ret"
  /\ parent_or_count[r.r1] = TaggedFromRefcount(r.n1)
  /\ parent_or_count' = [parent_or_count EXCEPT
                           ![r.r1] = TaggedFromRefcount(r.n1 - fuse[t].delta)]
  /\ call'[t].op = call[t].op /\ call'[t].a = call[t].a /\ call'[t].b = call[t].b
  /\ UNCHANGED <<status, refs>> /\ RootOf' = RootOf

\* IncRefFor counts a new reference.
Gain(t) ==
  LET w == walk[t] IN
  /\ pc[t] = "inc_cas" /\ pc'[t] = "ret"
  /\ parent_or_count[w.ai] = TaggedFromRefcount(w.n)
  /\ parent_or_count' = [parent_or_count EXCEPT ![w.ai] = TaggedFromRefcount(w.n + 1)]
  /\ refs' = [refs EXCEPT ![call[t].a] = @ + 1]
  /\ call'[t].op = call[t].op /\ call'[t].a = call[t].a /\ call'[t].b = call[t].b
  /\ UNCHANGED status /\ RootOf' = RootOf

\* Free is called with a reference of its caller.
Release(t) ==
  \E a \in Arena :
    /\ pc[t] = "idle" /\ pc'[t] = "free_load"
    /\ CanRelease(a)
    /\ refs' = [refs EXCEPT ![a] = @ - 1]
    /\ call'[t].op = "Free" /\ call'[t].a = a /\ call'[t].b = a
    /\ UNCHANGED <<status, parent_or_count>> /\ RootOf' = RootOf

\* Free decrements the count.
CountDown(t) ==
  LET w == walk[t] IN
  /\ pc[t] = "free_cas" /\ pc'[t] = "ret"
  /\ parent_or_count[w.ai] = TaggedFromRefcount(w.n)
  /\ parent_or_count' = [parent_or_count EXCEPT ![w.ai] = TaggedFromRefcount(w.n - 1)]
  /\ call'[t].op = call[t].op /\ call'[t].a = call[t].a /\ call'[t].b = call[t].b
  /\ UNCHANGED <<status, refs>> /\ RootOf' = RootOf

\* Free finds the last reference.
Last(t) ==
  /\ Frees(t) /\ pc'[t] = "df_next"
  /\ parent_or_count[walk[t].ai] = TaggedFromRefcount(1)
  /\ walk'[t].ai = walk[t].ai
  /\ UNCHANGED <<status, refs, call, parent_or_count, next>> /\ RootOf' = RootOf

\* DoFree gives an arena back.
GiveBack(t) ==
  LET w == walk[t] IN
  /\ pc[t] = "df_blocks"
  /\ status' = [status EXCEPT ![w.ai] = "freed"]
  /\ walk'[t].ai = w.other
  /\ \/ w.other = NULL /\ pc'[t] = "ret"
     \/ w.other # NULL /\ pc'[t] = "df_next"
  /\ call'[t].op = call[t].op /\ call'[t].a = call[t].a /\ call'[t].b = call[t].b
  /\ UNCHANGED <<parent_or_count, refs, next>> /\ RootOf' = RootOf

Kinds(t) ==
  \/ Quiet(t) \/ Lend(t) \/ JoinStep(t) \/ Repay(t) \/ Gain(t) \/ Release(t)
  \/ CountDown(t) \/ Last(t) \/ GiveBack(t)

(* A step inside a call that keeps the sets the thread is in is quiet.     *)
LEMMA QuietStep ==
  ASSUME NEW t \in Thread, UNCHANGED <<status, refs>>, RootOf' = RootOf,
         \A r \in Arena : RootOf[r] = r => parent_or_count'[r] = parent_or_count[r],
         pc[t] # "idle", pc'[t] # "idle", pc'[t] # "cas_r2",
         call'[t].op = call[t].op, call'[t].a = call[t].a, call'[t].b = call[t].b,
         Frees(t)' <=> Frees(t), Reclaims(t)' <=> Reclaims(t), Owed(t)' = Owed(t)
  PROVE  Quiet(t)
  BY DEF Quiet, Unaltered, Uses

(* Steps of calls other than Fuse and Free, and their last ones.           *)
LEMMA NeutralStep ==
  ASSUME NEW t \in Thread, UNCHANGED <<status, refs>>, RootOf' = RootOf,
         \A r \in Arena : RootOf[r] = r => parent_or_count'[r] = parent_or_count[r],
         CallInv(t), CallInv(t)', pc[t] # "idle", pc'[t] # "idle",
         call'[t].op = call[t].op, call'[t].a = call[t].a, call'[t].b = call[t].b,
         call[t].op \notin {"Fuse", "Free"}
  PROVE  Quiet(t)
<1>1. pc'[t] # "cas_r2"
  BY DEF CallInv
<1>2. ~Frees(t) /\ ~Frees(t)' /\ ~Reclaims(t) /\ ~Reclaims(t)'
  BY DEF CallInv, Frees, Reclaims
<1>3. Owed(t) = 0 /\ Owed(t)' = 0
  BY DEF Owed
<1> QED BY <1>1, <1>2, <1>3, QuietStep

(* Steps of a Fuse that do not write a count.                              *)
LEMMA FuseQuiet ==
  ASSUME NEW t \in Thread, UNCHANGED <<status, refs>>, RootOf' = RootOf,
         \A r \in Arena : RootOf[r] = r => parent_or_count'[r] = parent_or_count[r],
         CallInv(t), CallInv(t)', pc[t] \notin {"idle", "ret", "cas_r2"},
         pc'[t] \notin {"idle", "cas_r2"},
         call'[t].op = call[t].op, call'[t].a = call[t].a, call'[t].b = call[t].b,
         call[t].op = "Fuse",
         \/ pc'[t] # "ret" /\ fuse'[t].delta = fuse[t].delta
         \/ pc'[t] = "ret" /\ fuse[t].delta = 0,
         fuse[t].delta \in Int, fuse'[t].delta \in Int
  PROVE  Quiet(t)
<1>1. ~Frees(t) /\ ~Frees(t)' /\ ~Reclaims(t) /\ ~Reclaims(t)'
  BY DEF CallInv, Frees, Reclaims
<1>2. Owed(t)' = Owed(t)
  BY DEF Owed
<1> QED BY <1>1, <1>2, QuietStep

(* Where FindRoot returns to.                                              *)
LEMMA ResumeKinds ==
  ASSUME TypeOK, NEW t \in Thread, NEW root, NEW n, Resume(t, root, n)
  PROVE  /\ pc'[t] \in {"fr_load", "ret", "fx_load", "cas_r1", "inc_cas"}
         /\ find[t].ret \in {"fuse1", "fuse2"} =>
              fuse'[t].delta = fuse[t].delta /\ (pc'[t] = "ret" => fuse[t].delta = 0)
         /\ fuse'[t].delta = fuse[t].delta
<1> USE DEF Goto
<1>1. CASE AfterFuse1(t, root, n)
  BY <1>1, FindRootFacts DEF AfterFuse1
<1>2. CASE AfterFuse2(t, root, n)
  <2>1. CASE EnterFixup(t) /\ UNCHANGED fuse
    BY <2>1, EnterFixupFacts
  <2>2. CASE /\ fuse' = [fuse EXCEPT ![t] = FuseFrame(roots[t].r1, root, @.delta)]
             /\ Goto(t, "cas_r1")
    BY <2>2 DEF TypeOK, FuseFrame
  <2> QED BY <1>2, <2>1, <2>2 DEF AfterFuse2
<1>3. CASE AfterIncRef(t, root, n) \/ AfterDebugRefCount(t, root, n)
  BY <1>3, FinishFacts DEF AfterIncRef, AfterDebugRefCount, TypeOK, fusing
<1>4. CASE AfterIsFusedA(t, root, n) \/ AfterIsFusedB(t, root, n) \/ AfterIsFusedAgain(t, root, n)
  BY <1>4, FinishFacts, FindRootFacts DEF AfterIsFusedA, AfterIsFusedB, AfterIsFusedAgain, fusing
<1> QED BY <1>1, <1>2, <1>3, <1>4 DEF Resume

(* FindRoot writes no count.                                               *)
LEMMA FindKinds ==
  ASSUME Base, GroupInv', RootOf' = RootOf, NEW t \in Thread,
         FindRootLoad(t) \/ FindRootReload(t) \/ FindRootNext(t) \/ FindRootSplit(t)
  PROVE  Quiet(t)
<1>t. TypeOK /\ CallInv(t) /\ CallInv(t)' /\ FindInv(t) /\ Born \subseteq Arena
  BY Pointers DEF Base, IndInv, GroupInv, ThreadGroup
<1>p. pc[t] \in Finding /\ pc[t] \notin {"idle", "ret", "cas_r2"}
  BY DEF FindRootLoad, FindRootReload, FindRootNext, FindRootSplit, Finding
<1>m. /\ UNCHANGED <<status, refs>>
      /\ \A r \in Arena : RootOf[r] = r => parent_or_count'[r] = parent_or_count[r]
  <2>1. CASE FindRootSplit(t)
    <3>1. UNCHANGED <<status, refs>> /\ find[t].ai \in Arena /\ pc[t] = "fr_split"
      BY <2>1, <1>t, <1>p DEF FindRootSplit, FindInv
    <3>2. RootOf[find[t].ai] # find[t].ai
      BY <1>t, <1>p, <3>1, RootFacts DEF FindInv
    <3> QED BY <2>1, <1>t, <3>1, <3>2 DEF FindRootSplit, TypeOK
  <2>2. CASE FindRootLoad(t) \/ FindRootReload(t) \/ FindRootNext(t)
    BY <2>2 DEF FindRootLoad, FindRootReload, FindRootNext, memory
  <2> QED BY <2>1, <2>2
<1>c. /\ pc'[t] \in Finding \cup {"ret", "fx_load", "cas_r1", "inc_cas"}
      /\ call[t].op = "Fuse" => (pc'[t] = "ret" => fuse[t].delta = 0)
      /\ fuse'[t].delta = fuse[t].delta
  <2>1. call[t].op = "Fuse" => find[t].ret \in {"fuse1", "fuse2"}
    BY <1>t, <1>p DEF CallInv
  <2>2. ASSUME NEW root, NEW n, Resume(t, root, n)
        PROVE  /\ pc'[t] \in Finding \cup {"ret", "fx_load", "cas_r1", "inc_cas"}
               /\ call[t].op = "Fuse" => (pc'[t] = "ret" => fuse[t].delta = 0)
               /\ fuse'[t].delta = fuse[t].delta
    BY <1>t, <2>1, <2>2, ResumeKinds DEF Finding
  <2>3. CASE pc'[t] \in Finding /\ UNCHANGED fuse
    BY <2>3 DEF Finding
  <2> QED BY <1>t, <2>2, <2>3 DEF FindRootLoad, FindRootReload, FindRootNext, FindRootSplit, Goto,
             TypeOK, fusing, Finding
<1>a. /\ pc'[t] \notin {"idle", "cas_r2"}
      /\ call'[t].op = call[t].op /\ call'[t].a = call[t].a /\ call'[t].b = call[t].b
  BY <1>t, <1>c, StepArgs DEF Step, Finding
<1>1. CASE call[t].op = "Fuse"
  <2>1. fuse[t].delta \in Int
    BY <1>t DEF TypeOK
  <2> QED BY <1>1, <1>t, <1>p, <1>m, <1>c, <1>a, <2>1, FuseQuiet
<1>2. CASE call[t].op # "Fuse"
  <2>1. call[t].op # "Free"
    BY <1>t, <1>p DEF CallInv
  <2> QED BY <1>2, <1>t, <1>p, <1>m, <1>a, <2>1, NeutralStep
<1> QED BY <1>1, <1>2

(* The second compare-and-swap joins the groups.                           *)
LEMMA CasR2Joins ==
  ASSUME Base, IndInv', NEW t \in Thread, FuseCasR2(t),
         parent_or_count' = [parent_or_count EXCEPT ![roots[t].r2] = TaggedFromPointer(roots[t].r1)],
         parent_or_count[roots[t].r2] = TaggedFromRefcount(roots[t].n2)
  PROVE  JoinStep(t)
<1>t. TypeOK /\ RootInv /\ FuseInv(t) /\ Born \subseteq Arena
  BY Pointers DEF Base, IndInv, GroupInv
<1>1. RootInv' /\ (RootOf' = RootOf \/ JoinStep(t))
  BY StepRoots DEF Step, Base
<1>2. /\ roots[t].r1 \in Arena /\ roots[t].r2 \in Arena /\ roots[t].r1 < roots[t].r2
      /\ roots[t].r1 \in Int /\ roots[t].r2 \in Int
  <2>1. roots[t].r1 \in Arena /\ roots[t].r2 \in Arena /\ roots[t].r1 < roots[t].r2
    BY <1>t DEF FuseCasR2, FuseInv
  <2>2. \A a \in Arena : a \in Int
    BY ArenaAssumption
  <2> QED BY <2>1, <2>2
<1>3. RootOf[roots[t].r2] = roots[t].r2
  <2>1. ~IsTaggedPointer(parent_or_count[roots[t].r2])
    BY DEF IsTaggedPointer, TaggedFromRefcount
  <2> QED BY <1>t, <1>2, <2>1 DEF RootInv
<1>4. IsTaggedPointer(parent_or_count'[roots[t].r2]) /\ parent_or_count'[roots[t].r2].val = roots[t].r1
  BY <1>t, <1>2 DEF TypeOK, IsTaggedPointer, TaggedFromPointer
<1>5. RootOf'[roots[t].r2] = RootOf'[roots[t].r1] /\ RootOf'[roots[t].r1] <= roots[t].r1
  BY <1>1, <1>2, <1>4 DEF RootInv
<1>6. RootOf' # RootOf
  <2> SUFFICES ASSUME RootOf' = RootOf PROVE FALSE
    OBVIOUS
  <2> QED BY <1>2, <1>3, <1>5
<1> QED BY <1>1, <1>6

(* Fuse lends, joins and takes back.                                       *)
LEMMA FuseKinds ==
  ASSUME Base, IndInv', GroupInv', NEW t \in Thread, RootOf' = RootOf,
         \/ FuseCasR1(t) \/ FuseCasR2(t)
         \/ LinkForwardTail(t) \/ LinkForwardNext(t) \/ LinkForwardCas(t)
         \/ UpdateTailLoadChild(t) \/ UpdateTailLoadParent(t) \/ UpdateTailCas(t)
         \/ LinkBackward(t)
         \/ FixupLoad(t) \/ FixupCas(t)
  PROVE  Quiet(t) \/ Lend(t) \/ JoinStep(t) \/ Repay(t)
<1>p. /\ pc[t] \in {"cas_r1", "cas_r2", "fx_load", "fx_cas"} \cup Linking
      /\ pc[t] \notin {"idle", "ret"}
  BY DEF FuseCasR1, FuseCasR2, LinkForwardTail, LinkForwardNext, LinkForwardCas,
     UpdateTailLoadChild, UpdateTailLoadParent, UpdateTailCas, LinkBackward, FixupLoad, FixupCas,
     Linking
<1>t. /\ TypeOK /\ CallInv(t) /\ CallInv(t)' /\ call[t].op = "Fuse"
      /\ fuse[t].delta \in Int /\ roots[t].n2 \in Int
  BY <1>p DEF Base, IndInv, GroupInv, ThreadGroup, CallInv, TypeOK
<1>a. pc'[t] # "idle" => /\ call'[t].op = call[t].op
                         /\ call'[t].a = call[t].a /\ call'[t].b = call[t].b
  BY <1>t, StepArgs DEF Step
<1>m. UNCHANGED <<status, refs>>
  BY DEF FuseCasR1, FuseCasR2, LinkForwardTail, LinkForwardNext, LinkForwardCas,
     UpdateTailLoadChild, UpdateTailLoadParent, UpdateTailCas, LinkBackward, FixupLoad, FixupCas,
     memory
\* Steps that keep delta and write no count.
<1>q. ASSUME pc[t] # "cas_r2", pc'[t] \notin {"idle", "cas_r2"}, UNCHANGED <<parent_or_count, fuse>>,
             pc'[t] = "ret" => fuse[t].delta = 0
      PROVE  Quiet(t)
  BY <1>p, <1>t, <1>a, <1>m, <1>q, FuseQuiet
<1> USE DEF Goto
<1>r. RetryFuse(t) => pc'[t] = "fr_load"
  BY <1>t, FindRootFacts DEF RetryFuse
<1>1. CASE FuseCasR1(t)
  <2>1. CASE RetryFuse(t) /\ UNCHANGED parent_or_count
    BY <1>1, <2>1, <1>q, <1>r DEF FuseCasR1, fusing
  <2>2. CASE /\ parent_or_count[roots[t].r1] = TaggedFromRefcount(roots[t].n1)
             /\ parent_or_count' = [parent_or_count EXCEPT
                                      ![roots[t].r1] = TaggedFromRefcount(roots[t].n1 + roots[t].n2)]
             /\ Goto(t, "cas_r2")
    BY <1>1, <2>2, <1>t DEF FuseCasR1, TypeOK, Lend, fusing
  <2> QED BY <1>1, <2>1, <2>2 DEF FuseCasR1
<1>2. CASE FuseCasR2(t)
  <2>1. CASE /\ parent_or_count[roots[t].r2] = TaggedFromRefcount(roots[t].n2)
             /\ parent_or_count' = [parent_or_count EXCEPT
                                      ![roots[t].r2] = TaggedFromPointer(roots[t].r1)]
    BY <1>2, <2>1, CasR2Joins
  <2>2. CASE /\ fuse' = [fuse EXCEPT ![t] = FuseFrame(@.ai1, @.ai2, @.delta + roots[t].n2)]
             /\ RetryFuse(t)
             /\ UNCHANGED parent_or_count
    <3>1. pc'[t] = "fr_load" /\ pc[t] = "cas_r2" /\ fuse'[t].delta = fuse[t].delta + roots[t].n2
      BY <1>2, <2>2, <1>r, <1>t DEF FuseCasR2, TypeOK, FuseFrame
    <3>2. Owed(t)' = Owed(t)
      BY <1>a, <1>t, <3>1 DEF Owed
    <3>3. ~Frees(t) /\ ~Frees(t)' /\ ~Reclaims(t) /\ ~Reclaims(t)'
      BY <3>1 DEF Frees, Reclaims
    <3> QED BY <1>a, <1>m, <2>2, <3>1, <3>2, <3>3, QuietStep
  <2> QED BY <1>2, <2>1, <2>2 DEF FuseCasR2
<1>3. CASE \/ LinkForwardTail(t) \/ LinkForwardNext(t) \/ LinkForwardCas(t)
           \/ UpdateTailLoadChild(t) \/ UpdateTailLoadParent(t) \/ UpdateTailCas(t)
  <2>1. pc'[t] \in Linking /\ pc[t] # "cas_r2" /\ UNCHANGED <<parent_or_count, fuse>>
    BY <1>3, <1>t DEF LinkForwardTail, LinkForwardNext, LinkForwardCas, UpdateTailLoadChild,
       UpdateTailLoadParent, UpdateTailCas, TypeOK, Linking, memory, fusing
  <2> QED BY <1>q, <2>1 DEF Linking
<1>4. CASE LinkBackward(t)
  <2>1. EnterFixup(t) /\ pc[t] # "cas_r2" /\ UNCHANGED <<parent_or_count, fuse>>
    BY <1>4 DEF LinkBackward, fusing
  <2> QED BY <1>q, <1>t, <2>1, EnterFixupFacts
<1>5. CASE FixupLoad(t)
  BY <1>5, <1>q, <1>r, <1>t DEF FixupLoad, TypeOK, memory
<1>6. CASE FixupCas(t)
  <2>1. CASE RetryFuse(t) /\ UNCHANGED parent_or_count
    BY <1>6, <2>1, <1>q, <1>r DEF FixupCas, fusing
  <2>2. CASE /\ parent_or_count[roots[t].r1] = TaggedFromRefcount(roots[t].n1)
             /\ parent_or_count' = [parent_or_count EXCEPT
                  ![roots[t].r1] = TaggedFromRefcount(roots[t].n1 - fuse[t].delta)]
             /\ Finish(t, TRUE)
    <3>1. pc'[t] = "ret" /\ pc[t] = "fx_cas"
      BY <1>6, <2>2, <1>t, FinishFacts DEF FixupCas
    <3> QED BY <1>a, <1>m, <2>2, <3>1 DEF Repay
  <2> QED BY <1>6, <2>1, <2>2 DEF FixupCas
<1> QED BY <1>1, <1>2, <1>3, <1>4, <1>5, <1>6

(* IncRefFor, SpaceAllocated, Free and DoFree.                             *)
LEMMA WalkKinds ==
  ASSUME Base, GroupInv', RootOf' = RootOf, NEW t \in Thread,
         \/ IncRefCas(t) \/ IncRefCasFails(t)
         \/ SpaceAllocatedBack(t) \/ SpaceAllocatedForward(t)
         \/ FreeLoad(t) \/ FreeCas(t) \/ DoFreeNext(t) \/ DoFreeBlocks(t)
  PROVE  Quiet(t) \/ Gain(t) \/ CountDown(t) \/ Last(t) \/ GiveBack(t)
<1>p. pc[t] \in Walking /\ pc[t] \notin {"idle", "ret"}
  BY DEF IncRefCas, IncRefCasFails, SpaceAllocatedBack, SpaceAllocatedForward, FreeLoad, FreeCas,
     DoFreeNext, DoFreeBlocks, Walking
<1>t. TypeOK /\ CallInv(t) /\ CallInv(t)'
  BY DEF Base, IndInv, GroupInv, ThreadGroup
<1>a. pc'[t] # "idle" => /\ call'[t].op = call[t].op
                         /\ call'[t].a = call[t].a /\ call'[t].b = call[t].b
  BY <1>t, StepArgs DEF Step
<1> USE DEF Goto
<1>1. CASE IncRefCas(t)
  <2>1. pc'[t] = "ret"
    BY <1>1, <1>t, FinishFacts DEF IncRefCas
  <2> QED BY <1>1, <1>a, <2>1 DEF IncRefCas, Gain
<1>2. CASE IncRefCasFails(t) \/ SpaceAllocatedBack(t) \/ SpaceAllocatedForward(t)
  <2>1. call[t].op \notin {"Fuse", "Free"} /\ UNCHANGED <<status, refs, parent_or_count>>
    BY <1>2, <1>t DEF CallInv, IncRefCasFails, SpaceAllocatedBack, SpaceAllocatedForward, memory
  <2>2. pc'[t] # "idle"
    <3>1. CASE IncRefCasFails(t)
      BY <3>1, <1>t, FindRootFacts DEF IncRefCasFails
    <3>2. CASE SpaceAllocatedBack(t)
      BY <3>2, <1>t DEF SpaceAllocatedBack, TypeOK
    <3>3. CASE SpaceAllocatedForward(t)
      BY <3>3, <1>t, FinishFacts DEF SpaceAllocatedForward, TypeOK
    <3> QED BY <1>2, <3>1, <3>2, <3>3
  <2> QED BY <1>p, <1>t, <1>a, <2>1, <2>2, NeutralStep
<1>o. pc[t] \in {"free_load", "free_cas", "df_next", "df_blocks"} => call[t].op = "Free"
  BY <1>t DEF CallInv
<1>d. ASSUME pc[t] \in {"free_load", "free_cas"}, FreeDispatch(t, parent_or_count[walk[t].ai]),
             UNCHANGED <<status, refs, call, parent_or_count, next>>
      PROVE  Quiet(t) \/ Last(t)
  <2>1. CASE /\ parent_or_count[walk[t].ai] = TaggedFromRefcount(1)
             /\ walk' = [walk EXCEPT ![t] = WalkFrame(@.ai, NULL, 1, {})]
             /\ Goto(t, "df_next")
    BY <1>d, <1>t, <2>1 DEF Last, Frees, TypeOK, WalkFrame
  <2>2. CASE pc'[t] \in {"free_load", "free_cas"}
    <3>1. Frees(t) /\ Frees(t)' /\ ~Reclaims(t) /\ ~Reclaims(t)'
      BY <1>d, <2>2 DEF Frees, Reclaims
    <3>2. Owed(t) = 0 /\ Owed(t)' = 0
      BY <1>d, <1>o, <2>2 DEF Owed
    <3> QED BY <1>d, <2>2, <3>1, <3>2, QuietStep
  <2> QED BY <1>d, <1>t, <2>1, <2>2 DEF FreeDispatch, TypeOK
<1>3. CASE FreeLoad(t)
  BY <1>3, <1>d DEF FreeLoad, memory
<1>4. CASE FreeCas(t)
  <2>1. CASE FreeDispatch(t, parent_or_count[walk[t].ai]) /\ UNCHANGED <<parent_or_count, call>>
    BY <1>4, <1>d, <2>1 DEF FreeCas
  <2>2. CASE /\ parent_or_count[walk[t].ai] = TaggedFromRefcount(walk[t].n)
             /\ parent_or_count' = [parent_or_count EXCEPT
                  ![walk[t].ai] = TaggedFromRefcount(walk[t].n - 1)]
             /\ Finish(t, TRUE)
    <3>1. pc'[t] = "ret" /\ pc[t] = "free_cas" /\ UNCHANGED <<status, refs>>
      BY <1>4, <2>2, <1>t, FinishFacts DEF FreeCas
    <3> QED BY <1>a, <2>2, <3>1 DEF CountDown
  <2> QED BY <1>4, <2>1, <2>2 DEF FreeCas
<1>5. CASE DoFreeNext(t)
  <2>1. pc[t] = "df_next" /\ pc'[t] = "df_blocks" /\ UNCHANGED <<status, refs, call, parent_or_count>>
    BY <1>5, <1>t DEF DoFreeNext, TypeOK, memory
  <2>2. ~Frees(t) /\ ~Frees(t)' /\ Reclaims(t) /\ Reclaims(t)'
    BY <2>1 DEF Frees, Reclaims
  <2>3. Owed(t) = 0 /\ Owed(t)' = 0
    BY <1>o, <2>1 DEF Owed
  <2> QED BY <2>1, <2>2, <2>3, QuietStep
<1>6. CASE DoFreeBlocks(t)
  <2>1. /\ pc[t] = "df_blocks" /\ status' = [status EXCEPT ![walk[t].ai] = "freed"]
        /\ walk'[t].ai = walk[t].other /\ UNCHANGED <<parent_or_count, refs, next>>
    BY <1>6, <1>t DEF DoFreeBlocks, TypeOK, WalkFrame
  <2>2. \/ walk[t].other = NULL /\ pc'[t] = "ret"
        \/ walk[t].other # NULL /\ pc'[t] = "df_next"
    BY <1>6, <1>t, FinishFacts DEF DoFreeBlocks, TypeOK
  <2> QED BY <1>a, <2>1, <2>2 DEF GiveBack
<1> QED BY <1>1, <1>2, <1>3, <1>4, <1>5, <1>6

(* Calls rely on references that are there.                                *)
LEMMA CallerKinds ==
  ASSUME Base, RootOf' = RootOf, NEW t \in Thread, Caller(t), CallInv(t)'
  PROVE  Quiet(t) \/ Release(t)
<1>t. TypeOK /\ CallInv(t)
  BY DEF Base, IndInv, GroupInv, ThreadGroup
<1>p. pc[t] = "idle" /\ UNCHANGED <<status, parent_or_count>>
  BY DEF Caller, Fuse, IsFused, Free, IncRefFor, DebugRefCount, SpaceAllocated, StartCall, memory
<1> USE DEF Goto
<1>1. CASE \E a \in Arena : Free(t, a)
  <2>1. PICK a \in Arena : Free(t, a)
    BY <1>1
  <2>2. /\ CanRelease(a) /\ refs' = [refs EXCEPT ![a] = @ - 1] /\ pc'[t] = "free_load"
        /\ call'[t].op = "Free" /\ call'[t].a = a /\ call'[t].b = a
    BY <2>1, <1>t DEF Free, TypeOK, Call
  <2> QED BY <1>p, <2>2 DEF Release
<1>2. CASE ~\E a \in Arena : Free(t, a)
  <2>1. UNCHANGED refs /\ call'[t].op \notin {"Free", "none"}
        /\ CanUse(call'[t].a) /\ CanUse(call'[t].b)
    <3>1. ASSUME NEW a \in Arena, NEW b \in Arena, NEW op \in Ops \ {"Free", "none"}, NEW ans,
                 call' = [call EXCEPT ![t] = Call(op, a, b, ans)], CanUse(a), CanUse(b),
                 UNCHANGED refs
          PROVE  UNCHANGED refs /\ call'[t].op \notin {"Free", "none"}
                 /\ CanUse(call'[t].a) /\ CanUse(call'[t].b)
      BY <3>1, <1>t DEF TypeOK, Call
    <3>2. {"Fuse", "IsFused", "IncRefFor", "DebugRefCount", "SpaceAllocated"} \subseteq Ops \ {"Free", "none"}
      BY DEF Ops
    <3>3. ASSUME NEW a \in Arena, NEW b \in Arena, Fuse(t, a, b)
          PROVE  CanUse(a) /\ CanUse(b) /\ UNCHANGED refs
                 /\ \E ans : call' = [call EXCEPT ![t] = Call("Fuse", a, b, ans)]
      BY <3>3 DEF Fuse
    <3>4. ASSUME NEW a \in Arena, NEW b \in Arena, IsFused(t, a, b)
          PROVE  CanUse(a) /\ CanUse(b) /\ UNCHANGED refs
                 /\ \E ans : call' = [call EXCEPT ![t] = Call("IsFused", a, b, ans)]
      BY <3>4 DEF IsFused
    <3>5. CASE \E a, b \in Arena : Fuse(t, a, b)
      BY <3>1, <3>2, <3>3, <3>5
    <3>6. CASE \E a, b \in Arena : IsFused(t, a, b)
      BY <3>1, <3>2, <3>4, <3>6
    <3>7. CASE \E a \in Arena : IncRefFor(t, a)
      BY <3>1, <3>2, <3>7 DEF IncRefFor
    <3>8. CASE \E a \in Arena : DebugRefCount(t, a)
      BY <3>1, <3>2, <3>8 DEF DebugRefCount
    <3>9. CASE \E a \in Arena : SpaceAllocated(t, a)
      BY <3>1, <3>2, <3>9 DEF SpaceAllocated
    <3> QED BY <1>2, <3>5, <3>6, <3>7, <3>8, <3>9 DEF Caller
  <2>2. pc'[t] \in {"ret", "fr_load", "sa_back"} /\ (call'[t].op = "Fuse" /\ pc'[t] # "ret" => fuse'[t].delta = 0)
    <3>1. CASE \E a, b \in Arena : Fuse(t, a, b)
      <4>1. PICK a \in Arena, b \in Arena : Fuse(t, a, b)
        BY <3>1
      <4>2. CASE Goto(t, "ret")
        BY <4>2, <1>t DEF TypeOK
      <4>3. CASE fuse' = [fuse EXCEPT ![t] = FuseFrame(a, b, 0)] /\ FindRoot(t, a, "fuse1")
        BY <4>3, <1>t, FindRootFacts DEF TypeOK, FuseFrame
      <4> QED BY <4>1, <4>2, <4>3 DEF Fuse
    <3>2. CASE \E a, b \in Arena : IsFused(t, a, b)
      BY <3>2, <1>t, FindRootFacts DEF IsFused, TypeOK, Call
    <3>3. CASE \E a \in Arena : IncRefFor(t, a)
      BY <3>3, <1>t, FindRootFacts DEF IncRefFor, TypeOK, Call
    <3>4. CASE \E a \in Arena : DebugRefCount(t, a)
      BY <3>4, <1>t, FindRootFacts DEF DebugRefCount, TypeOK, Call
    <3>5. CASE \E a \in Arena : SpaceAllocated(t, a)
      BY <3>5, <1>t DEF SpaceAllocated, TypeOK, Call
    <3> QED BY <1>2, <3>1, <3>2, <3>3, <3>4, <3>5 DEF Caller
  <2>3. Owed(t) = 0 /\ Owed(t)' = 0
    BY <1>p, <2>2 DEF Owed
  <2>4. ~Frees(t) /\ ~Frees(t)' /\ ~Reclaims(t) /\ ~Reclaims(t)'
    BY <1>p, <2>2 DEF Frees, Reclaims
  <2> QED BY <1>p, <2>1, <2>2, <2>3, <2>4 DEF Quiet, Unaltered
<1> QED BY <1>1, <1>2

(* Every step is of one kind.                                              *)
LEMMA StepKinds ==
  ASSUME Base, IndInv', GroupInv', NEW t \in Thread, Caller(t) \/ Step(t)
  PROVE  Kinds(t)
<1>1. RootOf' = RootOf \/ JoinStep(t)
  BY StepRoots DEF Base
<1>2. SUFFICES ASSUME RootOf' = RootOf PROVE Kinds(t)
  BY <1>1 DEF Kinds
<1>3. CASE Caller(t)
  BY <1>2, <1>3, CallerKinds DEF GroupInv, ThreadGroup, Kinds
<1>4. CASE FindRootLoad(t) \/ FindRootReload(t) \/ FindRootNext(t) \/ FindRootSplit(t)
  BY <1>2, <1>4, FindKinds DEF Kinds
<1>5. CASE \/ FuseCasR1(t) \/ FuseCasR2(t)
           \/ LinkForwardTail(t) \/ LinkForwardNext(t) \/ LinkForwardCas(t)
           \/ UpdateTailLoadChild(t) \/ UpdateTailLoadParent(t) \/ UpdateTailCas(t)
           \/ LinkBackward(t)
           \/ FixupLoad(t) \/ FixupCas(t)
  BY <1>2, <1>5, FuseKinds DEF Kinds
<1>6. CASE \/ IncRefCas(t) \/ IncRefCasFails(t)
           \/ SpaceAllocatedBack(t) \/ SpaceAllocatedForward(t)
           \/ FreeLoad(t) \/ FreeCas(t) \/ DoFreeNext(t) \/ DoFreeBlocks(t)
  BY <1>2, <1>6, WalkKinds DEF Kinds
<1>7. CASE Return(t)
  <2>1. pc[t] = "ret" /\ pc'[t] = "idle" /\ UNCHANGED <<status, refs, parent_or_count>>
    BY <1>7 DEF Return, Goto, memory, Base, IndInv, TypeOK
  <2>2. Owed(t) = 0 /\ Owed(t)' = 0
    BY <2>1 DEF Owed
  <2>3. ~Frees(t) /\ ~Frees(t)' /\ ~Reclaims(t) /\ ~Reclaims(t)' /\ ~Uses(t)'
    BY <2>1 DEF Frees, Reclaims, Uses
  <2> QED BY <1>2, <2>1, <2>2, <2>3 DEF Quiet, Unaltered, Kinds
<1> QED BY <1>3, <1>4, <1>5, <1>6, <1>7 DEF Step

-----------------------------------------------------------------------------
(* The threads that do not move, and the groups that are joined.           *)

LEMMA OthersStand ==
  ASSUME NEW t \in Thread, OthersKeep(t), NEW u \in Thread \ {t}
  PROVE  /\ Frees(u)' <=> Frees(u)
         /\ Reclaims(u)' <=> Reclaims(u)
         /\ Uses(u)' <=> Uses(u)
         /\ Owed(u)' = Owed(u)
         /\ call'[u].a = call[u].a /\ call'[u].b = call[u].b
  BY DEF OthersKeep, Frees, Reclaims, Uses, Owed

(* The two roots that a Fuse joins are counted.                            *)
LEMMA JoinRoots ==
  ASSUME Base, RefInv, NEW t \in Thread, JoinStep(t)
  PROVE  LET x == RootOf[roots[t].r1]
             y == roots[t].r2 IN
         /\ roots[t].r1 \in Born /\ x \in Arena /\ y \in Arena /\ x # y
         /\ RootOf[y] = y /\ RootOf[x] = x
         /\ Counted(x) /\ Counted(y) /\ ~Dead(x) /\ ~Dead(y)
         /\ \A a \in Arena : RootOf'[a] = IF RootOf[a] = y THEN x ELSE RootOf[a]
         /\ Uses(t) /\ call[t].op = "Fuse"
         /\ \/ x = RootOf[call[t].a] /\ y = RootOf[call[t].b]
            \/ x = RootOf[call[t].b] /\ y = RootOf[call[t].a]
<1>t. TypeOK /\ RootInv /\ FuseInv(t) /\ CallInv(t) /\ FuseGroup(t) /\ Born \subseteq Arena
  BY Pointers DEF Base, IndInv, GroupInv, ThreadGroup
<1>1. /\ pc[t] = "cas_r2" /\ roots[t].r1 \in Born /\ roots[t].r2 \in Born
      /\ roots[t].r1 \in Arena /\ roots[t].r2 \in Arena /\ roots[t].r1 < roots[t].r2
  BY <1>t DEF JoinStep, FuseInv
<1>2. RootOf[roots[t].r2] = roots[t].r2
  BY <1>t, <1>1, JoinFuses
<1>3. Uses(t) /\ call[t].op = "Fuse"
  BY <1>t, <1>1 DEF Uses, CallInv
<1>4. \/ RootOf[roots[t].r1] = RootOf[call[t].a] /\ RootOf[roots[t].r2] = RootOf[call[t].b]
      \/ RootOf[roots[t].r1] = RootOf[call[t].b] /\ RootOf[roots[t].r2] = RootOf[call[t].a]
  BY <1>t, <1>1 DEF FuseGroup, Fused
<1>5. /\ Counted(RootOf[roots[t].r1]) /\ ~Dead(RootOf[roots[t].r1])
      /\ Counted(RootOf[roots[t].r2]) /\ ~Dead(RootOf[roots[t].r2])
  BY <1>1, <1>3, <1>4, UsedIsCounted
<1>6. RootOf[roots[t].r1] \in Arena /\ RootOf[RootOf[roots[t].r1]] = RootOf[roots[t].r1]
  BY <1>1, RootFacts
<1>7. RootOf[roots[t].r1] # roots[t].r2
  <2>1. RootOf[roots[t].r1] <= roots[t].r1
    BY <1>t, <1>1 DEF RootInv
  <2>2. \A a \in Arena : a \in Int
    BY ArenaAssumption
  <2> QED BY <2>1, <2>2, <1>1, <1>6
<1>8. \A a \in Arena : RootOf'[a] = IF RootOf[a] = roots[t].r2 THEN RootOf[roots[t].r1] ELSE RootOf[a]
  BY DEF JoinStep, Joined
<1> QED BY <1>1, <1>2, <1>3, <1>4, <1>5, <1>6, <1>7, <1>8

(* What is dead stays so, if the threads that give groups back do.         *)
LEMMA DeadKept ==
  ASSUME UNCHANGED status, \A u \in Thread : Reclaims(u)' <=> Reclaims(u),
         \A u \in Thread : Reclaims(u) => RootOf'[call'[u].a] = RootOf[call[u].a]
  PROVE  \A r : Dead(r)' <=> Dead(r)
  BY DEF Dead

\* The step changes no group and lets nobody begin or end giving one back.
Settled(t) ==
  /\ UNCHANGED status /\ RootOf' = RootOf
  /\ Reclaims(t)' <=> Reclaims(t)
  /\ Reclaims(t) => call'[t].a = call[t].a

(* Most kinds of steps are of that sort.                                   *)
LEMMA MostSettled ==
  ASSUME NEW t \in Thread,
         Quiet(t) \/ Lend(t) \/ Repay(t) \/ Gain(t) \/ Release(t) \/ CountDown(t)
  PROVE  Settled(t)
<1>1. CASE Quiet(t)
  BY <1>1 DEF Quiet, Unaltered, Settled
<1>2. CASE Lend(t) \/ Repay(t) \/ Gain(t) \/ Release(t) \/ CountDown(t)
  BY <1>2 DEF Lend, Repay, Gain, Release, CountDown, Settled, Reclaims
<1> QED BY <1>1, <1>2

LEMMA SettledDead ==
  ASSUME NEW t \in Thread, OthersKeep(t), Settled(t)
  PROVE  /\ \A r : Dead(r)' <=> Dead(r)
         /\ \A r \in Arena : Counted(r)' <=> Counted(r)
         /\ \A u \in Thread : Reclaims(u)' <=> Reclaims(u)
         /\ \A u \in Thread : Reclaims(u) => call'[u].a = call[u].a
<1>1. \A u \in Thread : /\ Reclaims(u)' <=> Reclaims(u)
                        /\ Reclaims(u) => call'[u].a = call[u].a
  BY OthersStand DEF Settled
<1>2. UNCHANGED status /\ RootOf' = RootOf
  BY DEF Settled
<1>3. \A r : Dead(r)' <=> Dead(r)
  BY <1>1, <1>2, DeadKept
<1> QED BY <1>1, <1>2, <1>3 DEF Counted

(* Joining groups brings nothing dead to life.                             *)
LEMMA JoinDead ==
  ASSUME Base, RefInv, NEW t \in Thread, OthersKeep(t), JoinStep(t)
  PROVE  /\ \A r : Dead(r)' <=> Dead(r)
         /\ \A r \in Arena : Counted(r)' <=> (Counted(r) /\ r # roots[t].r2)
         /\ \A u \in Thread : Reclaims(u)' <=> Reclaims(u)
         /\ UNCHANGED <<status, refs, call>>
<1> DEFINE x == RootOf[roots[t].r1]
           y == roots[t].r2
<1>1. /\ x \in Arena /\ y \in Arena /\ x # y /\ RootOf[y] = y /\ RootOf[x] = x
      /\ ~Dead(x) /\ ~Dead(y)
      /\ \A a \in Arena : RootOf'[a] = IF RootOf[a] = y THEN x ELSE RootOf[a]
  BY JoinRoots
<1> HIDE DEF x
<1>2. UNCHANGED <<status, refs, call>> /\ pc[t] = "cas_r2" /\ pc'[t] = "lf_tail"
  BY DEF JoinStep
<1>3. \A u \in Thread : Reclaims(u)' <=> Reclaims(u)
  BY <1>2, OthersStand DEF Reclaims
<1>4. \A u \in Thread : Reclaims(u) => call[u].a \in Arena
  <2> SUFFICES ASSUME NEW u \in Thread, Reclaims(u) PROVE call[u].a \in Arena
    OBVIOUS
  <2>1. pc[u] # "idle" /\ CallInv(u)
    BY DEF Reclaims, Base, GroupInv, ThreadGroup
  <2> QED BY <2>1, FrameArenas DEF Base
<1>5. \A u \in Thread : Reclaims(u) => RootOf[call[u].a] # y
  BY <1>1 DEF Dead
<1>6. \A u \in Thread : Reclaims(u) => RootOf'[call'[u].a] = RootOf[call[u].a]
  BY <1>1, <1>2, <1>4, <1>5
<1>7. \A r : Dead(r)' <=> Dead(r)
  BY <1>2, <1>3, <1>6, DeadKept
<1>8. \A r \in Arena : RootOf'[r] = r <=> RootOf[r] = r /\ r # y
  BY <1>1
<1>9. \A r \in Arena : Counted(r)' <=> (Counted(r) /\ r # y)
  BY <1>2, <1>7, <1>8 DEF Counted
<1> QED BY <1>2, <1>3, <1>7, <1>9

-----------------------------------------------------------------------------
(* The last reference.                                                     *)

(* A count that Free reads is the count of its group.                      *)
LEMMA FreeRoot ==
  ASSUME Base, RefInv, NEW t \in Thread, Frees(t) \/ pc[t] = "inc_cas",
         NEW n \in Int, parent_or_count[walk[t].ai] = TaggedFromRefcount(n)
  PROVE  /\ walk[t].ai \in Arena /\ walk[t].ai = RootOf[call[t].a] /\ call[t].a \in Born
         /\ RootOf[walk[t].ai] = walk[t].ai
         /\ Counted(walk[t].ai) /\ ~Dead(walk[t].ai)
         /\ parent_or_count[walk[t].ai].val = n
<1>1. /\ CallInv(t) /\ WalkInv(t) /\ WalkGroup(t) /\ Born \subseteq Arena
      /\ pc[t] \in Walking /\ pc[t] # "idle"
  BY Pointers DEF Base, IndInv, GroupInv, ThreadGroup, Frees, Walking
<1>2. walk[t].ai \in Arena /\ call[t].a \in Born /\ call[t].a \in Arena /\ RootOf[walk[t].ai] = RootOf[call[t].a]
  BY <1>1 DEF WalkInv, WalkGroup, CallInv, Fused
<1>3. parent_or_count[walk[t].ai].val = n /\ IsTaggedRefcount(parent_or_count[walk[t].ai])
  BY DEF TaggedFromRefcount, IsTaggedRefcount
<1>4. RootOf[walk[t].ai] = walk[t].ai
  BY <1>2, <1>3, RootFacts
<1>5. Counted(RootOf[walk[t].ai]) /\ ~Dead(RootOf[walk[t].ai])
  <2>1. CASE Frees(t)
    BY <1>2, <2>1, FreedIsCounted
  <2>2. CASE pc[t] = "inc_cas"
    <3>1. Uses(t)
      BY <1>1, <2>2 DEF Uses, CallInv
    <3> QED BY <1>2, <3>1, UsedIsCounted
  <2> QED BY <2>1, <2>2
<1> QED BY <1>2, <1>3, <1>4, <1>5

(* The sets behind a count.                                                *)
LEMMA Balance ==
  ASSUME NEW loc, NEW r, Balanced(loc, r)
  PROVE  /\ Cardinality(RefsOn(r)) \in Nat /\ Cardinality(FreesOn(r)) \in Nat
         /\ Cardinality(LentTo(loc, r)) \in Nat
         /\ Cardinality(RefsOn(r)) = 0 <=> RefsOn(r) = {}
         /\ Cardinality(FreesOn(r)) = 0 <=> FreesOn(r) = {}
         /\ Cardinality(LentTo(loc, r)) = 0 <=> LentTo(loc, r) = {}
         /\ Cardinality(FreesOn(r)) = 1 => \E u : FreesOn(r) = {u}
<1>1. IsFiniteSet(RefsOn(r)) /\ IsFiniteSet(FreesOn(r)) /\ IsFiniteSet(LentTo(loc, r))
  BY DEF Balanced
<1>2. /\ Cardinality(RefsOn(r)) \in Nat /\ Cardinality(FreesOn(r)) \in Nat
      /\ Cardinality(LentTo(loc, r)) \in Nat
  BY <1>1, FS_CardinalityType
<1>3. /\ Cardinality(RefsOn(r)) = 0 <=> RefsOn(r) = {}
      /\ Cardinality(FreesOn(r)) = 0 <=> FreesOn(r) = {}
      /\ Cardinality(LentTo(loc, r)) = 0 <=> LentTo(loc, r) = {}
  BY <1>1, FS_EmptySet
<1>4. Cardinality(FreesOn(r)) = 1 => \E u : FreesOn(r) = {u}
  BY <1>1, FS_Singleton
<1> QED BY <1>2, <1>3, <1>4

(* A Free that finds the count 1 is the last thread with a stake in the    *)
(* group.                                                                  *)
LEMMA LastAlone ==
  ASSUME Base, RefInv, NEW t \in Thread, Last(t)
  PROVE  LET r == RootOf[call[t].a] IN
         /\ r \in Arena /\ r = walk[t].ai /\ status[r] = "live" /\ ~Dead(r)
         /\ RootOf[r] = r /\ call[t].a \in Born
         /\ \A a \in Arena : RootOf[a] = r => refs[a] = 0
         /\ \A u \in Thread : (Frees(u) /\ RootOf[call[u].a] = r) => u = t
<1> DEFINE r == RootOf[call[t].a]
<1>1. /\ Frees(t) /\ r = walk[t].ai /\ r \in Arena /\ Counted(r) /\ ~Dead(r) /\ RootOf[r] = r
      /\ parent_or_count[r].val = 1 /\ call[t].a \in Born
  BY FreeRoot DEF Last
<1>2. PICK loc : AccountInv(loc)
  BY DEF RefInv
<1> HIDE DEF r
<1>3. Balanced(loc, r)
  BY <1>1, <1>2 DEF AccountInv
<1>4. t \in FreesOn(r)
  BY <1>1 DEF FreesOn, r
<1>5. /\ Cardinality(RefsOn(r)) + Cardinality(FreesOn(r)) + Cardinality(LentTo(loc, r)) = 1
      /\ Cardinality(RefsOn(r)) \in Nat /\ Cardinality(FreesOn(r)) \in Nat
      /\ Cardinality(LentTo(loc, r)) \in Nat /\ Cardinality(FreesOn(r)) # 0
  BY <1>1, <1>3, <1>4, Balance DEF Balanced
<1>6. Cardinality(RefsOn(r)) = 0 /\ Cardinality(FreesOn(r)) = 1
  BY <1>5
<1>7. RefsOn(r) = {} /\ FreesOn(r) = {t}
  BY <1>3, <1>4, <1>6, Balance
<1>8. ASSUME NEW a \in Arena, RootOf[a] = r PROVE refs[a] = 0
  <2>1. refs[a] \in Int /\ refs[a] >= 0
    BY DEF Base, IndInv, TypeOK, RefInv, DeadInv
  <2>2. ~(<<a, 1>> \in RefsOn(r))
    BY <1>7
  <2>3. ~(1 \in 1 .. refs[a])
    BY <1>8, <2>2 DEF RefsOn
  <2> QED BY <2>1, <2>3
<1>9. ASSUME NEW u \in Thread, Frees(u), RootOf[call[u].a] = r PROVE u = t
  BY <1>7, <1>9 DEF FreesOn
<1>10. status[r] = "live"
  BY <1>1 DEF Counted
<1> QED BY <1>1, <1>8, <1>9, <1>10 DEF r

-----------------------------------------------------------------------------
(* Dead groups.                                                            *)

(* The group of a last reference dies with it,                             *)
LEMMA LastDead ==
  ASSUME Base, RefInv, NEW t \in Thread, OthersKeep(t), Last(t)
  PROVE  /\ \A r : Dead(r)' <=> (Dead(r) \/ r = RootOf[call[t].a])
         /\ \A r \in Arena : Counted(r)' <=> (Counted(r) /\ r # RootOf[call[t].a])
         /\ \A u \in Thread : Reclaims(u)' <=> (Reclaims(u) \/ u = t)
         /\ \A u \in Thread : Frees(u)' <=> (Frees(u) /\ u # t)
<1>1. UNCHANGED <<status, refs, call>> /\ RootOf' = RootOf /\ pc'[t] = "df_next"
  BY DEF Last
<1>2. \A u \in Thread : Reclaims(u)' <=> (Reclaims(u) \/ u = t)
  BY <1>1, OthersStand DEF Reclaims
<1>3. \A u \in Thread : Frees(u)' <=> (Frees(u) /\ u # t)
  BY <1>1, OthersStand DEF Frees
<1>4. \A r : Dead(r)' <=> (Dead(r) \/ r = RootOf[call[t].a])
  BY <1>1, <1>2 DEF Dead
<1> QED BY <1>1, <1>2, <1>3, <1>4 DEF Counted

(* and what DoFree gives back belongs to it.                               *)
LEMMA GiveBackDead ==
  ASSUME Base, RefInv, NEW t \in Thread, OthersKeep(t), GiveBack(t)
  PROVE  /\ walk[t].ai \in Arena /\ status[walk[t].ai] = "live"
         /\ RootOf[walk[t].ai] = RootOf[call[t].a] /\ call[t].a \in Arena
         /\ \A a \in Arena : status'[a] = IF a = walk[t].ai THEN "freed" ELSE status[a]
         /\ \A a \in Arena : status'[a] = "freed" => status'[RootOf[a]] = "freed"
         /\ \A a \in Arena : Dead(RootOf[a])' <=> Dead(RootOf[a])
         /\ \A u \in Thread : Reclaims(u)' => Reclaims(u)
         /\ \A u \in Thread : Frees(u)' <=> Frees(u)
         /\ \A u \in Thread : call'[u].a = call[u].a
         /\ \A r \in Arena : Counted(r)' <=> Counted(r)
<1> DEFINE w  == walk[t].ai
           r0 == RootOf[call[t].a]
<1>1. /\ pc[t] = "df_blocks" /\ status' = [status EXCEPT ![w] = "freed"]
      /\ UNCHANGED <<refs, next>> /\ RootOf' = RootOf /\ call'[t].a = call[t].a
      /\ pc'[t] = "ret" \/ pc'[t] = "df_next"
  BY DEF GiveBack
<1>2. Reclaims(t) /\ ReclaimInv(t) /\ DeadInv
  BY <1>1 DEF Reclaims, RefInv
<1>3. CallInv(t) /\ WalkInv(t) /\ WalkGroup(t) /\ TypeOK /\ ListInv /\ Born \subseteq Arena
  BY Pointers DEF Base, IndInv, GroupInv, ThreadGroup
<1>4. w \in Arena /\ call[t].a \in Arena /\ RootOf[w] = r0 /\ r0 \in Arena /\ RootOf[r0] = r0
  BY <1>1, <1>3, RootFacts DEF CallInv, WalkInv, WalkGroup, Walking, Fused
<1>5. status[w] = "live"
  BY <1>2 DEF ReclaimInv
<1>6. \A a \in Arena : status'[a] = IF a = w THEN "freed" ELSE status[a]
  BY <1>1, <1>3, <1>4 DEF TypeOK
<1>7. status'[r0] = "freed"
  <2>1. CASE w = r0
    BY <2>1, <1>4, <1>6
  <2>2. CASE w # r0
    <3>1. PICK p \in Arena : status[p] = "freed" /\ next[p] = w
      BY <1>2, <2>2 DEF ReclaimInv
    <3>2. RootOf[p] = r0
      <4>1. w # NULL
        BY <1>4, NullIsNoArena
      <4> QED BY <1>3, <1>4, <3>1, <4>1 DEF ListInv, Fused
    <3>3. status[r0] = "freed"
      BY <1>2, <3>1, <3>2 DEF DeadInv
    <3> QED BY <1>4, <1>6, <3>3
  <2> QED BY <2>1, <2>2
<1>8. \A a \in Arena : status'[a] = "freed" => status'[RootOf[a]] = "freed"
  <2> SUFFICES ASSUME NEW a \in Arena, status'[a] = "freed" PROVE status'[RootOf[a]] = "freed"
    OBVIOUS
  <2>1. CASE a = w
    BY <2>1, <1>4, <1>7
  <2>2. CASE a # w
    <3>1. status[RootOf[a]] = "freed" /\ RootOf[a] \in Arena
      BY <1>2, <1>6, <2>2, RootFacts DEF DeadInv
    <3> QED BY <1>6, <3>1
  <2> QED BY <2>1, <2>2
<1>9. \A u \in Thread : (Reclaims(u)' => Reclaims(u)) /\ (u # t => (Reclaims(u)' <=> Reclaims(u)))
  BY <1>2, OthersStand
<1>10. \A u \in Thread : (Frees(u)' <=> Frees(u)) /\ call'[u].a = call[u].a
  <2>1. ~Frees(t) /\ ~Frees(t)'
    BY <1>1 DEF Frees
  <2> QED BY <1>1, <2>1, OthersStand
<1> HIDE DEF w, r0
<1>11. ASSUME NEW a \in Arena PROVE Dead(RootOf[a])' <=> Dead(RootOf[a])
  <2>0. RootOf[a] \in Arena /\ RootOf[RootOf[a]] = RootOf[a] /\ RootOf'[a] = RootOf[a]
    BY <1>1, RootFacts
  <2>1. CASE RootOf[a] = r0
    <3>1. Dead(r0)
      BY <1>2 DEF Dead, r0
    <3>2. Dead(RootOf[a])'
      BY <1>7, <2>0, <2>1 DEF Dead
    <3> QED BY <2>1, <3>1, <3>2
  <2>2. CASE RootOf[a] # r0
    <3>1. RootOf[a] # w
      BY <2>0, <2>2, <1>4
    <3>2. status'[RootOf[a]] = status[RootOf[a]]
      BY <3>1, <2>0, <1>6
    <3>3. \A u \in Thread : (Reclaims(u)' /\ RootOf[call'[u].a] = RootOf[a])
                              <=> (Reclaims(u) /\ RootOf[call[u].a] = RootOf[a])
      BY <1>9, <1>10, <2>2 DEF r0
    <3> QED BY <1>1, <2>0, <3>2, <3>3 DEF Dead
  <2> QED BY <2>1, <2>2
<1>12. ASSUME NEW r \in Arena PROVE Counted(r)' <=> Counted(r)
  <2>1. CASE RootOf[r] # r
    BY <1>1, <2>1 DEF Counted
  <2>2. CASE RootOf[r] = r
    <3>1. Dead(r)' <=> Dead(r)
      <4>1. Dead(RootOf[r])' <=> Dead(RootOf[r])
        BY <1>11
      <4>2. RootOf'[r] = r
        BY <1>1, <2>2
      <4> QED BY <2>2, <4>1, <4>2
    <3>2. status'[r] = status[r] \/ (Dead(r) /\ Dead(r)')
      <4>1. CASE r = w
        <5>1. Dead(r)
          BY <1>2, <1>4, <2>2, <4>1 DEF Dead, r0
        <5> QED BY <3>1, <5>1
      <4>2. CASE r # w
        BY <1>6, <4>2
      <4> QED BY <4>1, <4>2
    <3> QED BY <1>1, <2>2, <3>1, <3>2 DEF Counted
  <2> QED BY <2>1, <2>2
<1>13. \A u \in Thread : Reclaims(u)' => Reclaims(u)
  BY <1>9
<1> QED BY <1>4, <1>5, <1>6, <1>8, <1>10, <1>11, <1>12, <1>13 DEF w, r0

(* Nobody comes to hold, or to count down, a reference to a dead group.    *)
LEMMA SettledStep ==
  ASSUME Base, RefInv, NEW t \in Thread, OthersKeep(t),
         Quiet(t) \/ Lend(t) \/ Repay(t) \/ Gain(t) \/ Release(t) \/ CountDown(t)
  PROVE  DeadInv'
<1>1. /\ Settled(t) /\ UNCHANGED status /\ RootOf' = RootOf
      /\ \A r : Dead(r)' <=> Dead(r)
      /\ \A u \in Thread : Reclaims(u)' <=> Reclaims(u)
      /\ \A u \in Thread : Reclaims(u) => call'[u].a = call[u].a
  BY MostSettled, SettledDead DEF Settled
<1>2. DeadInv /\ TypeOK /\ CallInv(t) /\ Born \subseteq Arena
  BY Pointers DEF RefInv, Base, IndInv, GroupInv, ThreadGroup
<1>3. \A a \in Arena : /\ Dead(RootOf[a]) => refs'[a] = 0
                       /\ refs'[a] >= 0 /\ (status[a] = "unborn" => refs'[a] = 0)
  <2>1. CASE UNCHANGED refs
    BY <1>2, <2>1 DEF DeadInv
  <2>2. CASE Gain(t)
    <3>1. /\ pc[t] = "inc_cas" /\ refs' = [refs EXCEPT ![call[t].a] = @ + 1]
          /\ parent_or_count[walk[t].ai] = TaggedFromRefcount(walk[t].n) /\ walk[t].n \in Int
      BY <2>2, <1>2 DEF Gain, TypeOK
    <3>2. walk[t].ai = RootOf[call[t].a] /\ ~Dead(walk[t].ai) /\ call[t].a \in Born
      BY <3>1, FreeRoot
    <3>3. status[call[t].a] # "unborn" /\ call[t].a \in Arena
      BY <1>2, <3>2 DEF Born
    <3> QED BY <1>2, <3>1, <3>2, <3>3 DEF DeadInv, TypeOK
  <2>3. CASE Release(t)
    <3>1. PICK a \in Arena : CanRelease(a) /\ refs' = [refs EXCEPT ![a] = @ - 1]
      BY <2>3 DEF Release
    <3>2. status[a] = "live" /\ refs[a] > 0
      BY <3>1 DEF CanRelease, CanUse
    <3>3. ~Dead(RootOf[a])
      BY <1>2, <3>2 DEF DeadInv
    <3> QED BY <1>2, <3>1, <3>2, <3>3 DEF DeadInv, TypeOK
  <2> QED BY <2>1, <2>2, <2>3 DEF Quiet, Lend, Repay, CountDown
<1>4. ASSUME NEW u \in Thread, Frees(u)' PROVE ~Dead(RootOf[call'[u].a])
  <2>1. CASE Frees(u) /\ call'[u].a = call[u].a
    BY <1>2, <2>1 DEF DeadInv
  <2>2. CASE u # t
    BY <1>4, <2>1, <2>2, OthersStand
  <2>3. CASE u = t /\ Quiet(t)
    BY <1>4, <2>1, <2>3 DEF Quiet, Unaltered
  <2>4. CASE u = t /\ Release(t)
    <3>1. PICK a \in Arena : CanRelease(a) /\ call'[t].a = a
      BY <2>4 DEF Release
    <3>2. refs[a] > 0 /\ refs[a] \in Int
      BY <3>1, <1>2 DEF CanRelease, CanUse, TypeOK
    <3> QED BY <1>2, <2>4, <3>1, <3>2 DEF DeadInv
  <2>5. CASE u = t /\ (Lend(t) \/ Repay(t) \/ Gain(t) \/ CountDown(t))
    BY <1>4, <2>5 DEF Frees, Lend, Repay, Gain, CountDown
  <2> QED BY <2>2, <2>3, <2>4, <2>5
<1>5. \A a \in Arena : Dead(RootOf[a])' <=> Dead(RootOf[a])
  BY <1>1
<1>6. \A u \in Thread : Frees(u)' => ~Dead(RootOf[call[u].a])'
  BY <1>1, <1>4
<1>7. \A u, v \in Thread : (Reclaims(u)' /\ Reclaims(v)' /\ RootOf[call'[u].a] = RootOf[call'[v].a]) => u = v
  BY <1>1, <1>2 DEF DeadInv, Fused
<1>8. \A a \in Arena : status'[a] = "freed" => status'[RootOf[a]] = "freed"
  BY <1>1, <1>2 DEF DeadInv
<1> QED BY <1>1, <1>3, <1>5, <1>6, <1>7, <1>8 DEF DeadInv, Fused

LEMMA StepDead ==
  ASSUME Base, RefInv, IndInv', GroupInv', NEW t \in Thread, OthersKeep(t), Kinds(t)
  PROVE  DeadInv'
<1>1. CASE Quiet(t) \/ Lend(t) \/ Repay(t) \/ Gain(t) \/ Release(t) \/ CountDown(t)
  BY <1>1, SettledStep
<1>d. DeadInv
  BY DEF RefInv
<1>2. CASE Last(t)
  <2>1. /\ \A r : Dead(r)' <=> (Dead(r) \/ r = RootOf[call[t].a])
        /\ \A u \in Thread : Reclaims(u)' <=> (Reclaims(u) \/ u = t)
        /\ \A u \in Thread : Frees(u)' <=> (Frees(u) /\ u # t)
    BY <1>2, LastDead
  <2>2. /\ ~Dead(RootOf[call[t].a])
        /\ \A a \in Arena : RootOf[a] = RootOf[call[t].a] => refs[a] = 0
        /\ \A u \in Thread : (Frees(u) /\ RootOf[call[u].a] = RootOf[call[t].a]) => u = t
    BY <1>2, LastAlone
  <2>3. UNCHANGED <<status, refs, call>> /\ RootOf' = RootOf
    BY <1>2 DEF Last
  <2>4. \A a \in Arena : Dead(RootOf[a])' => refs'[a] = 0
    BY <1>d, <2>1, <2>2, <2>3 DEF DeadInv
  <2>5. \A u \in Thread : Frees(u)' => ~Dead(RootOf[call[u].a])'
    BY <1>d, <2>1, <2>2, <2>3 DEF DeadInv
  <2>6. \A u \in Thread : Reclaims(u) => RootOf[call[u].a] # RootOf[call[t].a]
    BY <2>2 DEF Dead
  <2>7. \A u, v \in Thread : (Reclaims(u)' /\ Reclaims(v)' /\ RootOf[call[u].a] = RootOf[call[v].a]) => u = v
    BY <1>d, <2>1, <2>6 DEF DeadInv, Fused
  <2> QED BY <1>d, <2>3, <2>4, <2>5, <2>7 DEF DeadInv, Fused
<1>3. CASE GiveBack(t)
  <2>1. /\ status[walk[t].ai] = "live"
        /\ \A a \in Arena : status'[a] = IF a = walk[t].ai THEN "freed" ELSE status[a]
        /\ \A a \in Arena : status'[a] = "freed" => status'[RootOf[a]] = "freed"
        /\ \A a \in Arena : Dead(RootOf[a])' <=> Dead(RootOf[a])
        /\ \A u \in Thread : Reclaims(u)' => Reclaims(u)
        /\ \A u \in Thread : Frees(u)' <=> Frees(u)
        /\ \A u \in Thread : call'[u].a = call[u].a
    BY <1>3, GiveBackDead
  <2>2. UNCHANGED refs /\ RootOf' = RootOf
    BY <1>3 DEF GiveBack
  <2>3. \A u \in Thread : Frees(u)' => ~Dead(RootOf[call[u].a])'
    <3> SUFFICES ASSUME NEW u \in Thread, Frees(u)' PROVE ~Dead(RootOf[call[u].a])'
      OBVIOUS
    <3>1. Frees(u) /\ pc[u] # "idle" /\ CallInv(u)
      BY <2>1 DEF Frees, Base, GroupInv, ThreadGroup
    <3>2. call[u].a \in Arena /\ ~Dead(RootOf[call[u].a])
      BY <1>d, <3>1, FrameArenas DEF Base, DeadInv
    <3>3. Dead(RootOf[call[u].a])' <=> \/ status'[RootOf[call[u].a]] = "freed"
                                       \/ \E s \in Thread : Reclaims(s)' /\ RootOf[call[s].a] = RootOf[call[u].a]
      BY <2>1, <2>2 DEF Dead
    <3>4. \A a \in Arena : Dead(RootOf[a])' <=> \/ status'[RootOf[a]] = "freed"
                                       \/ \E s \in Thread : Reclaims(s)' /\ RootOf[call[s].a] = RootOf[a]
      BY <2>1, <2>2 DEF Dead
    <3> QED BY <2>1, <3>2, <3>3, <3>4
  <2>4. \A a \in Arena : Dead(RootOf[a])' => refs'[a] = 0
    BY <1>d, <2>1, <2>2 DEF DeadInv
  <2>5. \A u, v \in Thread : (Reclaims(u)' /\ Reclaims(v)' /\ RootOf'[call'[u].a] = RootOf'[call'[v].a]) => u = v
    BY <1>d, <2>1, <2>2 DEF DeadInv, Fused
  <2>6. \A a \in Arena : refs'[a] >= 0 /\ (status'[a] = "unborn" => refs'[a] = 0)
    BY <1>d, <2>1, <2>2 DEF DeadInv
  <2>7. \A a \in Arena : status'[a] = "freed" => status'[RootOf'[a]] = "freed"
    BY <2>1, <2>2
  <2> QED BY <2>3, <2>4, <2>5, <2>6, <2>7 DEF DeadInv, Fused
<1>4. CASE JoinStep(t)
  <2> DEFINE x == RootOf[roots[t].r1]
             y == roots[t].r2
  <2>1. /\ x \in Arena /\ y \in Arena /\ ~Dead(x) /\ ~Dead(y) /\ Counted(y)
        /\ \A a \in Arena : RootOf'[a] = IF RootOf[a] = y THEN x ELSE RootOf[a]
    BY <1>4, JoinRoots
  <2>2. /\ \A r : Dead(r)' <=> Dead(r)
        /\ \A u \in Thread : Reclaims(u)' <=> Reclaims(u)
        /\ UNCHANGED <<status, refs, call>>
    BY <1>4, JoinDead
  <2> HIDE DEF x, y
  <2>3. \A u \in Thread : Frees(u)' <=> Frees(u)
    BY <1>4, OthersStand DEF Frees, JoinStep
  <2>4. \A u \in Thread : (Frees(u) \/ Reclaims(u)) => call[u].a \in Arena
    <3> SUFFICES ASSUME NEW u \in Thread, Frees(u) \/ Reclaims(u) PROVE call[u].a \in Arena
      OBVIOUS
    <3>1. pc[u] # "idle" /\ CallInv(u)
      BY DEF Frees, Reclaims, Base, GroupInv, ThreadGroup
    <3> QED BY <3>1, FrameArenas DEF Base
  <2>5. \A a \in Arena : ~Dead(RootOf[a]) => ~Dead(RootOf'[a])
    BY <2>1
  <2>6. \A u \in Thread : Frees(u) => ~Dead(RootOf'[call[u].a])
    BY <1>d, <2>4, <2>5 DEF DeadInv
  <2>7. \A a \in Arena : Dead(RootOf'[a]) => refs[a] = 0
    BY <1>d, <2>5 DEF DeadInv
  <2>8. \A a \in Arena : status[a] = "freed" => status[RootOf'[a]] = "freed"
    BY <1>d, <2>1 DEF DeadInv, Counted
  <2>9. \A u \in Thread : Reclaims(u) => RootOf[call[u].a] # x /\ RootOf[call[u].a] # y
    BY <2>1 DEF Dead
  <2>10. \A u \in Thread : Reclaims(u) => RootOf'[call[u].a] = RootOf[call[u].a]
    BY <2>1, <2>4, <2>9
  <2>11. \A u, v \in Thread : (Reclaims(u) /\ Reclaims(v) /\ RootOf'[call[u].a] = RootOf'[call[v].a]) => u = v
    BY <1>d, <2>10 DEF DeadInv, Fused
  <2>12. \A a \in Arena : Dead(RootOf[a])' => refs'[a] = 0
    BY <2>2, <2>7
  <2>13. \A u \in Thread : Frees(u)' => ~Dead(RootOf[call[u].a])'
    BY <2>2, <2>3, <2>6
  <2>14. \A a \in Arena : status'[a] = "freed" => status'[RootOf'[a]] = "freed"
    BY <2>2, <2>8
  <2>15. \A a \in Arena : refs'[a] >= 0 /\ (status'[a] = "unborn" => refs'[a] = 0)
    BY <1>d, <2>2 DEF DeadInv
  <2>16. \A u, v \in Thread : (Reclaims(u)' /\ Reclaims(v)' /\ RootOf'[call'[u].a] = RootOf'[call'[v].a]) => u = v
    BY <2>2, <2>11
  <2> QED BY <2>12, <2>13, <2>14, <2>15, <2>16 DEF DeadInv, Fused
<1> QED BY <1>1, <1>2, <1>3, <1>4 DEF Kinds

-----------------------------------------------------------------------------
(* References that calls rely on.                                          *)

(* No call loses them: Free is not called with the last one of an arena    *)
(* that another call uses.                                                 *)
LEMMA StepHold ==
  ASSUME Base, RefInv, NEW t \in Thread, OthersKeep(t), Kinds(t), NEW u \in Thread
  PROVE  HoldInv(u)'
<1>1. SUFFICES ASSUME Uses(u)' PROVE refs'[call'[u].a] > 0 /\ refs'[call'[u].b] > 0
  BY DEF HoldInv
<1>2. TypeOK /\ HoldInv(u) /\ CallInv(u) /\ Born \subseteq Arena
  BY Pointers DEF RefInv, Base, IndInv, GroupInv, ThreadGroup
<1>3. \/ Uses(u) /\ call'[u].a = call[u].a /\ call'[u].b = call[u].b
      \/ UNCHANGED refs /\ CanUse(call'[u].a) /\ CanUse(call'[u].b)
  <2>1. CASE u # t
    BY <1>1, <2>1, OthersStand
  <2>2. CASE u = t /\ Quiet(t)
    BY <1>1, <2>2 DEF Quiet, Unaltered
  <2>3. CASE u = t /\ (Lend(t) \/ JoinStep(t))
    BY <1>1, <2>3 DEF Lend, JoinStep, Uses
  <2>4. CASE u = t /\ (Repay(t) \/ Gain(t) \/ Release(t) \/ CountDown(t) \/ GiveBack(t))
    BY <1>1, <2>4 DEF Repay, Gain, Release, CountDown, GiveBack, Uses
  <2>5. CASE u = t /\ Last(t)
    BY <1>1, <2>5 DEF Last, Uses, Frees
  <2> QED BY <2>1, <2>2, <2>3, <2>4, <2>5 DEF Kinds
<1>4. CASE UNCHANGED refs /\ CanUse(call'[u].a) /\ CanUse(call'[u].b)
  BY <1>4 DEF CanUse
<1>5. CASE Uses(u) /\ call'[u].a = call[u].a /\ call'[u].b = call[u].b
  <2>1. refs[call[u].a] > 0 /\ refs[call[u].b] > 0 /\ call[u].a \in Arena /\ call[u].b \in Arena
    BY <1>2, <1>5 DEF HoldInv, CallInv, Uses
  <2>2. CASE UNCHANGED refs
    BY <1>5, <2>1, <2>2
  <2>3. CASE Gain(t)
    BY <1>2, <1>5, <2>1, <2>3 DEF Gain, TypeOK
  <2>4. CASE Release(t)
    <3>1. PICK a \in Arena : CanRelease(a) /\ refs' = [refs EXCEPT ![a] = @ - 1]
      BY <2>4 DEF Release
    <3>2. a \in {call[u].a, call[u].b} => refs[a] > 1
      BY <1>5, <3>1 DEF Uses, Borrowers, CanRelease
    <3> QED BY <1>2, <1>5, <2>1, <3>1, <3>2 DEF TypeOK
  <2> QED BY <2>2, <2>3, <2>4 DEF Kinds, Quiet, Lend, JoinStep, Repay, CountDown, Last, GiveBack
<1> QED BY <1>3, <1>4, <1>5

-----------------------------------------------------------------------------
(* Giving back.                                                            *)

(* DoFree has two labels.                                                  *)
LEMMA AtDoFree ==
  ASSUME NEW t \in Thread, Caller(t) \/ Step(t), Reclaims(t)
  PROVE  \/ pc[t] = "df_next" /\ DoFreeNext(t)
         \/ pc[t] = "df_blocks" /\ DoFreeBlocks(t)
<1>1. ~Caller(t)
  BY DEF Caller, Fuse, IsFused, Free, IncRefFor, DebugRefCount, SpaceAllocated, StartCall, Reclaims
<1>2. ~(FindRootLoad(t) \/ FindRootReload(t) \/ FindRootNext(t) \/ FindRootSplit(t))
  BY DEF FindRootLoad, FindRootReload, FindRootNext, FindRootSplit, Reclaims
<1>3. ~(FuseCasR1(t) \/ FuseCasR2(t) \/ LinkForwardTail(t) \/ LinkForwardNext(t) \/ LinkForwardCas(t))
  BY DEF FuseCasR1, FuseCasR2, LinkForwardTail, LinkForwardNext, LinkForwardCas, Reclaims
<1>4. ~(\/ UpdateTailLoadChild(t) \/ UpdateTailLoadParent(t) \/ UpdateTailCas(t) \/ LinkBackward(t)
        \/ FixupLoad(t) \/ FixupCas(t))
  BY DEF UpdateTailLoadChild, UpdateTailLoadParent, UpdateTailCas, LinkBackward, FixupLoad, FixupCas,
     Reclaims
<1>5. ~(\/ IncRefCas(t) \/ IncRefCasFails(t) \/ SpaceAllocatedBack(t) \/ SpaceAllocatedForward(t)
        \/ FreeLoad(t) \/ FreeCas(t) \/ Return(t))
  BY DEF IncRefCas, IncRefCasFails, SpaceAllocatedBack, SpaceAllocatedForward, FreeLoad, FreeCas,
     Return, Reclaims
<1>6. DoFreeNext(t) \/ DoFreeBlocks(t)
  BY <1>1, <1>2, <1>3, <1>4, <1>5 DEF Step
<1>7. DoFreeNext(t) => pc[t] = "df_next"
  BY DEF DoFreeNext
<1>8. DoFreeBlocks(t) => pc[t] = "df_blocks"
  BY DEF DoFreeBlocks
<1> QED BY <1>6, <1>7, <1>8

(* Only a Fuse appends, to the list of a group in use.                     *)
LEMMA AppendInUse ==
  ASSUME Base, RefInv, NEW t \in Thread, Caller(t) \/ Step(t), NEW a \in Arena
  PROVE  next'[a] = next[a] \/ (next[a] = NULL /\ ~Dead(RootOf[a]))
<1>1. CASE LinkForwardCas(t)
  <2>1. /\ pc[t] = "lf_cas" /\ TypeOK
        /\ \/ UNCHANGED next
           \/ next[link[t].tail] = NULL /\ next' = [next EXCEPT ![link[t].tail] = roots[t].r2]
    BY <1>1 DEF LinkForwardCas, Base, IndInv
  <2>2. CallInv(t) /\ FuseGroup(t) /\ call[t].op = "Fuse" /\ pc[t] \in Linking \ {"lf_tail"}
    BY <2>1 DEF Base, GroupInv, ThreadGroup, CallInv, Linking
  <2>3. link[t].tail \in Arena /\ RootOf[link[t].tail] = RootOf[call[t].a]
    BY <2>2, FrameArenas DEF FuseGroup, Fused, Base
  <2>4. Uses(t)
    BY <2>1, <2>2 DEF Uses
  <2>5. ~Dead(RootOf[link[t].tail])
    BY <2>3, <2>4, UsedIsCounted
  <2> QED BY <2>1, <2>5 DEF TypeOK
<1>2. CASE ~LinkForwardCas(t)
  <2>1. UNCHANGED next
    BY <1>2 DEF Step, Caller, Fuse, IsFused, Free, IncRefFor, DebugRefCount, SpaceAllocated,
       FindRootLoad, FindRootReload, FindRootNext, FindRootSplit,
       FuseCasR1, FuseCasR2, LinkForwardTail, LinkForwardNext,
       UpdateTailLoadChild, UpdateTailLoadParent, UpdateTailCas, LinkBackward, FixupLoad, FixupCas,
       IncRefCas, IncRefCasFails, SpaceAllocatedBack, SpaceAllocatedForward,
       FreeLoad, FreeCas, DoFreeNext, DoFreeBlocks, Return, memory
  <2> QED BY <2>1
<1> QED BY <1>1, <1>2

(* What follows a live arena that is being given back is live.             *)
LEMMA SuccessorLive ==
  ASSUME Base, RefInv, NEW t \in Thread, pc[t] = "df_blocks", walk[t].other # NULL
  PROVE  /\ walk[t].other \in Arena /\ walk[t].other = next[walk[t].ai] /\ walk[t].ai \in Arena
         /\ walk[t].other # walk[t].ai /\ status[walk[t].other] = "live"
<1> DEFINE w == walk[t].ai
           o == walk[t].other
<1>1. /\ Reclaims(t) /\ ReclaimInv(t) /\ FreedInv /\ WalkInv(t) /\ CallInv(t) /\ WalkGroup(t)
      /\ ListsAgree /\ Born \subseteq Arena /\ TypeOK
  BY Pointers DEF Reclaims, RefInv, Base, IndInv, GroupInv, ThreadGroup
<1>2. /\ w \in Arena /\ o \in Born /\ o \in Arena /\ call[t].a \in Arena
      /\ RootOf[w] = RootOf[call[t].a]
  BY <1>1 DEF WalkInv, CallInv, WalkGroup, Walking, Fused
<1>3. status[w] = "live" /\ next[w] = o
  BY <1>1 DEF ReclaimInv
<1>4. RootOf[o] # o
  BY <1>1, <1>2, <1>3, RootFacts DEF ListsAgree
<1>5. o # w
  <2> SUFFICES ASSUME o = w PROVE FALSE
    OBVIOUS
  <2>1. PICK p \in Arena : status[p] = "freed" /\ next[p] = w
    BY <1>1, <1>2, <1>4 DEF ReclaimInv
  <2>2. p = w
    BY <1>1, <1>2, <1>3, <2>1 DEF ListsAgree
  <2> QED BY <1>3, <2>1, <2>2
<1>6. status[o] # "freed"
  <2> SUFFICES ASSUME status[o] = "freed" PROVE FALSE
    OBVIOUS
  <2>1. PICK p \in Arena : status[p] = "freed" /\ next[p] = o
    BY <1>1, <1>2, <1>4 DEF FreedInv
  <2>2. p = w
    BY <1>1, <1>2, <1>3, <2>1 DEF ListsAgree
  <2> QED BY <1>3, <2>1, <2>2
<1> QED BY <1>2, <1>3, <1>5, <1>6, RootFacts

(* The list is given back from its root on, each arena once.               *)
LEMMA StepReclaim ==
  ASSUME Base, RefInv, NEW t \in Thread, OthersKeep(t), Kinds(t), Caller(t) \/ Step(t),
         NEW u \in Thread
  PROVE  ReclaimInv(u)'
<1>1. SUFFICES ASSUME Reclaims(u)' PROVE ReclaimInv(u)'
  BY DEF ReclaimInv
<1>2. /\ TypeOK /\ CallInv(u) /\ WalkInv(u) /\ WalkGroup(u) /\ ReclaimInv(u) /\ DeadInv
      /\ Born \subseteq Arena
  BY Pointers DEF RefInv, Base, IndInv, GroupInv, ThreadGroup
<1>n. \A a \in Arena : next[a] # NULL => next'[a] = next[a]
  BY AppendInUse
<1>3. CASE u # t
  <2>1. /\ Reclaims(u) /\ walk'[u] = walk[u] /\ pc'[u] = pc[u] /\ call'[u].a = call[u].a
    BY <1>1, <1>3, OthersStand DEF OthersKeep
  <2>2. /\ walk[u].ai \in Arena /\ call[u].a \in Arena /\ RootOf[walk[u].ai] = RootOf[call[u].a]
        /\ walk[u].ai # NULL
    BY <1>2, <2>1, NullIsNoArena DEF CallInv, WalkInv, WalkGroup, Walking, Fused, Reclaims
  <2>3. Dead(RootOf[call[u].a]) /\ Dead(RootOf[walk[u].ai])
    BY <2>1, <2>2 DEF Dead
  <2>4. \A p \in Arena : status[p] = "freed" => status'[p] = "freed"
    BY <1>2 DEF Kinds, Quiet, Lend, JoinStep, Repay, Gain, Release, CountDown, Last, GiveBack, TypeOK
  <2>5. status'[walk[u].ai] = "live"
    <3>1. CASE GiveBack(t)
      <4>1. /\ RootOf[walk[t].ai] = RootOf[call[t].a] /\ call[t].a \in Arena
            /\ \A a \in Arena : status'[a] = IF a = walk[t].ai THEN "freed" ELSE status[a]
        BY <3>1, GiveBackDead
      <4>2. walk[u].ai # walk[t].ai
        <5>1. Reclaims(t)
          BY <3>1 DEF GiveBack, Reclaims
        <5>2. RootOf[call[u].a] # RootOf[call[t].a]
          BY <1>2, <1>3, <2>1, <5>1 DEF DeadInv, Fused
        <5> QED BY <2>2, <4>1, <5>2
      <4> QED BY <1>2, <2>1, <2>2, <4>1, <4>2 DEF ReclaimInv
    <3>2. CASE UNCHANGED status
      BY <1>2, <2>1, <3>2 DEF ReclaimInv
    <3> QED BY <3>1, <3>2 DEF Kinds, Quiet, Lend, JoinStep, Repay, Gain, Release, CountDown, Last
  <2>6. RootOf'[call[u].a] = RootOf[call[u].a]
    <3>1. CASE JoinStep(t)
      BY <2>2, <2>3, <3>1, JoinRoots
    <3>2. CASE RootOf' = RootOf
      BY <3>2
    <3> QED BY <3>1, <3>2 DEF Kinds, Quiet, Lend, Repay, Gain, Release, CountDown, Last, GiveBack
  <2>7. next'[walk[u].ai] = next[walk[u].ai]
    BY <2>2, <2>3, AppendInUse
  <2> QED BY <1>2, <1>n, <2>1, <2>2, <2>4, <2>5, <2>6, <2>7 DEF ReclaimInv
<1>4. CASE u = t /\ Last(t)
  <2>1. /\ walk'[t].ai = walk[t].ai /\ walk[t].ai = RootOf[call[t].a] /\ status[walk[t].ai] = "live"
        /\ UNCHANGED <<status, call>> /\ RootOf' = RootOf /\ pc'[t] = "df_next"
    BY <1>4, LastAlone DEF Last
  <2> QED BY <1>4, <2>1 DEF ReclaimInv
<1>5. CASE u = t /\ Reclaims(t)
  <2>1. CASE pc[t] = "df_next" /\ DoFreeNext(t)
    <3>1. /\ UNCHANGED <<status, next, call, parent_or_count>> /\ pc'[t] = "df_blocks"
          /\ walk'[t].ai = walk[t].ai /\ walk'[t].other = next[walk[t].ai]
      BY <2>1, <1>2 DEF DoFreeNext, Goto, TypeOK, WalkFrame, memory
    <3>2. RootOf' = RootOf
      BY <2>1 DEF Kinds, Quiet, Lend, Repay, Gain, Release, CountDown, Last, GiveBack, JoinStep
    <3> QED BY <1>2, <1>5, <3>1, <3>2 DEF ReclaimInv
  <2>2. CASE pc[t] = "df_blocks" /\ DoFreeBlocks(t)
    <3>1. GiveBack(t)
      <4>1. status' # status
        <5>1. status' = [status EXCEPT ![walk[t].ai] = "freed"] /\ status[walk[t].ai] = "live"
          BY <2>2, <1>2, <1>5 DEF DoFreeBlocks, ReclaimInv
        <5>2. walk[t].ai \in Arena
          BY <1>2, <1>5, <2>2 DEF WalkInv, Walking
        <5> QED BY <1>2, <5>1, <5>2 DEF TypeOK
      <4> QED BY <4>1 DEF Kinds, Quiet, Lend, JoinStep, Repay, Gain, Release, CountDown, Last
    <3>2. /\ walk'[t].ai = walk[t].other /\ walk[t].other # NULL /\ pc'[t] = "df_next"
          /\ UNCHANGED next /\ status' = [status EXCEPT ![walk[t].ai] = "freed"]
      BY <1>1, <1>5, <3>1 DEF GiveBack, Reclaims
    <3>3. /\ walk[t].other \in Arena /\ walk[t].other = next[walk[t].ai] /\ walk[t].ai \in Arena
          /\ walk[t].other # walk[t].ai /\ status[walk[t].other] = "live"
      BY <2>2, <3>2, SuccessorLive
    <3>4. status'[walk[t].other] = "live" /\ status'[walk[t].ai] = "freed"
      BY <1>2, <3>2, <3>3 DEF TypeOK
    <3> QED BY <1>5, <3>2, <3>3, <3>4 DEF ReclaimInv
  <2> QED BY <1>5, <2>1, <2>2, AtDoFree
<1>6. u = t => Reclaims(t) \/ Last(t)
  <2> SUFFICES ASSUME u = t, ~Last(t) PROVE Reclaims(t)
    OBVIOUS
  <2>1. CASE Quiet(t)
    BY <1>1, <2>1 DEF Quiet, Unaltered
  <2>2. CASE Lend(t) \/ JoinStep(t) \/ Repay(t) \/ Gain(t) \/ Release(t) \/ CountDown(t)
    BY <1>1, <2>2 DEF Lend, JoinStep, Repay, Gain, Release, CountDown, Reclaims
  <2>3. CASE GiveBack(t)
    BY <2>3 DEF GiveBack, Reclaims
  <2> QED BY <2>1, <2>2, <2>3 DEF Kinds
<1> QED BY <1>3, <1>4, <1>5, <1>6

LEMMA StepFreed ==
  ASSUME Base, RefInv, NEW t \in Thread, OthersKeep(t), Kinds(t), Caller(t) \/ Step(t)
  PROVE  FreedInv'
<1>1. SUFFICES ASSUME NEW b \in Arena, status'[b] = "freed", RootOf'[b] # b
               PROVE  \E p \in Arena : status'[p] = "freed" /\ next'[p] = b
  BY DEF FreedInv
<1>2. TypeOK /\ FreedInv /\ b # NULL
  BY NullIsNoArena DEF RefInv, Base, IndInv
<1>n. \A a \in Arena : next[a] # NULL => next'[a] = next[a]
  BY AppendInUse
<1>3. \A p \in Arena : status[p] = "freed" => status'[p] = "freed"
  BY <1>2 DEF Kinds, Quiet, Lend, JoinStep, Repay, Gain, Release, CountDown, Last, GiveBack, TypeOK
<1>4. CASE status[b] = "freed" /\ RootOf[b] # b
  <2>1. PICK p \in Arena : status[p] = "freed" /\ next[p] = b
    BY <1>2, <1>4 DEF FreedInv
  <2> QED BY <1>2, <1>n, <1>3, <2>1
<1>5. CASE JoinStep(t)
  <2>1. status[b] = "freed"
    BY <1>1, <1>5 DEF JoinStep
  <2>2. RootOf[b] # b
    BY <1>1, <1>5, <2>1, JoinRoots DEF Counted
  <2> QED BY <1>4, <2>1, <2>2
<1>6. CASE GiveBack(t)
  <2>1. /\ RootOf[walk[t].ai] = RootOf[call[t].a]
        /\ \A a \in Arena : status'[a] = IF a = walk[t].ai THEN "freed" ELSE status[a]
    BY <1>6, GiveBackDead
  <2>2. RootOf' = RootOf /\ Reclaims(t) /\ ReclaimInv(t)
    BY <1>6 DEF GiveBack, Reclaims, RefInv
  <2>3. CASE b = walk[t].ai
    <3>1. PICK p \in Arena : status[p] = "freed" /\ next[p] = b
      BY <1>1, <2>1, <2>2, <2>3 DEF ReclaimInv
    <3> QED BY <1>2, <1>n, <1>3, <3>1
  <2> QED BY <1>1, <1>4, <2>1, <2>2, <2>3
<1>7. CASE UNCHANGED status /\ RootOf' = RootOf
  BY <1>1, <1>4, <1>7
<1> QED BY <1>5, <1>6, <1>7 DEF Kinds, Quiet, Lend, Repay, Gain, Release, CountDown, Last

-----------------------------------------------------------------------------
(* Counts in frames.                                                       *)

(* The count FindRoot returns is that of a group in use.                   *)
LEMMA CountRead ==
  ASSUME Base, RefInv, NEW t \in Thread, NEW root,
         \/ pc[t] = "fr_load" /\ root = find[t].ai
         \/ pc[t] = "fr_next" /\ root = find[t].poc.val,
         IsTaggedRefcount(parent_or_count[root])
  PROVE  parent_or_count[root].val \in Nat
<1>1. /\ TypeOK /\ CallInv(t) /\ FindGroup(t) /\ CountPos
      /\ pc[t] \in Finding /\ pc[t] # "idle"
  BY DEF Base, IndInv, GroupInv, ThreadGroup, RefInv, Finding
<1>2. Uses(t) /\ root \in Arena
  BY <1>1, FrameArenas DEF Base, Uses, CallInv
<1>3. RootOf[root] = RootOf[Wanted(t)]
  BY <1>1 DEF FindGroup, Fused
<1>4. RootOf[root] = RootOf[call[t].a] \/ RootOf[root] = RootOf[call[t].b]
  BY <1>3 DEF Wanted
<1>5. Counted(RootOf[root]) /\ RootOf[root] = root
  BY <1>2, <1>4, UsedIsCounted, RootFacts
<1>6. parent_or_count[root].val >= 1
  BY <1>1, <1>2, <1>5 DEF CountPos
<1>7. parent_or_count[root].val \in Int
  BY <1>1, <1>2, WordCases DEF TypeOK
<1> QED BY <1>6, <1>7

LEMMA ResumeCount ==
  ASSUME TypeOK, NEW t \in Thread, CallInv(t), CountInv(t), pc[t] \in Finding,
         NEW root, NEW n \in Nat, Resume(t, root, n)
  PROVE  CountInv(t)'
<1> USE DEF Goto
<1>0. pc[t] \notin {"idle", "ret"}
  BY DEF Finding
<1>1. CASE AfterFuse1(t, root, n)
  <2>1. /\ roots'[t].n1 = n /\ UNCHANGED <<call, fuse>> /\ pc'[t] = "fr_load"
    BY <1>1, FindRootFacts DEF AfterFuse1, TypeOK, RootsFrame
  <2> QED BY <1>0, <2>1 DEF CountInv
<1>2. CASE AfterFuse2(t, root, n)
  <2>0. find[t].ret = "fuse2" /\ call[t].op = "Fuse"
    BY <1>2 DEF AfterFuse2, CallInv
  <2>1. CASE EnterFixup(t) /\ UNCHANGED <<fuse, roots>>
    <3>1. pc'[t] \in {"ret", "fx_load"}
      BY <2>1, EnterFixupFacts
    <3> QED BY <1>0, <2>0, <2>1, <3>1 DEF CountInv, Finding
  <2>2. CASE /\ fuse' = [fuse EXCEPT ![t] = FuseFrame(roots[t].r1, root, @.delta)]
             /\ roots' = [roots EXCEPT ![t] = LowerFirst(roots[t], root, n)]
             /\ Goto(t, "cas_r1")
    <3>1. pc'[t] = "cas_r1" /\ fuse'[t].delta = fuse[t].delta
      BY <2>2 DEF TypeOK, FuseFrame
    <3>2. roots[t].n1 \in Nat
      BY <2>0 DEF CountInv
    <3>3. roots'[t].n1 \in Nat /\ roots'[t].n2 \in Nat
      BY <2>2, <3>2 DEF TypeOK, LowerFirst, RootsFrame
    <3> QED BY <1>0, <2>0, <3>1, <3>3 DEF CountInv, Finding
  <2> QED BY <1>2, <2>1, <2>2 DEF AfterFuse2
<1>3. CASE find[t].ret \notin {"fuse1", "fuse2"}
  <2>1. call[t].op # "Fuse" /\ call'[t].op = call[t].op
    <3>1. call[t].op # "Fuse"
      BY <1>3 DEF CallInv
    <3>2. CASE AfterIncRef(t, root, n) \/ AfterDebugRefCount(t, root, n)
      BY <3>1, <3>2, FinishFacts DEF AfterIncRef, AfterDebugRefCount
    <3>3. CASE AfterIsFusedA(t, root, n)
      BY <3>1, <3>3 DEF AfterIsFusedA
    <3>4. CASE AfterIsFusedB(t, root, n)
      BY <3>1, <3>4, FinishFacts DEF AfterIsFusedB
    <3>5. CASE AfterIsFusedAgain(t, root, n)
      BY <3>1, <3>5, FinishFacts DEF AfterIsFusedAgain
    <3> QED BY <1>3, <3>2, <3>3, <3>4, <3>5 DEF Resume, AfterFuse1, AfterFuse2
  <2>2. pc'[t] \in {"ret", "inc_cas"} \/ (pc'[t] = "fr_load" /\ find'[t].ret # "fuse2")
    <3>1. CASE AfterIncRef(t, root, n) \/ AfterDebugRefCount(t, root, n)
      BY <3>1, FinishFacts DEF AfterIncRef, AfterDebugRefCount, TypeOK
    <3>2. CASE AfterIsFusedA(t, root, n)
      BY <3>2, FindRootFacts DEF AfterIsFusedA
    <3>3. CASE AfterIsFusedB(t, root, n)
      <4>1. CASE Finish(t, TRUE)
        BY <4>1, FinishFacts
      <4>2. CASE FindRoot(t, walk[t].other, "isfused_again")
        BY <4>2, FindRootFacts
      <4> QED BY <3>3, <4>1, <4>2 DEF AfterIsFusedB
    <3>4. CASE AfterIsFusedAgain(t, root, n)
      <4>1. CASE Finish(t, FALSE)
        BY <4>1, FinishFacts
      <4>2. CASE FindRoot(t, walk[t].ai, "isfused_b")
        BY <4>2, FindRootFacts
      <4> QED BY <3>4, <4>1, <4>2 DEF AfterIsFusedAgain
    <3> QED BY <1>3, <3>1, <3>2, <3>3, <3>4 DEF Resume, AfterFuse1, AfterFuse2
  <2> QED BY <2>1, <2>2 DEF CountInv, Finding
<1> QED BY <1>1, <1>2, <1>3 DEF Resume, AfterIncRef, AfterDebugRefCount, AfterIsFusedA, AfterIsFusedB,
            AfterIsFusedAgain

(* A thread whose frames of Fuse and Free stay keeps the invariant.        *)
LEMMA CountStays ==
  ASSUME NEW t \in Thread, CountInv(t), pc[t] \notin {"idle", "ret"},
         call'[t].op = call[t].op, UNCHANGED <<fuse, roots>>,
         (pc'[t] \in Finding /\ find'[t].ret = "fuse2") => pc[t] \in Finding /\ find[t].ret = "fuse2",
         pc'[t] \in {"cas_r1", "cas_r2"} => pc[t] \in {"cas_r1", "cas_r2"},
         pc'[t] # "free_cas"
  PROVE  CountInv(t)'
  BY DEF CountInv

(* FindRoot reads counts of groups in use,                                 *)
LEMMA FindCount ==
  ASSUME Base, RefInv, NEW t \in Thread, CallInv(t)',
         FindRootLoad(t) \/ FindRootReload(t) \/ FindRootNext(t) \/ FindRootSplit(t)
  PROVE  CountInv(t)'
<1>t. TypeOK /\ CallInv(t) /\ CountInv(t)
  BY DEF Base, IndInv, GroupInv, ThreadGroup, RefInv
<1>p. pc[t] \in Finding /\ pc[t] \notin {"idle", "ret"}
  BY DEF FindRootLoad, FindRootReload, FindRootNext, FindRootSplit, Finding
<1> USE DEF Goto
<1>1. ASSUME NEW root, IsTaggedRefcount(parent_or_count[root]),
             \/ pc[t] = "fr_load" /\ root = find[t].ai
             \/ pc[t] = "fr_next" /\ root = find[t].poc.val,
             Resume(t, root, parent_or_count[root].val)
      PROVE  CountInv(t)'
  <2>1. parent_or_count[root].val \in Nat
    BY <1>1, CountRead
  <2> QED BY <1>1, <1>t, <1>p, <2>1, ResumeCount
<1>2. ASSUME pc'[t] \in Finding, find'[t].ret = find[t].ret, UNCHANGED <<call, fuse, roots>>
      PROVE  CountInv(t)'
  <2>1. pc'[t] \notin {"cas_r1", "cas_r2", "free_cas"}
    BY <1>2 DEF Finding
  <2> QED BY <1>2, <1>t, <1>p, <2>1, CountStays
<1>3. CASE FindRootLoad(t)
  <2>1. CASE IsTaggedRefcount(parent_or_count[find[t].ai]) /\ Resume(t, find[t].ai, parent_or_count[find[t].ai].val)
    BY <1>1, <1>3, <2>1 DEF FindRootLoad
  <2>2. CASE Goto(t, "fr_reload") /\ UNCHANGED <<call, find, fusing, walk>>
    BY <1>2, <1>t, <2>2 DEF TypeOK, Finding, fusing
  <2> QED BY <1>3, <2>1, <2>2 DEF FindRootLoad
<1>4. CASE FindRootReload(t)
  BY <1>2, <1>4, <1>t DEF FindRootReload, TypeOK, Finding, fusing, FindFrame
<1>5. CASE FindRootNext(t)
  <2> DEFINE nxt == find[t].poc.val
  <2>1. CASE IsTaggedRefcount(parent_or_count[nxt]) /\ Resume(t, nxt, parent_or_count[nxt].val)
    BY <1>1, <1>5, <2>1 DEF FindRootNext
  <2>2. CASE /\ find' = [find EXCEPT ![t] = FindFrame(@.ai, nxt, parent_or_count[nxt], @.ret)]
             /\ Goto(t, "fr_split") /\ UNCHANGED <<call, fusing, walk>>
    BY <1>2, <1>t, <2>2 DEF TypeOK, Finding, fusing, FindFrame
  <2> QED BY <1>5, <2>1, <2>2 DEF FindRootNext
<1>6. CASE FindRootSplit(t)
  BY <1>2, <1>6, <1>t DEF FindRootSplit, TypeOK, Finding, fusing, FindFrame
<1> QED BY <1>3, <1>4, <1>5, <1>6

(* Fuse adds up what it has lent,                                          *)
LEMMA FuseCount ==
  ASSUME Base, RefInv, NEW t \in Thread,
         \/ FuseCasR1(t) \/ FuseCasR2(t)
         \/ LinkForwardTail(t) \/ LinkForwardNext(t) \/ LinkForwardCas(t)
         \/ UpdateTailLoadChild(t) \/ UpdateTailLoadParent(t) \/ UpdateTailCas(t)
         \/ LinkBackward(t)
         \/ FixupLoad(t) \/ FixupCas(t)
  PROVE  CountInv(t)'
<1>t. TypeOK /\ CallInv(t) /\ CountInv(t)
  BY DEF Base, IndInv, GroupInv, ThreadGroup, RefInv
<1>p. /\ pc[t] \in {"cas_r1", "cas_r2", "fx_load", "fx_cas"} \cup Linking
      /\ pc[t] \notin {"idle", "ret"} \cup Finding
  BY DEF FuseCasR1, FuseCasR2, LinkForwardTail, LinkForwardNext, LinkForwardCas,
     UpdateTailLoadChild, UpdateTailLoadParent, UpdateTailCas, LinkBackward, FixupLoad, FixupCas,
     Linking, Finding
<1>o. call[t].op = "Fuse" /\ fuse[t].delta \in Nat
  BY <1>t, <1>p DEF CallInv, CountInv
<1> USE DEF Goto
<1>r. RetryFuse(t) => pc'[t] = "fr_load" /\ find'[t].ret = "fuse1"
  BY <1>t, FindRootFacts DEF RetryFuse
<1>s. ASSUME call'[t].op = call[t].op, fuse'[t].delta \in Nat,
             pc'[t] \in {"ret", "fx_load", "fx_cas"} \cup Linking
             \/ (pc'[t] = "fr_load" /\ find'[t].ret = "fuse1")
      PROVE  CountInv(t)'
  BY <1>s DEF CountInv, Finding, Linking
<1>1. CASE FuseCasR1(t)
  <2>1. CASE RetryFuse(t)
    BY <1>1, <2>1, <1>o, <1>r, <1>s DEF FuseCasR1, fusing
  <2>2. CASE Goto(t, "cas_r2")
    <3>1. pc[t] = "cas_r1" /\ pc'[t] = "cas_r2" /\ UNCHANGED <<call, fuse, roots>>
      BY <1>1, <1>t, <2>2 DEF FuseCasR1, TypeOK, fusing
    <3> QED BY <1>t, <3>1 DEF CountInv, Finding
  <2> QED BY <1>1, <2>1, <2>2 DEF FuseCasR1
<1>2. CASE FuseCasR2(t)
  <2>1. CASE Goto(t, "lf_tail") /\ UNCHANGED fuse
    BY <1>2, <2>1, <1>t, <1>o, <1>s DEF FuseCasR2, TypeOK, Linking
  <2>2. CASE /\ fuse' = [fuse EXCEPT ![t] = FuseFrame(@.ai1, @.ai2, @.delta + roots[t].n2)]
             /\ RetryFuse(t)
    <3>1. roots[t].n2 \in Nat
      BY <1>2, <1>t DEF FuseCasR2, CountInv
    <3>2. fuse'[t].delta \in Nat /\ UNCHANGED call
      BY <1>2, <2>2, <3>1, <1>t, <1>o DEF TypeOK, FuseFrame, FuseCasR2
    <3> QED BY <2>2, <3>2, <1>r, <1>s
  <2> QED BY <1>2, <2>1, <2>2 DEF FuseCasR2
<1>3. CASE \/ LinkForwardTail(t) \/ LinkForwardNext(t) \/ LinkForwardCas(t)
           \/ UpdateTailLoadChild(t) \/ UpdateTailLoadParent(t) \/ UpdateTailCas(t)
  <2>1. pc'[t] \in Linking /\ UNCHANGED <<call, fuse>>
    BY <1>3, <1>t DEF LinkForwardTail, LinkForwardNext, LinkForwardCas, UpdateTailLoadChild,
       UpdateTailLoadParent, UpdateTailCas, TypeOK, Linking, memory, fusing
  <2> QED BY <2>1, <1>o, <1>s
<1>4. CASE LinkBackward(t)
  BY <1>4, <1>t, <1>o, <1>s, EnterFixupFacts DEF LinkBackward, fusing
<1>5. CASE FixupLoad(t)
  BY <1>5, <1>t, <1>o, <1>r, <1>s DEF FixupLoad, TypeOK
<1>6. CASE FixupCas(t)
  <2>1. CASE RetryFuse(t) /\ UNCHANGED call
    BY <1>6, <2>1, <1>o, <1>r, <1>s DEF FixupCas, fusing
  <2>2. CASE Finish(t, TRUE)
    BY <1>6, <2>2, <1>t, <1>o, <1>s, FinishFacts DEF FixupCas, fusing
  <2> QED BY <1>6, <2>1, <2>2 DEF FixupCas
<1> QED BY <1>1, <1>2, <1>3, <1>4, <1>5, <1>6

(* and Free does not decrement 1.                                          *)
LEMMA WalkCount ==
  ASSUME Base, RefInv, NEW t \in Thread,
         \/ IncRefCas(t) \/ IncRefCasFails(t)
         \/ SpaceAllocatedBack(t) \/ SpaceAllocatedForward(t)
         \/ FreeLoad(t) \/ FreeCas(t) \/ DoFreeNext(t) \/ DoFreeBlocks(t)
  PROVE  CountInv(t)'
<1>t. TypeOK /\ CallInv(t) /\ CountInv(t)
  BY DEF Base, IndInv, GroupInv, ThreadGroup, RefInv
<1>p. pc[t] \in Walking
  BY DEF IncRefCas, IncRefCasFails, SpaceAllocatedBack, SpaceAllocatedForward, FreeLoad, FreeCas,
     DoFreeNext, DoFreeBlocks, Walking
<1>o. call[t].op # "Fuse"
  BY <1>t, <1>p DEF CallInv, Walking
<1>s. ASSUME call'[t].op = call[t].op,
             pc'[t] \in {"ret", "sa_back", "sa_forward", "free_load", "df_next", "df_blocks"}
             \/ (pc'[t] = "fr_load" /\ find'[t].ret = "incref")
             \/ (pc'[t] = "free_cas" /\ walk'[t].n # 1)
      PROVE  CountInv(t)'
  BY <1>o, <1>s DEF CountInv, Finding
<1> USE DEF Goto
<1>d. ASSUME NEW poc, FreeDispatch(t, poc), UNCHANGED call PROVE CountInv(t)'
  <2>1. \/ pc'[t] \in {"free_load", "df_next"}
        \/ pc'[t] = "free_cas" /\ walk'[t].n # 1
    BY <1>d, <1>t DEF FreeDispatch, TypeOK, WalkFrame
  <2> QED BY <1>d, <1>s, <2>1
<1>1. CASE IncRefCas(t)
  BY <1>1, <1>t, <1>s, FinishFacts DEF IncRefCas
<1>2. CASE IncRefCasFails(t)
  BY <1>2, <1>t, <1>s, FindRootFacts DEF IncRefCasFails
<1>3. CASE SpaceAllocatedBack(t)
  BY <1>3, <1>t, <1>s DEF SpaceAllocatedBack, TypeOK
<1>4. CASE SpaceAllocatedForward(t)
  BY <1>4, <1>t, <1>s, FinishFacts DEF SpaceAllocatedForward, TypeOK
<1>5. CASE FreeLoad(t)
  BY <1>5, <1>d DEF FreeLoad
<1>6. CASE FreeCas(t)
  BY <1>6, <1>d, <1>t, <1>s, FinishFacts DEF FreeCas
<1>7. CASE DoFreeNext(t)
  BY <1>7, <1>t, <1>s DEF DoFreeNext, TypeOK
<1>8. CASE DoFreeBlocks(t)
  BY <1>8, <1>t, <1>s, FinishFacts DEF DoFreeBlocks, TypeOK
<1> QED BY <1>1, <1>2, <1>3, <1>4, <1>5, <1>6, <1>7, <1>8

LEMMA StepCount ==
  ASSUME Base, RefInv, GroupInv', NEW t \in Thread, OthersKeep(t), Caller(t) \/ Step(t),
         NEW u \in Thread
  PROVE  CountInv(u)'
<1>t. TypeOK /\ CountInv(u) /\ CallInv(t)'
  BY DEF RefInv, Base, IndInv, GroupInv, ThreadGroup
<1>0. CASE u # t
  BY <1>0, <1>t DEF OthersKeep, CountInv
<1> USE DEF Goto
<1>1. CASE u = t /\ Caller(t)
  <2>1. CASE \E a, b \in Arena : Fuse(t, a, b)
    <3>1. PICK a \in Arena, b \in Arena : Fuse(t, a, b)
      BY <2>1
    <3>2. CASE Goto(t, "ret")
      BY <1>1, <3>2, <1>t DEF CountInv, TypeOK, Finding
    <3>3. CASE fuse' = [fuse EXCEPT ![t] = FuseFrame(a, b, 0)] /\ FindRoot(t, a, "fuse1")
      <4>1. fuse'[t].delta = 0 /\ pc'[t] = "fr_load" /\ find'[t].ret = "fuse1"
        BY <3>3, <1>t, FindRootFacts DEF TypeOK, FuseFrame
      <4> QED BY <1>1, <4>1 DEF CountInv
    <3> QED BY <3>1, <3>2, <3>3 DEF Fuse
  <2>2. CASE ~\E a, b \in Arena : Fuse(t, a, b)
    <3>1. call'[t].op # "Fuse"
      BY <1>1, <1>t, <2>2 DEF Caller, IsFused, Free, IncRefFor, DebugRefCount, SpaceAllocated, TypeOK, Call
    <3>2. \/ pc'[t] \in {"ret", "sa_back", "free_load"}
          \/ pc'[t] = "fr_load" /\ find'[t].ret # "fuse2"
      <4>1. ASSUME NEW a, NEW ret, FindRoot(t, a, ret), ret # "fuse2"
            PROVE  pc'[t] = "fr_load" /\ find'[t].ret # "fuse2"
        BY <4>1, <1>t, FindRootFacts
      <4>2. ASSUME NEW l, Goto(t, l) PROVE pc'[t] = l
        BY <4>2, <1>t DEF TypeOK
      <4> HIDE DEF Goto
      <4> QED BY <1>1, <2>2, <4>1, <4>2 DEF Caller, IsFused, Free, IncRefFor, DebugRefCount,
                 SpaceAllocated
    <3> QED BY <1>1, <3>1, <3>2 DEF CountInv, Finding
  <2> QED BY <2>1, <2>2
<1>2. CASE u = t /\ (FindRootLoad(t) \/ FindRootReload(t) \/ FindRootNext(t) \/ FindRootSplit(t))
  BY <1>2, <1>t, FindCount
<1>3. CASE u = t /\ (\/ FuseCasR1(t) \/ FuseCasR2(t)
                     \/ LinkForwardTail(t) \/ LinkForwardNext(t) \/ LinkForwardCas(t)
                     \/ UpdateTailLoadChild(t) \/ UpdateTailLoadParent(t) \/ UpdateTailCas(t)
                     \/ LinkBackward(t)
                     \/ FixupLoad(t) \/ FixupCas(t))
  BY <1>3, FuseCount
<1>4. CASE u = t /\ (\/ IncRefCas(t) \/ IncRefCasFails(t)
                     \/ SpaceAllocatedBack(t) \/ SpaceAllocatedForward(t)
                     \/ FreeLoad(t) \/ FreeCas(t) \/ DoFreeNext(t) \/ DoFreeBlocks(t))
  BY <1>4, WalkCount
<1>5. CASE u = t /\ Return(t)
  <2>1. pc'[t] = "idle" /\ call'[t].op = "none"
    BY <1>5, <1>t DEF Return, TypeOK, NoCall, Call
  <2> QED BY <1>5, <2>1 DEF CountInv, Finding
<1> QED BY <1>0, <1>1, <1>2, <1>3, <1>4, <1>5 DEF Step

-----------------------------------------------------------------------------
(* The accounts.                                                           *)

(* What a count stands for, if the groups stay.                            *)
LEMMA SameRefs ==
  ASSUME RootOf' = RootOf, UNCHANGED refs, NEW r PROVE RefsOn(r)' = RefsOn(r)
  BY DEF RefsOn

LEMMA SameFrees ==
  ASSUME RootOf' = RootOf, \A u \in Thread : Frees(u)' <=> Frees(u),
         \A u \in Thread : Frees(u) => call'[u].a = call[u].a, NEW r
  PROVE  FreesOn(r)' = FreesOn(r)
  BY DEF FreesOn

LEMMA SameLent ==
  ASSUME RootOf' = RootOf, \A u \in Thread : Owed(u)' = Owed(u), NEW loc, NEW r
  PROVE  LentTo(loc, r)' = LentTo(loc, r)
<1>1. \A x \in Thread \X Nat : x[1] \in Thread
  OBVIOUS
<1> QED BY <1>1 DEF LentTo

LEMMA SameBalance ==
  ASSUME NEW loc, NEW r, Balanced(loc, r), RefsOn(r)' = RefsOn(r), FreesOn(r)' = FreesOn(r),
         LentTo(loc, r)' = LentTo(loc, r), parent_or_count'[r].val = parent_or_count[r].val
  PROVE  Balanced(loc, r)'
  BY DEF Balanced

(* Loans stay within the groups of a Fuse that does not move.              *)
LEMMA LoansKept ==
  ASSUME Base, Growing, NEW loc, NEW u \in Thread, LoanInv(loc, u), CountInv(u),
         pc'[u] = pc[u], call'[u] = call[u], fuse'[u] = fuse[u], roots'[u] = roots[u]
  PROVE  LoanInv(loc, u)'
<1>1. Owed(u)' = Owed(u)
  BY DEF Owed
<1>2. Owed(u) # 0 => pc[u] # "idle"
  BY DEF Owed
<1>3. CallInv(u)
  BY DEF Base, GroupInv, ThreadGroup
<1>4. /\ pc[u] # "idle" => call[u].a \in Arena /\ call[u].b \in Arena
      /\ pc[u] = "cas_r2" => roots[u].r1 \in Arena /\ fuse[u].delta \in Int
  BY <1>3, FrameArenas DEF Base, IndInv, TypeOK
<1>5. Owed(u) = 0 => 1 .. Owed(u) = {}
  OBVIOUS
<1>6. ASSUME NEW k \in 1 .. Owed(u)
      PROVE  /\ loc[<<u, k>>] \in Arena
             /\ Fused(loc[<<u, k>>], call[u].a)' \/ Fused(loc[<<u, k>>], call[u].b)'
  BY <1>2, <1>4, <1>5, <1>6 DEF LoanInv, Growing, Fused
<1>7. ASSUME pc[u] = "cas_r2", NEW k \in (fuse[u].delta + 1) .. Owed(u)
      PROVE  Fused(loc[<<u, k>>], roots[u].r1)'
  <2>1. call[u].op = "Fuse" /\ fuse[u].delta \in Nat
    BY <1>3, <1>7 DEF CallInv, CountInv
  <2> QED BY <1>4, <1>6, <1>7, <2>1 DEF LoanInv, Growing, Fused
<1> QED BY <1>1, <1>6, <1>7 DEF LoanInv, Fused

(* The loans of the threads that do not move.                              *)
LEMMA OtherLoans ==
  ASSUME Base, RefInv, Growing, NEW t \in Thread, OthersKeep(t), NEW loc, AccountInv(loc),
         NEW u \in Thread \ {t}
  PROVE  LoanInv(loc, u)'
  BY LoansKept DEF AccountInv, RefInv, OthersKeep

(* Quiet steps.                                                            *)
LEMMA QuietAccount ==
  ASSUME Base, RefInv, NEW t \in Thread, OthersKeep(t), NEW loc, AccountInv(loc), Quiet(t)
  PROVE  AccountInv(loc)'
<1>1. /\ UNCHANGED <<status, refs>> /\ RootOf' = RootOf /\ Unaltered(t)
      /\ \A r \in Arena : RootOf[r] = r => parent_or_count'[r] = parent_or_count[r]
  BY DEF Quiet
<1>2. \A u \in Thread : /\ Frees(u)' <=> Frees(u)
                        /\ Frees(u) => call'[u].a = call[u].a
                        /\ Owed(u)' = Owed(u)
  BY <1>1, OthersStand DEF Unaltered
<1>3. \A r \in Arena : Counted(r)' <=> Counted(r)
  BY MostSettled, SettledDead
<1>4. ASSUME NEW r \in Arena, Counted(r)' PROVE Balanced(loc, r)'
  <2>1. Balanced(loc, r) /\ parent_or_count'[r].val = parent_or_count[r].val
    BY <1>1, <1>3, <1>4 DEF AccountInv, Counted
  <2>2. RefsOn(r)' = RefsOn(r)
    BY <1>1, SameRefs
  <2>3. FreesOn(r)' = FreesOn(r)
    BY <1>1, <1>2, SameFrees
  <2>4. LentTo(loc, r)' = LentTo(loc, r)
    BY <1>1, <1>2, SameLent
  <2> QED BY <2>1, <2>2, <2>3, <2>4, SameBalance
<1>5. LoanInv(loc, t)'
  <2>1. LoanInv(loc, t) /\ Owed(t)' = Owed(t) /\ pc'[t] # "cas_r2"
    BY <1>1 DEF Unaltered, AccountInv
  <2>2. Owed(t) # 0 => call'[t].a = call[t].a /\ call'[t].b = call[t].b
    BY <1>1 DEF Unaltered
  <2>3. Owed(t) = 0 => 1 .. Owed(t) = {}
    OBVIOUS
  <2> QED BY <1>1, <2>1, <2>2, <2>3 DEF LoanInv, Fused
<1>6. Growing
  BY <1>1 DEF Growing
<1>7. \A u \in Thread : LoanInv(loc, u)'
  BY <1>5, <1>6, OtherLoans
<1> QED BY <1>4, <1>7 DEF AccountInv

(* What a Fuse owes, from label to label.                                  *)
LEMMA OwedFacts ==
  ASSUME Base, RefInv, NEW t \in Thread, pc[t] \in {"cas_r1", "cas_r2", "fx_cas"}
  PROVE  /\ Owed(t) = fuse[t].delta + (IF pc[t] = "cas_r2" THEN roots[t].n2 ELSE 0)
         /\ Owed(t) \in Nat /\ fuse[t].delta \in Nat
         /\ pc[t] # "cas_r2" => Owed(t) = fuse[t].delta
         /\ pc[t] # "fx_cas" => roots[t].n1 \in Nat /\ roots[t].n2 \in Nat
         /\ call[t].op = "Fuse" /\ call[t].a \in Arena /\ call[t].b \in Arena /\ Uses(t)
         /\ roots[t].r1 \in Arena /\ roots[t].n1 \in Int
<1>1. CallInv(t) /\ CountInv(t) /\ TypeOK /\ pc[t] \notin {"idle", "ret"}
  BY DEF Base, IndInv, GroupInv, ThreadGroup, RefInv
<1>2. call[t].op = "Fuse" /\ call[t].a \in Arena /\ call[t].b \in Arena /\ roots[t].r1 \in Arena
  BY <1>1, FrameArenas DEF CallInv, Base
<1>3. fuse[t].delta \in Nat /\ (pc[t] # "fx_cas" => roots[t].n1 \in Nat /\ roots[t].n2 \in Nat)
  BY <1>1, <1>2 DEF CountInv
<1>4. Owed(t) = fuse[t].delta + (IF pc[t] = "cas_r2" THEN roots[t].n2 ELSE 0)
  BY <1>1, <1>2 DEF Owed
<1> QED BY <1>1, <1>2, <1>3, <1>4 DEF Uses, TypeOK

(* The root whose count a Fuse replaces.                                   *)
LEMMA FuseRoot ==
  ASSUME Base, RefInv, NEW t \in Thread, pc[t] \in {"cas_r1", "fx_cas"},
         parent_or_count[roots[t].r1] = TaggedFromRefcount(roots[t].n1)
  PROVE  LET r1 == roots[t].r1 IN
         /\ r1 \in Arena /\ RootOf[r1] = r1 /\ Counted(r1)
         /\ parent_or_count[r1].val = roots[t].n1
         /\ Fused(r1, call[t].a) \/ Fused(r1, call[t].b)
         /\ pc[t] = "fx_cas" => r1 = RootOf[call[t].a] /\ r1 = RootOf[call[t].b]
<1>1. roots[t].r1 \in Arena /\ Uses(t) /\ FuseGroup(t)
  BY OwedFacts DEF Base, GroupInv, ThreadGroup
<1>2. /\ parent_or_count[roots[t].r1].val = roots[t].n1
      /\ IsTaggedRefcount(parent_or_count[roots[t].r1])
  BY DEF TaggedFromRefcount, IsTaggedRefcount
<1>3. RootOf[roots[t].r1] = roots[t].r1
  BY <1>1, <1>2, RootFacts
<1>4. /\ Fused(roots[t].r1, call[t].a) \/ Fused(roots[t].r1, call[t].b)
      /\ pc[t] = "fx_cas" => Fused(call[t].a, call[t].b) /\ Fused(roots[t].r1, call[t].a)
  BY <1>1 DEF FuseGroup
<1>5. Counted(RootOf[roots[t].r1])
  BY <1>1, <1>4, UsedIsCounted DEF Fused
<1> QED BY <1>1, <1>2, <1>3, <1>4, <1>5 DEF Fused

(* Counting loans.                                                         *)
LEMMA Tokens ==
  ASSUME NEW t, NEW m \in Nat, NEW n \in Nat
  PROVE  /\ IsFiniteSet({t} \X ((m + 1) .. (m + n)))
         /\ Cardinality({t} \X ((m + 1) .. (m + n))) = n
<1>1. IsFiniteSet({t}) /\ Cardinality({t}) = 1
  BY FS_Singleton
<1>2. IsFiniteSet((m + 1) .. (m + n)) /\ Cardinality((m + 1) .. (m + n)) = n
  BY FS_Interval
<1> QED BY <1>1, <1>2, FS_Product

LEMMA DisjointSum ==
  ASSUME NEW S, NEW T, IsFiniteSet(S), IsFiniteSet(T), S \cap T = {}
  PROVE  IsFiniteSet(S \cup T) /\ Cardinality(S \cup T) = Cardinality(S) + Cardinality(T)
<1>1. Cardinality(S) \in Nat /\ Cardinality(T) \in Nat /\ Cardinality(S \cap T) = 0
  BY FS_CardinalityType, FS_EmptySet
<1>2. /\ IsFiniteSet(S \cup T)
      /\ Cardinality(S \cup T) = Cardinality(S) + Cardinality(T) - Cardinality(S \cap T)
  BY FS_Union
<1> QED BY <1>1, <1>2

LEMMA PartRemoved ==
  ASSUME NEW S, NEW T, IsFiniteSet(S), T \subseteq S
  PROVE  IsFiniteSet(S \ T) /\ Cardinality(S \ T) = Cardinality(S) - Cardinality(T)
<1>1. S \cap T = T
  OBVIOUS
<1> QED BY <1>1, FS_Difference

(* DoFuse lends r2's references to r1.                                     *)
LEMMA LendAccount ==
  ASSUME Base, RefInv, NEW t \in Thread, OthersKeep(t), NEW loc, AccountInv(loc), Lend(t)
  PROVE  \E lent : AccountInv(lent)'
<1> DEFINE r1 == roots[t].r1
           n1 == roots[t].n1
           n2 == roots[t].n2
           d  == fuse[t].delta
           new  == {t} \X ((d + 1) .. (d + n2))
<1>1. /\ pc[t] = "cas_r1" /\ pc'[t] = "cas_r2"
      /\ parent_or_count[r1] = TaggedFromRefcount(n1)
      /\ parent_or_count' = [parent_or_count EXCEPT ![r1] = TaggedFromRefcount(n1 + n2)]
      /\ UNCHANGED <<status, refs, call, fuse, roots>> /\ RootOf' = RootOf
  BY DEF Lend
<1>2. /\ Owed(t) = d /\ d \in Nat /\ n1 \in Nat /\ n2 \in Nat /\ call[t].op = "Fuse"
      /\ call[t].a \in Arena /\ call[t].b \in Arena
  BY <1>1, OwedFacts
<1>3. /\ r1 \in Arena /\ RootOf[r1] = r1 /\ parent_or_count[r1].val = n1
      /\ Fused(r1, call[t].a) \/ Fused(r1, call[t].b)
  BY <1>1, FuseRoot
<1>4. Owed(t)' = d + n2
  BY <1>1, <1>2 DEF Owed
<1>5. \A u \in Thread : u # t => Owed(u)' = Owed(u)
  BY OthersStand
<1>6. /\ \A u \in Thread : Frees(u)' <=> Frees(u)
      /\ \A u \in Thread : call'[u].a = call[u].a
  <2>1. ~Frees(t) /\ ~Frees(t)'
    BY <1>1 DEF Frees
  <2> QED BY <1>1, <2>1, OthersStand
<1>7. \A r \in Arena : Counted(r)' <=> Counted(r)
  BY MostSettled, SettledDead
<1>8. \A r \in Arena : parent_or_count'[r].val = IF r = r1 THEN n1 + n2 ELSE parent_or_count[r].val
  BY <1>1, <1>3 DEF Base, IndInv, TypeOK, TaggedFromRefcount
<1>9. TypeOK
  BY DEF Base, IndInv
<1> HIDE DEF r1, n1, n2, d
<1>10. PICK lent : \A u \in Thread, k \in Nat :
         lent[<<u, k>>] = IF u = t /\ k > d THEN r1 ELSE loc[<<u, k>>]
  <2> DEFINE f == [x \in Thread \X Nat |-> IF x[1] = t /\ x[2] > d THEN r1 ELSE loc[x]]
  <2>1. \A u \in Thread, k \in Nat : f[<<u, k>>] = IF u = t /\ k > d THEN r1 ELSE loc[<<u, k>>]
    OBVIOUS
  <2> HIDE DEF f
  <2> QED BY <2>1
<1>11. ASSUME NEW r \in Arena
       PROVE  LentTo(lent, r)' = LentTo(loc, r) \cup (IF r = r1 THEN new ELSE {})
  <2>1. ASSUME NEW u \in Thread, NEW k \in Nat
        PROVE  <<u, k>> \in LentTo(lent, r)' <=>
                 <<u, k>> \in LentTo(loc, r) \cup (IF r = r1 THEN new ELSE {})
    <3>1. <<u, k>> \in LentTo(lent, r)' <=> (k \in 1 .. Owed(u)' /\ RootOf[lent[<<u, k>>]] = r)
      BY <1>1 DEF LentTo
    <3>2. <<u, k>> \in LentTo(loc, r) <=> (k \in 1 .. Owed(u) /\ RootOf[loc[<<u, k>>]] = r)
      BY DEF LentTo
    <3>3. CASE u # t
      BY <1>5, <1>10, <3>1, <3>2, <3>3
    <3>4. CASE u = t
      <4>1. <<u, k>> \in new <=> k \in (d + 1) .. (d + n2)
        BY <3>4
      <4>2. lent[<<u, k>>] = IF k > d THEN r1 ELSE loc[<<u, k>>]
        BY <1>10, <3>4
      <4>3. k \in 1 .. Owed(u) <=> k >= 1 /\ k <= d
        BY <1>2, <3>4
      <4>4. k \in 1 .. Owed(u)' <=> k >= 1 /\ k <= d + n2
        BY <1>2, <1>4, <3>4
      <4>5. CASE k > d
        BY <1>2, <1>3, <3>1, <3>2, <4>1, <4>2, <4>3, <4>4, <4>5
      <4>6. CASE ~(k > d)
        BY <1>2, <3>1, <3>2, <4>1, <4>2, <4>3, <4>4, <4>6
      <4> QED BY <4>5, <4>6
    <3> QED BY <3>3, <3>4
  <2>2. LentTo(lent, r)' \subseteq Thread \X Nat /\ LentTo(loc, r) \subseteq Thread \X Nat
    BY DEF LentTo
  <2>3. new \subseteq Thread \X Nat
    BY <1>2
  <2> HIDE DEF new
  <2>4. \A x \in Thread \X Nat : x \in LentTo(lent, r)' <=>
                 x \in LentTo(loc, r) \cup (IF r = r1 THEN new ELSE {})
    BY <2>1
  <2> QED BY <2>2, <2>3, <2>4
<1>12. IsFiniteSet(new) /\ Cardinality(new) = n2
  <2>1. \A m, n \in Nat : /\ IsFiniteSet({t} \X ((m + 1) .. (m + n)))
                           /\ Cardinality({t} \X ((m + 1) .. (m + n))) = n
    BY Tokens
  <2> QED BY <1>2, <2>1
<1>13. \A r \in Arena : LentTo(loc, r) \cap new = {}
  <2> SUFFICES ASSUME NEW r \in Arena, NEW x \in new, x \in LentTo(loc, r) PROVE FALSE
    OBVIOUS
  <2>0. PICK k \in (d + 1) .. (d + n2) : x = <<t, k>>
    OBVIOUS
  <2>1. k \in 1 .. Owed(t)
    BY <2>0 DEF LentTo
  <2> QED BY <1>2, <2>1
<1> HIDE DEF new
<1>14. ASSUME NEW r \in Arena, Counted(r)' PROVE Balanced(lent, r)'
  <2>1. Balanced(loc, r)
    BY <1>7, <1>14 DEF AccountInv
  <2>2. RefsOn(r)' = RefsOn(r) /\ FreesOn(r)' = FreesOn(r)
    BY <1>1, <1>6, SameRefs, SameFrees
  <2>3. /\ IsFiniteSet(RefsOn(r)) /\ IsFiniteSet(FreesOn(r)) /\ IsFiniteSet(LentTo(loc, r))
        /\ Cardinality(RefsOn(r)) \in Nat /\ Cardinality(FreesOn(r)) \in Nat
        /\ Cardinality(LentTo(loc, r)) \in Nat
        /\ parent_or_count[r].val =
             Cardinality(RefsOn(r)) + Cardinality(FreesOn(r)) + Cardinality(LentTo(loc, r))
    BY <2>1, Balance DEF Balanced
  <2>4. CASE r # r1
    <3>1. LentTo(lent, r)' = LentTo(loc, r)
      BY <1>11, <2>4
    <3> QED BY <1>8, <2>2, <2>3, <2>4, <3>1 DEF Balanced
  <2>5. CASE r = r1
    <3>1. LentTo(lent, r)' = LentTo(loc, r) \cup new
      BY <1>11, <2>5
    <3>2. IsFiniteSet(LentTo(lent, r)') /\ Cardinality(LentTo(lent, r)') = Cardinality(LentTo(loc, r)) + n2
      BY <1>12, <1>13, <2>3, <3>1, DisjointSum
    <3>3. parent_or_count'[r].val = parent_or_count[r].val + n2
      BY <1>3, <1>8, <2>5
    <3>4. parent_or_count'[r].val =
             Cardinality(RefsOn(r)) + Cardinality(FreesOn(r)) + Cardinality(LentTo(lent, r)')
      BY <1>2, <2>3, <3>2, <3>3
    <3> QED BY <2>2, <2>3, <3>2, <3>4 DEF Balanced
  <2> QED BY <2>4, <2>5
<1>15. ASSUME NEW u \in Thread PROVE LoanInv(lent, u)'
  <2>1. CASE u = t
    <3>1. ASSUME NEW k \in 1 .. (d + n2)
          PROVE  /\ lent[<<t, k>>] \in Arena
                 /\ Fused(lent[<<t, k>>], call[t].a) \/ Fused(lent[<<t, k>>], call[t].b)
                 /\ k > d => lent[<<t, k>>] = r1
      <4>1. k \in Nat /\ lent[<<t, k>>] = IF k > d THEN r1 ELSE loc[<<t, k>>]
        BY <1>2, <1>10, <3>1
      <4>2. CASE k > d
        BY <1>3, <4>1, <4>2
      <4>3. CASE ~(k > d)
        <5>1. k \in 1 .. Owed(t)
          BY <1>2, <3>1, <4>3
        <5> QED BY <4>1, <4>3, <5>1 DEF AccountInv, LoanInv
      <4> QED BY <4>2, <4>3
    <3>2. \A k \in (d + 1) .. (d + n2) : k \in 1 .. (d + n2) /\ k > d
      BY <1>2
    <3>3. \A k \in (d + 1) .. (d + n2) : RootOf[lent[<<t, k>>]] = RootOf[r1]
      BY <3>1, <3>2
    <3>4. fuse'[t].delta = d /\ roots'[t].r1 = r1
      BY <1>1 DEF d, r1
    <3> QED BY <1>1, <1>4, <2>1, <3>1, <3>3, <3>4 DEF LoanInv, Fused
  <2>2. CASE u # t
    <3>1. Growing
      BY <1>1 DEF Growing
    <3>2. LoanInv(loc, u)'
      BY <2>2, <3>1, OtherLoans
    <3>3. \A k \in Nat : lent[<<u, k>>] = loc[<<u, k>>]
      BY <1>10, <2>2
    <3>4. /\ \A k \in 1 .. Owed(u)' : k \in Nat
          /\ pc'[u] = "cas_r2" => fuse'[u].delta \in Nat
      <4>1. Owed(u)' \in Int /\ (pc[u] = "cas_r2" => fuse[u].delta \in Nat)
        <5>1. fuse[u].delta \in Int /\ roots[u].n2 \in Int
          BY <1>9 DEF TypeOK
        <5>2. Owed(u) \in Int
          BY <5>1 DEF Owed
        <5>3. pc[u] = "cas_r2" => fuse[u].delta \in Nat
          BY OwedFacts
        <5> QED BY <1>5, <2>2, <5>2, <5>3
      <4> QED BY <2>2, <4>1 DEF OthersKeep
    <3>5. pc'[u] = "cas_r2" => \A k \in (fuse'[u].delta + 1) .. Owed(u)' : k \in Nat
      BY <3>4
    <3> QED BY <3>2, <3>3, <3>4, <3>5 DEF LoanInv, Fused
  <2> QED BY <2>1, <2>2
<1>16. AccountInv(lent)'
  BY <1>14, <1>15 DEF AccountInv
<1> QED BY <1>16

(* A thread that owes nothing.                                             *)
LEMMA NoLoan ==
  ASSUME NEW t \in Thread, NEW loc, Owed(t)' = 0, pc'[t] # "cas_r2" PROVE LoanInv(loc, t)'
<1>1. 1 .. 0 = {}
  OBVIOUS
<1> QED BY <1>1 DEF LoanInv

(* FixupRefs takes back what the Fuse has lent, all of it to this root.    *)
LEMMA RepayAccount ==
  ASSUME Base, RefInv, NEW t \in Thread, OthersKeep(t), NEW loc, AccountInv(loc), Repay(t)
  PROVE  AccountInv(loc)'
<1> DEFINE r1 == roots[t].r1
           n1 == roots[t].n1
           d  == fuse[t].delta
           old == {t} \X (1 .. d)
<1>1. /\ pc[t] = "fx_cas" /\ pc'[t] = "ret"
      /\ parent_or_count[r1] = TaggedFromRefcount(n1)
      /\ parent_or_count' = [parent_or_count EXCEPT ![r1] = TaggedFromRefcount(n1 - d)]
      /\ UNCHANGED <<status, refs>> /\ RootOf' = RootOf
  BY DEF Repay
<1>2. /\ Owed(t) = d /\ d \in Nat /\ n1 \in Int /\ call[t].op = "Fuse"
      /\ call[t].a \in Arena /\ call[t].b \in Arena
  BY <1>1, OwedFacts
<1>3. /\ r1 \in Arena /\ RootOf[r1] = r1 /\ parent_or_count[r1].val = n1
      /\ r1 = RootOf[call[t].a] /\ r1 = RootOf[call[t].b]
  BY <1>1, FuseRoot
<1>4. Owed(t)' = 0
  BY <1>1 DEF Owed
<1>5. \A u \in Thread : u # t => Owed(u)' = Owed(u)
  BY OthersStand
<1>6. \A u \in Thread : /\ Frees(u)' <=> Frees(u)
                        /\ Frees(u) => call'[u].a = call[u].a
  <2>1. ~Frees(t) /\ ~Frees(t)'
    BY <1>1 DEF Frees
  <2> QED BY <2>1, OthersStand
<1>7. \A r \in Arena : Counted(r)' <=> Counted(r)
  BY MostSettled, SettledDead
<1>8. \A r \in Arena : parent_or_count'[r].val = IF r = r1 THEN n1 - d ELSE parent_or_count[r].val
  BY <1>1, <1>3 DEF Base, IndInv, TypeOK, TaggedFromRefcount
<1> HIDE DEF r1, n1, d
<1>9. \A k \in 1 .. d : RootOf[loc[<<t, k>>]] = r1
  BY <1>2, <1>3 DEF AccountInv, LoanInv, Fused
<1>10. ASSUME NEW r \in Arena
       PROVE  LentTo(loc, r)' = IF r = r1 THEN LentTo(loc, r) \ old ELSE LentTo(loc, r)
  <2>1. ASSUME NEW u \in Thread, NEW k \in Nat
        PROVE  <<u, k>> \in LentTo(loc, r)' <=>
                 <<u, k>> \in IF r = r1 THEN LentTo(loc, r) \ old ELSE LentTo(loc, r)
    <3>1. <<u, k>> \in LentTo(loc, r)' <=> (k \in 1 .. Owed(u)' /\ RootOf[loc[<<u, k>>]] = r)
      BY <1>1 DEF LentTo
    <3>2. <<u, k>> \in LentTo(loc, r) <=> (k \in 1 .. Owed(u) /\ RootOf[loc[<<u, k>>]] = r)
      BY DEF LentTo
    <3>3. <<u, k>> \in old <=> u = t /\ k \in 1 .. d
      OBVIOUS
    <3>4. CASE u # t
      BY <1>5, <3>1, <3>2, <3>3, <3>4
    <3>5. CASE u = t
      <4>1. ~(k \in 1 .. Owed(u)')
        BY <1>4, <3>5
      <4>2. k \in 1 .. Owed(u) <=> k \in 1 .. d
        BY <1>2, <3>5
      <4> QED BY <1>9, <3>1, <3>2, <3>3, <3>5, <4>1, <4>2
    <3> QED BY <3>4, <3>5
  <2>2. LentTo(loc, r)' \subseteq Thread \X Nat /\ LentTo(loc, r) \subseteq Thread \X Nat
    BY DEF LentTo
  <2> HIDE DEF old
  <2>3. \A x \in Thread \X Nat : x \in LentTo(loc, r)' <=>
                 x \in IF r = r1 THEN LentTo(loc, r) \ old ELSE LentTo(loc, r)
    BY <2>1
  <2> QED BY <2>2, <2>3
<1>11. IsFiniteSet(old) /\ Cardinality(old) = d
  <2>1. \A m, n \in Nat : /\ IsFiniteSet({t} \X ((m + 1) .. (m + n)))
                          /\ Cardinality({t} \X ((m + 1) .. (m + n))) = n
    BY Tokens
  <2>2. 0 + 1 = 1 /\ 0 + d = d
    BY <1>2
  <2> QED BY <1>2, <2>1, <2>2
<1>12. old \subseteq LentTo(loc, r1)
  <2> SUFFICES ASSUME NEW x \in old PROVE x \in LentTo(loc, r1)
    OBVIOUS
  <2>1. PICK k \in 1 .. d : x = <<t, k>>
    OBVIOUS
  <2>2. k \in Nat /\ k \in 1 .. Owed(t) /\ RootOf[loc[<<t, k>>]] = r1
    BY <1>2, <1>9
  <2> QED BY <2>1, <2>2 DEF LentTo
<1> HIDE DEF old
<1>13. ASSUME NEW r \in Arena, Counted(r)' PROVE Balanced(loc, r)'
  <2>1. Balanced(loc, r)
    BY <1>7, <1>13 DEF AccountInv
  <2>2. RefsOn(r)' = RefsOn(r) /\ FreesOn(r)' = FreesOn(r)
    BY <1>1, <1>6, SameRefs, SameFrees
  <2>3. /\ IsFiniteSet(RefsOn(r)) /\ IsFiniteSet(FreesOn(r)) /\ IsFiniteSet(LentTo(loc, r))
        /\ Cardinality(RefsOn(r)) \in Nat /\ Cardinality(FreesOn(r)) \in Nat
        /\ Cardinality(LentTo(loc, r)) \in Nat
        /\ parent_or_count[r].val =
             Cardinality(RefsOn(r)) + Cardinality(FreesOn(r)) + Cardinality(LentTo(loc, r))
    BY <2>1, Balance DEF Balanced
  <2>4. CASE r # r1
    <3>1. LentTo(loc, r)' = LentTo(loc, r)
      BY <1>10, <2>4
    <3> QED BY <1>8, <2>1, <2>2, <2>4, <3>1, SameBalance
  <2>5. CASE r = r1
    <3>1. LentTo(loc, r)' = LentTo(loc, r) \ old
      BY <1>10, <2>5
    <3>2. IsFiniteSet(LentTo(loc, r)') /\ Cardinality(LentTo(loc, r)') = Cardinality(LentTo(loc, r)) - d
      <4>1. IsFiniteSet(LentTo(loc, r)) /\ old \subseteq LentTo(loc, r)
        BY <1>12, <2>3, <2>5
      <4>2. /\ IsFiniteSet(LentTo(loc, r) \ old)
            /\ Cardinality(LentTo(loc, r) \ old) = Cardinality(LentTo(loc, r)) - Cardinality(old)
        BY <4>1, PartRemoved
      <4> QED BY <1>11, <3>1, <4>2
    <3>3. parent_or_count'[r].val = parent_or_count[r].val - d
      BY <1>3, <1>8, <2>5
    <3>4. parent_or_count'[r].val =
             Cardinality(RefsOn(r)) + Cardinality(FreesOn(r)) + Cardinality(LentTo(loc, r)')
      BY <1>2, <2>3, <3>2, <3>3
    <3> QED BY <2>2, <2>3, <3>2, <3>4 DEF Balanced
  <2> QED BY <2>4, <2>5
<1>14. \A u \in Thread : LoanInv(loc, u)'
  <2>1. Growing
    BY <1>1 DEF Growing
  <2> QED BY <1>1, <1>4, <2>1, NoLoan, OtherLoans
<1> QED BY <1>13, <1>14 DEF AccountInv

(* IncRefFor counts one reference more.                                    *)
LEMMA GainAccount ==
  ASSUME Base, RefInv, NEW t \in Thread, OthersKeep(t), NEW loc, AccountInv(loc), Gain(t)
  PROVE  AccountInv(loc)'
<1> DEFINE r0 == walk[t].ai
           a  == call[t].a
           n  == walk[t].n
           x  == <<a, refs[a] + 1>>
<1>t. TypeOK /\ CallInv(t) /\ DeadInv
  BY DEF Base, IndInv, GroupInv, ThreadGroup, RefInv
<1>1. /\ pc[t] = "inc_cas" /\ pc'[t] = "ret" /\ call[t].op # "Fuse"
      /\ parent_or_count[r0] = TaggedFromRefcount(n) /\ n \in Int
      /\ parent_or_count' = [parent_or_count EXCEPT ![r0] = TaggedFromRefcount(n + 1)]
      /\ refs' = [refs EXCEPT ![a] = @ + 1]
      /\ UNCHANGED status /\ RootOf' = RootOf /\ call'[t].op = call[t].op
  BY <1>t DEF Gain, TypeOK, CallInv
<1>2. r0 \in Arena /\ r0 = RootOf[a] /\ parent_or_count[r0].val = n /\ a \in Arena
  BY <1>1, FreeRoot, Pointers
<1>3. refs[a] \in Nat
  BY <1>2, <1>t DEF DeadInv, TypeOK
<1>4. \A u \in Thread : /\ Frees(u)' <=> Frees(u)
                        /\ Frees(u) => call'[u].a = call[u].a
                        /\ Owed(u)' = Owed(u)
  <2>1. ~Frees(t) /\ ~Frees(t)' /\ Owed(t) = 0 /\ Owed(t)' = 0
    BY <1>1 DEF Frees, Owed
  <2> QED BY <2>1, OthersStand
<1>5. Owed(t)' = 0
  BY <1>1 DEF Owed
<1>6. \A r \in Arena : Counted(r)' <=> Counted(r)
  BY MostSettled, SettledDead
<1>7. \A r \in Arena : parent_or_count'[r].val = IF r = r0 THEN n + 1 ELSE parent_or_count[r].val
  BY <1>1, <1>2, <1>t DEF TypeOK, TaggedFromRefcount
<1>8. \A b \in Arena : refs'[b] = IF b = a THEN refs[a] + 1 ELSE refs[b]
  BY <1>1, <1>2, <1>t DEF TypeOK
<1> HIDE DEF r0, a, n
<1>9. ASSUME NEW r \in Arena
      PROVE  RefsOn(r)' = IF r = r0 THEN RefsOn(r) \cup {x} ELSE RefsOn(r)
  <2>1. ASSUME NEW b \in Arena, NEW k \in Nat
        PROVE  <<b, k>> \in RefsOn(r)' <=>
                 <<b, k>> \in IF r = r0 THEN RefsOn(r) \cup {x} ELSE RefsOn(r)
    <3>1. <<b, k>> \in RefsOn(r)' <=> (k \in 1 .. refs'[b] /\ RootOf[b] = r)
      BY <1>1 DEF RefsOn
    <3>2. <<b, k>> \in RefsOn(r) <=> (k \in 1 .. refs[b] /\ RootOf[b] = r)
      BY DEF RefsOn
    <3>3. CASE b # a
      BY <1>8, <3>1, <3>2, <3>3
    <3>4. CASE b = a
      <4>1. k \in 1 .. refs'[b] <=> k \in 1 .. refs[a] \/ k = refs[a] + 1
        BY <1>3, <1>8, <3>4
      <4> QED BY <1>2, <3>1, <3>2, <3>4, <4>1
    <3> QED BY <3>3, <3>4
  <2>2. RefsOn(r)' \subseteq Arena \X Nat /\ RefsOn(r) \subseteq Arena \X Nat
    BY DEF RefsOn
  <2>3. x \in Arena \X Nat
    BY <1>2, <1>3
  <2> HIDE DEF x
  <2>4. \A y \in Arena \X Nat : y \in RefsOn(r)' <=>
                 y \in IF r = r0 THEN RefsOn(r) \cup {x} ELSE RefsOn(r)
    BY <2>1
  <2> QED BY <2>2, <2>3, <2>4
<1>10. x \notin RefsOn(r0)
  <2>1. ~(refs[a] + 1 \in 1 .. refs[a])
    BY <1>3
  <2> QED BY <2>1 DEF RefsOn
<1> HIDE DEF x
<1>11. ASSUME NEW r \in Arena, Counted(r)' PROVE Balanced(loc, r)'
  <2>1. Balanced(loc, r)
    BY <1>6, <1>11 DEF AccountInv
  <2>2. FreesOn(r)' = FreesOn(r)
    BY <1>1, <1>4, SameFrees
  <2>3. LentTo(loc, r)' = LentTo(loc, r)
    BY <1>1, <1>4, SameLent
  <2>4. CASE r # r0
    <3>1. RefsOn(r)' = RefsOn(r)
      BY <1>9, <2>4
    <3> QED BY <1>7, <2>1, <2>2, <2>3, <2>4, <3>1, SameBalance
  <2>5. CASE r = r0
    <3>1. RefsOn(r)' = RefsOn(r) \cup {x}
      BY <1>9, <2>5
    <3>2. /\ IsFiniteSet(RefsOn(r)) /\ IsFiniteSet(FreesOn(r)) /\ IsFiniteSet(LentTo(loc, r))
          /\ Cardinality(RefsOn(r)) \in Nat /\ Cardinality(FreesOn(r)) \in Nat
          /\ Cardinality(LentTo(loc, r)) \in Nat
          /\ parent_or_count[r].val =
               Cardinality(RefsOn(r)) + Cardinality(FreesOn(r)) + Cardinality(LentTo(loc, r))
      BY <2>1, Balance DEF Balanced
    <3>3. IsFiniteSet(RefsOn(r)') /\ Cardinality(RefsOn(r)') = Cardinality(RefsOn(r)) + 1
      BY <1>10, <2>5, <3>1, <3>2, FS_AddElement
    <3>4. parent_or_count'[r].val =
            Cardinality(RefsOn(r)') + Cardinality(FreesOn(r)) + Cardinality(LentTo(loc, r))
      BY <1>2, <1>7, <2>5, <3>2, <3>3
    <3> QED BY <2>2, <2>3, <3>2, <3>3, <3>4 DEF Balanced
  <2> QED BY <2>4, <2>5
<1>12. \A u \in Thread : LoanInv(loc, u)'
  <2>1. Growing
    BY <1>1 DEF Growing
  <2> QED BY <1>1, <1>5, <2>1, NoLoan, OtherLoans
<1> QED BY <1>11, <1>12 DEF AccountInv

(* A reference given up becomes a Free still to be counted,                *)
LEMMA ReleaseAccount ==
  ASSUME Base, RefInv, NEW t \in Thread, OthersKeep(t), NEW loc, AccountInv(loc), Release(t)
  PROVE  AccountInv(loc)'
<1>t. TypeOK /\ DeadInv
  BY DEF Base, IndInv, RefInv
<1>1. PICK a \in Arena : /\ pc[t] = "idle" /\ pc'[t] = "free_load"
                         /\ CanRelease(a)
                         /\ refs' = [refs EXCEPT ![a] = @ - 1]
                         /\ call'[t].op = "Free" /\ call'[t].a = a
                         /\ UNCHANGED <<status, parent_or_count>> /\ RootOf' = RootOf
  BY DEF Release
<1> DEFINE r0 == RootOf[a]
           x  == <<a, refs[a]>>
<1>2. refs[a] \in Nat /\ refs[a] >= 1
  BY <1>1, <1>t DEF TypeOK, CanRelease, CanUse
<1>3. \A b \in Arena : refs'[b] = IF b = a THEN refs[a] - 1 ELSE refs[b]
  BY <1>1, <1>t DEF TypeOK
<1>4. ~Frees(t) /\ Frees(t)' /\ Owed(t) = 0 /\ Owed(t)' = 0
  BY <1>1 DEF Frees, Owed
<1>5. \A r \in Arena : Counted(r)' <=> Counted(r)
  BY MostSettled, SettledDead
<1> HIDE DEF r0
<1>6. ASSUME NEW r \in Arena
      PROVE  RefsOn(r)' = IF r = r0 THEN RefsOn(r) \ {x} ELSE RefsOn(r)
  <2>1. ASSUME NEW b \in Arena, NEW k \in Nat
        PROVE  <<b, k>> \in RefsOn(r)' <=>
                 <<b, k>> \in IF r = r0 THEN RefsOn(r) \ {x} ELSE RefsOn(r)
    <3>1. <<b, k>> \in RefsOn(r)' <=> (k \in 1 .. refs'[b] /\ RootOf[b] = r)
      BY <1>1 DEF RefsOn
    <3>2. <<b, k>> \in RefsOn(r) <=> (k \in 1 .. refs[b] /\ RootOf[b] = r)
      BY DEF RefsOn
    <3>3. CASE b # a
      BY <1>3, <3>1, <3>2, <3>3
    <3>4. CASE b = a
      <4>1. k \in 1 .. refs'[b] <=> k \in 1 .. refs[a] /\ k # refs[a]
        BY <1>2, <1>3, <3>4
      <4> QED BY <3>1, <3>2, <3>4, <4>1 DEF r0
    <3> QED BY <3>3, <3>4
  <2>2. RefsOn(r)' \subseteq Arena \X Nat /\ RefsOn(r) \subseteq Arena \X Nat
    BY DEF RefsOn
  <2> HIDE DEF x
  <2>4. \A y \in Arena \X Nat : y \in RefsOn(r)' <=>
                 y \in IF r = r0 THEN RefsOn(r) \ {x} ELSE RefsOn(r)
    BY <2>1
  <2> QED BY <2>2, <2>4
<1>7. x \in RefsOn(r0)
  BY <1>2 DEF RefsOn, r0
<1> HIDE DEF x
<1>8. ASSUME NEW r \in Arena
      PROVE  FreesOn(r)' = IF r = r0 THEN FreesOn(r) \cup {t} ELSE FreesOn(r)
  BY <1>1, <1>4, OthersStand DEF FreesOn, r0
<1>9. t \notin FreesOn(r0)
  BY <1>4 DEF FreesOn
<1>10. \A u \in Thread : Owed(u)' = Owed(u)
  BY <1>4, OthersStand
<1>11. ASSUME NEW r \in Arena, Counted(r)' PROVE Balanced(loc, r)'
  <2>1. Balanced(loc, r)
    BY <1>5, <1>11 DEF AccountInv
  <2>2. LentTo(loc, r)' = LentTo(loc, r)
    BY <1>1, <1>10, SameLent
  <2>4. CASE r # r0
    BY <1>1, <1>6, <1>8, <2>1, <2>2, <2>4, SameBalance
  <2>5. CASE r = r0
    <3>1. RefsOn(r)' = RefsOn(r) \ {x} /\ FreesOn(r)' = FreesOn(r) \cup {t}
      BY <1>6, <1>8, <2>5
    <3>2. /\ IsFiniteSet(RefsOn(r)) /\ IsFiniteSet(FreesOn(r)) /\ IsFiniteSet(LentTo(loc, r))
          /\ Cardinality(RefsOn(r)) \in Nat /\ Cardinality(FreesOn(r)) \in Nat
          /\ Cardinality(LentTo(loc, r)) \in Nat
          /\ parent_or_count[r].val =
               Cardinality(RefsOn(r)) + Cardinality(FreesOn(r)) + Cardinality(LentTo(loc, r))
      BY <2>1, Balance DEF Balanced
    <3>3. IsFiniteSet(RefsOn(r)') /\ Cardinality(RefsOn(r)') = Cardinality(RefsOn(r)) - 1
      BY <1>7, <2>5, <3>1, <3>2, FS_RemoveElement
    <3>4. IsFiniteSet(FreesOn(r)') /\ Cardinality(FreesOn(r)') = Cardinality(FreesOn(r)) + 1
      BY <1>9, <2>5, <3>1, <3>2, FS_AddElement
    <3>5. parent_or_count'[r].val =
            Cardinality(RefsOn(r)') + Cardinality(FreesOn(r)') + Cardinality(LentTo(loc, r))
      BY <1>1, <3>2, <3>3, <3>4
    <3> QED BY <2>2, <3>2, <3>3, <3>4, <3>5 DEF Balanced
  <2> QED BY <2>4, <2>5
<1>12. \A u \in Thread : LoanInv(loc, u)'
  <2>1. Growing
    BY <1>1 DEF Growing
  <2> QED BY <1>1, <1>4, <2>1, NoLoan, OtherLoans
<1> QED BY <1>11, <1>12 DEF AccountInv

(* which Free counts down,                                                 *)
LEMMA CountDownAccount ==
  ASSUME Base, RefInv, NEW t \in Thread, OthersKeep(t), NEW loc, AccountInv(loc), CountDown(t)
  PROVE  AccountInv(loc)'
<1> DEFINE r0 == walk[t].ai
           n  == walk[t].n
<1>t. TypeOK /\ CallInv(t)
  BY DEF Base, IndInv, GroupInv, ThreadGroup
<1>1. /\ pc[t] = "free_cas" /\ pc'[t] = "ret" /\ call[t].op = "Free"
      /\ parent_or_count[r0] = TaggedFromRefcount(n) /\ n \in Int
      /\ parent_or_count' = [parent_or_count EXCEPT ![r0] = TaggedFromRefcount(n - 1)]
      /\ UNCHANGED <<status, refs>> /\ RootOf' = RootOf
  BY <1>t DEF CountDown, TypeOK, CallInv
<1>2. Frees(t) /\ ~Frees(t)' /\ Owed(t) = 0 /\ Owed(t)' = 0
  BY <1>1 DEF Frees, Owed
<1>3. r0 \in Arena /\ r0 = RootOf[call[t].a] /\ parent_or_count[r0].val = n
  BY <1>1, <1>2, FreeRoot
<1>4. \A u \in Thread : Owed(u)' = Owed(u)
  BY <1>2, OthersStand
<1>5. \A r \in Arena : Counted(r)' <=> Counted(r)
  BY MostSettled, SettledDead
<1>6. \A r \in Arena : parent_or_count'[r].val = IF r = r0 THEN n - 1 ELSE parent_or_count[r].val
  BY <1>1, <1>3, <1>t DEF TypeOK, TaggedFromRefcount
<1> HIDE DEF r0, n
<1>7. ASSUME NEW r \in Arena
      PROVE  FreesOn(r)' = IF r = r0 THEN FreesOn(r) \ {t} ELSE FreesOn(r)
  BY <1>1, <1>2, <1>3, OthersStand DEF FreesOn
<1>8. t \in FreesOn(r0)
  BY <1>2, <1>3 DEF FreesOn
<1>9. ASSUME NEW r \in Arena, Counted(r)' PROVE Balanced(loc, r)'
  <2>1. Balanced(loc, r)
    BY <1>5, <1>9 DEF AccountInv
  <2>2. LentTo(loc, r)' = LentTo(loc, r)
    BY <1>1, <1>4, SameLent
  <2>3. RefsOn(r)' = RefsOn(r)
    BY <1>1, SameRefs
  <2>4. CASE r # r0
    BY <1>6, <1>7, <2>1, <2>2, <2>3, <2>4, SameBalance
  <2>5. CASE r = r0
    <3>1. FreesOn(r)' = FreesOn(r) \ {t}
      BY <1>7, <2>5
    <3>2. /\ IsFiniteSet(RefsOn(r)) /\ IsFiniteSet(FreesOn(r)) /\ IsFiniteSet(LentTo(loc, r))
          /\ Cardinality(RefsOn(r)) \in Nat /\ Cardinality(FreesOn(r)) \in Nat
          /\ Cardinality(LentTo(loc, r)) \in Nat
          /\ parent_or_count[r].val =
               Cardinality(RefsOn(r)) + Cardinality(FreesOn(r)) + Cardinality(LentTo(loc, r))
      BY <2>1, Balance DEF Balanced
    <3>3. IsFiniteSet(FreesOn(r)') /\ Cardinality(FreesOn(r)') = Cardinality(FreesOn(r)) - 1
      BY <1>8, <2>5, <3>1, <3>2, FS_RemoveElement
    <3>4. parent_or_count'[r].val =
            Cardinality(RefsOn(r)) + Cardinality(FreesOn(r)') + Cardinality(LentTo(loc, r))
      BY <1>3, <1>6, <2>5, <3>2, <3>3
    <3> QED BY <2>2, <2>3, <3>2, <3>3, <3>4 DEF Balanced
  <2> QED BY <2>4, <2>5
<1>10. \A u \in Thread : LoanInv(loc, u)'
  <2>1. Growing
    BY <1>1 DEF Growing
  <2> QED BY <1>1, <1>2, <2>1, NoLoan, OtherLoans
<1> QED BY <1>9, <1>10 DEF AccountInv

(* unless it is the last, when the count is of no use any more.            *)
LEMMA FreeAccount ==
  ASSUME Base, RefInv, NEW t \in Thread, OthersKeep(t), NEW loc, AccountInv(loc),
         Last(t) \/ GiveBack(t)
  PROVE  AccountInv(loc)'
<1>1. /\ UNCHANGED <<refs, parent_or_count>> /\ RootOf' = RootOf
      /\ pc[t] \in {"free_load", "free_cas", "df_blocks"} /\ pc'[t] \in {"df_next", "ret"}
      /\ call'[t].op = call[t].op /\ call'[t].a = call[t].a
  BY DEF Last, GiveBack, Frees
<1>2. call[t].op = "Free"
  BY <1>1 DEF Base, GroupInv, ThreadGroup, CallInv
<1>3. Owed(t) = 0 /\ Owed(t)' = 0 /\ ~Frees(t)' /\ pc'[t] # "cas_r2"
  BY <1>1, <1>2 DEF Owed, Frees
<1>4. \A u \in Thread : Owed(u)' = Owed(u)
  BY <1>3, OthersStand
<1>5. ASSUME NEW r \in Arena, Counted(r)'
      PROVE  Counted(r) /\ (Frees(t) => RootOf[call[t].a] # r)
  <2>1. CASE Last(t)
    BY <1>5, <2>1, LastDead
  <2>2. CASE GiveBack(t)
    BY <1>5, <2>2, GiveBackDead DEF GiveBack, Frees
  <2> QED BY <2>1, <2>2
<1>6. ASSUME NEW r \in Arena, Counted(r)' PROVE Balanced(loc, r)'
  <2>1. Balanced(loc, r)
    BY <1>5, <1>6 DEF AccountInv
  <2>2. RefsOn(r)' = RefsOn(r)
    BY <1>1, SameRefs
  <2>3. LentTo(loc, r)' = LentTo(loc, r)
    BY <1>1, <1>4, SameLent
  <2>4. FreesOn(r)' = FreesOn(r)
    BY <1>1, <1>3, <1>5, <1>6, OthersStand DEF FreesOn
  <2> QED BY <1>1, <2>1, <2>2, <2>3, <2>4, SameBalance
<1>7. \A u \in Thread : LoanInv(loc, u)'
  <2>1. Growing
    BY <1>1 DEF Growing
  <2> QED BY <1>3, <2>1, NoLoan, OtherLoans
<1> QED BY <1>6, <1>7 DEF AccountInv

(* When r2 becomes a child of r1, what its count stood for is already      *)
(* counted at r1: it was lent.                                             *)
LEMMA JoinAccount ==
  ASSUME Base, RefInv, NEW t \in Thread, OthersKeep(t), NEW loc, AccountInv(loc), JoinStep(t)
  PROVE  AccountInv(loc)'
<1>x. PICK x : x = RootOf[roots[t].r1]
  OBVIOUS
<1>y. PICK y : y = roots[t].r2
  OBVIOUS
<1> DEFINE n2 == roots[t].n2
           d  == fuse[t].delta
           old == {t} \X ((d + 1) .. (d + n2))
<1>t. TypeOK /\ RootInv
  BY DEF Base, IndInv, GroupInv
<1>1. /\ pc[t] = "cas_r2" /\ pc'[t] = "lf_tail"
      /\ parent_or_count[y] = TaggedFromRefcount(n2)
      /\ parent_or_count' = [parent_or_count EXCEPT ![y] = TaggedFromPointer(roots[t].r1)]
      /\ UNCHANGED <<status, refs, call, fuse>>
  BY <1>y DEF JoinStep, fusing
<1>2. /\ x \in Arena /\ y \in Arena /\ x # y /\ RootOf[y] = y /\ RootOf[x] = x
      /\ Counted(x) /\ Counted(y)
      /\ \A a \in Arena : RootOf'[a] = IF RootOf[a] = y THEN x ELSE RootOf[a]
  BY <1>x, <1>y, JoinRoots
<1>3. /\ Owed(t) = d + n2 /\ d \in Nat /\ n2 \in Nat /\ call[t].op = "Fuse"
      /\ call[t].a \in Arena /\ call[t].b \in Arena
  BY <1>1, OwedFacts
<1>4. Owed(t)' = d
  BY <1>1, <1>3 DEF Owed
<1>5. \A u \in Thread : u # t => Owed(u)' = Owed(u)
  BY OthersStand
<1>6. \A r \in Arena : Counted(r)' <=> (Counted(r) /\ r # y)
  BY <1>y, JoinDead
<1>7. /\ \A r \in Arena : r # y => parent_or_count'[r].val = parent_or_count[r].val
      /\ parent_or_count[y].val = n2
  BY <1>1, <1>2, <1>t DEF TypeOK, TaggedFromRefcount
<1>8. \A k \in (d + 1) .. (d + n2) : RootOf[loc[<<t, k>>]] = x
  <2>1. \A k \in (d + 1) .. Owed(t) : Fused(loc[<<t, k>>], roots[t].r1)
    BY <1>1 DEF AccountInv, LoanInv
  <2> QED BY <1>x, <1>3, <2>1 DEF Fused
<1>9. \A u \in Thread : Frees(u)' <=> Frees(u)
  <2>1. ~Frees(t) /\ ~Frees(t)'
    BY <1>1 DEF Frees
  <2> QED BY <2>1, OthersStand
<1>10. \A u \in Thread : Frees(u) => call[u].a \in Arena
  <2> SUFFICES ASSUME NEW u \in Thread, Frees(u) PROVE call[u].a \in Arena
    OBVIOUS
  <2>1. pc[u] # "idle" /\ CallInv(u)
    BY DEF Frees, Base, GroupInv, ThreadGroup
  <2> QED BY <2>1, FrameArenas DEF Base
<1>11. \A u \in Thread : \A k \in 1 .. Owed(u) : loc[<<u, k>>] \in Arena
  BY DEF AccountInv, LoanInv
<1> HIDE DEF n2, d
<1>12. ASSUME NEW r \in Arena, r # y
       PROVE  RefsOn(r)' = IF r = x THEN RefsOn(x) \cup RefsOn(y) ELSE RefsOn(r)
  BY <1>1, <1>2, <1>12 DEF RefsOn
<1>13. ASSUME NEW r \in Arena, r # y
       PROVE  FreesOn(r)' = IF r = x THEN FreesOn(x) \cup FreesOn(y) ELSE FreesOn(r)
  BY <1>1, <1>2, <1>9, <1>10, <1>13 DEF FreesOn
<1>14. ASSUME NEW r \in Arena, r # y
       PROVE  LentTo(loc, r)' = IF r = x THEN (LentTo(loc, x) \ old) \cup LentTo(loc, y)
                                ELSE LentTo(loc, r)
  <2> DEFINE new == IF r = x THEN (LentTo(loc, x) \ old) \cup LentTo(loc, y) ELSE LentTo(loc, r)
  <2>1. ASSUME NEW u \in Thread, NEW k \in Nat
        PROVE  <<u, k>> \in LentTo(loc, r)' <=> <<u, k>> \in new
    <3>1. <<u, k>> \in LentTo(loc, r)' <=> (k \in 1 .. Owed(u)' /\ RootOf'[loc[<<u, k>>]] = r)
      BY DEF LentTo
    <3>2. \A s : <<u, k>> \in LentTo(loc, s) <=> (k \in 1 .. Owed(u) /\ RootOf[loc[<<u, k>>]] = s)
      BY DEF LentTo
    <3>3. <<u, k>> \in old <=> u = t /\ k \in (d + 1) .. (d + n2)
      OBVIOUS
    <3>4. k \in 1 .. Owed(u) =>
            RootOf'[loc[<<u, k>>]] = IF RootOf[loc[<<u, k>>]] = y THEN x ELSE RootOf[loc[<<u, k>>]]
      BY <1>2, <1>11
    <3>5. k \in 1 .. Owed(u)' <=> k \in 1 .. Owed(u) /\ ~(<<u, k>> \in old)
      <4>1. CASE u # t
        BY <1>5, <3>3, <4>1
      <4>2. CASE u = t
        BY <1>3, <1>4, <3>3, <4>2
      <4> QED BY <4>1, <4>2
    <3>6. <<u, k>> \in old => RootOf[loc[<<u, k>>]] = x
      BY <1>8, <3>3
    <3> HIDE DEF old
    <3> QED BY <1>2, <1>14, <3>1, <3>2, <3>4, <3>5, <3>6
  <2>2. \A s : LentTo(loc, s) \subseteq Thread \X Nat
    BY DEF LentTo
  <2>3. LentTo(loc, r)' \subseteq Thread \X Nat
    BY DEF LentTo
  <2>4. new \subseteq Thread \X Nat
    BY <2>2
  <2> HIDE DEF new
  <2>5. \A z \in Thread \X Nat : z \in LentTo(loc, r)' <=> z \in new
    BY <2>1
  <2>6. LentTo(loc, r)' = new
    BY <2>3, <2>4, <2>5
  <2> QED BY <2>6 DEF new
<1>15. IsFiniteSet(old) /\ Cardinality(old) = n2
  <2>1. \A m, n \in Nat : /\ IsFiniteSet({t} \X ((m + 1) .. (m + n)))
                          /\ Cardinality({t} \X ((m + 1) .. (m + n))) = n
    BY Tokens
  <2> QED BY <1>3, <2>1
<1>16. old \subseteq LentTo(loc, x)
  <2> SUFFICES ASSUME NEW z \in old PROVE z \in LentTo(loc, x)
    OBVIOUS
  <2>1. PICK k \in (d + 1) .. (d + n2) : z = <<t, k>>
    OBVIOUS
  <2>2. k \in Nat /\ k \in 1 .. Owed(t) /\ RootOf[loc[<<t, k>>]] = x
    BY <1>3, <1>8
  <2> QED BY <2>1, <2>2 DEF LentTo
<1> HIDE DEF old
<1>17. Balanced(loc, x)'
  <2>1. Balanced(loc, x) /\ Balanced(loc, y)
    BY <1>2 DEF AccountInv
  <2>2. /\ IsFiniteSet(RefsOn(x)) /\ IsFiniteSet(FreesOn(x)) /\ IsFiniteSet(LentTo(loc, x))
        /\ Cardinality(RefsOn(x)) \in Nat /\ Cardinality(FreesOn(x)) \in Nat
        /\ Cardinality(LentTo(loc, x)) \in Nat
        /\ parent_or_count[x].val =
             Cardinality(RefsOn(x)) + Cardinality(FreesOn(x)) + Cardinality(LentTo(loc, x))
    BY <2>1, Balance DEF Balanced
  <2>3. /\ IsFiniteSet(RefsOn(y)) /\ IsFiniteSet(FreesOn(y)) /\ IsFiniteSet(LentTo(loc, y))
        /\ Cardinality(RefsOn(y)) \in Nat /\ Cardinality(FreesOn(y)) \in Nat
        /\ Cardinality(LentTo(loc, y)) \in Nat
        /\ n2 = Cardinality(RefsOn(y)) + Cardinality(FreesOn(y)) + Cardinality(LentTo(loc, y))
    BY <1>7, <2>1, Balance DEF Balanced
  <2>4. /\ RefsOn(x) \cap RefsOn(y) = {} /\ FreesOn(x) \cap FreesOn(y) = {}
        /\ LentTo(loc, x) \cap LentTo(loc, y) = {}
    BY <1>2 DEF RefsOn, FreesOn, LentTo
  <2>5. /\ IsFiniteSet(RefsOn(x)')
        /\ Cardinality(RefsOn(x)') = Cardinality(RefsOn(x)) + Cardinality(RefsOn(y))
    <3>1. RefsOn(x)' = RefsOn(x) \cup RefsOn(y)
      BY <1>2, <1>12
    <3> QED BY <2>2, <2>3, <2>4, <3>1, DisjointSum
  <2>6. /\ IsFiniteSet(FreesOn(x)')
        /\ Cardinality(FreesOn(x)') = Cardinality(FreesOn(x)) + Cardinality(FreesOn(y))
    <3>1. FreesOn(x)' = FreesOn(x) \cup FreesOn(y)
      BY <1>2, <1>13
    <3> QED BY <2>2, <2>3, <2>4, <3>1, DisjointSum
  <2>7. /\ IsFiniteSet(LentTo(loc, x)')
        /\ Cardinality(LentTo(loc, x)') = Cardinality(LentTo(loc, x)) - n2 + Cardinality(LentTo(loc, y))
    <3>1. LentTo(loc, x)' = (LentTo(loc, x) \ old) \cup LentTo(loc, y)
      BY <1>2, <1>14
    <3>2. /\ IsFiniteSet(LentTo(loc, x) \ old)
          /\ Cardinality(LentTo(loc, x) \ old) = Cardinality(LentTo(loc, x)) - Cardinality(old)
      BY <1>16, <2>2, PartRemoved
    <3>3. (LentTo(loc, x) \ old) \cap LentTo(loc, y) = {}
      BY <2>4
    <3>4. Cardinality((LentTo(loc, x) \ old) \cup LentTo(loc, y)) =
            Cardinality(LentTo(loc, x) \ old) + Cardinality(LentTo(loc, y))
          /\ IsFiniteSet((LentTo(loc, x) \ old) \cup LentTo(loc, y))
      BY <2>3, <3>2, <3>3, DisjointSum
    <3> QED BY <1>15, <3>1, <3>2, <3>4
  <2>8. parent_or_count'[x].val = parent_or_count[x].val
    BY <1>2, <1>7
  <2>9. parent_or_count'[x].val =
          Cardinality(RefsOn(x)') + Cardinality(FreesOn(x)') + Cardinality(LentTo(loc, x)')
    BY <2>2, <2>3, <2>5, <2>6, <2>7, <2>8
  <2>10. IsFiniteSet(RefsOn(x)') /\ IsFiniteSet(FreesOn(x)') /\ IsFiniteSet(LentTo(loc, x)')
    BY <2>5, <2>6, <2>7
  <2> QED BY <2>9, <2>10 DEF Balanced
<1>18. ASSUME NEW r \in Arena, Counted(r)', r # x PROVE Balanced(loc, r)'
  <2>1. r # y /\ Balanced(loc, r)
    BY <1>6, <1>18 DEF AccountInv
  <2> QED BY <1>7, <1>12, <1>13, <1>14, <1>18, <2>1, SameBalance
<1>19. Growing
  BY <1>t, StepGrows
<1>20. LoanInv(loc, t)'
  <2>1. ASSUME NEW k \in 1 .. d
        PROVE  /\ loc[<<t, k>>] \in Arena
               /\ RootOf[loc[<<t, k>>]] = RootOf[call[t].a] \/ RootOf[loc[<<t, k>>]] = RootOf[call[t].b]
    <3>1. k \in 1 .. Owed(t)
      BY <1>3, <2>1
    <3> QED BY <3>1 DEF AccountInv, LoanInv, Fused
  <2>2. \A k \in 1 .. d : \/ RootOf'[loc[<<t, k>>]] = RootOf'[call[t].a]
                          \/ RootOf'[loc[<<t, k>>]] = RootOf'[call[t].b]
    BY <1>3, <1>19, <2>1 DEF Growing
  <2> QED BY <1>1, <1>4, <2>1, <2>2 DEF LoanInv, Fused
<1>21. \A u \in Thread : LoanInv(loc, u)'
  BY <1>19, <1>20, OtherLoans
<1> QED BY <1>17, <1>18, <1>21 DEF AccountInv

LEMMA StepAccount ==
  ASSUME Base, RefInv, NEW t \in Thread, OthersKeep(t), Kinds(t), NEW loc, AccountInv(loc)
  PROVE  \E lent : AccountInv(lent)'
<1>1. CASE Lend(t)
  BY <1>1, LendAccount
<1>2. CASE ~Lend(t)
  <2>1. AccountInv(loc)'
    BY <1>2, QuietAccount, JoinAccount, RepayAccount, GainAccount, ReleaseAccount, CountDownAccount,
       FreeAccount DEF Kinds
  <2> QED BY <2>1
<1> QED BY <1>1, <1>2

(* A count in use stays positive.                                          *)
LEMMA StepPos ==
  ASSUME Base, RefInv, NEW t \in Thread, OthersKeep(t), Kinds(t)
  PROVE  CountPos'
<1>t. TypeOK /\ CountPos /\ CountInv(t)
  BY DEF Base, IndInv, RefInv
<1>1. SUFFICES ASSUME NEW r \in Arena, Counted(r)' PROVE parent_or_count'[r].val >= 1
  BY DEF CountPos
<1>2. CASE Counted(r) /\ parent_or_count'[r].val = parent_or_count[r].val
  BY <1>t, <1>2 DEF CountPos
<1>3. CASE Quiet(t)
  <2>1. Counted(r)
    BY <1>1, <1>3, MostSettled, SettledDead
  <2> QED BY <1>2, <1>3, <2>1 DEF Quiet, Counted
<1>4. CASE JoinStep(t)
  <2>1. Counted(r) /\ r # roots[t].r2 /\ roots[t].r2 \in Arena
    BY <1>1, <1>4, JoinDead, JoinRoots
  <2> QED BY <1>2, <1>4, <1>t, <2>1 DEF JoinStep, TypeOK
<1>5. CASE Last(t)
  BY <1>1, <1>2, <1>5, LastDead DEF Last
<1>6. CASE GiveBack(t)
  BY <1>1, <1>2, <1>6, GiveBackDead DEF GiveBack
<1>7. CASE Release(t)
  <2>1. Counted(r)
    BY <1>1, <1>7, MostSettled, SettledDead
  <2> QED BY <1>2, <1>7, <2>1 DEF Release
<1>8. CASE Lend(t)
  <2>1. Counted(r)
    BY <1>1, <1>8, MostSettled, SettledDead
  <2>2. /\ roots[t].r1 \in Arena /\ roots[t].n1 \in Nat /\ roots[t].n2 \in Nat
        /\ parent_or_count[roots[t].r1].val = roots[t].n1
        /\ parent_or_count' = [parent_or_count EXCEPT
                                 ![roots[t].r1] = TaggedFromRefcount(roots[t].n1 + roots[t].n2)]
    BY <1>8, FuseRoot, OwedFacts DEF Lend
  <2>3. CASE r = roots[t].r1
    <3>1. parent_or_count'[r].val = roots[t].n1 + roots[t].n2 /\ roots[t].n1 >= 1
      BY <1>t, <2>1, <2>2, <2>3 DEF CountPos, TypeOK, TaggedFromRefcount
    <3> QED BY <2>2, <3>1
  <2>4. CASE r # roots[t].r1
    BY <1>2, <1>t, <2>1, <2>2, <2>4 DEF TypeOK
  <2> QED BY <2>3, <2>4
<1>9. CASE Repay(t)
  <2>1. Counted(r)
    BY <1>1, <1>9, MostSettled, SettledDead
  <2>2. /\ roots[t].r1 \in Arena /\ roots[t].r1 = RootOf[call[t].a] /\ Uses(t) /\ call[t].a \in Arena
        /\ parent_or_count' = [parent_or_count EXCEPT
                                 ![roots[t].r1] = TaggedFromRefcount(roots[t].n1 - fuse[t].delta)]
        /\ UNCHANGED refs /\ RootOf' = RootOf
    BY <1>9, FuseRoot, OwedFacts DEF Repay
  <2>3. CASE r = roots[t].r1
    <3>1. PICK loc : AccountInv(loc)
      BY DEF RefInv
    <3>2. Balanced(loc, r)'
      BY <1>1, <1>9, <3>1, RepayAccount DEF AccountInv
    <3>3. refs[call[t].a] > 0 /\ refs[call[t].a] \in Int
      BY <1>t, <2>2 DEF RefInv, HoldInv, TypeOK
    <3>4. <<call[t].a, 1>> \in RefsOn(r)'
      BY <2>2, <2>3, <3>3 DEF RefsOn
    <3>5. IsFiniteSet(RefsOn(r)') /\ IsFiniteSet(FreesOn(r)') /\ IsFiniteSet(LentTo(loc, r)')
      BY <3>2 DEF Balanced
    <3>6. /\ Cardinality(RefsOn(r)') \in Nat /\ Cardinality(FreesOn(r)') \in Nat
          /\ Cardinality(LentTo(loc, r)') \in Nat /\ Cardinality(RefsOn(r)') # 0
      BY <3>4, <3>5, FS_CardinalityType, FS_EmptySet
    <3>7. parent_or_count'[r].val =
            Cardinality(RefsOn(r)') + Cardinality(FreesOn(r)') + Cardinality(LentTo(loc, r)')
      BY <3>2 DEF Balanced
    <3> QED BY <3>6, <3>7
  <2>4. CASE r # roots[t].r1
    BY <1>2, <1>t, <2>1, <2>2, <2>4 DEF TypeOK
  <2> QED BY <2>3, <2>4
<1>10. CASE Gain(t) \/ CountDown(t)
  <2>1. Counted(r)
    BY <1>1, <1>10, MostSettled, SettledDead
  <2>2. pc[t] = "inc_cas" \/ Frees(t)
    BY <1>10 DEF Gain, CountDown, Frees
  <2>3. /\ parent_or_count[walk[t].ai] = TaggedFromRefcount(walk[t].n) /\ walk[t].n \in Int
    BY <1>10, <1>t DEF Gain, CountDown, TypeOK
  <2>4. walk[t].ai \in Arena /\ parent_or_count[walk[t].ai].val = walk[t].n
    BY <2>2, <2>3, FreeRoot
  <2>5. CASE r # walk[t].ai
    BY <1>2, <1>10, <1>t, <2>1, <2>4, <2>5 DEF TypeOK, Gain, CountDown
  <2>6. CASE r = walk[t].ai
    <3>1. walk[t].n >= 1
      BY <1>t, <2>1, <2>4, <2>6 DEF CountPos
    <3>2. CASE Gain(t)
      <4>1. parent_or_count'[r].val = walk[t].n + 1
        BY <1>t, <2>6, <2>4, <3>2 DEF Gain, TypeOK, TaggedFromRefcount
      <4> QED BY <2>3, <3>1, <4>1
    <3>3. CASE CountDown(t)
      <4>1. parent_or_count'[r].val = walk[t].n - 1 /\ walk[t].n # 1
        BY <1>t, <2>6, <2>4, <3>3 DEF CountDown, CountInv, TypeOK, TaggedFromRefcount
      <4> QED BY <2>3, <3>1, <4>1
    <3> QED BY <1>10, <3>2, <3>3
  <2> QED BY <2>5, <2>6
<1> QED BY <1>3, <1>4, <1>5, <1>6, <1>7, <1>8, <1>9, <1>10 DEF Kinds

-----------------------------------------------------------------------------
(* The invariant.                                                          *)

LEMMA StepRef ==
  ASSUME Base, RefInv, IndInv', GroupInv', NEW t \in Thread, Caller(t) \/ Step(t)
  PROVE  RefInv'
<1>1. OthersKeep(t)
  BY StepKeeps DEF Base, IndInv
<1>2. Kinds(t)
  BY StepKinds
<1>3. DeadInv' /\ FreedInv' /\ CountPos'
  BY <1>1, <1>2, StepDead, StepFreed, StepPos
<1>4. ASSUME NEW u \in Thread PROVE HoldInv(u)' /\ CountInv(u)' /\ ReclaimInv(u)'
  BY <1>1, <1>2, StepHold, StepCount, StepReclaim
<1>5. PICK loc : AccountInv(loc)
  BY DEF RefInv
<1>6. \E lent : AccountInv(lent)'
  BY <1>1, <1>2, <1>5, StepAccount
<1> QED BY <1>3, <1>4, <1>6 DEF RefInv

(* A new arena is counted for the reference that its creator gets.         *)
LEMMA CreateRef ==
  ASSUME Base, RefInv, IndInv', GroupInv', NEW a \in Arena, NEW h \in BOOLEAN, Arena_Init(a, h)
  PROVE  RefInv'
<1>t. TypeOK /\ MemoryInv /\ InitialInv /\ DeadInv /\ Born \subseteq Arena
  BY Pointers DEF Base, IndInv, RefInv
<1>1. /\ status[a] = "unborn" /\ a \notin Born
      /\ UNCHANGED <<pc, call, find, fuse, roots, link, walk>>
      /\ parent_or_count' = [parent_or_count EXCEPT ![a] = TaggedFromRefcount(1)]
  BY DEF Arena_Init, Born, fusing
<1>2. /\ \A b \in Arena : status'[b] = IF b = a THEN "live" ELSE status[b]
      /\ \A b \in Arena : refs'[b] = IF b = a THEN 1 ELSE refs[b]
      /\ \A b \in Arena : next'[b] = IF b = a THEN NULL ELSE next[b]
      /\ \A b \in Arena : parent_or_count'[b].val = IF b = a THEN 1 ELSE parent_or_count[b].val
  BY <1>t DEF Arena_Init, TypeOK, TaggedFromRefcount
<1>3. RootOf' = RootOf
  BY CreateGroup DEF Base
<1>4. RootOf[a] = a
  BY <1>1, <1>t, RootFacts DEF MemoryInv
<1>5. \A b \in Arena : RootOf[b] = a => b = a
  BY <1>1, <1>t DEF InitialInv
<1>6. \A u \in Thread : /\ pc[u] # "idle" => call[u].a \in Born /\ call[u].b \in Born
                        /\ pc[u] \in Walking => walk[u].ai \in Born
  BY DEF Base, GroupInv, ThreadGroup, CallInv, IndInv, WalkInv
<1>7. \A u \in Thread : /\ Frees(u)' <=> Frees(u)
                        /\ Reclaims(u)' <=> Reclaims(u)
                        /\ Uses(u)' <=> Uses(u)
                        /\ Owed(u)' = Owed(u)
  BY <1>1 DEF Frees, Reclaims, Uses, Owed
<1>8. \A u \in Thread : pc[u] # "idle" => RootOf[call[u].a] # a /\ RootOf[call[u].b] # a
  BY <1>1, <1>5, <1>6, <1>t
<1>9. ~Dead(a)
  BY <1>1, <1>8 DEF Dead, Reclaims
<1>10. \A r \in Arena : Dead(r)' <=> Dead(r)
  BY <1>1, <1>2, <1>3, <1>7 DEF Dead
<1>11. \A r \in Arena : Counted(r)' <=> Counted(r) \/ r = a
  BY <1>1, <1>2, <1>3, <1>4, <1>9, <1>10 DEF Counted
<1>12. \A b \in Arena : RootOf[b] \in Arena
  BY RootFacts
<1>13. DeadInv'
  <2>1. \A b \in Arena : Dead(RootOf[b])' => refs'[b] = 0
    <3> SUFFICES ASSUME NEW b \in Arena, Dead(RootOf[b])' PROVE refs'[b] = 0
      OBVIOUS
    <3>1. Dead(RootOf[b])
      BY <1>2, <1>3, <1>7, <1>12, <1>1 DEF Dead
    <3> QED BY <1>2, <1>4, <1>9, <1>t, <3>1 DEF DeadInv
  <2>2. \A u \in Thread : Frees(u)' => ~Dead(RootOf[call[u].a])'
    <3> SUFFICES ASSUME NEW u \in Thread, Frees(u)' PROVE ~Dead(RootOf[call[u].a])'
      OBVIOUS
    <3>1. Frees(u) /\ pc[u] # "idle"
      BY <1>7 DEF Frees
    <3>2. call[u].a \in Arena /\ ~Dead(RootOf[call[u].a])
      BY <1>6, <1>t, <3>1 DEF DeadInv
    <3> QED BY <1>1, <1>2, <1>3, <1>7, <1>12, <3>2 DEF Dead
  <2>3. \A b \in Arena : status'[b] = "freed" => status'[RootOf'[b]] = "freed"
    BY <1>2, <1>3, <1>12, <1>1, <1>t DEF DeadInv
  <2>4. \A b \in Arena : refs'[b] >= 0 /\ (status'[b] = "unborn" => refs'[b] = 0)
    BY <1>2, <1>t DEF DeadInv
  <2>5. \A u, v \in Thread : (Reclaims(u)' /\ Reclaims(v)' /\ Fused(call[u].a, call[v].a)') => u = v
    BY <1>1, <1>3, <1>7, <1>t DEF DeadInv, Fused
  <2> QED BY <2>1, <2>2, <2>3, <2>4, <2>5 DEF DeadInv
<1>14. FreedInv'
  <2>1. \A p \in Arena : status[p] = "freed" => status'[p] = "freed" /\ next'[p] = next[p]
    BY <1>1, <1>2
  <2>2. \A b \in Arena : status'[b] = "freed" => status[b] = "freed"
    BY <1>1, <1>2
  <2>3. FreedInv
    BY DEF RefInv
  <2> QED BY <1>3, <2>1, <2>2, <2>3 DEF FreedInv
<1>15. CountPos'
  <2>1. CountPos
    BY DEF RefInv
  <2> QED BY <1>2, <1>11, <2>1 DEF CountPos
<1>16. ASSUME NEW u \in Thread PROVE HoldInv(u)' /\ CountInv(u)' /\ ReclaimInv(u)'
  <2>1. HoldInv(u) /\ CountInv(u) /\ ReclaimInv(u)
    BY DEF RefInv
  <2>2. HoldInv(u)'
    <3> SUFFICES ASSUME Uses(u)' PROVE refs'[call'[u].a] > 0 /\ refs'[call'[u].b] > 0
      BY DEF HoldInv
    <3>1. Uses(u) /\ pc[u] # "idle"
      BY <1>7 DEF Uses
    <3>2. call[u].a \in Arena /\ call[u].b \in Arena /\ call[u].a # a /\ call[u].b # a
      BY <1>1, <1>6, <1>t, <3>1
    <3> QED BY <1>1, <1>2, <2>1, <3>1, <3>2 DEF HoldInv
  <2>3. CountInv(u)'
    BY <1>1, <2>1 DEF CountInv
  <2>4. ReclaimInv(u)'
    <3> SUFFICES ASSUME Reclaims(u)' PROVE ReclaimInv(u)'
      BY DEF ReclaimInv
    <3>1. Reclaims(u) /\ pc[u] \in Walking
      BY <1>7 DEF Reclaims, Walking
    <3>2. walk[u].ai \in Arena /\ walk[u].ai # a
      BY <1>1, <1>6, <1>t, <3>1
    <3>3. \A p \in Arena : status[p] = "freed" => status'[p] = "freed" /\ next'[p] = next[p]
      BY <1>1, <1>2
    <3> QED BY <1>1, <1>2, <1>3, <2>1, <3>1, <3>2, <3>3 DEF ReclaimInv
  <2> QED BY <2>2, <2>3, <2>4
<1>17. PICK loc : AccountInv(loc)
  BY DEF RefInv
<1>18. ASSUME NEW u \in Thread PROVE LoanInv(loc, u)'
  <2>1. Growing /\ LoanInv(loc, u) /\ CountInv(u)
    BY <1>3, <1>17 DEF Growing, AccountInv, RefInv
  <2> QED BY <1>1, <2>1, LoansKept
<1>19. ASSUME NEW r \in Arena, Counted(r)' PROVE Balanced(loc, r)'
  <2>1. FreesOn(r)' = FreesOn(r) /\ LentTo(loc, r)' = LentTo(loc, r)
    BY <1>1, <1>3, <1>7, SameFrees, SameLent
  <2>2. CASE r # a
    <3>1. Balanced(loc, r)
      BY <1>11, <1>17, <1>19, <2>2 DEF AccountInv
    <3>2. RefsOn(r)' = RefsOn(r)
      <4>1. \A x \in Arena \X Nat : RootOf[x[1]] = r => refs'[x[1]] = refs[x[1]]
        BY <1>2, <1>4, <2>2
      <4> QED BY <1>3, <4>1 DEF RefsOn
    <3> QED BY <1>2, <2>1, <2>2, <3>1, <3>2, SameBalance
  <2>3. CASE r = a
    <3>1. RefsOn(r)' = {<<a, 1>>}
      <4>1. ASSUME NEW b \in Arena, NEW k \in Nat
            PROVE  <<b, k>> \in RefsOn(r)' <=> b = a /\ k = 1
        <5>1. <<b, k>> \in RefsOn(r)' <=> (k \in 1 .. refs'[b] /\ RootOf[b] = a)
          BY <1>3, <2>3 DEF RefsOn
        <5>2. RootOf[b] = a <=> b = a
          BY <1>4, <1>5
        <5>3. b = a => (k \in 1 .. refs'[b] <=> k = 1)
          BY <1>2
        <5> QED BY <5>1, <5>2, <5>3
      <4>2. RefsOn(r)' \subseteq Arena \X Nat /\ <<a, 1>> \in Arena \X Nat
        BY DEF RefsOn
      <4> QED BY <4>1, <4>2
    <3>2. FreesOn(r) = {}
      BY <1>8, <2>3 DEF FreesOn, Frees
    <3>3. LentTo(loc, r) = {}
      <4> SUFFICES ASSUME NEW x \in LentTo(loc, r) PROVE FALSE
        OBVIOUS
      <4>1. PICK u \in Thread, k \in Nat : x = <<u, k>> /\ k \in 1 .. Owed(u) /\ RootOf[loc[<<u, k>>]] = a
        BY <2>3 DEF LentTo
      <4>2. RootOf[call[u].a] = a \/ RootOf[call[u].b] = a
        BY <1>17, <4>1 DEF AccountInv, LoanInv, Fused
      <4>3. pc[u] = "idle" => Owed(u) = 0
        BY DEF Owed
      <4> QED BY <1>8, <4>1, <4>2, <4>3
    <3>4. /\ IsFiniteSet({<<a, 1>>}) /\ Cardinality({<<a, 1>>}) = 1
          /\ IsFiniteSet({}) /\ Cardinality({}) = 0
      BY FS_Singleton, FS_EmptySet
    <3>5. parent_or_count'[r].val = 1
      BY <1>2, <2>3
    <3> QED BY <2>1, <3>1, <3>2, <3>3, <3>4, <3>5 DEF Balanced
  <2> QED BY <2>2, <2>3
<1>20. AccountInv(loc)'
  BY <1>18, <1>19 DEF AccountInv
<1> QED BY <1>13, <1>14, <1>15, <1>16, <1>20 DEF RefInv


(* Nothing is counted at the beginning.                                    *)
LEMMA InitRef == Init => RefInv
<1> SUFFICES ASSUME Init PROVE RefInv
  OBVIOUS
<1>1. \A a \in Arena : status[a] = "unborn" /\ refs[a] = 0
  BY DEF Init
<1>2. \A t \in Thread : pc[t] = "idle" /\ call[t].op = "none"
  BY DEF Init, InitThreads, NoCall, Call
<1>3. RootOf = [a \in Arena |-> a]
  BY InitInd, OwnRoots DEF IndInv, Init, IsTaggedPointer, TaggedFromRefcount
<1>4. \A t \in Thread : ~Uses(t) /\ ~Frees(t) /\ ~Reclaims(t) /\ Owed(t) = 0
  BY <1>2 DEF Uses, Frees, Reclaims, Owed
<1>5. \A r \in Arena : ~Dead(r) /\ ~Counted(r)
  BY <1>1, <1>4 DEF Dead, Counted
<1>6. DeadInv /\ FreedInv /\ CountPos
  <2>1. DeadInv
    <3>1. \A a \in Arena : RootOf[a] = a
      BY <1>3
    <3>2. \A a \in Arena : refs[a] = 0 /\ refs[a] >= 0
      <4>1. 0 >= 0
        OBVIOUS
      <4> QED BY <1>1, <4>1, Zenon
    <3>3. \A a \in Arena : status[a] # "freed"
      BY <1>1
    <3> QED BY <1>4, <3>1, <3>2, <3>3 DEF DeadInv
  <2>2. FreedInv
    BY <1>1 DEF FreedInv
  <2>3. CountPos
    BY <1>5 DEF CountPos
  <2> QED BY <2>1, <2>2, <2>3
<1>7. ASSUME NEW t \in Thread PROVE HoldInv(t) /\ CountInv(t) /\ ReclaimInv(t)
  BY <1>2, <1>4 DEF HoldInv, CountInv, ReclaimInv, Finding
<1>8. AccountInv(<<>>)
  BY <1>2, <1>4, <1>5 DEF AccountInv, LoanInv
<1> QED BY <1>6, <1>7, <1>8 DEF RefInv

LEMMA StutterRef ==
  ASSUME Base, IndInv', RefInv, UNCHANGED vars
  PROVE  RefInv'
<1>1. UNCHANGED <<status, parent_or_count, next, refs, pc, call, find, fuse, roots, walk>>
  BY DEF vars, memory, fusing
<1>2. RootOf' = RootOf
  BY StutterGroup DEF Base
<1>3. /\ \A t \in Thread : /\ Uses(t)' <=> Uses(t)
                           /\ Frees(t)' <=> Frees(t)
                           /\ Reclaims(t)' <=> Reclaims(t)
                           /\ Owed(t)' = Owed(t)
      /\ \A r : Dead(r)' <=> Dead(r)
  BY <1>1, <1>2 DEF Uses, Frees, Reclaims, Owed, Dead
<1>4. \A r : Counted(r)' <=> Counted(r)
  BY <1>1, <1>2, <1>3 DEF Counted
<1>5. DeadInv' /\ FreedInv' /\ CountPos'
  <2>1. DeadInv /\ FreedInv /\ CountPos
    BY DEF RefInv
  <2>2. DeadInv'
    BY <1>1, <1>2, <1>3, <2>1 DEF DeadInv, Fused
  <2>3. FreedInv' /\ CountPos'
    BY <1>1, <1>2, <1>4, <2>1 DEF FreedInv, CountPos
  <2> QED BY <2>2, <2>3
<1>6. ASSUME NEW t \in Thread PROVE HoldInv(t)' /\ CountInv(t)' /\ ReclaimInv(t)'
  <2>1. HoldInv(t) /\ CountInv(t) /\ ReclaimInv(t)
    BY DEF RefInv
  <2> QED BY <1>1, <1>2, <1>3, <2>1 DEF HoldInv, CountInv, ReclaimInv
<1>7. PICK loc : AccountInv(loc)
  BY DEF RefInv
<1>8. AccountInv(loc)'
  <2>1. ASSUME NEW r \in Arena, Counted(r)' PROVE Balanced(loc, r)'
    <3>1. Balanced(loc, r)
      BY <1>4, <1>7, <2>1 DEF AccountInv
    <3>2. RefsOn(r)' = RefsOn(r) /\ FreesOn(r)' = FreesOn(r) /\ LentTo(loc, r)' = LentTo(loc, r)
      BY <1>1, <1>2, <1>3, SameRefs, SameFrees, SameLent
    <3> QED BY <1>1, <3>1, <3>2, SameBalance
  <2>2. ASSUME NEW t \in Thread PROVE LoanInv(loc, t)'
    <3>1. LoanInv(loc, t)
      BY <1>7 DEF AccountInv
    <3> QED BY <1>1, <1>2, <1>3, <3>1 DEF LoanInv, Fused
  <2> QED BY <2>1, <2>2 DEF AccountInv
<1> QED BY <1>5, <1>6, <1>8 DEF RefInv

LEMMA NextRef == Base /\ RefInv /\ IndInv' /\ GroupInv' /\ [Next]_vars => RefInv'
<1> SUFFICES ASSUME Base, RefInv, IndInv', GroupInv', [Next]_vars PROVE RefInv'
  OBVIOUS
<1>1. CASE UNCHANGED vars
  BY <1>1, StutterRef
<1>2. ASSUME NEW a \in Arena, NEW h \in BOOLEAN, Arena_Init(a, h) PROVE RefInv'
  BY <1>2, CreateRef
<1>3. ASSUME NEW t \in Thread, Caller(t) \/ Step(t) PROVE RefInv'
  BY <1>3, StepRef
<1> QED BY <1>1, <1>2, <1>3 DEF Next

(* The accounts of the references are sound: however the fuses, frees and  *)
(* counted references race, the count of a root in use is the number of    *)
(* the references callers hold on the group, the upb_Arena_Frees still to  *)
(* be counted and the references that upb_Arena_Fuses have lent to it, and *)
(* nobody has anything to do with a group that is given back.              *)
THEOREM ReferencesSound == Spec => [](Base /\ RefInv)
<1>1. Spec => [](IndInv /\ GroupInv)
  BY Inductive, GroupsSound, PTL
<1>2. Spec => []Base
  BY <1>1, InitialSound, PTL DEF Base
<1>3. Spec => []RefInv
  BY <1>1, <1>2, InitRef, NextRef, PTL DEF Spec
<1> QED BY <1>2, <1>3, PTL


-----------------------------------------------------------------------------
(* What callers see.                                                       *)

\* The groups that a call relies on.
Own(t, x) ==
  \/ (Uses(t) \/ Frees(t)) /\ RootOf[x] = RootOf[call[t].a]
  \/ Uses(t) /\ RootOf[x] = RootOf[call[t].b]

(* The arenas of those groups are live.                                    *)
LEMMA OwnLive ==
  ASSUME Base, RefInv, NEW t \in Thread, NEW x \in Born, Own(t, x)
  PROVE  x \in Live
<1>1. x \in Arena
  BY Pointers
<1>2. CASE Uses(t)
  <2>1. status[x] = "live"
    BY <1>1, <1>2, UsedIsCounted DEF Own
  <2> QED BY <1>1, <2>1 DEF Live
<1>3. CASE ~Uses(t)
  <2>1. Frees(t) /\ RootOf[x] = RootOf[call[t].a]
    BY <1>3 DEF Own
  <2>2. status[x] = "live"
    BY <1>1, <2>1, FreedIsCounted
  <2> QED BY <1>1, <2>2 DEF Live
<1> QED BY <1>2, <1>3

(* Every access is to the groups of the arguments.                         *)
LEMMA TouchesLive ==
  ASSUME Base, RefInv
  PROVE  NoUseAfterFree
<1> SUFFICES ASSUME NEW t \in Thread, NEW x \in Touched(t) PROVE x \in Live
  BY DEF NoUseAfterFree
<1>t. /\ FindInv(t) /\ FuseInv(t) /\ WalkInv(t) /\ Born \subseteq Arena
      /\ CallInv(t) /\ FindGroup(t) /\ FuseGroup(t) /\ WalkGroup(t)
  BY Pointers DEF Base, IndInv, GroupInv, ThreadGroup
<1>1. CASE pc[t] \in Finding
  <2>1. Uses(t)
    BY <1>1, <1>t DEF CallInv, Uses, Finding
  <2>2. find[t].ai \in Born /\ RootOf[find[t].ai] = RootOf[Wanted(t)]
    BY <1>1, <1>t DEF FindInv, FindGroup, Fused
  <2>3. Own(t, find[t].ai)
    BY <2>1, <2>2 DEF Own, Wanted
  <2>4. CASE pc[t] = "fr_next"
    <3>1. x = find[t].poc.val
      BY <2>4 DEF Touched
    <3>2. x \in Born /\ RootOf[x] = RootOf[find[t].ai]
      BY <1>1, <1>t, <2>4, <3>1 DEF FindInv, FindGroup, Fused
    <3>3. Own(t, x)
      BY <2>3, <3>2 DEF Own
    <3> QED BY <3>2, <3>3, OwnLive
  <2>5. CASE pc[t] # "fr_next"
    <3>1. x = find[t].ai
      BY <1>1, <2>5 DEF Touched, Finding
    <3> QED BY <2>2, <2>3, <3>1, OwnLive
  <2> QED BY <2>4, <2>5
<1>2. CASE pc[t] \in {"cas_r1", "cas_r2", "fx_load", "fx_cas"} \cup Linking
  <2>1. Uses(t)
    BY <1>2, <1>t DEF CallInv, Uses, Linking
  <2>2. \/ x = roots[t].r1
        \/ x = roots[t].r2 /\ pc[t] \in {"cas_r2"} \cup Linking
        \/ x = link[t].tail /\ pc[t] \in Linking \ {"lf_tail"}
    BY <1>2 DEF Touched, Linking
  <2>3. x \in Born
    BY <1>2, <1>t, <2>2 DEF FuseInv
  <2>4. RootOf[x] = RootOf[call[t].a] \/ RootOf[x] = RootOf[call[t].b]
    <3>1. CASE pc[t] \in {"cas_r1", "cas_r2"}
      BY <1>t, <2>2, <3>1 DEF FuseGroup, Fused, Linking
    <3>2. CASE pc[t] \in {"fx_load", "fx_cas"} \cup Linking
      BY <1>t, <2>2, <3>2 DEF FuseGroup, Fused, Linking
    <3> QED BY <1>2, <3>1, <3>2
  <2> QED BY <2>1, <2>3, <2>4, OwnLive DEF Own
<1>3. CASE pc[t] \in Walking
  <2>1. x = walk[t].ai
    BY <1>3 DEF Touched, Walking
  <2>2. x \in Born /\ RootOf[x] = RootOf[call[t].a]
    BY <1>3, <1>t, <2>1 DEF WalkInv, WalkGroup, Fused
  <2>3. CASE Reclaims(t)
    <3>1. status[x] = "live"
      BY <2>1, <2>3 DEF RefInv, ReclaimInv
    <3> QED BY <1>t, <2>2, <3>1 DEF Live
  <2>4. CASE ~Reclaims(t)
    <3>1. Uses(t) \/ Frees(t)
      BY <1>3, <1>t, <2>4 DEF CallInv, Uses, Frees, Reclaims, Walking
    <3> QED BY <2>2, <3>1, OwnLive DEF Own
  <2> QED BY <2>3, <2>4
<1>4. CASE pc[t] \in {"idle", "ret"}
  BY <1>4 DEF Touched
<1>5. pc[t] \in Labels
  BY DEF Base, IndInv, TypeOK
<1> QED BY <1>1, <1>2, <1>3, <1>4, <1>5 DEF Labels

(* No memory of an arena is read or written after _upb_Arena_DoFree has    *)
(* given it back: every step of every call touches live arenas, because    *)
(* its group is counted for the caller's reference, or for the Free, until *)
(* the thread that found the count 1 is alone with it.                     *)
THEOREM MemoryIsSafe == CheckSpec => []NoUseAfterFree
<1>1. Base /\ RefInv => NoUseAfterFree
  BY TouchesLive
<1> QED BY <1>1, ReferencesSound, CheckImplies, PTL

(* The sets that ArenaCheck counts are those of the accounts.              *)
LEMMA GroupCounts ==
  ASSUME Base, DeadInv, NEW r \in Arena, RootOf[r] = r
  PROVE  /\ References(GroupOf(r)) = RefsOn(r)
         /\ Freeing(GroupOf(r)) = FreesOn(r)
<1>1. GroupOf(r) = {b \in Arena : RootOf[b] = r}
  BY DEF GroupOf
<1>2. \A b \in Arena : refs[b] \in Int
  BY DEF Base, IndInv, TypeOK
<1>3. References(GroupOf(r)) = RefsOn(r)
  <2>1. ASSUME NEW b \in Arena, NEW k \in Nat
        PROVE  <<b, k>> \in References(GroupOf(r)) <=> <<b, k>> \in RefsOn(r)
    BY <1>1 DEF References, RefsOn
  <2>2. RefsOn(r) \subseteq Arena \X Nat
    BY DEF RefsOn
  <2>3. References(GroupOf(r)) \subseteq Arena \X Nat
    BY <1>1, <1>2 DEF References
  <2> QED BY <2>1, <2>2, <2>3
<1>4. \A t \in Thread : Frees(t) => call[t].a \in Arena
  <2> SUFFICES ASSUME NEW t \in Thread, Frees(t) PROVE call[t].a \in Arena
    OBVIOUS
  <2>1. pc[t] # "idle" /\ CallInv(t)
    BY DEF Frees, Base, GroupInv, ThreadGroup
  <2> QED BY <2>1, FrameArenas DEF Base
<1>5. Freeing(GroupOf(r)) = FreesOn(r)
  BY <1>1, <1>4 DEF Freeing, FreesOn, Frees
<1> QED BY <1>3, <1>5

(* A live root whose group nobody gives back is counted.                   *)
LEMMA LiveIsCounted ==
  ASSUME Base, NEW r \in Live, RootOf[r] = r, Reclaiming(GroupOf(r)) = {}
  PROVE  Counted(r)
<1>1. r \in Arena /\ status[r] = "live"
  BY DEF Live
<1>2. ASSUME NEW t \in Thread, Reclaims(t), RootOf[call[t].a] = r PROVE FALSE
  <2>1. pc[t] # "idle" /\ CallInv(t)
    BY <1>2 DEF Reclaims, Base, GroupInv, ThreadGroup
  <2>2. call[t].a \in Arena
    BY <2>1, FrameArenas DEF Base
  <2>3. call[t].a \in GroupOf(r)
    BY <1>2, <2>2 DEF GroupOf
  <2> QED BY <1>2, <2>3 DEF Reclaiming, Reclaims
<1> QED BY <1>1, <1>2 DEF Counted, Dead

LEMMA CountsAccurate ==
  ASSUME Base, RefInv
  PROVE  RefCountAccurate
<1> SUFFICES ASSUME NEW r \in Live, RootOf[r] = r, Reclaiming(GroupOf(r)) = {}
             PROVE  LET owed == Held(GroupOf(r)) + Cardinality(Freeing(GroupOf(r))) IN
                    /\ parent_or_count[r].val >= owed
                    /\ Fusing(GroupOf(r)) = {} => parent_or_count[r].val = owed
  BY DEF RefCountAccurate
<1>1. r \in Arena /\ Counted(r)
  BY LiveIsCounted DEF Live
<1>2. PICK loc : AccountInv(loc)
  BY DEF RefInv
<1>3. Balanced(loc, r)
  BY <1>1, <1>2 DEF AccountInv
<1>4. Held(GroupOf(r)) = Cardinality(RefsOn(r)) /\ Freeing(GroupOf(r)) = FreesOn(r)
  BY <1>1, GroupCounts DEF Held, RefInv
<1>5. /\ Cardinality(RefsOn(r)) \in Nat /\ Cardinality(FreesOn(r)) \in Nat
      /\ Cardinality(LentTo(loc, r)) \in Nat
  BY <1>3, FS_CardinalityType DEF Balanced
<1>6. parent_or_count[r].val =
        Cardinality(RefsOn(r)) + Cardinality(FreesOn(r)) + Cardinality(LentTo(loc, r))
  BY <1>3 DEF Balanced
<1>7. ASSUME Fusing(GroupOf(r)) = {} PROVE Cardinality(LentTo(loc, r)) = 0
  <2>1. ASSUME NEW z \in LentTo(loc, r) PROVE FALSE
    <3>1. PICK t \in Thread, k \in Nat :
            z = <<t, k>> /\ k \in 1 .. Owed(t) /\ RootOf[loc[<<t, k>>]] = r
      BY <2>1 DEF LentTo
    <3>2. RootOf[call[t].a] = r \/ RootOf[call[t].b] = r
      BY <1>2, <3>1 DEF AccountInv, LoanInv, Fused
    <3>3. call[t].op = "Fuse" /\ pc[t] \notin {"idle", "ret"}
      BY <3>1 DEF Owed
    <3>4. call[t].a \in Arena /\ call[t].b \in Arena
      BY <3>3, FrameArenas DEF Base, GroupInv, ThreadGroup
    <3>5. call[t].a \in GroupOf(r) \/ call[t].b \in GroupOf(r)
      BY <3>2, <3>4 DEF GroupOf
    <3>6. t \in Fusing(GroupOf(r))
      BY <3>3, <3>5 DEF Fusing
    <3> QED BY <1>7, <3>6
  <2>2. LentTo(loc, r) = {}
    BY <2>1
  <2> QED BY <2>2, FS_EmptySet
<1> QED BY <1>4, <1>5, <1>6, <1>7

(* The reference count in arena.c never falls below the references and     *)
(* Frees it stands for, and is exact whenever no Fuse is in flight on the  *)
(* group: what failed attempts of _upb_Arena_DoFuse lent is taken back     *)
(* by _upb_Arena_FixupRefs, once and from the right root.                  *)
THEOREM CountIsAccurate == CheckSpec => []RefCountAccurate
<1>1. Base /\ RefInv => RefCountAccurate
  BY CountsAccurate
<1> QED BY <1>1, ReferencesSound, CheckImplies, PTL

LEMMA AloneWithGroup ==
  ASSUME Base, RefInv
  PROVE  ReclaimAlone
<1> SUFFICES ASSUME NEW t \in Thread, pc[t] \in {"df_next", "df_blocks"}
             PROVE  LET G == GroupOf(call[t].a) IN
                    /\ Held(G) = 0 /\ Freeing(G) = {} /\ Fusing(G) = {}
                    /\ Reclaiming(G) = {t}
  BY DEF ReclaimAlone
<1> DEFINE G == GroupOf(call[t].a)
<1>1. Reclaims(t) /\ DeadInv /\ pc[t] # "idle" /\ CallInv(t)
  BY DEF Reclaims, RefInv, Base, GroupInv, ThreadGroup
<1>2. call[t].a \in Arena
  BY <1>1, FrameArenas DEF Base
<1>3. Dead(RootOf[call[t].a]) /\ \A b \in G : b \in Arena /\ RootOf[b] = RootOf[call[t].a]
  BY <1>1, <1>2 DEF Dead, GroupOf
<1>4. Held(G) = 0
  <2>1. \A b \in G : refs[b] = 0
    BY <1>1, <1>3 DEF DeadInv
  <2>2. References(G) = {}
    BY <2>1 DEF References
  <2> QED BY <2>2, FS_EmptySet DEF Held
<1>5. Freeing(G) = {}
  BY <1>1, <1>3 DEF Freeing, DeadInv, Frees
<1>6. Fusing(G) = {}
  <2> SUFFICES ASSUME NEW u \in Fusing(G) PROVE FALSE
    OBVIOUS
  <2>1. u \in Thread /\ Uses(u) /\ (call[u].a \in G \/ call[u].b \in G)
    BY DEF Fusing, Uses
  <2>2. refs[call[u].a] > 0 /\ refs[call[u].b] > 0
    BY <2>1 DEF RefInv, HoldInv
  <2> QED BY <1>1, <1>3, <2>1, <2>2 DEF DeadInv
<1>7. Reclaiming(G) = {t}
  <2>1. t \in Reclaiming(G)
    BY <1>2 DEF Reclaiming, GroupOf
  <2>2. ASSUME NEW u \in Reclaiming(G) PROVE u = t
    <3>1. u \in Thread /\ Reclaims(u) /\ RootOf[call[u].a] = RootOf[call[t].a]
      BY <1>3, <2>2 DEF Reclaiming, Reclaims
    <3> QED BY <1>1, <3>1 DEF DeadInv, Fused
  <2> QED BY <2>1, <2>2
<1> QED BY <1>4, <1>5, <1>6, <1>7

(* The thread that runs _upb_Arena_DoFree is alone with the group: nobody  *)
(* holds a reference to an arena of it, or is fusing, freeing or giving    *)
(* back the same group.                                                    *)
THEOREM ReclaimedOnce == CheckSpec => []ReclaimAlone
<1>1. Base /\ RefInv => ReclaimAlone
  BY AloneWithGroup
<1> QED BY <1>1, ReferencesSound, CheckImplies, PTL


-----------------------------------------------------------------------------
(* The lifetimes of arena.h.                                               *)

(* A group is the arenas with the same root.                               *)
LEMMA GroupIs ==
  /\ Groups = [a \in Arena |-> {b \in Arena : RootOf[b] = RootOf[a]}]
  /\ Groups' = [a \in Arena |-> {b \in Arena : RootOf'[b] = RootOf'[a]}]
  BY DEF Groups

LEMMA SameGroups ==
  ASSUME RootOf' = RootOf
  PROVE  UNCHANGED Groups
  BY GroupIs

(* The second compare-and-swap of a Fuse joins two groups in use.          *)
LEMMA JoinLifetime ==
  ASSUME Base, RefInv, NEW t \in Thread, JoinStep(t)
  PROVE  L!LifetimeNext
<1> DEFINE x == RootOf[roots[t].r1]
           y == roots[t].r2
           a == IF x = RootOf[call[t].a] THEN call[t].a ELSE call[t].b
           b == IF x = RootOf[call[t].a] THEN call[t].b ELSE call[t].a
<1>1. /\ x \in Arena /\ y \in Arena /\ x # y /\ RootOf[y] = y /\ RootOf[x] = x
      /\ \A c \in Arena : RootOf'[c] = IF RootOf[c] = y THEN x ELSE RootOf[c]
      /\ Uses(t)
      /\ \/ x = RootOf[call[t].a] /\ y = RootOf[call[t].b]
         \/ x = RootOf[call[t].b] /\ y = RootOf[call[t].a]
  BY JoinRoots
<1>2. call[t].a \in Arena /\ call[t].b \in Arena /\ refs[call[t].a] > 0 /\ refs[call[t].b] > 0
  <2>1. pc[t] # "idle" /\ CallInv(t) /\ HoldInv(t)
    BY <1>1 DEF Uses, Base, GroupInv, ThreadGroup, RefInv
  <2> QED BY <1>1, <2>1, FrameArenas DEF Base, HoldInv
<1> HIDE DEF x
<1>3. /\ a \in Arena /\ b \in Arena /\ RootOf[a] = x /\ RootOf[b] = y
      /\ refs[a] > 0 /\ refs[b] > 0
  BY <1>1, <1>2
<1> HIDE DEF a, b, y
<1>4. Groups[a] = {c \in Arena : RootOf[c] = x} /\ Groups[b] = {c \in Arena : RootOf[c] = y}
  BY <1>3, GroupIs
<1>5. L!Referenced(a) /\ L!Referenced(b) /\ b \notin Groups[a]
  BY <1>1, <1>3, <1>4 DEF L!Referenced
<1>6. Groups' = [c \in Arena |-> IF c \in Groups[a] \cup Groups[b]
                                 THEN Groups[a] \cup Groups[b] ELSE Groups[c]]
  <2>1. ASSUME NEW c \in Arena
        PROVE  {d \in Arena : RootOf'[d] = RootOf'[c]} =
                 IF c \in Groups[a] \cup Groups[b] THEN Groups[a] \cup Groups[b] ELSE Groups[c]
    <3>1. Groups[c] = {d \in Arena : RootOf[d] = RootOf[c]}
      BY GroupIs
    <3>2. CASE RootOf[c] \in {x, y}
      <4>1. RootOf'[c] = x /\ c \in Groups[a] \cup Groups[b]
        BY <1>1, <1>4, <3>2
      <4>2. {d \in Arena : RootOf'[d] = x} = Groups[a] \cup Groups[b]
        BY <1>1, <1>4
      <4> QED BY <4>1, <4>2
    <3>3. CASE RootOf[c] \notin {x, y}
      <4>1. RootOf'[c] = RootOf[c] /\ c \notin Groups[a] \cup Groups[b]
        BY <1>1, <1>4, <3>3
      <4>2. {d \in Arena : RootOf'[d] = RootOf[c]} = {d \in Arena : RootOf[d] = RootOf[c]}
        BY <1>1, <3>3
      <4> QED BY <3>1, <4>1, <4>2
    <3> QED BY <3>2, <3>3
  <2> QED BY <2>1, GroupIs
<1>7. Groups' # Groups
  <2>1. Groups'[a] = Groups[a] \cup Groups[b] /\ b \in Groups[b]
    BY <1>3, <1>4, <1>6
  <2> QED BY <1>5, <2>1
<1>8. UNCHANGED <<status, refs>>
  BY DEF JoinStep
<1>9. L!Join(a, b)
  BY <1>5, <1>6, <1>8 DEF L!Join
<1> QED BY <1>3, <1>7, <1>9 DEF L!LifetimeNext

(* The step of DoFree gives back an arena of a group without references.   *)
LEMMA GiveBackLifetime ==
  ASSUME Base, RefInv, NEW t \in Thread, GiveBack(t)
  PROVE  L!LifetimeNext
<1> DEFINE a == walk[t].ai
<1>1. Reclaims(t) /\ pc[t] \in Walking /\ pc[t] # "idle"
  BY DEF GiveBack, Reclaims, Walking
<1>2. CallInv(t) /\ WalkGroup(t) /\ ReclaimInv(t) /\ DeadInv
  BY DEF Base, GroupInv, ThreadGroup, RefInv
<1>3. a \in Arena /\ RootOf[a] = RootOf[call[t].a] /\ status[a] = "live"
  BY <1>1, <1>2, FrameArenas DEF Base, WalkGroup, Fused, ReclaimInv
<1>4. Dead(RootOf[a])
  BY <1>1, <1>3 DEF Dead
<1>5. ~L!Referenced(a)
  <2>1. \A b \in Groups[a] : b \in Arena /\ RootOf[b] = RootOf[a]
    BY <1>3, GroupIs
  <2>2. \A b \in Groups[a] : refs[b] = 0
    BY <1>2, <1>4, <2>1 DEF DeadInv
  <2> QED BY <2>2 DEF L!Referenced
<1>6. status' = [status EXCEPT ![a] = "freed"] /\ UNCHANGED refs /\ RootOf' = RootOf
  BY DEF GiveBack
<1>7. L!Reclaim(a)
  BY <1>3, <1>5, <1>6, SameGroups DEF L!Reclaim
<1> QED BY <1>3, <1>7 DEF L!LifetimeNext

(* IncRefFor acquires a reference to an arena its caller holds.            *)
LEMMA GainLifetime ==
  ASSUME Base, RefInv, NEW t \in Thread, Gain(t)
  PROVE  L!LifetimeNext
<1> DEFINE a == call[t].a
<1>1. pc[t] = "inc_cas" /\ CallInv(t) /\ HoldInv(t)
  BY DEF Gain, Base, GroupInv, ThreadGroup, RefInv
<1>2. Uses(t) /\ a \in Born /\ a \in Arena
  BY <1>1, Pointers DEF Uses, CallInv
<1>3. status[a] = "live" /\ refs[a] > 0
  BY <1>1, <1>2, UsedIsCounted DEF HoldInv
<1>4. refs' = [refs EXCEPT ![a] = @ + 1] /\ UNCHANGED status /\ RootOf' = RootOf
  BY DEF Gain
<1>5. L!Acquire(a)
  BY <1>3, <1>4, SameGroups DEF L!Acquire
<1> QED BY <1>2, <1>5 DEF L!LifetimeNext

LEMMA ReleaseLifetime ==
  ASSUME NEW t \in Thread, Release(t)
  PROVE  L!LifetimeNext
<1>1. PICK a \in Arena : /\ CanRelease(a) /\ refs' = [refs EXCEPT ![a] = @ - 1]
                         /\ UNCHANGED status /\ RootOf' = RootOf
  BY DEF Release
<1>2. L!Release(a)
  BY <1>1, SameGroups DEF L!Release, CanRelease, CanUse
<1> QED BY <1>2 DEF L!LifetimeNext

LEMMA NextLifetime == Base /\ RefInv /\ IndInv' /\ GroupInv' /\ [Next]_vars => [L!LifetimeNext]_(L!avars)
<1> SUFFICES ASSUME Base, RefInv, IndInv', GroupInv', [Next]_vars
             PROVE  L!LifetimeNext \/ UNCHANGED L!avars
  OBVIOUS
<1>1. CASE UNCHANGED vars
  <2>1. UNCHANGED <<status, refs>> /\ RootOf' = RootOf
    BY <1>1, StutterGroup DEF vars, memory, Base
  <2> QED BY <2>1, SameGroups DEF L!avars
<1>2. ASSUME NEW a \in Arena, NEW h \in BOOLEAN, Arena_Init(a, h) PROVE L!LifetimeNext
  <2>1. RootOf' = RootOf
    BY <1>2, CreateGroup DEF Base
  <2>2. L!Create(a)
    BY <1>2, <2>1, SameGroups DEF Arena_Init, L!Create
  <2> QED BY <2>2 DEF L!LifetimeNext
<1>3. ASSUME NEW t \in Thread, Caller(t) \/ Step(t) PROVE L!LifetimeNext \/ UNCHANGED L!avars
  <2>1. Kinds(t)
    BY <1>3, StepKinds
  <2>2. CASE Quiet(t) \/ Lend(t) \/ Repay(t) \/ CountDown(t) \/ Last(t)
    <3>1. UNCHANGED <<status, refs>> /\ RootOf' = RootOf
      BY <2>2 DEF Quiet, Lend, Repay, CountDown, Last
    <3> QED BY <3>1, SameGroups DEF L!avars
  <2>3. CASE JoinStep(t) \/ Gain(t) \/ Release(t) \/ GiveBack(t)
    BY <2>3, JoinLifetime, GainLifetime, ReleaseLifetime, GiveBackLifetime
  <2> QED BY <2>1, <2>2, <2>3 DEF Kinds
<1> QED BY <1>1, <1>2, <1>3 DEF Next

(* The lock-free arenas implement the lifetimes that arena.h promises:     *)
(* fused arenas share one lifetime for ever, and none of them is given     *)
(* back before the last reference to any of them is gone.                  *)
THEOREM ImplementsLifetime == CheckSpec => SafeLifetime
<1>1. Init => L!LifetimeInit
  <2> SUFFICES ASSUME Init PROVE L!LifetimeInit
    OBVIOUS
  <2>1. RootOf = [a \in Arena |-> a]
    BY InitInd, OwnRoots DEF IndInv, Init, IsTaggedPointer, TaggedFromRefcount
  <2>2. Groups = [a \in Arena |-> {a}]
    BY <2>1, GroupIs
  <2> QED BY <2>2 DEF Init, L!LifetimeInit
<1>2. Spec => [](Base /\ RefInv /\ IndInv /\ GroupInv)
  BY ReferencesSound, Inductive, GroupsSound, PTL
<1>3. Spec => L!LifetimeInit /\ [][L!LifetimeNext]_(L!avars)
  BY <1>1, <1>2, NextLifetime, PTL DEF Spec
<1> QED BY <1>3, CheckImplies, PTL DEF SafeLifetime, L!SafeLifetime
=============================================================================

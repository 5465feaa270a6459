----------------------------- MODULE ArenaCheck -----------------------------
(***************************************************************************)
(* The correctness of Arena as its callers see it: memory is not touched   *)
(* after it is given back, nothing is given back early or never, and the   *)
(* results of the queries can be explained by a moment inside the call.    *)
(* A history variable keeps what was true when a call started.             *)
(***************************************************************************)
EXTENDS Arena, FiniteSets

VARIABLE atStart   \* per thread: what held when its call started

-----------------------------------------------------------------------------
(* The structures behind the tagged words.                                 *)

Live == {a \in Arena : status[a] = "live"}

\* The root an arena's parent pointers lead to; parents have lower addresses.
RootOf[a \in Arena] ==
  IF IsTaggedPointer(parent_or_count[a]) THEN RootOf[parent_or_count[a].val] ELSE a

Fused(a, b) == RootOf[a] = RootOf[b]
Groups      == LET root == [a \in Arena |-> RootOf[a]] IN
               [a \in Arena |-> {b \in Arena : root[b] = root[a]}]
GroupOf(a)  == LET root == RootOf[a] IN {b \in Arena : RootOf[b] = root}

\* What the list pointers lead to from a, a included: the nodes in every set
\* that contains a and is closed under them.
FollowedBy(a) ==
  {b \in Arena : \A S \in SUBSET Arena :
     (a \in S /\ \A x \in S : next[x] \in S \cup {NULL}) => b \in S}

PrecededBy(a) ==
  {b \in Arena : \A S \in SUBSET Arena :
     (a \in S /\ \A x \in S : IsTaggedPrevious(previous_or_tail[x]) =>
                                 previous_or_tail[x].val \in S) => b \in S}

Listed(a) == FollowedBy(a) \cup PrecededBy(a)

\* The references callers hold on arenas of G.
References(G) == UNION {{a} \X (1 .. refs[a]) : a \in G}
Held(G)       == Cardinality(References(G))

\* Calls of upb_Arena_Free on arenas of G that have not decremented yet.
Freeing(G) == {t \in Thread : pc[t] \in {"free_load", "free_cas"} /\ call[t].a \in G}

\* Calls of upb_Arena_Free that found the count 1 and are giving memory back.
Reclaiming(G) == {t \in Thread : pc[t] \in {"df_next", "df_blocks"} /\ call[t].a \in G}

\* Calls of upb_Arena_Fuse on arenas of G, which may have lent references.
Fusing(G) == {t \in Thread : pc[t] \notin {"idle", "ret"} /\ call[t].op = "Fuse"
                             /\ (call[t].a \in G \/ call[t].b \in G)}

\* The arena whose memory a thread's next step reads or writes.
Touched(t) ==
  CASE pc[t] \in {"fr_load", "fr_reload", "fr_split"}        -> {find[t].ai}
    [] pc[t] = "fr_next"                                     -> {find[t].poc.val}
    [] pc[t] \in {"cas_r1", "lf_tail", "ut_parent", "ut_cas",
                  "fx_load", "fx_cas"}                       -> {roots[t].r1}
    [] pc[t] \in {"cas_r2", "ut_child", "lb_store"}          -> {roots[t].r2}
    [] pc[t] \in {"lf_next", "lf_cas"}                       -> {link[t].tail}
    [] pc[t] \in {"inc_cas", "sa_back", "sa_forward", "free_load",
                  "free_cas", "df_next", "df_blocks"}        -> {walk[t].ai}
    [] OTHER                                                 -> {}

-----------------------------------------------------------------------------
(* The history variable.                                                   *)

Nothing == [fused |-> FALSE, listed |-> {}]

Remember(t) ==
  IF pc[t] = "idle" /\ pc'[t] # "idle"
  THEN [fused |-> Fused(call'[t].a, call'[t].b), listed |-> Listed(call'[t].a)]
  ELSE IF pc'[t] = "idle" THEN Nothing ELSE atStart[t]

CheckInit == Init /\ atStart = [t \in Thread |-> Nothing]
CheckNext == Next /\ atStart' = [t \in Thread |-> Remember(t)]
CheckSpec == CheckInit /\ [][CheckNext]_<<vars, atStart>>

FairCheckSpec == CheckSpec /\ Fairness

\* The same from the state in which upb_Arena_Init has created every arena,
\* without initial blocks, for instances that are not about creation.
Created ==
  /\ status = [a \in Arena |-> "live"]
  /\ parent_or_count = [a \in Arena |-> TaggedFromRefcount(1)]
  /\ refs = [a \in Arena |-> 1]
  /\ InitLists /\ InitThreads
  /\ atStart = [t \in Thread |-> Nothing]

CreatedSpec == Created /\ [][CheckNext]_<<vars, atStart>>

-----------------------------------------------------------------------------
(* No step of any call touches the memory of an arena that DoFree has      *)
(* given back, or that was never created.                                  *)
NoUseAfterFree == \A t \in Thread : Touched(t) \subseteq Live

(* The count of a root never falls below the references callers hold on    *)
(* the whole group and the Frees still to be counted, and it is exactly    *)
(* that when no Fuse is in flight: what a failed DoFuse lent to r1 is      *)
(* taken back by FixupRefs, once, from the right root.                     *)
RefCountAccurate ==
  \A r \in Live :
    LET G == GroupOf(r)
        owed == Held(G) + Cardinality(Freeing(G)) IN
    (RootOf[r] = r /\ Reclaiming(G) = {}) =>
       /\ parent_or_count[r].val >= owed
       /\ Fusing(G) = {} => parent_or_count[r].val = owed

(* DoFree asserts that it starts on a root whose count is 1; nobody else   *)
(* holds, fuses or frees the group by then.                                *)
ReclaimAlone ==
  \A t \in Thread : pc[t] \in {"df_next", "df_blocks"} =>
    LET G == GroupOf(call[t].a) IN
      /\ Held(G) = 0 /\ Freeing(G) = {} /\ Fusing(G) = {}
      /\ Reclaiming(G) = {t}

(* A group nobody references is not forgotten: while any arena of it is    *)
(* live, a Free on the group is still at work.                             *)
NoLeak ==
  \A a \in Live : LET G == GroupOf(a) IN
    Held(G) = 0 => Freeing(G) \cup Reclaiming(G) # {}

(* upb_Arena_Fuse returns true only when the lifetimes are shared, and     *)
(* false only when one of the arenas has an initial block, which is never  *)
(* fused with anything.                                                    *)
FuseResult ==
  /\ \A t \in Thread : (pc[t] = "ret" /\ call[t].op = "Fuse") =>
        (IF call[t].ans THEN Fused(call[t].a, call[t].b)
         ELSE initial_block[call[t].a] \/ initial_block[call[t].b])
  /\ \A a \in Live : initial_block[a] => GroupOf(a) = {a} /\ Held({a}) <= 1

(* upb_Arena_IsFused is linearizable: true means fused when it returns,    *)
(* false means not fused when it was called, whatever fused in between.    *)
IsFusedResult ==
  \A t \in Thread : (pc[t] = "ret" /\ call[t].op = "IsFused") =>
     /\ call[t].ans => Fused(call[t].a, call[t].b)
     /\ ~call[t].ans => ~atStart[t].fused

(* upb_Arena_SpaceAllocated counts no arena twice, every arena that was in *)
(* the list around a when it was called, and none that is not in it when   *)
(* it returns; so an arena counted by an earlier call on a is counted by a *)
(* later one, as the comment in the code asks.                             *)
SpaceAllocatedResult ==
  \A t \in Thread : (pc[t] = "ret" /\ call[t].op = "SpaceAllocated") =>
     /\ walk[t].n = Cardinality(walk[t].seen)
     /\ atStart[t].listed \subseteq walk[t].seen
     /\ walk[t].seen \subseteq Listed(call[t].a)

(* When no Fuse is in flight, the list through any arena of a group is the *)
(* whole group, in both directions: DoFree reaches, and SpaceAllocated     *)
(* counts, every member.                                                   *)
ListIsGroup ==
  \A a \in Live : LET G == GroupOf(a) IN
    (Fusing(G) = {} /\ Reclaiming(G) = {}) =>
      /\ Listed(a) = G
      /\ RootOf[a] = a => FollowedBy(a) = G

-----------------------------------------------------------------------------
(* The implementation of the abstract lifetimes.                           *)

L == INSTANCE ArenaLifetime WITH
       memory <- status,
       held   <- refs,
       group  <- Groups

(* Arenas implement the lifetimes arena.h promises.                        *)
SafeLifetime == L!SafeLifetime

(* Also, a group without references is eventually reclaimed.               *)
Lifetime == L!Lifetime

(* Every call returns, however the compare-and-swaps of the bounded number *)
(* of calls interfere.                                                     *)
CallsReturn == \A t \in Thread : pc[t] # "idle" ~> pc[t] = "idle"

=============================================================================

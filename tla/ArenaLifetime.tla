--------------------------- MODULE ArenaLifetime ---------------------------
(***************************************************************************)
(* What upb/mem/arena.h promises callers about lifetimes: fused arenas     *)
(* share one lifetime, and "no arenas that have been transitively fused    *)
(* together will be freed until all of them have reached a zero refcount". *)
(* There are no threads, counts, parents or lists here.                    *)
(***************************************************************************)
EXTENDS Integers

CONSTANT Arena

VARIABLES
  memory,   \* "unborn", "live" or "freed"
  held,     \* references callers hold on an arena
  group     \* arenas that share the lifetime of an arena

avars == <<memory, held, group>>

LifetimeInit ==
  /\ memory = [a \in Arena |-> "unborn"]
  /\ held   = [a \in Arena |-> 0]
  /\ group  = [a \in Arena |-> {a}]

Referenced(a) == \E b \in group[a] : held[b] > 0

Create(a) ==
  /\ memory[a] = "unborn"
  /\ memory' = [memory EXCEPT ![a] = "live"]
  /\ held' = [held EXCEPT ![a] = 1]
  /\ UNCHANGED group

\* Two referenced groups become one, for ever.
Join(a, b) ==
  /\ Referenced(a) /\ Referenced(b)
  /\ b \notin group[a]
  /\ group' = [c \in Arena |-> IF c \in group[a] \cup group[b]
                               THEN group[a] \cup group[b] ELSE group[c]]
  /\ UNCHANGED <<memory, held>>

Acquire(a) ==
  /\ memory[a] = "live" /\ held[a] > 0
  /\ held' = [held EXCEPT ![a] = @ + 1]
  /\ UNCHANGED <<memory, group>>

Release(a) ==
  /\ memory[a] = "live" /\ held[a] > 0
  /\ held' = [held EXCEPT ![a] = @ - 1]
  /\ UNCHANGED <<memory, group>>

\* Memory goes back only when nobody holds any arena of the group.
Reclaim(a) ==
  /\ memory[a] = "live" /\ ~Referenced(a)
  /\ memory' = [memory EXCEPT ![a] = "freed"]
  /\ UNCHANGED <<held, group>>

LifetimeNext ==
  \/ \E a \in Arena : Create(a) \/ Acquire(a) \/ Release(a) \/ Reclaim(a)
  \/ group' # group /\ \E a, b \in Arena : Join(a, b)

\* Lifetimes are respected,
SafeLifetime == LifetimeInit /\ [][LifetimeNext]_avars

\* and a group nobody references any more is reclaimed.
Lifetime == SafeLifetime /\ \A a \in Arena : WF_avars(Reclaim(a))

=============================================================================

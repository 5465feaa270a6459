------------------------------- MODULE HashTable -------------------------------
(***************************************************************************)
(* upb_table, the hash table under upb_strtable and upb_inttable           *)
(* (upb/hash/common.c).  Colliding keys are chained through the entries of *)
(* the table itself: an entry is at the main position of its key, or in    *)
(* the chain that starts there.                                            *)
(*                                                                         *)
(* A table is a record; entry numbers stand for pointers.  An empty entry  *)
(* may keep a stale `next'.                                                *)
(***************************************************************************)
EXTENDS Integers, FiniteSets

CONSTANT hash       \* hash[k]: the hash of key k, which is not 0

ASSUME HashAssumption ==
  /\ DOMAIN hash \subseteq Nat \ {0}
  /\ \A k \in DOMAIN hash : hash[k] \in Nat

NULL == -1
upb_key_empty == 0

Slots(t) == 0 .. t.size - 1

isempty(t, i) == t.entries[i].key = upb_key_empty

EmptyEntry == [key |-> upb_key_empty, val |-> 0, next |-> NULL]

(* Sizes are powers of 2, so that the mask of a hash is its remainder. *)
init(size) ==
  [size |-> size, count |-> 0, entries |-> [i \in 0 .. size - 1 |-> EmptyEntry]]

clear(t) == [t EXCEPT !.count = 0, !.entries = [i \in Slots(t) |-> EmptyEntry]]

getentry(t, key) == hash[key] % t.size

(* Mutant: the load factor forgotten. *)
FullWhenOver(t) == t.count > t.size

isfull(t) == t.count = t.size - t.size \div 8

(* The first empty entry behind i or, if there is none, the first one. *)
emptyent(t, i) ==
  LET empty == {j \in Slots(t) : isempty(t, j)}
      behind == {j \in empty : j > i}
      from == IF behind = {} THEN empty ELSE behind
  IN IF from = {} THEN NULL ELSE CHOOSE j \in from : \A k \in from : j <= k

(* What x has become after the steps 1 .. n of a loop. *)
Loop(x, n, Step(_, _)) ==
  LET after[m \in 0 .. n] == IF m = 0 THEN x ELSE Step(after[m - 1], m)
  IN after[n]

(* A walk along the chain of key to the first of the entries in stops;     *)
(* size bounds it, so that it ends in a broken table too.                  *)
Walk(t, key, stops) ==
  LET step(i, n) == IF i \in stops \cup {NULL} THEN i ELSE t.entries[i].next
      last == Loop(getentry(t, key), t.size, step)
  IN IF last \in stops THEN last ELSE NULL

findentry(t, key) ==
  IF t.count = 0 \/ isempty(t, getentry(t, key)) THEN NULL
  ELSE Walk(t, key, {i \in Slots(t) : t.entries[i].key = key})

(* The entry whose next is i, in the chain of key. *)
Predecessor(t, key, i) == Walk(t, key, {p \in Slots(t) : t.entries[p].next = i})

(* The assertions of insert: the key is new, and an entry that is not in   *)
(* its main position is in the chain of its key.                           *)
InsertDefined(t, key) ==
  LET main == getentry(t, key)
      collider == t.entries[main].key
  IN /\ findentry(t, key) = NULL
     /\ ~isempty(t, main) =>
          /\ \E i \in Slots(t) : isempty(t, i)
          /\ \/ getentry(t, collider) = main
             \/ Predecessor(t, collider, main) # NULL

(* Mutant: the new entry takes the place of the rest of the chain. *)
InsertCutting(t, key, val) ==
  LET main == getentry(t, key)
      new == emptyent(t, main)
      old == t.entries[main]
      ours == [key |-> key, val |-> val, next |-> NULL]
      chain == getentry(t, old.key)
      entries ==
        CASE isempty(t, main) -> [t.entries EXCEPT ![main] = ours]
          [] ~isempty(t, main) /\ chain = main ->
               [t.entries EXCEPT ![new] = ours, ![main].next = new]
          [] OTHER ->
               [t.entries EXCEPT ![new] = old, ![main] = ours,
                  ![Predecessor(t, old.key, main)].next = new]
  IN [t EXCEPT !.count = t.count + 1, !.entries = entries]

(* Its main position if it is empty; behind the head of its chain; or in   *)
(* place of an entry of another chain, which moves.                        *)
insert(t, key, val) ==
  LET main == getentry(t, key)
      new == emptyent(t, main)
      old == t.entries[main]
      ours == [key |-> key, val |-> val, next |-> NULL]
      chain == getentry(t, old.key)
      entries ==
        CASE isempty(t, main) -> [t.entries EXCEPT ![main] = ours]
          [] ~isempty(t, main) /\ chain = main ->
               [t.entries EXCEPT ![new] = [ours EXCEPT !.next = old.next],
                                 ![main].next = new]
          [] OTHER ->
               [t.entries EXCEPT ![new] = old, ![main] = ours,
                  ![Predecessor(t, old.key, main)].next = new]
  IN [t EXCEPT !.count = t.count + 1, !.entries = entries]

(* The entry of a key, if it is in the table: from the head of the chain   *)
(* by moving the second entry into it, otherwise by unlinking.             *)
rm(t, key) ==
  LET i == findentry(t, key)
      e == t.entries[i]
      entries ==
        CASE i = getentry(t, key) /\ e.next = NULL ->
               [t.entries EXCEPT ![i].key = upb_key_empty]
          [] i = getentry(t, key) /\ e.next # NULL ->
               [t.entries EXCEPT ![i] = t.entries[e.next],
                                 ![e.next].key = upb_key_empty]
          [] OTHER ->
               [t.entries EXCEPT ![i].key = upb_key_empty,
                  ![Predecessor(t, key, i)].next = e.next]
  IN IF i = NULL THEN t ELSE [t EXCEPT !.count = t.count - 1, !.entries = entries]

(* Mutant: an entry removed without being counted. *)
RemoveIterUncounted(t, i) ==
  [t EXCEPT !.entries[i].key = upb_key_empty, !.entries[i].next = NULL]

(* upb_strtable_removeiter: the first entry that points to i, live or not, *)
(* is taken for its predecessor; without one i is emptied as it is.        *)
removeiter(t, i) ==
  LET pointing == {p \in Slots(t) : t.entries[p].next = i}
      prev == CHOOSE p \in pointing : \A q \in pointing : p <= q
      unlinked == IF pointing = {} THEN t.entries
                  ELSE [t.entries EXCEPT ![prev].next = t.entries[i].next]
  IN [t EXCEPT !.count = t.count - 1,
               !.entries = [unlinked EXCEPT ![i].key = upb_key_empty,
                                            ![i].next = NULL]]

(* The entry an iterator moves to from i; the size of the table at the end.*)
next(t, i) ==
  LET after == {j \in Slots(t) : j > i /\ ~isempty(t, j)}
  IN IF after = {} THEN t.size ELSE CHOOSE j \in after : \A k \in after : j <= k

(* A table of another size with the same entries. *)
Rehashed(t, size) ==
  LET step(u, n) == IF isempty(t, n - 1) THEN u
                    ELSE insert(u, t.entries[n - 1].key, t.entries[n - 1].val)
  IN Loop(init(size), t.size, step)

(* A full table doubles before it takes another entry. *)
Grown(t) == IF isfull(t) THEN Rehashed(t, 2 * t.size) ELSE t
----------------------------------------------------------------------------
(* What makes a table a table: every entry is found under its key, and the *)
(* count is the number of entries, so that isfull leaves an empty one.     *)
WellFormed(t) ==
  /\ t.count = Cardinality({i \in Slots(t) : ~isempty(t, i)})
  /\ t.count <= t.size - t.size \div 8
  /\ \A i \in Slots(t) : ~isempty(t, i) => findentry(t, t.entries[i].key) = i
================================================================================

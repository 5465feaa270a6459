----------------------------- MODULE DefPoolProofs -----------------------------
(***************************************************************************)
(* Proofs about the hash table (HashTable) and about the pool that is      *)
(* built on it (DefPool).                                                  *)
(*                                                                         *)
(* First the table: typed tables, walks, insertion, whole chains, removal, *)
(* growth.  What is said with Counted and Maps alone holds of any table,   *)
(* also of one whose chains a roll-back has broken; Chained says that the  *)
(* chains are whole, from which it follows that keys are found.  Then the  *)
(* loops of the pool over tables, its inductive invariant and what follows *)
(* from it.                                                                *)
(***************************************************************************)
EXTENDS DefPool, TLAPS, FiniteSetTheorems, WellFoundedInduction

\* A non-empty set of naturals has a least element.
LEMMA LeastElement ==
  ASSUME NEW S \in SUBSET Nat, S # {}
  PROVE  \E x \in S : \A y \in S : x <= y
<1>1. IsWellFoundedOn(OpToRel(<, Nat), Nat)
  BY NatLessThanWellFounded, Zenon
<1>2. PICK x \in S : \A y \in S : ~(<<y, x>> \in OpToRel(<, Nat))
  BY <1>1, WFMin, Zenon
<1>3. \A y \in S : ~(y < x)
  BY <1>2 DEF OpToRel
<1> QED BY <1>3

\* Induction up to a bound, over a set of numbers.
LEMMA UpTo ==
  ASSUME NEW n \in Nat, NEW S, 0 \in S,
         \A m \in 1 .. n : m - 1 \in S => m \in S
  PROVE  \A m \in 0 .. n : m \in S
<1> SUFFICES ASSUME NEW a \in 0 .. n, a \notin S PROVE FALSE
  OBVIOUS
<1> DEFINE B == {m \in 0 .. n : m \notin S}
<1>0. B \in SUBSET Nat /\ B # {}
  OBVIOUS
<1>1. PICK x \in B : \A y \in B : x <= y
  BY <1>0, LeastElement
<1>2. x # 0 /\ x - 1 \in 0 .. n /\ x \in 1 .. n
  BY <1>1
<1>3. x - 1 \in S
  BY <1>1, <1>2
<1> QED BY <1>1, <1>2, <1>3

\* f gives the values that x takes over the steps 1 .. n of G.
Trace(f, T, x, G, n) ==
  /\ f \in [0 .. n -> T]
  /\ f[0] = x
  /\ \A m \in 1 .. n : f[m] = G[m][f[m - 1]]

\* Steps that stay within T have a trace.
LEMMA Iteration ==
  ASSUME NEW T, NEW x \in T, NEW n \in Nat, NEW G \in [1 .. n -> [T -> T]]
  PROVE  \E f : Trace(f, T, x, G, n)
<1> DEFINE S == {k \in 0 .. n : \E f : Trace(f, T, x, G, k)}
<1>1. 0 \in S
  <2>1. PICK f : f = [m \in 0 .. 0 |-> x]
    OBVIOUS
  <2>2. Trace(f, T, x, G, 0)
    BY <2>1 DEF Trace
  <2> QED BY <2>2
<1>2. ASSUME NEW k \in 1 .. n, k - 1 \in S PROVE k \in S
  <2>1. PICK f : Trace(f, T, x, G, k - 1)
    BY <1>2
  <2>2. PICK g : g = [m \in 0 .. k |-> IF m = k THEN G[k][f[k - 1]] ELSE f[m]]
    OBVIOUS
  <2>3. g \in [0 .. k -> T]
    BY <2>1, <2>2 DEF Trace
  <2>4. g[0] = x /\ \A m \in 1 .. k : g[m] = G[m][g[m - 1]]
    BY <2>1, <2>2 DEF Trace
  <2>5. Trace(g, T, x, G, k)
    BY <2>3, <2>4 DEF Trace
  <2> QED BY <2>5
<1>3. \A k \in 1 .. n : k - 1 \in S => k \in S
  BY <1>2
<1>4. \A k \in 0 .. n : k \in S
  <2> HIDE DEF S
  <2> QED BY <1>1, <1>3, UpTo
<1> QED BY <1>4

-----------------------------------------------------------------------------
(* Tables.                                                                 *)

HashKeys == DOMAIN hash

Entry(n) == [key : HashKeys \cup {upb_key_empty}, val : Nat,
             next : (0 .. n - 1) \cup {NULL}]

TableOf(n) == [size : {n}, count : Int, entries : [0 .. n - 1 -> Entry(n)]]

Typed(t) == t.size \in Nat \ {0} /\ t \in TableOf(t.size)

Live(t) == {i \in Slots(t) : ~isempty(t, i)}

Main(t, i) == getentry(t, t.entries[i].key)

\* A remainder is below the divisor.
LEMMA ModType ==
  ASSUME NEW a \in Nat, NEW n \in Nat \ {0}
  PROVE  a % n \in 0 .. n - 1
OBVIOUS

\* The main position of a key is an entry of the table.
LEMMA GetentryType ==
  ASSUME NEW t, Typed(t), NEW key \in HashKeys
  PROVE  getentry(t, key) \in Slots(t)
<1>1. hash[key] \in Nat /\ t.size \in Nat \ {0}
  BY HashAssumption DEF HashKeys, Typed
<1> QED BY <1>1, ModType DEF getentry, Slots

\* The parts of a typed table, expanded once.
LEMMA TypedFacts ==
  ASSUME NEW t, Typed(t)
  PROVE  /\ t.size \in Nat \ {0}
         /\ t.count \in Int
         /\ 0 \notin HashKeys
         /\ HashKeys \subseteq Nat
         /\ NULL \notin Slots(t)
         /\ Slots(t) \subseteq Nat
         /\ t.entries \in [Slots(t) -> [key : HashKeys \cup {0}, val : Nat,
                                        next : Slots(t) \cup {NULL}]]
         /\ \A i \in Slots(t) :
              /\ t.entries[i].key \in HashKeys \cup {0}
              /\ t.entries[i].val \in Nat
              /\ t.entries[i].next \in Slots(t) \cup {NULL}
              /\ i \in Live(t) <=> t.entries[i].key # 0
         /\ \A i \in Live(t) : i \in Slots(t) /\ t.entries[i].key \in HashKeys
                                 /\ Main(t, i) \in Slots(t)
<1>1. t.size \in Nat \ {0} /\ t \in TableOf(t.size)
  BY DEF Typed
<1>2. t.entries \in [Slots(t) -> [key : HashKeys \cup {0}, val : Nat,
                                        next : Slots(t) \cup {NULL}]]
  BY <1>1 DEF TableOf, Entry, Slots, upb_key_empty
<1>3. 0 \notin HashKeys /\ HashKeys \subseteq Nat
  BY HashAssumption DEF HashKeys
<1>4. NULL \notin Slots(t) /\ Slots(t) \subseteq Nat
  BY <1>1 DEF Slots, NULL
<1>5. \A i \in Slots(t) : i \in Live(t) <=> t.entries[i].key # 0
  BY DEF Live, isempty, upb_key_empty
<1>6. \A i \in Live(t) : i \in Slots(t) /\ t.entries[i].key \in HashKeys
  BY <1>2, <1>5 DEF Live
<1>7. \A i \in Live(t) : Main(t, i) \in Slots(t)
  BY <1>6, GetentryType DEF Main
<1>8. t.count \in Int
  BY <1>1 DEF TableOf
<1> QED BY <1>1, <1>2, <1>3, <1>4, <1>5, <1>6, <1>7, <1>8

-----------------------------------------------------------------------------
(* Walks.                                                                  *)

\* f is the path of a walk from h to an entry of stops.
Path(f, t, h, stops) ==
  /\ f \in [0 .. t.size -> Slots(t) \cup {NULL}]
  /\ f[0] = h
  /\ \A m \in 1 .. t.size :
       f[m] = IF f[m - 1] \in stops \cup {NULL} THEN f[m - 1]
              ELSE t.entries[f[m - 1]].next

\* The value of Walk is the end of a path.
LEMMA WalkPath ==
  ASSUME NEW t, Typed(t), NEW key \in HashKeys, NEW stops
  PROVE  \E f : /\ Path(f, t, getentry(t, key), stops)
                /\ Walk(t, key, stops) = IF f[t.size] \in stops THEN f[t.size] ELSE NULL
<1> DEFINE T == Slots(t) \cup {NULL}
           n == t.size
           step(i) == IF i \in stops \cup {NULL} THEN i ELSE t.entries[i].next
           x == getentry(t, key)
           after == CHOOSE f : f = [m \in 0 .. n |-> IF m = 0 THEN x ELSE step(f[m - 1])]
           G == [m \in 1 .. n |-> [i \in T |-> step(i)]]
<1>1. n \in Nat /\ x \in T /\ \A i \in T : step(i) \in T
  BY TypedFacts, GetentryType
<1>2. G \in [1 .. n -> [T -> T]]
  BY <1>1
<1>3. \A m \in 1 .. n : \A i \in T : G[m][i] = step(i)
  OBVIOUS
<1>4. PICK f : Trace(f, T, x, G, n)
  <2> HIDE DEF G, T, x, n
  <2> QED BY Iteration, <1>1, <1>2
<1>5. f[0] = x /\ f \in [0 .. n -> T] /\ \A m \in 1 .. n : f[m] = step(f[m - 1])
  <2> HIDE DEF G, T, step
  <2>1. \A m \in 1 .. n : f[m - 1] \in T /\ f[m] = G[m][f[m - 1]]
    BY <1>1, <1>4 DEF Trace
  <2> QED BY <1>3, <1>4, <2>1 DEF Trace
<1>6. f = [m \in 0 .. n |-> IF m = 0 THEN x ELSE step(f[m - 1])]
  <2>1. PICK g : g = [m \in 0 .. n |-> IF m = 0 THEN x ELSE step(f[m - 1])]
    OBVIOUS
  <2> HIDE DEF step, x
  <2>2. \A m \in 0 .. n : f[m] = g[m]
    BY <2>1, <1>1, <1>5
  <2>3. f = g
    BY <2>1, <2>2, <1>5
  <2> QED BY <2>1, <2>3
<1>7. after = [m \in 0 .. n |-> IF m = 0 THEN x ELSE step(after[m - 1])]
  <2> HIDE DEF step, x
  <2> QED BY <1>6, Zenon
<1>8. Walk(t, key, stops) = IF after[n] \in stops THEN after[n] ELSE NULL
  BY DEF Walk, Loop
<1> HIDE DEF after
<1>9. after \in [0 .. n -> T]
  <2> DEFINE S == {m \in 0 .. n : after[m] \in T}
  <2>1. 0 \in S
    BY <1>7, <1>1
  <2>2. \A m \in 1 .. n : m - 1 \in S => m \in S
    BY <1>7, <1>1
  <2>3. \A m \in 0 .. n : m \in S
    <3> HIDE DEF S
    <3> QED BY <1>1, <2>1, <2>2, UpTo
  <2> QED BY <2>3, <1>7
<1>10. after[0] = x /\ \A m \in 1 .. n : after[m] = step(after[m-1])
  BY <1>1, <1>7
<1>11. Path(after, t, x, stops)
  BY <1>9, <1>10 DEF Path
<1> QED BY <1>8, <1>11

\* A walk ends at one of its stops or finds none.
LEMMA WalkType ==
  ASSUME NEW t, Typed(t), NEW key \in HashKeys, NEW stops
  PROVE  Walk(t, key, stops) \in (Slots(t) \cap stops) \cup {NULL}
<1>1. PICK f : /\ Path(f, t, getentry(t, key), stops)
               /\ Walk(t, key, stops) = IF f[t.size] \in stops THEN f[t.size] ELSE NULL
  BY WalkPath
<1>2. f[t.size] \in Slots(t) \cup {NULL}
  BY <1>1, TypedFacts DEF Path
<1> QED BY <1>1, <1>2

\* findentry returns an entry with the key, or NULL.
LEMMA FindType ==
  ASSUME NEW t, Typed(t), NEW key \in HashKeys
  PROVE  LET i == findentry(t, key) IN
         i \in {j \in Slots(t) : t.entries[j].key = key} \cup {NULL}
BY WalkType DEF findentry

\* Predecessor returns an entry that points to i, or NULL.
LEMMA PredecessorType ==
  ASSUME NEW t, Typed(t), NEW key \in HashKeys, NEW i
  PROVE  LET p == Predecessor(t, key, i) IN
         p \in {q \in Slots(t) : t.entries[q].next = i} \cup {NULL}
BY WalkType DEF Predecessor

-----------------------------------------------------------------------------
(* Insertion.                                                              *)

\* emptyent finds an empty entry if there is one.
LEMMA EmptyentIs ==
  ASSUME NEW t, Typed(t), NEW i \in Slots(t)
  PROVE  /\ emptyent(t, i) \in Slots(t) \cup {NULL}
         /\ Live(t) # Slots(t) => emptyent(t, i) \in Slots(t) \ Live(t)
<1> DEFINE empty == {j \in Slots(t) : isempty(t, j)}
           behind == {j \in empty : j > i}
           from == IF behind = {} THEN empty ELSE behind
<1>1. from \subseteq empty /\ from \in SUBSET Nat /\ (empty # {} => from # {})
  BY TypedFacts
<1>2. emptyent(t, i) = IF from = {} THEN NULL ELSE CHOOSE j \in from : \A k \in from : j <= k
  BY DEF emptyent
<1>3. ASSUME from # {} PROVE emptyent(t, i) \in from
  <2> HIDE DEF from
  <2>1. \E j \in from : \A k \in from : j <= k
    BY <1>1, <1>3, LeastElement
  <2> QED BY <1>2, <1>3, <2>1
<1>4. empty = Slots(t) \ Live(t) /\ Live(t) \subseteq Slots(t)
  BY DEF Live
<1>5. emptyent(t, i) \in Slots(t) \cup {NULL}
  <2> HIDE DEF from
  <2> QED BY <1>1, <1>2, <1>3, <1>4
<1>6. ASSUME Live(t) # Slots(t) PROVE emptyent(t, i) \in Slots(t) \ Live(t)
  <2>1. empty # {}
    BY <1>4, <1>6
  <2> HIDE DEF from, empty
  <2> QED BY <1>1, <1>3, <1>4, <2>1
<1> QED BY <1>5, <1>6

\* The three ways to insert.
InsertAlone(t, u, key, val) ==
  LET m == getentry(t, key) IN
  /\ m \notin Live(t)
  /\ u.entries = [t.entries EXCEPT ![m] = [key |-> key, val |-> val, next |-> NULL]]

InsertBehind(t, u, key, val) ==
  LET m == getentry(t, key)
      new == emptyent(t, m) IN
  /\ m \in Live(t)
  /\ Main(t, m) = m
  /\ u.entries = [t.entries EXCEPT
       ![new] = [key |-> key, val |-> val, next |-> t.entries[m].next],
       ![m].next = new]

InsertEvicting(t, u, key, val) ==
  LET m == getentry(t, key)
      new == emptyent(t, m)
      p == Predecessor(t, t.entries[m].key, m) IN
  /\ m \in Live(t)
  /\ Main(t, m) # m
  /\ u.entries = [t.entries EXCEPT ![new] = t.entries[m],
       ![m] = [key |-> key, val |-> val, next |-> NULL], ![p].next = new]

\* insert goes one of the three ways.
LEMMA InsertCases ==
  ASSUME NEW t, Typed(t), NEW key \in HashKeys, NEW val \in Nat,
         NEW u, u = insert(t, key, val)
  PROVE  /\ u = [size |-> t.size, count |-> t.count + 1, entries |-> u.entries]
         /\ \/ InsertAlone(t, u, key, val)
            \/ InsertBehind(t, u, key, val)
            \/ InsertEvicting(t, u, key, val)
<1> DEFINE m == getentry(t, key)
<1>1. m \in Slots(t)
  BY GetentryType
<1>2. m \in Live(t) <=> ~isempty(t, m)
  BY <1>1 DEF Live
<1>3. t = [size |-> t.size, count |-> t.count, entries |-> t.entries]
  BY DEF Typed, TableOf
<1>4. u = [size |-> t.size, count |-> t.count + 1, entries |-> u.entries]
  BY <1>3 DEF insert
<1>5. CASE isempty(t, m)
  <2>1. InsertAlone(t, u, key, val)
    BY <1>2, <1>3, <1>5 DEF insert, InsertAlone
  <2> QED BY <1>4, <2>1
<1>6. CASE ~isempty(t, m) /\ Main(t, m) = m
  <2>1. InsertBehind(t, u, key, val)
    BY <1>2, <1>3, <1>6 DEF insert, InsertBehind, Main
  <2> QED BY <1>4, <2>1
<1>7. CASE ~isempty(t, m) /\ Main(t, m) # m
  <2>1. InsertEvicting(t, u, key, val)
    BY <1>2, <1>3, <1>7 DEF insert, InsertEvicting, Main
  <2> QED BY <1>4, <2>1
<1> QED BY <1>5, <1>6, <1>7

\* insert keeps the types and the size and counts the entry.
LEMMA InsertTyped ==
  ASSUME NEW t, Typed(t), NEW key \in HashKeys, NEW val \in Nat
  PROVE  /\ Typed(insert(t, key, val))
         /\ insert(t, key, val).size = t.size
         /\ insert(t, key, val).count = t.count + 1
<1>1. PICK u : u = insert(t, key, val)
  OBVIOUS
<1>2. PICK m : m = getentry(t, key)
  OBVIOUS
<1>3. PICK new : new = emptyent(t, m)
  OBVIOUS
<1>4. m \in Slots(t) /\ new \in Slots(t) \cup {NULL}
  BY <1>2, <1>3, GetentryType, EmptyentIs
<1> DEFINE E == [key : HashKeys \cup {0}, val : Nat, next : Slots(t) \cup {NULL}]
<1>5. t.entries \in [Slots(t) -> E] /\ NULL \notin Slots(t)
  BY TypedFacts
<1>6. \A n \in Slots(t) \cup {NULL} : [key |-> key, val |-> val, next |-> n] \in E
  OBVIOUS
<1>7. u.entries \in [Slots(t) -> E]
  <2>1. CASE InsertAlone(t, u, key, val)
    BY <1>2, <1>4, <1>5, <1>6, <2>1 DEF InsertAlone
  <2>2. CASE InsertBehind(t, u, key, val)
    BY <1>2, <1>3, <1>4, <1>5, <1>6, <2>2 DEF InsertBehind
  <2>3. CASE InsertEvicting(t, u, key, val)
    <3>1. PICK p : p = Predecessor(t, t.entries[m].key, m)
      OBVIOUS
    <3>2. PICK f : f = [t.entries EXCEPT ![new] = t.entries[m],
                          ![m] = [key |-> key, val |-> val, next |-> NULL]]
      OBVIOUS
    <3>3. f \in [Slots(t) -> E]
      BY <1>4, <1>5, <1>6, <3>2
    <3>4. u.entries = [f EXCEPT ![p].next = new]
      BY <1>2, <1>3, <2>3, <3>1, <3>2 DEF InsertEvicting
    <3> QED BY <1>4, <3>3, <3>4
  <2> QED BY <1>1, <2>1, <2>2, <2>3, InsertCases
<1>8. u = [size |-> t.size, count |-> t.count + 1, entries |-> u.entries]
  BY <1>1, InsertCases
<1>9. t.size \in Nat \ {0} /\ t.count \in Int
  BY TypedFacts
<1>10. Typed(u)
  BY <1>7, <1>8, <1>9 DEF Typed, TableOf, Entry, Slots, upb_key_empty
<1> QED BY <1>1, <1>8, <1>10

\* What the entries are afterwards, one by one.
AlonePoints(t, u, m, key, val) ==
  /\ m \in Slots(t) \ Live(t)
  /\ \A i \in Slots(t) : u.entries[i] = IF i = m THEN [key |-> key, val |-> val, next |-> NULL]
                                        ELSE t.entries[i]

BehindPoints(t, u, m, new, key, val) ==
  /\ m \in Live(t)
  /\ Main(t, m) = m
  /\ new \in Slots(t) \ Live(t)
  /\ \A i \in Slots(t) :
       u.entries[i] = IF i = m THEN [key |-> t.entries[m].key, val |-> t.entries[m].val,
                                     next |-> new]
                      ELSE IF i = new THEN [key |-> key, val |-> val,
                                            next |-> t.entries[m].next]
                      ELSE t.entries[i]

EvictingPoints(t, u, m, new, p, key, val) ==
  /\ m \in Live(t)
  /\ Main(t, m) # m
  /\ new \in Slots(t) \ Live(t)
  /\ \A i \in Slots(t) :
       /\ u.entries[i].key = IF i = m THEN key ELSE IF i = new THEN t.entries[m].key
                             ELSE t.entries[i].key
       /\ u.entries[i].val = IF i = m THEN val ELSE IF i = new THEN t.entries[m].val
                             ELSE t.entries[i].val
       /\ u.entries[i].next = IF i = p THEN new ELSE IF i = m THEN NULL
                              ELSE IF i = new THEN t.entries[m].next
                              ELSE t.entries[i].next

\* Where there is an empty entry, the three ways entry by entry.
LEMMA InsertPoints ==
  ASSUME NEW t, Typed(t), NEW key \in HashKeys, NEW val \in Nat,
         NEW u, u = insert(t, key, val), Live(t) # Slots(t),
         NEW m, m = getentry(t, key)
  PROVE  \/ AlonePoints(t, u, m, key, val)
         \/ \E new : BehindPoints(t, u, m, new, key, val)
         \/ \E new : EvictingPoints(t, u, m, new, Predecessor(t, t.entries[m].key, m), key, val)
<1>1. m \in Slots(t)
  BY GetentryType
<1>2. PICK new : new = emptyent(t, m)
  OBVIOUS
<1>3. new \in Slots(t) \ Live(t)
  BY <1>1, <1>2, EmptyentIs
<1>4. /\ t.entries \in [Slots(t) -> [key : HashKeys \cup {0}, val : Nat,
                                      next : Slots(t) \cup {NULL}]]
      /\ Live(t) \subseteq Slots(t)
  BY TypedFacts
<1>5. CASE InsertAlone(t, u, key, val)
  <2>1. AlonePoints(t, u, m, key, val)
    BY <1>1, <1>4, <1>5 DEF InsertAlone, AlonePoints
  <2> QED BY <2>1
<1>6. CASE InsertBehind(t, u, key, val)
  <2>1. BehindPoints(t, u, m, new, key, val)
    BY <1>1, <1>2, <1>3, <1>4, <1>6 DEF InsertBehind, BehindPoints
  <2> QED BY <2>1
<1>7. CASE InsertEvicting(t, u, key, val)
  <2>1. PICK p : p = Predecessor(t, t.entries[m].key, m)
    OBVIOUS
  <2>2. PICK f : f = [t.entries EXCEPT ![new] = t.entries[m],
                        ![m] = [key |-> key, val |-> val, next |-> NULL]]
    OBVIOUS
  <2>3. u.entries = [f EXCEPT ![p].next = new]
    BY <1>2, <1>7, <2>1, <2>2 DEF InsertEvicting
  <2>4. m \in Live(t) /\ Main(t, m) # m /\ m # new
    BY <1>3, <1>7 DEF InsertEvicting
  <2>5. \A i \in Slots(t) :
          f[i] = IF i = m THEN [key |-> key, val |-> val, next |-> NULL]
                 ELSE IF i = new THEN t.entries[m] ELSE t.entries[i]
    BY <1>1, <1>3, <1>4, <2>2, <2>4
  <2>6. f \in [Slots(t) -> [key : HashKeys \cup {0}, val : Nat,
                             next : Slots(t) \cup {NULL}]]
    BY <1>1, <1>3, <1>4, <2>2
  <2>7. \A i \in Slots(t) : /\ u.entries[i].key = f[i].key
                            /\ u.entries[i].val = f[i].val
                            /\ u.entries[i].next = IF i = p THEN new ELSE f[i].next
    BY <2>3, <2>6
  <2>8. EvictingPoints(t, u, m, new, p, key, val)
    BY <1>3, <2>4, <2>5, <2>7 DEF EvictingPoints
  <2> QED BY <2>1, <2>8
<1> QED BY <1>5, <1>6, <1>7, InsertCases

\* Key k has value v in t.
Maps(t, k, v) == \E i \in Live(t) : t.entries[i].key = k /\ t.entries[i].val = v

Counted(t) == Typed(t) /\ t.count = Cardinality(Live(t))

\* There are no more entries in use than entries.
LEMMA LiveFinite ==
  ASSUME NEW t, Typed(t)
  PROVE  /\ IsFiniteSet(Live(t))
         /\ Cardinality(Live(t)) \in Nat
         /\ Cardinality(Live(t)) <= t.size
         /\ Cardinality(Live(t)) < t.size => Live(t) # Slots(t)
         /\ Cardinality(Live(t)) = 0 <=> Live(t) = {}
<1>1. t.size \in Nat \ {0}
  BY DEF Typed
<1>2. IsFiniteSet(Slots(t)) /\ Cardinality(Slots(t)) = t.size
  <2>1. 0 \in Int /\ t.size - 1 \in Int /\ ~(0 > t.size - 1) /\ t.size - 1 - 0 + 1 = t.size
    BY <1>1
  <2>2. IsFiniteSet(0 .. t.size - 1) /\ Cardinality(0 .. t.size - 1) = t.size - 1 - 0 + 1
    BY <2>1, FS_Interval
  <2> QED BY <2>1, <2>2 DEF Slots
<1>3. Live(t) \in SUBSET Slots(t)
  BY DEF Live
<1>4. IsFiniteSet(Live(t)) /\ Cardinality(Live(t)) <= Cardinality(Slots(t))
  BY <1>2, <1>3, FS_Subset
<1>5. Cardinality(Live(t)) \in Nat
  BY <1>4, FS_CardinalityType
<1>6. Cardinality(Live(t)) = 0 <=> Live(t) = {}
  BY <1>4, FS_EmptySet
<1> QED BY <1>1, <1>2, <1>4, <1>5, <1>6

\* Where there is an empty entry, insertion adds one entry and no more,
\* whatever the chains are like.
LEMMA InsertAdds ==
  ASSUME NEW t, Typed(t), NEW key \in HashKeys, NEW val \in Nat, Live(t) # Slots(t),
         NEW u, u = insert(t, key, val)
  PROVE  /\ \E x \in Slots(t) \ Live(t) : Live(u) = Live(t) \cup {x}
         /\ \A k, v : Maps(u, k, v) <=> Maps(t, k, v) \/ (k = key /\ v = val)
<1>1. PICK m : m = getentry(t, key)
  OBVIOUS
<1>2. Typed(u) /\ Slots(u) = Slots(t)
  BY InsertTyped DEF Slots
<1>3. /\ Live(t) \subseteq Slots(t)
      /\ Live(u) \subseteq Slots(t)
      /\ \A i \in Slots(t) : i \in Live(t) <=> t.entries[i].key # 0
      /\ \A i \in Slots(t) : i \in Live(u) <=> u.entries[i].key # 0
      /\ key # 0
  BY <1>2, TypedFacts
<1>4. CASE AlonePoints(t, u, m, key, val)
  <2>1. Live(u) = Live(t) \cup {m}
    BY <1>3, <1>4 DEF AlonePoints
  <2>2. ASSUME NEW k, NEW v PROVE Maps(u, k, v) <=> Maps(t, k, v) \/ (k = key /\ v = val)
    BY <1>3, <1>4, <2>1 DEF AlonePoints, Maps
  <2> QED BY <1>4, <2>1, <2>2 DEF AlonePoints
<1>5. ASSUME NEW new, BehindPoints(t, u, m, new, key, val)
      PROVE  /\ \E x \in Slots(t) \ Live(t) : Live(u) = Live(t) \cup {x}
             /\ \A k, v : Maps(u, k, v) <=> Maps(t, k, v) \/ (k = key /\ v = val)
  <2>1. Live(u) = Live(t) \cup {new}
    BY <1>3, <1>5 DEF BehindPoints
  <2>2. ASSUME NEW k, NEW v PROVE Maps(u, k, v) <=> Maps(t, k, v) \/ (k = key /\ v = val)
    BY <1>3, <1>5, <2>1 DEF BehindPoints, Maps
  <2> QED BY <1>5, <2>1, <2>2 DEF BehindPoints
<1>6. ASSUME NEW new, NEW p, EvictingPoints(t, u, m, new, p, key, val)
      PROVE  /\ \E x \in Slots(t) \ Live(t) : Live(u) = Live(t) \cup {x}
             /\ \A k, v : Maps(u, k, v) <=> Maps(t, k, v) \/ (k = key /\ v = val)
  <2>1. Live(u) = Live(t) \cup {new}
    BY <1>3, <1>6 DEF EvictingPoints
  <2>2. ASSUME NEW k, NEW v PROVE Maps(u, k, v) <=> Maps(t, k, v) \/ (k = key /\ v = val)
    BY <1>3, <1>6, <2>1 DEF EvictingPoints, Maps
  <2> QED BY <1>6, <2>1, <2>2 DEF EvictingPoints
<1> QED BY <1>1, <1>4, <1>5, <1>6, InsertPoints

\* insert keeps the count exact.
LEMMA InsertCounted ==
  ASSUME NEW t, Counted(t), t.count < t.size, NEW key \in HashKeys, NEW val \in Nat,
         NEW u, u = insert(t, key, val)
  PROVE  Counted(u) /\ u.size = t.size /\ u.count = t.count + 1
<1>1. Live(t) # Slots(t) /\ IsFiniteSet(Live(t))
  BY LiveFinite DEF Counted
<1>2. PICK x \in Slots(t) \ Live(t) : Live(u) = Live(t) \cup {x}
  BY <1>1, InsertAdds DEF Counted
<1>3. Cardinality(Live(u)) = Cardinality(Live(t)) + 1
  BY <1>1, <1>2, FS_AddElement
<1> QED BY <1>3, InsertTyped DEF Counted

-----------------------------------------------------------------------------
(* Chains.                                                                 *)

\* Entry i hangs on the chain of its key, which starts at the key's main
\* position; r increases along the chain.
Linked(t, r, i) ==
  /\ Main(t, i) \in Live(t)
  /\ Main(t, Main(t, i)) = Main(t, i)
  /\ i # Main(t, i) => \E p \in Live(t) : t.entries[p].next = i
  /\ t.entries[i].next # NULL =>
       /\ t.entries[i].next \in Live(t)
       /\ Main(t, t.entries[i].next) = Main(t, i)
       /\ t.entries[i].next # Main(t, i)
       /\ r[i] < r[t.entries[i].next]
       /\ \A j \in Live(t) : t.entries[j].next = t.entries[i].next => j = i

\* With r increasing, no chain is a cycle.
ChainRank(t, r) ==
  /\ r \in [Slots(t) -> Nat]
  /\ \A i \in Live(t) : Linked(t, r, i)

\* No key has two entries.
Distinct(t) ==
  \A i, j \in Live(t) : t.entries[i].key = t.entries[j].key => i = j

Chained(t) == Distinct(t) /\ \E r : ChainRank(t, r)

\* A walk that has come to a stop stays there.
LEMMA PathStops ==
  ASSUME NEW t, Typed(t), NEW h, NEW stops, NEW f, Path(f, t, h, stops)
  PROVE  \A m \in 0 .. t.size : \A a \in 0 .. m :
           f[a] \in stops \cup {NULL} => f[m] = f[a]
<1> DEFINE n == t.size
           S == {m \in 0 .. n : \A a \in 0 .. m : f[a] \in stops \cup {NULL} => f[m] = f[a]}
<1>1. n \in Nat
  BY TypedFacts
<1>2. 0 \in S
  BY <1>1
<1>3. ASSUME NEW m \in 1 .. n, m - 1 \in S PROVE m \in S
  <2> SUFFICES ASSUME NEW a \in 0 .. m, f[a] \in stops \cup {NULL} PROVE f[m] = f[a]
    BY <1>1
  <2>1. CASE a = m
    BY <2>1
  <2>2. CASE a # m
    <3>1. a \in 0 .. m - 1
      BY <2>2
    <3>2. f[m - 1] = f[a]
      BY <1>3, <3>1
    <3> QED BY <3>2 DEF Path
  <2> QED BY <2>1, <2>2
<1>4. \A m \in 1 .. n : m - 1 \in S => m \in S
  BY <1>3
<1>5. \A m \in 0 .. n : m \in S
  <2> HIDE DEF S
  <2> QED BY <1>1, <1>2, <1>4, UpTo
<1> QED BY <1>5

\* A walk from an entry passes entries of one chain.
LEMMA PathStays ==
  ASSUME NEW t, Typed(t), NEW r, ChainRank(t, r), NEW h \in Live(t), NEW stops,
         NEW f, Path(f, t, h, stops)
  PROVE  \A m \in 0 .. t.size :
           f[m] = NULL \/ (f[m] \in Live(t) /\ Main(t, f[m]) = Main(t, h))
<1> DEFINE n == t.size
           P(i) == i = NULL \/ (i \in Live(t) /\ Main(t, i) = Main(t, h))
           S == {m \in 0 .. n : P(f[m])}
<1>1. n \in Nat
  BY TypedFacts
<1>2. 0 \in S
  BY <1>1 DEF Path
<1>3. \A i : P(i) => i = NULL \/ P(t.entries[i].next)
  BY DEF ChainRank, Linked
<1>4. ASSUME NEW m \in 1 .. n, m - 1 \in S PROVE m \in S
  <2>1. P(f[m - 1])
    BY <1>4
  <2>2. f[m] = f[m - 1] \/ (f[m - 1] # NULL /\ f[m] = t.entries[f[m - 1]].next)
    BY DEF Path
  <2>3. P(f[m])
    <3> HIDE DEF P
    <3> QED BY <1>3, <2>1, <2>2
  <2> QED BY <2>3
<1>5. \A m \in 1 .. n : m - 1 \in S => m \in S
  BY <1>4
<1>6. \A m \in 0 .. n : m \in S
  <2> HIDE DEF S
  <2> QED BY <1>1, <1>2, <1>5, UpTo
<1> QED BY <1>6

\* Within size steps a walk comes to a stop or to the end of the chain.
LEMMA PathEnds ==
  ASSUME NEW t, Typed(t), NEW r, ChainRank(t, r), NEW h \in Live(t), NEW stops,
         NEW f, Path(f, t, h, stops)
  PROVE  f[t.size] \in stops \cup {NULL}
<1> SUFFICES ASSUME f[t.size] \notin stops \cup {NULL} PROVE FALSE
  OBVIOUS
<1> DEFINE n == t.size
<1>1. n \in Nat /\ Live(t) \subseteq Slots(t)
  BY TypedFacts
<1>2. \A m \in 0 .. n : f[m] \notin stops \cup {NULL}
  <2> SUFFICES ASSUME NEW m \in 0 .. n, f[m] \in stops \cup {NULL} PROVE FALSE
    OBVIOUS
  <2>1. n \in 0 .. n
    BY <1>1
  <2> QED BY <2>1, PathStops
<1>3. \A m \in 0 .. n : f[m] \in Live(t)
  BY <1>2, PathStays
<1>4. \A m \in 1 .. n : r[f[m - 1]] < r[f[m]]
  <2> SUFFICES ASSUME NEW m \in 1 .. n PROVE r[f[m - 1]] < r[f[m]]
    OBVIOUS
  <2>1. m - 1 \in 0 .. n /\ m \in 0 .. n
    BY <1>1
  <2>2. f[m] = t.entries[f[m - 1]].next
    BY <1>2, <2>1 DEF Path
  <2>3. f[m - 1] \in Live(t) /\ f[m] # NULL
    BY <1>2, <1>3, <2>1
  <2> QED BY <2>2, <2>3 DEF ChainRank, Linked
<1>5. \A m \in 0 .. n : r[f[m]] \in Nat
  BY <1>1, <1>3 DEF ChainRank, Linked
<1> DEFINE S == {m \in 0 .. n : \A a \in 0 .. m : a < m => r[f[a]] < r[f[m]]}
<1>6. 0 \in S
  BY <1>1
<1>7. ASSUME NEW m \in 1 .. n, m - 1 \in S PROVE m \in S
  <2> SUFFICES ASSUME NEW a \in 0 .. m, a < m PROVE r[f[a]] < r[f[m]]
    BY <1>1
  <2>1. CASE a = m - 1
    BY <1>4, <2>1
  <2>2. CASE a # m - 1
    <3>1. a \in 0 .. m - 1 /\ a < m - 1 /\ a \in 0 .. n /\ m - 1 \in 0 .. n /\ m \in 0 .. n
      BY <1>1, <2>2
    <3>2. r[f[a]] < r[f[m - 1]]
      BY <1>7, <3>1
    <3> QED BY <1>4, <1>5, <3>1, <3>2
  <2> QED BY <2>1, <2>2
<1>8. \A m \in 1 .. n : m - 1 \in S => m \in S
  BY <1>7
<1>9. \A m \in 0 .. n : m \in S
  <2> HIDE DEF S
  <2> QED BY <1>1, <1>6, <1>8, UpTo
<1>10. \A a, b \in 0 .. n : a # b => f[a] # f[b]
  <2> SUFFICES ASSUME NEW a \in 0 .. n, NEW b \in 0 .. n, a < b PROVE f[a] # f[b]
    BY <1>1
  <2>1. r[f[a]] < r[f[b]]
    BY <1>9
  <2> QED BY <1>5, <2>1
<1>11. IsFiniteSet(0 .. n) /\ Cardinality(0 .. n) = n + 1
  <2>1. 0 \in Int /\ n \in Int /\ ~(0 > n) /\ n - 0 + 1 = n + 1
    BY <1>1
  <2>2. IsFiniteSet(0 .. n) /\ Cardinality(0 .. n) = n - 0 + 1
    BY <2>1, FS_Interval
  <2> QED BY <2>1, <2>2
<1>12. IsFiniteSet(Live(t)) /\ Cardinality(Live(t)) \in Nat /\ Cardinality(Live(t)) <= n
  BY LiveFinite
<1>13. Cardinality(Live(t)) < Cardinality(0 .. n)
  BY <1>1, <1>11, <1>12
<1>14. f \in [0 .. n -> Live(t)]
  BY <1>3 DEF Path
<1>15. \E a, b \in 0 .. n : a # b /\ f[a] = f[b]
  <2>1. PICK A : A = 0 .. n
    OBVIOUS
  <2>2. PICK L : L = Live(t)
    OBVIOUS
  <2>3. IsFiniteSet(A) /\ IsFiniteSet(L) /\ Cardinality(L) < Cardinality(A) /\ f \in [A -> L]
    BY <1>11, <1>12, <1>13, <1>14, <2>1, <2>2
  <2>4. \E a, b \in A : a # b /\ f[a] = f[b]
    BY <2>3, FS_PigeonHole
  <2> QED BY <2>1, <2>4
<1> QED BY <1>10, <1>15

\* A walk from the head of a chain misses no stop in it.
LEMMA PathReaches ==
  ASSUME NEW t, Typed(t), NEW r, ChainRank(t, r), NEW h \in Live(t), Main(t, h) = h,
         NEW stops, NEW f, Path(f, t, h, stops),
         NEW j \in Live(t), j \in stops, Main(t, j) = h
  PROVE  f[t.size] \in stops
<1> SUFFICES ASSUME f[t.size] \notin stops PROVE FALSE
  OBVIOUS
<1> DEFINE n == t.size
           Seen(i) == \E m \in 0 .. n : f[m] = i
           C == {i \in Live(t) : Main(t, i) = h /\ ~Seen(i)}
           B == {r[i] : i \in C}
<1>1. n \in Nat \ {0} /\ Live(t) \subseteq Slots(t) /\ NULL \notin Slots(t)
  BY TypedFacts
<1>2. f[n] = NULL
  BY PathEnds
<1>3. \A m \in 0 .. n : f[m] \notin stops
  <2> SUFFICES ASSUME NEW m \in 0 .. n, f[m] \in stops PROVE FALSE
    OBVIOUS
  <2>1. n \in 0 .. n
    BY <1>1
  <2> QED BY <2>1, PathStops
<1>4. j \in C
  <2>1. ~Seen(j)
    BY <1>3
  <2> QED BY <2>1
<1>5. B \in SUBSET Nat /\ B # {}
  BY <1>1, <1>4 DEF ChainRank, Linked
<1>6. PICK b \in B : \A c \in B : b <= c
  <2> HIDE DEF B
  <2> QED BY <1>5, LeastElement
<1>7. PICK i \in C : r[i] = b
  BY <1>6
<1>8. i # h
  BY <1>1, <1>7 DEF Path
<1>9. PICK p \in Live(t) : t.entries[p].next = i
  BY <1>7, <1>8 DEF ChainRank, Linked
<1>10. Main(t, p) = h /\ r[p] < r[i] /\ r[p] \in Nat /\ r[i] \in Nat
  BY <1>1, <1>7, <1>9 DEF ChainRank, Linked
<1>11. p \notin C
  <2>1. ASSUME p \in C PROVE FALSE
    <3>1. r[p] \in B
      BY <2>1
    <3> HIDE DEF B, C
    <3> QED BY <1>6, <1>7, <1>10, <3>1
  <2> QED BY <2>1
<1>12. PICK m \in 0 .. n : f[m] = p
  BY <1>10, <1>11
<1>13. m # n /\ m + 1 \in 1 .. n /\ m + 1 \in 0 .. n /\ (m + 1) - 1 = m
  BY <1>1, <1>2, <1>12
<1>14. f[m + 1] = IF f[m] \in stops \cup {NULL} THEN f[m] ELSE t.entries[f[m]].next
  BY <1>13 DEF Path
<1>15. f[m + 1] = i
  BY <1>1, <1>3, <1>9, <1>12, <1>14
<1> QED BY <1>7, <1>13, <1>15

\* A walk along a whole chain finds the stop that lies on it.
LEMMA WalkFinds ==
  ASSUME NEW t, Typed(t), NEW r, ChainRank(t, r), NEW j \in Live(t),
         NEW stops \in SUBSET Slots(t), j \in stops
  PROVE  LET w == Walk(t, t.entries[j].key, stops) IN
         w \in Live(t) /\ w \in stops /\ Main(t, w) = Main(t, j)
<1>1. PICK key : key = t.entries[j].key
  OBVIOUS
<1>2. key \in HashKeys /\ t.size \in 0 .. t.size
  BY <1>1, TypedFacts
<1>3. PICK h : h = Main(t, j)
  OBVIOUS
<1>4. h = getentry(t, key)
  BY <1>1, <1>3 DEF Main
<1>5. PICK f : /\ Path(f, t, h, stops)
               /\ Walk(t, key, stops) = IF f[t.size] \in stops THEN f[t.size] ELSE NULL
  BY <1>2, <1>4, WalkPath
<1>6. h \in Live(t) /\ Main(t, h) = h
  BY <1>3 DEF ChainRank, Linked
<1>7. f[t.size] \in stops
  BY <1>3, <1>5, <1>6, PathReaches
<1>8. f[t.size] = NULL \/ (f[t.size] \in Live(t) /\ Main(t, f[t.size]) = h)
  BY <1>2, <1>5, <1>6, PathStays
<1>9. f[t.size] # NULL
  BY <1>7, TypedFacts
<1> QED BY <1>1, <1>3, <1>5, <1>7, <1>8, <1>9

\* findentry finds every entry of a well-formed table, and nothing else.
LEMMA FindFinds ==
  ASSUME NEW t, Counted(t), Chained(t), NEW i \in Live(t)
  PROVE  findentry(t, t.entries[i].key) = i
<1>1. PICK key : key = t.entries[i].key
  OBVIOUS
<1>2. PICK r : ChainRank(t, r)
  BY DEF Chained
<1>3. Typed(t)
  BY DEF Counted
<1>4. PICK stops \in SUBSET Slots(t) : stops = {j \in Slots(t) : t.entries[j].key = key}
  OBVIOUS
<1>5. i \in stops
  BY <1>1, <1>3, <1>4, TypedFacts
<1>6. PICK w : w = Walk(t, key, stops)
  OBVIOUS
<1>7. w \in Live(t) /\ w \in stops
  BY <1>1, <1>2, <1>3, <1>4, <1>5, <1>6, WalkFinds
<1>8. w = i
  BY <1>1, <1>4, <1>7 DEF Chained, Distinct
<1>9. t.count # 0
  BY <1>3, LiveFinite DEF Counted
<1>10. ~isempty(t, getentry(t, key))
  <2>1. Main(t, i) \in Live(t)
    BY <1>2 DEF ChainRank, Linked
  <2> QED BY <1>1, <2>1 DEF Main, Live
<1>11. findentry(t, key) = w
  BY <1>4, <1>6, <1>9, <1>10 DEF findentry
<1> QED BY <1>1, <1>8, <1>11

\* A key without entry is not found, whatever the chains are like.
LEMMA FindMisses ==
  ASSUME NEW t, Typed(t), NEW key \in HashKeys,
         \A i \in Live(t) : t.entries[i].key # key
  PROVE  findentry(t, key) = NULL
<1>1. \A i \in Slots(t) : t.entries[i].key # key
  BY TypedFacts
<1> QED BY <1>1, FindType

\* An entry of a whole chain behind its head has a predecessor in it.
LEMMA PredecessorIs ==
  ASSUME NEW t, Typed(t), NEW r, ChainRank(t, r), NEW i \in Live(t), i # Main(t, i)
  PROVE  LET p == Predecessor(t, t.entries[i].key, i) IN
         p \in Live(t) /\ t.entries[p].next = i /\ Main(t, p) = Main(t, i)
<1>1. PICK p \in Live(t) : t.entries[p].next = i
  BY DEF ChainRank, Linked
<1>2. PICK key : key = t.entries[i].key
  OBVIOUS
<1>3. i # NULL /\ Live(t) \subseteq Slots(t)
  BY TypedFacts
<1>4. Main(t, p) = Main(t, i)
  BY <1>1, <1>3 DEF ChainRank, Linked
<1>5. PICK stops \in SUBSET Slots(t) : stops = {q \in Slots(t) : t.entries[q].next = i}
  OBVIOUS
<1>6. PICK h : h = getentry(t, key)
  OBVIOUS
<1>7. key \in HashKeys /\ t.size \in 0 .. t.size
  BY <1>2, TypedFacts
<1>8. PICK f : /\ Path(f, t, h, stops)
               /\ Walk(t, key, stops) = IF f[t.size] \in stops THEN f[t.size] ELSE NULL
  BY <1>6, <1>7, WalkPath
<1>9. h = Main(t, i) /\ h \in Live(t) /\ Main(t, h) = h
  BY <1>2, <1>6 DEF Main, ChainRank, Linked
<1>10. f[t.size] \in stops
  BY <1>1, <1>3, <1>4, <1>5, <1>8, <1>9, PathReaches
<1>11. f[t.size] = NULL \/ (f[t.size] \in Live(t) /\ Main(t, f[t.size]) = h)
  BY <1>7, <1>8, <1>9, PathStays
<1>12. f[t.size] # NULL
  BY <1>10, TypedFacts
<1>13. Predecessor(t, key, i) = f[t.size]
  BY <1>5, <1>8, <1>10 DEF Predecessor
<1> QED BY <1>2, <1>5, <1>9, <1>10, <1>11, <1>12, <1>13

-----------------------------------------------------------------------------
(* Insertion keeps the chains.                                             *)

\* The points of u that decide where its entries belong.
LEMMA MainIs ==
  ASSUME NEW t, NEW u, u.size = t.size
  PROVE  \A i, j : u.entries[i].key = t.entries[j].key => Main(u, i) = Main(t, j)
BY DEF Main, getentry

\* An entry in an empty main position is a chain of its own.
LEMMA AloneChained ==
  ASSUME NEW t, Typed(t), NEW r, ChainRank(t, r), NEW key \in HashKeys, NEW val \in Nat,
         NEW u, Typed(u), u.size = t.size, NEW m, m = getentry(t, key),
         AlonePoints(t, u, m, key, val)
  PROVE  ChainRank(u, r)
<1>1. Slots(u) = Slots(t)
  BY DEF Slots
<1>2. /\ Live(t) \subseteq Slots(t)
      /\ \A i \in Slots(t) : i \in Live(t) <=> t.entries[i].key # 0
      /\ \A i \in Slots(t) : i \in Live(u) <=> u.entries[i].key # 0
      /\ Live(u) \subseteq Slots(t)
      /\ key # 0
  BY <1>1, TypedFacts
<1>3. Live(u) = Live(t) \cup {m} /\ m \notin Live(t) /\ m \in Slots(t)
  BY <1>2 DEF AlonePoints
<1>4. \A i \in Live(t) : Main(u, i) = Main(t, i) /\ u.entries[i] = t.entries[i] /\ i # m
  BY <1>2, <1>3, MainIs DEF AlonePoints
<1>5. u.entries[m].key = key /\ u.entries[m].next = NULL
  BY <1>3 DEF AlonePoints
<1>6. Main(u, m) = m
  BY <1>5 DEF Main, getentry
<1>7. r \in [Slots(u) -> Nat]
  BY <1>1 DEF ChainRank, Linked
<1>8. ASSUME NEW i \in Live(t) PROVE Linked(u, r, i)
  <2>1. Linked(t, r, i)
    BY DEF ChainRank
  <2> QED BY <1>3, <1>4, <1>5, <2>1 DEF Linked
<1>9. Linked(u, r, m)
  BY <1>3, <1>5, <1>6 DEF Linked
<1> QED BY <1>3, <1>7, <1>8, <1>9 DEF ChainRank

\* An entry behind the head of its chain leaves whole chains.
LEMMA BehindChained ==
  ASSUME NEW t, Typed(t), NEW r, ChainRank(t, r), NEW key \in HashKeys, NEW val \in Nat,
         NEW u, Typed(u), u.size = t.size, NEW m, m = getentry(t, key),
         NEW new, BehindPoints(t, u, m, new, key, val)
  PROVE  \E q : ChainRank(u, q)
<1>1. Slots(u) = Slots(t)
  BY DEF Slots
<1>2. /\ Live(t) \subseteq Slots(t)
      /\ \A i \in Slots(t) : i \in Live(t) <=> t.entries[i].key # 0
      /\ \A i \in Slots(t) : i \in Live(u) <=> u.entries[i].key # 0
      /\ Live(u) \subseteq Slots(t)
      /\ key # 0 /\ NULL \notin Slots(t)
  BY <1>1, TypedFacts
<1>3. /\ Live(u) = Live(t) \cup {new} /\ new \notin Live(t) /\ new \in Slots(t)
      /\ m \in Live(t) /\ m # new /\ Main(t, m) = m
  BY <1>2 DEF BehindPoints
<1>4. \A i \in Live(t) : /\ Main(u, i) = Main(t, i) /\ i # new
                         /\ i # m => u.entries[i].next = t.entries[i].next
  BY <1>2, <1>3, MainIs DEF BehindPoints
<1>5. /\ u.entries[new].key = key /\ u.entries[new].next = t.entries[m].next
      /\ u.entries[m].next = new
  BY <1>2, <1>3 DEF BehindPoints
<1>6. Main(u, new) = m
  BY <1>5 DEF Main, getentry
<1>7. PICK q : q = [i \in Slots(t) |-> IF i = new THEN r[m] + 1
                                       ELSE IF i \in Live(t) /\ Main(t, i) = m /\ i # m
                                            THEN r[i] + 1 ELSE r[i]]
  OBVIOUS
<1>8. /\ q \in [Slots(u) -> Nat]
      /\ \A i \in Slots(t) : r[i] \in Nat
      /\ q[new] = r[m] + 1
      /\ q[m] = r[m]
      /\ \A i \in Live(t) : q[i] = IF Main(t, i) = m /\ i # m THEN r[i] + 1 ELSE r[i]
  <2>1. r \in [Slots(t) -> Nat]
    BY DEF ChainRank
  <2> QED BY <1>1, <1>2, <1>3, <1>7, <2>1
<1>9. ASSUME NEW i \in Live(t), i # m PROVE Linked(u, q, i)
  <2>1. Linked(t, r, i) /\ Linked(t, r, m)
    BY <1>3 DEF ChainRank
  <2>2. /\ Main(u, i) \in Live(u)
        /\ Main(u, Main(u, i)) = Main(u, i)
    BY <1>3, <1>4, <2>1 DEF Linked
  <2>3. i # Main(u, i) => \E p \in Live(u) : u.entries[p].next = i
    <3>1. SUFFICES ASSUME i # Main(t, i) PROVE \E p \in Live(u) : u.entries[p].next = i
      BY <1>4
    <3>2. PICK p \in Live(t) : t.entries[p].next = i
      BY <2>1, <3>1 DEF Linked
    <3>3. CASE p = m
      BY <1>3, <1>5, <3>2, <3>3
    <3>4. CASE p # m
      BY <1>3, <1>4, <3>2, <3>4
    <3> QED BY <3>3, <3>4
  <2>4. ASSUME u.entries[i].next # NULL
        PROVE  /\ u.entries[i].next \in Live(u)
               /\ Main(u, u.entries[i].next) = Main(u, i)
               /\ u.entries[i].next # Main(u, i)
               /\ q[i] < q[u.entries[i].next]
               /\ \A j \in Live(u) : u.entries[j].next = u.entries[i].next => j = i
    <3>1. PICK n : n = t.entries[i].next
      OBVIOUS
    <3>2. /\ u.entries[i].next = n /\ n \in Live(t) /\ Main(t, n) = Main(t, i)
          /\ n # Main(t, i) /\ r[i] < r[n]
          /\ \A j \in Live(t) : t.entries[j].next = n => j = i
      BY <1>4, <1>9, <2>1, <2>4, <3>1 DEF Linked
    <3>3. q[i] < q[n]
      BY <1>2, <1>8, <1>9, <3>2
    <3>4. ASSUME NEW j \in Live(u), u.entries[j].next = n PROVE j = i
      <4>1. CASE j = new
        BY <1>3, <1>5, <1>9, <3>2, <3>4, <4>1
      <4>2. CASE j = m
        BY <1>3, <1>5, <3>2, <3>4, <4>2
      <4>3. CASE j # new /\ j # m
        BY <1>3, <1>4, <3>2, <3>4, <4>3
      <4> QED BY <4>1, <4>2, <4>3
    <3> QED BY <1>3, <1>4, <3>2, <3>3, <3>4
  <2> QED BY <2>2, <2>3, <2>4 DEF Linked
<1>10. Linked(u, q, m)
  <2>1. q[m] < q[new]
    BY <1>2, <1>3, <1>8
  <2>2. ASSUME NEW j \in Live(u), u.entries[j].next = new PROVE j = m
    <3>1. ASSUME NEW i \in Live(t) PROVE t.entries[i].next # new
      <4>1. Linked(t, r, i)
        BY DEF ChainRank
      <4> QED BY <1>2, <1>3, <4>1 DEF Linked
    <3> QED BY <1>3, <1>4, <1>5, <2>2, <3>1
  <2> QED BY <1>2, <1>3, <1>4, <1>5, <1>6, <2>1, <2>2 DEF Linked
<1>11. Linked(u, q, new)
  <2>1. Linked(t, r, m)
    BY <1>3 DEF ChainRank
  <2>2. ASSUME t.entries[m].next # NULL
        PROVE  /\ t.entries[m].next \in Live(u)
               /\ Main(u, t.entries[m].next) = m
               /\ t.entries[m].next # m
               /\ q[new] < q[t.entries[m].next]
               /\ \A j \in Live(u) : u.entries[j].next = t.entries[m].next => j = new
    <3>1. PICK n : n = t.entries[m].next
      OBVIOUS
    <3>2. /\ n \in Live(t) /\ Main(t, n) = m /\ n # m /\ r[m] < r[n]
          /\ \A j \in Live(t) : t.entries[j].next = n => j = m
      BY <1>3, <2>1, <2>2, <3>1 DEF Linked
    <3>3. q[new] < q[n]
      BY <1>2, <1>3, <1>8, <3>2
    <3>4. ASSUME NEW j \in Live(u), u.entries[j].next = n PROVE j = new
      <4>1. CASE j = m
        BY <1>3, <1>5, <3>2, <3>4, <4>1
      <4>2. CASE j # m /\ j # new
        BY <1>3, <1>4, <3>2, <3>4, <4>2
      <4> QED BY <4>1, <4>2
    <3> QED BY <1>3, <1>4, <3>1, <3>2, <3>3, <3>4
  <2> QED BY <1>3, <1>4, <1>5, <1>6, <2>2 DEF Linked
<1>12. ChainRank(u, q)
  BY <1>3, <1>8, <1>9, <1>10, <1>11 DEF ChainRank
<1> QED BY <1>12

\* An entry that evicts one of another chain leaves whole chains.
LEMMA EvictingChained ==
  ASSUME NEW t, Typed(t), NEW r, ChainRank(t, r), NEW key \in HashKeys, NEW val \in Nat,
         NEW u, Typed(u), u.size = t.size, NEW m, m = getentry(t, key),
         NEW new, NEW p, p = Predecessor(t, t.entries[m].key, m),
         EvictingPoints(t, u, m, new, p, key, val)
  PROVE  \E q : ChainRank(u, q)
<1>1. Slots(u) = Slots(t)
  BY DEF Slots
<1>2. /\ Live(t) \subseteq Slots(t)
      /\ \A i \in Slots(t) : i \in Live(t) <=> t.entries[i].key # 0
      /\ \A i \in Slots(t) : i \in Live(u) <=> u.entries[i].key # 0
      /\ Live(u) \subseteq Slots(t)
      /\ key # 0 /\ NULL \notin Slots(t)
  BY <1>1, TypedFacts
<1>3. /\ Live(u) = Live(t) \cup {new} /\ new \notin Live(t) /\ new \in Slots(t)
      /\ m \in Live(t) /\ m # new /\ Main(t, m) # m
  BY <1>2 DEF EvictingPoints
<1>4. p \in Live(t) /\ t.entries[p].next = m /\ Main(t, p) = Main(t, m)
  BY <1>3, PredecessorIs
<1>5. p # m
  <2>1. Linked(t, r, p)
    BY <1>4 DEF ChainRank
  <2>2. r[m] \in Nat
    BY <1>2, <1>3 DEF ChainRank
  <2> QED BY <1>2, <1>3, <1>4, <2>1, <2>2 DEF Linked
<1>6. \A i \in Live(t) : i # m => /\ Main(u, i) = Main(t, i) /\ i # new
                                  /\ i # p => u.entries[i].next = t.entries[i].next
  BY <1>2, <1>3, MainIs DEF EvictingPoints
<1>7. /\ u.entries[m].key = key /\ u.entries[m].next = NULL
      /\ u.entries[p].next = new
      /\ u.entries[new].key = t.entries[m].key
      /\ u.entries[new].next = t.entries[m].next
  BY <1>2, <1>3, <1>4, <1>5 DEF EvictingPoints
<1>8. Main(u, m) = m /\ Main(u, new) = Main(t, m)
  BY <1>7, MainIs DEF Main, getentry
<1>9. PICK q : q = [r EXCEPT ![new] = r[m]]
  OBVIOUS
<1>10. /\ q \in [Slots(u) -> Nat]
       /\ q[new] = r[m]
       /\ \A i \in Live(t) : q[i] = r[i]
  <2>1. r \in [Slots(t) -> Nat]
    BY DEF ChainRank
  <2> QED BY <1>1, <1>2, <1>3, <1>9, <2>1
<1>11. \A i \in Live(t) : Main(t, i) # m
  <2> SUFFICES ASSUME NEW i \in Live(t) PROVE Main(t, i) # m
    OBVIOUS
  <2>1. Linked(t, r, i)
    BY DEF ChainRank
  <2> QED BY <1>3, <2>1 DEF Linked
<1>12. ASSUME NEW i \in Live(t), i # m PROVE Linked(u, q, i)
  <2>1. Linked(t, r, i) /\ Linked(t, r, m)
    BY <1>3 DEF ChainRank
  <2>2. /\ Main(u, i) \in Live(u)
        /\ Main(u, Main(u, i)) = Main(u, i)
    BY <1>3, <1>6, <1>11, <1>12, <2>1 DEF Linked
  <2>3. i # Main(u, i) => \E s \in Live(u) : u.entries[s].next = i
    <3>1. SUFFICES ASSUME i # Main(t, i) PROVE \E s \in Live(u) : u.entries[s].next = i
      BY <1>6, <1>12
    <3>2. PICK s \in Live(t) : t.entries[s].next = i
      BY <2>1, <3>1 DEF Linked
    <3>3. CASE s = m
      BY <1>3, <1>7, <3>2, <3>3
    <3>4. CASE s # m
      BY <1>3, <1>4, <1>6, <1>12, <3>2, <3>4
    <3> QED BY <3>3, <3>4
  <2>4. ASSUME u.entries[i].next # NULL
        PROVE  /\ u.entries[i].next \in Live(u)
               /\ Main(u, u.entries[i].next) = Main(u, i)
               /\ u.entries[i].next # Main(u, i)
               /\ q[i] < q[u.entries[i].next]
               /\ \A j \in Live(u) : u.entries[j].next = u.entries[i].next => j = i
    <3>1. CASE i = p
      <4>1. /\ u.entries[i].next = new /\ new \in Live(u) /\ Main(u, new) = Main(u, i)
            /\ new # Main(u, i)
        BY <1>3, <1>4, <1>5, <1>6, <1>7, <1>8, <2>1, <3>1 DEF Linked
      <4>2. r[p] < r[m]
        BY <1>2, <1>3, <1>4, <2>1, <3>1 DEF Linked
      <4>3. ASSUME NEW j \in Live(u), u.entries[j].next = new PROVE j = p
        <5>1. \A s \in Live(t) : t.entries[s].next # new
          <6> SUFFICES ASSUME NEW s \in Live(t) PROVE t.entries[s].next # new
            OBVIOUS
          <6>1. Linked(t, r, s)
            BY DEF ChainRank
          <6> QED BY <1>2, <1>3, <6>1 DEF Linked
        <5> QED BY <1>2, <1>3, <1>6, <1>7, <4>3, <5>1
      <4> QED BY <1>10, <3>1, <4>1, <4>2, <4>3
    <3>2. CASE i # p
      <4>1. PICK n : n = t.entries[i].next
        OBVIOUS
      <4>2. /\ u.entries[i].next = n /\ n \in Live(t) /\ Main(t, n) = Main(t, i)
            /\ n # Main(t, i) /\ r[i] < r[n]
            /\ \A j \in Live(t) : t.entries[j].next = n => j = i
        BY <1>6, <1>12, <2>1, <2>4, <3>2, <4>1 DEF Linked
      <4>3. n # m
        BY <1>4, <3>2, <4>2
      <4>4. ASSUME NEW j \in Live(u), u.entries[j].next = n PROVE j = i
        BY <1>2, <1>3, <1>4, <1>6, <1>7, <1>12, <4>2, <4>4
      <4> QED BY <1>3, <1>6, <1>10, <1>12, <4>2, <4>3, <4>4
    <3> QED BY <3>1, <3>2
  <2> QED BY <2>2, <2>3, <2>4 DEF Linked
<1>13. Linked(u, q, m)
  BY <1>3, <1>7, <1>8 DEF Linked
<1>14. Linked(u, q, new)
  <2>1. Linked(t, r, m) /\ Linked(t, r, Main(t, m))
    <3>1. Linked(t, r, m)
      BY <1>3 DEF ChainRank
    <3> QED BY <3>1 DEF ChainRank, Linked
  <2>2. /\ Main(u, new) \in Live(u)
        /\ Main(u, Main(u, new)) = Main(u, new)
    BY <1>3, <1>6, <1>8, <1>11, <2>1 DEF Linked
  <2>3. ASSUME t.entries[m].next # NULL
        PROVE  /\ t.entries[m].next \in Live(u)
               /\ Main(u, t.entries[m].next) = Main(t, m)
               /\ t.entries[m].next # Main(t, m)
               /\ q[new] < q[t.entries[m].next]
               /\ \A j \in Live(u) : u.entries[j].next = t.entries[m].next => j = new
    <3>1. PICK n : n = t.entries[m].next
      OBVIOUS
    <3>2. /\ n \in Live(t) /\ Main(t, n) = Main(t, m) /\ n # Main(t, m) /\ r[m] < r[n]
          /\ \A j \in Live(t) : t.entries[j].next = n => j = m
      BY <2>1, <2>3, <3>1 DEF Linked
    <3>3. n # m
      <4>1. r[m] \in Nat
        BY <1>2, <1>3 DEF ChainRank
      <4> QED BY <3>2, <4>1
    <3>4. ASSUME NEW j \in Live(u), u.entries[j].next = n PROVE j = new
      BY <1>2, <1>3, <1>6, <1>7, <3>2, <3>4
    <3> QED BY <1>3, <1>6, <1>10, <3>1, <3>2, <3>3, <3>4
  <2> QED BY <1>3, <1>4, <1>7, <1>8, <2>2, <2>3 DEF Linked
<1>15. ChainRank(u, q)
  BY <1>3, <1>10, <1>12, <1>13, <1>14 DEF ChainRank
<1> QED BY <1>15

\* Insertion of a new key keeps a table well formed.
LEMMA InsertChained ==
  ASSUME NEW t, Counted(t), Chained(t), t.count < t.size,
         NEW key \in HashKeys, NEW val \in Nat,
         \A i \in Live(t) : t.entries[i].key # key,
         NEW u, u = insert(t, key, val)
  PROVE  Chained(u)
<1>1. PICK r : ChainRank(t, r)
  BY DEF Chained
<1>2. PICK m : m = getentry(t, key)
  OBVIOUS
<1>3. Typed(t) /\ Typed(u) /\ u.size = t.size /\ Slots(u) = Slots(t)
  BY InsertTyped DEF Counted, Slots
<1>4. Live(t) # Slots(t)
  BY LiveFinite DEF Counted
<1>5. /\ \A i \in Slots(t) : i \in Live(t) <=> t.entries[i].key # 0
      /\ \A i \in Slots(t) : i \in Live(u) <=> u.entries[i].key # 0
      /\ Live(t) \subseteq Slots(t) /\ Live(u) \subseteq Slots(t)
      /\ key # 0
  BY <1>3, TypedFacts
<1>6. CASE AlonePoints(t, u, m, key, val)
  <2>1. ChainRank(u, r)
    BY <1>1, <1>2, <1>3, <1>6, AloneChained
  <2>2. Distinct(u)
    BY <1>5, <1>6 DEF Chained, Distinct, AlonePoints
  <2> QED BY <2>1, <2>2 DEF Chained
<1>7. ASSUME NEW new, BehindPoints(t, u, m, new, key, val) PROVE Chained(u)
  <2>1. \E q : ChainRank(u, q)
    BY <1>1, <1>2, <1>3, <1>7, BehindChained
  <2>2. Distinct(u)
    BY <1>5, <1>7 DEF Chained, Distinct, BehindPoints
  <2> QED BY <2>1, <2>2 DEF Chained
<1>8. ASSUME NEW new,
             EvictingPoints(t, u, m, new, Predecessor(t, t.entries[m].key, m), key, val)
      PROVE  Chained(u)
  <2>1. \E q : ChainRank(u, q)
    BY <1>1, <1>2, <1>3, <1>8, EvictingChained
  <2>2. Distinct(u)
    BY <1>5, <1>8 DEF Chained, Distinct, EvictingPoints
  <2> QED BY <2>1, <2>2 DEF Chained
<1> QED BY <1>2, <1>3, <1>4, <1>6, <1>7, <1>8, InsertPoints

\* The assertions of insert hold.
LEMMA InsertIsDefined ==
  ASSUME NEW t, Counted(t), Chained(t), t.count < t.size, NEW key \in HashKeys,
         \A i \in Live(t) : t.entries[i].key # key
  PROVE  InsertDefined(t, key)
<1>1. PICK r : ChainRank(t, r)
  BY DEF Chained
<1>2. PICK m : m = getentry(t, key)
  OBVIOUS
<1>3. Typed(t)
  BY DEF Counted
<1>4. \E i \in Slots(t) : isempty(t, i)
  BY LiveFinite DEF Counted, Live
<1>5. findentry(t, key) = NULL
  BY <1>3, FindMisses
<1>6. ASSUME ~isempty(t, m), getentry(t, t.entries[m].key) # m
      PROVE  Predecessor(t, t.entries[m].key, m) # NULL
  <2>1. m \in Slots(t) /\ NULL \notin Slots(t) /\ Live(t) \subseteq Slots(t)
    BY <1>2, <1>3, GetentryType, TypedFacts
  <2>2. m \in Live(t) /\ m # Main(t, m)
    BY <1>6, <2>1 DEF Live, Main
  <2>3. Predecessor(t, t.entries[m].key, m) \in Live(t)
    BY <1>1, <1>3, <2>2, PredecessorIs
  <2> QED BY <2>1, <2>3
<1> QED BY <1>2, <1>4, <1>5, <1>6 DEF InsertDefined

-----------------------------------------------------------------------------
(* Removal.                                                                *)

\* The entries afterwards, where i had the key: of the head of a chain,
RmHeadPoints(t, u, i) ==
  LET n == t.entries[i].next IN
  /\ i \in Live(t)
  /\ Main(t, i) = i
  /\ n # NULL
  /\ \A j \in Slots(t) :
       /\ u.entries[j].key = IF j = n THEN 0 ELSE IF j = i THEN t.entries[n].key
                             ELSE t.entries[j].key
       /\ u.entries[j].val = IF j = i THEN t.entries[n].val ELSE t.entries[j].val
       /\ u.entries[j].next = IF j = i THEN t.entries[n].next ELSE t.entries[j].next

\* of an entry without successor at the head,
RmAlonePoints(t, u, i) ==
  /\ i \in Live(t)
  /\ Main(t, i) = i
  /\ t.entries[i].next = NULL
  /\ \A j \in Slots(t) :
       /\ u.entries[j].key = IF j = i THEN 0 ELSE t.entries[j].key
       /\ u.entries[j].val = t.entries[j].val
       /\ u.entries[j].next = t.entries[j].next

\* and of one further down, behind p.
RmLaterPoints(t, u, i, p) ==
  /\ i \in Live(t)
  /\ Main(t, i) # i
  /\ \A j \in Slots(t) :
       /\ u.entries[j].key = IF j = i THEN 0 ELSE t.entries[j].key
       /\ u.entries[j].val = t.entries[j].val
       /\ u.entries[j].next = IF j = p THEN t.entries[i].next ELSE t.entries[j].next

\* rm goes one of the three ways.
LEMMA RmCases ==
  ASSUME NEW t, Counted(t), Chained(t), NEW i \in Live(t),
         NEW key, key = t.entries[i].key, NEW u, u = rm(t, key)
  PROVE  /\ u = [size |-> t.size, count |-> t.count - 1, entries |-> u.entries]
         /\ Typed(u)
         /\ \/ RmHeadPoints(t, u, i)
            \/ RmAlonePoints(t, u, i)
            \/ RmLaterPoints(t, u, i, Predecessor(t, key, i))
<1> DEFINE E == [key : HashKeys \cup {0}, val : Nat, next : Slots(t) \cup {NULL}]
<1>1. Typed(t)
  BY DEF Counted
<1>2. PICK e : e = t.entries
  OBVIOUS
<1>3. /\ e \in [Slots(t) -> E] /\ i \in Slots(t) /\ i # NULL /\ NULL \notin Slots(t)
      /\ t.size \in Nat \ {0} /\ t.count \in Int
      /\ e[i].next \in Slots(t) \cup {NULL}
  BY <1>1, <1>2, TypedFacts
<1>4. findentry(t, key) = i
  BY FindFinds
<1>5. t = [size |-> t.size, count |-> t.count, entries |-> t.entries]
  BY <1>1 DEF Typed, TableOf
<1>6. u = [size |-> t.size, count |-> t.count - 1, entries |-> u.entries]
  BY <1>3, <1>4, <1>5 DEF rm
<1>7. getentry(t, key) = Main(t, i)
  BY DEF Main
<1>8. u.entries \in [Slots(t) -> E] => Typed(u)
  BY <1>3, <1>6 DEF Typed, TableOf, Entry, Slots, upb_key_empty
<1>9. CASE i = Main(t, i) /\ e[i].next = NULL
  <2>1. u.entries = [e EXCEPT ![i].key = 0]
    BY <1>2, <1>3, <1>4, <1>5, <1>7, <1>9 DEF rm, upb_key_empty
  <2>2. u.entries \in [Slots(t) -> E] /\ RmAlonePoints(t, u, i)
    BY <1>2, <1>3, <1>9, <2>1 DEF RmAlonePoints
  <2> QED BY <1>6, <1>8, <2>2
<1>10. CASE i = Main(t, i) /\ e[i].next # NULL
  <2>1. u.entries = [e EXCEPT ![i] = e[e[i].next], ![e[i].next].key = 0]
    BY <1>2, <1>3, <1>4, <1>5, <1>7, <1>10 DEF rm, upb_key_empty
  <2>2. PICK n : n = e[i].next
    OBVIOUS
  <2>3. PICK g : g = [e EXCEPT ![i] = e[n]]
    OBVIOUS
  <2>4. n \in Slots(t) /\ g \in [Slots(t) -> E] /\ u.entries = [g EXCEPT ![n].key = 0]
    BY <1>3, <1>10, <2>1, <2>2, <2>3
  <2>5. u.entries \in [Slots(t) -> E]
    BY <2>4
  <2>6. \A j \in Slots(t) :
       /\ u.entries[j].key = IF j = n THEN 0 ELSE g[j].key
       /\ u.entries[j].val = g[j].val
       /\ u.entries[j].next = g[j].next
    BY <2>4
  <2>7. \A j \in Slots(t) : g[j] = IF j = i THEN e[n] ELSE e[j]
    BY <1>3, <2>3
  <2>8. RmHeadPoints(t, u, i)
    BY <1>2, <1>3, <1>10, <2>2, <2>6, <2>7 DEF RmHeadPoints
  <2> QED BY <1>6, <1>8, <2>5, <2>8
<1>11. CASE i # Main(t, i)
  <2>1. PICK p : p = Predecessor(t, key, i)
    OBVIOUS
  <2>2. u.entries = [e EXCEPT ![i].key = 0, ![p].next = e[i].next]
    BY <1>2, <1>3, <1>4, <1>5, <1>7, <1>11, <2>1 DEF rm, upb_key_empty
  <2>3. PICK g : g = [e EXCEPT ![i].key = 0]
    OBVIOUS
  <2>4. g \in [Slots(t) -> E] /\ u.entries = [g EXCEPT ![p].next = e[i].next]
    <3>1. g \in [Slots(t) -> E]
      BY <1>3, <2>3
    <3>2. u.entries = [g EXCEPT ![p].next = e[i].next]
      BY <2>2, <2>3
    <3> QED BY <3>1, <3>2
  <2>5. u.entries \in [Slots(t) -> E]
    <3>1. PICK n : n = e[i].next
      OBVIOUS
    <3>2. n \in Slots(t) \cup {NULL}
      BY <1>3, <3>1
    <3>3. u.entries = [g EXCEPT ![p].next = n]
      BY <2>4, <3>1
    <3>4. g \in [Slots(t) -> E]
      BY <2>4
    <3>5. CASE p \in Slots(t)
      BY <3>2, <3>3, <3>4, <3>5
    <3>6. CASE p \notin Slots(t)
      BY <3>2, <3>3, <3>4, <3>6
    <3> QED BY <3>5, <3>6
  <2>6. \A j \in Slots(t) :
       /\ u.entries[j].key = g[j].key
       /\ u.entries[j].val = g[j].val
       /\ u.entries[j].next = IF j = p THEN e[i].next ELSE g[j].next
    BY <2>4
  <2>7. \A j \in Slots(t) :
       /\ g[j].key = IF j = i THEN 0 ELSE e[j].key
       /\ g[j].val = e[j].val
       /\ g[j].next = e[j].next
    BY <1>3, <2>3
  <2>8. RmLaterPoints(t, u, i, p)
    BY <1>2, <1>3, <1>11, <2>6, <2>7 DEF RmLaterPoints
  <2> QED BY <1>6, <1>8, <2>1, <2>5, <2>8
<1> QED BY <1>9, <1>10, <1>11

\* A chain that ends at its head has no other entry.
LEMMA AloneInChain ==
  ASSUME NEW t, Typed(t), NEW r, ChainRank(t, r), NEW i \in Live(t),
         t.entries[i].next = NULL, NEW j \in Live(t), Main(t, j) = i
  PROVE  j = i
<1> DEFINE C == {k \in Live(t) : Main(t, k) = i /\ k # i}
           B == {r[k] : k \in C}
<1> SUFFICES ASSUME j # i PROVE FALSE
  OBVIOUS
<1>1. Live(t) \subseteq Slots(t) /\ NULL \notin Slots(t)
  BY TypedFacts
<1>2. B \in SUBSET Nat /\ B # {}
  BY <1>1 DEF ChainRank
<1>3. PICK b \in B : \A c \in B : b <= c
  <2> HIDE DEF B
  <2> QED BY <1>2, LeastElement
<1>4. PICK k \in C : r[k] = b
  BY <1>3
<1>5. PICK p \in Live(t) : t.entries[p].next = k
  BY <1>4 DEF ChainRank, Linked
<1>6. k # NULL /\ p # i
  BY <1>1, <1>4, <1>5
<1>7. Main(t, p) = i /\ r[p] < r[k] /\ r[p] \in Nat /\ r[k] \in Nat
  BY <1>1, <1>4, <1>5, <1>6 DEF ChainRank, Linked
<1>8. r[p] \in B
  BY <1>6, <1>7
<1> HIDE DEF B
<1> QED BY <1>3, <1>4, <1>7, <1>8

\* The removal of the only entry of a chain leaves the others.
LEMMA RmAloneChained ==
  ASSUME NEW t, Typed(t), NEW r, ChainRank(t, r), NEW u, Typed(u), u.size = t.size,
         NEW i, RmAlonePoints(t, u, i)
  PROVE  Live(u) = Live(t) \ {i} /\ ChainRank(u, r)
<1>1. Slots(u) = Slots(t)
  BY DEF Slots
<1>2. /\ Live(t) \subseteq Slots(t)
      /\ \A j \in Slots(t) : j \in Live(t) <=> t.entries[j].key # 0
      /\ \A j \in Slots(t) : j \in Live(u) <=> u.entries[j].key # 0
      /\ Live(u) \subseteq Slots(t) /\ NULL \notin Slots(t)
  BY <1>1, TypedFacts
<1>3. i \in Live(t) /\ Main(t, i) = i /\ t.entries[i].next = NULL
  BY DEF RmAlonePoints
<1>4. Live(u) = Live(t) \ {i}
  BY <1>2 DEF RmAlonePoints
<1>5. \A j \in Live(u) : Main(u, j) = Main(t, j) /\ u.entries[j].next = t.entries[j].next
  BY <1>2, <1>4, MainIs DEF RmAlonePoints
<1>6. \A j \in Live(t) : Main(t, j) = i => j = i
  BY <1>3, AloneInChain
<1>7. ASSUME NEW j \in Live(u) PROVE Linked(u, r, j)
  <2>1. Linked(t, r, j)
    BY <1>4 DEF ChainRank
  <2>2. Main(t, j) # i
    BY <1>4, <1>6
  <2> QED BY <1>2, <1>3, <1>4, <1>5, <2>1, <2>2 DEF Linked
<1> QED BY <1>1, <1>4, <1>7 DEF ChainRank

\* The removal of a head moves the second entry there.
LEMMA RmHeadChained ==
  ASSUME NEW t, Typed(t), NEW r, ChainRank(t, r), NEW u, Typed(u), u.size = t.size,
         NEW i, RmHeadPoints(t, u, i)
  PROVE  /\ t.entries[i].next \in Live(t) /\ t.entries[i].next # i
         /\ Live(u) = Live(t) \ {t.entries[i].next}
         /\ ChainRank(u, r)
<1>1. Slots(u) = Slots(t)
  BY DEF Slots
<1>2. /\ Live(t) \subseteq Slots(t)
      /\ \A j \in Slots(t) : j \in Live(t) <=> t.entries[j].key # 0
      /\ \A j \in Slots(t) : j \in Live(u) <=> u.entries[j].key # 0
      /\ Live(u) \subseteq Slots(t) /\ NULL \notin Slots(t)
  BY <1>1, TypedFacts
<1>3. PICK n : n = t.entries[i].next
  OBVIOUS
<1>4. i \in Live(t) /\ Main(t, i) = i /\ n # NULL
  BY <1>3 DEF RmHeadPoints
<1>5. \A j \in Slots(t) :
       /\ u.entries[j].key = IF j = n THEN 0 ELSE IF j = i THEN t.entries[n].key
                             ELSE t.entries[j].key
       /\ u.entries[j].next = IF j = i THEN t.entries[n].next ELSE t.entries[j].next
  BY <1>3 DEF RmHeadPoints
<1>6. Linked(t, r, i)
  BY <1>4 DEF ChainRank
<1>7. n \in Live(t) /\ n # i /\ Main(t, n) = i /\ r[i] < r[n]
      /\ \A j \in Live(t) : t.entries[j].next = n => j = i
  BY <1>3, <1>4, <1>6 DEF Linked
<1>8. Linked(t, r, n) /\ r \in [Slots(t) -> Nat]
  BY <1>7 DEF ChainRank
<1>9. Live(u) = Live(t) \ {n}
  BY <1>2, <1>4, <1>5, <1>7
<1>10. /\ \A j \in Live(u) : Main(u, j) = Main(t, j)
       /\ \A j \in Live(u) : j # i => u.entries[j].next = t.entries[j].next
       /\ u.entries[i].next = t.entries[n].next
  <2>1. Main(u, i) = Main(t, n)
    BY <1>2, <1>4, <1>5, <1>7, MainIs
  <2>2. \A j \in Live(u) : j # i => Main(u, j) = Main(t, j)
    BY <1>2, <1>5, <1>9, MainIs
  <2> QED BY <1>2, <1>4, <1>5, <1>7, <1>9, <2>1, <2>2
<1>11. ASSUME NEW j \in Live(u), j # i PROVE Linked(u, r, j)
  <2>1. Linked(t, r, j)
    BY <1>9 DEF ChainRank
  <2>2. Main(t, j) # n
    BY <1>7, <2>1 DEF Linked
  <2>3. /\ Main(u, j) \in Live(u)
        /\ Main(u, Main(u, j)) = Main(u, j)
    BY <1>9, <1>10, <2>1, <2>2 DEF Linked
  <2>4. j # Main(u, j) => \E p \in Live(u) : u.entries[p].next = j
    <3>1. SUFFICES ASSUME j # Main(t, j) PROVE \E p \in Live(u) : u.entries[p].next = j
      BY <1>10
    <3>2. PICK p \in Live(t) : t.entries[p].next = j
      BY <2>1, <3>1 DEF Linked
    <3>3. p # i
      BY <1>3, <1>9, <3>2
    <3>4. CASE p = n
      BY <1>4, <1>7, <1>9, <1>10, <3>2, <3>4
    <3>5. CASE p # n
      BY <1>9, <1>10, <3>2, <3>3, <3>5
    <3> QED BY <3>4, <3>5
  <2>5. ASSUME u.entries[j].next # NULL
        PROVE  /\ u.entries[j].next \in Live(u)
               /\ Main(u, u.entries[j].next) = Main(u, j)
               /\ u.entries[j].next # Main(u, j)
               /\ r[j] < r[u.entries[j].next]
               /\ \A k \in Live(u) : u.entries[k].next = u.entries[j].next => k = j
    <3>1. PICK x : x = t.entries[j].next
      OBVIOUS
    <3>2. /\ u.entries[j].next = x /\ x \in Live(t) /\ Main(t, x) = Main(t, j)
          /\ x # Main(t, j) /\ r[j] < r[x]
          /\ \A k \in Live(t) : t.entries[k].next = x => k = j
      BY <1>10, <1>11, <2>1, <2>5, <3>1 DEF Linked
    <3>3. x # n
      BY <1>7, <1>11, <3>2, <3>1, <1>9
    <3>4. ASSUME NEW k \in Live(u), u.entries[k].next = x PROVE k = j
      BY <1>4, <1>7, <1>9, <1>10, <3>2, <3>4
    <3> QED BY <1>9, <1>10, <3>2, <3>3, <3>4
  <2> QED BY <2>3, <2>4, <2>5 DEF Linked
<1>12. Linked(u, r, i)
  <2>1. ASSUME t.entries[n].next # NULL
        PROVE  /\ t.entries[n].next \in Live(u)
               /\ Main(u, t.entries[n].next) = i
               /\ t.entries[n].next # i
               /\ r[i] < r[t.entries[n].next]
               /\ \A k \in Live(u) : u.entries[k].next = t.entries[n].next => k = i
    <3>1. PICK x : x = t.entries[n].next
      OBVIOUS
    <3>2. /\ x \in Live(t) /\ Main(t, x) = i /\ x # i /\ r[n] < r[x]
          /\ \A k \in Live(t) : t.entries[k].next = x => k = n
      BY <1>7, <1>8, <2>1, <3>1 DEF Linked
    <3>3. x # n /\ r[i] < r[x]
      BY <1>2, <1>4, <1>7, <1>8, <3>2
    <3>4. ASSUME NEW k \in Live(u), u.entries[k].next = x PROVE k = i
      BY <1>9, <1>10, <3>2, <3>4
    <3> QED BY <1>9, <1>10, <3>1, <3>2, <3>3, <3>4
  <2> QED BY <1>4, <1>7, <1>9, <1>10, <2>1 DEF Linked
<1>13. ChainRank(u, r)
  BY <1>1, <1>8, <1>11, <1>12 DEF ChainRank
<1> QED BY <1>3, <1>7, <1>9, <1>13

\* The removal of a later entry closes its chain.
LEMMA RmLaterChained ==
  ASSUME NEW t, Typed(t), NEW r, ChainRank(t, r), NEW u, Typed(u), u.size = t.size,
         NEW i, NEW p, p = Predecessor(t, t.entries[i].key, i), RmLaterPoints(t, u, i, p)
  PROVE  Live(u) = Live(t) \ {i} /\ ChainRank(u, r)
<1>1. Slots(u) = Slots(t)
  BY DEF Slots
<1>2. /\ Live(t) \subseteq Slots(t)
      /\ \A j \in Slots(t) : j \in Live(t) <=> t.entries[j].key # 0
      /\ \A j \in Slots(t) : j \in Live(u) <=> u.entries[j].key # 0
      /\ Live(u) \subseteq Slots(t) /\ NULL \notin Slots(t)
  BY <1>1, TypedFacts
<1>3. i \in Live(t) /\ Main(t, i) # i
  BY DEF RmLaterPoints
<1>4. p \in Live(t) /\ t.entries[p].next = i /\ Main(t, p) = Main(t, i)
  BY <1>3, PredecessorIs
<1>5. PICK n : n = t.entries[i].next
  OBVIOUS
<1>6. \A j \in Slots(t) :
       /\ u.entries[j].key = IF j = i THEN 0 ELSE t.entries[j].key
       /\ u.entries[j].next = IF j = p THEN n ELSE t.entries[j].next
  BY <1>5 DEF RmLaterPoints
<1>7. Linked(t, r, i) /\ Linked(t, r, p) /\ r \in [Slots(t) -> Nat]
  BY <1>3, <1>4 DEF ChainRank
<1>8. p # i /\ r[p] < r[i] /\ i # NULL /\ \A j \in Live(t) : t.entries[j].next = i => j = p
  BY <1>2, <1>3, <1>4, <1>7 DEF Linked
<1>9. Live(u) = Live(t) \ {i}
  BY <1>2, <1>3, <1>6
<1>10. /\ \A j \in Live(u) : Main(u, j) = Main(t, j)
       /\ \A j \in Live(u) : j # p => u.entries[j].next = t.entries[j].next
       /\ u.entries[p].next = n
  BY <1>2, <1>4, <1>6, <1>9, MainIs
<1>11. \A j \in Live(t) : Main(t, j) # i
  <2> SUFFICES ASSUME NEW j \in Live(t) PROVE Main(t, j) # i
    OBVIOUS
  <2>1. Linked(t, r, j)
    BY DEF ChainRank
  <2> QED BY <1>3, <2>1 DEF Linked
<1>12. ASSUME NEW j \in Live(u) PROVE Linked(u, r, j)
  <2>1. Linked(t, r, j)
    BY <1>9 DEF ChainRank
  <2>2. /\ Main(u, j) \in Live(u)
        /\ Main(u, Main(u, j)) = Main(u, j)
    BY <1>9, <1>10, <1>11, <2>1 DEF Linked
  <2>3. j # Main(u, j) => \E s \in Live(u) : u.entries[s].next = j
    <3>1. SUFFICES ASSUME j # Main(t, j) PROVE \E s \in Live(u) : u.entries[s].next = j
      BY <1>10
    <3>2. PICK s \in Live(t) : t.entries[s].next = j
      BY <2>1, <3>1 DEF Linked
    <3>3. s # p
      BY <1>4, <1>9, <3>2
    <3>4. CASE s = i
      BY <1>4, <1>5, <1>8, <1>9, <1>10, <3>2, <3>4
    <3>5. CASE s # i
      BY <1>9, <1>10, <3>2, <3>3, <3>5
    <3> QED BY <3>4, <3>5
  <2>4. ASSUME u.entries[j].next # NULL
        PROVE  /\ u.entries[j].next \in Live(u)
               /\ Main(u, u.entries[j].next) = Main(u, j)
               /\ u.entries[j].next # Main(u, j)
               /\ r[j] < r[u.entries[j].next]
               /\ \A k \in Live(u) : u.entries[k].next = u.entries[j].next => k = j
    <3>1. CASE j = p
      <4>1. /\ u.entries[j].next = n /\ n \in Live(t) /\ Main(t, n) = Main(t, i)
            /\ n # Main(t, i) /\ r[i] < r[n]
            /\ \A k \in Live(t) : t.entries[k].next = n => k = i
        BY <1>5, <1>7, <1>10, <2>4, <3>1 DEF Linked
      <4>2. n # i /\ r[p] < r[n]
        BY <1>2, <1>3, <1>4, <1>7, <1>8, <4>1
      <4>3. ASSUME NEW k \in Live(u), u.entries[k].next = n PROVE k = p
        BY <1>9, <1>10, <4>1, <4>3
      <4> QED BY <1>4, <1>9, <1>10, <3>1, <4>1, <4>2, <4>3
    <3>2. CASE j # p
      <4>1. PICK x : x = t.entries[j].next
        OBVIOUS
      <4>2. /\ u.entries[j].next = x /\ x \in Live(t) /\ Main(t, x) = Main(t, j)
            /\ x # Main(t, j) /\ r[j] < r[x]
            /\ \A k \in Live(t) : t.entries[k].next = x => k = j
        BY <1>10, <2>1, <2>4, <3>2, <4>1 DEF Linked
      <4>3. x # i
        BY <1>8, <1>9, <3>2, <4>1
      <4>4. x # n
        BY <1>3, <1>5, <1>9, <4>2
      <4>5. ASSUME NEW k \in Live(u), u.entries[k].next = x PROVE k = j
        BY <1>9, <1>10, <4>2, <4>4, <4>5
      <4> QED BY <1>9, <1>10, <4>2, <4>3, <4>5
    <3> QED BY <3>1, <3>2
  <2> QED BY <2>2, <2>3, <2>4 DEF Linked
<1>13. ChainRank(u, r)
  BY <1>1, <1>7, <1>12 DEF ChainRank
<1> QED BY <1>9, <1>13

\* Removal takes the entry of the key and no other, and leaves whole chains.
LEMMA RmRemoves ==
  ASSUME NEW t, Counted(t), Chained(t), NEW key \in HashKeys, NEW u, u = rm(t, key)
  PROVE  /\ Counted(u) /\ Chained(u) /\ u.size = t.size /\ u.count <= t.count
         /\ \A k, v : Maps(u, k, v) <=> Maps(t, k, v) /\ k # key
<1>1. Typed(t) /\ t.count \in Int
  BY TypedFacts DEF Counted
<1>2. CASE \A i \in Live(t) : t.entries[i].key # key
  <2>1. u = t
    BY <1>1, <1>2, FindMisses DEF rm
  <2>2. \A k, v : Maps(t, k, v) => k # key
    BY <1>2 DEF Maps
  <2> QED BY <1>1, <2>1, <2>2
<1>3. ASSUME NEW i \in Live(t), t.entries[i].key = key
      PROVE  /\ Counted(u) /\ Chained(u) /\ u.size = t.size /\ u.count <= t.count
             /\ \A k, v : Maps(u, k, v) <=> Maps(t, k, v) /\ k # key
  <2>1. PICK r : ChainRank(t, r)
    BY DEF Chained
  <2>2. /\ Typed(u) /\ u.size = t.size /\ u.count = t.count - 1
        /\ \/ RmHeadPoints(t, u, i)
           \/ RmAlonePoints(t, u, i)
           \/ RmLaterPoints(t, u, i, Predecessor(t, key, i))
    BY <1>3, RmCases
  <2>3. /\ Live(t) \subseteq Slots(t) /\ Live(u) \subseteq Slots(t)
        /\ \A j \in Live(t) : t.entries[j].key = key => j = i
    BY <1>3, <2>2 DEF Live, Slots, Chained, Distinct
  <2>4. /\ ChainRank(u, r) /\ Distinct(u)
        /\ \E x \in Live(t) : Live(u) = Live(t) \ {x}
        /\ \A k, v : Maps(u, k, v) <=> Maps(t, k, v) /\ k # key
    <3>1. CASE RmHeadPoints(t, u, i)
      <4>1. PICK n : n = t.entries[i].next
        OBVIOUS
      <4>2. /\ n \in Live(t) /\ n # i /\ Live(u) = Live(t) \ {n} /\ ChainRank(u, r)
        BY <1>1, <2>1, <2>2, <3>1, <4>1, RmHeadChained
      <4>3. \A j \in Live(u) :
              /\ u.entries[j].key = IF j = i THEN t.entries[n].key ELSE t.entries[j].key
              /\ u.entries[j].val = IF j = i THEN t.entries[n].val ELSE t.entries[j].val
        BY <2>3, <3>1, <4>1, <4>2 DEF RmHeadPoints
      <4>4. Distinct(u)
        BY <2>3, <4>2, <4>3 DEF Chained, Distinct
      <4>5. ASSUME NEW k, NEW v PROVE Maps(u, k, v) <=> Maps(t, k, v) /\ k # key
        BY <1>3, <2>3, <4>2, <4>3 DEF Maps
      <4> QED BY <4>2, <4>4, <4>5
    <3>2. CASE RmAlonePoints(t, u, i)
      <4>1. Live(u) = Live(t) \ {i} /\ ChainRank(u, r)
        BY <1>1, <2>1, <2>2, <3>2, RmAloneChained
      <4>2. \A j \in Live(u) : /\ u.entries[j].key = t.entries[j].key
                               /\ u.entries[j].val = t.entries[j].val
        BY <2>3, <3>2, <4>1 DEF RmAlonePoints
      <4>3. Distinct(u)
        BY <2>3, <4>1, <4>2 DEF Chained, Distinct
      <4>4. ASSUME NEW k, NEW v PROVE Maps(u, k, v) <=> Maps(t, k, v) /\ k # key
        BY <1>3, <2>3, <4>1, <4>2 DEF Maps
      <4> QED BY <4>1, <4>3, <4>4
    <3>3. CASE RmLaterPoints(t, u, i, Predecessor(t, key, i))
      <4>1. Live(u) = Live(t) \ {i} /\ ChainRank(u, r)
        BY <1>1, <1>3, <2>1, <2>2, <3>3, RmLaterChained
      <4>2. \A j \in Live(u) : /\ u.entries[j].key = t.entries[j].key
                               /\ u.entries[j].val = t.entries[j].val
        BY <2>3, <3>3, <4>1 DEF RmLaterPoints
      <4>3. Distinct(u)
        BY <2>3, <4>1, <4>2 DEF Chained, Distinct
      <4>4. ASSUME NEW k, NEW v PROVE Maps(u, k, v) <=> Maps(t, k, v) /\ k # key
        BY <1>3, <2>3, <4>1, <4>2 DEF Maps
      <4> QED BY <4>1, <4>3, <4>4
    <3> QED BY <2>2, <3>1, <3>2, <3>3
  <2>5. Cardinality(Live(u)) = Cardinality(Live(t)) - 1
    <3>1. PICK x \in Live(t) : Live(u) = Live(t) \ {x}
      BY <2>4
    <3> QED BY <1>1, <3>1, LiveFinite, FS_RemoveElement
  <2> QED BY <1>1, <2>2, <2>4, <2>5 DEF Counted, Chained
<1> QED BY <1>2, <1>3

\* A new table is empty.
LEMMA InitEmpty ==
  ASSUME NEW size \in Nat \ {0}, NEW t, t = init(size)
  PROVE  /\ t.size = size /\ t.count = 0 /\ t \in TableOf(size)
         /\ Counted(t) /\ Chained(t) /\ Live(t) = {}
<1>1. EmptyEntry \in Entry(size)
  BY DEF EmptyEntry, Entry
<1>2. t.size = size /\ t.count = 0 /\ t \in TableOf(size) /\ Typed(t)
  BY <1>1 DEF init, Typed, TableOf
<1>3. \A i \in Slots(t) : t.entries[i].key = 0
  BY <1>2 DEF init, Slots, EmptyEntry, upb_key_empty
<1>4. Live(t) = {}
  BY <1>3 DEF Live, isempty, upb_key_empty
<1>5. Counted(t)
  BY <1>2, <1>4, FS_EmptySet DEF Counted
<1>6. Distinct(t)
  BY <1>4 DEF Distinct
<1>7. PICK r : r = [i \in Slots(t) |-> 0]
  OBVIOUS
<1>8. ChainRank(t, r)
  BY <1>4, <1>7 DEF ChainRank
<1> QED BY <1>2, <1>4, <1>5, <1>6, <1>8 DEF Chained

\* Removal through an iterator empties the entry and no other, whatever the
\* chains are like.
LEMMA RemoveiterPoints ==
  ASSUME NEW t, Typed(t), NEW i \in Slots(t), NEW u, u = removeiter(t, i)
  PROVE  /\ Typed(u) /\ u.size = t.size /\ u.count = t.count - 1
         /\ \A j \in Slots(t) : /\ u.entries[j].key = IF j = i THEN 0 ELSE t.entries[j].key
                                /\ u.entries[j].val = t.entries[j].val
<1> DEFINE E == [key : HashKeys \cup {0}, val : Nat, next : Slots(t) \cup {NULL}]
           pointing == {p \in Slots(t) : t.entries[p].next = i}
           first == CHOOSE p \in pointing : \A q \in pointing : p <= q
<1>1. PICK e : e = t.entries
  OBVIOUS
<1>2. /\ e \in [Slots(t) -> E] /\ e[i].next \in Slots(t) \cup {NULL}
      /\ t.size \in Nat \ {0} /\ t.count \in Int
  BY <1>1, TypedFacts
<1>3. PICK p : p = first
  OBVIOUS
<1>4. PICK n : n = e[i].next
  OBVIOUS
<1>5. PICK g : g = IF pointing = {} THEN e ELSE [e EXCEPT ![p].next = n]
  OBVIOUS
<1>6. t = [size |-> t.size, count |-> t.count, entries |-> t.entries]
  BY DEF Typed, TableOf
<1>7. u = [size |-> t.size, count |-> t.count - 1,
           entries |-> [g EXCEPT ![i].key = 0, ![i].next = NULL]]
  <2>1. PICK h : h = [g EXCEPT ![i].key = 0, ![i].next = NULL]
    OBVIOUS
  <2>2. PICK a : a = IF pointing = {} THEN t.entries
                     ELSE [t.entries EXCEPT ![first].next = t.entries[i].next]
    <3> HIDE DEF first, pointing
    <3> QED OBVIOUS
  <2>3. a = g
    <3> HIDE DEF first, pointing
    <3> QED BY <1>1, <1>3, <1>4, <1>5, <2>2
  <2>4. u = [t EXCEPT !.count = t.count - 1,
                      !.entries = [a EXCEPT ![i].key = 0, ![i].next = NULL]]
    BY <2>2 DEF removeiter, upb_key_empty
  <2>5. u = [t EXCEPT !.count = t.count - 1, !.entries = h]
    BY <2>1, <2>3, <2>4
  <2>6. u = [size |-> t.size, count |-> t.count - 1, entries |-> h]
    BY <1>6, <2>5
  <2> QED BY <2>1, <2>6
<1> HIDE DEF first, pointing
<1>8. g \in [Slots(t) -> E] /\ \A j \in Slots(t) : g[j].key = e[j].key /\ g[j].val = e[j].val
  <2>1. n \in Slots(t) \cup {NULL}
    BY <1>2, <1>4
  <2>2. CASE p \in Slots(t) /\ pointing # {}
    BY <1>2, <1>5, <2>1, <2>2
  <2>3. CASE p \notin Slots(t) \/ pointing = {}
    BY <1>2, <1>5, <2>1, <2>3
  <2> QED BY <2>2, <2>3
<1>9. /\ u.entries \in [Slots(t) -> E]
      /\ \A j \in Slots(t) : /\ u.entries[j].key = IF j = i THEN 0 ELSE g[j].key
                             /\ u.entries[j].val = g[j].val
  BY <1>7, <1>8
<1>10. Typed(u)
  <2>1. u = [size |-> t.size, count |-> t.count - 1, entries |-> u.entries]
    BY <1>7
  <2> QED BY <1>2, <1>9, <2>1 DEF Typed, TableOf, Entry, Slots, upb_key_empty
<1> QED BY <1>1, <1>7, <1>8, <1>9, <1>10

\* Removal through an iterator keeps the count exact.
LEMMA RemoveiterCounted ==
  ASSUME NEW t, Counted(t), NEW i \in Live(t), NEW u, u = removeiter(t, i)
  PROVE  /\ Counted(u) /\ u.size = t.size /\ u.count = t.count - 1
         /\ Live(u) = Live(t) \ {i}
         /\ \A j \in Live(u) : u.entries[j].key = t.entries[j].key
                                 /\ u.entries[j].val = t.entries[j].val
<1>1. i \in Slots(t) /\ Typed(t) /\ Live(t) \subseteq Slots(t)
  BY DEF Counted, Live
<1>2. /\ Typed(u) /\ u.size = t.size /\ u.count = t.count - 1
      /\ \A j \in Slots(t) : /\ u.entries[j].key = IF j = i THEN 0 ELSE t.entries[j].key
                             /\ u.entries[j].val = t.entries[j].val
  BY <1>1, RemoveiterPoints
<1>3. Slots(u) = Slots(t)
  BY <1>2 DEF Slots
<1>4. Live(u) = Live(t) \ {i}
  BY <1>1, <1>2, <1>3 DEF Live, isempty, upb_key_empty
<1>5. Cardinality(Live(u)) = Cardinality(Live(t)) - 1
  BY <1>1, <1>4, LiveFinite, FS_RemoveElement
<1> QED BY <1>1, <1>2, <1>4, <1>5 DEF Counted

-----------------------------------------------------------------------------
(* Growth.                                                                 *)

\* The loop of Rehashed, step by step.
LEMMA RehashedTrace ==
  ASSUME NEW t, Typed(t), NEW size \in Nat \ {0}
  PROVE  \E f \in [0 .. t.size -> TableOf(size)] :
           /\ f[0] = init(size)
           /\ \A m \in 1 .. t.size :
                f[m] = IF isempty(t, m - 1) THEN f[m - 1]
                       ELSE insert(f[m - 1], t.entries[m - 1].key, t.entries[m - 1].val)
           /\ Rehashed(t, size) = f[t.size]
<1> DEFINE T == TableOf(size)
           n == t.size
           step(u, m) == IF isempty(t, m - 1) THEN u
                         ELSE insert(u, t.entries[m - 1].key, t.entries[m - 1].val)
           x == init(size)
           after == CHOOSE f : f = [m \in 0 .. n |-> IF m = 0 THEN x ELSE step(f[m - 1], m)]
           G == [m \in 1 .. n |-> [u \in T |-> step(u, m)]]
<1>1. n \in Nat /\ x \in T /\ \A m \in 1 .. n : \A u \in T : step(u, m) \in T
  <2>1. n \in Nat /\ x \in T
    BY TypedFacts, InitEmpty
  <2>2. ASSUME NEW m \in 1 .. n, NEW u \in T PROVE step(u, m) \in T
    <3>1. u.size = size /\ Typed(u)
      BY DEF Typed, TableOf
    <3>2. m - 1 \in Slots(t)
      BY <2>1 DEF Slots
    <3>3. CASE isempty(t, m - 1)
      BY <3>3
    <3>4. CASE ~isempty(t, m - 1)
      <4>1. t.entries[m - 1].key \in HashKeys /\ t.entries[m - 1].val \in Nat
        BY <3>2, <3>4, TypedFacts DEF Live
      <4>2. PICK v : v = step(u, m)
        OBVIOUS
      <4>3. v = insert(u, t.entries[m - 1].key, t.entries[m - 1].val)
        BY <3>4, <4>2
      <4>4. Typed(v) /\ v.size = size
        BY <3>1, <4>1, <4>3, InsertTyped
      <4> QED BY <4>2, <4>4 DEF Typed
    <3> QED BY <3>3, <3>4
  <2> QED BY <2>1, <2>2
<1>2. G \in [1 .. n -> [T -> T]]
  <2> HIDE DEF step, T, n
  <2> QED BY <1>1
<1>3. \A m \in 1 .. n : \A u \in T : G[m][u] = step(u, m)
  OBVIOUS
<1>4. PICK f : Trace(f, T, x, G, n)
  <2> HIDE DEF G, T, x, n
  <2> QED BY Iteration, <1>1, <1>2
<1> HIDE DEF step, T
<1>5. f[0] = x /\ f \in [0 .. n -> T] /\ \A m \in 1 .. n : f[m] = step(f[m - 1], m)
  <2> HIDE DEF G, T
  <2>1. \A m \in 1 .. n : f[m - 1] \in T /\ f[m] = G[m][f[m - 1]]
    BY <1>1, <1>4 DEF Trace
  <2> QED BY <1>3, <1>4, <2>1 DEF Trace
<1>6. f = [m \in 0 .. n |-> IF m = 0 THEN x ELSE step(f[m - 1], m)]
  <2>1. PICK g : g = [m \in 0 .. n |-> IF m = 0 THEN x ELSE step(f[m - 1], m)]
    OBVIOUS
  <2> HIDE DEF x
  <2>2. \A m \in 0 .. n : f[m] = g[m]
    BY <2>1, <1>1, <1>5
  <2>3. f = g
    BY <2>1, <2>2, <1>5
  <2> QED BY <2>1, <2>3
<1>7. after = [m \in 0 .. n |-> IF m = 0 THEN x ELSE step(after[m - 1], m)]
  <2> HIDE DEF x
  <2> QED BY <1>6, Zenon
<1>8. Rehashed(t, size) = after[n]
  BY DEF Rehashed, Loop, step
<1> HIDE DEF after, x
<1>9. after \in [0 .. n -> T]
  <2> DEFINE S == {m \in 0 .. n : after[m] \in T}
  <2>1. 0 \in S
    BY <1>7, <1>1
  <2>2. \A m \in 1 .. n : m - 1 \in S => m \in S
    BY <1>7, <1>1
  <2>3. \A m \in 0 .. n : m \in S
    <3> HIDE DEF S
    <3> QED BY <1>1, <2>1, <2>2, UpTo
  <2> QED BY <2>3, <1>7
<1>10. after[0] = x /\ \A m \in 1 .. n : after[m] = step(after[m - 1], m)
  BY <1>1, <1>7
<1> QED BY <1>8, <1>9, <1>10 DEF step, x, T

\* A larger table has the same entries, whatever the chains were like; and
\* whole chains, if no key had two entries.
LEMMA RehashedKeeps ==
  ASSUME NEW t, Typed(t), NEW size \in Nat, t.size <= size, NEW u, u = Rehashed(t, size)
  PROVE  /\ Counted(u) /\ u.size = size /\ u.count <= t.size
         /\ \A k, v : Maps(u, k, v) <=> Maps(t, k, v)
         /\ Distinct(t) => Chained(u)
<1> DEFINE n == t.size
           K(m) == t.entries[m - 1].key
           V(m) == t.entries[m - 1].val
           Good(w, m) ==
             /\ Counted(w) /\ w.size = size /\ w.count <= m
             /\ \A k, v : Maps(w, k, v) <=>
                  \E i \in Live(t) : i < m /\ t.entries[i].key = k /\ t.entries[i].val = v
             /\ Distinct(t) => Chained(w)
<1>1. n \in Nat \ {0} /\ size \in Nat \ {0}
  BY TypedFacts
<1>2. PICK f \in [0 .. n -> TableOf(size)] :
           /\ f[0] = init(size)
           /\ \A m \in 1 .. n : f[m] = IF isempty(t, m - 1) THEN f[m - 1]
                                       ELSE insert(f[m - 1], K(m), V(m))
           /\ u = f[n]
  BY <1>1, RehashedTrace
<1>3. Live(t) \subseteq Slots(t) /\ Slots(t) \subseteq Nat
  BY TypedFacts
<1> DEFINE S == {m \in 0 .. n : Good(f[m], m)}
<1>4. 0 \in S
  <2>1. /\ Counted(f[0]) /\ f[0].size = size /\ f[0].count = 0 /\ Chained(f[0])
        /\ Live(f[0]) = {}
    BY <1>1, <1>2, InitEmpty
  <2>2. Good(f[0], 0)
    BY <1>3, <2>1 DEF Maps
  <2> QED BY <1>1, <2>2
<1>5. ASSUME NEW m \in 1 .. n, m - 1 \in S PROVE m \in S
  <2>1. PICK a : a = f[m - 1]
    OBVIOUS
  <2>2. PICK b : b = f[m]
    OBVIOUS
  <2>3. Good(a, m - 1)
    BY <1>5, <2>1
  <2>4. m \in Nat \ {0} /\ m - 1 \in Slots(t) /\ m - 1 \in Nat /\ a.count \in Int
    BY <1>1, <2>3, TypedFacts DEF Slots, Counted
  <2>5. CASE isempty(t, m - 1)
    <3>1. b = a
      BY <1>2, <2>1, <2>2, <2>5
    <3>2. m - 1 \notin Live(t)
      BY <2>5 DEF Live
    <3>3. \A i \in Live(t) : i < m <=> i < m - 1
      BY <1>3, <2>4, <3>2
    <3>4. \A k, v : Maps(b, k, v) <=>
                  \E i \in Live(t) : i < m /\ t.entries[i].key = k /\ t.entries[i].val = v
      BY <2>3, <3>1, <3>3
    <3>5. b.count <= m
      BY <2>3, <2>4, <3>1
    <3>6. Good(b, m)
      BY <2>3, <3>1, <3>4, <3>5
    <3> QED BY <2>2, <3>6
  <2>6. CASE ~isempty(t, m - 1)
    <3>1. b = insert(a, K(m), V(m))
      BY <1>2, <2>1, <2>2, <2>6
    <3>2. m - 1 \in Live(t)
      BY <2>4, <2>6 DEF Live
    <3>3. K(m) \in HashKeys /\ V(m) \in Nat
      BY <3>2, TypedFacts
    <3>4. a.count < a.size
      BY <1>1, <2>3, <2>4
    <3>5. Counted(b) /\ b.size = size /\ b.count <= m
      <4>1. Counted(a) /\ a.size = size /\ a.count <= m - 1
        BY <2>3
      <4>2. Counted(b) /\ b.size = a.size /\ b.count = a.count + 1
        <5> HIDE DEF K, V
        <5> QED BY <3>1, <3>3, <3>4, <4>1, InsertCounted
      <4> QED BY <2>4, <4>1, <4>2
    <3>6. Typed(a) /\ Live(a) # Slots(a)
      BY <2>3, <3>4, LiveFinite DEF Counted
    <3>7. \A k, v : Maps(b, k, v) <=> Maps(a, k, v) \/ (k = K(m) /\ v = V(m))
      <4> HIDE DEF K, V
      <4> QED BY <3>1, <3>3, <3>6, InsertAdds
    <3>8. \A i \in Live(t) : i < m <=> i < m - 1 \/ i = m - 1
      BY <1>3, <2>4
    <3>9. \A k, v : Maps(b, k, v) <=>
                  \E i \in Live(t) : i < m /\ t.entries[i].key = k /\ t.entries[i].val = v
      BY <2>3, <3>2, <3>7, <3>8
    <3>10. ASSUME Distinct(t) PROVE Chained(b)
      <4>1. \A i \in Live(t) : i < m - 1 => t.entries[i].key # K(m)
        BY <1>3, <2>4, <3>2, <3>10 DEF Distinct
      <4>2. \A i \in Live(a) : a.entries[i].key # K(m)
        <5>1. \A i \in Live(a) : Maps(a, a.entries[i].key, a.entries[i].val)
          BY DEF Maps
        <5> QED BY <2>3, <4>1, <5>1
      <4>3. Counted(a) /\ Chained(a)
        BY <2>3, <3>10
      <4> HIDE DEF K, V
      <4> QED BY <3>1, <3>3, <3>4, <4>2, <4>3, InsertChained
    <3>11. Good(b, m)
      BY <3>5, <3>9, <3>10
    <3> QED BY <2>2, <3>11
  <2> QED BY <2>5, <2>6
<1>6. \A m \in 1 .. n : m - 1 \in S => m \in S
  BY <1>5
<1>7. \A m \in 0 .. n : m \in S
  <2> HIDE DEF S
  <2> QED BY <1>1, <1>4, <1>6, UpTo
<1>8. n \in S
  <2> HIDE DEF S
  <2> QED BY <1>1, <1>7
<1>9. Good(u, n)
  BY <1>2, <1>8
<1>10. \A i \in Live(t) : i < n
  BY <1>1, <1>3 DEF Slots
<1>11. \A k, v : Maps(u, k, v) <=> Maps(t, k, v)
  BY <1>9, <1>10 DEF Maps
<1> QED BY <1>9, <1>11

\* A table that is not fuller than it may be.
Capped(t) == t.count <= t.size - t.size \div 8

\* What Grown returns has room for one more entry.
LEMMA GrownKeeps ==
  ASSUME NEW t, Counted(t), Capped(t), NEW u, u = Grown(t)
  PROVE  /\ Counted(u) /\ Capped(u) /\ u.count < u.size - u.size \div 8 /\ u.count < u.size
         /\ \A k, v : Maps(u, k, v) <=> Maps(t, k, v)
         /\ Chained(t) => Chained(u)
<1>1. Typed(t) /\ t.size \in Nat \ {0} /\ t.count \in Int
  BY TypedFacts DEF Counted
<1>2. CASE ~isfull(t)
  <2>1. u = t
    BY <1>2 DEF Grown
  <2>2. t.count < t.size - t.size \div 8 /\ t.count < t.size
    BY <1>1, <1>2 DEF isfull, Capped
  <2> QED BY <2>1, <2>2
<1>3. CASE isfull(t)
  <2>1. u = Rehashed(t, 2 * t.size)
    BY <1>3 DEF Grown
  <2>2. 2 * t.size \in Nat /\ t.size <= 2 * t.size
    BY <1>1
  <2>3. /\ Counted(u) /\ u.size = 2 * t.size /\ u.count <= t.size
        /\ \A k, v : Maps(u, k, v) <=> Maps(t, k, v)
        /\ Distinct(t) => Chained(u)
    <3>1. PICK size : size = 2 * t.size
      OBVIOUS
    <3> QED BY <1>1, <2>1, <2>2, <3>1, RehashedKeeps
  <2>4. u.count \in Int /\ u.size = 2 * t.size /\ u.count <= t.size
    BY <2>3, TypedFacts DEF Counted
  <2>5. u.count < u.size - u.size \div 8 /\ u.count < u.size
    BY <1>1, <2>4
  <2>6. Capped(u)
    BY <1>1, <2>4, <2>5 DEF Capped
  <2>7. Chained(t) => Chained(u)
    BY <2>3 DEF Chained
  <2> QED BY <2>3, <2>5, <2>6, <2>7
<1> QED BY <1>2, <1>3

\* Growth and insertion together.
LEMMA GrowInsert ==
  ASSUME NEW t, Counted(t), Capped(t), NEW key \in HashKeys, NEW val \in Nat,
         NEW u, u = insert(Grown(t), key, val)
  PROVE  /\ Counted(u) /\ Capped(u)
         /\ \A k, v : Maps(u, k, v) <=> Maps(t, k, v) \/ (k = key /\ v = val)
         /\ Chained(t) /\ (\A v : ~Maps(t, key, v)) =>
              Chained(u) /\ InsertDefined(Grown(t), key)
<1>1. PICK g : g = Grown(t)
  OBVIOUS
<1>2. /\ Counted(g) /\ g.count < g.size - g.size \div 8 /\ g.count < g.size
      /\ \A k, v : Maps(g, k, v) <=> Maps(t, k, v)
      /\ Chained(t) => Chained(g)
  BY <1>1, GrownKeeps
<1>3. u = insert(g, key, val)
  BY <1>1
<1>4. Counted(u) /\ u.size = g.size /\ u.count = g.count + 1
  BY <1>2, <1>3, InsertCounted
<1>5. Typed(g) /\ g.size \in Nat \ {0} /\ g.count \in Int /\ Live(g) # Slots(g)
  BY <1>2, TypedFacts, LiveFinite DEF Counted
<1>6. Capped(u)
  BY <1>2, <1>4, <1>5 DEF Capped
<1>7. \A k, v : Maps(u, k, v) <=> Maps(g, k, v) \/ (k = key /\ v = val)
  BY <1>3, <1>5, InsertAdds
<1>8. ASSUME Chained(t), \A v : ~Maps(t, key, v)
      PROVE  Chained(u) /\ InsertDefined(g, key)
  <2>1. \A i \in Live(g) : g.entries[i].key # key
    <3>1. \A i \in Live(g) : Maps(g, g.entries[i].key, g.entries[i].val)
      BY DEF Maps
    <3> QED BY <1>2, <1>8, <3>1
  <2>2. Chained(g)
    BY <1>2, <1>8
  <2> QED BY <1>2, <1>3, <2>1, <2>2, InsertChained, InsertIsDefined
<1> QED BY <1>1, <1>2, <1>4, <1>6, <1>7, <1>8

\* What findentry says of the keys and values of a table.
LEMMA FindMaps ==
  ASSUME NEW t, Counted(t), Chained(t), NEW key \in HashKeys, NEW i, i = findentry(t, key)
  PROVE  /\ i = NULL <=> \A v : ~Maps(t, key, v)
         /\ \A v : Maps(t, key, v) <=> i # NULL /\ t.entries[i].val = v
<1>1. Typed(t) /\ Live(t) \subseteq Slots(t) /\ NULL \notin Slots(t)
  BY TypedFacts DEF Counted
<1>2. \A j \in Live(t) : t.entries[j].key = key => i = j
  BY FindFinds
<1>3. (\A j \in Live(t) : t.entries[j].key # key) => i = NULL
  BY <1>1, FindMisses
<1> QED BY <1>1, <1>2, <1>3 DEF Maps

\* Whole chains and an exact count make a table well-formed.
LEMMA ChainedWellFormed ==
  ASSUME NEW t, Counted(t), Capped(t), Chained(t)
  PROVE  WellFormed(t)
<1>1. \A i \in Slots(t) : ~isempty(t, i) => findentry(t, t.entries[i].key) = i
  BY FindFinds DEF Live
<1> QED BY <1>1 DEF WellFormed, Counted, Capped, Live

-----------------------------------------------------------------------------
(* The loops of the pool.                                                  *)

\* The tables that the pool's operations keep.
Tables == {u \in UNION {TableOf(k) : k \in Nat \ {0}} : Counted(u) /\ Capped(u)}

\* What is in the set of these tables.
LEMMA TablesAre ==
  ASSUME NEW u
  PROVE  u \in Tables <=> Counted(u) /\ Capped(u)
<1>1. ASSUME Counted(u) PROVE u \in UNION {TableOf(k) : k \in Nat \ {0}}
  BY <1>1 DEF Counted, Typed
<1> QED BY <1>1 DEF Tables

\* The loop of Added, step by step.
LEMMA AddedTrace ==
  ASSUME NEW r \in Tables, NEW e, NEW n \in Nat, \A m \in 1 .. n : e[m] \in HashKeys,
         Build \in Nat
  PROVE  \E f \in [0 .. n -> Tables] :
           /\ f[0] = r
           /\ \A m \in 1 .. n : f[m] = insert(Grown(f[m - 1]), e[m], Build)
           /\ Added(r, e, n) = f[n]
<1> DEFINE T == Tables
           step(u, m) == insert(Grown(u), e[m], Build)
           x == r
           after == CHOOSE f : f = [m \in 0 .. n |-> IF m = 0 THEN x ELSE step(f[m - 1], m)]
           G == [m \in 1 .. n |-> [u \in T |-> step(u, m)]]
<1>1. n \in Nat /\ x \in T /\ \A m \in 1 .. n : \A u \in T : step(u, m) \in T
  <2>1. ASSUME NEW m \in 1 .. n, NEW u \in T PROVE step(u, m) \in T
    <3>1. PICK v : v = step(u, m)
      OBVIOUS
    <3>2. Counted(v) /\ Capped(v)
      BY <3>1, TablesAre, GrowInsert
    <3> QED BY <3>1, <3>2, TablesAre
  <2> QED BY <2>1
<1>2. G \in [1 .. n -> [T -> T]]
  <2> HIDE DEF step, T
  <2> QED BY <1>1
<1>3. \A m \in 1 .. n : \A u \in T : G[m][u] = step(u, m)
  OBVIOUS
<1>4. PICK f : Trace(f, T, x, G, n)
  <2> HIDE DEF G, T, x
  <2> QED BY Iteration, <1>1, <1>2
<1> HIDE DEF step, T
<1>5. f[0] = x /\ f \in [0 .. n -> T] /\ \A m \in 1 .. n : f[m] = step(f[m - 1], m)
  <2> HIDE DEF G
  <2>1. \A m \in 1 .. n : f[m - 1] \in T /\ f[m] = G[m][f[m - 1]]
    BY <1>1, <1>4 DEF Trace
  <2> QED BY <1>3, <1>4, <2>1 DEF Trace
<1>6. f = [m \in 0 .. n |-> IF m = 0 THEN x ELSE step(f[m - 1], m)]
  <2>1. PICK g : g = [m \in 0 .. n |-> IF m = 0 THEN x ELSE step(f[m - 1], m)]
    OBVIOUS
  <2> HIDE DEF x
  <2>2. \A m \in 0 .. n : f[m] = g[m]
    BY <2>1, <1>1, <1>5
  <2>3. f = g
    BY <2>1, <2>2, <1>5
  <2> QED BY <2>1, <2>3
<1>7. after = [m \in 0 .. n |-> IF m = 0 THEN x ELSE step(after[m - 1], m)]
  <2> HIDE DEF x
  <2> QED BY <1>6, Zenon
<1>8. Added(r, e, n) = after[n]
  BY DEF Added, Loop, step
<1> HIDE DEF after, x
<1>9. after \in [0 .. n -> T]
  <2> DEFINE S == {m \in 0 .. n : after[m] \in T}
  <2>1. 0 \in S
    BY <1>7, <1>1
  <2>2. \A m \in 1 .. n : m - 1 \in S => m \in S
    BY <1>7, <1>1
  <2>3. \A m \in 0 .. n : m \in S
    <3> HIDE DEF S
    <3> QED BY <1>1, <2>1, <2>2, UpTo
  <2> QED BY <2>3, <1>7
<1>10. after[0] = x /\ \A m \in 1 .. n : after[m] = step(after[m - 1], m)
  BY <1>1, <1>7
<1> QED BY <1>8, <1>9, <1>10 DEF step, x, T

\* Tables whose chains are whole as well.
WholeTables == {u \in Tables : Chained(u)}

\* What is in the set of these tables.
LEMMA WholeTablesAre ==
  ASSUME NEW u
  PROVE  u \in WholeTables <=> Counted(u) /\ Capped(u) /\ Chained(u)
BY TablesAre DEF WholeTables

\* rm leaves whole tables.
LEMMA RmWhole ==
  ASSUME NEW u \in WholeTables, NEW key \in HashKeys
  PROVE  rm(u, key) \in WholeTables
<1>1. PICK v : v = rm(u, key)
  OBVIOUS
<1>2. Counted(u) /\ Capped(u) /\ Chained(u)
  BY WholeTablesAre
<1>3. Counted(v) /\ Chained(v) /\ v.size = u.size /\ v.count <= u.count
  BY <1>1, <1>2, RmRemoves
<1>4. u.size \in Nat /\ u.count \in Int /\ v.count \in Int
  BY <1>2, <1>3, TypedFacts DEF Counted
<1>5. Capped(v)
  BY <1>2, <1>3, <1>4 DEF Capped
<1> QED BY <1>1, <1>3, <1>5, WholeTablesAre

\* The loop of BackOut, step by step.
LEMMA BackOutTrace ==
  ASSUME NEW r \in WholeTables, NEW e, NEW n \in Nat, \A m \in 1 .. n : e[m] \in HashKeys
  PROVE  \E f \in [0 .. n -> WholeTables] :
           /\ f[0] = r
           /\ \A m \in 1 .. n : f[m] = rm(f[m - 1], e[m])
           /\ BackOut(r, e, n) = f[n]
<1> DEFINE T == WholeTables
           step(u, m) == rm(u, e[m])
           x == r
           after == CHOOSE f : f = [m \in 0 .. n |-> IF m = 0 THEN x ELSE step(f[m - 1], m)]
           G == [m \in 1 .. n |-> [u \in T |-> step(u, m)]]
<1>1. n \in Nat /\ x \in T /\ \A m \in 1 .. n : \A u \in T : step(u, m) \in T
  BY RmWhole
<1>2. G \in [1 .. n -> [T -> T]]
  <2> HIDE DEF step, T
  <2> QED BY <1>1
<1>3. \A m \in 1 .. n : \A u \in T : G[m][u] = step(u, m)
  OBVIOUS
<1>4. PICK f : Trace(f, T, x, G, n)
  <2> HIDE DEF G, T, x
  <2> QED BY Iteration, <1>1, <1>2
<1> HIDE DEF step, T
<1>5. f[0] = x /\ f \in [0 .. n -> T] /\ \A m \in 1 .. n : f[m] = step(f[m - 1], m)
  <2> HIDE DEF G
  <2>1. \A m \in 1 .. n : f[m - 1] \in T /\ f[m] = G[m][f[m - 1]]
    BY <1>1, <1>4 DEF Trace
  <2> QED BY <1>3, <1>4, <2>1 DEF Trace
<1>6. f = [m \in 0 .. n |-> IF m = 0 THEN x ELSE step(f[m - 1], m)]
  <2>1. PICK g : g = [m \in 0 .. n |-> IF m = 0 THEN x ELSE step(f[m - 1], m)]
    OBVIOUS
  <2> HIDE DEF x
  <2>2. \A m \in 0 .. n : f[m] = g[m]
    BY <2>1, <1>1, <1>5
  <2>3. f = g
    BY <2>1, <2>2, <1>5
  <2> QED BY <2>1, <2>3
<1>7. after = [m \in 0 .. n |-> IF m = 0 THEN x ELSE step(after[m - 1], m)]
  <2> HIDE DEF x
  <2> QED BY <1>6, Zenon
<1>8. BackOut(r, e, n) = after[n]
  BY DEF BackOut, Loop, step
<1> HIDE DEF after, x
<1>9. after \in [0 .. n -> T]
  <2> DEFINE S == {m \in 0 .. n : after[m] \in T}
  <2>1. 0 \in S
    BY <1>7, <1>1
  <2>2. \A m \in 1 .. n : m - 1 \in S => m \in S
    BY <1>7, <1>1
  <2>3. \A m \in 0 .. n : m \in S
    <3> HIDE DEF S
    <3> QED BY <1>1, <2>1, <2>2, UpTo
  <2> QED BY <2>3, <1>7
<1>10. after[0] = x /\ \A m \in 1 .. n : after[m] = step(after[m - 1], m)
  BY <1>1, <1>7
<1> QED BY <1>8, <1>9, <1>10 DEF step, x, T

\* The loop of remove_filedef, step by step.
LEMMA RemoveTrace ==
  ASSUME NEW t, Typed(t), NEW b
  PROVE  \E f \in [0 .. t.size -> TableOf(t.size)] :
           /\ f[0] = t
           /\ \A m \in 1 .. t.size :
                f[m] = IF ~isempty(f[m - 1], m - 1) /\ f[m - 1].entries[m - 1].val = b
                       THEN removeiter(f[m - 1], m - 1) ELSE f[m - 1]
           /\ remove_filedef(t, b) = f[t.size]
<1> DEFINE T == TableOf(t.size)
           n == t.size
           step(u, m) == IF ~isempty(u, m - 1) /\ u.entries[m - 1].val = b
                         THEN removeiter(u, m - 1) ELSE u
           x == t
           after == CHOOSE f : f = [m \in 0 .. n |-> IF m = 0 THEN x ELSE step(f[m - 1], m)]
           G == [m \in 1 .. n |-> [u \in T |-> step(u, m)]]
<1>1. n \in Nat /\ x \in T /\ \A m \in 1 .. n : \A u \in T : step(u, m) \in T
  <2>1. n \in Nat \ {0} /\ x \in T
    BY DEF Typed
  <2>2. ASSUME NEW m \in 1 .. n, NEW u \in T PROVE step(u, m) \in T
    <3>1. u.size = n /\ Typed(u)
      BY <2>1 DEF Typed, TableOf
    <3>2. m - 1 \in Slots(u)
      BY <2>1, <3>1 DEF Slots
    <3>3. PICK v : v = removeiter(u, m - 1)
      OBVIOUS
    <3>4. Typed(v) /\ v.size = n
      BY <3>1, <3>2, <3>3, RemoveiterPoints
    <3>5. v \in T
      BY <3>4 DEF Typed
    <3> HIDE DEF T
    <3> QED BY <3>3, <3>5
  <2> QED BY <2>1, <2>2
<1>2. G \in [1 .. n -> [T -> T]]
  <2> HIDE DEF step, T, n
  <2> QED BY <1>1
<1>3. \A m \in 1 .. n : \A u \in T : G[m][u] = step(u, m)
  OBVIOUS
<1>4. PICK f : Trace(f, T, x, G, n)
  <2> HIDE DEF G, T, x, n
  <2> QED BY Iteration, <1>1, <1>2
<1> HIDE DEF step, T
<1>5. f[0] = x /\ f \in [0 .. n -> T] /\ \A m \in 1 .. n : f[m] = step(f[m - 1], m)
  <2> HIDE DEF G
  <2>1. \A m \in 1 .. n : f[m - 1] \in T /\ f[m] = G[m][f[m - 1]]
    BY <1>1, <1>4 DEF Trace
  <2> QED BY <1>3, <1>4, <2>1 DEF Trace
<1>6. f = [m \in 0 .. n |-> IF m = 0 THEN x ELSE step(f[m - 1], m)]
  <2>1. PICK g : g = [m \in 0 .. n |-> IF m = 0 THEN x ELSE step(f[m - 1], m)]
    OBVIOUS
  <2> HIDE DEF x
  <2>2. \A m \in 0 .. n : f[m] = g[m]
    BY <2>1, <1>1, <1>5
  <2>3. f = g
    BY <2>1, <2>2, <1>5
  <2> QED BY <2>1, <2>3
<1>7. after = [m \in 0 .. n |-> IF m = 0 THEN x ELSE step(after[m - 1], m)]
  <2> HIDE DEF x
  <2> QED BY <1>6, Zenon
<1>8. remove_filedef(t, b) = after[n]
  BY DEF remove_filedef, Loop, step
<1> HIDE DEF after, x
<1>9. after \in [0 .. n -> T]
  <2> DEFINE S == {m \in 0 .. n : after[m] \in T}
  <2>1. 0 \in S
    BY <1>7, <1>1
  <2>2. \A m \in 1 .. n : m - 1 \in S => m \in S
    BY <1>7, <1>1
  <2>3. \A m \in 0 .. n : m \in S
    <3> HIDE DEF S
    <3> QED BY <1>1, <2>1, <2>2, UpTo
  <2> QED BY <2>3, <1>7
<1>10. after[0] = x /\ \A m \in 1 .. n : after[m] = step(after[m - 1], m)
  BY <1>1, <1>7
<1> QED BY <1>8, <1>9, <1>10 DEF step, x, T

\* The extensions e[1] .. e[n] are not in t, and differ.
AreNew(t, e, n) ==
  \A m \in 1 .. n : (\A v : ~Maps(t, e[m], v)) /\ \A l \in 1 .. m - 1 : e[l] # e[m]

\* u has the entries of t and these extensions.
HasAdded(u, t, e, n) ==
  /\ Counted(u) /\ Capped(u)
  /\ \A k, v : Maps(u, k, v) <=> Maps(t, k, v) \/ (v = Build /\ \E m \in 1 .. n : e[m] = k)

\* The additions leave the old entries and the new ones; the chains are
\* whole if the extensions are new and different.
LEMMA AddedAdds ==
  ASSUME NEW r \in Tables, NEW e, NEW n \in Nat, \A m \in 1 .. n : e[m] \in HashKeys,
         Build \in Nat, NEW u, u = Added(r, e, n)
  PROVE  HasAdded(u, r, e, n) /\ (Chained(r) /\ AreNew(r, e, n) => Chained(u))
<1> DEFINE New(j) == Chained(r) /\ \A m \in 1 .. j : /\ \A v : ~Maps(r, e[m], v)
                                                     /\ \A l \in 1 .. m - 1 : e[l] # e[m]
           Good(w, j) ==
             /\ \A k, v : Maps(w, k, v) <=>
                  Maps(r, k, v) \/ (v = Build /\ \E m \in 1 .. j : e[m] = k)
             /\ New(j) => Chained(w)
<1>1. PICK f \in [0 .. n -> Tables] :
           /\ f[0] = r
           /\ \A m \in 1 .. n : f[m] = insert(Grown(f[m - 1]), e[m], Build)
           /\ u = f[n]
  BY AddedTrace
<1> DEFINE S == {m \in 0 .. n : Good(f[m], m)}
<1>2. 0 \in S
  BY <1>1
<1>3. ASSUME NEW j \in 1 .. n, j - 1 \in S PROVE j \in S
  <2>1. PICK a \in Tables : a = f[j - 1]
    BY <1>1
  <2>2. PICK b : b = f[j]
    OBVIOUS
  <2>3. Good(a, j - 1)
    BY <1>3, <2>1
  <2>4. b = insert(Grown(a), e[j], Build) /\ e[j] \in HashKeys
    BY <1>1, <2>1, <2>2
  <2>5. /\ \A k, v : Maps(b, k, v) <=> Maps(a, k, v) \/ (k = e[j] /\ v = Build)
        /\ Chained(a) /\ (\A v : ~Maps(a, e[j], v)) => Chained(b)
    BY <2>1, <2>4, TablesAre, GrowInsert
  <2>6. \A k : (\E m \in 1 .. j : e[m] = k) <=> (\E m \in 1 .. j - 1 : e[m] = k) \/ e[j] = k
    <3>1. \A m : m \in 1 .. j <=> m \in 1 .. j - 1 \/ m = j
      OBVIOUS
    <3> QED BY <3>1
  <2>7. \A k, v : Maps(b, k, v) <=>
                  Maps(r, k, v) \/ (v = Build /\ \E m \in 1 .. j : e[m] = k)
    BY <2>3, <2>5, <2>6
  <2>8. ASSUME New(j) PROVE Chained(b)
    <3>1. New(j - 1) /\ (\A v : ~Maps(r, e[j], v)) /\ \A l \in 1 .. j - 1 : e[l] # e[j]
      <4>1. j \in 1 .. j /\ \A m \in 1 .. j - 1 : m \in 1 .. j
        OBVIOUS
      <4> QED BY <2>8, <4>1
    <3>2. \A v : ~Maps(a, e[j], v)
      BY <2>3, <3>1
    <3>3. Chained(a)
      BY <2>3, <3>1
    <3> QED BY <2>5, <3>2, <3>3
  <2>9. Good(b, j)
    BY <2>7, <2>8
  <2> QED BY <2>2, <2>9
<1>4. \A j \in 1 .. n : j - 1 \in S => j \in S
  BY <1>3
<1>5. \A j \in 0 .. n : j \in S
  <2> HIDE DEF S
  <2> QED BY <1>2, <1>4, UpTo
<1>6. n \in S
  <2> HIDE DEF S
  <2> QED BY <1>5
<1>7. Good(u, n)
  BY <1>1, <1>6
<1>8. Counted(u) /\ Capped(u)
  BY <1>1, TablesAre
<1> QED BY <1>7, <1>8 DEF HasAdded, AreNew

\* The removals take these extensions and no other.
LEMMA BackOutRemoves ==
  ASSUME NEW r \in WholeTables, NEW e, NEW n \in Nat, \A m \in 1 .. n : e[m] \in HashKeys,
         NEW u, u = BackOut(r, e, n)
  PROVE  /\ u \in WholeTables
         /\ \A k, v : Maps(u, k, v) <=> Maps(r, k, v) /\ \A m \in 1 .. n : e[m] # k
<1> DEFINE Good(w, j) ==
             \A k, v : Maps(w, k, v) <=> Maps(r, k, v) /\ \A m \in 1 .. j : e[m] # k
<1>1. PICK f \in [0 .. n -> WholeTables] :
           /\ f[0] = r
           /\ \A m \in 1 .. n : f[m] = rm(f[m - 1], e[m])
           /\ u = f[n]
  BY BackOutTrace
<1> DEFINE S == {m \in 0 .. n : Good(f[m], m)}
<1>2. 0 \in S
  BY <1>1
<1>3. ASSUME NEW j \in 1 .. n, j - 1 \in S PROVE j \in S
  <2>1. PICK a \in WholeTables : a = f[j - 1]
    BY <1>1
  <2>2. PICK b : b = f[j]
    OBVIOUS
  <2>3. Good(a, j - 1)
    BY <1>3, <2>1
  <2>4. b = rm(a, e[j]) /\ e[j] \in HashKeys
    BY <1>1, <2>1, <2>2
  <2>5. \A k, v : Maps(b, k, v) <=> Maps(a, k, v) /\ k # e[j]
    BY <2>1, <2>4, WholeTablesAre, RmRemoves
  <2>6. \A k : (\A m \in 1 .. j : e[m] # k) <=> (\A m \in 1 .. j - 1 : e[m] # k) /\ e[j] # k
    <3>1. \A m : m \in 1 .. j <=> m \in 1 .. j - 1 \/ m = j
      OBVIOUS
    <3> QED BY <3>1
  <2>7. Good(b, j)
    BY <2>3, <2>5, <2>6
  <2> QED BY <2>2, <2>7
<1>4. \A j \in 1 .. n : j - 1 \in S => j \in S
  BY <1>3
<1>5. \A j \in 0 .. n : j \in S
  <2> HIDE DEF S
  <2> QED BY <1>2, <1>4, UpTo
<1>6. n \in S
  <2> HIDE DEF S
  <2> QED BY <1>5
<1>7. Good(u, n)
  BY <1>1, <1>6
<1> QED BY <1>1, <1>7

\* The roll-back leaves the entries that are not of build b, and counts the
\* others, although it removes entries of the table it iterates over.
LEMMA RemoveRemoves ==
  ASSUME NEW t, Counted(t), NEW b, NEW u, u = remove_filedef(t, b)
  PROVE  /\ Counted(u) /\ u.size = t.size /\ u.count <= t.count
         /\ \A k, v : Maps(u, k, v) <=> Maps(t, k, v) /\ v # b
         /\ u.count = t.count => u = t
<1> DEFINE n == t.size
           Good(w, m) ==
             /\ Counted(w) /\ w.size = t.size /\ w.count <= t.count
             /\ Live(w) = {i \in Live(t) : i >= m \/ t.entries[i].val # b}
             /\ \A i \in Live(w) : /\ w.entries[i].key = t.entries[i].key
                                   /\ w.entries[i].val = t.entries[i].val
             /\ w.count = t.count => w = t
<1>1. /\ Typed(t) /\ n \in Nat \ {0} /\ Live(t) \subseteq Slots(t) /\ Slots(t) \subseteq Nat
      /\ t.count \in Int
  BY TypedFacts DEF Counted
<1>2. PICK f \in [0 .. n -> TableOf(n)] :
           /\ f[0] = t
           /\ \A m \in 1 .. n :
                f[m] = IF ~isempty(f[m - 1], m - 1) /\ f[m - 1].entries[m - 1].val = b
                       THEN removeiter(f[m - 1], m - 1) ELSE f[m - 1]
           /\ u = f[n]
  BY <1>1, RemoveTrace
<1> DEFINE S == {m \in 0 .. n : Good(f[m], m)}
<1>3. 0 \in S
  <2>1. Live(t) = {i \in Live(t) : i >= 0 \/ t.entries[i].val # b}
    BY <1>1
  <2>2. Good(t, 0)
    BY <1>1, <2>1
  <2> QED BY <1>1, <1>2, <2>2
<1>4. ASSUME NEW m \in 1 .. n, m - 1 \in S PROVE m \in S
  <2>1. PICK a : a = f[m - 1]
    OBVIOUS
  <2>2. PICK c : c = f[m]
    OBVIOUS
  <2>3. Good(a, m - 1)
    BY <1>4, <2>1
  <2>4. m \in Nat \ {0} /\ m - 1 \in Slots(a) /\ m - 1 \in Nat /\ a.count \in Int
    BY <1>1, <2>3, TypedFacts DEF Slots, Counted
  <2>5. m - 1 \in Live(a) <=> ~isempty(a, m - 1)
    BY <2>4 DEF Live
  <2>6. \A i \in Live(t) : i >= m - 1 <=> i >= m \/ i = m - 1
    BY <1>1, <2>4
  <2>7. CASE m - 1 \in Live(a) /\ a.entries[m - 1].val = b
    <3>1. c = removeiter(a, m - 1)
      BY <1>2, <2>1, <2>2, <2>5, <2>7
    <3>2. /\ Counted(c) /\ c.size = a.size /\ c.count = a.count - 1
          /\ Live(c) = Live(a) \ {m - 1}
          /\ \A j \in Live(c) : c.entries[j].key = a.entries[j].key
                                  /\ c.entries[j].val = a.entries[j].val
      BY <2>3, <2>7, <3>1, RemoveiterCounted
    <3>3. c.count < t.count /\ c.size = t.size
      BY <1>1, <2>3, <2>4, <3>2
    <3>4. Live(c) = {i \in Live(t) : i >= m \/ t.entries[i].val # b}
      <4>1. t.entries[m - 1].val = b
        BY <2>3, <2>7
      <4> QED BY <1>1, <2>3, <2>4, <2>6, <3>2, <4>1
    <3>5. \A i \in Live(c) : /\ c.entries[i].key = t.entries[i].key
                             /\ c.entries[i].val = t.entries[i].val
      BY <2>3, <3>2
    <3>6. c.count <= t.count /\ c.count # t.count
      BY <1>1, <2>4, <3>2, <3>3
    <3>7. Good(c, m)
      BY <3>2, <3>3, <3>4, <3>5, <3>6
    <3> QED BY <2>2, <3>7
  <2>8. CASE ~(m - 1 \in Live(a) /\ a.entries[m - 1].val = b)
    <3>1. c = a
      BY <1>2, <2>1, <2>2, <2>5, <2>8
    <3>2. Live(a) = {i \in Live(t) : i >= m \/ t.entries[i].val # b}
      BY <2>3, <2>6, <2>8
    <3>3. Good(c, m)
      BY <2>3, <3>1, <3>2
    <3> QED BY <2>2, <3>3
  <2> QED BY <2>7, <2>8
<1>5. \A m \in 1 .. n : m - 1 \in S => m \in S
  BY <1>4
<1>6. \A m \in 0 .. n : m \in S
  <2> HIDE DEF S
  <2> QED BY <1>1, <1>3, <1>5, UpTo
<1>7. n \in S
  <2> HIDE DEF S
  <2> QED BY <1>1, <1>6
<1>8. Good(u, n)
  BY <1>2, <1>7
<1>9. Live(u) = {i \in Live(t) : t.entries[i].val # b}
  <2>1. \A i \in Live(t) : ~(i >= n)
    BY <1>1 DEF Slots
  <2> QED BY <1>8, <2>1
<1>10. ASSUME NEW k, NEW v PROVE Maps(u, k, v) <=> Maps(t, k, v) /\ v # b
  BY <1>8, <1>9 DEF Maps
<1> QED BY <1>8, <1>10

-----------------------------------------------------------------------------
(* The inductive invariant.                                                *)

TodoHas(s) == \E n \in DOMAIN todo : todo[n] = s

Types ==
  /\ files \subseteq Files
  /\ \A x \in exts : x[1] \in 1 .. Build
  /\ owner \in Seq(Files)
  /\ loaded \subseteq 1 .. Build
  /\ phase \in {"idle", "syms", "exts", "commit"}
  /\ rolledback \in BOOLEAN /\ crashed \in BOOLEAN
  /\ todo \in Seq(HashKeys)
  /\ phase # "idle" => Build # 0 /\ Build \notin loaded

\* Symbols lead to kept builds and to the one under way; the count is exact.
SymsInv ==
  /\ Counted(syms) /\ Capped(syms)
  /\ \A k, v : Maps(syms, k, v) => v \in loaded \/ (phase # "idle" /\ v = Build)

\* The registry has the extensions of kept builds, and of the current one
\* between AddArray and the end of the call.
RegInv ==
  /\ Counted(extreg) /\ Capped(extreg) /\ Chained(extreg)
  /\ \A k, v : Maps(extreg, k, v) <=>
       (v \in loaded \/ (phase = "commit" /\ v = Build)) /\ k \in ExtsOf(v)

\* Until a roll-back removes entries, the chains of the symbols are whole and
\* the symbols that were inserted are there.
SoundInv ==
  ~rolledback =>
    /\ ~crashed
    /\ Chained(syms)
    /\ \A b \in loaded : \A s \in SymsOf(b) : Maps(syms, s, b)
    /\ phase = "syms" => \A s \in SymsOf(Build) : TodoHas(s) \/ Maps(syms, s, Build)
    /\ phase \in {"exts", "commit"} => \A s \in SymsOf(Build) : Maps(syms, s, Build)

IInv == Types /\ SymsInv /\ RegInv /\ SoundInv

\* The symbols and extensions of a file are keys.
LEMMA Constants ==
  ASSUME NEW f \in Files
  PROVE  Syms[f] \in Seq(HashKeys) /\ Exts[f] \in Seq(HashKeys)
BY DefPoolAssumption DEF HashKeys

\* What builds defined does not change.
LEMMA OwnerKept ==
  ASSUME owner' = owner
  PROVE  Build' = Build /\ \A b : SymsOf(b)' = SymsOf(b) /\ ExtsOf(b)' = ExtsOf(b)
BY DEF Build, SymsOf, ExtsOf

\* During a call there is a current build, which is not kept yet.
LEMMA CurrentFile ==
  ASSUME Types, phase # "idle"
  PROVE  /\ Build \in Nat \ {0} /\ File \in Files /\ Build \notin loaded
         /\ SymsOf(Build) = {Syms[File][n] : n \in DOMAIN Syms[File]}
         /\ ExtsOf(Build) = {Exts[File][n] : n \in DOMAIN Exts[File]}
<1>1. owner \in Seq(Files) /\ Len(owner) # 0 /\ Build \notin loaded
  BY DEF Types, Build
<1>2. Len(owner) \in Nat \ {0} /\ owner[Len(owner)] \in Files
  BY <1>1
<1> QED BY <1>1, <1>2 DEF Build, File, SymsOf, ExtsOf

\* A new pool satisfies the invariant.
LEMMA InvInit == Init => IInv
<1> SUFFICES ASSUME Init PROVE IInv
  OBVIOUS
<1>1. /\ Counted(syms) /\ Chained(syms) /\ Live(syms) = {} /\ syms.count = 0 /\ syms.size = InitSize
      /\ Counted(extreg) /\ Chained(extreg) /\ Live(extreg) = {} /\ extreg.count = 0
      /\ extreg.size = InitSize
  BY InitEmpty, DefPoolAssumption DEF Init
<1>2. Capped(syms) /\ Capped(extreg)
  BY <1>1, DefPoolAssumption DEF Capped
<1>3. Types
  <2>1. rolledback \in BOOLEAN /\ crashed \in BOOLEAN
    BY Zenon DEF Init
  <2>2. owner = <<>> /\ todo = <<>> /\ files = {} /\ exts = {} /\ loaded = {} /\ phase = "idle"
    BY DEF Init
  <2>3. owner \in Seq(Files) /\ todo \in Seq(HashKeys)
    BY <2>2
  <2> QED BY <2>1, <2>2, <2>3 DEF Types
<1>4. SymsInv
  BY <1>1, <1>2 DEF SymsInv, Maps
<1>5. RegInv
  BY <1>1, <1>2 DEF RegInv, Maps, Init
<1>6. SoundInv
  BY <1>1 DEF SoundInv, Init
<1> QED BY <1>3, <1>4, <1>5, <1>6 DEF IInv

\* The roll-back.
LEMMA FailJmpKeeps ==
  ASSUME IInv, phase # "idle", NEW t, Counted(t), Capped(t),
         \A k, v : Maps(t, k, v) <=> Maps(syms, k, v), Chained(syms) => Chained(t),
         FailJmp(t)
  PROVE  Types' /\ SymsInv' /\ SoundInv'
<1>1. owner' = owner /\ loaded' = loaded /\ files' = files /\ exts' = exts /\ crashed' = crashed
      /\ phase' = "idle" /\ todo' = <<>>
      /\ rolledback' = (rolledback \/ syms'.count # t.count)
      /\ syms' = remove_filedef(t, Build)
  BY DEF FailJmp
<1>2. Build' = Build /\ \A b : SymsOf(b)' = SymsOf(b)
  BY <1>1, OwnerKept
<1>3. /\ Counted(syms') /\ syms'.size = t.size /\ syms'.count <= t.count
      /\ \A k, v : Maps(syms', k, v) <=> Maps(t, k, v) /\ v # Build
      /\ syms'.count = t.count => syms' = t
  BY <1>1, RemoveRemoves
<1>4. Types'
  BY <1>1, <1>2 DEF IInv, Types
<1>5. SymsInv'
  <2>1. t.size \in Nat /\ t.count \in Int /\ syms'.count \in Int
    BY <1>3, TypedFacts DEF Counted
  <2>2. Capped(syms)'
    BY <1>3, <2>1 DEF Capped
  <2>3. \A k, v : Maps(syms', k, v) => v \in loaded
    BY <1>3 DEF IInv, SymsInv
  <2> QED BY <1>1, <1>3, <2>2, <2>3 DEF SymsInv
<1>6. SoundInv'
  <2> SUFFICES ASSUME ~rolledback'
               PROVE  /\ ~crashed'
                      /\ Chained(syms')
                      /\ \A b \in loaded' : \A s \in SymsOf(b)' : Maps(syms', s, b)
    BY <1>1 DEF SoundInv
  <2>1. ~rolledback /\ syms' = t
    BY <1>1, <1>3
  <2>2. /\ ~crashed /\ Chained(syms)
        /\ \A b \in loaded : \A s \in SymsOf(b) : Maps(syms, s, b)
    BY <2>1 DEF IInv, SoundInv
  <2> QED BY <1>1, <1>2, <2>1, <2>2
<1> QED BY <1>4, <1>5, <1>6

\* A failed step that leaves the registry alone.
LEMMA FailKeeps ==
  ASSUME IInv, phase # "idle", phase # "commit", NEW t \in {syms, Grown(syms)}, FailJmp(t),
         UNCHANGED extreg
  PROVE  IInv'
<1>1. Counted(syms) /\ Capped(syms)
  BY DEF IInv, SymsInv
<1>2. /\ Counted(t) /\ Capped(t)
      /\ \A k, v : Maps(t, k, v) <=> Maps(syms, k, v)
      /\ Chained(syms) => Chained(t)
  BY <1>1, GrownKeeps
<1>3. Types' /\ SymsInv' /\ SoundInv'
  BY <1>2, FailJmpKeeps
<1>4. owner' = owner /\ loaded' = loaded /\ phase' = "idle"
  BY DEF FailJmp
<1>5. \A b : ExtsOf(b)' = ExtsOf(b)
  BY <1>4, OwnerKept
<1>6. RegInv'
  BY <1>4, <1>5 DEF IInv, RegInv
<1> QED BY <1>3, <1>6 DEF IInv

\* A call begins.
LEMMA AddFileKeeps ==
  ASSUME IInv, NEW f \in Files, AddFile(f)
  PROVE  IInv'
<1>1. /\ phase = "idle" /\ owner' = Append(owner, f) /\ phase' = "syms" /\ todo' = Syms[f]
      /\ syms' = syms /\ files' = files /\ exts' = exts /\ extreg' = extreg
      /\ loaded' = loaded /\ rolledback' = rolledback /\ crashed' = crashed
  BY DEF AddFile, Idle, pool
<1>2. owner \in Seq(Files) /\ loaded \subseteq 1 .. Len(owner)
  BY DEF IInv, Types, Build
<1>3. /\ owner' \in Seq(Files) /\ Len(owner') = Len(owner) + 1 /\ Len(owner) \in Nat
      /\ owner'[Len(owner) + 1] = f /\ \A b \in 1 .. Len(owner) : owner'[b] = owner[b]
  BY <1>1, <1>2
<1>4. /\ \A b \in loaded : SymsOf(b)' = SymsOf(b) /\ ExtsOf(b)' = ExtsOf(b)
      /\ Build' = Build + 1 /\ Build \in Nat /\ Build = Len(owner)
      /\ SymsOf(Build)' = {Syms[f][n] : n \in DOMAIN Syms[f]}
  BY <1>2, <1>3 DEF SymsOf, ExtsOf, Build
<1>5. Types'
  <2>1. todo' \in Seq(HashKeys)
    BY <1>1, Constants
  <2>2. \A b \in 1 .. Build : b \in 1 .. Build'
    BY <1>4
  <2>3. Build' # 0 /\ Build' \notin loaded'
    BY <1>1, <1>2, <1>4
  <2>4. owner' \in Seq(Files)
    BY <1>3
  <2>5. rolledback' \in BOOLEAN /\ crashed' \in BOOLEAN
    BY <1>1 DEF IInv, Types
  <2> QED BY <1>1, <2>1, <2>2, <2>3, <2>4, <2>5 DEF IInv, Types
<1>6. SymsInv'
  BY <1>1 DEF IInv, SymsInv
<1>7. RegInv'
  BY <1>1, <1>4 DEF IInv, RegInv
<1>8. SoundInv'
  <2>1. \A s \in SymsOf(Build)' : TodoHas(s)'
    BY <1>1, <1>4 DEF TodoHas
  <2>2. \A b \in loaded' : SymsOf(b)' = SymsOf(b)
    BY <1>1, <1>4
  <2> QED BY <1>1, <2>1, <2>2 DEF IInv, SoundInv
<1> QED BY <1>5, <1>6, <1>7, <1>8 DEF IInv

\* What is still to add, after the first of it.
LEMMA TodoStep ==
  ASSUME todo \in Seq(HashKeys), todo # <<>>
  PROVE  /\ Head(todo) \in HashKeys /\ Tail(todo) \in Seq(HashKeys)
         /\ \A s : TodoHas(s) => s = Head(todo) \/ \E n \in DOMAIN Tail(todo) : Tail(todo)[n] = s
<1>1. Len(todo) \in Nat \ {0} /\ Head(todo) = todo[1] /\ Len(Tail(todo)) = Len(todo) - 1
  OBVIOUS
<1>2. \A n \in 2 .. Len(todo) : n - 1 \in 1 .. Len(Tail(todo)) /\ Tail(todo)[n - 1] = todo[n]
  BY <1>1
<1>3. DOMAIN todo = 1 .. Len(todo) /\ DOMAIN Tail(todo) = 1 .. Len(Tail(todo))
  OBVIOUS
<1>4. \A n \in 1 .. Len(todo) : n = 1 \/ n \in 2 .. Len(todo)
  BY <1>1
<1>5. \A s : TodoHas(s) => s = Head(todo) \/ \E n \in DOMAIN Tail(todo) : Tail(todo)[n] = s
  BY <1>1, <1>2, <1>3, <1>4 DEF TodoHas
<1> QED BY <1>1, <1>5

\* A symbol is inserted, found to be there, or fails; until a roll-back
\* removes an entry, the assertions of insert hold.
LEMMA InsertSymKeeps ==
  ASSUME IInv, InsertSym
  PROVE  IInv'
<1>1. /\ phase = "syms" /\ todo # <<>>
  BY DEF InsertSym
<1>2. PICK sym : sym = Head(todo)
  OBVIOUS
<1>3. /\ sym \in HashKeys /\ Tail(todo) \in Seq(HashKeys)
      /\ \A s : TodoHas(s) => s = sym \/ \E n \in DOMAIN Tail(todo) : Tail(todo)[n] = s
  BY <1>1, <1>2, TodoStep DEF IInv, Types
<1>4. Build \in Nat \ {0}
  BY <1>1, CurrentFile DEF IInv
<1>5. CASE \E t \in {syms, Grown(syms)} : FailJmp(t) /\ UNCHANGED extreg
  BY <1>1, <1>5, FailKeeps
<1>6. CASE /\ findentry(syms, sym) = NULL
           /\ InsertDefined(Grown(syms), sym)
           /\ syms' = insert(Grown(syms), sym, Build)
           /\ todo' = Tail(todo)
           /\ UNCHANGED <<phase, crashed, files, exts, extreg, owner, loaded, rolledback>>
  <2>1. /\ Counted(syms') /\ Capped(syms')
        /\ \A k, v : Maps(syms', k, v) <=> Maps(syms, k, v) \/ (k = sym /\ v = Build)
        /\ Chained(syms) /\ (\A v : ~Maps(syms, sym, v)) => Chained(syms')
    BY <1>3, <1>4, <1>6, GrowInsert DEF IInv, SymsInv
  <2>2. Build' = Build /\ \A b : SymsOf(b)' = SymsOf(b) /\ ExtsOf(b)' = ExtsOf(b)
    BY <1>6, OwnerKept
  <2>3. Types'
    BY <1>3, <1>6, <2>2 DEF IInv, Types
  <2>4. SymsInv'
    BY <1>1, <1>6, <2>1, <2>2 DEF IInv, SymsInv
  <2>5. RegInv'
    BY <1>6, <2>2 DEF IInv, RegInv
  <2>6. SoundInv'
    <3> SUFFICES ASSUME ~rolledback'
                 PROVE  /\ ~crashed' /\ Chained(syms')
                        /\ \A b \in loaded' : \A s \in SymsOf(b)' : Maps(syms', s, b)
                        /\ \A s \in SymsOf(Build)' : TodoHas(s)' \/ Maps(syms', s, Build')
      BY <1>1, <1>6 DEF SoundInv
    <3>1. /\ ~crashed /\ Chained(syms)
          /\ \A b \in loaded : \A s \in SymsOf(b) : Maps(syms, s, b)
          /\ \A s \in SymsOf(Build) : TodoHas(s) \/ Maps(syms, s, Build)
      BY <1>1, <1>6 DEF IInv, SoundInv
    <3>2. \A v : ~Maps(syms, sym, v)
      BY <1>3, <1>6, <3>1, FindMaps DEF IInv, SymsInv
    <3>3. \A s : TodoHas(s) => s = sym \/ TodoHas(s)'
      BY <1>3, <1>6 DEF TodoHas
    <3> QED BY <1>6, <2>1, <2>2, <3>1, <3>2, <3>3
  <2> QED BY <2>3, <2>4, <2>5, <2>6 DEF IInv
<1>7. CASE /\ findentry(syms, sym) = NULL
           /\ ~InsertDefined(Grown(syms), sym)
           /\ crashed' = TRUE
           /\ UNCHANGED <<syms, todo, phase, files, exts, extreg, owner, loaded, rolledback>>
  <2>1. rolledback
    <3> SUFFICES ASSUME ~rolledback PROVE FALSE
      OBVIOUS
    <3>1. Chained(syms)
      BY DEF IInv, SoundInv
    <3>2. \A v : ~Maps(syms, sym, v)
      BY <1>3, <1>7, <3>1, FindMaps DEF IInv, SymsInv
    <3>3. InsertDefined(Grown(syms), sym)
      BY <1>3, <1>4, <3>1, <3>2, GrowInsert DEF IInv, SymsInv
    <3> QED BY <1>7, <3>3
  <2>2. Build' = Build /\ \A b : SymsOf(b)' = SymsOf(b) /\ ExtsOf(b)' = ExtsOf(b)
    BY <1>7, OwnerKept
  <2>3. Types'
    <3>1. crashed' \in BOOLEAN
      BY <1>7
    <3> QED BY <1>7, <2>2, <3>1 DEF IInv, Types
  <2>4. SymsInv' /\ RegInv'
    BY <1>7, <2>2 DEF IInv, SymsInv, RegInv
  <2>5. SoundInv'
    BY <1>7, <2>1 DEF SoundInv
  <2> QED BY <2>3, <2>4, <2>5 DEF IInv
<1> QED BY <1>2, <1>5, <1>6, <1>7 DEF InsertSym

\* A file depends on one that is not loaded.
LEMMA MissingDependencyKeeps ==
  ASSUME IInv, MissingDependency
  PROVE  IInv'
<1>1. phase = "syms" /\ FailJmp(syms) /\ UNCHANGED extreg
  BY DEF MissingDependency
<1> QED BY <1>1, FailKeeps

\* All symbols are inserted.
LEMMA ResolveKeeps ==
  ASSUME IInv, Resolve
  PROVE  IInv'
<1>1. phase = "syms" /\ todo = <<>>
  BY DEF Resolve
<1>2. CASE FailJmp(syms) /\ UNCHANGED extreg
  BY <1>1, <1>2, FailKeeps
<1>3. CASE /\ phase' = "exts" /\ todo' = Exts[File]
           /\ UNCHANGED <<pool, owner, loaded, rolledback, crashed>>
  <2>1. /\ owner' = owner /\ syms' = syms /\ files' = files /\ exts' = exts /\ extreg' = extreg
        /\ loaded' = loaded /\ rolledback' = rolledback /\ crashed' = crashed
    BY <1>3 DEF pool
  <2>2. Build' = Build /\ \A b : SymsOf(b)' = SymsOf(b) /\ ExtsOf(b)' = ExtsOf(b)
    BY <2>1, OwnerKept
  <2>3. SymsOf(Build)' = SymsOf(Build)
    BY <2>1 DEF SymsOf, Build
  <2>4. todo' \in Seq(HashKeys)
    BY <1>1, <1>3, CurrentFile, Constants DEF IInv
  <2>5. Types'
    BY <1>1, <1>3, <2>1, <2>2, <2>4 DEF IInv, Types
  <2>6. SymsInv' /\ RegInv'
    BY <1>1, <1>3, <2>1, <2>2 DEF IInv, SymsInv, RegInv
  <2>7. \A s : ~TodoHas(s)
    BY <1>1 DEF TodoHas
  <2>8. SoundInv'
    BY <1>1, <1>3, <2>1, <2>2, <2>3, <2>7 DEF IInv, SoundInv
  <2> QED BY <2>5, <2>6, <2>8 DEF IInv
<1> QED BY <1>2, <1>3 DEF Resolve

\* An extension is entered in exts.
LEMMA InsertExtKeeps ==
  ASSUME IInv, InsertExt
  PROVE  IInv'
<1>1. phase = "exts" /\ todo # <<>>
  BY DEF InsertExt
<1>2. CASE FailJmp(syms) /\ UNCHANGED extreg
  BY <1>1, <1>2, FailKeeps
<1>3. CASE /\ exts' = exts \cup {<<Build, Head(todo)>>}
           /\ todo' = Tail(todo)
           /\ UNCHANGED <<syms, files, extreg, owner, loaded, phase, rolledback, crashed>>
  <2>1. Build' = Build /\ \A b : SymsOf(b)' = SymsOf(b) /\ ExtsOf(b)' = ExtsOf(b)
    BY <1>3, OwnerKept
  <2>2. SymsOf(Build)' = SymsOf(Build)
    BY <1>3 DEF SymsOf, Build
  <2>3. Types'
    <3>1. todo' \in Seq(HashKeys)
      BY <1>1, <1>3, TodoStep DEF IInv, Types
    <3>2. Build \in Nat \ {0}
      BY <1>1, CurrentFile DEF IInv
    <3>3. \A x \in exts' : x[1] \in 1 .. Build
      BY <1>3, <3>2 DEF IInv, Types
    <3> QED BY <1>3, <2>1, <3>1, <3>3 DEF IInv, Types
  <2>4. SymsInv' /\ RegInv'
    BY <1>1, <1>3, <2>1 DEF IInv, SymsInv, RegInv
  <2>5. SoundInv'
    BY <1>1, <1>3, <2>1, <2>2 DEF IInv, SoundInv
  <2> QED BY <2>3, <2>4, <2>5 DEF IInv
<1> QED BY <1>2, <1>3 DEF InsertExt

\* The file is kept.
LEMMA CommitKeeps ==
  ASSUME IInv, Commit
  PROVE  IInv'
<1>1. /\ phase = "commit" /\ phase' = "idle" /\ loaded' = loaded \cup {Build}
      /\ files' = files \cup {File} \/ files' = files
      /\ syms' = syms /\ exts' = exts /\ extreg' = extreg /\ owner' = owner
      /\ todo' = todo /\ rolledback' = rolledback /\ crashed' = crashed
  BY DEF Commit
<1>2. Build' = Build /\ \A b : SymsOf(b)' = SymsOf(b) /\ ExtsOf(b)' = ExtsOf(b)
  BY <1>1, OwnerKept
<1>3. Build \in Nat \ {0} /\ File \in Files
  BY <1>1, CurrentFile DEF IInv
<1>4. Types'
  <2>1. files' \subseteq Files
    BY <1>1, <1>3 DEF IInv, Types
  <2>2. loaded' \subseteq 1 .. Build
    BY <1>1, <1>3 DEF IInv, Types
  <2> QED BY <1>1, <1>2, <2>1, <2>2 DEF IInv, Types
<1>5. SymsInv'
  BY <1>1, <1>2 DEF IInv, SymsInv
<1>6. RegInv'
  BY <1>1, <1>2 DEF IInv, RegInv
<1>7. SoundInv'
  BY <1>1, <1>2 DEF IInv, SoundInv
<1> QED BY <1>4, <1>5, <1>6, <1>7 DEF IInv

\* Extensions that AddArray finds new are not in the registry.
LEMMA NewExts ==
  ASSUME IInv, phase = "exts", NEW e, e = Exts[File], NEW n \in 0 .. Len(e),
         \A m \in 1 .. n : findentry(extreg, e[m]) = NULL /\ \A l \in 1 .. m - 1 : e[l] # e[m],
         NEW r, r = Added(extreg, e, n)
  PROVE  /\ n \in Nat /\ \A m \in 1 .. n : e[m] \in HashKeys
         /\ AreNew(extreg, e, n)
         /\ Chained(r) /\ HasAdded(r, extreg, e, n)
<1>1. e \in Seq(HashKeys) /\ Build \in Nat
  BY CurrentFile, Constants DEF IInv
<1>2. n \in Nat /\ \A m \in 1 .. n : e[m] \in HashKeys
  BY <1>1
<1>3. Counted(extreg) /\ Capped(extreg) /\ Chained(extreg) /\ extreg \in Tables
  BY TablesAre DEF IInv, RegInv
<1>4. \A m \in 1 .. n : \A v : ~Maps(extreg, e[m], v)
  BY <1>2, <1>3, FindMaps
<1>5. AreNew(extreg, e, n)
  BY <1>4 DEF AreNew
<1>6. HasAdded(r, extreg, e, n) /\ (Chained(extreg) /\ AreNew(extreg, e, n) => Chained(r))
  BY <1>1, <1>2, <1>3, AddedAdds
<1> QED BY <1>2, <1>3, <1>5, <1>6

\* The registry takes all extensions, or backs out of those it took.
LEMMA AddArrayKeeps ==
  ASSUME IInv, AddArray
  PROVE  IInv'
<1>1. phase = "exts" /\ todo = <<>>
  BY DEF AddArray
<1> DEFINE e == Exts[File]
           new(n) == findentry(extreg, e[n]) = NULL /\ \A m \in 1 .. n - 1 : e[m] # e[n]
<1>2. e \in Seq(HashKeys) /\ Build \in Nat /\ ExtsOf(Build) = {e[n] : n \in DOMAIN e}
      /\ Build \notin loaded
  BY <1>1, CurrentFile, Constants DEF IInv
<1>3. DOMAIN e = 1 .. Len(e) /\ Len(e) \in Nat
  BY <1>2
<1>4. CASE /\ \A n \in DOMAIN e : new(n)
           /\ extreg' = Added(extreg, e, Len(e))
           /\ phase' = "commit"
           /\ UNCHANGED <<syms, files, exts, owner, loaded, todo, rolledback, crashed>>
  <2>1. Build' = Build /\ \A b : SymsOf(b)' = SymsOf(b) /\ ExtsOf(b)' = ExtsOf(b)
    BY <1>4, OwnerKept
  <2>2. SymsOf(Build)' = SymsOf(Build)
    BY <1>4 DEF SymsOf, Build
  <2>3. /\ Counted(extreg') /\ Capped(extreg') /\ Chained(extreg')
        /\ \A k, v : Maps(extreg', k, v) <=>
             Maps(extreg, k, v) \/ (v = Build /\ \E m \in 1 .. Len(e) : e[m] = k)
    <3>1. PICK x : x = e
      OBVIOUS
    <3>2. Len(x) \in 0 .. Len(x)
      BY <1>3, <3>1
    <3>3. \A m \in 1 .. Len(x) : findentry(extreg, x[m]) = NULL /\ \A l \in 1 .. m - 1 : x[l] # x[m]
      BY <1>3, <1>4, <3>1
    <3>4. extreg' = Added(extreg, x, Len(x)) /\ x = Exts[File]
      BY <1>4, <3>1
    <3>5. /\ Counted(extreg') /\ Capped(extreg') /\ Chained(extreg')
          /\ \A k, v : Maps(extreg', k, v) <=>
               Maps(extreg, k, v) \/ (v = Build /\ \E m \in 1 .. Len(x) : x[m] = k)
      <4>1. Chained(extreg') /\ HasAdded(extreg', extreg, x, Len(x))
        <5> HIDE DEF e
        <5> QED BY <1>1, <3>2, <3>3, <3>4, NewExts
      <4> QED BY <4>1 DEF HasAdded
    <3> QED BY <3>1, <3>5
  <2>4. Types'
    BY <1>1, <1>4, <2>1 DEF IInv, Types
  <2>5. SymsInv'
    BY <1>1, <1>4, <2>1 DEF IInv, SymsInv
  <2>6. RegInv'
    <3>1. \A k, v : Maps(extreg, k, v) <=> v \in loaded /\ k \in ExtsOf(v)
      BY <1>1 DEF IInv, RegInv
    <3>2. \A k : k \in ExtsOf(Build) <=> \E m \in 1 .. Len(e) : e[m] = k
      <4> HIDE DEF e
      <4> QED BY <1>2, <1>3
    <3>3. \A k, v : Maps(extreg', k, v) <=>
            (v \in loaded' \/ (phase' = "commit" /\ v = Build')) /\ k \in ExtsOf(v)'
      <4> HIDE DEF e
      <4> QED BY <1>4, <2>1, <2>3, <3>1, <3>2
    <3> QED BY <2>3, <3>3 DEF RegInv
  <2>7. SoundInv'
    BY <1>1, <1>4, <2>1, <2>2 DEF IInv, SoundInv
  <2> QED BY <2>4, <2>5, <2>6, <2>7 DEF IInv
<1>5. ASSUME NEW n \in DOMAIN e, \A m \in 1 .. n - 1 : new(m), FailJmp(syms),
             NEW r, r = Added(extreg, e, n - 1) \/ r = Grown(Added(extreg, e, n - 1)),
             extreg' = BackOut(r, e, n - 1)
      PROVE  IInv'
  <2>1. Types' /\ SymsInv' /\ SoundInv'
    BY <1>1, <1>5, FailJmpKeeps DEF IInv, SymsInv
  <2>2. owner' = owner /\ loaded' = loaded /\ phase' = "idle"
    BY <1>5 DEF FailJmp
  <2>3. \A b : ExtsOf(b)' = ExtsOf(b)
    BY <2>2, OwnerKept
  <2>4. PICK x : x = e
    OBVIOUS
  <2>5. PICK j : j = n - 1
    OBVIOUS
  <2>6. j \in 0 .. Len(x)
    BY <1>3, <1>5, <2>4, <2>5
  <2>7. /\ \A m \in 1 .. j : findentry(extreg, x[m]) = NULL /\ \A l \in 1 .. m - 1 : x[l] # x[m]
        /\ x = Exts[File]
    BY <1>5, <2>4, <2>5
  <2>8. PICK a : a = Added(extreg, x, j)
    OBVIOUS
  <2>9. (r = a \/ r = Grown(a)) /\ extreg' = BackOut(r, x, j)
    BY <1>5, <2>4, <2>5, <2>8
  <2> HIDE DEF e
  <2>10. /\ j \in Nat /\ \A m \in 1 .. j : x[m] \in HashKeys
         /\ AreNew(extreg, x, j)
         /\ Chained(a) /\ HasAdded(a, extreg, x, j)
    BY <1>1, <2>6, <2>7, <2>8, NewExts
  <2>11. /\ Counted(r) /\ Capped(r) /\ Chained(r)
         /\ \A k, v : Maps(r, k, v) <=> Maps(a, k, v)
    BY <2>9, <2>10, GrownKeeps DEF HasAdded
  <2>12. /\ extreg' \in WholeTables
         /\ \A k, v : Maps(extreg', k, v) <=> Maps(r, k, v) /\ \A m \in 1 .. j : x[m] # k
    <3>1. r \in WholeTables
      BY <2>11, WholeTablesAre
    <3> QED BY <2>9, <2>10, <3>1, BackOutRemoves
  <2>13. \A k, v : Maps(extreg', k, v) <=> Maps(extreg, k, v)
    BY <2>10, <2>11, <2>12 DEF AreNew, HasAdded
  <2>14. Counted(extreg') /\ Capped(extreg') /\ Chained(extreg')
    BY <2>12, WholeTablesAre
  <2>15. RegInv'
    BY <1>1, <2>2, <2>3, <2>13, <2>14 DEF IInv, RegInv
  <2> QED BY <2>1, <2>15 DEF IInv
<1> QED BY <1>4, <1>5 DEF AddArray

\* Every step preserves the invariant.
LEMMA InvNext == IInv /\ [Next]_vars => IInv'
<1> SUFFICES ASSUME IInv, [Next]_vars PROVE IInv'
  OBVIOUS
<1>1. CASE \E f \in Files : AddFile(f)
  BY <1>1, AddFileKeeps
<1>2. CASE MissingDependency
  BY <1>2, MissingDependencyKeeps
<1>3. CASE InsertSym
  BY <1>3, InsertSymKeeps
<1>4. CASE Resolve
  BY <1>4, ResolveKeeps
<1>5. CASE InsertExt
  BY <1>5, InsertExtKeeps
<1>6. CASE AddArray
  BY <1>6, AddArrayKeeps
<1>7. CASE Commit
  BY <1>7, CommitKeeps
<1>8. CASE UNCHANGED vars
  <2>1. /\ syms' = syms /\ files' = files /\ exts' = exts /\ extreg' = extreg /\ owner' = owner
        /\ loaded' = loaded /\ phase' = phase /\ todo' = todo
        /\ rolledback' = rolledback /\ crashed' = crashed
    BY <1>8 DEF vars
  <2>2. Build' = Build /\ \A b : SymsOf(b)' = SymsOf(b) /\ ExtsOf(b)' = ExtsOf(b)
    BY <2>1, OwnerKept
  <2>3. SymsOf(Build)' = SymsOf(Build)
    BY <2>1 DEF SymsOf, Build
  <2>4. Types' /\ SymsInv' /\ RegInv'
    BY <2>1, <2>2 DEF IInv, Types, SymsInv, RegInv
  <2>5. SoundInv'
    BY <2>1, <2>2, <2>3 DEF IInv, SoundInv, TodoHas
  <2> QED BY <2>4, <2>5 DEF IInv
<1> QED BY <1>1, <1>2, <1>3, <1>4, <1>5, <1>6, <1>7, <1>8 DEF Next

\* The inductive invariant holds of every pool, whatever its files define
\* and however the hashes of the names collide.
THEOREM Invariant == Spec => []IInv
BY InvInit, InvNext, PTL DEF Spec

-----------------------------------------------------------------------------
(* What it implies.                                                        *)

\* The parts of the invariant that give each property.
LEMMA CountExactHolds == IInv => CountExact
<1> SUFFICES ASSUME IInv PROVE CountExact
  OBVIOUS
<1>1. /\ loaded \subseteq 1 .. Build
      /\ phase # "idle" => Build \in 1 .. Build
      /\ phase = "commit" => Build \in 1 .. Build
  <2>1. loaded \subseteq 1 .. Build /\ Types
    BY DEF IInv, Types
  <2>2. phase # "idle" => Build \in 1 .. Build
    BY <2>1, CurrentFile
  <2> QED BY <2>1, <2>2
<1>2. ASSUME NEW t, Counted(t), \A k, v : Maps(t, k, v) => v \in 1 .. Build
      PROVE  /\ t.entries \in [Slots(t) -> [key : Nat, val : Nat, next : Slots(t) \cup {NULL}]]
             /\ \A i \in Slots(t) : isempty(t, i) \/ t.entries[i].val \in 1 .. Build
  <2>1. Typed(t)
    BY <1>2 DEF Counted
  <2>2. HashKeys \cup {0} \subseteq Nat
    BY <2>1, TypedFacts
  <2>3. t.entries \in [Slots(t) -> [key : Nat, val : Nat, next : Slots(t) \cup {NULL}]]
    <3>1. t.entries \in [Slots(t) -> [key : HashKeys \cup {0}, val : Nat,
                                      next : Slots(t) \cup {NULL}]]
      BY <2>1, TypedFacts
    <3> QED BY <2>2, <3>1
  <2>4. \A i \in Slots(t) : isempty(t, i) \/ t.entries[i].val \in 1 .. Build
    BY <1>2 DEF Maps, Live
  <2> QED BY <2>3, <2>4
<1>3. \A k, v : Maps(syms, k, v) => v \in 1 .. Build
  <2> SUFFICES ASSUME NEW k, NEW v, Maps(syms, k, v) PROVE v \in 1 .. Build
    OBVIOUS
  <2>1. v \in loaded \/ (phase # "idle" /\ v = Build)
    BY DEF IInv, SymsInv
  <2> QED BY <1>1, <2>1
<1>4. \A k, v : Maps(extreg, k, v) => v \in 1 .. Build
  <2> SUFFICES ASSUME NEW k, NEW v, Maps(extreg, k, v) PROVE v \in 1 .. Build
    OBVIOUS
  <2>1. v \in loaded \/ (phase = "commit" /\ v = Build)
    BY DEF IInv, RegInv
  <2> QED BY <1>1, <2>1
<1>5. Counted(syms) /\ Capped(syms) /\ Counted(extreg)
  BY DEF IInv, SymsInv, RegInv
<1>6. \A t \in {syms, extreg} :
        /\ t.entries \in [Slots(t) -> [key : Nat, val : Nat, next : Slots(t) \cup {NULL}]]
        /\ \A i \in Slots(t) : isempty(t, i) \/ t.entries[i].val \in 1 .. Build
  BY <1>2, <1>3, <1>4, <1>5
<1>7. {rolledback, crashed} \subseteq BOOLEAN
  BY DEF IInv, Types
<1>8. TypeOK
  BY <1>6, <1>7 DEF TypeOK, IInv, Types
<1> QED BY <1>5, <1>8 DEF CountExact, Counted, Capped, Live

\* Between calls the current build has no entry.
LEMMA NoFreedSymbolsHolds == IInv => NoFreedSymbols
<1> SUFFICES ASSUME IInv, phase = "idle", NEW i \in Slots(syms), ~isempty(syms, i)
             PROVE  syms.entries[i].val \in loaded
  BY DEF NoFreedSymbols, Idle
<1>1. Maps(syms, syms.entries[i].key, syms.entries[i].val)
  BY DEF Maps, Live
<1> QED BY <1>1 DEF IInv, SymsInv

\* What builds define are keys.
LEMMA ExtsKeys ==
  ASSUME Types, NEW b \in 1 .. Build
  PROVE  ExtsOf(b) \subseteq HashKeys /\ SymsOf(b) \subseteq HashKeys
<1>1. owner[b] \in Files
  BY DEF Types, Build
<1>2. Syms[owner[b]] \in Seq(HashKeys) /\ Exts[owner[b]] \in Seq(HashKeys)
  BY <1>1, Constants
<1> QED BY <1>2 DEF ExtsOf, SymsOf

\* In whole chains findentry finds what the registry maps.
LEMMA RegistryExactHolds == IInv => RegistryExact
<1> SUFFICES ASSUME IInv PROVE RegistryExact
  OBVIOUS
<1>1. Counted(extreg) /\ Capped(extreg) /\ Chained(extreg)
  BY DEF IInv, RegInv
<1>2. WellFormed(extreg)
  BY <1>1, ChainedWellFormed
<1>3. ASSUME Idle, NEW b \in 1 .. Build, NEW e \in ExtsOf(b), NEW i, i = findentry(extreg, e)
      PROVE  IF b \in loaded THEN i # NULL /\ extreg.entries[i].val = b
             ELSE i # NULL => extreg.entries[i].val \in loaded
  <2>1. e \in HashKeys
    BY ExtsKeys DEF IInv
  <2>2. \A v : Maps(extreg, e, v) <=> i # NULL /\ extreg.entries[i].val = v
    BY <1>1, <1>3, <2>1, FindMaps
  <2>3. \A v : Maps(extreg, e, v) <=> v \in loaded /\ e \in ExtsOf(v)
    BY <1>3 DEF IInv, RegInv, Idle
  <2> QED BY <2>2, <2>3
<1> QED BY <1>2, <1>3 DEF RegistryExact

\* In whole chains findentry finds what the symbols map.
LEMMA SoundHolds == IInv => SoundUntilRollback
<1> SUFFICES ASSUME IInv, ~rolledback
             PROVE  /\ ~crashed /\ WellFormed(syms)
                    /\ \A b \in loaded : \A s \in SymsOf(b) :
                         findentry(syms, s) # NULL /\ syms.entries[findentry(syms, s)].val = b
  BY DEF SoundUntilRollback
<1>1. /\ Counted(syms) /\ Capped(syms) /\ Chained(syms) /\ ~crashed
      /\ \A b \in loaded : \A s \in SymsOf(b) : Maps(syms, s, b)
  BY DEF IInv, SymsInv, SoundInv
<1>2. WellFormed(syms)
  BY <1>1, ChainedWellFormed
<1>3. ASSUME NEW b \in loaded, NEW s \in SymsOf(b)
      PROVE  findentry(syms, s) # NULL /\ syms.entries[findentry(syms, s)].val = b
  <2>1. s \in HashKeys
    BY ExtsKeys DEF IInv, Types
  <2>2. Maps(syms, s, b)
    BY <1>1
  <2>3. PICK i : i = findentry(syms, s)
    OBVIOUS
  <2>4. \A v : Maps(syms, s, v) <=> i # NULL /\ syms.entries[i].val = v
    BY <1>1, <2>1, <2>3, FindMaps
  <2> QED BY <2>2, <2>3, <2>4
<1> QED BY <1>1, <1>2, <1>3

\* After every call, failed or not, no symbol of the pool leads to a
\* definition that was freed with its builder: remove_filedef takes all the
\* entries of the failed file, although it unlinks them from the table it
\* iterates over and leaves broken chains behind.
THEOREM FreedSymbolsAreGone == Spec => []NoFreedSymbols
BY Invariant, NoFreedSymbolsHolds, PTL

\* The count of the symbol table is the number of its entries after every
\* insertion, growth and roll-back, and isfull leaves room for one more, even
\* when the chains are broken.
THEOREM CountsAreExact == Spec => []CountExact
BY Invariant, CountExactHolds, PTL

\* The extension registry has exactly the extensions of the kept files after
\* every call: AddArray adds all of a file's, growing when it must, or takes
\* back those it added.
THEOREM RegistryIsExact == Spec => []RegistryExact
BY Invariant, RegistryExactHolds, PTL

\* As long as no roll-back has removed an entry, every symbol of every kept
\* file is found and leads to its definition, and the assertions of insert
\* hold.
THEOREM PoolIsSound == Spec => []SoundUntilRollback
BY Invariant, SoundHolds, PTL
================================================================================

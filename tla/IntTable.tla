-------------------------------- MODULE IntTable --------------------------------
(***************************************************************************)
(* upb_inttable (upb/hash/common.c): small keys in an array with a         *)
(* presence mask, the others in a upb_table.  Compaction chooses the part  *)
(* of every key anew.                                                      *)
(***************************************************************************)
EXTENDS Integers, FiniteSets, Bitwise

CONSTANTS
  Keys,             \* the keys in use, not 0, which is always in the array
  Rewritten,        \* bound: the keys that take a second value
  WordSize,         \* 2^32: where upb_inthash folds a key
  MAXARRSIZE,       \* UPB_MAXARRSIZE: log2ceil is capped there
  MIN_DENSITY,      \* one entry in so many that compaction asks of an array
  InitLg2,          \* the log2 of the hash part of a new table
  MaxLg2            \* bound: the largest hash part

ASSUME IntTableAssumption ==
  /\ Keys \subseteq Nat \ {0}
  /\ Rewritten \subseteq Keys
  /\ {WordSize, MIN_DENSITY} \subseteq Nat \ {0}
  /\ {MAXARRSIZE, InitLg2, MaxLg2} \subseteq Nat

VARIABLES
  tab,    \* the table: [t, array, presence, array_count]
  iter,   \* the position of the iteration
  seen,   \* history: the keys it has returned
  valid,  \* history: nothing was modified since it began
  ret,    \* what the last call returned
  found   \* history: what a lookup finds for every key

vars == <<tab, iter, seen, valid, ret, found>>

upb_inthash(key) == (key % WordSize) ^^ (key \div WordSize)

INSTANCE HashTable WITH hash <- [k \in Keys |-> upb_inthash(k)]

(* No value is used for two keys, and none is 0. *)
ValuesOf(k) == IF k \in Rewritten THEN {k, k + WordSize * WordSize} ELSE {k}
Values == UNION {ValuesOf(k) : k \in Keys}

BEGIN == -1

None == 0

array_size(u) == Cardinality(DOMAIN u.array)

arrhas(u, key) == key \in u.presence

sizedinit(asize, lg2) ==
  [t |-> init(2 ^ lg2),
   array |-> [i \in 0 .. (IF asize > 1 THEN asize ELSE 1) - 1 |-> None],
   presence |-> {}, array_count |-> 0]

inttable_count(u) == u.t.count + u.array_count

InArray(u, key) == key < array_size(u)

(* inttable_val: whether the key is there, and its value. *)
Has(u, key) ==
  IF InArray(u, key) THEN arrhas(u, key) ELSE findentry(u.t, key) # NULL

ValueOf(u, key) ==
  IF InArray(u, key) THEN u.array[key] ELSE u.t.entries[findentry(u.t, key)].val

SetValue(u, key, val) ==
  IF InArray(u, key) THEN [u EXCEPT !.array[key] = val]
  ELSE [u EXCEPT !.t.entries[findentry(u.t, key)].val = val]

(* Whether an insertion needs memory for a larger hash part. *)
NeedsMemory(u, key) == ~InArray(u, key) /\ isfull(u.t)

InsertAsserts(u, key) ==
  IF InArray(u, key) THEN ~arrhas(u, key) ELSE InsertDefined(Grown(u.t), key)

Inserted(u, key, val) ==
  IF InArray(u, key)
  THEN [u EXCEPT !.array_count = @ + 1, !.array[key] = val,
                 !.presence = @ \cup {key}]
  ELSE [u EXCEPT !.t = insert(Grown(u.t), key, val)]

(* Mutant: the value is cleared, its bit in the mask is not. *)
RemovedValue(u, key) ==
  IF InArray(u, key)
  THEN [u EXCEPT !.array_count = @ - 1, !.array[key] = None]
  ELSE [u EXCEPT !.t = rm(u.t, key)]

Removed(u, key) ==
  IF InArray(u, key)
  THEN [u EXCEPT !.array_count = @ - 1, !.array[key] = None,
                 !.presence = @ \ {key}]
  ELSE [u EXCEPT !.t = rm(u.t, key)]

(* upb_inttable_next: the array, then the hash part behind it. *)
inttable_next(u, i) ==
  LET n == array_size(u)
      after == {k \in DOMAIN u.array : k > i /\ arrhas(u, k)}
  IN IF i + 1 <= n /\ after # {} THEN CHOOSE k \in after : \A m \in after : k <= m
     ELSE n + next(u.t, (IF i + 1 <= n THEN n - 1 ELSE i) - n)

IterDone(u, i) == i >= array_size(u) + u.t.size

(* What is at a position of the iteration. *)
IsEntry(u, i) ==
  IF i < array_size(u) THEN arrhas(u, i) ELSE ~isempty(u.t, i - array_size(u))
KeyAt(u, i) == IF i < array_size(u) THEN i ELSE u.t.entries[i - array_size(u)].key
ValueAt(u, i) ==
  IF i < array_size(u) THEN u.array[i] ELSE u.t.entries[i - array_size(u)].val

KeysOf(u) ==
  {KeyAt(u, i) : i \in {i \in 0 .. array_size(u) + u.t.size - 1 : IsEntry(u, i)}}

----------------------------------------------------------------------------
log2ceil(v) ==
  LET lg2 == CHOOSE n \in 0 .. v : v <= 2 ^ n /\ \A m \in 0 .. n - 1 : 2 ^ m < v
  IN IF lg2 < MAXARRSIZE THEN lg2 ELSE MAXARRSIZE

entries_needed_for(n) == n + 1 + n \div 7

(* How many entries compaction may count on in an array of 2^lg2: those    *)
(* whose bucket is not above it.                                           *)
KeysUpTo(u, lg2) == {k \in KeysOf(u) : log2ceil(k) <= lg2}
KeysIn(u, lg2) == {k \in KeysUpTo(u, lg2) : log2ceil(k) = lg2}

(* Mutant: any bucket that is not empty will do. *)
NotEmptyAt(u, lg2) == KeysIn(u, lg2) # {}

DenseAt(u, lg2) ==
  KeysIn(u, lg2) # {} /\ Cardinality(KeysUpTo(u, lg2)) * MIN_DENSITY >= 2 ^ lg2

(* The largest bucket, the capped one included, that is dense enough. *)
size_lg2(u) ==
  LET dense == {n \in 1 .. MAXARRSIZE : DenseAt(u, n)}
  IN IF dense = {} THEN 0 ELSE CHOOSE n \in dense : \A m \in dense : m <= n

arr_size(u) ==
  LET bucket == KeysIn(u, size_lg2(u))
  IN IF bucket = {} THEN 1 ELSE 1 + CHOOSE k \in bucket : \A m \in bucket : m <= k

hash_count(u) == inttable_count(u) - Cardinality(KeysUpTo(u, size_lg2(u)))

hash_size(u) == IF hash_count(u) = 0 THEN 0 ELSE entries_needed_for(hash_count(u))

hashsize_lg2(u) == log2ceil(hash_size(u))

(* Every entry inserted into the new table; an insertion that needs memory *)
(* it does not get is passed over.                                         *)
Compacted(u, oom) ==
  LET step(w, n) ==
        LET k == KeyAt(u, n - 1)
        IN IF ~IsEntry(u, n - 1) \/ (oom /\ NeedsMemory(w, k)) THEN w
           ELSE Inserted(w, k, ValueAt(u, n - 1))
  IN Loop(sizedinit(arr_size(u), hashsize_lg2(u)), array_size(u) + u.t.size, step)
----------------------------------------------------------------------------
(* The keys that lookup finds, with their values. *)
Found(u) == [k \in {k \in Keys : Has(u, k)} |-> ValueOf(u, k)]

Init ==
  /\ tab = sizedinit(0, InitLg2)
  /\ iter = BEGIN
  /\ seen = {}
  /\ valid = TRUE
  /\ ret = FALSE
  /\ found = <<>>

Modified == seen' = {} /\ valid' = FALSE /\ UNCHANGED iter

Unmodified == UNCHANGED <<tab, iter, seen, valid>>

Insert(k, v) ==
  /\ ~Has(tab, k)
  /\ \/ /\ InsertAsserts(tab, k)
        /\ NeedsMemory(tab, k) => tab.t.size < 2 ^ MaxLg2
        /\ tab' = Inserted(tab, k, v)
        /\ ret' = TRUE
        /\ Modified
     \/ NeedsMemory(tab, k) /\ ret' = FALSE /\ Unmodified

Replace(k, v) ==
  /\ tab' = IF Has(tab, k) THEN SetValue(tab, k, v) ELSE tab
  /\ ret' = Has(tab, k)
  /\ UNCHANGED <<iter, seen, valid>>

RemoveKey(k) ==
  \/ /\ Has(tab, k)
     /\ tab' = Removed(tab, k)
     /\ ret' = TRUE
     /\ Modified
  \/ ~Has(tab, k) /\ ret' = FALSE /\ Unmodified

Compact ==
  \/ /\ \E oom \in {FALSE, hash_size(tab) > 2 ^ MAXARRSIZE} :
          tab' = Compacted(tab, oom)
     /\ ret' = TRUE
     /\ Modified
  \/ ret' = FALSE /\ Unmodified

Clear ==
  /\ tab' = [tab EXCEPT !.t = clear(tab.t), !.array = [i \in DOMAIN @ |-> None],
                        !.presence = {}, !.array_count = 0]
  /\ ret' = TRUE
  /\ Modified

(* upb_inttable_next, and from the end back to UPB_INTTABLE_BEGIN. *)
Iterate ==
  LET i == inttable_next(tab, iter)
  IN /\ IF IterDone(tab, i)
        THEN iter' = BEGIN /\ seen' = {} /\ valid' = TRUE /\ ret' = FALSE
        ELSE /\ iter' = i
             /\ seen' = IF valid THEN seen \cup {KeyAt(tab, i)} ELSE {}
             /\ ret' = TRUE
             /\ UNCHANGED valid
     /\ UNCHANGED tab

(* Of the entry that the iteration returned last. *)
SetEntryValue(k, v) ==
  /\ valid /\ iter # BEGIN /\ KeyAt(tab, iter) = k
  /\ tab' = IF iter < array_size(tab) THEN [tab EXCEPT !.array[iter] = v]
            ELSE [tab EXCEPT !.t.entries[iter - array_size(tab)].val = v]
  /\ ret' = TRUE
  /\ UNCHANGED <<iter, seen, valid>>

Call ==
  \/ \E k \in Keys : RemoveKey(k)
  \/ \E k \in Keys : \E v \in ValuesOf(k) : Insert(k, v) \/ Replace(k, v)
  \/ \E k \in Rewritten : \E v \in ValuesOf(k) : SetEntryValue(k, v)
  \/ Compact \/ Clear \/ Iterate

Next == Call /\ found' = IF tab' = tab THEN found ELSE Found(tab')

Spec == Init /\ [][Next]_vars
----------------------------------------------------------------------------
(* Every variable has its type. *)
TypeOK ==
  /\ tab.t.size \in {2 ^ n : n \in 0 .. MaxLg2 + MAXARRSIZE}
  /\ tab.t.entries \in [Slots(tab.t) -> [key : Keys \cup {upb_key_empty},
                                         val : Values \cup {None},
                                         next : Slots(tab.t) \cup {NULL}]]
  /\ \A i \in DOMAIN tab.array : tab.array[i] \in Values \cup {None}
  /\ tab.presence \subseteq DOMAIN tab.array
  /\ iter \in Int /\ seen \subseteq Keys /\ valid \in BOOLEAN
  /\ ret \in BOOLEAN

(* Through growth, eviction and removal every entry of the hash part stays *)
(* in the chain of its key, each key has one place, the counts that decide *)
(* on growth are exact, and the assertions of the insertion hold for every *)
(* key that lookup does not find: there is an empty entry to insert into,  *)
(* and an entry to be evicted is in its chain.                             *)
TableWellFormed ==
  /\ TypeOK
  /\ WellFormed(tab.t)
  /\ \A i \in Slots(tab.t) : isempty(tab.t, i) \/ ~InArray(tab, tab.t.entries[i].key)
  /\ tab.array_count = Cardinality(tab.presence)
  /\ \A k \in Keys : ~Has(tab, k) => InsertAsserts(tab, k)

Map == INSTANCE FiniteMap WITH map <- found

(* The table is a map, whatever lookup finds being its contents: no        *)
(* operation on one key disturbs another, failures change nothing, and an  *)
(* iteration returns every entry once, or only real entries when it was    *)
(* invalidated.                                                            *)
MapSpec == Map!Spec

(* The array that compaction makes is not sparser than MIN_DENSITY.  This   *)
(* needs every key to be in its own bucket: the last bucket takes all the   *)
(* keys above it, and compaction counts it as if they fitted the array.    *)
CompactedArrayDense ==
  [][ /\ DOMAIN tab'.array # DOMAIN tab.array
      /\ \A k \in DOMAIN found : k <= 2 ^ MAXARRSIZE
      => array_size(tab') - 1 <= MIN_DENSITY * tab'.array_count ]_vars
================================================================================

------------------------------- MODULE FiniteMap -------------------------------
(***************************************************************************)
(* What a upb table promises (upb/hash/int_table.h): a map from keys to    *)
(* values.  An operation that cannot get memory says so and changes        *)
(* nothing; an iteration that no insertion or removal interrupts returns   *)
(* every entry once.                                                       *)
(***************************************************************************)
EXTENDS Integers, Functions, TLC

CONSTANTS Keys, Values

VARIABLES
  map,    \* the entries
  seen,   \* the keys that the current iteration has returned
  valid,  \* the table was not modified since the iteration began
  ret     \* what the last call returned

vars == <<map, seen, valid, ret>>

Init ==
  /\ map = <<>>
  /\ seen = {}
  /\ valid = TRUE
  /\ ret = FALSE

(* "Modifying the table invalidates iterators." *)
Modified == seen' = {} /\ valid' = FALSE

Unmodified == UNCHANGED <<map, seen, valid>>

Insert(k, v) ==
  /\ k \notin DOMAIN map
  /\ \/ map' = map @@ (k :> v) /\ ret' = TRUE /\ Modified
     \/ ret' = FALSE /\ Unmodified

(* "Unlike insert/remove, this does not invalidate iterators." *)
Replace(k, v) ==
  /\ k \in DOMAIN map
  /\ map' = [map EXCEPT ![k] = v]
  /\ ret' = TRUE
  /\ UNCHANGED <<seen, valid>>

Remove(k) ==
  /\ k \in DOMAIN map
  /\ map' = Restrict(map, DOMAIN map \ {k})
  /\ ret' = TRUE
  /\ Modified

(* Replacing or removing a key that is not there. *)
Missing(k) == k \notin DOMAIN map /\ ret' = FALSE /\ Unmodified

Clear ==
  /\ map' = <<>>
  /\ ret' = TRUE
  /\ Modified

Compact ==
  \/ ret' = TRUE /\ Modified /\ UNCHANGED map
  \/ ret' = FALSE /\ Unmodified

(* An entry that was not returned before or, from an iterator that is no   *)
(* longer valid, any entry; it ends when all were returned, or anywhere.   *)
Iterate ==
  /\ UNCHANGED map
  /\ \/ \E k \in DOMAIN map \ seen :
          /\ ret' = TRUE
          /\ seen' = IF valid THEN seen \cup {k} ELSE {}
          /\ UNCHANGED valid
     \/ /\ valid => seen = DOMAIN map
        /\ ret' = FALSE
        /\ seen' = {}
        /\ valid' = TRUE

Next ==
  \/ \E k \in Keys : Remove(k) \/ Missing(k)
  \/ \E k \in Keys, v \in Values : Insert(k, v) \/ Replace(k, v)
  \/ Clear \/ Compact \/ Iterate

Spec == Init /\ [][Next]_vars
================================================================================

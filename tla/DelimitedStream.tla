---------------------------- MODULE DelimitedStream ----------------------------
(***************************************************************************)
(* What upb_EpsCopyInputStream promises its caller (the comments of        *)
(* upb/wire/eps_copy_input_stream.h): a stream of `total' bytes with a     *)
(* stack of limits.  A position may run over the innermost limit by at     *)
(* most Slop bytes, and the next call of IsDone then reports it; a limit   *)
(* is only popped at the position where it ends.  Buffers, patching and    *)
(* the encoding of limits do not exist here.                               *)
(***************************************************************************)
EXTENDS Integers, Sequences

CONSTANT Slop          \* kUpb_EpsCopyInputStream_SlopBytes

VARIABLES
  pos,      \* bytes consumed
  limits,   \* the stack of limits, as positions; the first is the end
  status    \* what the caller knows, see Statuses

vars == <<pos, limits, status>>

(* "ask": IsDone must be called; "more": it returned false; "field": the   *)
(* fixed part of a field was read; "done": IsDone returned true;           *)
(* "error": the input is malformed and parsing stops.                      *)
Statuses == {"ask", "more", "field", "done", "error"}

Top == limits[Len(limits)]

Init ==
  /\ pos = 0
  /\ limits = <<limits[1]>>
  /\ limits[1] \in Nat
  /\ status = "ask"

(* IsDone tells a position before, at and past the limit apart. *)
IsDone ==
  /\ status = "ask"
  /\ status' = IF pos < Top THEN "more" ELSE IF pos = Top THEN "done" ELSE "error"
  /\ UNCHANGED <<pos, limits>>

(* Reading a tag with its value, or with the length of what follows. *)
Read ==
  /\ status = "more"
  /\ status' = "field"
  /\ pos' \in pos + 1 .. pos + Slop
  /\ UNCHANGED limits

(* The next field, with or without data that belongs to the last one. *)
Finish ==
  /\ status = "field"
  /\ status' = "ask"
  /\ pos' \in Nat
  /\ pos <= pos'
  /\ pos' = pos \/ pos' <= Top + Slop
  /\ UNCHANGED limits

(* A sub-message ends inside the message around it. *)
Push ==
  /\ status = "field"
  /\ status' = "ask"
  /\ \E top \in pos .. Top : limits' = Append(limits, top)
  /\ UNCHANGED pos

Reject ==
  /\ status = "field"
  /\ status' = "error"
  /\ UNCHANGED <<pos, limits>>

Pop ==
  /\ status = "done"
  /\ pos = Top
  /\ Len(limits) > 1
  /\ status' = "ask"
  /\ limits' = SubSeq(limits, 1, Len(limits) - 1)
  /\ UNCHANGED pos

Next == IsDone \/ Read \/ Finish \/ Push \/ Reject \/ Pop

Spec == Init /\ [][Next]_vars
================================================================================

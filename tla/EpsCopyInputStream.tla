--------------------------- MODULE EpsCopyInputStream ---------------------------
(***************************************************************************)
(* upb_EpsCopyInputStream (upb/wire/eps_copy_input_stream.h) as the        *)
(* decoder drives it.  IsDone guarantees that Slop bytes can be read at    *)
(* the position without another check; near the end of the input the       *)
(* stream moves the last Slop bytes into a patch buffer to keep that       *)
(* guarantee.  Limits are kept relative to `end', in two encodings.        *)
(*                                                                         *)
(* A pointer is its offset in the buffer being read, the input or the      *)
(* patch; a byte of the input is identified by its position.               *)
(***************************************************************************)
EXTENDS Integers, Sequences

CONSTANTS
  Slop,       \* kUpb_EpsCopyInputStream_SlopBytes
  MaxSize,    \* bound: the longest input
  MaxDepth    \* bound: nested limits (upb_Decoder.depth)

ASSUME EpsAssumption ==
  /\ Slop \in Nat \ {0}
  /\ MaxSize \in Nat
  /\ MaxDepth \in Nat

VARIABLES
  size,         \* the length of the input
  buf,          \* "input" or "patch": where ptr, end and limit_ptr point
  ptr,          \* the parsing pointer, kept by the caller
  end,          \* e->end
  limit,        \* e->limit, relative to end
  limit_ptr,    \* e->limit_ptr
  input_delta,  \* e->input_delta
  patch,        \* e->patch
  frames,       \* what the callers of PushLimit and TryParseDelimitedFast save
  status,       \* see DelimitedStream
  limits        \* history: the limits in force, as positions in the input

stream == <<size, buf, end, limit, limit_ptr, input_delta, patch>>
vars == <<size, buf, ptr, end, limit, limit_ptr, input_delta, patch, frames,
          status, limits>>

Zero == -1      \* a byte cleared by memset
Stale == -2     \* a byte of the patch that was never written

PatchBytes == 0 .. 2 * Slop - 1

UPB_MIN(a, b) == IF a < b THEN a ELSE b

(* What the caller saves while a limit is pushed: the delta of PushLimit,  *)
(* or limit and limit_ptr themselves in the fast case.                     *)
Frames == [kind : {"delta"}, delta : Nat]
            \cup [kind : {"fast"}, limit : Int, limit_ptr : Int]

GetInputPtr(p) == p + input_delta

(* Mutant: a limit inside the slop bytes not cut off at end. *)
PlainLimitPtr(l) == end + l

LimitPtr(l) == end + UPB_MIN(0, l)

Top == limits[Len(limits)]
----------------------------------------------------------------------------
(* upb_EpsCopyInputStream_Init: a short input is copied at once. *)
Init ==
  /\ size \in 0 .. MaxSize
  /\ ptr = 0
  /\ input_delta = 0
  /\ IF size <= Slop
     THEN /\ buf = "patch"
          /\ patch = [i \in PatchBytes |-> IF i < size THEN i ELSE Zero]
          /\ end = size
          /\ limit = 0
     ELSE /\ buf = "input"
          /\ patch = [i \in PatchBytes |-> Stale]
          /\ end = size - Slop
          /\ limit = Slop
  /\ limit_ptr = end
  /\ frames = <<>>
  /\ status = "ask"
  /\ limits = <<size>>

overrun == ptr - end

IsDoneNotDone ==
  /\ status = "ask"
  /\ ptr < limit_ptr
  /\ status' = "more"
  /\ UNCHANGED <<stream, ptr, frames, limits>>

IsDoneDone ==
  /\ status = "ask"
  /\ ptr >= limit_ptr
  /\ overrun = limit
  /\ status' = "done"
  /\ UNCHANGED <<stream, ptr, frames, limits>>

NeedFallback == status = "ask" /\ ptr >= limit_ptr /\ overrun # limit

(* Mutants: the tail of the patch not cleared; the new start off by the    *)
(* overrun.                                                                *)
UnclearedPatch == [i \in PatchBytes |-> IF i < Slop THEN end + i ELSE patch[i]]
PatchStart == 0

(* The last Slop bytes of the input, and zeroes behind them. *)
FlippedPatch == [i \in PatchBytes |-> IF i < Slop THEN end + i ELSE Zero]

new_start == overrun

FlippedDelta == ptr - new_start

(* The limit is not reached, only the end of what may be read in place. *)
IsDoneFallbackFlip ==
  /\ NeedFallback
  /\ overrun < limit
  /\ patch' = FlippedPatch
  /\ buf' = "patch"
  /\ ptr' = new_start
  /\ end' = Slop
  /\ limit' = limit - Slop
  /\ limit_ptr' = end' + limit'
  /\ input_delta' = FlippedDelta
  /\ status' = "more"
  /\ UNCHANGED <<size, frames, limits>>

IsDoneFallbackError ==
  /\ NeedFallback
  /\ overrun > limit
  /\ status' = "error"
  /\ UNCHANGED <<stream, ptr, frames, limits>>

(* Mutants: the distance to end forgotten; no slop for data. *)
CheckSizeFromEnd(n) == n <= limit
CheckDataInPlace(n) == ptr + n <= limit_ptr

CheckSize(n) == n <= limit - overrun

CheckDataSizeAvailable(n) == ptr + n <= limit_ptr + Slop

CheckSubMessageSizeAvailable(n) == ptr + n <= limit_ptr

(* A tag with a number, or with the length of the data that follows: read  *)
(* without a check, so it may run into the slop bytes.                     *)
ReadField(n) ==
  /\ status = "more"
  /\ status' = "field"
  /\ ptr' = ptr + n
  /\ UNCHANGED <<stream, frames, limits>>

(* The field needed no more data. *)
EndField ==
  /\ status = "field"
  /\ status' = "ask"
  /\ UNCHANGED <<stream, ptr, frames, limits>>

(* Skip, Copy and ReadString check that the data is there; the fast        *)
(* decoder asks nothing else of a size it has just read.                   *)
SkipAvailable(n) ==
  /\ status = "field"
  /\ CheckDataSizeAvailable(n)
  /\ status' = "ask"
  /\ ptr' = ptr + n
  /\ UNCHANGED <<stream, frames, limits>>

(* upb_WireReader_SkipValue adds a size that only CheckSize has seen. *)
SkipChecked(n) ==
  /\ status = "field"
  /\ CheckSize(n)
  /\ status' = "ask"
  /\ ptr' = ptr + n
  /\ UNCHANGED <<stream, frames, limits>>

(* A size the limit does not allow, or no memory for a copy. *)
Malformed ==
  /\ status = "field"
  /\ status' = "error"
  /\ UNCHANGED <<stream, ptr, frames, limits>>

PushLimit(n) ==
  LET newlimit == n + overrun
  IN /\ status = "field"
     /\ CheckSize(n)
     /\ Len(frames) < MaxDepth
     /\ frames' = Append(frames, [kind |-> "delta", delta |-> limit - newlimit])
     /\ limit' = newlimit
     /\ limit_ptr' = LimitPtr(newlimit)
     /\ status' = "ask"
     /\ limits' = Append(limits, GetInputPtr(ptr) + n)
     /\ UNCHANGED <<size, buf, ptr, end, input_delta, patch>>

TryParseDelimitedFast(n) ==
  /\ status = "field"
  /\ CheckSubMessageSizeAvailable(n)
  /\ Len(frames) < MaxDepth
  /\ frames' = Append(frames, [kind |-> "fast", limit |-> limit,
                               limit_ptr |-> limit_ptr])
  /\ limit_ptr' = ptr + n
  /\ limit' = limit_ptr' - end
  /\ status' = "ask"
  /\ limits' = Append(limits, GetInputPtr(ptr) + n)
  /\ UNCHANGED <<size, buf, ptr, end, input_delta, patch>>

LastFrame == frames[Len(frames)]

Unnested(s) == SubSeq(s, 1, Len(s) - 1)

PopLimit ==
  /\ status = "done"
  /\ Len(frames) > 0
  /\ LastFrame.kind = "delta"
  /\ limit' = limit + LastFrame.delta
  /\ limit_ptr' = LimitPtr(limit')
  /\ frames' = Unnested(frames)
  /\ limits' = Unnested(limits)
  /\ status' = "ask"
  /\ UNCHANGED <<size, buf, ptr, end, input_delta, patch>>

(* The end of TryParseDelimitedFast, after func has parsed to its limit. *)
ParseDelimitedFastEnd ==
  /\ status = "done"
  /\ Len(frames) > 0
  /\ LastFrame.kind = "fast"
  /\ limit' = LastFrame.limit
  /\ limit_ptr' = LastFrame.limit_ptr
  /\ frames' = Unnested(frames)
  /\ limits' = Unnested(limits)
  /\ status' = "ask"
  /\ UNCHANGED <<size, buf, ptr, end, input_delta, patch>>

Next ==
  \/ IsDoneNotDone \/ IsDoneDone \/ IsDoneFallbackFlip \/ IsDoneFallbackError
  \/ \E n \in 1 .. Slop : ReadField(n)
  \/ EndField
  \/ \E n \in 0 .. MaxSize + Slop :
       \/ SkipAvailable(n) \/ SkipChecked(n)
       \/ PushLimit(n) \/ TryParseDelimitedFast(n)
  \/ Malformed \/ PopLimit \/ ParseDelimitedFastEnd

Spec == Init /\ [][Next]_vars
----------------------------------------------------------------------------
(* Every variable has its type. *)
TypeOK ==
  /\ size \in Nat
  /\ buf \in {"input", "patch"}
  /\ ptr \in Nat /\ end \in Nat
  /\ limit \in Int /\ limit_ptr \in Int
  /\ input_delta \in Nat
  /\ patch \in [PatchBytes -> Int]
  /\ frames \in Seq(Frames)
  /\ status \in {"ask", "more", "field", "done", "error"}
  /\ limits \in Seq(Nat) /\ Len(limits) = Len(frames) + 1

(* The byte at an address of the current buffer; Stale outside of it. *)
Load(a) ==
  CASE buf = "input" /\ a \in 0 .. size - 1 -> a
    [] buf = "patch" /\ a \in PatchBytes -> patch[a]
    [] OTHER -> Stale

(* The parser never reads outside a buffer or a byte that was not written: *)
(* after IsDone returned false it may read Slop bytes, and after a size    *)
(* was found available that many, whatever limits and flips came before.   *)
ReadsSafe ==
  /\ status = "more" => \A i \in 0 .. Slop - 1 : Load(ptr + i) # Stale
  /\ status = "field" =>
       \A i \in 0 .. size + 2 * Slop :
          CheckDataSizeAvailable(i + 1) => Load(ptr + i) # Stale

(* Moving to the patch buffer loses, repeats and reorders nothing: what is *)
(* read before the innermost limit are the bytes of the input that belong  *)
(* there, and they are the ones an aliased string points to.               *)
BytesInOrder ==
  status \in {"more", "field"} =>
    \A i \in 0 .. size :
       GetInputPtr(ptr) + i < Top /\ (status = "more" => i < Slop)
         => Load(ptr + i) = GetInputPtr(ptr) + i

(* The assertions of the stream: limit_ptr stays the other encoding of     *)
(* limit, also when a flip or the end of a fast sub-message restores them  *)
(* without computing the minimum, and a flip happens before the slop runs  *)
(* out.                                                                    *)
AssertsHold ==
  /\ limit_ptr = end + UPB_MIN(0, limit)
  /\ NeedFallback /\ overrun < limit => overrun < Slop
  /\ status = "more" => ptr < limit_ptr

(* A size that CheckSize accepts is always available, so that ReadString   *)
(* and Copy return NULL for want of memory only: the decoder reports every *)
(* NULL as OutOfMemory.                                                    *)
CheckedIsAvailable ==
  status = "field" =>
    \A n \in 0 .. size : CheckSize(n) => CheckDataSizeAvailable(n)

Delimited == INSTANCE DelimitedStream WITH pos <- GetInputPtr(ptr)

(* The stream with its buffers, flips and relative limits is the stream of *)
(* DelimitedStream: done exactly at a limit, error exactly past one.       *)
DelimitedSpec == Delimited!Spec
================================================================================

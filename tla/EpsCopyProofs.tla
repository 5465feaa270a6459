------------------------------ MODULE EpsCopyProofs ------------------------------
(***************************************************************************)
(* Proofs about EpsCopyInputStream, for every number of slop bytes, every  *)
(* length of the input and every depth of limits.                          *)
(***************************************************************************)
EXTENDS EpsCopyInputStream, SequenceTheorems, TLAPS

(* Where `end' lies in the input. *)
EndPos == end + input_delta

(* In the input nothing has moved and Slop bytes follow end; in the patch  *)
(* end is the end of the input, and only zeroes follow.                    *)
BufferInv ==
  /\ buf = "input" => input_delta = 0 /\ EndPos = size - Slop
  /\ buf = "patch" =>
       /\ EndPos = size
       /\ end <= Slop
       /\ \A i \in PatchBytes :
            patch[i] = IF i < end THEN i + input_delta ELSE Zero

(* limit and limit_ptr encode the innermost limit; limits are nested. *)
LimitInv ==
  /\ limit_ptr = end + UPB_MIN(0, limit)
  /\ Top = EndPos + limit
  /\ limits[1] = size
  /\ \A i, j \in 1 .. Len(limits) : i <= j => limits[j] <= limits[i]

(* A delta survives a flip; limit and limit_ptr are only saved when no     *)
(* flip can happen before they are restored.                               *)
FrameInv ==
  \A i \in 1 .. Len(frames) :
    /\ frames[i].kind = "delta" => frames[i].delta = limits[i] - limits[i + 1]
    /\ frames[i].kind = "fast" =>
         /\ limits[i + 1] <= EndPos
         /\ frames[i].limit = limits[i] - EndPos
         /\ frames[i].limit_ptr = end + UPB_MIN(0, frames[i].limit)

StatusInv ==
  /\ status = "more" => ptr < limit_ptr
  /\ status = "done" => overrun = limit

IndInv == TypeOK /\ BufferInv /\ LimitInv /\ FrameInv /\ StatusInv

(* limit lies in the slop bytes at most, and nowhere past end once the     *)
(* patch buffer or a fast sub-message is being read.                       *)
LEMMA LimitBounds ==
  ASSUME IndInv
  PROVE  /\ limit \in Int /\ limit <= Slop
         /\ buf = "patch" => limit <= 0
         /\ \A i \in 1 .. Len(frames) : frames[i].kind = "fast" => limit <= 0
         /\ limit_ptr <= end /\ limit_ptr <= end + limit
<1>1. Len(limits) \in Nat \ {0} /\ 1 <= Len(limits)
  BY DEF IndInv, TypeOK
<1>2. Top <= limits[1]
  BY <1>1 DEF IndInv, LimitInv, Top
<1>3. limit = Top - EndPos /\ Top \in Nat /\ EndPos \in Nat
  BY <1>1 DEF IndInv, LimitInv, TypeOK, EndPos, Top
<1>4. limit <= Slop /\ (buf = "patch" => limit <= 0)
  BY <1>2, <1>3, EpsAssumption DEF IndInv, LimitInv, BufferInv, TypeOK, EndPos
<1>5. ASSUME NEW i \in 1 .. Len(frames), frames[i].kind = "fast"
      PROVE  limit <= 0
  <2>1. i + 1 \in 1 .. Len(limits) /\ i + 1 <= Len(limits)
    BY <1>5 DEF IndInv, TypeOK
  <2>2. Top <= limits[i + 1] /\ limits[i + 1] \in Nat
    <3>1. Len(limits) \in 1 .. Len(limits)
      BY <1>1
    <3>2. limits[Len(limits)] <= limits[i + 1]
      BY <2>1, <3>1 DEF IndInv, LimitInv
    <3>3. limits[i + 1] \in Nat
      BY <2>1 DEF IndInv, TypeOK
    <3> QED BY <3>2, <3>3 DEF Top
  <2>3. limits[i + 1] <= EndPos
    BY <1>5 DEF IndInv, FrameInv
  <2> QED BY <2>2, <2>3, <1>3
<1>6. limit_ptr <= end /\ limit_ptr <= end + limit
  BY DEF IndInv, LimitInv, TypeOK, UPB_MIN
<1> QED BY <1>4, <1>5, <1>6 DEF IndInv, TypeOK

\* upb_EpsCopyInputStream_Init, for short and long inputs.
LEMMA InitInv == Init => IndInv
<1> SUFFICES ASSUME Init PROVE IndInv OBVIOUS
<1> USE EpsAssumption
<1>1. TypeOK
  <2>1. patch \in [PatchBytes -> Int]
    BY DEF Init, PatchBytes, Zero, Stale
  <2>2. frames \in Seq(Frames) /\ limits \in Seq(Nat) /\ Len(limits) = Len(frames) + 1
    BY DEF Init
  <2> QED BY <2>1, <2>2 DEF Init, TypeOK
<1>2. BufferInv
  BY DEF Init, BufferInv, EndPos, PatchBytes, Zero
<1>3. LimitInv
  BY DEF Init, LimitInv, EndPos, Top, UPB_MIN
<1>4. FrameInv
  BY DEF Init, FrameInv
<1>5. StatusInv
  BY DEF Init, StatusInv
<1> QED BY <1>1, <1>2, <1>3, <1>4, <1>5 DEF IndInv

(* A step that leaves the buffers and the limits alone. *)
LEMMA SameStream ==
  ASSUME IndInv, UNCHANGED <<stream, frames, limits>>, ptr' \in Nat,
         status' \in {"ask", "more", "field", "done", "error"},
         StatusInv'
  PROVE  IndInv'
<1>1. TypeOK' BY DEF IndInv, TypeOK, stream
<1>2. BufferInv' BY DEF IndInv, BufferInv, EndPos, stream
<1>3. LimitInv' BY DEF IndInv, LimitInv, EndPos, Top, stream
<1>4. FrameInv' BY DEF IndInv, FrameInv, EndPos, stream
<1> QED BY <1>1, <1>2, <1>3, <1>4 DEF IndInv

\* The flip to the patch buffer.
LEMMA FlipInv == IndInv /\ IsDoneFallbackFlip => IndInv'
<1> SUFFICES ASSUME IndInv, IsDoneFallbackFlip PROVE IndInv' OBVIOUS
<1> USE EpsAssumption
<1>1. /\ limit <= Slop /\ limit \in Int
      /\ buf = "input" /\ input_delta = 0 /\ end = size - Slop
      /\ 0 <= overrun /\ overrun < limit
      /\ end \in Nat /\ size \in Nat /\ ptr \in Nat
      /\ \A i \in 1 .. Len(frames) : frames[i].kind # "fast"
  <2>1. overrun < limit /\ limit_ptr <= ptr /\ overrun \in Int
    BY DEF IsDoneFallbackFlip, NeedFallback, overrun, IndInv, TypeOK
  <2>2. limit > 0
    BY <2>1 DEF IndInv, LimitInv, TypeOK, UPB_MIN, overrun
  <2>3. limit_ptr = end
    BY <2>2 DEF IndInv, LimitInv, TypeOK, UPB_MIN
  <2> QED BY <2>1, <2>2, <2>3, LimitBounds
          DEF IndInv, BufferInv, TypeOK, EndPos, overrun
<1>2. /\ buf' = "patch" /\ end' = Slop /\ ptr' = overrun
      /\ limit' = limit - Slop /\ limit_ptr' = Slop + limit - Slop
      /\ input_delta' = end /\ patch' = FlippedPatch
      /\ status' = "more"
      /\ UNCHANGED <<size, frames, limits>>
  BY <1>1 DEF IsDoneFallbackFlip, FlippedDelta, new_start, overrun
<1>3. EndPos' = size /\ EndPos = size - Slop
  BY <1>1, <1>2 DEF EndPos
<1>4. TypeOK'
  <2>1. patch' \in [PatchBytes -> Int]
    BY <1>1, <1>2 DEF FlippedPatch, PatchBytes, Zero
  <2> QED BY <1>1, <1>2, <2>1 DEF IndInv, TypeOK, overrun
<1>5. BufferInv'
  BY <1>1, <1>2, <1>3 DEF BufferInv, FlippedPatch, PatchBytes, Zero
<1>6. LimitInv'
  BY <1>1, <1>2, <1>3 DEF IndInv, LimitInv, Top, UPB_MIN
<1>7. FrameInv'
  BY <1>1, <1>2 DEF IndInv, FrameInv
<1>8. StatusInv'
  BY <1>1, <1>2 DEF StatusInv, overrun
<1> QED BY <1>4, <1>5, <1>6, <1>7, <1>8 DEF IndInv

(* What a pushed frame must say of the limit it saves. *)
FrameSaves(f, newtop) ==
  /\ f.kind = "delta" => f.delta = Top - newtop
  /\ f.kind = "fast" =>
       /\ newtop <= EndPos
       /\ f.limit = limit
       /\ f.limit_ptr = limit_ptr

\* A new limit within the current one, however the old one is saved.
LEMMA PushInv ==
  ASSUME IndInv, NEW n \in Nat, NEW f \in Frames,
         FrameSaves(f, GetInputPtr(ptr) + n),
         n + overrun <= limit,
         limit' = n + overrun,
         limit_ptr' = end + UPB_MIN(0, limit'),
         frames' = Append(frames, f),
         limits' = Append(limits, GetInputPtr(ptr) + n),
         status' = "ask",
         UNCHANGED <<size, buf, ptr, end, input_delta, patch>>
  PROVE  IndInv'
<1> USE EpsAssumption
<1> DEFINE top == GetInputPtr(ptr) + n
           k == Len(limits)
<1>1. /\ k \in Nat \ {0} /\ Len(frames) = k - 1 /\ Len(frames) \in Nat
      /\ limits \in Seq(Nat) /\ frames \in Seq(Frames)
  BY DEF IndInv, TypeOK
<1>2. /\ Top \in Nat /\ Top = EndPos + limit /\ EndPos \in Nat
      /\ limits[k] = Top
  BY <1>1 DEF IndInv, TypeOK, LimitInv, EndPos, Top
<1>3. /\ top \in Nat /\ top <= Top /\ top = EndPos + limit' /\ limit' \in Int
  BY <1>2 DEF GetInputPtr, overrun, EndPos, IndInv, TypeOK
<1>4. /\ limits' \in Seq(Nat) /\ Len(limits') = k + 1
      /\ \A i \in 1 .. k : limits'[i] = limits[i]
      /\ limits'[k + 1] = top
  BY <1>1, <1>3
<1>5. /\ frames' \in Seq(Frames) /\ Len(frames') = k
      /\ \A i \in 1 .. k - 1 : frames'[i] = frames[i]
      /\ frames'[k] = f
  BY <1>1
<1>6. EndPos' = EndPos /\ Top' = top
  BY <1>4 DEF EndPos, Top
<1>7. TypeOK'
  <2>1. limit_ptr' \in Int
    BY <1>3 DEF UPB_MIN, IndInv, TypeOK
  <2> QED BY <1>3, <1>4, <1>5, <2>1, <1>1 DEF IndInv, TypeOK
<1>8. BufferInv'
  BY <1>6 DEF IndInv, BufferInv
<1>9. LimitInv'
  <2>1. limits'[1] = size'
    BY <1>1, <1>4 DEF IndInv, LimitInv
  <2>2. ASSUME NEW i \in 1 .. k + 1, NEW j \in 1 .. k + 1, i <= j
        PROVE  limits'[j] <= limits'[i]
    <3>1. CASE j \in 1 .. k
      <4>1. i \in 1 .. k BY <3>1, <2>2, <1>1
      <4> QED BY <3>1, <4>1, <2>2, <1>4 DEF IndInv, LimitInv
    <3>2. CASE j = k + 1 /\ i \in 1 .. k
      <4>1. limits[k] <= limits[i]
        BY <3>2, <1>1 DEF IndInv, LimitInv
      <4>2. limits[i] \in Nat /\ limits'[i] = limits[i]
        BY <3>2, <1>1, <1>4
      <4>3. limits'[j] = top /\ top \in Nat /\ limits[k] \in Nat /\ top <= limits[k]
        BY <3>2, <1>2, <1>3, <1>4
      <4>4. top <= limits[i]
        BY <4>1, <4>2, <4>3
      <4> QED BY <4>2, <4>3, <4>4, Zenon
    <3>3. CASE j = k + 1 /\ i = k + 1
      BY <3>3, <1>3, <1>4
    <3> QED BY <3>1, <3>2, <3>3, <1>1
  <2> QED BY <1>3, <1>4, <1>6, <2>1, <2>2 DEF LimitInv
<1>10. FrameInv'
  <2> SUFFICES ASSUME NEW i \in 1 .. k
               PROVE  /\ frames'[i].kind = "delta" =>
                           frames'[i].delta = limits'[i] - limits'[i + 1]
                      /\ frames'[i].kind = "fast" =>
                           /\ limits'[i + 1] <= EndPos
                           /\ frames'[i].limit = limits'[i] - EndPos
                           /\ frames'[i].limit_ptr = end + UPB_MIN(0, frames'[i].limit)
    BY <1>5, <1>6 DEF FrameInv
  <2>1. CASE i \in 1 .. k - 1
    <3>1. i + 1 \in 1 .. k /\ limits'[i] = limits[i] /\ limits'[i + 1] = limits[i + 1]
          /\ frames'[i] = frames[i]
      BY <2>1, <1>1, <1>4, <1>5
    <3> QED BY <2>1, <3>1, <1>1 DEF IndInv, FrameInv
  <2>2. CASE i = k
    <3>1. limits'[i] = Top /\ limits'[i + 1] = top /\ frames'[i] = f
      BY <2>2, <1>1, <1>2, <1>4, <1>5
    <3>2. limit = Top - EndPos /\ limit_ptr = end + UPB_MIN(0, limit)
      BY <1>2 DEF IndInv, LimitInv, TypeOK
    <3> QED BY <3>1, <3>2 DEF FrameSaves
  <2> QED BY <2>1, <2>2, <1>1
<1>11. StatusInv'
  BY DEF StatusInv
<1> QED BY <1>7, <1>8, <1>9, <1>10, <1>11 DEF IndInv

\* upb_EpsCopyInputStream_PushLimit.
LEMMA PushLimitInv ==
  ASSUME IndInv, NEW n \in Nat, PushLimit(n)
  PROVE  IndInv'
<1> DEFINE f == [kind |-> "delta", delta |-> limit - (n + overrun)]
<1>1. n + overrun <= limit /\ overrun \in Int /\ limit \in Int
  BY DEF PushLimit, CheckSize, overrun, IndInv, TypeOK
<1>2. f \in Frames
  BY <1>1 DEF Frames
<1>3. Top = EndPos + limit /\ EndPos \in Int
  BY DEF IndInv, LimitInv, EndPos, TypeOK
<1>4. FrameSaves(f, GetInputPtr(ptr) + n)
  <2>1. limit - (n + overrun) = Top - (GetInputPtr(ptr) + n)
    BY <1>1, <1>3 DEF GetInputPtr, overrun, EndPos, IndInv, TypeOK
  <2> QED BY <2>1 DEF FrameSaves
<1>5. /\ limit' = n + overrun /\ limit_ptr' = end + UPB_MIN(0, limit')
      /\ frames' = Append(frames, f)
      /\ limits' = Append(limits, GetInputPtr(ptr) + n)
      /\ status' = "ask" /\ UNCHANGED <<size, buf, ptr, end, input_delta, patch>>
  BY DEF PushLimit, LimitPtr
<1> QED BY <1>1, <1>2, <1>4, <1>5, PushInv

\* The fast path into a sub-message.
LEMMA TryFastInv ==
  ASSUME IndInv, NEW n \in Nat, TryParseDelimitedFast(n)
  PROVE  IndInv'
<1> DEFINE f == [kind |-> "fast", limit |-> limit, limit_ptr |-> limit_ptr]
<1>1. /\ ptr + n <= limit_ptr /\ overrun \in Int /\ limit \in Int
      /\ limit_ptr \in Int /\ ptr \in Nat /\ end \in Nat /\ input_delta \in Nat
  BY DEF TryParseDelimitedFast, CheckSubMessageSizeAvailable, overrun, IndInv, TypeOK
<1>2. f \in Frames
  BY <1>1 DEF Frames
<1>3. limit_ptr <= end /\ limit_ptr <= end + limit
  BY LimitBounds
<1>4. FrameSaves(f, GetInputPtr(ptr) + n)
  BY <1>1, <1>3 DEF FrameSaves, GetInputPtr, EndPos
<1>5. n + overrun <= limit /\ n + overrun <= 0
  BY <1>1, <1>3 DEF overrun
<1>6. limit' = n + overrun /\ limit_ptr' = end + UPB_MIN(0, limit')
  <2>1. limit_ptr' = ptr + n
    BY DEF TryParseDelimitedFast
  <2>2. limit' = limit_ptr' - end
    BY DEF TryParseDelimitedFast
  <2> QED BY <2>1, <2>2, <1>1, <1>5 DEF overrun, UPB_MIN
<1>7. /\ frames' = Append(frames, f)
      /\ limits' = Append(limits, GetInputPtr(ptr) + n)
      /\ status' = "ask" /\ UNCHANGED <<size, buf, ptr, end, input_delta, patch>>
  BY DEF TryParseDelimitedFast
<1> QED BY <1>2, <1>4, <1>5, <1>6, <1>7, PushInv

\* What is left of a stack without its top.
LEMMA UnnestedProperties ==
  ASSUME NEW S, NEW s \in Seq(S), Len(s) > 0
  PROVE  /\ Unnested(s) \in Seq(S)
         /\ Len(Unnested(s)) = Len(s) - 1
         /\ \A i \in 1 .. Len(s) - 1 : Unnested(s)[i] = s[i]
<1> DEFINE n == Len(s) - 1
<1>1. n \in Nat /\ \A i \in 1 .. n : s[i] \in S
  OBVIOUS
<1> HIDE DEF n
<1>2. /\ SubSeq(s, 1, n) \in Seq(S)
      /\ Len(SubSeq(s, 1, n)) = IF 1 <= n THEN n - 1 + 1 ELSE 0
      /\ \A i \in 1 .. n - 1 + 1 : SubSeq(s, 1, n)[i] = s[1 + i - 1]
  BY <1>1, SubSeqProperties
<1>3. /\ Len(SubSeq(s, 1, n)) = n
      /\ \A i \in 1 .. n : SubSeq(s, 1, n)[i] = s[i]
  BY <1>1, <1>2
<1> QED BY <1>2, <1>3 DEF n, Unnested

(* Both ways to leave a sub-message restore the limit around it. *)
LEMMA PopInv ==
  ASSUME IndInv, Len(frames) > 0,
         limit' = limits[Len(frames)] - EndPos,
         limit_ptr' = end + UPB_MIN(0, limit'),
         frames' = Unnested(frames), limits' = Unnested(limits),
         status' = "ask",
         UNCHANGED <<size, buf, ptr, end, input_delta, patch>>
  PROVE  IndInv'
<1> USE EpsAssumption
<1> DEFINE k == Len(frames)
<1>1. /\ k \in Nat \ {0} /\ Len(limits) = k + 1
      /\ limits \in Seq(Nat) /\ frames \in Seq(Frames)
  BY DEF IndInv, TypeOK
<1>2. /\ limits' \in Seq(Nat) /\ Len(limits') = k
      /\ \A i \in 1 .. k : limits'[i] = limits[i]
  <2>1. Len(limits) > 0 /\ Len(limits) - 1 = k
    BY <1>1
  <2> QED BY <1>1, <2>1, UnnestedProperties
<1>3. /\ frames' \in Seq(Frames) /\ Len(frames') = k - 1
      /\ \A i \in 1 .. k - 1 : frames'[i] = frames[i]
  BY <1>1, UnnestedProperties
<1>4. EndPos' = EndPos /\ EndPos \in Nat /\ limits[k] \in Nat
  BY <1>1 DEF EndPos, IndInv, TypeOK
<1>5. Top' = limits[k] /\ limit' \in Int
  <2>1. limits'[k] = limits[k]
    <3>1. k \in 1 .. k BY <1>1
    <3> QED BY <3>1, <1>2, Zenon
  <2> QED BY <2>1, <1>2, <1>4 DEF Top
<1>6. TypeOK'
  <2>1. limit_ptr' \in Int
    BY <1>5 DEF UPB_MIN, IndInv, TypeOK
  <2> QED BY <1>1, <1>2, <1>3, <1>5, <2>1 DEF IndInv, TypeOK
<1>7. BufferInv'
  BY <1>4 DEF IndInv, BufferInv
<1>8. LimitInv'
  <2>1. Top' = EndPos' + limit'
    BY <1>4, <1>5
  <2>2. limits'[1] = size'
    BY <1>1, <1>2 DEF IndInv, LimitInv
  <2>3. \A i, j \in 1 .. k : i <= j => limits'[j] <= limits'[i]
    BY <1>1, <1>2 DEF IndInv, LimitInv
  <2> QED BY <1>2, <2>1, <2>2, <2>3 DEF LimitInv
<1>9. FrameInv'
  <2> SUFFICES ASSUME NEW i \in 1 .. k - 1
               PROVE  /\ frames'[i].kind = "delta" =>
                           frames'[i].delta = limits'[i] - limits'[i + 1]
                      /\ frames'[i].kind = "fast" =>
                           /\ limits'[i + 1] <= EndPos
                           /\ frames'[i].limit = limits'[i] - EndPos
                           /\ frames'[i].limit_ptr = end + UPB_MIN(0, frames'[i].limit)
    BY <1>3, <1>4 DEF FrameInv
  <2>1. /\ i \in 1 .. k /\ i + 1 \in 1 .. k /\ limits'[i] = limits[i]
        /\ limits'[i + 1] = limits[i + 1] /\ frames'[i] = frames[i]
    <3>1. i \in 1 .. k /\ i + 1 \in 1 .. k
      BY <1>1
    <3> QED BY <3>1, <1>2, <1>3
  <2> QED BY <2>1 DEF IndInv, FrameInv
<1>10. StatusInv'
  BY DEF StatusInv
<1> QED BY <1>6, <1>7, <1>8, <1>9, <1>10 DEF IndInv

\* upb_EpsCopyInputStream_PopLimit.
LEMMA PopLimitInv == IndInv /\ PopLimit => IndInv'
<1> SUFFICES ASSUME IndInv, PopLimit PROVE IndInv' OBVIOUS
<1> DEFINE k == Len(frames)
<1>1. k \in 1 .. k /\ Len(limits) = k + 1 /\ k > 0 /\ LastFrame.kind = "delta"
  BY DEF PopLimit, IndInv, TypeOK
<1>2. LastFrame.delta = limits[k] - limits[k + 1]
  BY <1>1 DEF IndInv, FrameInv, LastFrame
<1>3. limits[k] \in Nat /\ limits[k + 1] \in Nat /\ EndPos \in Nat
  BY <1>1 DEF IndInv, TypeOK, EndPos
<1>4. limits[k + 1] = EndPos + limit /\ limit \in Int
  BY <1>1 DEF IndInv, LimitInv, Top, TypeOK
<1>5. limit' = limits[k] - EndPos
  BY <1>2, <1>3, <1>4 DEF PopLimit
<1>6. /\ limit_ptr' = end + UPB_MIN(0, limit') /\ frames' = Unnested(frames)
      /\ limits' = Unnested(limits) /\ status' = "ask"
      /\ UNCHANGED <<size, buf, ptr, end, input_delta, patch>>
  BY DEF PopLimit, LimitPtr
<1> QED BY <1>1, <1>5, <1>6, PopInv

\* The end of a sub-message that was entered on the fast path.
LEMMA FastEndInv == IndInv /\ ParseDelimitedFastEnd => IndInv'
<1> SUFFICES ASSUME IndInv, ParseDelimitedFastEnd PROVE IndInv' OBVIOUS
<1> DEFINE k == Len(frames)
<1>1. k \in 1 .. k /\ k > 0 /\ LastFrame.kind = "fast"
  BY DEF ParseDelimitedFastEnd, IndInv, TypeOK
<1>2. /\ LastFrame.limit = limits[k] - EndPos
      /\ LastFrame.limit_ptr = end + UPB_MIN(0, LastFrame.limit)
  BY <1>1 DEF IndInv, FrameInv, LastFrame
<1>3. /\ limit' = limits[k] - EndPos /\ limit_ptr' = end + UPB_MIN(0, limit')
      /\ frames' = Unnested(frames)
      /\ limits' = Unnested(limits) /\ status' = "ask"
      /\ UNCHANGED <<size, buf, ptr, end, input_delta, patch>>
  BY <1>2 DEF ParseDelimitedFastEnd
<1> QED BY <1>1, <1>3, PopInv

\* Every operation on the stream keeps the inductive invariant.
LEMMA NextInv == IndInv /\ [Next]_vars => IndInv'
<1> SUFFICES ASSUME IndInv, [Next]_vars PROVE IndInv' OBVIOUS
<1> USE EpsAssumption
<1>0. ptr \in Nat /\ limit \in Int /\ limit_ptr \in Int /\ end \in Nat
  BY DEF IndInv, TypeOK
<1>1. CASE IsDoneNotDone
  BY <1>0, <1>1, SameStream DEF IsDoneNotDone, StatusInv, stream
<1>2. CASE IsDoneDone
  <2>1. StatusInv'
    BY <1>2 DEF IsDoneDone, StatusInv, stream, overrun
  <2> QED BY <1>0, <1>2, <2>1, SameStream DEF IsDoneDone
<1>3. CASE IsDoneFallbackFlip
  BY <1>3, FlipInv
<1>4. CASE IsDoneFallbackError
  BY <1>0, <1>4, SameStream DEF IsDoneFallbackError, StatusInv
<1>5. ASSUME NEW n \in 1 .. Slop, ReadField(n) PROVE IndInv'
  BY <1>0, <1>5, SameStream DEF ReadField, StatusInv
<1>6. CASE EndField
  BY <1>0, <1>6, SameStream DEF EndField, StatusInv
<1>7. ASSUME NEW n \in 0 .. MaxSize + Slop, SkipAvailable(n) PROVE IndInv'
  BY <1>0, <1>7, SameStream DEF SkipAvailable, StatusInv
<1>8. ASSUME NEW n \in 0 .. MaxSize + Slop, SkipChecked(n) PROVE IndInv'
  BY <1>0, <1>8, SameStream DEF SkipChecked, StatusInv
<1>9. ASSUME NEW n \in 0 .. MaxSize + Slop, PushLimit(n) PROVE IndInv'
  BY <1>9, PushLimitInv
<1>10. ASSUME NEW n \in 0 .. MaxSize + Slop, TryParseDelimitedFast(n) PROVE IndInv'
  BY <1>10, TryFastInv
<1>11. CASE Malformed
  BY <1>0, <1>11, SameStream DEF Malformed, StatusInv
<1>12. CASE PopLimit
  BY <1>12, PopLimitInv
<1>13. CASE ParseDelimitedFastEnd
  BY <1>13, FastEndInv
<1>14. CASE UNCHANGED vars
  BY <1>0, <1>14, SameStream DEF vars, stream, StatusInv, IndInv, TypeOK, overrun
<1> QED BY <1>1, <1>2, <1>3, <1>4, <1>5, <1>6, <1>7, <1>8, <1>9, <1>10, <1>11,
           <1>12, <1>13, <1>14 DEF Next

(* The invariant that relates the buffers, both encodings of the innermost *)
(* limit and everything the callers saved holds in every reachable state.  *)
THEOREM Invariant == Spec => []IndInv
BY InitInv, NextInv, PTL DEF Spec

(* TypeOK: pointers stay natural numbers through flips and limits. *)
THEOREM TypeCorrect == Spec => []TypeOK
<1>1. IndInv => TypeOK BY DEF IndInv
<1> QED BY <1>1, Invariant, PTL

(* No address outside the buffer or unwritten: everything up to Slop bytes *)
(* past end can be read.                                                   *)
LEMMA LoadSafe ==
  ASSUME IndInv, NEW a \in Nat, a < end + Slop
  PROVE  Load(a) # Stale
<1> USE EpsAssumption
<1>1. CASE buf = "input"
  <2>1. a \in 0 .. size - 1
    BY <1>1 DEF IndInv, BufferInv, EndPos, TypeOK
  <2> QED BY <1>1, <2>1 DEF Load, Stale
<1>2. CASE buf = "patch"
  <2>1. a \in PatchBytes
    BY <1>2 DEF IndInv, BufferInv, PatchBytes, TypeOK
  <2>2. patch[a] # Stale
    BY <1>2, <2>1 DEF IndInv, BufferInv, TypeOK, Stale, Zero
  <2> QED BY <1>2, <2>1, <2>2 DEF Load
<1> QED BY <1>1, <1>2 DEF IndInv, TypeOK

(* Before the innermost limit an address holds its byte of the input. *)
LEMMA LoadsInput ==
  ASSUME IndInv, NEW a \in Nat, a + input_delta < Top
  PROVE  Load(a) = a + input_delta
<1> USE EpsAssumption
<1>1. /\ a < end + limit /\ limit <= Slop /\ limit \in Int /\ end \in Nat
      /\ buf = "patch" => limit <= 0
  BY LimitBounds DEF IndInv, LimitInv, EndPos, TypeOK
<1>2. CASE buf = "input"
  <2>1. a \in 0 .. size - 1 /\ input_delta = 0
    BY <1>1, <1>2 DEF IndInv, BufferInv, EndPos, TypeOK
  <2> QED BY <1>2, <2>1 DEF Load
<1>3. CASE buf = "patch"
  <2>1. a < end /\ end <= Slop
    BY <1>1, <1>3 DEF IndInv, BufferInv
  <2>2. a \in PatchBytes
    BY <2>1, <1>1 DEF PatchBytes
  <2>3. patch[a] = a + input_delta
    BY <1>3, <2>1, <2>2 DEF IndInv, BufferInv
  <2> QED BY <1>3, <2>2, <2>3 DEF Load
<1> QED BY <1>2, <1>3 DEF IndInv, TypeOK

(* ReadsSafe: Slop bytes after IsDone, and every size that was found       *)
(* available, can be read, for every Slop and every nesting of limits.     *)
THEOREM ReadsAreSafe == Spec => []ReadsSafe
<1>1. IndInv => ReadsSafe
  <2> SUFFICES ASSUME IndInv PROVE ReadsSafe OBVIOUS
  <2> USE EpsAssumption
  <2>1. limit_ptr <= end /\ limit_ptr \in Int /\ ptr \in Nat /\ end \in Nat
        /\ size \in Nat
    BY LimitBounds DEF IndInv, TypeOK
  <2>2. ASSUME status = "more", NEW i \in 0 .. Slop - 1 PROVE Load(ptr + i) # Stale
    <3>1. ptr < limit_ptr BY <2>2 DEF IndInv, StatusInv
    <3>2. ptr + i \in Nat /\ ptr + i < end + Slop BY <2>1, <3>1
    <3> QED BY <3>2, LoadSafe
  <2>3. ASSUME NEW i \in 0 .. size + 2 * Slop, CheckDataSizeAvailable(i + 1)
        PROVE  Load(ptr + i) # Stale
    <3>1. ptr + i \in Nat /\ ptr + i < end + Slop
      BY <2>1, <2>3 DEF CheckDataSizeAvailable
    <3> QED BY <3>1, LoadSafe
  <2> QED BY <2>2, <2>3 DEF ReadsSafe
<1> QED BY <1>1, Invariant, PTL

(* BytesInOrder: a flip into the patch buffer neither loses nor repeats a  *)
(* byte before the innermost limit.                                        *)
THEOREM BytesAreInOrder == Spec => []BytesInOrder
<1>1. IndInv => BytesInOrder
  <2> SUFFICES ASSUME IndInv, NEW i \in 0 .. size, GetInputPtr(ptr) + i < Top
               PROVE  Load(ptr + i) = GetInputPtr(ptr) + i
    BY DEF BytesInOrder
  <2>1. ptr \in Nat /\ input_delta \in Nat /\ size \in Nat
    BY DEF IndInv, TypeOK
  <2>2. ptr + i \in Nat /\ (ptr + i) + input_delta = GetInputPtr(ptr) + i
    BY <2>1 DEF GetInputPtr
  <2> QED BY <2>2, LoadsInput
<1> QED BY <1>1, Invariant, PTL

(* AssertsHold: the assertions of the stream cannot fail. *)
THEOREM AssertionsHold == Spec => []AssertsHold
<1>1. IndInv => AssertsHold
  <2> SUFFICES ASSUME IndInv PROVE AssertsHold OBVIOUS
  <2>1. limit <= Slop /\ limit \in Int /\ overrun \in Int /\ Slop \in Nat
    BY LimitBounds, EpsAssumption DEF IndInv, TypeOK, overrun
  <2>2. overrun < limit => overrun < Slop
    BY <2>1
  <2> QED BY <2>2 DEF AssertsHold, IndInv, LimitInv, StatusInv
<1> QED BY <1>1, Invariant, PTL

(* CheckedIsAvailable: what CheckSize accepts can be copied or aliased. *)
THEOREM CheckedSizesAreAvailable == Spec => []CheckedIsAvailable
<1>1. IndInv => CheckedIsAvailable
  <2> SUFFICES ASSUME IndInv, NEW n \in 0 .. size, CheckSize(n)
               PROVE  CheckDataSizeAvailable(n)
    BY DEF CheckedIsAvailable
  <2>1. limit <= Slop /\ limit \in Int /\ ptr \in Nat /\ end \in Nat
        /\ limit_ptr = end + UPB_MIN(0, limit) /\ Slop \in Nat /\ size \in Nat
    BY LimitBounds, EpsAssumption DEF IndInv, TypeOK, LimitInv
  <2> QED BY <2>1 DEF CheckSize, CheckDataSizeAvailable, overrun, UPB_MIN
<1> QED BY <1>1, Invariant, PTL

\* Every operation is one of the abstract stream's, or none.
LEMMA StepRefines == IndInv /\ [Next]_vars => [Delimited!Next]_Delimited!vars
<1> SUFFICES ASSUME IndInv, [Next]_vars PROVE [Delimited!Next]_Delimited!vars
  OBVIOUS
<1> USE EpsAssumption
<1>0. /\ ptr \in Nat /\ limit \in Int /\ limit_ptr \in Int /\ end \in Nat
      /\ input_delta \in Nat /\ overrun = ptr - end /\ overrun \in Int
      /\ limit_ptr <= end /\ limit_ptr <= end + limit
      /\ Top = end + input_delta + limit
      /\ Delimited!Top = Top /\ Top \in Nat
      /\ GetInputPtr(ptr) = ptr + input_delta
      /\ Slop \in Nat /\ MaxSize \in Nat
  <2>1. Len(limits) \in 1 .. Len(limits) BY DEF IndInv, TypeOK
  <2>2. Top \in Nat BY <2>1 DEF Top, IndInv, TypeOK
  <2> QED BY <2>2, LimitBounds
      DEF IndInv, TypeOK, LimitInv, EndPos, overrun, GetInputPtr, Top, Delimited!Top
<1>1. CASE IsDoneNotDone
  <2>1. GetInputPtr(ptr) < Top /\ UNCHANGED <<ptr, input_delta, limits>>
    BY <1>0, <1>1 DEF IsDoneNotDone, stream
  <2> QED BY <1>0, <1>1, <2>1
      DEF IsDoneNotDone, Delimited!Next, Delimited!IsDone, GetInputPtr
<1>2. CASE IsDoneDone
  <2>1. GetInputPtr(ptr) = Top /\ UNCHANGED <<ptr, input_delta, limits>>
    BY <1>0, <1>2 DEF IsDoneDone, stream
  <2> QED BY <1>0, <1>2, <2>1
      DEF IsDoneDone, Delimited!Next, Delimited!IsDone, GetInputPtr
<1>3. CASE IsDoneFallbackFlip
  <2>1. GetInputPtr(ptr) < Top
    BY <1>0, <1>3 DEF IsDoneFallbackFlip
  <2>2. input_delta = 0
    <3>1. ptr >= limit_ptr /\ overrun < limit
      BY <1>3 DEF IsDoneFallbackFlip, NeedFallback
    <3>2. limit > 0
      BY <1>0, <3>1 DEF IndInv, LimitInv, UPB_MIN
    <3> QED BY <1>0, <3>2, LimitBounds DEF IndInv, BufferInv, TypeOK
  <2>3. ptr' = overrun /\ input_delta' = ptr - overrun
    BY <1>3 DEF IsDoneFallbackFlip, new_start, FlippedDelta
  <2>4. ptr' + input_delta' = ptr + input_delta
    BY <1>0, <2>2, <2>3
  <2> QED BY <1>0, <1>3, <2>1, <2>4
      DEF IsDoneFallbackFlip, NeedFallback, Delimited!Next, Delimited!IsDone, GetInputPtr
<1>4. CASE IsDoneFallbackError
  <2>1. Top < GetInputPtr(ptr) /\ UNCHANGED <<ptr, input_delta, limits>>
    BY <1>0, <1>4 DEF IsDoneFallbackError, stream
  <2> QED BY <1>0, <1>4, <2>1
      DEF IsDoneFallbackError, NeedFallback, Delimited!Next, Delimited!IsDone, GetInputPtr
<1>5. ASSUME NEW n \in 1 .. Slop, ReadField(n) PROVE Delimited!Read
  BY <1>0, <1>5 DEF ReadField, stream, Delimited!Read, GetInputPtr
<1>6. CASE EndField
  BY <1>0, <1>6 DEF EndField, stream, Delimited!Next, Delimited!Finish, GetInputPtr
<1>7. ASSUME NEW n \in 0 .. MaxSize + Slop, SkipAvailable(n) PROVE Delimited!Finish
  BY <1>0, <1>7 DEF SkipAvailable, CheckDataSizeAvailable, stream,
                    Delimited!Finish, GetInputPtr
<1>8. ASSUME NEW n \in 0 .. MaxSize + Slop, SkipChecked(n) PROVE Delimited!Finish
  BY <1>0, <1>8 DEF SkipChecked, CheckSize, stream, Delimited!Finish, GetInputPtr
<1>9. ASSUME NEW n \in 0 .. MaxSize + Slop, PushLimit(n) PROVE Delimited!Push
  <2>1. GetInputPtr(ptr) + n \in GetInputPtr(ptr) .. Top
    BY <1>0, <1>9 DEF PushLimit, CheckSize
  <2> QED BY <1>0, <1>9, <2>1 DEF PushLimit, Delimited!Push, GetInputPtr
<1>10. ASSUME NEW n \in 0 .. MaxSize + Slop, TryParseDelimitedFast(n)
       PROVE  Delimited!Push
  <2>1. GetInputPtr(ptr) + n \in GetInputPtr(ptr) .. Top
    BY <1>0, <1>10 DEF TryParseDelimitedFast, CheckSubMessageSizeAvailable
  <2> QED BY <1>0, <1>10, <2>1 DEF TryParseDelimitedFast, Delimited!Push, GetInputPtr
<1>11. CASE Malformed
  BY <1>11 DEF Malformed, stream, Delimited!Next, Delimited!Reject, GetInputPtr
<1>12. status = "done" => GetInputPtr(ptr) = Top
  BY <1>0 DEF IndInv, StatusInv
<1>13. CASE PopLimit \/ ParseDelimitedFastEnd
  <2>1. /\ status = "done" /\ status' = "ask" /\ limits' = Unnested(limits)
        /\ UNCHANGED <<ptr, input_delta>> /\ Len(frames) > 0
    BY <1>13 DEF PopLimit, ParseDelimitedFastEnd
  <2>2. Len(limits) > 1
    BY <2>1 DEF IndInv, TypeOK
  <2> QED BY <1>0, <1>12, <2>1, <2>2
      DEF Delimited!Next, Delimited!Pop, Unnested, GetInputPtr
<1>14. CASE UNCHANGED vars
  BY <1>14 DEF vars, Delimited!vars, GetInputPtr
<1> QED BY <1>1, <1>2, <1>3, <1>4, <1>5, <1>6, <1>7, <1>8, <1>9, <1>10, <1>11,
           <1>13, <1>14 DEF Next, Delimited!Next

(* The stream with its two buffers and relative limits implements the      *)
(* plain stream with a stack of absolute limits.                           *)
THEOREM Refinement == Spec => DelimitedSpec
<1>1. Init => Delimited!Init
  BY EpsAssumption DEF Init, Delimited!Init, GetInputPtr
<1> QED BY <1>1, StepRefines, Invariant, PTL DEF Spec, DelimitedSpec, Delimited!Spec
================================================================================

---------------------------- MODULE Playback_proof ---------------------------
(***************************************************************************)
(* Proofs about Playback for any ring size, frame size and chunk sizes.    *)
(***************************************************************************)
EXTENDS Playback, TLAPS

\* One wrap at most: the index arithmetic of the ring.
LEMMA Wrap ==
    ASSUME NEW S \in Nat \ {0}, NEW a \in 0..(S - 1), NEW b \in 0..S
    PROVE  (a + b) % S = IF a + b < S THEN a + b ELSE a + b - S
  OBVIOUS

\* Two moves after one another wrap as one move does.
LEMMA WrapTwice ==
    ASSUME NEW S \in Nat \ {0}, NEW a \in 0..(S - 1), NEW b \in Nat,
           NEW c \in Nat, b + c <= S
    PROVE  /\ ((a + b) % S) \in 0..(S - 1)
           /\ (((a + b) % S) + c) % S = (a + (b + c)) % S
  <1>0. b \in 0..S /\ c \in 0..S /\ b + c \in 0..S
    OBVIOUS
  <1>1. (a + b) % S = IF a + b < S THEN a + b ELSE a + b - S
    BY <1>0, Wrap
  <1> DEFINE d == (a + b) % S
  <1>2. d \in 0..(S - 1)
    BY <1>0, <1>1
  <1>3. d = IF a + b < S THEN a + b ELSE a + b - S
    BY <1>1
  <1>4. (a + (b + c)) % S = IF a + (b + c) < S THEN a + (b + c)
                            ELSE a + (b + c) - S
    BY <1>0, Wrap
  <1> HIDE DEF d
  <1>5. (d + c) % S = IF d + c < S THEN d + c ELSE d + c - S
    BY <1>0, <1>2, Wrap
  <1>6. (d + c) % S = (a + (b + c)) % S
    BY <1>0, <1>2, <1>3, <1>4, <1>5
  <1> QED BY <1>2, <1>6 DEF d

\* A function on 1..n is a sequence.
LEMMA IsSequence ==
    ASSUME NEW n \in Nat, NEW f \in [1..n -> Nat]
    PROVE  f \in Seq(Nat) /\ Len(f) = n
  OBVIOUS

\* Sequences with the same elements are equal.
LEMMA SameSequence ==
    ASSUME NEW p \in Seq(Nat), NEW q \in Seq(Nat), Len(p) = Len(q),
           \A k \in 1..Len(p) : p[k] = q[k]
    PROVE  p = q
  OBVIOUS

\* A pipe after n bytes are pushed, the first of them number s + 1.
Pushed(p, n, s) == p \o [i \in 1..n |-> s + i]

\* The elements of a pipe after a push.
LEMMA PushElements ==
    ASSUME NEW p \in Seq(Nat), NEW n \in Nat, NEW s \in Nat
    PROVE  /\ Pushed(p, n, s) \in Seq(Nat)
           /\ Len(Pushed(p, n, s)) = Len(p) + n
           /\ \A k \in 1..(Len(p) + n) :
                Pushed(p, n, s)[k] = IF k <= Len(p) THEN p[k] ELSE s + (k - Len(p))
  BY DEF Pushed

\* The two parts of a pipe that a pop cuts it into.
LEMMA PopElements ==
    ASSUME NEW p \in Seq(Nat), NEW n \in Nat, n <= Len(p)
    PROVE  /\ SubSeq(p, 1, n) \in Seq(Nat)
           /\ Len(SubSeq(p, 1, n)) = n
           /\ \A k \in 1..n : SubSeq(p, 1, n)[k] = p[k]
           /\ SubSeq(p, n + 1, Len(p)) \in Seq(Nat)
           /\ Len(SubSeq(p, n + 1, Len(p))) = Len(p) - n
           /\ \A k \in 1..(Len(p) - n) : SubSeq(p, n + 1, Len(p))[k] = p[k + n]
  OBVIOUS

------------------------------------------------------------------------------
(* Types and life cycle *)

\* When the ring exists, who may use it, and what the main thread holds.
Lifecycle ==
    /\ ring = "active" => callback # "off"
    /\ callback # "off" => ring = "active" \/ (ring = "freed" /\ stopFailed)
    /\ streaming => ring = "active"
    /\ main \in {"play", "notFull"} => streaming /\ chunk \in ChunkSizes
    /\ main = "stop" => ring = "active" /\ ~streaming
    /\ ring = "active" /\ ~streaming => main = "stop"
    /\ ring = "freed" => should_exit

\* The write position is where the oldest byte and the fill count put it.
Positions == ring = "active" => write_pos = (read_pos + used) % Size

IInv == TypeOK /\ Lifecycle /\ Positions

LEMMA IInvInit == Init => IInv
  <1> SUFFICES ASSUME Init PROVE IInv
    OBVIOUS
  <1> USE PlaybackAssumption
  <1>1. /\ buffer \in [0..(Size - 1) -> Nat]
        /\ used \in 0..Size
        /\ read_pos \in 0..(Size - 1)
        /\ write_pos \in 0..(Size - 1)
    BY DEF Init
  <1>2. should_exit \in BOOLEAN /\ streaming \in BOOLEAN /\ stopFailed \in BOOLEAN
    BY DEF Init
  <1>3. played \in Seq(Nat)
    BY DEF Init
  <1>4. Lifecycle /\ Positions
    BY DEF Init, Lifecycle, Positions
  <1> QED BY <1>1, <1>2, <1>3, <1>4 DEF Init, IInv, TypeOK

\* What the copies of write_audio_buffer leave at every index.
LEMMA CopyInTyping ==
    ASSUME TypeOK, NEW n \in Nat, n <= Size
    PROVE  CopyIn(n) \in [0..(Size - 1) -> Nat]
  BY PlaybackAssumption DEF CopyIn, TypeOK

\* What the copies of read_audio_buffer return.
LEMMA CopyOutTyping ==
    ASSUME TypeOK
    PROVE  CopyOut(Frame) \in [1..Frame -> Nat]
  BY PlaybackAssumption DEF CopyOut, TypeOK

LEMMA IInvStep == IInv /\ [Next]_vars => IInv'
  <1> SUFFICES ASSUME IInv, [Next]_vars PROVE IInv'
    OBVIOUS
  <1>0. TypeOK /\ Lifecycle /\ Positions BY DEF IInv
  <1>a. /\ Size \in Nat \ {0} /\ Frame \in 1..Size /\ ChunkSizes \subseteq Nat
    BY PlaybackAssumption
  <1>1. ASSUME NEW n \in ChunkSizes, ReceiveBinary(n) PROVE IInv'
    <2>1. CASE streaming
      BY <1>0, <1>1, <1>a, <2>1
         DEF ReceiveBinary, play_audio_chunk, start_streaming_audio_playback,
           init_audio_ring_buffer, ringVars, IInv, TypeOK, Lifecycle, Positions
    <2>2. CASE ~streaming
      <3>1. /\ buffer' \in [0..(Size - 1) -> Nat]
            /\ used' = 0 /\ read_pos' = 0 /\ write_pos' = 0
            /\ 0 \in 0..Size /\ 0 \in 0..(Size - 1)
        BY <1>1, <1>a, <2>2 DEF ReceiveBinary, play_audio_chunk, start_streaming_audio_playback,
           init_audio_ring_buffer
      <3>2. Positions'
        BY <1>a, <3>1 DEF Positions
      <3> QED BY <1>0, <1>1, <1>a, <2>2, <3>1, <3>2
              DEF ReceiveBinary, play_audio_chunk, start_streaming_audio_playback,
           init_audio_ring_buffer, IInv, TypeOK, Lifecycle
    <2> QED BY <2>1, <2>2
  <1>2. CASE Write
    <2>0. chunk \in ChunkSizes /\ chunk \in Nat /\ ring = "active"
      BY <1>0, <1>2, <1>a DEF Write, Lifecycle
    <2>1. CASE used + chunk > Size
      BY <1>0, <1>2, <2>0, <2>1
         DEF Write, ringVars, IInv, TypeOK, Lifecycle, Positions
    <2>2. CASE ~(used + chunk > Size)
      <3>0. used \in Nat /\ used + chunk <= Size /\ chunk <= Size
        BY <1>0, <1>a, <2>0, <2>2 DEF TypeOK
      <3>1. buffer' \in [0..(Size - 1) -> Nat]
        BY <1>0, <1>2, <2>0, <2>2, <3>0, CopyInTyping DEF Write
      <3>2. used' = used + chunk /\ used' \in 0..Size
        BY <1>a, <1>2, <2>0, <2>2, <3>0 DEF Write
      <3>3. /\ write_pos' = (write_pos + chunk) % Size
            /\ write_pos' \in 0..(Size - 1)
            /\ read_pos' = read_pos
        BY <1>0, <1>a, <1>2, <2>0, <2>2 DEF Write, TypeOK
      <3>4. (write_pos + chunk) % Size = (read_pos + (used + chunk)) % Size
        <4>1. /\ read_pos \in 0..(Size - 1)
              /\ write_pos = (read_pos + used) % Size
          BY <1>0, <2>0 DEF Positions, TypeOK
        <4>2. (((read_pos + used) % Size) + chunk) % Size
                = (read_pos + (used + chunk)) % Size
          BY <1>a, <2>0, <3>0, <4>1, WrapTwice
        <4> QED BY <4>1, <4>2
      <3>5. Positions'
        BY <1>0, <1>a, <2>0, <3>0, <3>2, <3>3, <3>4 DEF Positions, TypeOK
      <3>6. sent' \in Nat /\ main' = "loop" /\ callback' # "off"
            /\ callback' \in {"off", "idle", "read", "notEmpty"}
            /\ UNCHANGED <<chunk, should_exit, streaming, ring, stopFailed, played>>
        BY <1>0, <1>2, <2>0, <2>2 DEF Write, SignalNotEmpty, TypeOK, Lifecycle
      <3>7. TypeOK'
        BY <1>0, <3>1, <3>2, <3>3, <3>6 DEF TypeOK
      <3>8. Lifecycle'
        BY <1>0, <1>2, <2>0, <3>6 DEF Lifecycle, Write
      <3> QED BY <3>5, <3>7, <3>8 DEF IInv
    <2> QED BY <2>1, <2>2
  <1>3. CASE Read
    <2>0. ring = "active"
      BY <1>0, <1>3 DEF Read, Lifecycle
    <2>1. CASE used < Frame
      BY <1>0, <1>3, <2>0, <2>1
         DEF Read, IInv, TypeOK, Lifecycle, Positions
    <2>2. CASE ~(used < Frame)
      <3>0. used \in Nat /\ Frame \in Nat /\ Frame <= used /\ used <= Size
        BY <1>0, <1>a, <2>2 DEF TypeOK
      <3>1. used' = used - Frame /\ used' \in 0..Size
        BY <1>a, <1>3, <2>2, <3>0 DEF Read
      <3>2. /\ read_pos' = (read_pos + Frame) % Size
            /\ read_pos' \in 0..(Size - 1)
            /\ write_pos' = write_pos
        BY <1>0, <1>a, <1>3, <2>2, <3>0 DEF Read, TypeOK
      <3>3. (read_pos' + used') % Size = (read_pos + used) % Size
        <4>1. used - Frame \in Nat /\ Frame + (used - Frame) = used
          BY <3>0
        <4>2. read_pos \in 0..(Size - 1)
          BY <1>0 DEF TypeOK
        <4>3. (((read_pos + Frame) % Size) + (used - Frame)) % Size
                = (read_pos + (Frame + (used - Frame))) % Size
          BY <1>a, <3>0, <4>1, <4>2, WrapTwice
        <4> QED BY <3>1, <3>2, <4>1, <4>3
      <3>4. Positions'
        BY <1>0, <2>0, <3>2, <3>3 DEF Positions
      <3>5. played' \in Seq(Nat)
        <4>1. CopyOut(Frame) \in Seq(Nat)
          <5>1. CopyOut(Frame) \in [1..Frame -> Nat]
            BY <1>0, CopyOutTyping
          <5> HIDE DEF CopyOut
          <5> QED BY <3>0, <5>1, IsSequence
        <4>2. played \in Seq(Nat) /\ played' = played \o CopyOut(Frame)
          BY <1>0, <1>3, <2>2 DEF Read, TypeOK
        <4> QED BY <4>1, <4>2
      <3>6. /\ main' \in {"loop", "play", "stop", "exit", "crashed"}
            /\ (main' = "play" => main \in {"play", "notFull"})
            /\ (main' = "stop" => main = "stop")
            /\ (main = "stop" => main' = "stop")
            /\ callback' = "idle"
            /\ UNCHANGED <<chunk, should_exit, streaming, ring, buffer, stopFailed, sent>>
        BY <1>0, <1>3, <2>2 DEF Read, SignalNotFull, TypeOK
      <3>7. TypeOK'
        BY <1>0, <3>1, <3>2, <3>5, <3>6 DEF TypeOK
      <3>8. Lifecycle'
        BY <1>0, <2>0, <3>6 DEF Lifecycle
      <3> QED BY <3>4, <3>7, <3>8 DEF IInv
    <2> QED BY <2>1, <2>2
  <1>4. CASE Callback
    BY <1>0, <1>4 DEF Callback, ringVars, IInv, TypeOK, Lifecycle, Positions
  <1>5. CASE Closed
    BY <1>0, <1>5
       DEF Closed, BeginStop, ringVars, IInv, TypeOK, Lifecycle, Positions
  <1>6. CASE Signal
    BY <1>0, <1>6 DEF Signal, ringVars, IInv, TypeOK, Lifecycle, Positions
  <1>7. CASE CleanupAudio
    BY <1>0, <1>7 DEF CleanupAudio, ringVars, IInv, TypeOK, Lifecycle, Positions
  <1>8. CASE StopStream
    <2>1. should_exit' = TRUE /\ should_exit' \in BOOLEAN
      BY <1>8, Zenon DEF StopStream, StopReturned
    <2> QED BY <1>0, <1>8, <2>1 DEF StopStream, StopReturned, cleanup_audio_ring_buffer,
            ringVars, IInv, TypeOK, Lifecycle, Positions
  <1>10. CASE StopStreamFails
    <2>1. /\ should_exit' = TRUE /\ should_exit' \in BOOLEAN
          /\ stopFailed' = TRUE /\ stopFailed' \in BOOLEAN
      BY <1>10, Zenon DEF StopStreamFails, StopReturned
    <2> QED BY <1>0, <1>10, <2>1 DEF StopStreamFails, StopReturned,
            cleanup_audio_ring_buffer, ringVars, IInv, TypeOK, Lifecycle, Positions
  <1>11. CASE CallbackFreed
    BY <1>0, <1>11 DEF CallbackFreed, ringVars, IInv, TypeOK, Lifecycle, Positions
  <1>9. CASE UNCHANGED vars
    BY <1>0, <1>9 DEF vars, ringVars, IInv, TypeOK, Lifecycle, Positions
  <1> QED BY <1>1, <1>2, <1>3, <1>4, <1>5, <1>6, <1>7, <1>8, <1>9,
             <1>10, <1>11 DEF Next

\* Type correctness: used never exceeds the size of the ring and both
\* positions stay inside it (audio.c lines 451-518).
THEOREM PlaybackTypeCorrect == Spec => []TypeOK
  <1>1. IInv => TypeOK
    BY DEF IInv
  <1> QED BY <1>1, IInvInit, IInvStep, PTL DEF Spec

\* The ring is never released under the callback of a stream that PortAudio has
\* stopped (audio.c lines 683-705).
THEOREM NeverUsedAfterFree == Spec => []NoUseAfterFree
  <1>1. IInv => NoUseAfterFree
    BY DEF IInv, Lifecycle, NoUseAfterFree
  <1> QED BY <1>1, IInvInit, IInvStep, PTL DEF Spec

------------------------------------------------------------------------------
(* The ring is a first-in first-out pipe *)

\* The index of the k-th oldest byte of a ring read from position r.
LEMMA IndexWraps ==
    ASSUME NEW r \in 0..(Size - 1), NEW k \in 1..Size
    PROVE  /\ (r + (k - 1)) % Size \in 0..(Size - 1)
           /\ (r + (k - 1)) % Size = IF r + (k - 1) < Size THEN r + (k - 1)
                                     ELSE r + (k - 1) - Size
  <1>1. Size \in Nat \ {0} /\ k - 1 \in 0..Size
    BY PlaybackAssumption
  <1>2. (r + (k - 1)) % Size = IF r + (k - 1) < Size THEN r + (k - 1)
                               ELSE r + (k - 1) - Size
    BY <1>1, Wrap
  <1>3. (r + (k - 1)) % Size \in 0..(Size - 1)
    BY <1>1, <1>2
  <1> QED BY <1>2, <1>3

\* The u oldest bytes of an array b read from position r.
Slice(b, u, r) == [k \in 1..u |-> b[(r + (k - 1)) % Size]]

\* The contents of a ring are a sequence of bytes.
LEMMA ContentsTyping ==
    ASSUME NEW b \in [0..(Size - 1) -> Nat], NEW u \in 0..Size,
           NEW r \in 0..(Size - 1)
    PROVE  /\ Slice(b, u, r) \in Seq(Nat)
           /\ Len(Slice(b, u, r)) = u
           /\ \A k \in 1..u : Slice(b, u, r)[k] = b[(r + (k - 1)) % Size]
  <1>1. u \in Nat /\ u <= Size /\ Size \in Nat
    BY PlaybackAssumption
  <1>2. ASSUME NEW k \in 1..u PROVE b[(r + (k - 1)) % Size] \in Nat
    <2>1. k \in 1..Size BY <1>1
    <2>2. (r + (k - 1)) % Size \in 0..(Size - 1)
      BY <2>1, IndexWraps
    <2> QED BY <2>2
  <1>3. Slice(b, u, r) \in [1..u -> Nat]
    BY <1>2 DEF Slice
  <1>4. Slice(b, u, r) \in Seq(Nat) /\ Len(Slice(b, u, r)) = u
    BY <1>1, <1>3, IsSequence
  <1>5. \A k \in 1..u : Slice(b, u, r)[k] = b[(r + (k - 1)) % Size]
    BY DEF Slice
  <1> QED BY <1>4, <1>5

\* write_audio_buffer appends the chunk to the contents.
LEMMA WriteAppends ==
    ASSUME IInv, TypeOK', ring = "active", Write, ~(used + chunk > Size)
    PROVE  Contents' = Contents \o [i \in 1..chunk |-> sent + i]
  <1> DEFINE q == Contents \o [i \in 1..chunk |-> sent + i]
  <1>0. /\ Size \in Nat \ {0} /\ read_pos \in 0..(Size - 1)
        /\ write_pos \in 0..(Size - 1) /\ used \in 0..Size
        /\ chunk \in Nat /\ sent \in Nat /\ used + chunk <= Size
        /\ TypeOK
    BY PlaybackAssumption DEF IInv, TypeOK
  <1>1. /\ buffer' = CopyIn(chunk) /\ read_pos' = read_pos
        /\ used' = used + chunk
    BY DEF Write
  <1>2. /\ Contents \in Seq(Nat) /\ Len(Contents) = used
        /\ \A k \in 1..used : Contents[k] = buffer[(read_pos + (k - 1)) % Size]
    <2>1. /\ buffer \in [0..(Size - 1) -> Nat] /\ used \in 0..Size
          /\ read_pos \in 0..(Size - 1)
      BY <1>0 DEF TypeOK
    <2>2. Contents = Slice(buffer, used, read_pos)
      BY DEF Contents, Slice
    <2> QED BY <2>1, <2>2, ContentsTyping
  <1>3. /\ Contents' \in Seq(Nat) /\ Len(Contents') = used + chunk
        /\ \A k \in 1..(used + chunk) :
             Contents'[k] = buffer'[(read_pos + (k - 1)) % Size]
    <2>1. /\ Contents' \in Seq(Nat) /\ Len(Contents') = used'
          /\ \A k \in 1..used' :
               Contents'[k] = buffer'[(read_pos' + (k - 1)) % Size]
      <3>1. /\ buffer' \in [0..(Size - 1) -> Nat] /\ used' \in 0..Size
            /\ read_pos' \in 0..(Size - 1)
        BY DEF TypeOK
      <3>2. Contents' = Slice(buffer', used', read_pos')
        BY DEF Contents, Slice
      <3> QED BY <3>1, <3>2, ContentsTyping
    <2> QED BY <1>1, <2>1
  <1>4. /\ q \in Seq(Nat) /\ Len(q) = used + chunk
        /\ \A k \in 1..(used + chunk) :
             q[k] = IF k <= used THEN Contents[k] ELSE sent + (k - used)
    <2>1. /\ q \in Seq(Nat) /\ Len(q) = Len(Contents) + chunk
          /\ \A k \in 1..(Len(Contents) + chunk) :
               q[k] = IF k <= Len(Contents) THEN Contents[k]
                      ELSE sent + (k - Len(Contents))
      <3>1. q = Pushed(Contents, chunk, sent)
        BY DEF Pushed
      <3>2. Contents \in Seq(Nat) /\ chunk \in Nat /\ sent \in Nat
        BY <1>0, <1>2
      <3> HIDE DEF q
      <3>3. /\ q \in Seq(Nat) /\ Len(q) = Len(Contents) + chunk
            /\ \A k \in 1..(Len(Contents) + chunk) :
                 Pushed(Contents, chunk, sent)[k]
                   = IF k <= Len(Contents) THEN Contents[k]
                     ELSE sent + (k - Len(Contents))
        BY <3>1, <3>2, PushElements, Zenon
      <3> QED BY <3>1, <3>3, Zenon
    <2> HIDE DEF q
    <2> QED BY <1>2, <2>1
  <1>5. write_pos = IF read_pos + used < Size THEN read_pos + used
                    ELSE read_pos + used - Size
    <2>1. write_pos = (read_pos + used) % Size
      BY DEF IInv, Positions
    <2> QED BY <1>0, <2>1, Wrap
  <1> HIDE DEF q
  <1>6. ASSUME NEW k \in 1..(used + chunk) PROVE Contents'[k] = q[k]
    <2> DEFINE j == (read_pos + (k - 1)) % Size
    <2>0. k \in 1..Size /\ k \in Nat BY <1>0
    <2>1. /\ j \in 0..(Size - 1)
          /\ j = IF read_pos + (k - 1) < Size THEN read_pos + (k - 1)
                 ELSE read_pos + (k - 1) - Size
      BY <1>0, <2>0, IndexWraps
    <2>2. Contents'[k] = CopyIn(chunk)[j]
      BY <1>1, <1>3
    <2>3. k <= used => Contents[k] = buffer[j]
      BY <1>0, <1>2
    <2> HIDE DEF j
    <2>4. CASE k <= used
      <3>1. CopyIn(chunk)[j] = buffer[j]
        BY <1>0, <1>5, <2>0, <2>1, <2>4 DEF CopyIn
      <3> QED BY <1>4, <2>2, <2>3, <2>4, <3>1
    <2>5. CASE ~(k <= used)
      <3>1. CopyIn(chunk)[j] = sent + (k - used)
        BY <1>0, <1>5, <2>0, <2>1, <2>5 DEF CopyIn
      <3> QED BY <1>4, <2>2, <2>5, <3>1
    <2> QED BY <2>4, <2>5
  <1>7. Contents' = q
    BY <1>3, <1>4, <1>6, SameSequence
  <1> QED BY <1>7 DEF q

\* read_audio_buffer takes the oldest frame off the contents.
LEMMA ReadTakes ==
    ASSUME IInv, TypeOK', Read, ~(used < Frame)
    PROVE  /\ CopyOut(Frame) = SubSeq(Contents, 1, Frame)
           /\ Contents' = SubSeq(Contents, Frame + 1, Len(Contents))
  <1>0. /\ Size \in Nat \ {0} /\ read_pos \in 0..(Size - 1)
        /\ used \in 0..Size /\ Frame \in 1..Size /\ Frame <= used
        /\ TypeOK
    BY PlaybackAssumption DEF IInv, TypeOK
  <1>1. /\ UNCHANGED buffer /\ read_pos' = (read_pos + Frame) % Size
        /\ used' = used - Frame
    BY DEF Read
  <1>2. /\ Contents \in Seq(Nat) /\ Len(Contents) = used
        /\ \A k \in 1..used : Contents[k] = buffer[(read_pos + (k - 1)) % Size]
    <2>1. /\ buffer \in [0..(Size - 1) -> Nat] /\ used \in 0..Size
          /\ read_pos \in 0..(Size - 1)
      BY <1>0 DEF TypeOK
    <2>2. Contents = Slice(buffer, used, read_pos)
      BY DEF Contents, Slice
    <2> QED BY <2>1, <2>2, ContentsTyping
  <1>3. /\ Contents' \in Seq(Nat) /\ Len(Contents') = used'
        /\ \A k \in 1..used' :
             Contents'[k] = buffer'[(read_pos' + (k - 1)) % Size]
    <2>1. /\ buffer' \in [0..(Size - 1) -> Nat] /\ used' \in 0..Size
          /\ read_pos' \in 0..(Size - 1)
      BY DEF TypeOK
    <2>2. Contents' = Slice(buffer', used', read_pos')
      BY DEF Contents, Slice
    <2> QED BY <2>1, <2>2, ContentsTyping
  <1>4. /\ SubSeq(Contents, 1, Frame) \in Seq(Nat)
        /\ Len(SubSeq(Contents, 1, Frame)) = Frame
        /\ \A k \in 1..Frame : SubSeq(Contents, 1, Frame)[k] = Contents[k]
        /\ SubSeq(Contents, Frame + 1, Len(Contents)) \in Seq(Nat)
        /\ Len(SubSeq(Contents, Frame + 1, Len(Contents))) = used - Frame
        /\ \A k \in 1..(used - Frame) :
             SubSeq(Contents, Frame + 1, Len(Contents))[k] = Contents[k + Frame]
    BY <1>0, <1>2, PopElements
  <1>5. CopyOut(Frame) = SubSeq(Contents, 1, Frame)
    <2>1. CopyOut(Frame) \in Seq(Nat) /\ Len(CopyOut(Frame)) = Frame
      <3>1. CopyOut(Frame) \in [1..Frame -> Nat] /\ Frame \in Nat
        BY <1>0, CopyOutTyping
      <3> QED BY <3>1, IsSequence
    <2>2. ASSUME NEW k \in 1..Frame
          PROVE  CopyOut(Frame)[k] = SubSeq(Contents, 1, Frame)[k]
      <3> DEFINE j == (read_pos + (k - 1)) % Size
      <3>0. k \in 1..Size /\ k \in 1..used BY <1>0
      <3>1. j = IF read_pos + (k - 1) < Size THEN read_pos + (k - 1)
                ELSE read_pos + (k - 1) - Size
        BY <1>0, <3>0, IndexWraps
      <3>2. SubSeq(Contents, 1, Frame)[k] = buffer[j]
        BY <1>2, <1>4, <3>0
      <3> HIDE DEF j
      <3>3. CopyOut(Frame)[k] = buffer[j]
        BY <1>0, <3>0, <3>1 DEF CopyOut
      <3> QED BY <3>2, <3>3
    <2> QED BY <1>4, <2>1, <2>2, SameSequence
  <1>6. Contents' = SubSeq(Contents, Frame + 1, Len(Contents))
    <2>1. ASSUME NEW k \in 1..(used - Frame)
          PROVE  Contents'[k] = SubSeq(Contents, Frame + 1, Len(Contents))[k]
      <3>0. /\ k \in Nat /\ k + Frame \in 1..used /\ k - 1 \in Nat
            /\ Frame \in Nat /\ Frame + (k - 1) <= Size
            /\ Frame + (k - 1) = (k + Frame) - 1
        BY <1>0
      <3>1. (((read_pos + Frame) % Size) + (k - 1)) % Size
              = (read_pos + (Frame + (k - 1))) % Size
        BY <1>0, <3>0, WrapTwice
      <3>2. Contents'[k] = buffer[(((read_pos + Frame) % Size) + (k - 1)) % Size]
        BY <1>1, <1>3
      <3>3. Contents[k + Frame] = buffer[(read_pos + (Frame + (k - 1))) % Size]
        BY <1>2, <3>0
      <3> QED BY <1>4, <3>1, <3>2, <3>3
    <2> QED BY <1>1, <1>3, <1>4, <2>1, SameSequence
  <1> QED BY <1>5, <1>6

\* The contents are empty when the count is.
LEMMA EmptyContents == ASSUME used = 0 PROVE Contents = <<>>
  BY DEF Contents

\* Streaming playback is a first-in first-out pipe of whole frames: the
\* wrap-around copies, the index arithmetic and the two threads of audio.c
\* lines 422-747 implement BytePipe.
THEOREM PlaybackIsPipe == Spec => ImplementsPipe
  <1> DEFINE pipe == IF ring = "active" THEN Contents ELSE <<>>
  <1>1. Init => Pipe!Init
    BY DEF Init, Pipe!Init
  <1>2. IInv /\ IInv' /\ [Next]_vars => [Pipe!Next]_(Pipe!vars)
    <2> SUFFICES ASSUME IInv, IInv', [Next]_vars
                 PROVE  [Pipe!Next]_(Pipe!vars)
      OBVIOUS
    <2>0. TypeOK' /\ Lifecycle /\ TypeOK BY DEF IInv
    <2>1. ASSUME NEW n \in ChunkSizes, ReceiveBinary(n)
          PROVE  UNCHANGED Pipe!vars
      <3>1. CASE streaming
        BY <2>0, <2>1, <3>1 DEF ReceiveBinary, play_audio_chunk, start_streaming_audio_playback,
           init_audio_ring_buffer, Lifecycle, Pipe!vars, Contents, ringVars
      <3>2. CASE ~streaming
        <4>1. ring # "active" /\ ring' = "active" /\ used' = 0
          BY <2>0, <2>1, <3>2 DEF ReceiveBinary, play_audio_chunk, start_streaming_audio_playback,
           init_audio_ring_buffer, Lifecycle
        <4>2. Contents' = <<>>
          BY <4>1 DEF Contents
        <4> QED BY <2>1, <4>1, <4>2 DEF ReceiveBinary, play_audio_chunk, start_streaming_audio_playback,
           init_audio_ring_buffer, Pipe!vars
      <3> QED BY <3>1, <3>2
    <2>2. CASE Write
      <3>0. ring = "active" /\ ring' = "active" /\ chunk \in ChunkSizes
        BY <2>0, <2>2 DEF Write, Lifecycle
      <3>1. CASE used + chunk > Size
        BY <2>2, <3>0, <3>1 DEF Write, ringVars, Pipe!vars, Contents
      <3>2. CASE ~(used + chunk > Size)
        <4>1. Contents' = Contents \o [i \in 1..chunk |-> sent + i]
          BY <2>0, <2>2, <3>0, <3>2, WriteAppends
        <4>2. sent' = sent + chunk /\ UNCHANGED played
          BY <2>2, <3>2 DEF Write
        <4>3. Pipe!Push(chunk)
          BY <3>0, <4>1, <4>2 DEF Pipe!Push
        <4> QED BY <3>0, <4>3 DEF Pipe!Next
      <3> QED BY <3>1, <3>2
    <2>3. CASE Read
      <3>0. ring = "active" /\ ring' = "active"
        BY <2>0, <2>3 DEF Read, Lifecycle
      <3>1. CASE used < Frame
        BY <2>3, <3>0, <3>1 DEF Read, Pipe!vars, Contents
      <3>2. CASE ~(used < Frame)
        <4>1. /\ CopyOut(Frame) = SubSeq(Contents, 1, Frame)
              /\ Contents' = SubSeq(Contents, Frame + 1, Len(Contents))
          BY <2>0, <2>3, <3>2, ReadTakes
        <4>2. played' = played \o CopyOut(Frame) /\ UNCHANGED sent
          BY <2>3, <3>2 DEF Read
        <4>3. Len(Contents) >= Frame
          <5>1. /\ buffer \in [0..(Size - 1) -> Nat] /\ used \in 0..Size
                /\ read_pos \in 0..(Size - 1) /\ Size \in Nat /\ Frame \in Nat
            BY <2>0, PlaybackAssumption DEF TypeOK
          <5>2. Contents = Slice(buffer, used, read_pos)
            BY DEF Contents, Slice
          <5>3. Len(Contents) = used
            BY <5>1, <5>2, ContentsTyping
          <5> QED BY <3>2, <5>1, <5>3
        <4>4. Pipe!Pop
          BY <3>0, <4>1, <4>2, <4>3 DEF Pipe!Pop
        <4> QED BY <4>4 DEF Pipe!Next
      <3> QED BY <3>1, <3>2
    <2>4. CASE StopStream \/ StopStreamFails
      <3>1. Pipe!Shut
        BY <2>4 DEF StopStream, StopStreamFails, StopReturned,
           cleanup_audio_ring_buffer, Pipe!Shut
      <3> QED BY <3>1 DEF Pipe!Next
    <2>5. CASE UNCHANGED <<ring, ringVars, sent, played>>
      BY <2>5 DEF ringVars, Pipe!vars, Contents
    <2> QED BY <2>1, <2>2, <2>3, <2>4, <2>5
            DEF Next, Callback, CallbackFreed, Closed, Signal, CleanupAudio, vars
  <1> QED BY <1>1, <1>2, IInvInit, IInvStep, PTL
          DEF Spec, ImplementsPipe, Pipe!Spec
==============================================================================

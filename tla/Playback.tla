------------------------------ MODULE Playback -------------------------------
(***************************************************************************)
(* Streaming playback of the C doll: the ring buffer and the streaming     *)
(* functions of doll-replica-c/audio.c, driven by the main thread (the     *)
(* libwebsockets callback of websocket_client.c and the shut-down in       *)
(* main.c) and by PortAudio's callback thread.                             *)
(*                                                                         *)
(* A critical section of the ring's mutex is one step; waiting on a        *)
(* condition variable is a state of its own that only a signal ends.       *)
(* PortAudio is external: it calls the callback of a running stream again  *)
(* and again, and Pa_StopStream returns when no call is in progress, or    *)
(* fails and leaves the stream running.  libwebsockets is external too.    *)
(*                                                                         *)
(* ASSUMED: one thread at a time is inside the callback of the WebSocket.  *)
(* The program does not see to that: the input thread calls lws_service    *)
(* too (input_handler.c lines 105 and 107), and while one thread writes to *)
(* the ring, or waits for room in it, the other may deliver the close and  *)
(* free it.  So what is shown here holds as long as the input thread never *)
(* gets to deliver audio or the close.                                     *)
(***************************************************************************)
EXTENDS Naturals, Sequences

CONSTANTS Size,         \* capacity of the ring (1 MB in the code)
          Frame,        \* bytes one callback needs (512)
          ChunkSizes,   \* lengths of the binary fragments received
          MaxBytes      \* bound on the bytes received in a behaviour

ASSUME PlaybackAssumption ==
    /\ Size \in Nat \ {0}
    /\ Frame \in 1..Size
    /\ ChunkSizes \subseteq Nat
    /\ MaxBytes \in Nat

VARIABLES
    main,          \* main thread: "loop", "play", "notFull", "stop", "exit";
                   \* "crashed" when the process is gone
    chunk,         \* length of the fragment play_audio_chunk has in hand
    should_exit,
    streaming,     \* streaming_audio_active
    ring,          \* streaming_ring_buffer: "none", "active" or "freed"
    buffer, used, read_pos, write_pos,      \* the AudioRingBuffer
    callback,      \* PortAudio thread: "off", "idle", "read", "notEmpty"
    stopFailed,    \* Pa_StopStream has failed, and its stream still runs
    sent,          \* bytes written so far; byte number i is the i-th written
    played         \* bytes handed to the device, silence left out

ringVars == <<buffer, used, read_pos, write_pos>>
vars == <<main, chunk, should_exit, streaming, ring, ringVars, callback,
          stopFailed, sent, played>>

TypeOK ==
    /\ main \in {"loop", "play", "notFull", "stop", "exit", "crashed"}
    /\ chunk \in Nat
    /\ should_exit \in BOOLEAN
    /\ streaming \in BOOLEAN
    /\ ring \in {"none", "active", "freed"}
    /\ buffer \in [0..(Size - 1) -> Nat]
    /\ used \in 0..Size
    /\ read_pos \in 0..(Size - 1)
    /\ write_pos \in 0..(Size - 1)
    /\ callback \in {"off", "idle", "read", "notEmpty"}
    /\ stopFailed \in BOOLEAN
    /\ sent \in Nat
    /\ played \in Seq(Nat)

Init ==
    /\ main = "loop"
    /\ chunk = 0
    /\ should_exit = FALSE
    /\ streaming = FALSE
    /\ ring = "none"
    /\ buffer = [i \in 0..(Size - 1) |-> 0]
    /\ used = 0
    /\ read_pos = 0
    /\ write_pos = 0
    /\ callback = "off"
    /\ stopFailed = FALSE
    /\ sent = 0
    /\ played = <<>>

------------------------------------------------------------------------------
(* The ring buffer *)

\* Mutant: the part after the wrap is copied from the start of the data.
CopyInNoOffset(n) ==
    LET first == IF Size - write_pos > n THEN n ELSE Size - write_pos IN
    [i \in 0..(Size - 1) |->
        IF i >= write_pos /\ i < write_pos + first THEN sent + 1 + (i - write_pos)
        ELSE IF i < n - first THEN sent + 1 + i
        ELSE buffer[i]]

\* The two memcpy of write_audio_buffer: up to the end of the array, then
\* from its start.  The k-th byte of the data is byte sent + k.
CopyIn(n) ==
    LET first == IF Size - write_pos > n THEN n ELSE Size - write_pos IN
    [i \in 0..(Size - 1) |->
        IF i >= write_pos /\ i < write_pos + first THEN sent + 1 + (i - write_pos)
        ELSE IF i < n - first THEN sent + 1 + first + i
        ELSE buffer[i]]

\* The two memcpy of read_audio_buffer.
CopyOut(n) ==
    LET first == IF Size - read_pos > n THEN n ELSE Size - read_pos IN
    [k \in 1..n |-> IF k <= first THEN buffer[read_pos + k - 1]
                    ELSE buffer[k - first - 1]]

\* pthread_cond_signal on not_empty and on not_full.
SignalNotEmpty == callback' = IF callback = "notEmpty" THEN "read" ELSE callback
SignalNotFull == main' = IF main = "notFull" THEN "play" ELSE main

\* Mutant: the room test is off by one.
WriteLate ==
    /\ main = "play"
    /\ IF used + chunk > Size + 1
       THEN /\ main' = "notFull"
            /\ UNCHANGED <<ringVars, callback, sent>>
       ELSE /\ buffer' = CopyIn(chunk)
            /\ write_pos' = (write_pos + chunk) % Size
            /\ used' = used + chunk
            /\ sent' = sent + chunk
            /\ SignalNotEmpty
            /\ main' = "loop"
            /\ UNCHANGED read_pos
    /\ UNCHANGED <<chunk, should_exit, streaming, ring, stopFailed, played>>

\* Mutant: not_empty is not signalled.
WriteNoSignal ==
    /\ main = "play"
    /\ IF used + chunk > Size
       THEN /\ main' = "notFull"
            /\ UNCHANGED <<ringVars, sent>>
       ELSE /\ buffer' = CopyIn(chunk)
            /\ write_pos' = (write_pos + chunk) % Size
            /\ used' = used + chunk
            /\ sent' = sent + chunk
            /\ main' = "loop"
            /\ UNCHANGED read_pos
    /\ UNCHANGED <<chunk, should_exit, streaming, ring, callback, stopFailed, played>>

\* write_audio_buffer, called or woken: wait for room, or copy and signal.
Write ==
    /\ main = "play"
    /\ IF used + chunk > Size
       THEN /\ main' = "notFull"
            /\ UNCHANGED <<ringVars, callback, sent>>
       ELSE /\ buffer' = CopyIn(chunk)
            /\ write_pos' = (write_pos + chunk) % Size
            /\ used' = used + chunk
            /\ sent' = sent + chunk
            /\ SignalNotEmpty
            /\ main' = "loop"
            /\ UNCHANGED read_pos
    /\ UNCHANGED <<chunk, should_exit, streaming, ring, stopFailed, played>>

\* Mutant: not_full is not signalled.
ReadNoSignal ==
    /\ callback = "read" /\ ring = "active"
    /\ IF used < Frame
       THEN /\ callback' = "notEmpty"
            /\ UNCHANGED <<used, read_pos, played>>
       ELSE /\ played' = played \o CopyOut(Frame)
            /\ read_pos' = (read_pos + Frame) % Size
            /\ used' = used - Frame
            /\ callback' = "idle"
    /\ UNCHANGED <<main, chunk, should_exit, streaming, ring, buffer, write_pos,
                   stopFailed, sent>>

\* read_audio_buffer in the callback, called or woken: wait for a whole
\* frame, or hand it to the device and signal.
Read ==
    /\ callback = "read" /\ ring = "active"
    /\ IF used < Frame
       THEN /\ callback' = "notEmpty"
            /\ UNCHANGED <<used, read_pos, played, main>>
       ELSE /\ played' = played \o CopyOut(Frame)
            /\ read_pos' = (read_pos + Frame) % Size
            /\ used' = used - Frame
            /\ SignalNotFull
            /\ callback' = "idle"
    /\ UNCHANGED <<chunk, should_exit, streaming, ring, buffer, write_pos,
                   stopFailed, sent>>

\* PortAudio calls streaming_playback_callback; without an active ring it
\* returns silence at once.
Callback ==
    /\ callback = "idle" /\ main # "stop"
    /\ callback' = IF ring = "active" THEN "read" ELSE "idle"
    /\ UNCHANGED <<main, chunk, should_exit, streaming, ring, ringVars, stopFailed,
                   sent, played>>

\* The callback goes on with a ring that was released under it.  What it
\* hands to the device then is noise, and the process may end.
CallbackFreed ==
    /\ callback \in {"read", "notEmpty"} /\ ring = "freed"
    /\ \/ callback' = "idle" /\ UNCHANGED main
       \/ callback' = "off" /\ main' = "crashed"
    /\ UNCHANGED <<chunk, should_exit, streaming, ring, ringVars, stopFailed, sent,
                   played>>

------------------------------------------------------------------------------
(* The main thread *)

init_audio_ring_buffer ==
    /\ ring' = "active"
    /\ buffer' = [i \in 0..(Size - 1) |-> 0]
    /\ used' = 0 /\ read_pos' = 0 /\ write_pos' = 0

\* A new ring, and a stream whose callback reads from it.
start_streaming_audio_playback ==
    /\ init_audio_ring_buffer
    /\ callback' = "idle"
    /\ streaming' = TRUE

\* play_audio_chunk up to write_audio_buffer.  It drops an empty fragment, and
\* one for which there is no memory.
play_audio_chunk(n) ==
    /\ chunk' = n
    /\ main' \in (IF n = 0 THEN {"loop"} ELSE {"loop", "play"})

\* LWS_CALLBACK_CLIENT_RECEIVE with a binary fragment of n bytes: playback is
\* started if it is not active.  (A start that fails undoes itself and drops the
\* fragment: nothing changes.)
ReceiveBinary(n) ==
    /\ main = "loop" /\ ~should_exit
    /\ sent + n <= MaxBytes
    /\ IF streaming
       THEN UNCHANGED <<streaming, ring, ringVars, callback>>
       ELSE start_streaming_audio_playback
    /\ play_audio_chunk(n)
    /\ UNCHANGED <<should_exit, stopFailed, sent, played>>

\* stop_streaming_audio_playback up to the call of Pa_StopStream.
BeginStop == IF streaming
             THEN main' = "stop" /\ streaming' = FALSE
             ELSE UNCHANGED <<main, streaming>>

\* LWS_CALLBACK_CLOSED: should_exit is set when playback is stopped.
Closed ==
    /\ main = "loop" /\ ~should_exit
    /\ BeginStop
    /\ should_exit' = ~streaming
    /\ UNCHANGED <<chunk, ring, ringVars, callback, stopFailed, sent, played>>

\* SIGINT or SIGTERM.  (A fragment that the running lws_service call still
\* delivers is the same as one delivered before the signal: neither step
\* looks at what the other changes.)
Signal ==
    /\ ~should_exit
    /\ should_exit' = TRUE
    /\ UNCHANGED <<main, chunk, streaming, ring, ringVars, callback, stopFailed,
                   sent, played>>

\* The main loop ends and cleanup_audio runs.
CleanupAudio ==
    /\ main = "loop" /\ should_exit
    /\ IF streaming THEN main' = "stop" ELSE main' = "exit"
    /\ streaming' = FALSE
    /\ UNCHANGED <<chunk, should_exit, ring, ringVars, callback, stopFailed, sent,
                   played>>

\* Mutant: the ring is released before the stream is stopped.
StopStreamLast ==
    /\ main = "stop"
    /\ ring' = "freed"
    /\ main' = IF callback = "idle" THEN "loop" ELSE "stop"
    /\ callback' = IF callback = "idle" THEN "off" ELSE callback
    /\ should_exit' = (should_exit \/ callback = "idle")
    /\ UNCHANGED <<chunk, streaming, ringVars, stopFailed, sent, played>>

\* The memory, the mutex and the conditions are gone.
cleanup_audio_ring_buffer == ring' = "freed"

\* Behind Pa_StopStream, whatever it returned: the ring is released, and the
\* close callback goes on to set should_exit, which cleanup_audio finds set.
StopReturned ==
    /\ cleanup_audio_ring_buffer
    /\ main' = "loop"
    /\ should_exit' = TRUE
    /\ UNCHANGED <<chunk, streaming, ringVars, sent, played>>

\* Pa_StopStream returns when the callback has; the stream is closed.
StopStream ==
    /\ main = "stop"
    /\ callback = "idle"
    /\ callback' = "off"
    /\ StopReturned
    /\ UNCHANGED stopFailed

\* Pa_StopStream and Pa_CloseStream fail, and nobody looks at their results.
StopStreamFails ==
    /\ main = "stop"
    /\ stopFailed' = TRUE
    /\ StopReturned
    /\ UNCHANGED callback

------------------------------------------------------------------------------
Next ==
    \/ \E n \in ChunkSizes : ReceiveBinary(n)
    \/ Write \/ Closed \/ Signal \/ CleanupAudio
    \/ StopStream \/ StopStreamFails
    \/ Callback \/ Read \/ CallbackFreed

Spec == Init /\ [][Next]_vars

\* Both threads run when they can, PortAudio keeps calling; no network or
\* user event is promised, no failure of PortAudio, nor that main gets to
\* cleanup_audio (it first joins the input thread, which may sit in fgets).
FairSpec == /\ Spec
            /\ WF_vars(Write) /\ WF_vars(StopStream)
            /\ WF_vars(Callback) /\ WF_vars(Read)

------------------------------------------------------------------------------
(* Properties *)

\* What is in the ring, oldest byte first.
Contents == [k \in 1..used |-> buffer[(read_pos + (k - 1)) % Size]]

Pipe == INSTANCE BytePipe WITH
    pipe <- IF ring = "active" THEN Contents ELSE <<>>

\* The ring with its wrap-around copies, its index arithmetic and two threads
\* is a first-in first-out pipe of whole frames.
ImplementsPipe == Pipe!Spec

\* With one thread in lws_service, the ring is released while the callback is
\* inside it only when PortAudio has failed to stop the stream (the code does
\* not look at what Pa_StopStream and Pa_CloseStream return, audio.c lines
\* 692-693).  "Thread-safe audio streaming with mutex locks" (README.md of the
\* doll, line 109) says more than that.
NoUseAfterFree ==
    callback \in {"read", "notEmpty"} => ring = "active" \/ stopFailed

\* play_audio_chunk returns: whoever waits for room is woken when it comes.
WriterReturns == main \in {"play", "notFull"} ~> main \notin {"play", "notFull"}

\* Every whole frame received is played unless playback is stopped.
FramesPlayed ==
    \A k \in 1..(MaxBytes \div Frame) :
        sent >= k * Frame ~> Len(played) >= k * Frame \/ ~streaming

\* Stopping playback ends, so the doll can clean up after the connection is
\* lost.
StopReturns == main = "stop" ~> main # "stop"
==============================================================================

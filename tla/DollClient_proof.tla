------------------------- MODULE DollClient_proof ----------------------------
(***************************************************************************)
(* Proofs about the doll program, for any queue size, recording size and   *)
(* number of lines and attempts.  First its input side: the theorems of    *)
(* the form Spec => ... are about DollInput.  Then the whole program,      *)
(* which implements it and gives back what it takes.                       *)
(***************************************************************************)
EXTENDS DollClient, TLAPS

\* The position after a slot of the circular queue is a slot.
LEMMA NextSlot == \A i \in Slots : (i + 1) % QueueSize \in Slots
  BY DollAssumption DEF Slots

\* Stopping leaves the recording in one of its states, and starts nothing.
LEMMA StopTyping ==
    ASSUME recording_stream \in {"NULL", "running", "stopped"},
           recording_active \in BOOLEAN,
           PaStop \/ UNCHANGED <<recording_stream, recording_active>>
    PROVE  /\ recording_stream' \in {"NULL", "running", "stopped"}
           /\ recording_active' \in BOOLEAN
           /\ recording_active' => recording_active
<1>1. CASE recording_stream' = "NULL" /\ recording_active' = FALSE
  BY <1>1
<1>2. CASE /\ recording_stream' \in {recording_stream, "stopped"}
           /\ recording_active' = recording_active
  BY <1>2
<1> QED BY <1>1, <1>2 DEF PaStop

\* Where a thread may be in the callbacks.
Places == {"none", "get", "write", "rearm", "stopping"}

\* The typing of a state, with the bounds a command in hand relies on.
TypeInv ==
    /\ TypeOK
    /\ input = "add" => accepted < MaxLines
    /\ input = "record" => recordings < MaxLines
    /\ recording_active \/ input \in {"reset", "activate"} => recordings > 0

LEMMA TypeInit == Init => TypeInv
<1> SUFFICES ASSUME Init PROVE TypeInv
    OBVIOUS
<1> USE DollAssumption DEF Init, Places
<1>1. 0 \in Slots /\ 0 \in 0..MaxLines
      BY DEF Slots
<1>2. recording_buffer \in Seq(1..MaxLines) /\ Len(recording_buffer) <= MaxRecording
      OBVIOUS
<1>3. /\ message_queue \in [Slots -> Messages \cup {NoMessage}]
      /\ callback \in [Threads -> Places]
      /\ taken \in [Threads -> Messages \cup {NoMessage}]
      OBVIOUS
<1> QED BY <1>1, <1>2, <1>3 DEF TypeOK, TypeInv

LEMMA TypeStep == TypeInv /\ [Next]_vars => TypeInv'
<1> SUFFICES ASSUME TypeInv, [Next]_vars PROVE TypeInv'
    OBVIOUS
<1> USE DEF queueVars, writeVars, connectionVars, audioVars, TypeInv, Places
<1>1. ASSUME InputLoop \/ Fgets \/ TestConnection \/ InputServiced \/ Upload
      PROVE  TypeInv'
  <2>1. /\ input' \in {"done", "fgets", "arm", "loop", "stop", "add", "record"}
        /\ input' = "add" => accepted < MaxLines
        /\ input' = "record" => recordings < MaxLines
    BY <1>1 DEF InputLoop, Fgets, TestConnection, InputServiced, Upload
  <2>2. UNCHANGED <<queueVars, writeVars, connectionVars, audioVars, main, writable>>
    BY <1>1 DEF InputLoop, Fgets, TestConnection, InputServiced, Upload
  <2> QED BY <2>1, <2>2 DEF TypeOK
<1>2. ASSUME FgetsEof PROVE TypeInv'
  BY <1>2 DEF FgetsEof, TypeOK
<1>3. ASSUME RequestWrite PROVE TypeInv'
  <2>1. writable' \in BOOLEAN /\ crashed' \in BOOLEAN
    BY <1>3 DEF RequestWrite, TypeOK
  <2>2. /\ input' \in {"service", "arm"}
        /\ UNCHANGED <<queueVars, writeVars, should_exit, websocket_connection,
                       audioVars, main>>
    BY <1>3 DEF RequestWrite
  <2> QED BY <2>1, <2>2 DEF TypeOK
<1>4. ASSUME signal_handler PROVE TypeInv'
  BY <1>4 DEF signal_handler, TypeOK
<1>5. ASSUME add_message_to_queue PROVE TypeInv'
  <2>1. CASE next_tail = queue_head
    BY <1>5, <2>1 DEF add_message_to_queue, TypeOK
  <2>2. CASE next_tail # queue_head
    <3>1. accepted' \in 1..MaxLines
      BY <1>5, <2>2, DollAssumption DEF add_message_to_queue, TypeOK
    <3>2. next_tail \in Slots
      BY NextSlot DEF next_tail, TypeOK
    <3>3. message_queue' \in [Slots -> Messages \cup {NoMessage}]
      BY <1>5, <2>2, <3>1 DEF add_message_to_queue, TypeOK, Messages
    <3> QED BY <1>5, <2>2, <3>1, <3>2, <3>3 DEF add_message_to_queue, TypeOK
  <2> QED BY <2>1, <2>2
<1>6. ASSUME StartRecording PROVE TypeInv'
  BY <1>6, DollAssumption DEF StartRecording, TypeOK
<1>7. ASSUME ResetRecording \/ ActivateRecording PROVE TypeInv'
  <2>1. CASE ResetRecording
    <3>1. /\ recording_buffer' \in Seq(1..MaxLines)
          /\ Len(recording_buffer') <= MaxRecording
      BY <2>1, DollAssumption DEF ResetRecording
    <3> QED BY <2>1, <3>1 DEF ResetRecording, TypeOK
  <2>2. CASE ActivateRecording
    BY <2>2 DEF ActivateRecording, TypeOK
  <2> QED BY <1>7, <2>1, <2>2
<1>8. ASSUME recording_callback PROVE TypeInv'
  <2>1. recordings \in 1..MaxLines
    BY <1>8, DollAssumption DEF recording_callback, TypeOK
  <2>2. /\ recording_buffer' \in Seq(1..MaxLines)
        /\ Len(recording_buffer') <= MaxRecording
    BY <1>8, <2>1, DollAssumption DEF recording_callback, TypeOK
  <2> QED BY <1>8, <2>2 DEF recording_callback, TypeOK
<1>9. ASSUME stop_recording PROVE TypeInv'
  <2>1. /\ recording_stream' \in {"NULL", "running", "stopped"}
        /\ recording_active' \in BOOLEAN
        /\ recording_active' => recording_active
    BY <1>9, StopTyping DEF stop_recording, TypeOK
  <2>2. input' \in {"loop", "upload"}
    BY <1>9 DEF stop_recording
  <2> QED BY <1>9, <2>1, <2>2 DEF stop_recording, TypeOK
<1>10. ASSUME NEW t \in Threads, Writeable(t) PROVE TypeInv'
  <2>1. callback' \in [Threads -> Places]
    BY <1>10 DEF Writeable, TypeOK
  <2>2. writable' \in BOOLEAN
    BY <1>10, Zenon DEF Writeable
  <2> QED BY <1>10, <2>1, <2>2 DEF Writeable, TypeOK
<1>11. ASSUME NEW t \in Threads, get_message_from_queue(t) PROVE TypeInv'
  <2>1. callback' \in [Threads -> Places]
    BY <1>11 DEF get_message_from_queue, TypeOK
  <2>2. taken' \in [Threads -> Messages \cup {NoMessage}]
    BY <1>11 DEF get_message_from_queue, TypeOK
  <2>3. queue_head' \in Slots
    BY <1>11, NextSlot DEF get_message_from_queue, TypeOK
  <2> QED BY <1>11, <2>1, <2>2, <2>3 DEF get_message_from_queue, TypeOK
<1>12. ASSUME NEW t \in Threads, lws_write(t) PROVE TypeInv'
  <2>1. callback' \in [Threads -> Places]
    BY <1>12 DEF lws_write, TypeOK
  <2>2. taken' \in [Threads -> Messages \cup {NoMessage}]
    BY <1>12 DEF lws_write, TypeOK
  <2>3. written' \in SUBSET (Messages \cup {NoMessage})
    BY <1>12 DEF lws_write, TypeOK
  <2> QED BY <1>12, <2>1, <2>2, <2>3 DEF lws_write, TypeOK
<1>13. ASSUME NEW t \in Threads, Rearm(t) PROVE TypeInv'
  <2>1. callback' \in [Threads -> Places]
    BY <1>13 DEF Rearm, TypeOK
  <2>2. writable' \in BOOLEAN
    BY <1>13, Zenon DEF Rearm
  <2> QED BY <1>13, <2>1, <2>2 DEF Rearm, TypeOK
<1>14. ASSUME NEW t \in Threads, ReceiveAudio(t) \/ Closed(t) \/ PlaybackStopped(t)
       PROVE  TypeInv'
  <2>1. websocket_connection' \in BOOLEAN /\ should_exit' \in BOOLEAN
    BY <1>14, Zenon DEF ReceiveAudio, Closed, PlaybackStopped, TypeOK
  <2>2. /\ callback' \in [Threads -> Places]
        /\ playback' \in {"none", "active", "stopping"}
    BY <1>14 DEF ReceiveAudio, Closed, PlaybackStopped, TypeOK
  <2>3. UNCHANGED <<crashed, taken, written, queueVars, audioVars, input, main, writable>>
    BY <1>14 DEF ReceiveAudio, Closed, PlaybackStopped
  <2> QED BY <2>1, <2>2, <2>3 DEF TypeOK
<1>15. ASSUME MainLoop PROVE TypeInv'
  BY <1>15 DEF MainLoop, TypeOK
<1>16. ASSUME Join PROVE TypeInv'
  <2>1. websocket_connection' \in BOOLEAN
    BY <1>16, Zenon DEF Join
  <2>2. /\ main' = "cleanup"
        /\ UNCHANGED <<should_exit, crashed, queueVars, writeVars, audioVars, input,
                       writable>>
    BY <1>16 DEF Join
  <2> QED BY <2>1, <2>2 DEF TypeOK
<1>17. ASSUME FreeRecording PROVE TypeInv'
  BY <1>17 DEF FreeRecording, TypeOK
<1>18. ASSUME CloseRecording \/ StopPlayback PROVE TypeInv'
  BY <1>18 DEF CloseRecording, StopPlayback, TypeOK
<1>19. ASSUME CleanupStop PROVE TypeInv'
  <2>1. /\ recording_stream' \in {"NULL", "running", "stopped"}
        /\ recording_active' \in BOOLEAN
        /\ recording_active' => recording_active
    BY <1>19, StopTyping DEF CleanupStop, TypeOK
  <2>2. stopFailed' \in BOOLEAN
    BY <1>19, <2>1 DEF CleanupStop, TypeOK
  <2> QED BY <1>19, <2>1, <2>2 DEF CleanupStop, TypeOK
<1>20. ASSUME Established \/ ConnectionError \/ GiveUp PROVE TypeInv'
  <2>1. /\ websocket_connection' \in BOOLEAN /\ should_exit' \in BOOLEAN
        /\ writable' \in BOOLEAN
    BY <1>20, Zenon DEF Established, ConnectionError, GiveUp, TypeOK
  <2> QED BY <1>20, <2>1 DEF Established, ConnectionError, GiveUp, TypeOK
<1>21. ASSUME start_input_thread PROVE TypeInv'
  BY <1>21 DEF start_input_thread, TypeOK
<1>22. CASE UNCHANGED vars
  BY <1>22 DEF vars, TypeOK
<1> QED BY <1>1, <1>2, <1>3, <1>4, <1>5, <1>6, <1>7, <1>8, <1>9, <1>10,
           <1>11, <1>12, <1>13, <1>14, <1>15, <1>16, <1>17, <1>18, <1>19,
           <1>20, <1>21, <1>22
        DEF Next, StartUp, InputThread, InputCommands, WritableCallback, Shutdown

\* The queue, its positions and every thread stay within their types for
\* any queue size (message_queue.c, input_handler.c, audio.c, main.c).
THEOREM DollTypeCorrect == Spec => []TypeOK
<1>1. TypeInv => TypeOK
  BY DEF TypeInv
<1> QED BY <1>1, TypeInit, TypeStep, PTL DEF Spec

------------------------------------------------------------------------------
(* Recording and shut-down *)

\* The input thread is in the writable callback only inside its own service.
InputServes == callback["input"] # "none" => input = "service"

\* A running stream belongs to a recording that is active or being started.
StreamHasOwner ==
    recording_stream = "running" => recording_active \/ input \in {"reset", "activate"}

\* While a recording is being started the callback stores nothing, so that the
\* buffer that was reset is still empty when recording_active is set.
Starting ==
    /\ input \in {"reset", "activate"} => ~recording_active
    /\ input = "activate" => recording_buffer = <<>>

\* A playback that is being stopped has a thread in the stop.
StopHasOwner ==
    /\ playback = "stopping" => main = "stop" \/ \E t \in Threads : callback[t] = "stopping"
    /\ callback["main"] # "none" => main \in {"loop", "cleanup"}

\* Nothing is recorded before the input thread runs.
NotStarted ==
    main = "startup" => /\ input = "none" /\ recording_stream = "NULL"
                        /\ playback = "none"

\* From free on, a stream runs only when it could not be stopped.
StoppedOrFailed ==
    /\ freed => main \in {"close", "stop", "exited"}
    /\ main \in {"free", "close", "stop", "exited"} /\ recording_stream = "running"
          => stopFailed

\* Main returns with both streams closed.
StreamsClosed ==
    /\ main \in {"stop", "exited"} => recording_stream = "NULL"
    /\ main = "exited" => playback = "none"

IInv == /\ TypeInv /\ OnlyThisRecording /\ InputServes /\ ThreadEndsFirst
        /\ StreamHasOwner /\ NotStarted /\ StoppedOrFailed /\ Starting
        /\ StopHasOwner /\ StreamsClosed

LEMMA IInvInit == Init => IInv
  BY TypeInit
  DEF Init, IInv, OnlyThisRecording, InputServes, ThreadEndsFirst, StreamHasOwner,
      NotStarted, StoppedOrFailed, Starting, StopHasOwner, StreamsClosed, Threads

LEMMA IInvStep == IInv /\ [Next]_vars => IInv'
<1> SUFFICES ASSUME IInv, [Next]_vars PROVE IInv'
    OBVIOUS
<1>0. TypeInv' /\ TypeOK
  BY TypeStep DEF IInv, TypeInv
<1> USE <1>0 DEF queueVars, writeVars, connectionVars, audioVars, IInv, InputServes,
        OnlyThisRecording, ThreadEndsFirst, StreamHasOwner, NotStarted,
        StoppedOrFailed, Starting, StopHasOwner, StreamsClosed, Alive
<1>1. ASSUME InputLoop \/ Fgets \/ TestConnection \/ InputServiced \/ Upload
      PROVE  IInv'
  BY <1>1 DEF InputLoop, Fgets, TestConnection, InputServiced, Upload
<1>2. ASSUME FgetsEof PROVE IInv'
  BY <1>2 DEF FgetsEof
<1>3. ASSUME RequestWrite PROVE IInv'
  BY <1>3 DEF RequestWrite
<1>4. ASSUME signal_handler PROVE IInv'
  BY <1>4 DEF signal_handler
<1>5. ASSUME add_message_to_queue PROVE IInv'
  BY <1>5 DEF add_message_to_queue
<1>6. ASSUME StartRecording PROVE IInv'
  BY <1>6 DEF StartRecording
<1>7. ASSUME ResetRecording \/ ActivateRecording PROVE IInv'
  BY <1>7 DEF ResetRecording, ActivateRecording
<1>8. ASSUME recording_callback PROVE IInv'
  <2>1. \A i \in DOMAIN recording_buffer' : recording_buffer'[i] = recordings'
    BY <1>8 DEF recording_callback, TypeOK
  <2> QED BY <1>8, <2>1 DEF recording_callback
<1>9. ASSUME stop_recording PROVE IInv'
  BY <1>9 DEF stop_recording, PaStop
<1>10. ASSUME NEW t \in Threads, Writeable(t) PROVE IInv'
  BY <1>10 DEF Writeable, InService, Threads, TypeOK
<1>11. ASSUME NEW t \in Threads, get_message_from_queue(t) PROVE IInv'
  BY <1>11 DEF get_message_from_queue, Threads, TypeOK
<1>12. ASSUME NEW t \in Threads, lws_write(t) PROVE IInv'
  BY <1>12 DEF lws_write, Threads, TypeOK
<1>13. ASSUME NEW t \in Threads, Rearm(t) PROVE IInv'
  BY <1>13 DEF Rearm, Threads, TypeOK
<1>14. ASSUME NEW t \in Threads, ReceiveAudio(t) \/ Closed(t) \/ PlaybackStopped(t)
       PROVE  IInv'
  <2>1. CASE ReceiveAudio(t)
    BY <2>1 DEF ReceiveAudio, InService, Threads, TypeOK
  <2>2. CASE Closed(t)
    BY <2>2 DEF Closed, InService, Threads, TypeOK
  <2>3. CASE PlaybackStopped(t)
    BY <2>3 DEF PlaybackStopped, Threads, TypeOK
  <2> QED BY <1>14, <2>1, <2>2, <2>3
<1>15. ASSUME MainLoop PROVE IInv'
  BY <1>15 DEF MainLoop
<1>16. ASSUME Join PROVE IInv'
  BY <1>16 DEF Join
<1>17. ASSUME CleanupStop PROVE IInv'
  BY <1>17 DEF CleanupStop, PaStop
<1>18. ASSUME FreeRecording \/ CloseRecording \/ StopPlayback PROVE IInv'
  <2>1. CASE FreeRecording
    BY <2>1 DEF FreeRecording
  <2>2. CASE CloseRecording
    <3>1. playback # "stopping"
      BY <2>2 DEF CloseRecording, Threads
    <3>2. playback' = "none" \/ main' = "stop"
      BY <2>2, <3>1 DEF CloseRecording, TypeOK
    <3> QED BY <2>2, <3>2 DEF CloseRecording, TypeOK
  <2>3. CASE StopPlayback
    BY <2>3 DEF StopPlayback
  <2> QED BY <1>18, <2>1, <2>2, <2>3
<1>19. ASSUME StartUp PROVE IInv'
  BY <1>19 DEF StartUp, Established, ConnectionError, GiveUp, start_input_thread
<1>20. CASE UNCHANGED vars
  BY <1>20 DEF vars
<1> QED BY <1>1, <1>2, <1>3, <1>4, <1>5, <1>6, <1>7, <1>8, <1>9, <1>10, <1>11,
           <1>12, <1>13, <1>14, <1>15, <1>16, <1>17, <1>18, <1>19, <1>20
        DEF Next, InputThread, InputCommands, WritableCallback, Shutdown

\* A recording never holds, and an upload never contains, audio of an earlier
\* one (audio.c lines 50-62 and 196-199).
THEOREM RecordingIsFresh == Spec => []OnlyThisRecording
<1>1. IInv => OnlyThisRecording
  BY DEF IInv
<1> QED BY <1>1, IInvInit, IInvStep, PTL DEF Spec

\* Nothing the input thread uses is released before it has ended (main.c
\* lines 123-133).
THEOREM InputThreadEndsFirst == Spec => []ThreadEndsFirst
<1>1. IInv => ThreadEndsFirst
  BY DEF IInv
<1> QED BY <1>1, IInvInit, IInvStep, PTL DEF Spec

\* The recording buffer is freed under a running recording only when
\* PortAudio fails to stop it (audio.c lines 125-138).
THEOREM BufferFreedAfterStop == Spec => []FreedAfterStop
<1>1. IInv => FreedAfterStop
  BY DEF IInv, StoppedOrFailed, FreedAfterStop
<1> QED BY <1>1, IInvInit, IInvStep, PTL DEF Spec

------------------------------------------------------------------------------
(* The circular queue *)

\* The arithmetic of the queue: the number of messages between two positions,
\* and the slot of the i-th of them.
LEMMA CountOf ==
    ASSUME NEW Q \in Nat \ {0, 1}, NEW h \in 0..(Q - 1), NEW t \in 0..(Q - 1)
    PROVE  (t + Q - h) % Q = IF h <= t THEN t - h ELSE t + Q - h
  OBVIOUS

LEMMA SlotOf ==
    ASSUME NEW Q \in Nat \ {0, 1}, NEW h \in 0..(Q - 1), NEW i \in 1..Q
    PROVE  /\ (h + i - 1) % Q = IF h + i - 1 < Q THEN h + i - 1 ELSE h + i - 1 - Q
           /\ (h + i - 1) % Q \in 0..(Q - 1)
  OBVIOUS

LEMMA StepOf ==
    ASSUME NEW Q \in Nat \ {0, 1}, NEW h \in 0..(Q - 1)
    PROVE  (h + 1) % Q = IF h + 1 < Q THEN h + 1 ELSE 0
  OBVIOUS

\* Taking one message moves the head by one place.
LEMMA TakeMoves ==
    ASSUME NEW Q \in Nat \ {0, 1}, NEW h \in 0..(Q - 1), NEW t \in 0..(Q - 1), h # t
    PROVE  /\ (t + Q - ((h + 1) % Q)) % Q = ((t + Q - h) % Q) - 1
           /\ (t + Q - h) % Q \in 1..(Q - 1)
           /\ \A i \in 1..(Q - 1) :
                (((h + 1) % Q) + i - 1) % Q = (h + (i + 1) - 1) % Q
<1> DEFINE g == (h + 1) % Q
<1>1. g \in 0..(Q - 1) /\ g = IF h + 1 < Q THEN h + 1 ELSE 0
  BY StepOf
<1>2. (t + Q - g) % Q = IF g <= t THEN t - g ELSE t + Q - g
  BY <1>1, CountOf
<1>3. (t + Q - h) % Q = IF h <= t THEN t - h ELSE t + Q - h
  BY CountOf
<1>4. ASSUME NEW i \in 1..(Q - 1) PROVE (g + i - 1) % Q = (h + (i + 1) - 1) % Q
  <2>1. (g + i - 1) % Q = IF g + i - 1 < Q THEN g + i - 1 ELSE g + i - 1 - Q
    BY <1>1, SlotOf
  <2>2. (h + (i + 1) - 1) % Q = IF h + (i + 1) - 1 < Q THEN h + (i + 1) - 1
                                ELSE h + (i + 1) - 1 - Q
    BY SlotOf
  <2> HIDE DEF g
  <2> QED BY <1>1, <2>1, <2>2
<1> HIDE DEF g
<1>5. (t + Q - g) % Q = ((t + Q - h) % Q) - 1
  BY <1>1, <1>2, <1>3
<1>6. (t + Q - h) % Q \in 1..(Q - 1)
  BY <1>3
<1> QED BY <1>4, <1>5, <1>6 DEF g

\* Adding one message fills the slot after the last and moves the tail.
LEMMA AddMoves ==
    ASSUME NEW Q \in Nat \ {0, 1}, NEW h \in 0..(Q - 1), NEW t \in 0..(Q - 1),
           (t + 1) % Q # h
    PROVE  /\ (((t + 1) % Q) + Q - h) % Q = ((t + Q - h) % Q) + 1
           /\ (t + Q - h) % Q \in 0..(Q - 2)
           /\ \A i \in 1..(((t + Q - h) % Q) + 1) :
                (h + i - 1) % Q = t <=> i = ((t + Q - h) % Q) + 1
<1> DEFINE u == (t + 1) % Q
<1> DEFINE n == (t + Q - h) % Q
<1>1. u \in 0..(Q - 1) /\ u = IF t + 1 < Q THEN t + 1 ELSE 0
  BY StepOf
<1>2. (u + Q - h) % Q = IF h <= u THEN u - h ELSE u + Q - h
  BY <1>1, CountOf
<1>3. n = IF h <= t THEN t - h ELSE t + Q - h
  BY CountOf
<1>4. n \in 0..(Q - 2)
  <2> HIDE DEF n
  <2> QED BY <1>1, <1>3
<1>5. ASSUME NEW i \in 1..(n + 1) PROVE (h + i - 1) % Q = t <=> i = n + 1
  <2>1. i \in 1..Q
    BY <1>4
  <2>2. (h + i - 1) % Q = IF h + i - 1 < Q THEN h + i - 1 ELSE h + i - 1 - Q
    BY <2>1, SlotOf
  <2> HIDE DEF n
  <2> QED BY <1>3, <1>4, <2>1, <2>2
<1>6. (u + Q - h) % Q = n + 1
  <2> HIDE DEF u, n
  <2> QED BY <1>1, <1>2, <1>3
<1> QED BY <1>4, <1>5, <1>6

\* The number of messages in the queue, the number taken out of it, and the
\* messages in the hands of a thread.
Count == (queue_tail + QueueSize - queue_head) % QueueSize
Removed == accepted - Count
InHand == {taken[t] : t \in Threads} \ {NoMessage}

\* QueueConserves in terms of slots and positions.
Filled == /\ Removed >= 0
          /\ \A i \in 1..Count :
                message_queue[(queue_head + i - 1) % QueueSize] = Removed + i
HandedOut == /\ written \cup InHand = 1..Removed
             /\ written \cap InHand = {}
             /\ taken["main"] # NoMessage => taken["main"] # taken["input"]

\* A thread has a message in hand exactly between taking and writing it.
HandsFull == \A t \in Threads : callback[t] = "write" <=> taken[t] # NoMessage

QInv == TypeInv /\ Filled /\ HandedOut /\ HandsFull

LEMMA CountTyping == TypeOK => Count \in 0..(QueueSize - 1)
  BY DollAssumption, CountOf DEF TypeOK, Slots, Count

LEMMA QInvConserves == QInv => QueueConserves
<1> SUFFICES ASSUME QInv PROVE QueueConserves
    OBVIOUS
<1>1. Count \in Nat
  BY CountTyping, DollAssumption DEF QInv, TypeInv
<1>2. Len(Queued) = Count
  BY <1>1 DEF Queued, Count
<1>3. \A i \in 1..Count :
        Queued[i] = message_queue[(queue_head + i - 1) % QueueSize]
  BY DEF Queued, Count
<1> QED BY <1>2, <1>3 DEF QInv, Filled, HandedOut, InHand, Removed, QueueConserves

LEMMA QInvInit == Init => QInv
<1> SUFFICES ASSUME Init PROVE QInv
    OBVIOUS
<1>1. Count = 0
  BY DollAssumption, CountOf DEF Init, Count
<1>2. Removed = 0
  BY <1>1 DEF Init, Removed
<1>3. InHand = {}
  BY DEF Init, InHand
<1> QED BY <1>1, <1>2, <1>3, TypeInit
        DEF Init, QInv, Filled, HandedOut, HandsFull, Threads

LEMMA QInvStep == QInv /\ [Next]_vars => QInv'
<1> SUFFICES ASSUME QInv, [Next]_vars PROVE QInv'
    OBVIOUS
<1>0. TypeInv' /\ TypeOK
  BY TypeStep DEF QInv, TypeInv
<1>1. ASSUME UNCHANGED <<queueVars, callback, taken, written>> PROVE QInv'
  BY <1>0, <1>1 DEF queueVars, QInv, Filled, HandedOut, HandsFull, Count,
     Removed, InHand
<1>2. ASSUME add_message_to_queue, next_tail # queue_head PROVE QInv'
  <2>0. /\ QueueSize \in Nat \ {0, 1} /\ accepted \in Nat
        /\ queue_head \in 0..(QueueSize - 1) /\ queue_tail \in 0..(QueueSize - 1)
    BY <1>0, DollAssumption DEF TypeOK, Slots
  <2>1. /\ Count' = Count + 1 /\ Count \in 0..(QueueSize - 2)
        /\ \A i \in 1..(Count + 1) :
             (queue_head + i - 1) % QueueSize = queue_tail <=> i = Count + 1
    <3>1. /\ queue_head' = queue_head /\ queue_tail' = (queue_tail + 1) % QueueSize
          /\ (queue_tail + 1) % QueueSize # queue_head
      BY <1>2 DEF add_message_to_queue, next_tail
    <3>2. /\ (((queue_tail + 1) % QueueSize) + QueueSize - queue_head) % QueueSize
                = Count + 1
          /\ Count \in 0..(QueueSize - 2)
          /\ \A i \in 1..(Count + 1) :
               (queue_head + i - 1) % QueueSize = queue_tail <=> i = Count + 1
      BY <2>0, <3>1, AddMoves DEF Count
    <3>3. Count' = (((queue_tail + 1) % QueueSize) + QueueSize - queue_head) % QueueSize
      BY <3>1 DEF Count
    <3> QED BY <3>2, <3>3
  <2>2. Removed' = Removed
    BY <1>2, <2>0, <2>1 DEF add_message_to_queue, Removed
  <2>3. Filled'
    <3> SUFFICES ASSUME NEW i \in 1..Count'
                 PROVE  message_queue'[(queue_head + i - 1) % QueueSize] = Removed + i
      BY <1>2, <2>2 DEF add_message_to_queue, Filled, QInv
    <3>1. i \in 1..QueueSize
      BY <2>0, <2>1
    <3>2. (queue_head + i - 1) % QueueSize \in Slots
      BY <2>0, <3>1, SlotOf DEF Slots
    <3>3. CASE i = Count + 1
      <4>1. (queue_head + i - 1) % QueueSize = queue_tail
        BY <2>0, <2>1, <3>3
      <4>2. message_queue'[queue_tail] = accepted + 1
        BY <1>0, <1>2, <3>2, <4>1 DEF add_message_to_queue, TypeOK
      <4>3. Removed + i = accepted + 1
        BY <2>0, <2>1, <3>3 DEF Removed
      <4> QED BY <4>1, <4>2, <4>3
    <3>4. CASE i \in 1..Count
      BY <1>0, <1>2, <2>1, <3>2, <3>4 DEF add_message_to_queue, TypeOK, Filled, QInv
    <3> QED BY <2>0, <2>1, <3>3, <3>4
  <2> QED BY <1>0, <1>2, <2>2, <2>3
          DEF add_message_to_queue, writeVars, QInv, HandedOut, HandsFull, InHand
<1>3. ASSUME NEW t \in Threads, get_message_from_queue(t), queue_head # queue_tail
      PROVE  QInv'
  <2>0. /\ QueueSize \in Nat \ {0, 1} /\ accepted \in Nat
        /\ queue_head \in 0..(QueueSize - 1) /\ queue_tail \in 0..(QueueSize - 1)
    BY <1>0, DollAssumption DEF TypeOK, Slots
  <2>1. /\ Count' = Count - 1 /\ Count \in 1..(QueueSize - 1)
        /\ \A i \in 1..(QueueSize - 1) :
             (queue_head' + i - 1) % QueueSize = (queue_head + (i + 1) - 1) % QueueSize
    <3>1. /\ queue_head' = (queue_head + 1) % QueueSize /\ queue_tail' = queue_tail
          /\ queue_head # queue_tail
      BY <1>3 DEF get_message_from_queue
    <3>2. /\ (queue_tail + QueueSize - ((queue_head + 1) % QueueSize)) % QueueSize
                = Count - 1
          /\ Count \in 1..(QueueSize - 1)
          /\ \A i \in 1..(QueueSize - 1) :
               (((queue_head + 1) % QueueSize) + i - 1) % QueueSize
                   = (queue_head + (i + 1) - 1) % QueueSize
      BY <2>0, <3>1, TakeMoves DEF Count
    <3>3. Count' = (queue_tail + QueueSize - ((queue_head + 1) % QueueSize)) % QueueSize
      BY <3>1 DEF Count
    <3> QED BY <3>1, <3>2, <3>3
  <2>2. Removed' = Removed + 1 /\ Removed \in Nat
    <3>1. accepted' = accepted
      BY <1>3 DEF get_message_from_queue
    <3>2. Removed = accepted - Count /\ Removed' = accepted' - Count'
      BY DEF Removed
    <3>3. Removed >= 0
      BY DEF QInv, Filled
    <3> QED BY <2>0, <2>1, <3>1, <3>2, <3>3
  <2>3. Filled'
    <3> SUFFICES ASSUME NEW i \in 1..Count'
                 PROVE  message_queue[(queue_head' + i - 1) % QueueSize]
                            = Removed + 1 + i
      BY <1>3, <2>2 DEF get_message_from_queue, Filled
    <3>1. i + 1 \in 1..Count /\ i \in 1..(QueueSize - 1)
      BY <2>0, <2>1
    <3> QED BY <2>1, <2>2, <3>1 DEF Filled, QInv
  <2>4. message_queue[queue_head] = Removed + 1
    <3>1. (queue_head + 1 - 1) % QueueSize = queue_head
      BY <2>0, SlotOf
    <3> QED BY <2>0, <2>1, <3>1 DEF Filled, QInv
  <2>5. taken[t] = NoMessage /\ taken'[t] = Removed + 1
        /\ \A u \in Threads : u # t => taken'[u] = taken[u]
    BY <1>0, <1>3, <2>4 DEF get_message_from_queue, HandsFull, QInv, TypeOK
  <2>6. InHand' = InHand \cup {Removed + 1}
    BY <2>2, <2>5 DEF InHand, NoMessage
  <2>7. HandedOut'
    <3>1. 1..Removed' = (1..Removed) \cup {Removed + 1} /\ Removed + 1 \notin 1..Removed
      BY <2>2
    <3>2. written' = written /\ written \subseteq 1..Removed /\ InHand \subseteq 1..Removed
      BY <1>3 DEF get_message_from_queue, HandedOut, QInv
    <3>3. taken'["main"] # NoMessage => taken'["main"] # taken'["input"]
      BY <2>2, <2>5, <3>1, <3>2 DEF Threads, InHand, NoMessage
    <3> QED BY <2>6, <3>1, <3>2, <3>3 DEF HandedOut, QInv
  <2>8. HandsFull'
    BY <1>0, <1>3, <2>2, <2>5 DEF get_message_from_queue, HandsFull, QInv, TypeOK, NoMessage
  <2> QED BY <1>0, <2>3, <2>7, <2>8 DEF QInv
<1>4. ASSUME NEW t \in Threads, lws_write(t) PROVE QInv'
  <2>1. taken[t] # NoMessage /\ taken'[t] = NoMessage
        /\ \A u \in Threads : u # t => taken'[u] = taken[u]
    BY <1>0, <1>4 DEF lws_write, HandsFull, QInv, TypeOK
  <2>2. \A u \in Threads : u # t => taken[u] # taken[t]
    BY <2>1 DEF HandedOut, QInv, Threads
  <2>3. InHand' = InHand \ {taken[t]} /\ taken[t] \in InHand
    BY <2>1, <2>2 DEF InHand
  <2>4. Count' = Count /\ Removed' = Removed /\ written' = written \cup {taken[t]}
    BY <1>4 DEF lws_write, queueVars, Count, Removed
  <2>5. Filled'
    BY <1>4, <2>4 DEF lws_write, queueVars, Filled, QInv
  <2>6. HandedOut'
    BY <2>1, <2>2, <2>3, <2>4 DEF HandedOut, QInv, Threads
  <2>7. HandsFull'
    BY <1>0, <1>4, <2>1 DEF lws_write, HandsFull, QInv, TypeOK
  <2> QED BY <1>0, <2>5, <2>6, <2>7 DEF QInv
\* Steps of the callback that move no message.
<1>5. ASSUME NEW t \in Threads, UNCHANGED <<queueVars, taken, written>>,
             NEW x \in Places \ {"write"}, callback[t] # "write",
             callback' = [callback EXCEPT ![t] = x]
      PROVE  QInv'
  <2>1. HandsFull'
    BY <1>0, <1>5 DEF HandsFull, QInv, TypeOK
  <2> QED BY <1>0, <1>5, <2>1
          DEF queueVars, QInv, Filled, HandedOut, Count, Removed, InHand
<1>6. ASSUME NEW t \in Threads,
             \/ Writeable(t) \/ Rearm(t) \/ PlaybackStopped(t)
             \/ Closed(t) /\ playback = "active"
      PROVE QInv'
  BY <1>5, <1>6 DEF Writeable, Rearm, PlaybackStopped, Closed, queueVars, Places
<1>7. ASSUME NEW t \in Threads, get_message_from_queue(t), queue_head = queue_tail
      PROVE  QInv'
  BY <1>5, <1>7 DEF get_message_from_queue, queueVars, Places
<1>8. ASSUME add_message_to_queue, next_tail = queue_head PROVE QInv'
  BY <1>1, <1>8 DEF add_message_to_queue, writeVars
<1>9. CASE /\ ~add_message_to_queue
           /\ \A t \in Threads : /\ ~Writeable(t) /\ ~WritableCallback(t)
                                 /\ ~PlaybackStopped(t)
                                 /\ Closed(t) => playback # "active"
  <2>1. UNCHANGED <<queueVars, callback, taken, written>>
    BY <1>9 DEF Next, vars, StartUp, Established, ConnectionError, GiveUp,
       start_input_thread, InputThread, InputCommands, Shutdown, WritableCallback,
       InputLoop, Fgets, FgetsEof, TestConnection, RequestWrite, InputServiced,
       StartRecording, ResetRecording, ActivateRecording, recording_callback,
       stop_recording, Upload, ReceiveAudio, Closed, signal_handler, MainLoop, Join,
       CleanupStop, FreeRecording, CloseRecording, StopPlayback, writeVars
  <2> QED BY <1>1, <2>1
<1> QED BY <1>2, <1>3, <1>4, <1>6, <1>7, <1>8, <1>9 DEF WritableCallback

\* With both threads in the writable callback, the circular queue hands out
\* every accepted message once and keeps the others in order, for any queue
\* size (message_queue.c lines 36-70, websocket_client.c lines 94-138).
THEOREM QueueIsConserved == Spec => []QueueConserves
<1> QED BY QInvInit, QInvStep, QInvConserves, PTL DEF Spec

------------------------------------------------------------------------------
(* Refinement *)

\* Every step of the program is one of DollInput, or none.
LEMMA StepImplements == [ClientNext]_allVars => [Next]_vars
  <1> SUFFICES ASSUME [ClientNext]_allVars PROVE [Next]_vars
    OBVIOUS
  <1>1. CASE Begin
    <2>1. CASE Wait
      BY <2>1 DEF Wait, Handshake, Next, StartUp
    <2>2. CASE StartThread
      BY <2>2 DEF StartThread, Next, StartUp
    <2>3. CASE Aborted \/ NotConnected
      BY <2>3 DEF Aborted, NotConnected, Abort, Next, StartUp
    <2>4. CASE \/ init_message_queue \/ init_audio \/ init_websocket_client
               \/ connect_to_server \/ Connected
      BY <2>4 DEF init_message_queue, init_audio, init_websocket_client,
         connect_to_server, Connected, Pa_Initialize, Pa_OpenDefaultStream,
         Pa_StartStream, malloc_recording, Acquire
    <2> QED BY <1>1, <2>1, <2>2, <2>3, <2>4 DEF Begin
  <1>2. CASE Http
    <2>1. CASE NoToken
      BY <2>1 DEF NoToken, Abort, Next, StartUp
    <2>2. CASE create_http_request \/ send_http_request \/ GetToken
      BY <2>2 DEF create_http_request, send_http_request, GetToken, OpenSocket, Connect,
         Send, Recv, RequestFails
    <2> QED BY <1>2, <2>1, <2>2 DEF Http
  <1>3. CASE get_recorded_audio
    BY <1>3 DEF get_recorded_audio
  <1>4. CASE Uploaded
    BY <1>4 DEF Uploaded, Next, InputThread
  <1>5. CASE Commands
    BY <1>5 DEF Commands, Next, InputThread
  <1>6. CASE MainWriteable
    BY <1>6 DEF MainWriteable, Next, Threads
  <1>7. ASSUME NEW t \in Threads, Callbacks(t) PROVE Next
    BY <1>7 DEF Callbacks, Next
  <1>8. CASE Outside
    BY <1>8 DEF Outside, Next, Threads
  <1>9. CASE End
    BY <1>9 DEF End, ThreadJoined, ClientReleased, BufferReleased, AudioReleased, Next,
       Shutdown
  <1>10. CASE PlaybackReleased
    BY <1>10 DEF PlaybackReleased, Next
  <1>11. CASE UNCHANGED allVars
    BY <1>11 DEF allVars
  <1> QED BY <1>1, <1>2, <1>3, <1>4, <1>5, <1>6, <1>7, <1>8, <1>9, <1>10, <1>11
          DEF ClientNext

\* The program with its start-up, its requests and its shut-down implements
\* DollInput, so the theorems above hold of it.
THEOREM ClientImplementsInput == ClientSpec => Spec
  <1>1. ClientInit => Init
    BY DEF ClientInit
  <1> QED BY <1>1, StepImplements, PTL DEF ClientSpec, Spec

------------------------------------------------------------------------------
(* What the program holds *)

Parts == {"queue", "portaudio", "stream", "buffer", "context"}

\* Acquired when main is at a step of its start-up.
Acquired == [queue     |-> {},
             portaudio |-> {"queue"},
             stream    |-> {"queue", "portaudio"},
             start     |-> {"queue", "portaudio", "stream"},
             buffer    |-> {"queue", "portaudio", "stream"},
             token     |-> {"queue", "portaudio", "stream", "buffer"},
             context   |-> {"queue", "portaudio", "stream", "buffer"},
             connect   |-> Parts,
             wait      |-> Parts,
             thread    |-> Parts]

\* Held by a request that is under way.
InRequest == IF request = "none" THEN {}
             ELSE IF request = "created" THEN {"request"} ELSE {"request", "socket"}

HeldAtStart ==
    main = "startup" =>
        /\ step \in Steps \ {"run"}
        /\ held = Acquired[step] \cup InRequest
        /\ request # "none" \/ response # "none" => step = "token"

HeldWhileRunning ==
    main \in {"loop", "join"} =>
        /\ step = "run"
        /\ held \ {"audio"} = Parts \cup {"thread"} \cup InRequest
        /\ "audio" \in held => input = "upload"
        /\ request # "none" \/ response # "none" => "audio" \in held

HeldAtEnd ==
    /\ main = "cleanup" => held = Parts
    /\ main = "free" => held = {"portaudio", "stream", "buffer"}
    /\ main = "close" => held = {"portaudio", "stream"}
    /\ main = "stop" => held = {"portaudio"}
    /\ main = "exited" => held = {}
    /\ main \in {"cleanup", "free", "close", "stop", "exited"} =>
           request = "none" /\ response = "none"
    /\ main \in {"cleanup", "free", "close", "stop"} => step = "run"

\* The token is there from the end of its request to the end of the program.
TokenKept ==
    /\ header \in {"none", "issued"}
    /\ main = "startup" /\ step \in {"context", "connect", "wait", "thread"} =>
           token = "issued"
    /\ main \in {"loop", "join"} => token = "issued"

HInv ==
    /\ ~misused
    /\ request \in {"none", "created", "opened", "connected", "sent"}
    /\ response # "none" => request = "none"
    /\ HeldAtStart /\ HeldWhileRunning /\ HeldAtEnd /\ TokenKept

\* HInv, next to the inductive invariant of DollInput.
CInv == HInv /\ IInv

LEMMA CInvInit == ClientInit => CInv
  BY IInvInit
  DEF ClientInit, Init, CInv, HInv, HeldAtStart, HeldWhileRunning, HeldAtEnd,
      TokenKept, Acquired, InRequest, Steps

\* A call of the start-up that gives the program something.
LEMMA AcquireKeeps ==
    ASSUME HInv, main = "startup",
           NEW at \in Steps, NEW resource, NEW next \in Steps \ {"run", "queue"},
           at # "token", next \notin {"context", "connect", "wait", "thread"}
                         \/ token = "issued",
           Acquired[next] = Acquired[at] \cup {resource},
           Acquire(at, resource, next)
    PROVE  HInv'
  BY DEF HInv, HeldAtStart, HeldWhileRunning, HeldAtEnd, TokenKept, InRequest,
         Acquire, vars, httpVars

\* Main gives up at a step of its start-up.
LEMMA AbortKeeps ==
    ASSUME HInv, NEW at \in Steps \ {"queue", "run"}, Abort(at),
           request = "none"
    PROVE  HInv'
  <1>1. main = "startup" /\ step = at /\ held = Acquired[at] /\ ~misused
    BY DEF Abort, GiveUp, HInv, HeldAtStart, InRequest
  <1>2. Released[at] = Acquired[at]
    <2>1. /\ Released["portaudio"] = Acquired["portaudio"]
          /\ Released["stream"] = Acquired["stream"]
          /\ Released["start"] = Acquired["start"]
          /\ Released["buffer"] = Acquired["buffer"]
      BY DEF Released, Acquired
    <2>2. /\ Released["token"] = Acquired["token"]
          /\ Released["context"] = Acquired["context"]
      BY DEF Released, Acquired, Audio
    <2>3. /\ Released["connect"] = Acquired["connect"]
          /\ Released["wait"] = Acquired["wait"]
          /\ Released["thread"] = Acquired["thread"]
      BY DEF Released, Acquired, Audio, Parts
    <2> QED BY <2>1, <2>2, <2>3 DEF Steps
  <1>3. held' = {} /\ ~misused'
    BY <1>1, <1>2 DEF Abort, Release
  <1> QED BY <1>1, <1>3 DEF Abort, GiveUp, HInv, HeldAtStart, HeldWhileRunning,
             HeldAtEnd, TokenKept, startVars

\* A request begins, goes on, or ends, in the start-up or in the input thread.
LEMMA RequestKeeps ==
    ASSUME HInv, main \in {"startup", "loop", "join", "cleanup", "free", "close", "stop"},
           create_http_request \/ send_http_request
    PROVE  HInv'
  <1> USE DEF HInv, HeldAtStart, HeldWhileRunning, HeldAtEnd, TokenKept, InRequest
  <1>1. "socket" \notin Parts \cup {"thread"} /\ "request" \notin Parts \cup {"thread"}
        /\ "audio" \notin Parts \cup {"thread", "request", "socket"}
    BY DEF Parts
  <1>2. \A s \in Steps \ {"run"} : Acquired[s] \subseteq Parts
    BY DEF Acquired, Steps, Parts
  <1> USE DEF vars, startVars
  <1>3. CASE create_http_request
    <2>1. main = "startup" \/ (main \in {"loop", "join"} /\ "audio" \in held)
      BY <1>3, <1>1 DEF create_http_request, Alive
    <2> QED BY <1>3, <2>1, <1>1, <1>2 DEF create_http_request
  <1>4. CASE send_http_request
    <2>0. main \in {"startup", "loop", "join"}
      BY <1>4 DEF send_http_request, OpenSocket, Connect, Send, Recv, RequestFails, Alive
    <2>1. CASE OpenSocket
      BY <2>1, <2>0, <1>1, <1>2 DEF OpenSocket
    <2>2. CASE Connect \/ Send
      BY <2>2, <2>0 DEF Connect, Send, heldVars
    <2>3. ASSUME NEW result, Return(result), request # "none",
                 UNCHANGED <<vars, startVars, token>>
          PROVE  HInv'
      <3>1. {"request"} \cup (IF request = "created" THEN {} ELSE {"socket"}) = InRequest
        BY <2>3
      <3>2. /\ held' = held \ InRequest
            /\ misused' = (misused \/ ~ InRequest \subseteq held)
            /\ request' = "none"
            /\ UNCHANGED <<main, step, token, header, input>>
        BY <2>3, <3>1 DEF Return, Release
      <3>3. InRequest \subseteq held /\ InRequest \subseteq {"request", "socket"}
        BY <2>0
      <3>4. ~misused'
        BY <3>2, <3>3
      <3>5. HeldAtStart'
        <4> SUFFICES ASSUME main = "startup" PROVE HeldAtStart'
          BY <3>2
        <4>1. step = "token" /\ held = Acquired[step] \cup InRequest
              /\ Acquired[step] \subseteq Parts
          BY <2>3, <1>2
        <4>2. held' = Acquired[step]
          BY <3>2, <3>3, <4>1, <1>1
        <4> QED BY <3>2, <4>1, <4>2
      <3>6. HeldWhileRunning'
        <4> SUFFICES ASSUME main \in {"loop", "join"} PROVE HeldWhileRunning'
          BY <3>2
        <4>1. held' \ {"audio"} = Parts \cup {"thread"}
          BY <3>2, <3>3, <1>1
        <4>2. "audio" \in held /\ "audio" \in held'
          BY <2>3, <3>2, <3>3
        <4> QED BY <3>2, <4>1, <4>2
      <3> QED BY <2>0, <3>2, <3>4, <3>5, <3>6
    <2> QED BY <1>4, <2>1, <2>2, <2>3 DEF send_http_request, Recv, RequestFails
  <1> QED BY <1>3, <1>4

LEMMA CInvStep == CInv /\ [ClientNext]_allVars => CInv'
  <1> SUFFICES ASSUME CInv, [ClientNext]_allVars PROVE CInv'
    OBVIOUS
  <1>0. /\ IInv' /\ HInv /\ TypeOK
        /\ main \in {"startup", "loop", "join", "cleanup", "free", "close", "stop",
                     "exited"}
        /\ ThreadEndsFirst /\ NotStarted
    BY StepImplements, IInvStep DEF CInv, IInv, TypeInv, TypeOK
  <1> SUFFICES HInv'
    BY <1>0 DEF CInv
  <1> USE DEF HInv, HeldAtStart, HeldWhileRunning, HeldAtEnd, TokenKept, InRequest
  <1>1. CASE Begin
    <2>1. CASE init_message_queue \/ init_audio \/ init_websocket_client
      <3>1. main = "startup"
        BY <1>0, <2>1 DEF init_message_queue, init_audio, init_websocket_client,
           Pa_Initialize, Pa_OpenDefaultStream, Pa_StartStream, malloc_recording,
           Acquire, Alive
      <3>2. CASE init_message_queue
        BY <1>0, <3>1, <3>2, AcquireKeeps DEF init_message_queue, Acquired, Steps
      <3>3. CASE Pa_Initialize
        BY <1>0, <3>1, <3>3, AcquireKeeps DEF Pa_Initialize, Acquired, Steps
      <3>4. CASE Pa_OpenDefaultStream
        BY <1>0, <3>1, <3>4, AcquireKeeps DEF Pa_OpenDefaultStream, Acquired, Steps
      <3>5. CASE Pa_StartStream
        BY <1>0, <3>1, <3>5 DEF Pa_StartStream, Acquired, Steps, vars, heldVars, httpVars
      <3>6. CASE malloc_recording
        BY <1>0, <3>1, <3>6, AcquireKeeps DEF malloc_recording, Acquired, Steps
      <3>7. CASE init_websocket_client
        <4>1. token = "issued"
          BY <1>0, <3>1, <3>7 DEF init_websocket_client, Acquire
        <4>2. Acquired["connect"] = Acquired["context"] \cup {"context"}
          BY DEF Acquired, Parts
        <4> QED BY <1>0, <3>1, <3>7, <4>1, <4>2, AcquireKeeps
                DEF init_websocket_client, Steps
      <3> QED BY <2>1, <3>2, <3>3, <3>4, <3>5, <3>6, <3>7 DEF init_audio
    <2>2. CASE connect_to_server \/ Connected
      <3>1. main = "startup"
        BY <1>0, <2>2 DEF connect_to_server, Connected, Alive
      <3> QED BY <1>0, <2>2, <3>1 DEF connect_to_server, Connected, Acquired, Steps, vars,
                 heldVars, httpVars
    <2>3. CASE Wait
      <3>1. main = "startup" /\ UNCHANGED main /\ token = "issued"
        BY <1>0, <2>3 DEF Wait, Handshake, Alive, Established, ConnectionError, vars
      <3> QED BY <1>0, <2>3, <3>1 DEF Wait, Handshake, heldVars, httpVars
    <2>4. CASE Aborted \/ NotConnected
      <3>1. PICK at \in Steps \ {"queue", "token", "run"} : Abort(at)
        BY <2>4 DEF Aborted, NotConnected, Steps
      <3>2. request = "none"
        BY <1>0, <3>1 DEF Abort, GiveUp
      <3> QED BY <1>0, <3>1, <3>2, AbortKeeps
    <2>5. CASE StartThread
      BY <1>0, <2>5 DEF StartThread, start_input_thread, Acquired, httpVars, Parts
    <2> QED BY <1>1, <2>1, <2>2, <2>3, <2>4, <2>5 DEF Begin
  <1>2. CASE Http
    <2>1. CASE NoToken
      BY <1>0, <2>1, AbortKeeps DEF NoToken, Steps
    <2>2. CASE create_http_request \/ send_http_request
      <3>1. main # "exited"
        BY <2>2 DEF create_http_request, send_http_request, OpenSocket, Connect, Send,
           Recv, RequestFails, Alive
      <3> QED BY <1>0, <2>2, <3>1, RequestKeeps
    <2>3. CASE GetToken
      BY <1>0, <2>3 DEF GetToken, Alive, vars, heldVars, Acquired, Steps
    <2> QED BY <1>2, <2>1, <2>2, <2>3 DEF Http
  <1>3. CASE get_recorded_audio
    <2>1. main \in {"loop", "join"}
      BY <1>0, <1>3 DEF get_recorded_audio, Alive, ThreadEndsFirst, NotStarted
    <2> QED BY <1>0, <1>3, <2>1 DEF get_recorded_audio, vars, startVars, httpVars
  <1>4. CASE Uploaded
    <2>1. main \in {"loop", "join"} /\ UNCHANGED main
      BY <1>0, <1>4 DEF Uploaded, Upload, Alive, ThreadEndsFirst, NotStarted
    <2> QED BY <1>0, <1>4, <2>1 DEF Uploaded, startVars
  <1>5. ASSUME UNCHANGED clientVars, UNCHANGED main,
               input = "upload" => input' = "upload"
        PROVE  HInv'
    BY <1>0, <1>5 DEF clientVars, startVars, heldVars, httpVars
  <1>6. CASE Commands
    <2>1. UNCHANGED main /\ input # "upload"
      BY <1>6 DEF Commands, InputCommands, InputLoop, add_message_to_queue,
         TestConnection, RequestWrite, InputServiced, StartRecording, ResetRecording,
         ActivateRecording, stop_recording
    <2> QED BY <1>5, <1>6, <2>1 DEF Commands
  <1>7. CASE MainWriteable
    BY <1>5, <1>7 DEF MainWriteable, Writeable
  <1>8. ASSUME NEW t \in Threads, Callbacks(t) PROVE HInv'
    BY <1>5, <1>8 DEF Callbacks, WritableCallback, get_message_from_queue, lws_write, Rearm
  <1>9. CASE Outside
    BY <1>5, <1>9 DEF Outside, Fgets, FgetsEof, recording_callback, signal_handler,
       Writeable, ReceiveAudio, Closed, PlaybackStopped
  <1>10. CASE End
    <2>1. CASE MainLoop /\ UNCHANGED clientVars
      BY <1>0, <2>1 DEF MainLoop, clientVars, startVars, heldVars, httpVars
    <2>2. CASE ThreadJoined
      BY <1>0, <2>2 DEF ThreadJoined, Join, Release, startVars, httpVars, Parts
    <2>3. CASE ClientReleased
      BY <1>0, <2>3 DEF ClientReleased, CleanupStop, Release, startVars, Parts
    <2>4. CASE BufferReleased
      BY <1>0, <2>4 DEF BufferReleased, FreeRecording, Release, startVars, httpVars
    <2>5. CASE AudioReleased
      BY <1>0, <2>5 DEF AudioReleased, CloseRecording, Release, startVars, httpVars
    <2> QED BY <1>10, <2>1, <2>2, <2>3, <2>4, <2>5 DEF End
  <1>11. CASE PlaybackReleased
    BY <1>0, <1>11 DEF PlaybackReleased, StopPlayback, Release, startVars, httpVars
  <1>12. CASE UNCHANGED allVars
    BY <1>5, <1>12 DEF allVars, vars
  <1> QED BY <1>1, <1>2, <1>3, <1>4, <1>6, <1>7, <1>8, <1>9, <1>10, <1>11, <1>12
          DEF ClientNext

\* Every failure branch of main, init_audio and send_http_request, and the
\* shut-down, release exactly what has been acquired (main.c lines 41-136).
THEOREM GivesBackEverything == ClientSpec => []NothingLeft
  <1>1. CInv => NothingLeft
    BY DEF CInv, IInv, StreamsClosed, HInv, HeldAtEnd, NothingLeft
  <1> QED BY <1>1, CInvInit, CInvStep, PTL DEF ClientSpec

\* The token of the handshake and of every upload is the one the server issued,
\* however the replies are cut off (http_client.c lines 133-182).
THEOREM TokenIsTheIssued == ClientSpec => []Authorized
  <1>1. CInv => Authorized
    BY DEF CInv, IInv, HInv, TokenKept, ThreadEndsFirst, NotStarted, TypeInv, TypeOK,
       Authorized
  <1> QED BY <1>1, CInvInit, CInvStep, PTL DEF ClientSpec
==============================================================================

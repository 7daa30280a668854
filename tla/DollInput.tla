------------------------------ MODULE DollInput ------------------------------
(***************************************************************************)
(* The input side of the doll: the input thread (input_handler.c), the     *)
(* message queue (message_queue.c), the writable callback                  *)
(* (websocket_client.c), recording (audio.c) and the end of main (main.c). *)
(*                                                                         *)
(* Both threads call lws_service, so both may be in the writable callback  *)
(* at once.  libwebsockets is external: a request for writability is one   *)
(* flag of the connection, and its next service runs the callback.  Pa_*   *)
(* calls may fail.  The build does not optimise, so stores are as written. *)
(* Nobody calls add_binary_message_to_queue, so get_binary_message_from_   *)
(* queue always returns 0 and every slot holds text.                       *)
(*                                                                         *)
(* The playback of received audio is here only whether it is active and    *)
(* who stops it: stop_streaming_audio_playback may never return            *)
(* (Playback: StopReturns).                                                *)
(*                                                                         *)
(* The start-up of main is here what the input side sees of it: the        *)
(* connection, and that main gives up or starts the input thread.          *)
(* DollClient has its steps.                                               *)
(***************************************************************************)
EXTENDS Naturals, Sequences

CONSTANTS QueueSize,       \* MAX_QUEUE_SIZE (10)
          MaxRecording,    \* buffers that fit in max_recording_size
          MaxLines         \* bound: text lines, and recordings, of the user

ASSUME DollAssumption ==
    /\ QueueSize \in Nat \ {0, 1}
    /\ MaxRecording \in Nat \ {0}
    /\ MaxLines \in Nat

Threads == {"main", "input"}
NoMessage == 0

VARIABLES
    message_queue, queue_head, queue_tail,
    accepted,              \* messages that add_message_to_queue has taken
    input,                 \* where the input thread is
    main,                  \* where main is
    callback,              \* where a thread is in the writable callback
    taken,                 \* the message a thread has taken out, or NoMessage
    written,               \* messages handed to lws_write
    writable,              \* lws has a request for writability
    websocket_connection,  \* it is not NULL
    should_exit,
    recordings,            \* recordings started so far
    recording_active, recording_stream, recording_buffer,
    playback,              \* "stopping": in stop_streaming_audio_playback
    freed,                 \* cleanup_audio has freed the recording buffer
    stopFailed,            \* stop_recording failed in cleanup_audio
    crashed                \* lws_callback_on_writable(NULL)

queueVars == <<message_queue, queue_head, queue_tail, accepted>>
writeVars == <<callback, playback, taken, written>>
connectionVars == <<websocket_connection, should_exit, crashed>>
audioVars == <<recordings, recording_active, recording_stream, recording_buffer,
               freed, stopFailed>>
vars == <<queueVars, writeVars, connectionVars, audioVars, input, main, writable>>

Slots == 0..(QueueSize - 1)
Messages == 1..MaxLines

TypeOK ==
    /\ message_queue \in [Slots -> Messages \cup {NoMessage}]
    /\ queue_head \in Slots /\ queue_tail \in Slots
    /\ accepted \in 0..MaxLines
    /\ input \in {"none", "loop", "fgets", "add", "test", "arm", "service", "record",
                  "reset", "activate", "stop", "upload", "done"}
    /\ main \in {"startup", "loop", "join", "cleanup", "free", "close", "stop", "exited"}
    /\ callback \in [Threads -> {"none", "get", "write", "rearm", "stopping"}]
    /\ playback \in {"none", "active", "stopping"}
    /\ taken \in [Threads -> Messages \cup {NoMessage}]
    /\ written \in SUBSET (Messages \cup {NoMessage})
    /\ writable \in BOOLEAN
    /\ websocket_connection \in BOOLEAN /\ should_exit \in BOOLEAN
    /\ recordings \in 0..MaxLines
    /\ recording_active \in BOOLEAN
    /\ recording_stream \in {"NULL", "running", "stopped"}
    /\ recording_buffer \in Seq(1..MaxLines)
    /\ Len(recording_buffer) <= MaxRecording
    /\ freed \in BOOLEAN /\ stopFailed \in BOOLEAN /\ crashed \in BOOLEAN

Init ==
    /\ message_queue = [i \in Slots |-> NoMessage]
    /\ queue_head = 0 /\ queue_tail = 0 /\ accepted = 0
    /\ input = "none" /\ main = "startup"
    /\ callback = [t \in Threads |-> "none"] /\ playback = "none"
    /\ taken = [t \in Threads |-> NoMessage]
    /\ written = {}
    /\ writable = FALSE
    /\ websocket_connection = FALSE /\ should_exit = FALSE
    /\ recordings = 0
    /\ recording_active = FALSE /\ recording_stream = "NULL"
    /\ recording_buffer = <<>>
    /\ freed = FALSE /\ stopFailed = FALSE /\ crashed = FALSE

Alive == ~crashed /\ main # "exited"

------------------------------------------------------------------------------
(* The beginning of main *)

\* LWS_CALLBACK_CLIENT_ESTABLISHED; it asks for writability.
Established ==
    /\ Alive /\ main = "startup" /\ ~websocket_connection
    /\ websocket_connection' = TRUE
    /\ writable' = TRUE
    /\ UNCHANGED <<should_exit, crashed, queueVars, writeVars, audioVars, input, main>>

\* LWS_CALLBACK_CLIENT_CONNECTION_ERROR.
ConnectionError ==
    /\ Alive /\ main = "startup" /\ ~websocket_connection
    /\ should_exit' = TRUE
    /\ UNCHANGED <<websocket_connection, crashed, queueVars, writeVars, audioVars, input,
                   main, writable>>

start_input_thread ==
    /\ Alive /\ main = "startup" /\ websocket_connection
    /\ input' = "loop" /\ main' = "loop"
    /\ UNCHANGED <<queueVars, writeVars, connectionVars, audioVars, writable>>

\* A step of the start-up has failed: main cleans up, which closes the
\* connection, and returns.
GiveUp ==
    /\ Alive /\ main = "startup"
    /\ websocket_connection' = FALSE
    /\ main' = "exited"
    /\ UNCHANGED <<should_exit, crashed, queueVars, writeVars, audioVars, input, writable>>

------------------------------------------------------------------------------
(* The input thread *)

\* Mutant: the loop does not look at should_exit.
InputLoopForever ==
    /\ Alive /\ input = "loop"
    /\ input' = "fgets"
    /\ UNCHANGED <<queueVars, writeVars, connectionVars, audioVars, main, writable>>

InputLoop ==
    /\ Alive /\ input = "loop"
    /\ input' = IF should_exit THEN "done" ELSE "fgets"
    /\ UNCHANGED <<queueVars, writeVars, connectionVars, audioVars, main, writable>>

\* A line of the user: an empty one, text or a command.
Fgets ==
    /\ Alive /\ input = "fgets"
    /\ \/ input' = "loop"
       \/ input' = "add" /\ accepted < MaxLines
       \/ input' = "record" /\ recordings < MaxLines
       \/ input' = "stop"
    /\ UNCHANGED <<queueVars, writeVars, connectionVars, audioVars, main, writable>>

FgetsEof ==
    /\ Alive /\ input = "fgets"
    /\ should_exit' = TRUE
    /\ input' = "done"
    /\ UNCHANGED <<queueVars, writeVars, websocket_connection, crashed, audioVars,
                   main, writable>>

next_tail == (queue_tail + 1) % QueueSize

\* Mutant: the test for a full queue is missing.
AddMessageNoTest ==
    /\ Alive /\ input = "add"
    /\ accepted' = accepted + 1
    /\ message_queue' = [message_queue EXCEPT ![queue_tail] = accepted']
    /\ queue_tail' = next_tail
    /\ input' = "test"
    /\ UNCHANGED <<queue_head, writeVars, connectionVars, audioVars, main, writable>>

\* Mutant: the position is not wrapped.
AddMessageNoWrap ==
    /\ Alive /\ input = "add"
    /\ next_tail # queue_head
    /\ accepted' = accepted + 1
    /\ message_queue' = [i \in Slots |-> IF i = queue_tail THEN accepted'
                                         ELSE message_queue[i]]
    /\ queue_tail' = queue_tail + 1
    /\ input' = "test"
    /\ UNCHANGED <<queue_head, writeVars, connectionVars, audioVars, main, writable>>

add_message_to_queue ==
    /\ Alive /\ input = "add"
    /\ \/ /\ next_tail = queue_head
          /\ input' = "loop"
          /\ UNCHANGED queueVars
       \/ /\ next_tail # queue_head
          /\ accepted' = accepted + 1
          /\ message_queue' = [message_queue EXCEPT ![queue_tail] = accepted']
          /\ queue_tail' = next_tail
          /\ input' = "test"
          /\ UNCHANGED queue_head
    /\ UNCHANGED <<writeVars, connectionVars, audioVars, main, writable>>

\* if (websocket_connection)
TestConnection ==
    /\ Alive /\ input = "test"
    /\ input' = IF websocket_connection THEN "arm" ELSE "loop"
    /\ UNCHANGED <<queueVars, writeVars, connectionVars, audioVars, main, writable>>

\* The pointer is read again: by now it may be NULL.
RequestWrite ==
    /\ Alive /\ input = "arm"
    /\ \/ /\ websocket_connection
          /\ writable' = TRUE
          /\ input' = "service"
          /\ UNCHANGED crashed
       \/ /\ ~websocket_connection
          /\ crashed' = TRUE
          /\ UNCHANGED <<writable, input>>
    /\ UNCHANGED <<queueVars, writeVars, websocket_connection, should_exit,
                   audioVars, main>>

\* The two lws_service calls are over.
InputServiced ==
    /\ Alive /\ input = "service" /\ callback["input"] = "none"
    /\ input' = "loop"
    /\ UNCHANGED <<queueVars, writeVars, connectionVars, audioVars, main, writable>>

------------------------------------------------------------------------------
(* Recording *)

\* start_recording up to Pa_StartStream; it fails, or the stream runs.
StartRecording ==
    /\ Alive /\ input = "record"
    /\ \/ /\ ~recording_active
          /\ recording_stream' = "running"
          /\ recordings' = recordings + 1
          /\ input' = "reset"
       \/ /\ input' = "loop"
          /\ UNCHANGED <<recording_stream, recordings>>
    /\ UNCHANGED <<recording_active, recording_buffer, freed, stopFailed, queueVars,
                   writeVars, connectionVars, main, writable>>

\* Mutant: recording_active is set before the buffer is reset.
ActiveFirst ==
    /\ Alive /\ input = "reset"
    /\ recording_active' = TRUE
    /\ input' = "activate"
    /\ UNCHANGED <<recording_buffer, recordings, recording_stream, freed, stopFailed,
                   queueVars, writeVars, connectionVars, main, writable>>

\* The rest of start_recording, with the stream running: the buffer is reset,
ResetRecording ==
    /\ Alive /\ input = "reset"
    /\ recording_buffer' = <<>>
    /\ input' = "activate"
    /\ UNCHANGED <<recordings, recording_active, recording_stream, freed, stopFailed,
                   queueVars, writeVars, connectionVars, main, writable>>

\* and then the callback may use it.
ActivateRecording ==
    /\ Alive /\ input = "activate"
    /\ recording_active' = TRUE
    /\ input' = "loop"
    /\ UNCHANGED <<recording_buffer, recordings, recording_stream, freed, stopFailed,
                   queueVars, writeVars, connectionVars, main, writable>>

\* The PortAudio thread; a full buffer takes no more.
recording_callback ==
    /\ Alive /\ recording_stream = "running" /\ recording_active
    /\ Len(recording_buffer) < MaxRecording
    /\ recording_buffer' = Append(recording_buffer, recordings)
    /\ UNCHANGED <<recordings, recording_active, recording_stream, freed, stopFailed,
                   queueVars, writeVars, connectionVars, input, main, writable>>

\* Pa_StopStream and Pa_CloseStream: success, or an error of either.  A
\* stream that stands still cannot be stopped again.
PaStop ==
    \/ /\ recording_stream = "running"
       /\ recording_stream' = "NULL" /\ recording_active' = FALSE
    \/ /\ recording_stream' \in {recording_stream, "stopped"}
       /\ UNCHANGED recording_active

\* The command "stop".  Audio is uploaded when the recording was stopped and
\* has any.
stop_recording ==
    /\ Alive /\ input = "stop"
    /\ \/ /\ ~recording_active \/ recording_stream = "NULL"
          /\ input' = "loop"
          /\ UNCHANGED <<recording_stream, recording_active>>
       \/ /\ recording_active /\ recording_stream # "NULL" /\ PaStop
          /\ input' = IF recording_active' \/ recording_buffer = <<>>
                      THEN "loop" ELSE "upload"
    /\ UNCHANGED <<recordings, recording_buffer, freed, stopFailed, queueVars,
                   writeVars, connectionVars, main, writable>>

\* get_recorded_audio and the blocking request.
Upload ==
    /\ Alive /\ input = "upload"
    /\ input' = "loop"
    /\ UNCHANGED <<queueVars, writeVars, connectionVars, audioVars, main, writable>>

------------------------------------------------------------------------------
(* lws_service, in either thread *)

InService(t) == \/ t = "main" /\ main = "loop"
                \/ t = "input" /\ input = "service"

\* LWS_CALLBACK_CLIENT_WRITEABLE begins.
Writeable(t) ==
    /\ Alive /\ InService(t) /\ callback[t] = "none"
    /\ writable /\ websocket_connection
    /\ writable' = FALSE
    /\ callback' = [callback EXCEPT ![t] = "get"]
    /\ UNCHANGED <<playback, taken, written, queueVars, connectionVars, audioVars,
                   input, main>>

\* get_binary_message_from_queue, which returns 0, and get_message_from_queue.
get_message_from_queue(t) ==
    /\ Alive /\ callback[t] = "get"
    /\ \/ /\ queue_head = queue_tail
          /\ callback' = [callback EXCEPT ![t] = "none"]
          /\ UNCHANGED <<taken, queue_head>>
       \/ /\ queue_head # queue_tail
          /\ taken' = [taken EXCEPT ![t] = message_queue[queue_head]]
          /\ queue_head' = (queue_head + 1) % QueueSize
          /\ callback' = [callback EXCEPT ![t] = "write"]
    /\ UNCHANGED <<message_queue, queue_tail, accepted, playback, written,
                   connectionVars, audioVars, input, main, writable>>

\* lws_write; a failure is only reported.
lws_write(t) ==
    /\ Alive /\ callback[t] = "write"
    /\ written' = written \cup {taken[t]}
    /\ taken' = [taken EXCEPT ![t] = NoMessage]
    /\ callback' = [callback EXCEPT ![t] = "rearm"]
    /\ UNCHANGED <<playback, queueVars, connectionVars, audioVars, input, main,
                   writable>>

\* Mutant: the callback does not ask for another turn.
RearmNever(t) ==
    /\ Alive /\ callback[t] = "rearm"
    /\ callback' = [callback EXCEPT ![t] = "none"]
    /\ UNCHANGED <<writable, playback, taken, written, queueVars, connectionVars,
                   audioVars, input, main>>

\* The queue is looked at without its lock.
Rearm(t) ==
    /\ Alive /\ callback[t] = "rearm"
    /\ writable' = (writable \/ queue_head # queue_tail)
    /\ callback' = [callback EXCEPT ![t] = "none"]
    /\ UNCHANGED <<playback, taken, written, queueVars, connectionVars, audioVars,
                   input, main>>

\* LWS_CALLBACK_CLIENT_RECEIVE of audio starts the playback if it can.
ReceiveAudio(t) ==
    /\ Alive /\ InService(t) /\ callback[t] = "none"
    /\ websocket_connection /\ playback = "none"
    /\ playback' = "active"
    /\ UNCHANGED <<callback, taken, written, queueVars, connectionVars, audioVars,
                   input, main, writable>>

\* LWS_CALLBACK_CLOSED: the server closes the connection, or main destroys the
\* context with the connection in it.  The playback is stopped first.
Closed(t) ==
    /\ Alive /\ callback[t] = "none"
    /\ \/ InService(t) /\ websocket_connection
       \/ t = "main" /\ main = "cleanup"
    /\ websocket_connection' = FALSE
    /\ \/ /\ playback = "active"
          /\ playback' = "stopping"
          /\ callback' = [callback EXCEPT ![t] = "stopping"]
          /\ UNCHANGED should_exit
       \/ /\ playback # "active"
          /\ should_exit' = TRUE
          /\ UNCHANGED <<playback, callback>>
    /\ UNCHANGED <<crashed, taken, written, queueVars, audioVars, input, main, writable>>

\* stop_streaming_audio_playback returns to the callback.
PlaybackStopped(t) ==
    /\ Alive /\ callback[t] = "stopping"
    /\ playback' = "none"
    /\ callback' = [callback EXCEPT ![t] = "none"]
    /\ should_exit' = TRUE
    /\ UNCHANGED <<websocket_connection, crashed, taken, written, queueVars, audioVars,
                   input, main, writable>>

signal_handler ==
    /\ Alive /\ ~should_exit
    /\ should_exit' = TRUE
    /\ UNCHANGED <<websocket_connection, crashed, queueVars, writeVars, audioVars,
                   input, main, writable>>

------------------------------------------------------------------------------
(* The end of main *)

\* The loop ends, and stop_input_thread.
MainLoop ==
    /\ Alive /\ main = "loop" /\ callback["main"] = "none" /\ should_exit
    /\ main' = "join"
    /\ UNCHANGED <<queueVars, writeVars, connectionVars, audioVars, input, writable>>

\* Mutant: the input thread is not waited for.
JoinNot ==
    /\ Alive /\ main = "join"
    /\ websocket_connection' = FALSE
    /\ main' = "cleanup"
    /\ UNCHANGED <<should_exit, crashed, queueVars, writeVars, audioVars, input,
                   writable>>

\* wait_for_input_thread and disconnect_from_server.
Join ==
    /\ Alive /\ main = "join" /\ input = "done"
    /\ websocket_connection' = FALSE
    /\ main' = "cleanup"
    /\ UNCHANGED <<should_exit, crashed, queueVars, writeVars, audioVars, input,
                   writable>>

\* Mutant: the buffer is freed first.
CleanupFree ==
    /\ Alive /\ main = "cleanup" /\ callback["main"] = "none"
    /\ main' = "free"
    /\ freed' = TRUE
    /\ UNCHANGED <<recordings, recording_active, recording_stream, recording_buffer,
                   stopFailed, queueVars, writeVars, connectionVars, input, writable>>

\* lws and the queue are released, and cleanup_audio stops a recording.
CleanupStop ==
    /\ Alive /\ main = "cleanup" /\ callback["main"] = "none"
    /\ main' = "free"
    /\ \/ /\ recording_active /\ PaStop
          /\ stopFailed' = recording_active'
       \/ /\ ~recording_active
          /\ UNCHANGED <<recording_stream, recording_active, stopFailed>>
    /\ UNCHANGED <<recordings, recording_buffer, freed, queueVars, writeVars,
                   connectionVars, input, writable>>

FreeRecording ==
    /\ Alive /\ main = "free"
    /\ freed' = TRUE
    /\ main' = "close"
    /\ UNCHANGED <<recordings, recording_active, recording_stream, recording_buffer,
                   stopFailed, queueVars, writeVars, connectionVars, input, writable>>

\* A recording stream that is left is closed.  Unless there is playback to
\* stop, main returns.
CloseRecording ==
    /\ Alive /\ main = "close"
    /\ recording_stream' = "NULL"
    /\ \/ /\ playback = "active"
          /\ playback' = "stopping" /\ main' = "stop"
       \/ /\ playback # "active"
          /\ main' = "exited" /\ UNCHANGED playback
    /\ UNCHANGED <<recordings, recording_active, recording_buffer, freed, stopFailed,
                   queueVars, callback, taken, written, connectionVars, input, writable>>

\* stop_streaming_audio_playback returns to cleanup_audio.
StopPlayback ==
    /\ Alive /\ main = "stop"
    /\ playback' = "none"
    /\ main' = "exited"
    /\ UNCHANGED <<callback, taken, written, queueVars, connectionVars, audioVars,
                   input, writable>>

------------------------------------------------------------------------------
WritableCallback(t) == get_message_from_queue(t) \/ lws_write(t) \/ Rearm(t)

\* What the input thread does without its user.
InputCommands ==
    \/ InputLoop \/ add_message_to_queue \/ TestConnection \/ RequestWrite
    \/ InputServiced \/ StartRecording \/ ResetRecording \/ ActivateRecording
    \/ stop_recording

InputThread == InputCommands \/ Upload

StartUp == Established \/ ConnectionError \/ start_input_thread \/ GiveUp

Shutdown == MainLoop \/ Join \/ CleanupStop \/ FreeRecording \/ CloseRecording

Next ==
    \/ StartUp
    \/ InputThread \/ Fgets \/ FgetsEof
    \/ recording_callback
    \/ \E t \in Threads : \/ Writeable(t) \/ WritableCallback(t)
                           \/ ReceiveAudio(t) \/ Closed(t) \/ PlaybackStopped(t)
    \/ signal_handler
    \/ Shutdown \/ StopPlayback

Spec == Init /\ [][Next]_vars

------------------------------------------------------------------------------
(* Properties *)

\* The messages between queue_head and queue_tail, oldest first.
Queued == [i \in 1..((queue_tail + QueueSize - queue_head) % QueueSize) |->
              message_queue[(queue_head + i - 1) % QueueSize]]

\* Whatever the two threads do in the writable callback, the queue holds the
\* latest accepted messages in the order they were typed, and every older one
\* was taken exactly once: a thread has it in hand, or has written it.
QueueConserves ==
    LET n == accepted - Len(Queued)
        inHand == {taken[t] : t \in Threads} \ {NoMessage} IN
    /\ n >= 0
    /\ \A i \in 1..Len(Queued) : Queued[i] = n + i
    /\ written \cup inHand = 1..n
    /\ written \cap inHand = {}
    /\ taken["main"] # NoMessage => taken["main"] # taken["input"]

\* What is recorded, and later uploaded, belongs to the recording that was
\* started last.
OnlyThisRecording ==
    recording_active \/ input = "upload" =>
        \A i \in DOMAIN recording_buffer : recording_buffer[i] = recordings

\* The connection, the queue and the audio system are released only when the
\* input thread is gone.
ThreadEndsFirst ==
    main \in {"cleanup", "free", "close", "stop", "exited"} =>
        input \in {"none", "done"} /\ callback["input"] = "none"

\* The recording buffer is freed under a running recording only when
\* Pa_StopStream itself has failed.
FreedAfterStop == freed /\ recording_stream = "running" => stopFailed

\* A queued message is written while the connection stands and the program is
\* not told to end, also when many are queued before the first callback.
QueuedIsWritten ==
    \A m \in Messages :
        m <= accepted /\ input = "service"
            ~> m \in written \/ ~websocket_connection \/ should_exit
==============================================================================

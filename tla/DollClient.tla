----------------------------- MODULE DollClient ------------------------------
(***************************************************************************)
(* The whole doll program: main.c from its first line to its return, with  *)
(* init_audio, the HTTP client (http_client.c) and the set-up of the       *)
(* WebSocket client (websocket_client.c), around the input side that       *)
(* DollInput models.  The variables of DollInput are used as they are;     *)
(* this module adds the start-up, the HTTP requests and what the program   *)
(* holds and must give back.                                               *)
(*                                                                         *)
(* Every call that can fail may fail here.  A reply of the server is what  *)
(* one recv returns of it: all, or only a first part.  The HTTP client     *)
(* reads no more.                                                          *)
(***************************************************************************)
EXTENDS DollInput

CONSTANT MaxAttempts       \* lws_service calls that wait for the handshake (10)

ASSUME ClientAssumption == MaxAttempts \in Nat

VARIABLES
    step,        \* the next call of main in its start-up
    held,        \* what has been allocated, opened or started
    misused,     \* something was released that was not held
    token,       \* current_jwt_token
    request,     \* how far send_http_request has got
    response,    \* what it has returned
    attempts,    \* connection_attempts
    header       \* the token of the Authorization header of the handshake

httpVars == <<token, request, response>>
startVars == <<step, attempts, header>>
heldVars == <<held, misused>>
clientVars == <<startVars, heldVars, httpVars>>
allVars == <<vars, clientVars>>

Steps == {"queue", "portaudio", "stream", "start", "buffer", "token", "context",
          "connect", "wait", "thread", "run"}
Resources == {"queue", "portaudio", "stream", "buffer", "context", "thread",
              "request", "socket", "audio"}

\* What recv may find: the connection closed, an error reply, the start of a
\* reply up to the token, part of the token, the whole token, or a token that
\* is too long for its buffer.  (The tokens of the server, about 310 characters,
\* fit into it and into the headers that carry them.)
Replies == {"empty", "refused", "head", "inside", "whole", "long"}
Tokens == {"none", "issued", "cut"}

ClientTypeOK ==
    /\ step \in Steps
    /\ held \subseteq Resources /\ misused \in BOOLEAN
    /\ token \in Tokens /\ header \in Tokens
    /\ request \in {"none", "created", "opened", "connected", "sent"}
    /\ response \in Replies \cup {"none", "failed"}
    /\ attempts \in 0..MaxAttempts

ClientInit ==
    /\ Init
    /\ step = "queue"
    /\ held = {} /\ misused = FALSE
    /\ token = "none" /\ request = "none" /\ response = "none"
    /\ attempts = 0 /\ header = "none"

Release(resources) ==
    /\ held' = held \ resources
    /\ misused' = (misused \/ ~ resources \subseteq held)

------------------------------------------------------------------------------
(* The start-up of main *)

\* A call that succeeds and gives the program something.
Acquire(at, resource, next) ==
    /\ Alive /\ step = at
    /\ held' = held \cup {resource}
    /\ step' = next
    /\ UNCHANGED <<vars, misused, httpVars, attempts, header>>

init_message_queue == Acquire("queue", "queue", "portaudio")
Pa_Initialize == Acquire("portaudio", "portaudio", "stream")
Pa_OpenDefaultStream == Acquire("stream", "stream", "start")
malloc_recording == Acquire("buffer", "buffer", "token")
init_websocket_client == Acquire("context", "context", "connect")

Pa_StartStream ==
    /\ Alive /\ step = "start"
    /\ step' = "buffer"
    /\ UNCHANGED <<vars, heldVars, httpVars, attempts, header>>

init_audio == Pa_Initialize \/ Pa_OpenDefaultStream \/ Pa_StartStream \/ malloc_recording

connect_to_server ==
    /\ Alive /\ step = "connect"
    /\ step' = "wait"
    /\ UNCHANGED <<vars, heldVars, httpVars, attempts, header>>

\* What cleanup_audio releases, and what the failing calls release before main
\* does the rest.
Audio == {"portaudio", "stream", "buffer"}
Released == [portaudio |-> {"queue"},
             stream    |-> {"portaudio", "queue"},
             start     |-> {"stream", "portaudio", "queue"},
             buffer    |-> {"stream", "portaudio", "queue"},
             token     |-> Audio \cup {"queue"},
             context   |-> Audio \cup {"queue"},
             connect   |-> {"context", "queue"} \cup Audio,
             wait      |-> {"context", "queue"} \cup Audio,
             thread    |-> {"context", "queue"} \cup Audio]

\* The call at this step has failed: main releases what it has and returns 1.
\* http_cleanup clears the token.
Abort(at) ==
    /\ step = at
    /\ GiveUp
    /\ Release(Released[at])
    /\ token' = "none" /\ response' = "none"
    /\ UNCHANGED <<startVars, request>>

Aborted == \E at \in {"portaudio", "stream", "start", "buffer", "context", "connect",
                      "thread"} : Abort(at)

------------------------------------------------------------------------------
(* send_http_request, called by http_get_jwt_token in the start-up and by     *)
(* http_stream_audio_realtime in the input thread                             *)

\* get_recorded_audio copies the recording for the upload.
get_recorded_audio ==
    /\ Alive /\ input = "upload" /\ "audio" \notin held
    /\ held' = held \cup {"audio"}
    /\ UNCHANGED <<vars, misused, startVars, httpVars>>

create_http_request ==
    /\ Alive /\ (step = "token" \/ "audio" \in held)
    /\ request = "none" /\ response = "none"
    /\ \/ held' = held \cup {"request"} /\ request' = "created" /\ UNCHANGED response
       \/ response' = "failed" /\ UNCHANGED <<held, request>>
    /\ UNCHANGED <<vars, misused, startVars, token>>

\* socket
OpenSocket ==
    /\ Alive /\ request = "created"
    /\ held' = held \cup {"socket"}
    /\ request' = "opened"
    /\ UNCHANGED <<vars, misused, startVars, token, response>>

\* gethostbyname and connect, and then the one or two sends.
Connect ==
    /\ Alive /\ request = "opened"
    /\ request' = "connected"
    /\ UNCHANGED <<vars, heldVars, startVars, token, response>>

Send ==
    /\ Alive /\ request = "connected"
    /\ request' = "sent"
    /\ UNCHANGED <<vars, heldVars, startVars, token, response>>

\* Mutant: a failed call leaves the socket open.
ReturnOpen(result) ==
    /\ Release({"request"})
    /\ request' = "none"
    /\ response' = result

\* The socket is closed and the request freed.
Return(result) ==
    /\ Release({"request"} \cup (IF request = "created" THEN {} ELSE {"socket"}))
    /\ request' = "none"
    /\ response' = result

\* One recv.
Recv ==
    /\ Alive /\ request = "sent"
    /\ \E reply \in Replies : Return(reply)
    /\ UNCHANGED <<vars, startVars, token>>

\* socket, gethostbyname, connect, send or recv fails.
RequestFails ==
    /\ Alive /\ request # "none"
    /\ Return("failed")
    /\ UNCHANGED <<vars, startVars, token>>

send_http_request == OpenSocket \/ Connect \/ Send \/ Recv \/ RequestFails

\* Mutant: the end of the token is not looked for.
GetTokenCut ==
    /\ Alive /\ step = "token" /\ response \in {"inside", "whole"}
    /\ token' = IF response = "whole" THEN "issued" ELSE "cut"
    /\ response' = "none"
    /\ step' = "context"
    /\ UNCHANGED <<vars, heldVars, request, attempts, header>>

\* http_get_jwt_token finds the token only when the reply has both its ends.
GetToken ==
    /\ Alive /\ step = "token" /\ response = "whole"
    /\ token' = "issued"
    /\ response' = "none"
    /\ step' = "context"
    /\ UNCHANGED <<vars, heldVars, request, attempts, header>>

NoToken == response \notin {"none", "whole"} /\ Abort("token")

\* http_stream_audio_realtime returns: any reply counts as success, because
\* http_parse_audio_response returns true and nobody reads its field success.
\* The recording is freed.  Without a copy of it there was no request.
Uploaded ==
    /\ Upload
    /\ "audio" \in held => response # "none"
    /\ held' = held \ {"audio"}
    /\ response' = "none"
    /\ UNCHANGED <<misused, startVars, token, request>>

Http == create_http_request \/ send_http_request \/ GetToken \/ NoToken

------------------------------------------------------------------------------
(* The connection *)

\* One lws_service: nothing happens within a second, the handshake is sent with
\* the token, the server accepts it, or the attempt is over.  The server
\* accepts only a token that it has issued.
Handshake ==
    \/ UNCHANGED <<vars, header>>
    \/ header = "none" /\ header' = token /\ UNCHANGED vars
    \/ header = "issued" /\ Established /\ UNCHANGED header
    \/ ConnectionError /\ UNCHANGED header

\* Mutant: the loop does not look at its counter, which wraps around.
WaitUnlimited ==
    /\ Alive /\ step = "wait"
    /\ ~websocket_connection /\ ~should_exit
    /\ Handshake
    /\ attempts' = (attempts + 1) % (MaxAttempts + 1)
    /\ UNCHANGED <<step, heldVars, httpVars>>

\* The loop of main that waits for the connection.
Wait ==
    /\ Alive /\ step = "wait"
    /\ ~websocket_connection /\ attempts < MaxAttempts /\ ~should_exit
    /\ Handshake
    /\ attempts' = attempts + 1
    /\ UNCHANGED <<step, heldVars, httpVars>>

Connected ==
    /\ Alive /\ step = "wait" /\ websocket_connection
    /\ step' = "thread"
    /\ UNCHANGED <<vars, attempts, header, heldVars, httpVars>>

NotConnected ==
    /\ ~websocket_connection /\ (attempts = MaxAttempts \/ should_exit)
    /\ Abort("wait")

StartThread ==
    /\ step = "thread"
    /\ start_input_thread
    /\ held' = held \cup {"thread"}
    /\ step' = "run"
    /\ UNCHANGED <<misused, attempts, header, httpVars>>

Begin ==
    \/ init_message_queue \/ init_audio \/ init_websocket_client \/ connect_to_server
    \/ Aborted \/ Wait \/ Connected \/ NotConnected \/ StartThread

------------------------------------------------------------------------------
(* The end of main *)

\* wait_for_input_thread and disconnect_from_server.
ThreadJoined ==
    /\ Join
    /\ Release({"thread"})
    /\ UNCHANGED <<startVars, httpVars>>

\* cleanup_websocket_client, http_cleanup, cleanup_message_queue, and the first
\* part of cleanup_audio.
ClientReleased ==
    /\ CleanupStop
    /\ Release({"context", "queue"})
    /\ token' = "none"
    /\ UNCHANGED <<startVars, request, response>>

BufferReleased ==
    /\ FreeRecording
    /\ Release({"buffer"})
    /\ UNCHANGED <<startVars, httpVars>>

\* Pa_Terminate comes after the playback.
AudioReleased ==
    /\ CloseRecording
    /\ Release(IF playback = "active" THEN {"stream"} ELSE {"stream", "portaudio"})
    /\ UNCHANGED <<startVars, httpVars>>

PlaybackReleased ==
    /\ StopPlayback
    /\ Release({"portaudio"})
    /\ UNCHANGED <<startVars, httpVars>>

End ==
    \/ MainLoop /\ UNCHANGED clientVars
    \/ ThreadJoined \/ ClientReleased \/ BufferReleased \/ AudioReleased

------------------------------------------------------------------------------
\* What the program does by itself once it runs.
Commands == InputCommands /\ UNCHANGED clientVars
MainWriteable == Writeable("main") /\ UNCHANGED clientVars
Callbacks(t) == WritableCallback(t) /\ UNCHANGED clientVars

Outside ==
    /\ \/ Fgets \/ FgetsEof \/ recording_callback \/ signal_handler
       \/ Writeable("input")
       \/ \E t \in Threads : ReceiveAudio(t) \/ Closed(t) \/ PlaybackStopped(t)
    /\ UNCHANGED clientVars

ClientNext ==
    \/ Begin \/ Http \/ get_recorded_audio \/ Uploaded
    \/ Commands \/ MainWriteable \/ (\E t \in Threads : Callbacks(t)) \/ Outside
    \/ End \/ PlaybackReleased

ClientSpec == ClientInit /\ [][ClientNext]_allVars

\* Both threads run, main goes on with its start-up and services the connection
\* while it is in its loop, and the network lets a connection be made or
\* refuses it.  The user need not type, nobody need end the program, the server
\* need not answer the handshake, and three calls need never return: send and
\* recv of a request, which have no timeout, and the Pa_StopStream of the
\* playback.
ClientFairness ==
    /\ WF_allVars(Begin)
    /\ WF_allVars(create_http_request \/ OpenSocket \/ Connect \/ GetToken \/ NoToken)
    /\ WF_allVars(Commands \/ Uploaded)
    /\ WF_allVars(MainWriteable)
    /\ \A t \in Threads : WF_allVars(Callbacks(t))
    /\ WF_allVars(End)

ClientFairSpec == ClientSpec /\ ClientFairness

------------------------------------------------------------------------------
(* Properties *)

\* Whichever call fails, and when and however the program ends, main returns
\* with everything given back, the recording and the playback included, and
\* nothing was given back twice: the seven failure branches of main, the ones
\* inside init_audio and send_http_request, and the shut-down agree with what
\* had been acquired.
NothingLeft ==
    /\ ~misused
    /\ main = "exited" => held = {} /\ recording_stream = "NULL" /\ playback = "none"

\* The handshake and every upload carry the token that the server issued: a
\* reply that recv cuts off never yields one, and the token is cleared only
\* when nobody uses it any more.
Authorized ==
    /\ header \in {"none", "issued"}
    /\ input = "upload" => token = "issued"

\* send or recv waits for the server, which has accepted the connection.
ServerSilent == request \in {"connected", "sent"}

\* The start-up ends, also when the server never answers the handshake.  Only a
\* token request that the server accepts and never answers holds it up: recv
\* has no timeout (http_client.c line 77).
StartupEnds == <>(main # "startup") \/ <>[]ServerSilent

\* Somebody waits for the stream of the playback to stop.
StopHangs == main = "stop" \/ \E t \in Threads : callback[t] = "stopping"

\* Once the program is told to end and the input thread is not waiting for
\* the user, it ends, unless the stop of the playback or a request hangs
\* forever.
ShutdownCompletes ==
    \/ should_exit /\ input # "fgets" ~> main = "exited" \/ crashed
    \/ <>[](StopHangs \/ ServerSilent)
==============================================================================

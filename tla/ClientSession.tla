--------------------------- MODULE ClientSession -----------------------------
(***************************************************************************)
(* One WebSocket session of the server: the Client of                      *)
(* agentic/adapters/websocket/client.go with the six goroutines that Run   *)
(* starts (chat service, response handler, Ping, readPump, writePump and   *)
(* the greeting), ChatService.Execute among them (usecase/chat_service.go) *)
(*                                                                         *)
(* The goroutines share four buffered channels and the Close method.       *)
(* Close holds the client's mutex while it sets the flag, cancels the      *)
(* context, closes the connection and closes the send channel: one step,   *)
(* and one variable, closed, for all four.  The speech, language and TTS   *)
(* services are external: their calls end some time, with any outcome.     *)
(*                                                                         *)
(* A message of the doll is a number, in the order of SendInput; the reply *)
(* to it has the same number, and the greeting is 0.                       *)
(***************************************************************************)
EXTENDS Naturals, Sequences

CONSTANTS InputCap,     \* buffer of inputChan (10 in the code)
          OutputCap,    \* buffer of outputChan (10)
          SendCap,      \* buffer of send (256)
          MaxInputs,    \* bound on the messages of a session
          MaxFrames     \* bound on the frames the doll sends

ASSUME SessionAssumption ==
    /\ {InputCap, OutputCap, SendCap} \subseteq Nat \ {0}
    /\ {MaxInputs, MaxFrames} \subseteq Nat

VARIABLES
    closed,         \* Close has run
    hungup,         \* the doll is gone, or the read deadline has passed
    inputChan, outputChan, send,    \* buffers of the channels
    incomingPing,   \* pings in the channel of that name
    chat,           \* ChatService.Execute: "load", "select", "reply", ...
    msg,            \* the input Execute is working on
    responder,      \* handleChatResponses
    response,       \* the reply handleChatResponses has in hand
    pinger,         \* Ping
    reader,         \* readPump
    writer,         \* writePump
    message,        \* the text writePump has in hand
    greeter,        \* the goroutine of the greeting
    inputs,         \* number of SendInput calls so far
    frames,         \* number of frames read so far
    accepted,       \* the messages SendInput has queued
    answered,       \* the replies handleChatResponses has received
    spoken,         \* the replies written to the doll as audio, in order
    crashed         \* "no", or the panic that ended the process

chatVars == <<chat, msg>>
responderVars == <<responder, response>>
writerVars == <<writer, message>>
doll == <<hungup, inputs, frames>>
history == <<accepted, answered, spoken>>
vars == <<closed, inputChan, outputChan, send, incomingPing, chatVars,
          responderVars, pinger, reader, writerVars, greeter, doll, history,
          crashed>>

Replies == 0..MaxInputs
Panics == {"creating chat", "send on closed channel", "concurrent write",
           "short audio"}

\* The types; the messages of the doll only go to inputChan, and the replies
\* and the greeting only to outputChan.
TypeOK ==
    /\ closed \in BOOLEAN /\ hungup \in BOOLEAN
    /\ inputChan \in Seq(1..MaxInputs) /\ Len(inputChan) <= InputCap
    /\ outputChan \in Seq(Replies) /\ Len(outputChan) <= OutputCap
    /\ send \in Seq(Replies) /\ Len(send) <= SendCap
    /\ incomingPing \in 0..1
    /\ chat \in {"load", "select", "reply", "stored", "failed"}
    /\ responder \in {"select", "synthesize", "sendMessage", "write", "done"}
    /\ pinger \in {"select", "done"}
    /\ reader \in {"loop", "read", "ping", "transcribe", "done"}
    /\ writer \in {"select", "write", "done"}
    /\ greeter \in {"sleep", "done"}
    /\ msg \in Replies /\ response \in Replies /\ message \in Replies
    /\ inputs \in 0..MaxInputs /\ frames \in 0..MaxFrames
    /\ accepted \subseteq 1..MaxInputs
    /\ answered \subseteq Replies
    /\ spoken \in Seq(Replies)
    /\ crashed \in {"no"} \cup Panics

\* NewClient and the start of Run.
Init ==
    /\ closed = FALSE /\ hungup = FALSE
    /\ inputChan = <<>> /\ outputChan = <<>> /\ send = <<>>
    /\ incomingPing = 0
    /\ chat = "load" /\ responder = "select" /\ pinger = "select"
    /\ reader = "loop" /\ writer = "select" /\ greeter = "sleep"
    /\ msg = 0 /\ response = 0 /\ message = 0
    /\ inputs = 0 /\ frames = 0
    /\ accepted = {} /\ answered = {} /\ spoken = <<>>
    /\ crashed = "no"

Running == crashed = "no"

\* Close, by whichever goroutine; a second one does nothing.
Close == closed' = TRUE

\* gorilla/websocket allows one WriteMessage at a time; a second one may
\* panic or go through.
StartWrite(other) ==
    crashed' \in IF other = "write" THEN {"no", "concurrent write"} ELSE {"no"}

------------------------------------------------------------------------------
(* ChatService.Execute *)

\* The history is read and the chat is made; or the file cannot be read and
\* Execute returns an error, which startChatService only logs; or the chat
\* cannot be created and GenerateChat panics.
ChatStart ==
    /\ Running /\ chat = "load"
    /\ \/ chat' \in {"select", "failed"} /\ UNCHANGED crashed
       \/ crashed' = "creating chat" /\ UNCHANGED chat
    /\ UNCHANGED <<closed, inputChan, outputChan, send, incomingPing, msg,
                   responderVars, pinger, reader, writerVars, greeter, doll,
                   history>>

\* The next message of the doll.
ChatTake ==
    /\ Running /\ chat = "select" /\ inputChan # <<>>
    /\ msg' = Head(inputChan)
    /\ inputChan' = Tail(inputChan)
    /\ chat' = "reply"
    /\ UNCHANGED <<closed, outputChan, send, incomingPing, responderVars, pinger,
                   reader, writerVars, greeter, doll, history, crashed>>

\* Mutant: a reply that is an error leaves the message in the queue.
ChatReplyRetry ==
    /\ Running /\ chat = "reply" /\ Len(outputChan) < OutputCap
    /\ outputChan' = Append(outputChan, msg)
    /\ inputChan' = IF Len(inputChan) < InputCap THEN Append(inputChan, msg)
                    ELSE inputChan
    /\ chat' = "select" /\ msg' = 0
    /\ UNCHANGED <<closed, send, incomingPing, responderVars,
                   pinger, reader, writerVars, greeter, doll, history, crashed>>

\* Mutant: a failure of the language model is not passed on.
ChatReplySilent ==
    /\ Running /\ chat = "reply" /\ Len(outputChan) < OutputCap
    /\ outputChan' \in {outputChan, Append(outputChan, msg)}
    /\ chat' = "select" /\ msg' = 0
    /\ UNCHANGED <<closed, inputChan, send, incomingPing, responderVars,
                   pinger, reader, writerVars, greeter, doll, history, crashed>>

\* The language model has answered, or failed and "ERROR: ..." is the
\* answer; the send blocks while outputChan is full, closed or not.
ChatReply ==
    /\ Running /\ chat = "reply" /\ Len(outputChan) < OutputCap
    /\ outputChan' = Append(outputChan, msg)
    /\ chat' = "select" /\ msg' = 0
    /\ UNCHANGED <<closed, inputChan, send, incomingPing, responderVars,
                   pinger, reader, writerVars, greeter, doll, history, crashed>>

\* The context is done: the history is stored and Execute returns.
ChatStore ==
    /\ Running /\ chat = "select" /\ closed
    /\ chat' = "stored"
    /\ UNCHANGED <<closed, inputChan, outputChan, send, incomingPing, msg,
                   responderVars, pinger, reader, writerVars, greeter, doll,
                   history, crashed>>

\* Mutant: the greeting is sent to the wrong channel.
GreetIntoInput ==
    /\ Running /\ greeter = "sleep" /\ Len(inputChan) < InputCap
    /\ inputChan' = Append(inputChan, 0)
    /\ greeter' = "done"
    /\ UNCHANGED <<closed, outputChan, send, incomingPing, chatVars,
                   responderVars, pinger, reader, writerVars, doll, history,
                   crashed>>

\* The greeting, 500 ms after Run.
Greet ==
    /\ Running /\ greeter = "sleep" /\ Len(outputChan) < OutputCap
    /\ outputChan' = Append(outputChan, 0)
    /\ greeter' = "done"
    /\ UNCHANGED <<closed, inputChan, send, incomingPing, chatVars,
                   responderVars, pinger, reader, writerVars, doll, history,
                   crashed>>

------------------------------------------------------------------------------
(* handleChatResponses *)

\* A reply to speak; it is ignored when the client is closed.
ResponderTake ==
    /\ Running /\ responder = "select" /\ outputChan # <<>>
    /\ response' = Head(outputChan)
    /\ outputChan' = Tail(outputChan)
    /\ responder' = IF closed THEN "select" ELSE "synthesize"
    /\ answered' = answered \cup {Head(outputChan)}
    /\ UNCHANGED <<closed, inputChan, send, incomingPing, chatVars, pinger,
                   reader, writerVars, greeter, doll, accepted, spoken, crashed>>

\* Synthesize fails and SendMessage tests IsClosed; or the audio is written
\* out; or there are no 32 bytes of it to log.
Synthesize ==
    /\ Running /\ responder = "synthesize"
    /\ \/ /\ responder' = IF closed THEN "select" ELSE "sendMessage"
          /\ UNCHANGED crashed
       \/ /\ responder' = "write"
          /\ StartWrite(writer)
       \/ /\ crashed' = "short audio"
          /\ UNCHANGED responder
    /\ UNCHANGED <<closed, inputChan, outputChan, send, incomingPing, chatVars,
                   response, pinger, reader, writerVars, greeter, doll, history>>

\* The select of SendMessage: queued, or the channel is full and the client
\* is closed, or Close came first and either ready case is taken.
SendMessage ==
    /\ Running /\ responder = "sendMessage"
    /\ \/ /\ ~closed /\ Len(send) < SendCap
          /\ send' = Append(send, response)
          /\ UNCHANGED <<closed, crashed>>
       \/ /\ ~closed /\ Len(send) = SendCap
          /\ Close
          /\ UNCHANGED <<send, crashed>>
       \/ /\ closed
          /\ crashed' \in {"no", "send on closed channel"}
          /\ UNCHANGED <<closed, send>>
    /\ responder' = "select"
    /\ UNCHANGED <<inputChan, outputChan, incomingPing, chatVars, response,
                   pinger, reader, writerVars, greeter, doll, history>>

\* WriteMessage returns; an error is ignored.
ResponderWrite ==
    /\ Running /\ responder = "write"
    /\ responder' = "select"
    /\ spoken' \in {spoken} \cup
                   IF closed THEN {} ELSE {Append(spoken, response)}
    /\ UNCHANGED <<closed, inputChan, outputChan, send, incomingPing, chatVars,
                   response, pinger, reader, writerVars, greeter, doll, accepted,
                   answered, crashed>>

\* Mutant: a break that only leaves the select.
ResponderDoneBreak ==
    /\ Running /\ responder = "select" /\ closed
    /\ UNCHANGED vars

\* The context is done.
ResponderDone ==
    /\ Running /\ responder = "select" /\ closed
    /\ responder' = "done"
    /\ UNCHANGED <<closed, inputChan, outputChan, send, incomingPing, chatVars,
                   response, pinger, reader, writerVars, greeter, doll, history,
                   crashed>>

------------------------------------------------------------------------------
(* Ping *)

\* A ping of the doll came in: the timer starts again.
PingTake ==
    /\ Running /\ pinger = "select" /\ incomingPing > 0
    /\ incomingPing' = incomingPing - 1
    /\ UNCHANGED <<closed, inputChan, outputChan, send, chatVars, responderVars,
                   pinger, reader, writerVars, greeter, doll, history, crashed>>

\* No ping for 30 s and the server's own ping cannot be written.  (One that
\* can be written changes nothing here.)
PingFails ==
    /\ Running /\ pinger = "select" /\ ~closed
    /\ Close
    /\ pinger' = "done"
    /\ UNCHANGED <<inputChan, outputChan, send, incomingPing, chatVars,
                   responderVars, reader, writerVars, greeter, doll, history,
                   crashed>>

\* The context is done.
PingDone ==
    /\ Running /\ pinger = "select" /\ closed
    /\ pinger' = "done"
    /\ UNCHANGED <<closed, inputChan, outputChan, send, incomingPing, chatVars,
                   responderVars, reader, writerVars, greeter, doll, history,
                   crashed>>

------------------------------------------------------------------------------
(* readPump and SendInput *)

\* SendInput: queued, or dropped because the channel is full or the context
\* is done (on a closed client with room, either ready case is taken).
SendInput ==
    /\ inputs < MaxInputs
    /\ inputs' = inputs + 1
    /\ \/ /\ Len(inputChan) < InputCap
          /\ inputChan' = Append(inputChan, inputs + 1)
          /\ accepted' = accepted \cup {inputs + 1}
       \/ /\ closed \/ Len(inputChan) = InputCap
          /\ UNCHANGED <<inputChan, accepted>>

\* The doll closes the connection or is lost, or the read deadline passes.
Hangup ==
    /\ Running /\ ~hungup
    /\ hungup' = TRUE
    /\ UNCHANGED <<closed, inputChan, outputChan, send, incomingPing, chatVars,
                   responderVars, pinger, reader, writerVars, greeter, inputs,
                   frames, history, crashed>>

\* Back in the loop, IsClosed is tested.
ReaderLoop ==
    /\ Running /\ reader = "loop"
    /\ reader' = IF closed THEN "done" ELSE "read"
    /\ UNCHANGED <<closed, inputChan, outputChan, send, incomingPing, chatVars,
                   responderVars, pinger, writerVars, greeter, doll, history,
                   crashed>>

\* Mutant: the reader goes on after a read error.
ReadErrorContinue ==
    /\ Running /\ reader = "read" /\ (hungup \/ closed)
    /\ reader' = "loop"
    /\ UNCHANGED <<closed, inputChan, outputChan, send, incomingPing, chatVars,
                   responderVars, pinger, writerVars, greeter, doll, history,
                   crashed>>

\* ReadMessage returns an error: the deferred Close.
ReadError ==
    /\ Running /\ reader = "read" /\ (hungup \/ closed)
    /\ Close
    /\ reader' = "done"
    /\ UNCHANGED <<inputChan, outputChan, send, incomingPing, chatVars,
                   responderVars, pinger, writerVars, greeter, doll, history,
                   crashed>>

\* The next frame: one that is already buffered is read even when the
\* connection is gone.
ReadFrame == frames < MaxFrames /\ frames' = frames + 1

\* A text message.
ReadText ==
    /\ Running /\ reader = "read"
    /\ ReadFrame
    /\ SendInput
    /\ reader' = "loop"
    /\ UNCHANGED <<closed, outputChan, send, incomingPing, chatVars,
                   responderVars, pinger, writerVars, greeter, hungup,
                   answered, spoken, crashed>>

\* A binary message, or a long one that is not printable: audio.
ReadAudio ==
    /\ Running /\ reader = "read"
    /\ ReadFrame
    /\ reader' = "transcribe"
    /\ UNCHANGED <<closed, inputChan, outputChan, send, incomingPing, chatVars,
                   responderVars, pinger, writerVars, greeter, hungup, inputs,
                   history, crashed>>

\* TranscribeAudio returns a text, or an error or nothing.
Transcribe ==
    /\ Running /\ reader = "transcribe"
    /\ \/ SendInput
       \/ /\ inputs' = inputs
          /\ UNCHANGED <<inputChan, accepted>>
    /\ reader' = "loop"
    /\ UNCHANGED <<closed, outputChan, send, incomingPing, chatVars,
                   responderVars, pinger, writerVars, greeter, hungup, frames,
                   answered, spoken, crashed>>

\* A ping of the doll: its handler runs inside ReadMessage ...
ReadPing ==
    /\ Running /\ reader = "read"
    /\ ReadFrame
    /\ reader' = "ping"
    /\ UNCHANGED <<closed, inputChan, outputChan, send, incomingPing, chatVars,
                   responderVars, pinger, writerVars, greeter, hungup, inputs,
                   history, crashed>>

\* ... and blocks while incomingPing is full; then the pong is written, and
\* when that fails ReadMessage returns the error.
PingHandler ==
    /\ Running /\ reader = "ping" /\ incomingPing < 1
    /\ incomingPing' = incomingPing + 1
    /\ \/ reader' = "read" /\ UNCHANGED closed
       \/ reader' = "done" /\ Close
    /\ UNCHANGED <<inputChan, outputChan, send, chatVars, responderVars, pinger,
                   writerVars, greeter, doll, history, crashed>>

\* The transcription listener of the server calls SendInput as well.
ListenerInput ==
    /\ Running
    /\ SendInput
    /\ UNCHANGED <<closed, outputChan, send, incomingPing, chatVars,
                   responderVars, pinger, reader, writerVars, greeter, hungup,
                   frames, answered, spoken, crashed>>

------------------------------------------------------------------------------
(* writePump *)

\* A text to write; when the client is closed the pump returns instead.
WriterTake ==
    /\ Running /\ writer = "select" /\ send # <<>>
    /\ message' = Head(send)
    /\ send' = Tail(send)
    /\ writer' = IF closed THEN "done" ELSE "write"
    /\ IF closed THEN UNCHANGED crashed ELSE StartWrite(responder)
    /\ UNCHANGED <<closed, inputChan, outputChan, incomingPing, chatVars,
                   responderVars, pinger, reader, greeter, doll, history>>

\* Mutant: the pump returns without the deferred Close.
WriterWriteOpen ==
    /\ Running /\ writer = "write"
    /\ message' = 0
    /\ writer' \in {"done"} \cup IF closed THEN {} ELSE {"select"}
    /\ UNCHANGED <<closed, inputChan, outputChan, send, incomingPing, chatVars,
                   responderVars, pinger, reader, greeter, doll,
                   history, crashed>>

\* WriteMessage returns; an error ends the pump, with the deferred Close.
WriterWrite ==
    /\ Running /\ writer = "write"
    /\ message' = 0
    /\ \/ ~closed /\ writer' = "select" /\ UNCHANGED closed
       \/ writer' = "done" /\ Close
    /\ UNCHANGED <<inputChan, outputChan, send, incomingPing, chatVars,
                   responderVars, pinger, reader, greeter, doll,
                   history, crashed>>

\* The context is done, or send is closed and drained.
WriterDone ==
    /\ Running /\ writer = "select" /\ closed
    /\ writer' = "done"
    /\ UNCHANGED <<closed, inputChan, outputChan, send, incomingPing, chatVars,
                   responderVars, pinger, reader, message, greeter, doll,
                   history, crashed>>

------------------------------------------------------------------------------
Execute == ChatStart \/ ChatTake \/ ChatReply \/ ChatStore
handleChatResponses == \/ ResponderTake \/ Synthesize \/ SendMessage
                       \/ ResponderWrite \/ ResponderDone
Ping == PingTake \/ PingDone
readPump == ReaderLoop \/ ReadError \/ Transcribe \/ PingHandler
writePump == WriterTake \/ WriterWrite \/ WriterDone

Next ==
    \/ Execute \/ Greet \/ handleChatResponses
    \/ Ping \/ PingFails
    \/ readPump \/ ReadText \/ ReadAudio \/ ReadPing
    \/ writePump
    \/ ListenerInput \/ Hangup

Spec == Init /\ [][Next]_vars

\* Goroutines that can run do run, and the external services answer some
\* time; nothing is promised of the doll.
FairSpec == /\ Spec
            /\ WF_vars(Execute) /\ WF_vars(Greet)
            /\ WF_vars(handleChatResponses)
            /\ WF_vars(PingTake) /\ WF_vars(PingDone)
            /\ WF_vars(readPump) /\ WF_vars(writePump)

------------------------------------------------------------------------------
(* Properties *)

\* The replies the doll hears, spoken by handleChatResponses, are in the order
\* of its messages, none twice, whatever is dropped on the way; the greeting
\* comes anywhere.  This is about audio: a reply that cannot be synthesized
\* goes to writePump as text, and audio of a later reply may overtake it.
RepliesInOrder ==
    \A i, j \in DOMAIN spoken : i < j /\ spoken[j] # 0 => spoken[i] < spoken[j]

\* No goroutine that serves the connection ends and leaves the client open, or
\* nobody would tell the hub.  The chat service is the one exception: when
\* Execute fails before its loop, startChatService logs the error and returns
\* (client.go line 209), and the client stays open and connected.  It is then
\* mute: the doll is never sent anything but the greeting.
DeadMeansClosed ==
    /\ "done" \in {responder, pinger, reader, writer} \/ chat = "stored" => closed
    /\ chat = "failed" => answered \subseteq {0}

\* A lost doll is noticed: the client is closed, though the reader may be
\* waiting inside the ping handler or for a transcription.
HangupNoticed == hungup ~> closed \/ ~Running

\* Every message that was queued gets a reply to handleChatResponses while the
\* session lives, unless the chat could not be started.  (The last hop is not
\* promised: a reply whose audio cannot be written is dropped, client.go
\* lines 251-254.)
Answered ==
    \A n \in 1..MaxInputs :
        n \in accepted ~> n \in answered \/ closed \/ chat = "failed" \/ ~Running

\* Blocked for ever: the channel is full and nobody will read it.
ChatStuck == chat = "reply" /\ Len(outputChan) = OutputCap /\ responder = "done"
GreeterStuck == greeter = "sleep" /\ Len(outputChan) = OutputCap /\ responder = "done"
ReaderStuck == reader = "ping" /\ incomingPing = 1 /\ pinger = "done"

\* A closed session ends, with its history stored; the only goroutines it
\* can leave behind are blocked on a full channel whose reader has ended.
SessionEnds ==
    closed ~> \/ ~Running
              \/ /\ chat \in {"stored", "failed"} \/ ChatStuck
                 /\ greeter = "done" \/ GreeterStuck
                 /\ reader = "done" \/ ReaderStuck
                 /\ {responder, pinger, writer} = {"done"}

\* "SendMessage sends a message to the client safely".
SafeSend == crashed # "send on closed channel"
==============================================================================

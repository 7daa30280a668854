------------------------ MODULE ClientSession_proof --------------------------
(***************************************************************************)
(* Proofs about ClientSession: its types, inductive as they stand; that a  *)
(* session whose goroutines begin to end is closed, or mute when its chat  *)
(* service could not be started; and that spoken replies keep the order of *)
(* the messages.                                                           *)
(***************************************************************************)
EXTENDS ClientSession, TLAPS

\* What an element taken off a channel, and the channel after it, are.
LEMMA TakeTyping ==
    ASSUME NEW S, NEW s \in Seq(S), s # <<>>
    PROVE  Head(s) \in S /\ Tail(s) \in Seq(S) /\ Len(Tail(s)) = Len(s) - 1
  OBVIOUS

\* What a channel is after a send.
LEMMA PutTyping ==
    ASSUME NEW S, NEW s \in Seq(S), NEW x \in S
    PROVE  Append(s, x) \in Seq(S) /\ Len(Append(s, x)) = Len(s) + 1
  OBVIOUS

\* A sequence of fewer values.
LEMMA SubTyping ==
    ASSUME NEW S, NEW T, S \subseteq T, NEW s \in Seq(S)
    PROVE  s \in Seq(T)
  <1>1. Len(s) \in Nat /\ s \in [1..Len(s) -> S]
    OBVIOUS
  <1>2. s \in [1..Len(s) -> T]
    BY <1>1
  <1> QED BY <1>1, <1>2

\* SendInput keeps the input channel within its bounds.
LEMMA SendInputTyping ==
    ASSUME TypeOK, SendInput
    PROVE  /\ inputChan' \in Seq(1..MaxInputs) /\ Len(inputChan') <= InputCap
           /\ inputs' \in 0..MaxInputs
           /\ accepted' \subseteq 1..MaxInputs
  <1>0. /\ inputs \in 0..MaxInputs /\ inputs < MaxInputs /\ MaxInputs \in Nat
        /\ inputChan \in Seq(1..MaxInputs) /\ Len(inputChan) <= InputCap
        /\ accepted \subseteq 1..MaxInputs /\ InputCap \in Nat
        /\ inputs' = inputs + 1
    BY SessionAssumption DEF TypeOK, SendInput
  <1>1. inputs + 1 \in 1..MaxInputs /\ inputs' \in 0..MaxInputs
    BY <1>0
  <1>2. CASE /\ Len(inputChan) < InputCap
             /\ inputChan' = Append(inputChan, inputs + 1)
             /\ accepted' = accepted \cup {inputs + 1}
    <2>1. /\ inputChan' \in Seq(1..MaxInputs)
          /\ Len(inputChan') = Len(inputChan) + 1
      BY <1>0, <1>1, <1>2, PutTyping
    <2>2. Len(inputChan') <= InputCap
      BY <1>0, <1>2, <2>1
    <2>3. accepted' \subseteq 1..MaxInputs
      BY <1>0, <1>1, <1>2
    <2> QED BY <1>1, <2>1, <2>2, <2>3
  <1>3. CASE UNCHANGED <<inputChan, accepted>>
    BY <1>0, <1>1, <1>3
  <1> QED BY <1>2, <1>3 DEF SendInput

\* The typing of the channels is kept by every step that uses one.
LEMMA TypeStep == TypeOK /\ [Next]_vars => TypeOK'
  <1> SUFFICES ASSUME TypeOK, [Next]_vars PROVE TypeOK'
    OBVIOUS
  <1> USE DEF TypeOK, Running, Close
  <1>0. /\ InputCap \in Nat /\ OutputCap \in Nat /\ SendCap \in Nat
        /\ MaxInputs \in Nat /\ MaxFrames \in Nat
        /\ 0 \in Replies /\ 1..MaxInputs \subseteq Replies
    BY SessionAssumption DEF Replies
  <1>1. CASE ChatStart
    <2>1. chat' \in {"load", "select", "failed"} /\ crashed' \in {"no"} \cup Panics
      BY <1>1 DEF ChatStart, Panics
    <2>2. UNCHANGED <<closed, inputChan, outputChan, send, incomingPing, msg, responder,
                      response, pinger, reader, writer, message, greeter, hungup,
                      inputs, frames, accepted, answered, spoken>>
      BY <1>1 DEF ChatStart, responderVars, writerVars, doll, history
    <2> QED BY <2>1, <2>2
  <1>2. CASE ChatTake
    <2>1. /\ Head(inputChan) \in 1..MaxInputs
          /\ Tail(inputChan) \in Seq(1..MaxInputs)
          /\ Len(Tail(inputChan)) = Len(inputChan) - 1
      BY <1>2, TakeTyping DEF ChatTake
    <2> QED BY <1>0, <1>2, <2>1
            DEF ChatTake, responderVars, writerVars, doll, history
  <1>3. CASE ChatReply
    <2>1. /\ Append(outputChan, msg) \in Seq(Replies)
          /\ Len(Append(outputChan, msg)) = Len(outputChan) + 1
      BY PutTyping
    <2> QED BY <1>0, <1>3, <2>1
            DEF ChatReply, responderVars, writerVars, doll, history
  <1>4. CASE ChatStore
    BY <1>4 DEF ChatStore, responderVars, writerVars, doll, history
  <1>5. CASE Greet
    <2>1. /\ Append(outputChan, 0) \in Seq(Replies)
          /\ Len(Append(outputChan, 0)) = Len(outputChan) + 1
      BY <1>0, PutTyping
    <2> QED BY <1>0, <1>5, <2>1
            DEF Greet, chatVars, responderVars, writerVars, doll, history
  <1>6. CASE ResponderTake
    <2>1. /\ Head(outputChan) \in Replies
          /\ Tail(outputChan) \in Seq(Replies)
          /\ Len(Tail(outputChan)) = Len(outputChan) - 1
      BY <1>6, TakeTyping DEF ResponderTake
    <2> QED BY <1>0, <1>6, <2>1
            DEF ResponderTake, chatVars, writerVars, doll
  <1>7. CASE Synthesize
    <2>1. crashed' \in {"no"} \cup Panics
      BY <1>7 DEF Synthesize, StartWrite, Panics
    <2>2. responder' \in {"select", "sendMessage", "write", "synthesize"}
      BY <1>7 DEF Synthesize
    <2>3. UNCHANGED <<closed, inputChan, outputChan, send, incomingPing, chat, msg,
                      response, pinger, reader, writer, message, greeter, hungup,
                      inputs, frames, accepted, answered, spoken>>
      BY <1>7 DEF Synthesize, chatVars, writerVars, doll, history
    <2> QED BY <2>1, <2>2, <2>3
  <1>8. CASE SendMessage
    <2>1. /\ Append(send, response) \in Seq(Replies)
          /\ Len(Append(send, response)) = Len(send) + 1
      BY PutTyping
    <2>2. send' \in Seq(Replies) /\ Len(send') <= SendCap
      <3>1. \/ Len(send) < SendCap /\ send' = Append(send, response)
            \/ send' = send
        BY <1>8 DEF SendMessage
      <3>2. send \in Seq(Replies) /\ Len(send) \in Nat /\ Len(send) <= SendCap
        OBVIOUS
      <3>3. CASE Len(send) < SendCap /\ send' = Append(send, response)
        <4>1. Len(send') = Len(send) + 1 /\ send' \in Seq(Replies)
          BY <2>1, <3>3
        <4> QED BY <1>0, <3>2, <3>3, <4>1
      <3>4. CASE send' = send
        BY <3>2, <3>4
      <3> QED BY <3>1, <3>3, <3>4
    <2>3. crashed' \in {"no"} \cup Panics /\ closed' \in BOOLEAN
      BY <1>8 DEF SendMessage, Panics
    <2>4. responder' = "select"
      BY <1>8 DEF SendMessage
    <2>5. UNCHANGED <<inputChan, outputChan, incomingPing, chat, msg, response, pinger,
                      reader, writer, message, greeter, hungup, inputs, frames,
                      accepted, answered, spoken>>
      BY <1>8 DEF SendMessage, chatVars, writerVars, doll, history
    <2> QED BY <2>2, <2>3, <2>4, <2>5
  <1>9. CASE ResponderWrite
    <2>1. Append(spoken, response) \in Seq(Replies)
      BY PutTyping
    <2>2. spoken' \in Seq(Replies)
      <3>1. spoken' = spoken \/ spoken' = Append(spoken, response)
        BY <1>9 DEF ResponderWrite
      <3> QED BY <2>1, <3>1
    <2>3. /\ responder' = "select"
          /\ UNCHANGED <<closed, inputChan, outputChan, send, incomingPing, chat,
                         msg, response, pinger, reader, writer, message, greeter,
                         hungup, inputs, frames, accepted, answered, crashed>>
      BY <1>9 DEF ResponderWrite, chatVars, writerVars, doll
    <2> QED BY <2>2, <2>3
  <1>10. CASE ResponderDone
    BY <1>10 DEF ResponderDone, chatVars, writerVars, doll, history
  <1>11. CASE Ping \/ PingFails
    <2>1. incomingPing' \in 0..1
      BY <1>11 DEF Ping, PingTake, PingDone, PingFails
    <2>2. closed' \in BOOLEAN /\ pinger' \in {"select", "done"}
      BY <1>11 DEF Ping, PingTake, PingDone, PingFails
    <2> QED BY <1>11, <2>1, <2>2
            DEF Ping, PingTake, PingDone, PingFails, chatVars, responderVars,
                writerVars, doll, history
  <1>12. CASE ReaderLoop \/ ReadError \/ PingHandler \/ Hangup
    <2>1. incomingPing' \in 0..1
      BY <1>12 DEF ReaderLoop, ReadError, PingHandler, Hangup
    <2>2. /\ closed' \in BOOLEAN /\ hungup' \in BOOLEAN
          /\ reader' \in {"loop", "read", "ping", "transcribe", "done"}
      BY <1>12 DEF ReaderLoop, ReadError, PingHandler, Hangup, doll
    <2> QED BY <1>12, <2>1, <2>2
            DEF ReaderLoop, ReadError, PingHandler, Hangup, chatVars,
                responderVars, writerVars, doll, history
  <1>13. CASE Transcribe
    <2>1. /\ inputChan' \in Seq(1..MaxInputs) /\ Len(inputChan') <= InputCap
          /\ inputs' \in 0..MaxInputs /\ accepted' \subseteq 1..MaxInputs
      <3>1. CASE SendInput
        BY <3>1, SendInputTyping
      <3>2. CASE inputs' = inputs /\ UNCHANGED <<inputChan, accepted>>
        BY <3>2
      <3> QED BY <1>13, <3>1, <3>2 DEF Transcribe
    <2>2. /\ reader' = "loop"
          /\ UNCHANGED <<closed, outputChan, send, incomingPing, chat, msg,
                         responder, response, pinger, writer, message, greeter,
                         hungup, frames, answered, spoken, crashed>>
      BY <1>13 DEF Transcribe, chatVars, responderVars, writerVars
    <2> QED BY <2>1, <2>2
  <1>14. CASE ReadText \/ ListenerInput
    <2>1. /\ inputChan' \in Seq(1..MaxInputs) /\ Len(inputChan') <= InputCap
          /\ inputs' \in 0..MaxInputs /\ accepted' \subseteq 1..MaxInputs
      BY <1>14, SendInputTyping DEF ReadText, ListenerInput
    <2>2. frames' \in 0..MaxFrames
      BY <1>0, <1>14 DEF ReadText, ReadFrame, ListenerInput
    <2>3. /\ reader' \in {"loop", reader}
          /\ UNCHANGED <<closed, outputChan, send, incomingPing, chat, msg,
                         responder, response, pinger, writer, message, greeter,
                         hungup, answered, spoken, crashed>>
      BY <1>14 DEF ReadText, ListenerInput, chatVars, responderVars, writerVars
    <2> QED BY <2>1, <2>2, <2>3
  <1>15. CASE ReadAudio \/ ReadPing
    <2>1. frames' \in 0..MaxFrames
      BY <1>0, <1>15 DEF ReadAudio, ReadPing, ReadFrame
    <2>2. /\ reader' \in {"ping", "transcribe"}
          /\ UNCHANGED <<closed, inputChan, outputChan, send, incomingPing, chat,
                         msg, responder, response, pinger, writer, message,
                         greeter, hungup, inputs, accepted, answered, spoken,
                         crashed>>
      BY <1>15 DEF ReadAudio, ReadPing, chatVars, responderVars, writerVars, history
    <2> QED BY <2>1, <2>2
  <1>16. CASE WriterTake
    <2>1. /\ Head(send) \in Replies /\ Tail(send) \in Seq(Replies)
          /\ Len(Tail(send)) = Len(send) - 1
      BY <1>16, TakeTyping DEF WriterTake
    <2>2. send' \in Seq(Replies) /\ Len(send') <= SendCap /\ message' \in Replies
      BY <1>0, <1>16, <2>1 DEF WriterTake
    <2>3. crashed' \in {"no"} \cup Panics /\ writer' \in {"done", "write"}
      BY <1>16 DEF WriterTake, StartWrite, Panics
    <2> QED BY <1>16, <2>2, <2>3
            DEF WriterTake, chatVars, responderVars, doll, history
  <1>17. CASE WriterWrite
    <2>1. closed' \in BOOLEAN /\ writer' \in {"select", "done"} /\ message' \in Replies
      BY <1>0, <1>17 DEF WriterWrite
    <2>2. UNCHANGED <<inputChan, outputChan, send, incomingPing, chat, msg,
                      responder, response, pinger, reader, greeter, hungup,
                      inputs, frames, accepted, answered, spoken, crashed>>
      BY <1>17 DEF WriterWrite, chatVars, responderVars, doll, history
    <2> QED BY <2>1, <2>2
  <1>18. CASE WriterDone
    BY <1>18 DEF WriterDone, chatVars, responderVars, doll, history
  <1>19. CASE UNCHANGED vars
    BY <1>19 DEF vars, chatVars, responderVars, writerVars, doll, history
  <1> QED
    BY <1>1, <1>2, <1>3, <1>4, <1>5, <1>6, <1>7, <1>8, <1>9, <1>10, <1>11,
       <1>12, <1>13, <1>14, <1>15, <1>16, <1>17, <1>18, <1>19
       DEF Next, Execute, handleChatResponses, readPump, writePump

LEMMA TypeInit == Init => TypeOK
  <1>1. /\ InputCap \in Nat /\ OutputCap \in Nat /\ SendCap \in Nat
        /\ MaxInputs \in Nat /\ MaxFrames \in Nat
    BY SessionAssumption
  <1>2. \A S : <<>> \in Seq(S) /\ Len(<<>>) = 0
    OBVIOUS
  <1>3. 0 \in Replies
    BY <1>1 DEF Replies
  <1>4. Init => closed \in BOOLEAN /\ hungup \in BOOLEAN
    BY Zenon DEF Init
  <1>5. Init => /\ inputChan \in Seq(1..MaxInputs) /\ Len(inputChan) <= InputCap
                /\ outputChan \in Seq(Replies) /\ Len(outputChan) <= OutputCap
                /\ send \in Seq(Replies) /\ Len(send) <= SendCap
                /\ spoken \in Seq(Replies)
    BY <1>1, <1>2 DEF Init
  <1>6. Init => /\ incomingPing \in 0..1
                /\ inputs \in 0..MaxInputs /\ frames \in 0..MaxFrames
                /\ msg \in Replies /\ response \in Replies /\ message \in Replies
                /\ accepted \subseteq 1..MaxInputs /\ answered \subseteq Replies
    BY <1>1, <1>3 DEF Init
  <1> QED BY <1>4, <1>5, <1>6 DEF Init, TypeOK

\* The channels of a session keep within their buffers, and its goroutines
\* within their states (client.go lines 94-462).
THEOREM SessionTypeCorrect == Spec => []TypeOK
  BY TypeInit, TypeStep, PTL DEF Spec

\* The chat service has not reached its loop: no reply has been made.
Mute ==
    chat \in {"load", "failed"} =>
        /\ \A i \in DOMAIN outputChan : outputChan[i] = 0
        /\ answered \subseteq {0}

\* Only the greeting is in the channel until Execute is in its loop.
LEMMA MuteStep == TypeOK /\ Mute /\ [Next]_vars => Mute'
  <1> SUFFICES ASSUME TypeOK, Mute, [Next]_vars, chat' \in {"load", "failed"}
               PROVE  /\ \A i \in DOMAIN outputChan' : outputChan'[i] = 0
                      /\ answered' \subseteq {0}
    BY DEF Mute
  <1>0. outputChan \in Seq(Replies)
    BY DEF TypeOK
  <1>1. CASE ChatStart
    BY <1>1 DEF Mute, ChatStart, history
  <1>2. CASE ChatTake \/ ChatReply \/ ChatStore
    BY <1>2 DEF ChatTake, ChatReply, ChatStore
  <1>3. CASE Greet
    <2>1. outputChan' = Append(outputChan, 0) /\ UNCHANGED <<chat, answered>>
      BY <1>3 DEF Greet, chatVars, history
    <2>2. \A i \in DOMAIN Append(outputChan, 0) : Append(outputChan, 0)[i] = 0
      BY <1>0, <2>1 DEF Mute
    <2> QED BY <2>1, <2>2 DEF Mute
  <1>4. CASE ResponderTake
    <2>1. /\ outputChan # <<>> /\ outputChan' = Tail(outputChan)
          /\ answered' = answered \cup {Head(outputChan)} /\ UNCHANGED chat
      BY <1>4 DEF ResponderTake, chatVars
    <2>2. /\ \A i \in DOMAIN outputChan : outputChan[i] = 0
          /\ answered \subseteq {0}
      BY <2>1 DEF Mute
    <2>3. Head(outputChan) = 0 /\ \A i \in DOMAIN Tail(outputChan) : Tail(outputChan)[i] = 0
      BY <1>0, <2>1, <2>2
    <2> QED BY <2>1, <2>2, <2>3
  <1>5. CASE Synthesize \/ SendMessage \/ ResponderWrite \/ ResponderDone
    BY <1>5 DEF Mute, Synthesize, SendMessage, ResponderWrite, ResponderDone, chatVars,
       history
  <1>6. CASE Ping \/ PingFails
    BY <1>6 DEF Mute, Ping, PingTake, PingDone, PingFails, chatVars, history
  <1>7. CASE \/ readPump \/ ReadText \/ ReadAudio \/ ReadPing \/ ListenerInput \/ Hangup
    BY <1>7 DEF Mute, readPump, ReaderLoop, ReadError, Transcribe, PingHandler,
       ReadText, ReadAudio, ReadPing, ListenerInput, Hangup, chatVars, history
  <1>8. CASE writePump
    BY <1>8 DEF Mute, writePump, WriterTake, WriterWrite, WriterDone, chatVars, history
  <1>9. CASE UNCHANGED vars
    BY <1>9 DEF Mute, vars, chatVars, history
  <1> QED BY <1>1, <1>2, <1>3, <1>4, <1>5, <1>6, <1>7, <1>8, <1>9
          DEF Next, Execute, handleChatResponses

\* Whichever of the other goroutines ends, on whatever error, the client is
\* closed (the deferred Close calls of client.go lines 275-444); a client whose
\* chat service failed at the start may be open, and never gets an answer.
THEOREM DeadIsClosed == Spec => []DeadMeansClosed
  <1> DEFINE Ended == "done" \in {responder, pinger, reader, writer} \/ chat = "stored"
                          => closed
  <1>1. Init => Ended /\ Mute
    BY DEF Init, Mute
  <1>2. Ended /\ [Next]_vars => Ended'
    <2> SUFFICES ASSUME Ended, [Next]_vars PROVE Ended'
      OBVIOUS
    <2> USE DEF Close
    <2>1. CASE Execute \/ Greet
      BY <2>1 DEF Execute, ChatStart, ChatTake, ChatReply, ChatStore, Greet,
                  responderVars, writerVars, chatVars
    <2>2. CASE handleChatResponses
      BY <2>2 DEF handleChatResponses, ResponderTake, Synthesize, SendMessage,
                  ResponderWrite, ResponderDone, chatVars, writerVars
    <2>3. CASE Ping \/ PingFails
      BY <2>3 DEF Ping, PingTake, PingDone, PingFails, chatVars, responderVars,
                  writerVars
    <2>4. CASE \/ readPump \/ ReadText \/ ReadAudio \/ ReadPing
               \/ ListenerInput \/ Hangup
      BY <2>4 DEF readPump, ReaderLoop, ReadError, Transcribe, PingHandler,
                  ReadText, ReadAudio, ReadPing, ListenerInput, Hangup, chatVars,
                  responderVars, writerVars
    <2>5. CASE writePump
      BY <2>5 DEF writePump, WriterTake, WriterWrite, WriterDone, chatVars,
                  responderVars
    <2>6. CASE UNCHANGED vars
      BY <2>6 DEF vars, chatVars, responderVars, writerVars
    <2> QED BY <2>1, <2>2, <2>3, <2>4, <2>5, <2>6 DEF Next
  <1>3. Ended /\ Mute => DeadMeansClosed
    BY DEF DeadMeansClosed, Mute
  <1> HIDE DEF Ended
  <1> QED BY <1>1, <1>2, <1>3, TypeInit, TypeStep, MuteStep, PTL DEF Spec
------------------------------------------------------------------------------
(* The order of the replies *)

\* All of s came before n.
Earlier(s, n) == \A i \in DOMAIN s : s[i] < n

\* Everything in s but the greeting came after what is in front of it.
Rising(s) == \A i, j \in DOMAIN s : i < j /\ s[j] # 0 => s[i] < s[j]

\* All that is said, waits or is in hand came before n.
Passed(said, waiting, hand, n) ==
    Earlier(said, n) /\ Earlier(waiting, n) /\ \A h \in hand : h < n

\* The reply of handleChatResponses that may still be spoken.
Hand == IF responder \in {"synthesize", "sendMessage", "write"} THEN {response} ELSE {}

\* The message Execute works on.
Asked == IF chat = "reply" THEN {msg} ELSE {}

\* From readPump to the doll every message is behind the ones before it: what
\* is spoken, the reply in hand and the replies in outputChan ...
OutputOrder ==
    /\ Rising(spoken) /\ Rising(outputChan)
    /\ \A h \in Hand : h # 0 => Earlier(spoken, h)
    /\ \A j \in DOMAIN outputChan :
          outputChan[j] # 0 => Passed(spoken, <<>>, Hand, outputChan[j])

\* ... the message that Execute works on, the messages in inputChan and the
\* next one to come.
InputOrder ==
    /\ Rising(inputChan)
    /\ \A m \in Asked : m \in 1..inputs /\ Passed(spoken, outputChan, Hand, m)
    /\ \A j \in DOMAIN inputChan :
          /\ inputChan[j] \in 1..inputs
          /\ Passed(spoken, outputChan, Hand, inputChan[j])
          /\ \A m \in Asked : m < inputChan[j]
    /\ Passed(spoken, outputChan, Hand, inputs + 1)

OrderInv == TypeOK /\ OutputOrder /\ InputOrder

\* A channel, or what is spoken, after a send.
LEMMA PutOrder ==
    ASSUME NEW s \in Seq(Nat), NEW x \in Nat
    PROVE  /\ \A n \in Nat : Earlier(s, n) /\ x < n => Earlier(Append(s, x), n)
           /\ Rising(s) /\ (x # 0 => Earlier(s, x)) => Rising(Append(s, x))
           /\ DOMAIN Append(s, x) = 1..(Len(s) + 1) /\ DOMAIN s = 1..Len(s)
           /\ \A j \in DOMAIN s : Append(s, x)[j] = s[j]
           /\ Append(s, x)[Len(s) + 1] = x
  <1>1. /\ DOMAIN Append(s, x) = 1..(Len(s) + 1) /\ DOMAIN s = 1..Len(s)
        /\ Len(s) \in Nat
        /\ \A j \in 1..Len(s) : Append(s, x)[j] = s[j] /\ s[j] \in Nat
        /\ Append(s, x)[Len(s) + 1] = x
    OBVIOUS
  <1>2. \A n \in Nat : Earlier(s, n) /\ x < n => Earlier(Append(s, x), n)
    BY <1>1 DEF Earlier
  <1>3. Rising(s) /\ (x # 0 => Earlier(s, x)) => Rising(Append(s, x))
    BY <1>1 DEF Earlier, Rising
  <1> QED BY <1>1, <1>2, <1>3

\* A channel after a receive.
LEMMA TakeOrder ==
    ASSUME NEW s \in Seq(Nat), s # <<>>
    PROVE  /\ Head(s) = s[1] /\ 1 \in DOMAIN s
           /\ \A n \in Nat : Earlier(s, n) => Earlier(Tail(s), n) /\ Head(s) < n
           /\ Rising(s) => Rising(Tail(s))
           /\ \A j \in DOMAIN Tail(s) :
                 /\ j + 1 \in DOMAIN s /\ Tail(s)[j] = s[j + 1]
                 /\ Rising(s) /\ Tail(s)[j] # 0 => Head(s) < Tail(s)[j]
  <1>1. /\ DOMAIN s = 1..Len(s) /\ Len(s) \in Nat \ {0}
        /\ DOMAIN Tail(s) = 1..(Len(s) - 1)
        /\ \A j \in 1..(Len(s) - 1) : Tail(s)[j] = s[j + 1]
        /\ Head(s) = s[1]
    OBVIOUS
  <1>2. \A n \in Nat : Earlier(s, n) => Earlier(Tail(s), n) /\ Head(s) < n
    BY <1>1 DEF Earlier
  <1>3. Rising(s) => Rising(Tail(s))
    <2> SUFFICES ASSUME Rising(s), NEW i \in DOMAIN Tail(s), NEW j \in DOMAIN Tail(s),
                        i < j, Tail(s)[j] # 0
                 PROVE  Tail(s)[i] < Tail(s)[j]
      BY DEF Rising
    <2>1. /\ i + 1 \in DOMAIN s /\ j + 1 \in DOMAIN s /\ i + 1 < j + 1
          /\ Tail(s)[i] = s[i + 1] /\ Tail(s)[j] = s[j + 1]
      BY <1>1
    <2> QED BY <2>1 DEF Rising
  <1>4. \A j \in DOMAIN Tail(s) :
           /\ j + 1 \in DOMAIN s /\ Tail(s)[j] = s[j + 1]
           /\ Rising(s) /\ Tail(s)[j] # 0 => Head(s) < Tail(s)[j]
    <2> SUFFICES ASSUME NEW j \in DOMAIN Tail(s)
                 PROVE  /\ j + 1 \in DOMAIN s /\ Tail(s)[j] = s[j + 1]
                        /\ Rising(s) /\ Tail(s)[j] # 0 => Head(s) < Tail(s)[j]
      OBVIOUS
    <2>1. /\ 1 \in DOMAIN s /\ j + 1 \in DOMAIN s /\ 1 < j + 1
          /\ Tail(s)[j] = s[j + 1]
      BY <1>1
    <2> QED BY <1>1, <2>1 DEF Rising
  <1> QED BY <1>1, <1>2, <1>3, <1>4

\* Steps that neither queue nor take anything.
LEMMA OrderStutter ==
    ASSUME OutputOrder, InputOrder,
           UNCHANGED <<spoken, outputChan, inputChan, inputs>>,
           Hand' \subseteq Hand, Asked' \subseteq Asked
    PROVE  OutputOrder' /\ InputOrder'
  <1>1. OutputOrder'
    BY DEF OutputOrder, Passed
  <1>2. InputOrder'
    BY DEF InputOrder, Passed
  <1> QED BY <1>1, <1>2

\* SendInput, with nothing else of the order changed.
LEMMA OrderInput ==
    ASSUME OrderInv, SendInput,
           UNCHANGED <<spoken, outputChan, Hand, Asked>>
    PROVE  OutputOrder' /\ InputOrder'
  <1>1. OutputOrder'
    BY DEF OrderInv, OutputOrder
  <1> DEFINE Before(n) == Passed(spoken, outputChan, Hand, n)
  <1>2. /\ inputs \in Nat /\ inputs' = inputs + 1 /\ inputChan \in Seq(Nat)
        /\ outputChan \in Seq(Nat) /\ spoken \in Seq(Nat) /\ Hand \subseteq Nat
    <2>1. TypeOK /\ MaxInputs \in Nat
      BY SessionAssumption DEF OrderInv
    <2>2. /\ inputs \in 0..MaxInputs /\ inputChan \in Seq(1..MaxInputs)
          /\ outputChan \in Seq(0..MaxInputs) /\ spoken \in Seq(0..MaxInputs)
          /\ response \in 0..MaxInputs
      BY <2>1 DEF TypeOK, Replies
    <2>3. inputs' = inputs + 1
      BY DEF SendInput
    <2>4. Hand \subseteq Nat
      BY <2>1, <2>2 DEF Hand
    <2> QED BY <2>1, <2>2, <2>3, <2>4
  <1>3. Before(inputs + 1 + 1)
    <2>1. Before(inputs + 1)
      BY DEF OrderInv, InputOrder
    <2> QED BY <1>2, <2>1 DEF Passed, Earlier
  <1>4. \A m \in Asked : m \in 1..(inputs + 1) /\ Before(m)
    BY <1>2 DEF OrderInv, InputOrder
  <1> DEFINE s == inputChan
             x == inputs + 1
  <1>5. /\ Rising(s)
        /\ \A j \in DOMAIN s : /\ s[j] \in 1..inputs /\ Before(s[j])
                               /\ \A m \in Asked : m < s[j]
    BY DEF OrderInv, InputOrder
  <1>6. CASE UNCHANGED inputChan
    BY <1>1, <1>2, <1>3, <1>4, <1>5, <1>6 DEF InputOrder
  <1>7. CASE inputChan' = Append(s, x)
    <2>1. /\ Rising(s) /\ (x # 0 => Earlier(s, x)) => Rising(Append(s, x))
          /\ DOMAIN Append(s, x) = 1..(Len(s) + 1) /\ DOMAIN s = 1..Len(s)
          /\ \A j \in DOMAIN s : Append(s, x)[j] = s[j]
          /\ Append(s, x)[Len(s) + 1] = x
      <3>1. s \in Seq(Nat) /\ x \in Nat
        BY <1>2
      <3> HIDE DEF s, x
      <3> QED BY <3>1, PutOrder
    <2>2. Earlier(s, x)
      BY <1>2, <1>5 DEF Earlier
    <2>3. Rising(inputChan')
      BY <1>5, <1>7, <2>1, <2>2
    <2>4. ASSUME NEW j \in DOMAIN inputChan'
          PROVE  /\ inputChan'[j] \in 1..(inputs + 1) /\ Before(inputChan'[j])
                 /\ \A m \in Asked : m < inputChan'[j]
      <3>1. j \in DOMAIN s \/ j = Len(s) + 1
        BY <1>2, <1>7, <2>1, <2>4
      <3>2. CASE j \in DOMAIN s
        <4>1. inputChan'[j] = s[j]
          BY <1>7, <2>1, <3>2
        <4> QED BY <1>2, <1>5, <3>2, <4>1
      <3>3. CASE j = Len(s) + 1
        <4>1. inputChan'[j] = x
          BY <1>7, <2>1, <3>3
        <4>2. Before(x) /\ \A m \in Asked : m \in 1..inputs
          BY DEF OrderInv, InputOrder
        <4> QED BY <1>2, <4>1, <4>2
      <3> QED BY <3>1, <3>2, <3>3
    <2> QED BY <1>1, <1>2, <1>3, <1>4, <2>3, <2>4 DEF InputOrder
  <1> QED BY <1>1, <1>6, <1>7 DEF SendInput

LEMMA OrderInit == Init => OutputOrder /\ InputOrder
  BY DEF Init, OutputOrder, InputOrder, Rising, Passed, Earlier, Hand, Asked

\* The messages move along and keep their order.
LEMMA OrderStep == OrderInv /\ [Next]_vars => OutputOrder' /\ InputOrder'
  <1> SUFFICES ASSUME OrderInv, [Next]_vars PROVE OutputOrder' /\ InputOrder'
    OBVIOUS
  <1>0. /\ inputs \in Nat /\ inputChan \in Seq(Nat) /\ outputChan \in Seq(Nat)
        /\ spoken \in Seq(Nat) /\ response \in Nat /\ msg \in Nat
        /\ Hand \subseteq Nat /\ Asked \subseteq Nat
    <2>1. 1..MaxInputs \subseteq Nat /\ Replies \subseteq Nat
      BY SessionAssumption DEF Replies
    <2>2. /\ inputs \in 0..MaxInputs /\ inputChan \in Seq(1..MaxInputs)
          /\ outputChan \in Seq(Replies) /\ spoken \in Seq(Replies)
          /\ response \in Replies /\ msg \in Replies
      BY DEF OrderInv, TypeOK
    <2>3. inputs \in Nat /\ response \in Nat /\ msg \in Nat
      BY <2>1, <2>2, SessionAssumption
    <2>4. inputChan \in Seq(Nat) /\ outputChan \in Seq(Nat) /\ spoken \in Seq(Nat)
      BY <2>1, <2>2, SubTyping
    <2> QED BY <2>3, <2>4 DEF Hand, Asked
  <1>o. OutputOrder /\ InputOrder
    BY DEF OrderInv
  <1>1. CASE ChatTake
    <2> DEFINE s == inputChan
    <2>1. /\ s # <<>> /\ inputChan' = Tail(s) /\ Asked' = {Head(s)}
          /\ UNCHANGED <<spoken, outputChan, inputs, Hand>>
      BY <1>1 DEF ChatTake, responderVars, history, doll, Hand, Asked
    <2>2. /\ Head(s) = s[1] /\ 1 \in DOMAIN s
          /\ Rising(s) => Rising(Tail(s))
          /\ \A j \in DOMAIN Tail(s) :
                /\ j + 1 \in DOMAIN s /\ Tail(s)[j] = s[j + 1]
                /\ Rising(s) /\ Tail(s)[j] # 0 => Head(s) < Tail(s)[j]
      BY <1>0, <2>1, TakeOrder
    <2>3. \A j \in DOMAIN s : s[j] \in 1..inputs /\ Passed(spoken, outputChan, Hand, s[j])
      BY <1>o DEF InputOrder
    <2>4. OutputOrder'
      BY <1>o, <2>1 DEF OutputOrder
    <2>5. \A j \in DOMAIN Tail(s) : /\ Tail(s)[j] \in 1..inputs
                                    /\ Passed(spoken, outputChan, Hand, Tail(s)[j])
                                    /\ Head(s) < Tail(s)[j]
      BY <1>0, <1>o, <2>2, <2>3 DEF InputOrder
    <2>6. Head(s) \in 1..inputs /\ Passed(spoken, outputChan, Hand, Head(s))
      BY <2>2, <2>3
    <2> HIDE DEF s
    <2>7. InputOrder'
      BY <1>o, <2>1, <2>2, <2>5, <2>6 DEF InputOrder, s
    <2> QED BY <2>4, <2>7
  <1>2. CASE ChatReply
    <2> DEFINE s == outputChan
    <2>1. /\ outputChan' = Append(s, msg) /\ Asked' = {} /\ Asked = {msg}
          /\ UNCHANGED <<spoken, inputChan, inputs, Hand>>
      BY <1>2 DEF ChatReply, responderVars, history, doll, Hand, Asked
    <2>2. msg \in 1..inputs /\ Passed(spoken, s, Hand, msg)
      BY <1>o, <2>1 DEF InputOrder
    <2>3. /\ \A n \in Nat : Earlier(s, n) /\ msg < n => Earlier(Append(s, msg), n)
          /\ Rising(s) /\ (msg # 0 => Earlier(s, msg)) => Rising(Append(s, msg))
          /\ DOMAIN Append(s, msg) = 1..(Len(s) + 1) /\ DOMAIN s = 1..Len(s)
          /\ \A j \in DOMAIN s : Append(s, msg)[j] = s[j]
          /\ Append(s, msg)[Len(s) + 1] = msg
      BY <1>0, PutOrder
    <2>4. OutputOrder'
      <3>1. Rising(outputChan')
        BY <1>o, <2>1, <2>2, <2>3 DEF Passed, OutputOrder
      <3>2. ASSUME NEW j \in DOMAIN outputChan', outputChan'[j] # 0
            PROVE  Passed(spoken, <<>>, Hand, outputChan'[j])
        <4>1. CASE j \in DOMAIN s
          BY <1>o, <2>1, <2>3, <3>2, <4>1 DEF OutputOrder
        <4>2. CASE j = Len(s) + 1
          BY <2>1, <2>2, <2>3, <4>2 DEF Passed, Earlier
        <4>3. j \in DOMAIN s \/ j = Len(s) + 1
          BY <1>0, <2>1, <2>3, <3>2
        <4> QED BY <4>1, <4>2, <4>3
      <3> QED BY <1>o, <2>1, <3>1, <3>2 DEF OutputOrder
    <2>5. InputOrder'
      <3>1. \A n \in Nat : Passed(spoken, s, Hand, n) /\ msg < n =>
                           Passed(spoken, outputChan', Hand, n)
        BY <2>1, <2>3 DEF Passed
      <3>2. /\ \A j \in DOMAIN inputChan : /\ inputChan[j] \in 1..inputs
                                            /\ Passed(spoken, s, Hand, inputChan[j])
                                            /\ msg < inputChan[j]
            /\ Passed(spoken, s, Hand, inputs + 1) /\ Rising(inputChan)
        BY <1>o, <2>1 DEF InputOrder
      <3>3. /\ \A j \in DOMAIN inputChan : /\ inputChan[j] \in 1..inputs
                                            /\ Passed(spoken, outputChan', Hand, inputChan[j])
            /\ Passed(spoken, outputChan', Hand, inputs + 1)
        BY <1>0, <2>2, <3>1, <3>2
      <3> QED BY <2>1, <3>2, <3>3 DEF InputOrder
    <2> QED BY <2>4, <2>5
  <1>3. CASE Greet
    <2> DEFINE s == outputChan
    <2>1. outputChan' = Append(s, 0) /\ UNCHANGED <<spoken, inputChan, inputs, Hand, Asked>>
      BY <1>3 DEF Greet, chatVars, responderVars, history, doll, Hand, Asked
    <2>2. /\ \A n \in Nat : Earlier(s, n) /\ 0 < n => Earlier(Append(s, 0), n)
          /\ Rising(s) => Rising(Append(s, 0))
          /\ DOMAIN Append(s, 0) = 1..(Len(s) + 1) /\ DOMAIN s = 1..Len(s)
          /\ \A j \in DOMAIN s : Append(s, 0)[j] = s[j]
          /\ Append(s, 0)[Len(s) + 1] = 0
      BY <1>0, PutOrder
    <2>3. \A n \in Nat : Passed(spoken, s, Hand, n) /\ 0 < n =>
                         Passed(spoken, outputChan', Hand, n)
      BY <2>1, <2>2 DEF Passed
    <2>4. OutputOrder'
      <3>1. \A j \in DOMAIN outputChan' : outputChan'[j] # 0 =>
                                           j \in DOMAIN s /\ outputChan'[j] = s[j]
        BY <1>0, <2>1, <2>2
      <3> QED BY <1>o, <2>1, <2>2, <3>1 DEF OutputOrder
    <2>5. InputOrder'
      <3>1. /\ \A m \in Asked : m \in 1..inputs /\ Passed(spoken, outputChan', Hand, m)
            /\ \A j \in DOMAIN inputChan :
                  /\ inputChan[j] \in 1..inputs
                  /\ Passed(spoken, outputChan', Hand, inputChan[j])
            /\ Passed(spoken, outputChan', Hand, inputs + 1)
        BY <1>0, <1>o, <2>3 DEF InputOrder
      <3> QED BY <1>o, <2>1, <3>1 DEF InputOrder
    <2> QED BY <2>4, <2>5
  <1>4. CASE ResponderTake
    <2> DEFINE s == outputChan
    <2>1. /\ s # <<>> /\ outputChan' = Tail(s) /\ Hand' \subseteq {Head(s)} /\ Hand = {}
          /\ UNCHANGED <<spoken, inputChan, inputs, Asked>>
      BY <1>4 DEF ResponderTake, chatVars, doll, Hand, Asked
    <2>2. /\ Head(s) = s[1] /\ 1 \in DOMAIN s
          /\ Rising(s) => Rising(Tail(s))
          /\ \A n \in Nat : Earlier(s, n) => Earlier(Tail(s), n) /\ Head(s) < n
          /\ \A j \in DOMAIN Tail(s) :
                /\ j + 1 \in DOMAIN s /\ Tail(s)[j] = s[j + 1]
                /\ Rising(s) /\ Tail(s)[j] # 0 => Head(s) < Tail(s)[j]
      BY <1>0, <2>1, TakeOrder
    <2>3. \A n \in Nat : Passed(spoken, s, Hand, n) => Passed(spoken, Tail(s), Hand', n)
      BY <2>1, <2>2 DEF Passed
    <2>4. OutputOrder'
      <3>1. \A h \in Hand' : h # 0 => Earlier(spoken, h)
        BY <1>o, <2>1, <2>2 DEF OutputOrder, Passed
      <3>2. \A j \in DOMAIN Tail(s) : Tail(s)[j] # 0 =>
                Passed(spoken, <<>>, Hand', Tail(s)[j])
        BY <1>o, <2>1, <2>2 DEF OutputOrder, Passed
      <3> QED BY <1>o, <2>1, <2>2, <3>1, <3>2 DEF OutputOrder
    <2>5. InputOrder'
      <3>1. /\ \A m \in Asked : m \in 1..inputs /\ Passed(spoken, Tail(s), Hand', m)
            /\ \A j \in DOMAIN inputChan :
                  /\ inputChan[j] \in 1..inputs
                  /\ Passed(spoken, Tail(s), Hand', inputChan[j])
            /\ Passed(spoken, Tail(s), Hand', inputs + 1)
        BY <1>0, <1>o, <2>3 DEF InputOrder
      <3> QED BY <1>o, <2>1, <3>1 DEF InputOrder
    <2> QED BY <2>4, <2>5
  <1>5. CASE ResponderWrite
    <2> DEFINE s == spoken
    <2>1. /\ spoken' = s \/ spoken' = Append(s, response)
          /\ Hand = {response} /\ Hand' = {}
          /\ UNCHANGED <<outputChan, inputChan, inputs, Asked>>
      BY <1>5 DEF ResponderWrite, chatVars, doll, Hand, Asked
    <2>2. CASE spoken' = s
      <3>1. Hand' \subseteq Hand /\ Asked' \subseteq Asked
        BY <2>1
      <3> QED BY <1>o, <2>1, <2>2, <3>1, OrderStutter
    <2>3. CASE spoken' = Append(s, response)
      <3>1. /\ \A n \in Nat : Earlier(s, n) /\ response < n => Earlier(Append(s, response), n)
            /\ Rising(s) /\ (response # 0 => Earlier(s, response)) => Rising(Append(s, response))
        BY <1>0, PutOrder
      <3>2. \A w : \A n \in Nat : Passed(s, w, Hand, n) => Passed(spoken', w, Hand', n)
        BY <2>1, <2>3, <3>1 DEF Passed
      <3>3. OutputOrder'
        <4>1. Rising(spoken')
          BY <1>o, <2>1, <2>3, <3>1 DEF OutputOrder
        <4>2. \A j \in DOMAIN outputChan : outputChan[j] # 0 =>
                  Passed(spoken', <<>>, Hand', outputChan[j])
          BY <1>0, <1>o, <3>2 DEF OutputOrder
        <4> QED BY <1>o, <2>1, <4>1, <4>2 DEF OutputOrder
      <3>4. InputOrder'
        <4>1. /\ \A m \in Asked : m \in 1..inputs /\ Passed(spoken', outputChan, Hand', m)
              /\ \A j \in DOMAIN inputChan :
                    /\ inputChan[j] \in 1..inputs
                    /\ Passed(spoken', outputChan, Hand', inputChan[j])
              /\ Passed(spoken', outputChan, Hand', inputs + 1)
          BY <1>0, <1>o, <3>2 DEF InputOrder
        <4> QED BY <1>o, <2>1, <4>1 DEF InputOrder
      <3> QED BY <3>3, <3>4
    <2> QED BY <2>1, <2>2, <2>3
  <1>6. CASE ReadText \/ ListenerInput \/ (Transcribe /\ SendInput)
    <2>1. SendInput /\ UNCHANGED <<spoken, outputChan, Hand, Asked>>
      BY <1>6 DEF ReadText, ListenerInput, Transcribe, chatVars, responderVars, Hand, Asked
    <2> QED BY <2>1, OrderInput
  <1>7. ASSUME UNCHANGED <<spoken, outputChan, inputChan, inputs>>,
               Hand' \subseteq Hand, Asked' \subseteq Asked
        PROVE  OutputOrder' /\ InputOrder'
    BY <1>o, <1>7, OrderStutter
  <1>8. CASE ChatStart \/ ChatStore
    BY <1>7, <1>8 DEF ChatStart, ChatStore, responderVars, doll, history, Hand, Asked
  <1>9. CASE Synthesize \/ SendMessage \/ ResponderDone
    BY <1>7, <1>9 DEF Synthesize, SendMessage, ResponderDone, chatVars, doll, history,
       Hand, Asked
  <1>10. CASE Ping \/ PingFails
    BY <1>7, <1>10 DEF Ping, PingTake, PingDone, PingFails, chatVars, responderVars, doll,
       history, Hand, Asked
  <1>11. CASE ReaderLoop \/ ReadError \/ PingHandler \/ Hangup
    BY <1>7, <1>11 DEF ReaderLoop, ReadError, PingHandler, Hangup, chatVars,
       responderVars, doll, history, Hand, Asked
  <1>12. CASE \/ ReadAudio \/ ReadPing
              \/ Transcribe /\ inputs' = inputs /\ UNCHANGED <<inputChan, accepted>>
    BY <1>7, <1>12 DEF ReadAudio, ReadPing, Transcribe, chatVars, responderVars,
       history, Hand, Asked
  <1>13. CASE writePump
    BY <1>7, <1>13 DEF writePump, WriterTake, WriterWrite, WriterDone, chatVars,
       responderVars, doll, history, Hand, Asked
  <1>14. CASE UNCHANGED vars
    BY <1>7, <1>14 DEF vars, chatVars, responderVars, doll, history, Hand, Asked
  <1> QED
    BY <1>1, <1>2, <1>3, <1>4, <1>5, <1>6, <1>8, <1>9, <1>10, <1>11, <1>12, <1>13,
       <1>14 DEF Next, Execute, handleChatResponses, readPump, Transcribe

\* The doll hears the spoken replies in the order of its messages, none twice,
\* for channels of every size (texts sent by writePump in place of audio that
\* could not be made are not part of this order): the messages go through inputChan, Execute,
\* outputChan and handleChatResponses one behind the other, and what is
\* dropped on the way or written in vain leaves the others in order.
THEOREM RepliesStayInOrder == Spec => []RepliesInOrder
  <1>1. Init => OrderInv
    <2>1. Init => TypeOK
      BY TypeInit
    <2> QED BY <2>1, OrderInit DEF OrderInv
  <1>2. OrderInv /\ [Next]_vars => OrderInv'
    BY TypeStep, OrderStep DEF OrderInv
  <1>3. OrderInv => RepliesInOrder
    BY DEF OrderInv, OutputOrder, Rising, RepliesInOrder
  <1> QED BY <1>1, <1>2, <1>3, PTL DEF Spec
==============================================================================

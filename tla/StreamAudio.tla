----------------------------- MODULE StreamAudio -----------------------------
(***************************************************************************)
(* The audio upload of the server: RateLimitMiddleware and StreamAudio of  *)
(* agentic/adapters/http/handler.go with TranscribeStreaming of            *)
(* agentic/adapters/speech/google.go.                                      *)
(*                                                                         *)
(* A request runs in four goroutines: the handler, the one that reads the  *)
(* body into audioChunkChan, the one that calls TranscribeStreaming, and   *)
(* the one in there that sends the chunks to the recognizer.  The handler  *)
(* may return first, on its 30 s deadline.                                 *)
(*                                                                         *)
(* Echo is external: it takes the context of a request from a pool and     *)
(* puts it back when the handler has returned.  The body reader asks the   *)
(* context for the request again before each read (line 218), so a reader  *)
(* that outlives its handler reads whatever request the context serves by  *)
(* then.  A body that ends at its Content-Length hands out its last bytes  *)
(* together with io.EOF; a chunked one hands out EOF alone.                *)
(***************************************************************************)
EXTENDS Naturals, Sequences, FiniteSets

CONSTANTS MaxRequests,     \* requests of a behaviour, numbered as they arrive
          MaxContexts,     \* contexts, numbered as the pool makes them
          Length,          \* chunks in a body (4 KB each in the code)
          ChunkCap,        \* buffer of audioChunkChan (100)
          MaxConcurrent,   \* slots of the semaphore (10)
          None

Requests == 1..MaxRequests
Contexts == 1..MaxContexts

ASSUME StreamAssumption ==
    /\ MaxRequests \in Nat /\ MaxContexts \in Nat
    /\ Length \in Nat
    /\ ChunkCap \in Nat \ {0}
    /\ MaxConcurrent \in Nat \ {0}
    /\ None \notin Nat

VARIABLES
    handler,        \* StreamAudio: "idle", "wait", "publish" or how it ended
    context,        \* the echo context of a request
    serving,        \* the request a context serves, or served last
    expired,        \* ctx.Done(): deadline passed or handler returned
    unread,         \* chunks of the body that nobody has read
    body,           \* the body reader: "off", "read", "send", or how it ended
    chunk,          \* the chunk the body reader has in hand, or None
    audioChunkChan, chanClosed,
    transcriber,    \* "off", "connect", "recv", "result", "done"
    success,        \* the transcriber has a text, not an error
    sender,         \* the sending goroutine: "off", "select", "done"
    uploaded        \* the chunks sent to the recognizer while handler waits

vars == <<handler, context, serving, expired, unread, body, chunk,
          audioChunkChan, chanClosed, transcriber, success, sender, uploaded>>

requestVars == <<handler, context, serving, expired>>
bodyVars == <<unread, body, chunk, audioChunkChan, chanClosed>>
speechVars == <<transcriber, success, sender>>

\* Chunk i of the body of request r.
AudioChunks == Requests \X (1..Length)

Ended == {"ok", "failed", "timeout", "refused"}
BodyEnded == {"eof", "stopped"}

TypeOK ==
    /\ handler \in [Requests -> {"idle", "wait", "publish"} \cup Ended]
    /\ context \in [Requests -> Contexts \cup {None}]
    /\ serving \in [Contexts -> Requests \cup {None}]
    /\ expired \in [Requests -> BOOLEAN]
    /\ unread \in [Requests -> 0..Length]
    /\ body \in [Requests -> {"off", "read", "send"} \cup BodyEnded]
    /\ chunk \in [Requests -> AudioChunks \cup {None}]
    /\ audioChunkChan \in [Requests -> Seq(AudioChunks)]
    /\ \A r \in Requests : Len(audioChunkChan[r]) <= ChunkCap
    /\ chanClosed \in [Requests -> BOOLEAN]
    /\ transcriber \in [Requests -> {"off", "connect", "recv", "result", "done"}]
    /\ success \in [Requests -> BOOLEAN]
    /\ sender \in [Requests -> {"off", "select", "done"}]
    /\ uploaded \in [Requests -> Seq(AudioChunks)]

Init ==
    /\ handler = [r \in Requests |-> "idle"]
    /\ context = [r \in Requests |-> None]
    /\ serving = [x \in Contexts |-> None]
    /\ expired = [r \in Requests |-> FALSE]
    /\ unread = [r \in Requests |-> Length]
    /\ body = [r \in Requests |-> "off"]
    /\ chunk = [r \in Requests |-> None]
    /\ audioChunkChan = [r \in Requests |-> <<>>]
    /\ chanClosed = [r \in Requests |-> FALSE]
    /\ transcriber = [r \in Requests |-> "off"]
    /\ success = [r \in Requests |-> FALSE]
    /\ sender = [r \in Requests |-> "off"]
    /\ uploaded = [r \in Requests |-> <<>>]

------------------------------------------------------------------------------
(* The handler *)

Active == {r \in Requests : handler[r] \in {"wait", "publish"}}

\* A context of the pool that no running handler holds, or a new one.
FreeContext(x) ==
    /\ \A r \in Active : context[r] # x
    /\ \A y \in Contexts : y < x => serving[y] # None

\* The semaphore of RateLimitMiddleware has a slot left.
Admitted == Cardinality(Active) < MaxConcurrent

\* A request comes in.  It is refused (no token, no slot, wrong content
\* type), or StreamAudio starts its goroutines and waits.
Arrive(r, x) ==
    /\ handler[r] = "idle" /\ FreeContext(x)
    /\ \A q \in Requests : q < r => handler[q] # "idle"
    /\ context' = [context EXCEPT ![r] = x]
    /\ serving' = [serving EXCEPT ![x] = r]
    /\ \/ /\ handler' = [handler EXCEPT ![r] = "refused"]
          /\ UNCHANGED <<body, transcriber>>
       \/ /\ Admitted
          /\ handler' = [handler EXCEPT ![r] = "wait"]
          /\ body' = [body EXCEPT ![r] = "read"]
          /\ transcriber' = [transcriber EXCEPT ![r] = "connect"]
    /\ UNCHANGED <<expired, unread, chunk, audioChunkChan, chanClosed, success,
                   sender, uploaded>>

\* Mutant: the deadline starts with the publish.
ExpireLate(r) ==
    /\ handler[r] = "publish" /\ ~expired[r]
    /\ expired' = [expired EXCEPT ![r] = TRUE]
    /\ UNCHANGED <<handler, context, serving, bodyVars, speechVars, uploaded>>

\* The 30 s of the context pass.
Expire(r) ==
    /\ r \in Active /\ ~expired[r]
    /\ expired' = [expired EXCEPT ![r] = TRUE]
    /\ UNCHANGED <<handler, context, serving, bodyVars, speechVars, uploaded>>

\* The handler returns: the deferred cancel.
Return(r, result) ==
    /\ handler' = [handler EXCEPT ![r] = result]
    /\ expired' = [expired EXCEPT ![r] = TRUE]
    /\ uploaded' = [uploaded EXCEPT ![r] = <<>>]

Timeout(r) ==
    /\ handler[r] = "wait" /\ expired[r]
    /\ Return(r, "timeout")
    /\ UNCHANGED <<context, serving, bodyVars, speechVars>>

\* resultChan has no buffer: handler and transcriber meet.
Result(r) ==
    /\ handler[r] = "wait" /\ transcriber[r] = "result"
    /\ transcriber' = [transcriber EXCEPT ![r] = "done"]
    /\ \/ /\ success[r]
          /\ handler' = [handler EXCEPT ![r] = "publish"]
          /\ UNCHANGED <<expired, uploaded>>
       \/ ~success[r] /\ Return(r, "failed")
    /\ success' = [success EXCEPT ![r] = FALSE]
    /\ UNCHANGED <<context, serving, bodyVars, sender>>

\* The text goes to the broker, which may refuse it; the answer is the same.
PublishResult(r) ==
    /\ handler[r] = "publish"
    /\ Return(r, "ok")
    /\ UNCHANGED <<context, serving, bodyVars, speechVars>>

------------------------------------------------------------------------------
(* The body reader *)

\* The loop of the reader ends and audioChunkChan is closed.
EndBody(r, reason) ==
    /\ body' = [body EXCEPT ![r] = reason]
    /\ chanClosed' = [chanClosed EXCEPT ![r] = TRUE]

\* c.Request().Body.Read for the request that the context serves now.  The
\* body of a request whose handler has returned is closed.
ReadBody(r) ==
    LET v == serving[context[r]]
        next == <<v, Length - unread[v] + 1>> IN
    /\ body[r] = "read"
    /\ \/ /\ v \in Active /\ unread[v] > 0
          /\ unread' = [unread EXCEPT ![v] = @ - 1]
          /\ \/ /\ chunk' = [chunk EXCEPT ![r] = next]
                /\ body' = [body EXCEPT ![r] = "send"]
                /\ UNCHANGED chanClosed
             \/ /\ unread[v] = 1          \* the last bytes come with EOF
                /\ EndBody(r, "eof")
                /\ UNCHANGED chunk
       \/ /\ v \in Active /\ unread[v] = 0
          /\ EndBody(r, "eof")
          /\ UNCHANGED <<unread, chunk>>
       \/ /\ EndBody(r, "stopped")
          /\ UNCHANGED <<unread, chunk>>
    /\ UNCHANGED <<audioChunkChan, requestVars, speechVars, uploaded>>

\* Mutant: the send to audioChunkChan has no Done case.
SendChunkBlocks(r) ==
    /\ body[r] = "send"
    /\ Len(audioChunkChan[r]) < ChunkCap
    /\ audioChunkChan' = [audioChunkChan EXCEPT ![r] = Append(@, chunk[r])]
    /\ body' = [body EXCEPT ![r] = "read"]
    /\ chunk' = [chunk EXCEPT ![r] = None]
    /\ UNCHANGED <<unread, chanClosed, requestVars, speechVars, uploaded>>

\* The select of the reader, and the test of the 60 s, which are over only
\* when the 30 s of the context are.
SendChunk(r) ==
    /\ body[r] = "send"
    /\ \/ /\ Len(audioChunkChan[r]) < ChunkCap
          /\ audioChunkChan' = [audioChunkChan EXCEPT ![r] = Append(@, chunk[r])]
          /\ \/ /\ body' = [body EXCEPT ![r] = "read"]
                /\ UNCHANGED chanClosed
             \/ expired[r] /\ EndBody(r, "stopped")
       \/ /\ expired[r]
          /\ EndBody(r, "stopped")
          /\ UNCHANGED audioChunkChan
    /\ chunk' = [chunk EXCEPT ![r] = None]
    /\ UNCHANGED <<unread, requestVars, speechVars, uploaded>>

------------------------------------------------------------------------------
(* TranscribeStreaming *)

\* The stream to the recognizer is opened, or not.
Connect(r) ==
    /\ transcriber[r] = "connect"
    /\ \/ /\ transcriber' = [transcriber EXCEPT ![r] = "recv"]
          /\ sender' = [sender EXCEPT ![r] = "select"]
       \/ /\ transcriber' = [transcriber EXCEPT ![r] = "result"]
          /\ UNCHANGED sender
    /\ UNCHANGED <<success, uploaded, requestVars, bodyVars>>

\* Recv returns the first response, or an error.
Recv(r) ==
    /\ transcriber[r] = "recv"
    /\ transcriber' = [transcriber EXCEPT ![r] = "result"]
    /\ success' \in {success, [success EXCEPT ![r] = TRUE]}
    /\ UNCHANGED <<sender, uploaded, requestVars, bodyVars>>

\* Mutant: a chunk whose Send failed is sent again.
SenderSendRetry(r) ==
    /\ sender[r] = "select" /\ audioChunkChan[r] # <<>>
    /\ audioChunkChan' \in {audioChunkChan,
                            [audioChunkChan EXCEPT ![r] = Tail(@)]}
    /\ r \in Active /\ Len(uploaded[r]) <= Length
    /\ uploaded' = [uploaded EXCEPT ![r] = Append(@, Head(audioChunkChan[r]))]
    /\ UNCHANGED <<transcriber, success, sender, unread, body, chunk, chanClosed,
                   requestVars>>

\* A chunk goes to the recognizer; when Send fails the sender gives up.
SenderSend(r) ==
    /\ sender[r] = "select" /\ audioChunkChan[r] # <<>>
    /\ audioChunkChan' = [audioChunkChan EXCEPT ![r] = Tail(@)]
    /\ \/ /\ uploaded' = [uploaded EXCEPT ![r] =
                           IF r \in Active
                           THEN Append(@, Head(audioChunkChan[r])) ELSE @]
          /\ UNCHANGED sender
       \/ /\ sender' = [sender EXCEPT ![r] = "done"]
          /\ UNCHANGED uploaded
    /\ UNCHANGED <<transcriber, success, unread, body, chunk, chanClosed,
                   requestVars>>

\* The channel is closed and drained, or the context is done.
SenderDone(r) ==
    /\ sender[r] = "select"
    /\ expired[r] \/ (chanClosed[r] /\ audioChunkChan[r] = <<>>)
    /\ sender' = [sender EXCEPT ![r] = "done"]
    /\ UNCHANGED <<transcriber, success, uploaded, requestVars, bodyVars>>

------------------------------------------------------------------------------
BodyReader(r) == ReadBody(r) \/ SendChunk(r)
StreamSender(r) == SenderSend(r) \/ SenderDone(r)
Transcriber(r) == Connect(r) \/ Recv(r)
Handler(r) == Timeout(r) \/ Result(r) \/ PublishResult(r)

Next ==
    \E r \in Requests :
        \/ \E x \in Contexts : Arrive(r, x)
        \/ Expire(r) \/ Handler(r)
        \/ BodyReader(r) \/ StreamSender(r) \/ Transcriber(r)

Spec == Init /\ [][Next]_vars

\* Time passes and goroutines run.  The recognizer may keep silent until the
\* context ends its call.  A doll may keep silent until it has its answer and
\* closes its socket; after that a read of its body returns.
Fairness ==
    \A r \in Requests :
        /\ WF_vars(Expire(r))
        /\ WF_vars(Handler(r))
        /\ WF_vars(ReadBody(r) /\ serving[context[r]] \notin Active)
        /\ WF_vars(SendChunk(r))
        /\ WF_vars(StreamSender(r))
        /\ WF_vars(Transcriber(r) /\ expired[r])

FairSpec == Spec /\ Fairness

------------------------------------------------------------------------------
(* Properties *)

\* While its handler runs, a request uploads its own audio only, in order
\* and no chunk twice, whatever left-over readers of earlier requests take.
OrderedUpload ==
    \A r \in Active : \A i \in DOMAIN uploaded[r] :
        /\ uploaded[r][i][1] = r
        /\ \A j \in DOMAIN uploaded[r] :
              i < j => uploaded[r][i][2] < uploaded[r][j][2]

\* Every admitted request is answered, with a silent recognizer and a silent
\* doll as well, so its slot becomes free.
RequestEnds == \A r \in Requests : r \in Active ~> r \notin Active

\* What an answered request can leave behind: at most the transcriber that
\* has its result and nobody to give it to.
GoroutinesEnd ==
    \A r \in Requests :
        handler[r] \in {"ok", "failed", "timeout"} ~>
            /\ body[r] \in BodyEnded
            /\ sender[r] \in {"off", "done"}
            /\ transcriber[r] = "done"
               \/ (transcriber[r] = "result" /\ handler[r] = "timeout")

\* "Audio chunks are processed as they arrive": when the reader of a running
\* request has come to the end of the body, it has passed on every chunk.
AudioComplete ==
    \A r \in Active : body[r] = "eof" /\ sender[r] = "select" =>
        \A i \in 1..Length :
            \E j \in DOMAIN (uploaded[r] \o audioChunkChan[r]) :
                (uploaded[r] \o audioChunkChan[r])[j] = <<r, i>>
==============================================================================

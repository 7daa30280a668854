# Verification of cocoa-fruit

TLA+ models of the talking doll: the Go server (`agentic/`) and the C doll
(`doll-replica-c/`). Every module is written from the source; `PROJECT.json`
maps each definition to the lines it models, and lists the hazards the
properties are aimed at.

## 1. The system

A doll connects to the server by WebSocket and sends recordings by HTTP. The
server transcribes a recording, publishes the text in an in-memory broker, a
listener takes it from there and hands it to the session of the doll, the
session asks the language model, and the reply goes back to the doll as speech.

| Component | State | Operations | Hard because |
|---|---|---|---|
| Message broker (`message_broker/channel.go`) | map key → channel, buffers, closed flag, poller's map | Publish, Subscribe (key, topic), Close | two unlocked gaps in Publish, polling, a forwarder goroutine per key |
| Hub, handler (`websocket/hub.go`, `handler.go`) | clients map | Register, Unregister, GetClientByDevice | check then register; map read without a lock |
| Transcription listener (`websocket/server.go`) | the message in hand | receive, look up, SendInput | the client may be gone or replaced in between |
| Client session (`websocket/client.go`, `usecase/chat_service.go`) | four channels, closed flag, history | six goroutines, Close | every goroutine may end first; sends to full channels |
| Audio upload (`http/handler.go`, `speech/google.go`) | semaphore, chunk channel, result channel, deadline | RateLimit, StreamAudio, TranscribeStreaming | four goroutines a request, the handler may return first, echo reuses its context |
| Chat history, speech cache (`usecase/chat_service.go`, `llm/gemini.go`, `tts/google.go`) | a history file per user, a cache file per text | load, convert, store; look up, write | no lock, no atomic replacement: overlapping sessions, crashes and a full disk |
| Keep-alive (`websocket/client.go`) | timer of the pings, read deadline | Ping, ping and pong handlers, readPump | two clocks that three goroutines restart |
| Doll playback (`audio.c`, `websocket_client.c`) | ring buffer, two condition variables | write, read, start, stop, clean-up | wrap-around, lost wake-ups, stop against a waiting callback |
| Doll input (`input_handler.c`, `message_queue.c`, `audio.c`, `main.c`) | circular queue, recording buffer, exit flag | typing, record, stop, writable callback, shut-down | two threads inside lws_service, a join that waits for the user |
| Doll program (`main.c`, `http_client.c`, `websocket_client.c`, `audio.c`) | what it holds, the token, the request under way | start-up, token request, handshake, upload, release | ten calls that may fail, each with its own clean-up; one `recv` per reply |
| Audio data (`audio.c`, `utils.c`) | none across calls | base64 encoding and decoding, search in a WAV file, writes to the device | padding, chunk sizes from the file, unsigned arithmetic |

What makes each correct:

- broker: what it accepted is delivered once, in order per key, eventually, to
  the readers of its topic only;
- hub: one live client per device, no client holds up the listener of all of
  them, closed clients leave the map;
- session: replies in order and once, a lost doll is noticed, accepted messages
  are answered, a closed session leaves as little behind as its code allows;
- upload: a request sends its own audio, in order and completely, and is always
  answered;
- playback: the device hears the received bytes in order, nobody waits for ever,
  the ring outlives its users, in either thread;
- doll input: messages are neither lost nor sent twice, a recording holds its own
  audio only, shut-down is orderly and comes to an end;
- doll program: what was acquired is released once, whatever fails; every
  authorised request carries the token the server issued; the start-up ends;
- history and cache: the language model sees one proper conversation however often
  it is stored and read; nothing said is lost but by a crash, a failure or an
  overlap; only those leave an unreadable file;
- keep-alive: a live doll is kept, a dead one is noticed in time;
- audio data: decoding undoes encoding; playing starts at the first sample, leaves
  nothing out and ends with the last.

## 2. Modules

| Module | Models | Abstract specification |
|---|---|---|
| `Mailbox` | what the broker promises | |
| `Broker`, `MCBroker` | broker with its callers and the listener | implements `Mailbox` |
| `Hub`, `MCHub` | hub, connection handler, listener look-ups | |
| `ClientSession` | one connection: six goroutines, `Execute` among them | |
| `StreamAudio` | rate limit, upload, streaming recognition | |
| `BytePipe` | what playback promises | |
| `Playback` | ring buffer, PortAudio callback, start, stop, clean-up, with one thread in `lws_service` | implements `BytePipe` |
| `DollInput` | input thread, queue, writable callback, recording, end of main; of the start-up only what the input side sees | |
| `DollClient` | the whole doll program around `DollInput`: start-up, HTTP requests, handshake, release | implements `DollInput` |
| `AudioData`, `MCAudioData` | base64, WAV files, `play_audio_from_base64` | reference: the sound that was encoded |
| `ServerFiles` | history file and speech cache of one user, with crashes | |
| `Keepalive` | pings, pongs and the read deadline, with a clock | |
| `Broker_proof`, `ClientSession_proof`, `Playback_proof`, `StreamAudio_proof`, `AudioData_proof`, `ServerFiles_proof` | theorems about the module of that name | |
| `Hub_proof` | theorems about `Hub` and `Keepalive` | |
| `DollClient_proof` | theorems about `DollInput` and `DollClient` | |

How state corresponds to code:

- A critical section under a mutex is one step; code between two of them is
  another. A Go channel is a bounded sequence and a flag that it is closed; a
  `select` is a disjunction. A variable such as `pc`, `reader`, `handler` or
  `input` says where a goroutine or thread is. Variables keep the names of the
  source (`audioChunkChan`, `queue_head`, `recording_active`, `topicChannels`).
- Definitions that a comment calls a *mutant* are wrong variants of the
  definition after them. No action uses them; they exist to show that a property
  notices the error.
- **Broker.** A Publish that finds its channel sends under the same read lock;
  one that does not passes through `create` and `send` with both gaps open. A
  channel carries the name of the call that made it, so two channels for one key
  are distinct. Keys are sequences of tokens because the wildcard subscription
  finds its channels by a prefix.
- **Hub.** A look-up has a beginning and an end, and the hub goroutine runs in
  between. A map write in that window is the Go runtime's choice: nothing, or an
  abort of the process (`crashed`).
- **ClientSession.** `Close` is one step (it holds the mutex throughout). Pings,
  deadlines and the 500 ms of the greeting are events without a clock. Panics
  (send on a closed channel, two writers on a connection, a TTS answer shorter
  than its header, a chat that cannot be created) are outcomes that end the process. `Keepalive` has the clock: a
  goroutine that can go on does so before the next tick; the doll answers within
  `MaxDelay`, and the reader is away, transcribing, for at most `MaxBusy`.
- **ServerFiles.** One user and one text, the greeting, which every session
  synthesises. Creating a file (which empties it) and writing it are two steps,
  and a crash, a failure or another session may come in between. `torn` says that
  the file does not start with a JSON value. `GenerateChatPanics` is the crash of
  the code's own making (`gemini.go` line 98). `lost` and `overlapped` record why a
  turn may be missing.
- **StreamAudio.** The reader of a body asks the echo context for its request
  before every read; contexts are reused, so `serving` says whose body that is.
  The last bytes of a body may come with EOF or before it.
- **Playback.** The bytes are numbered, so that the ring's contents can be
  compared with what was received. Waiting on a condition variable is a state
  that only a signal ends. Pa_StopStream returns when the callback has, or fails,
  and the ring is released either way. `Playback` has one thread in `lws_service` at
  a time, which the program does not keep to (`input_handler.c` lines 105 and 107);
  section 3 says what a second one does.
- **DollInput.** `lws_service` runs in both threads, and so does the writable
  callback. PortAudio calls may fail. `add_binary_message_to_queue` is never
  called in the program, therefore `get_binary_message_from_queue` always
  returns 0 and the slots hold text. Of playback only `playback` is kept: none,
  active, or being stopped by a thread that may never come back from it. The
  connection is gone before the stop and `should_exit` is set behind it.
- **DollClient** extends `DollInput`, uses its variables and conjoins its actions
  with what the program acquires and releases (`held`; `misused` when something
  is released that is not held). A reply is what one `recv` returns: all of it or a
  first part, cut before, inside or after the token. `Released` is what each
  failure branch gives back, its own and that of the function that failed. `send`
  and `recv` have no timeout: a server that accepts a request may keep it for ever.
- **AudioData.** Base64 is given position by position, without loops, so that it
  can be reasoned about without induction; a character is its index in
  `base64_chars`. The functions are not called by the program yet. `size_t` wraps
  at `SIZE_MAX`, and the step over a chunk, whose size and header are added as
  `uint32_t`, at `UINT32_MAX`. The decoder computes its size as an `int`; above
  `INT_MAX` it fails or runs out of its buffer (`DecodeOverflow`).

## 3. Runs

| Run | Checks | Shows |
|---|---|---|
| `broker` | TypeOK, NoStranded, PanicOnlyInGap, TopicIsolation, ImplementsMailbox | used as the server does (calls on a key one after the other), the broker is a mailbox |
| `hub` | TypeOK, DuplicateOnlyByRace, ClosedLeaves, ListenerGoesOn | duplicates need overlapping checks; closed clients leave; no client holds up the listener |
| `session` | TypeOK, RepliesInOrder, DeadMeansClosed, HangupNoticed, Answered, SessionEnds | order, closing, answers, and the exact goroutines that can stay blocked |
| `stream` | OrderedUpload, RequestEnds, GoroutinesEnd | own audio in order although left-over readers reuse contexts; always an answer; only the transcriber can stay behind |
| `playback` | TypeOK, NoUseAfterFree, ImplementsPipe, WriterReturns, FramesPlayed | the ring is a pipe of whole frames, with no lost wake-up |
| `doll` | TypeOK, QueueConserves, OnlyThisRecording, ThreadEndsFirst, FreedAfterStop, NothingLeft, Authorized, QueuedIsWritten, ShutdownCompletes, StartupEnds | queue, recording, tokens and resources of the whole program, from any failing call of the start-up to an orderly end, and what can keep it from starting or ending |
| `codec` | RoundTrip, PlaysFromFirstSample | base64 round trip; the samples of a WAV file are found and played in order |
| `files` | ProperConversation, HistoryKept, TornOnlyByFailure | what the two files can and cannot lose |
| `keepalive` | AliveStays, DeadNoticed | only a doll that pings by itself can be cut off alive |
| `session_send` | SafeSend violated | Close between the test and the send of SendMessage |
| `stream_eof` | AudioComplete violated | the end of an upload with a Content-Length is dropped |
| `playback_stop` | StopReturns violated | stop waits for a callback that waits for bytes |

The violations are findings; `PROJECT.json` quotes the text of the repository
each one disagrees with. `playback_stop` is reached by LWS_CALLBACK_CLOSED, and
also by a signal and `cleanup_audio`; versions of libwebsockets that deliver
LWS_CALLBACK_CLIENT_CLOSED to a client instead reach it the second way only, as
the code does not handle that one.

Some properties that hold say less than the documents of the repository promise.
Each of these is a disagreement between the code and its documents:

- **Duplicate connections** (`DuplicateOnlyByRace`). `WEBSOCKET_ROUTING_README.md`
  says "Only one WebSocket connection allowed per device ID" and "Automatic rejection
  of duplicate connections" (lines 13-14) and "One device = one connection" (line
  131). Two handlers may both pass `IsDeviceConnected` (`handler.go` line 80) before
  either client is registered; then both connections stay, and the property only
  says that there is no other way to get two.
- **A panic in Publish** (`PanicOnlyInGap`). `MESSAGE_BROKER_README.md` says
  "Thread-safe operations" and "Graceful shutdown" (lines 105 and 108). A Publish
  that has made its channel gives the lock up before it sends (`channel.go` lines
  51-52) and does not look at `closed` again: a Close in between makes the send
  panic. The server's own Close is deferred behind `log.Fatal` and never runs.
- **Lost messages** (`NoStranded`). The same document says "**Concurrency**:
  Thread-safe with RWMutex" (line 340). Of two first calls on a key at once one
  overwrites the channel of the other (`channel.go` lines 47-51), and the message
  accepted into it is never received. The property therefore needs
  `OneCallerPerKey`; the server publishes once per key, a random session id.
- **Two threads in playback** (`NoUseAfterFree`, and all of `Playback`).
  `doll-replica-c/README.md` line 109 says "Thread-safe audio streaming with mutex
  locks". The mutex guards the contents of the ring, not its life: while one thread
  is inside `write_audio_buffer`, perhaps waiting for room, the other may deliver the
  close, whose stop frees the ring with its mutex (`audio.c` line 699); two threads
  that both find playback inactive make two rings, of which one is lost.
  `Playback` has one thread in `lws_service`, so its results hold only while the
  input thread's calls of `lws_service` deliver neither audio nor the close.
- **What is behind the samples** (`PlaysFromFirstSample`). A comment at `audio.c`
  line 297 says "Properly parse WAV file to find PCM data". The size of the data
  chunk is not used (line 332): a padding byte and further chunks are played as
  sound, and a chunk of odd length in front leads the search astray. The reference of
  the property is the sound that was put into the file; only `SamplesLast` files end
  with their last sample. The program does not call these functions yet.

Other weaknesses of the code are written into the properties as the only exceptions
they allow:

- an abort of the Go runtime when a look-up overlaps a map write (`crashed` of
  `Hub`);
- a doll that stays connected to a chat service that failed at the start and is
  never answered (`DeadMeansClosed`, second part);
- replies that are dropped because their audio cannot be written (`Answered` is
  about the hand-over to the response handler), or that go out as text and may be
  overtaken by later audio (`RepliesInOrder` is about audio);
- a ring that is released under its callback because Pa_StopStream has failed
  unnoticed (`NoUseAfterFree`, `CallbackFreed`), and a writer that waits for room
  although a comment (`audio.c` line 735) calls the write non-blocking
  (`WriterReturns`);
- a start-up and a shut-down that wait for a server which accepts a request and
  never answers (`StartupEnds`, `ShutdownCompletes`), and a shut-down that waits for
  the user to press Enter or for a stop that hangs (`ShutdownCompletes`);
- a NULL connection passed to lws (`crashed` of `DollInput`);
- chunks of an upload that a left-over reader takes from a reused context:
  `OrderedUpload` allows gaps, `AudioComplete` (violated) does not;
- a live doll cut off because it pings (`AliveStays`);
- a history or a speech file cut off by a crash or the disk and unreadable from then
  on (`TornOnlyByFailure`), and turns lost when sessions overlap (`HistoryKept`);
- a text too long for an `int` (`RoundTrip`), and what leads the search for the
  samples astray: a chunk of odd length in front of them, a chunk whose size with its
  header does not fit in 32 bits, a data chunk with nothing behind its header, raw
  samples that begin like a file (`Scannable`, the condition of
  `PlaysFromFirstSample`).

Bounds, and why they are enough:

- `broker`: four Publish calls, one subscriber, three keys, two topics, one name
  a prefix of the other, buffers of one. A second call on a key finds the
  channel of the first, a full buffer happens at once, and both gaps meet every
  other action.
- `hub`: three connections of one device, so that a client can be
  replaced while a look-up is running.
- `session`: all buffers of size one, two messages, two frames and the greeting:
  each channel is full, and its reader gone, in some state.
- `stream`: two requests, two contexts, bodies of two chunks, a chunk buffer of
  one, one slot: the semaphore refuses, a context is reused while the reader of
  the first request still runs, and a reader is blocked at the deadline.
- `playback`: ring of 7, frames of 3, fragments of 0, 1, 2 and 5, 21 bytes:
  positions and sizes are pairwise without a common divisor, so every wrap-around
  position occurs. As in the code a fragment fits next to an incomplete frame.
- `doll`: a queue of three slots (two usable), four messages and four
  recordings, recording buffer of two: full, empty and wrapped queues. Two
  attempts at the handshake: its header is sent and the server keeps silent, or
  accepts in time.
- `codec`: raw sounds of one to four bytes (every remainder of the lengths modulo
  three and four) over seven bytes that set and clear each group of bits a
  character takes from them; WAV files with an information chunk, samples and a
  trailing chunk of no, even and odd length; raw samples that begin with RIFF;
  writes of three bytes. `INT_MAX` is 220, so that the longest texts overflow. All of
  them are far below `SIZE_MAX` and `UINT32_MAX`; the proof covers files of every size.
- `files`: two sessions that connect again and again, three turns, one crash: a
  history is read, grows and is stored twice, and a crash may hit either file
  while the other session runs.
- `keepalive`: a ping every 4 ticks, a deadline of 8, a pong after at most 1 and an
  absence of at most 2, the code's proportions with room for one round. The proof
  covers all values.

Deadlock checking is off, but for `files`, because bounded behaviours end: calls
return, sessions close, the doll exits. That nothing stays blocked is what the liveness
properties say.

Fairness: goroutines and threads that can take a step take one eventually (the
Go scheduler and the operating system are fair in this sense), remote services
answer, deadlines pass, PortAudio calls its callback while a stream runs. Nothing
is assumed of users, dolls and networks: that somebody connects, types, sends,
hangs up or closes. One exception is the end of an upload: a doll that has its
answer closes its socket (`http_client.c` line 84), so a read of its body
returns. In `stream` the recognizer may keep silent up to the deadline. In `doll`
the server need answer neither a request nor the handshake, and the stop of the
playback need not return: nothing is assumed of `send`, `recv` and that
Pa_StopStream. `codec`, `files` and
`keepalive` check invariants and need no fairness.

## 4. Proofs

TLAPS proves, for all values of the constants:

| Theorem | States |
|---|---|
| `Broker_proof!TypeCorrect` | types; nobody goes on with a channel that was not made |
| `Broker_proof!NothingStranded` | NoStranded, if calls on a key do not overlap |
| `Broker_proof!FoundNeverPanics` | PanicOnlyInGap |
| `Broker_proof!TopicsAreIsolated` | TopicIsolation, if no topic contains the separator |
| `Broker_proof!BrokerIsMailbox` | Broker implements Mailbox (`Spec => Abstract!Spec`), if calls on a key do not overlap and no key has two kinds of reader |
| `Hub_proof!HubTypeCorrect` | types; the listener sends only to a client it found |
| `Hub_proof!DuplicatesOnlyByRace` | DuplicateOnlyByRace |
| `ClientSession_proof!SessionTypeCorrect` | types; channels carry what their readers expect |
| `ClientSession_proof!DeadIsClosed` | DeadMeansClosed |
| `ClientSession_proof!RepliesStayInOrder` | RepliesInOrder |
| `Playback_proof!PlaybackTypeCorrect` | types; positions inside the ring |
| `Playback_proof!NeverUsedAfterFree` | NoUseAfterFree: only after a failed stop |
| `Playback_proof!PlaybackIsPipe` | Playback implements BytePipe |
| `StreamAudio_proof!StreamTypeCorrect` | types; chunk channels within their buffers |
| `StreamAudio_proof!UploadIsOrdered` | OrderedUpload |
| `DollClient_proof!DollTypeCorrect` | types (DollInput) |
| `DollClient_proof!QueueIsConserved` | QueueConserves (DollInput) |
| `DollClient_proof!RecordingIsFresh` | OnlyThisRecording (DollInput) |
| `DollClient_proof!InputThreadEndsFirst` | ThreadEndsFirst (DollInput) |
| `DollClient_proof!BufferFreedAfterStop` | FreedAfterStop (DollInput) |
| `DollClient_proof!ClientImplementsInput` | DollClient implements DollInput |
| `DollClient_proof!GivesBackEverything` | NothingLeft |
| `DollClient_proof!TokenIsTheIssued` | Authorized |
| `AudioData_proof!AudioRoundTrip` | RoundTrip, for texts whose size fits into an int |
| `AudioData_proof!AudioTypeCorrect` | types |
| `AudioData_proof!PlayedFromFirstSample` | PlaysFromFirstSample |
| `ServerFiles_proof!FilesTypeCorrect` | types |
| `ServerFiles_proof!HistoryReadsBack` | GenerateChat(History(chat)) = chat, for every chat |
| `ServerFiles_proof!ConversationStaysProper` | ProperConversation |
| `ServerFiles_proof!HistoryIsKept` | HistoryKept |
| `ServerFiles_proof!TornIsFailure` | TornOnlyByFailure |
| `Hub_proof!KeepaliveTypeCorrect` | types (Keepalive) |
| `Hub_proof!AliveIsNotCutOff` | AliveStays (Keepalive) |
| `Hub_proof!DeadIsNoticed` | DeadNoticed (Keepalive) |

Assumptions are the named `ASSUME`s of the modules: capacities and sizes are
positive, a frame fits in the ring, a circular queue has at least two slots,
names are distinct, raw sounds are not empty (the decoder looks in front of an
empty text), a sound in memory is shorter than `SIZE_MAX`, topics and routing keys
are sequences of tokens, and a round of ping, pong and reader fits into the read
deadline.

- **NothingStranded.** NoStranded is not inductive: nothing in it keeps a Publish
  in the gap from overwriting the map. The invariant adds that calls come in the
  order `After` gives, that everybody who holds a channel of a key holds the one
  in the map, that a call about to make a channel finds none there, and that a
  buffered message was accepted into that very channel. `OneCallerPerKey` is
  needed: without it two first calls on a key break the property. The server
  meets it because the routing key is a random session id used once.
- **TopicsAreIsolated.** Every combined key is a topic, one separator and a routing
  key, and channels, messages and forwarders stay with their key (`KeyInv`). When
  the topic and the separator are a prefix of a combined key, the first separator
  of both is at the same place, so the topics are the same. `TopicsWithoutSeparator`
  is needed, as a topic with a separator in it could extend another up to a
  separator; the routing keys may contain it. The server uses one topic, without a
  separator.
- **BrokerIsMailbox.** The abstract queue of a key is what the wildcard channel holds
  of it, what its forwarder has in hand and what its channel holds. `OfKey`, which
  picks the messages of a key from the wildcard channel, is a recursive function: that
  it exists, is unique, and what Append and Tail do to it follow by least
  counterexamples. The invariant `MInv` joins those of the two theorems above with
  `Single`: also after Close a key has one channel, which everybody who holds a
  channel of it holds. So every reader that appears finds the channel with what waits
  for it, and each step of the broker puts, takes, stops or moves nothing (`Puts`,
  `Takes`, `Stops`, `Stays`). Both hypotheses are needed: `OneCallerPerKey` as above,
  and `SeparateReaders` because a subscriber beside a forwarder takes a message from
  behind the ones the forwarder has moved on. The server meets it: the listener's is
  its only Subscribe.
- **RepliesStayInOrder.** What was spoken, the reply in hand, `outputChan`, the message
  at the language model and `inputChan` are one increasing sequence, but for the
  greeting (`OrderInv`, of `OutputOrder` and `InputOrder`); a step takes from the front
  of one part and appends to the next, or drops.
- **UploadIsOrdered.** What a running request has uploaded, what is in its
  `audioChunkChan` and what its reader has in hand increase in this order
  (`OnTheWay`); its context serves that very request (`OwnContext`), so its reader
  takes from no other body, and a left-over reader sends to its own channel only.
- **DuplicatesOnlyByRace.** What a look-up saw is still in the map or has been closed
  (`SeenOrClosed`), whoever went on to register saw only closed clients
  (`SawNobody`), and closed clients stay closed.
- **DeadIsClosed.** For its second part: while the chat service has not got past its
  start no reply but the greeting is anywhere, and when it has failed it never does
  (`Mute`).
- **PlaybackIsPipe.** The invariant says where the write position is
  (`read_pos + used` modulo the size) and when the ring exists. `WriteAppends` and
  `ReadTakes` show that the two copies of a wrap-around append to, or cut from,
  the contents; the rest maps every step to a step of the pipe or to none.
- **QueueIsConserved.** The invariant counts: with n messages taken out, slot i of
  the queue holds message n + i, and the messages 1..n are those written and those
  in hand, which are different. A thread has one in hand exactly between taking
  and writing it. `AddMoves` and `TakeMoves` are the arithmetic of the positions.
- **RecordingIsFresh.** While a recording is started the callback runs and stores
  nothing, so the buffer that was reset is still empty when `recording_active` is set
  (`Starting`).
- **BufferFreedAfterStop.** A running stream has an owner (`StreamHasOwner`), the
  input thread is gone when clean-up starts, so nobody starts a recording behind
  its back.
- **ClientImplementsInput** carries every theorem of DollInput over to the
  program: each step is one of DollInput or leaves its variables alone.
- **GivesBackEverything** and **TokenIsTheIssued.** The invariant `HInv` says what is
  held at each step of the start-up (`Acquired`), while the threads run and at each
  step of the end, plus what a request under way holds. It needs the invariant of
  DollInput: that the input thread has ended before the release begins is what
  keeps an upload from holding a socket, or using a token, that is gone. That main
  returns with playback stopped needs to know who is stopping it (`StopHasOwner`).
- **AudioRoundTrip.** Three bytes make four characters that make the three bytes
  again (`%` and `\div` by constants); the last group is a case of its own for each
  remainder, padded or not.
- **PlayedFromFirstSample.** `Layout` cuts a file in front of each of its chunks and
  says what the header there reads as: a name, and a size that its four bytes give
  back (`SizeBack`). The invariant `PlayInv` says that the search is at the start of
  one of the first chunks, that it ends behind the header of the data chunk, and
  that what was played is the first part of what follows. There are at most three
  chunks in front of the samples, so no induction over the file is needed. The
  attempt showed what `Scannable` has to exclude: sizes near 2^32, an odd format
  chunk and raw samples that begin with RIFF had been missing.
- **HistoryReadsBack.** The loop of `GenerateChat` is a recursive function. That its
  value after n turns is the first n entries of the chat follows by a least
  counterexample (`Least`, from the well-foundedness of the naturals; the library's
  induction theorems need an operator as a parameter and cannot be used).
- **ConversationStaysProper.** `ChatInv`: the chats of the sessions are proper, and so
  is the one whose `History` was stored last, with turns up to the last one asked. The
  conversion keeps this by `HistoryReadsBack`.
- **HistoryIsKept.** `KeptInv`: unless sessions have overlapped at most one is under
  way, and its chat, or the file when there is none, holds exactly the turns that are
  not `lost` (`OneByOne`).
- **TornIsFailure** is inductive with the types alone.
- **AliveIsNotCutOff.** Without pings of the doll, the time since the last deadline
  extension is bounded by the age of the ping under way, the delay of its pong and
  the absence of the reader, which fit together into the deadline.

Only model-checked: everything about fairness (ClosedLeaves, ListenerGoesOn, HangupNoticed,
Answered, SessionEnds, RequestEnds, GoroutinesEnd, WriterReturns, FramesPlayed,
QueuedIsWritten, ShutdownCompletes, StartupEnds) and the liveness part of
`ImplementsMailbox`, that what waits is handed over; its safety part is
`BrokerIsMailbox`. The prover does not do liveness under fairness or ENABLED. Every invariant of a passing run is
stated by a theorem.

## 5. Not modelled

- Never used by the program: Broadcast and SendToDevice of the hub, the chunked
  streaming session and the health check of the doll's HTTP client, binary messages
  of the queue, `StreamingSynthesize`, `send_ping` (its scheduling is commented
  out).
- Text that the doll receives: every call of the callback prints it and empties the
  buffer again, so no state passes from one to the next.
- What a reply to an upload says: `http_parse_audio_response` returns true for any
  text, so it only changes what is printed.
- JWT creation and validation, the remote services, logging, the start-up of the
  server: library calls or no state; where they matter they are outcomes.
- Received audio and the close when the input thread's `lws_service` delivers them
  (section 3): `Playback` leaves that thread out.
- What libwebsockets itself does when two threads are in it, and which of its close
  callbacks it calls for a client.
- The first prototype in `doll-replica/`, superseded by `doll-replica-c/`: one loop
  that passes every frame on to an `ffplay` process.

## 6. Plan

Done: Broker, Hub, ClientSession, Playback, StreamAudio, DollInput, in the order of
the path of a message; then DollClient around DollInput, AudioData, ServerFiles and
Keepalive, with the proofs above. What is left:

1. A composition of upload, broker, hub and session: what is transcribed reaches
   the session of its device. Broker and Hub already share the listener.

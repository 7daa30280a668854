------------------------- MODULE StreamAudio_proof ---------------------------
(***************************************************************************)
(* Proofs about StreamAudio, for any number of requests and contexts, any  *)
(* length of a body, any buffer and any number of slots.                   *)
(***************************************************************************)
EXTENDS StreamAudio, TLAPS

------------------------------------------------------------------------------
(* The invariant *)

\* All of s is audio of request r, from the first n chunks of its body.
Own(s, r, n) == \A i \in DOMAIN s : s[i][1] = r /\ s[i][2] <= n

\* All of s comes before chunk n of the body.
Before(s, n) == \A i \in DOMAIN s : s[i][2] < n

Increasing(s) == \A i, j \in DOMAIN s : i < j => s[i][2] < s[j][2]

\* The chunks of the body that are read.
Read(r) == Length - unread[r]

\* A request that has not come in has nothing.
NotBegun ==
    \A r \in Requests : handler[r] = "idle" =>
        /\ body[r] = "off" /\ audioChunkChan[r] = <<>> /\ uploaded[r] = <<>>

\* A reader at its select has a chunk in hand.
InHand == \A r \in Requests : body[r] = "send" => chunk[r] \in AudioChunks

\* The context of a running handler is its own: whatever else holds on to the
\* context, it asks for this request.
OwnContext == \A r \in Active : context[r] \in Contexts /\ serving[context[r]] = r

\* The chunks up that are uploaded, and the chunks ch in audioChunkChan behind
\* them, are of the first n of request r and in order.
InOrder(up, ch, r, n) ==
    /\ Own(up, r, n) /\ Own(ch, r, n)
    /\ Increasing(up) /\ Increasing(ch)
    /\ \A j \in DOMAIN ch : Before(up, ch[j][2])

\* Chunk c is one of them too and comes after all those.
Latest(c, up, ch, r, n) ==
    /\ c[1] = r /\ c[2] <= n
    /\ Before(up, c[2]) /\ Before(ch, c[2])

\* What a running request has on its way: the chunks uploaded, the ones in
\* audioChunkChan, and the one in the hand of its reader.
OnTheWay ==
    \A r \in Active :
        /\ InOrder(uploaded[r], audioChunkChan[r], r, Read(r))
        /\ body[r] = "send" =>
              Latest(chunk[r], uploaded[r], audioChunkChan[r], r, Read(r))

StreamInv == TypeOK /\ NotBegun /\ InHand /\ OwnContext /\ OnTheWay

------------------------------------------------------------------------------
(* Types *)

LEMMA TypeInit == Init => TypeOK
  <1> SUFFICES ASSUME Init PROVE TypeOK
    OBVIOUS
  <1>1. /\ Length \in 0..Length /\ ChunkCap \in Nat
        /\ \A S : <<>> \in Seq(S) /\ Len(<<>>) = 0
    BY StreamAssumption
  <1>2. /\ expired \in [Requests -> BOOLEAN] /\ chanClosed \in [Requests -> BOOLEAN]
        /\ success \in [Requests -> BOOLEAN]
    BY DEF Init
  <1>3. /\ handler \in [Requests -> {"idle"}] /\ body \in [Requests -> {"off"}]
        /\ transcriber \in [Requests -> {"off"}] /\ sender \in [Requests -> {"off"}]
        /\ context \in [Requests -> {None}] /\ serving \in [Contexts -> {None}]
        /\ chunk \in [Requests -> {None}] /\ unread \in [Requests -> 0..Length]
    BY <1>1 DEF Init
  <1>4. /\ audioChunkChan \in [Requests -> Seq(AudioChunks)]
        /\ uploaded \in [Requests -> Seq(AudioChunks)]
        /\ \A r \in Requests : Len(audioChunkChan[r]) <= ChunkCap
    BY <1>1 DEF Init
  <1> QED BY <1>2, <1>3, <1>4 DEF TypeOK

\* The chunk that is read next is one of the body.
LEMMA NextChunk ==
    ASSUME TypeOK, NEW v \in Requests, unread[v] > 0
    PROVE  /\ <<v, Length - unread[v] + 1>> \in AudioChunks
           /\ unread[v] - 1 \in 0..Length
  <1>1. Length \in Nat /\ unread[v] \in 0..Length
    BY StreamAssumption DEF TypeOK
  <1>2. Length - unread[v] + 1 \in 1..Length /\ unread[v] - 1 \in 0..Length
    BY <1>1
  <1> QED BY <1>2 DEF AudioChunks

LEMMA TypeStep == TypeOK /\ InHand /\ [Next]_vars => TypeOK'
  <1> SUFFICES ASSUME TypeOK, InHand, [Next]_vars PROVE TypeOK'
    OBVIOUS
  <1> USE DEF requestVars, bodyVars, speechVars, Ended, BodyEnded
  <1>1. ASSUME NEW r \in Requests, NEW x \in Contexts, Arrive(r, x) PROVE TypeOK'
    <2>1. /\ handler' \in [Requests -> {"idle", "wait", "publish"} \cup Ended]
          /\ body' \in [Requests -> {"off", "read", "send"} \cup BodyEnded]
          /\ transcriber' \in [Requests -> {"off", "connect", "recv", "result", "done"}]
      BY <1>1 DEF Arrive, TypeOK
    <2>2. /\ context' \in [Requests -> Contexts \cup {None}]
          /\ serving' \in [Contexts -> Requests \cup {None}]
      BY <1>1 DEF Arrive, TypeOK
    <2> QED BY <1>1, <2>1, <2>2 DEF Arrive, TypeOK
  <1>2. ASSUME NEW r \in Requests, Expire(r) PROVE TypeOK'
    BY <1>2 DEF Expire, TypeOK
  <1>3. ASSUME NEW r \in Requests, NEW result \in Ended, Return(r, result)
        PROVE  /\ handler' \in [Requests -> {"idle", "wait", "publish"} \cup Ended]
               /\ expired' \in [Requests -> BOOLEAN]
               /\ uploaded' \in [Requests -> Seq(AudioChunks)]
    <2>1. <<>> \in Seq(AudioChunks)
      OBVIOUS
    <2> QED BY <1>3, <2>1 DEF Return, TypeOK
  <1>4. ASSUME NEW r \in Requests, Timeout(r) \/ PublishResult(r) PROVE TypeOK'
    <2>1. /\ \E result \in Ended : Return(r, result)
          /\ UNCHANGED <<context, serving, bodyVars, speechVars>>
      BY <1>4 DEF Timeout, PublishResult
    <2>2. /\ handler' \in [Requests -> {"idle", "wait", "publish"} \cup Ended]
          /\ expired' \in [Requests -> BOOLEAN]
          /\ uploaded' \in [Requests -> Seq(AudioChunks)]
      BY <1>3, <2>1
    <2> QED BY <2>1, <2>2 DEF TypeOK
  <1>5. ASSUME NEW r \in Requests, Result(r) PROVE TypeOK'
    <2>1. /\ handler' \in [Requests -> {"idle", "wait", "publish"} \cup Ended]
          /\ expired' \in [Requests -> BOOLEAN]
          /\ uploaded' \in [Requests -> Seq(AudioChunks)]
      <3>1. CASE Return(r, "failed")
        BY <1>3, <3>1
      <3>2. CASE /\ handler' = [handler EXCEPT ![r] = "publish"]
                 /\ UNCHANGED <<expired, uploaded>>
        BY <3>2 DEF TypeOK
      <3> QED BY <1>5, <3>1, <3>2 DEF Result
    <2>2. /\ transcriber' \in [Requests -> {"off", "connect", "recv", "result", "done"}]
          /\ success' \in [Requests -> BOOLEAN]
      BY <1>5 DEF Result, TypeOK
    <2>3. UNCHANGED <<context, serving, bodyVars, sender>>
      BY <1>5 DEF Result
    <2> QED BY <2>1, <2>2, <2>3 DEF TypeOK
  <1>6. ASSUME NEW r \in Requests, ReadBody(r) PROVE TypeOK'
    <2> DEFINE v == serving[context[r]]
    <2>1. /\ body' \in [Requests -> {"off", "read", "send"} \cup BodyEnded]
          /\ chanClosed' \in [Requests -> BOOLEAN]
      BY <1>6 DEF ReadBody, EndBody, TypeOK
    <2>2. /\ chunk' \in [Requests -> AudioChunks \cup {None}]
          /\ unread' \in [Requests -> 0..Length]
      <3>1. CASE v \in Active /\ unread[v] > 0
        <4>1. v \in Requests
          BY <3>1 DEF Active
        <4> HIDE DEF v
        <4>2. <<v, Length - unread[v] + 1>> \in AudioChunks /\ unread[v] - 1 \in 0..Length
          BY <3>1, <4>1, NextChunk
        <4>3. /\ unread' = [unread EXCEPT ![v] = unread[v] - 1] \/ unread' = unread
              /\ \/ chunk' = [chunk EXCEPT ![r] = <<v, Length - unread[v] + 1>>]
                 \/ chunk' = chunk
          BY <1>6 DEF ReadBody, v
        <4> QED BY <4>1, <4>2, <4>3 DEF TypeOK
      <3>2. CASE UNCHANGED <<unread, chunk>>
        BY <3>2 DEF TypeOK
      <3> QED BY <1>6, <3>1, <3>2 DEF ReadBody
    <2>3. UNCHANGED <<audioChunkChan, requestVars, speechVars, uploaded>>
      BY <1>6 DEF ReadBody
    <2> QED BY <2>1, <2>2, <2>3 DEF TypeOK
  <1>7. ASSUME NEW r \in Requests, SendChunk(r) PROVE TypeOK'
    <2>1. /\ body' \in [Requests -> {"off", "read", "send"} \cup BodyEnded]
          /\ chanClosed' \in [Requests -> BOOLEAN]
      BY <1>7 DEF SendChunk, EndBody, TypeOK
    <2>2. chunk' \in [Requests -> AudioChunks \cup {None}]
      BY <1>7 DEF SendChunk, TypeOK
    <2>3. /\ audioChunkChan' \in [Requests -> Seq(AudioChunks)]
          /\ \A q \in Requests : Len(audioChunkChan'[q]) <= ChunkCap
      <3>1. CASE UNCHANGED audioChunkChan
        BY <3>1 DEF TypeOK
      <3>2. CASE /\ Len(audioChunkChan[r]) < ChunkCap
                 /\ audioChunkChan' = [audioChunkChan EXCEPT
                                          ![r] = Append(audioChunkChan[r], chunk[r])]
        <4>1. chunk[r] \in AudioChunks /\ audioChunkChan[r] \in Seq(AudioChunks)
          BY <1>7 DEF SendChunk, InHand, TypeOK
        <4>2. /\ Append(audioChunkChan[r], chunk[r]) \in Seq(AudioChunks)
              /\ Len(Append(audioChunkChan[r], chunk[r])) <= ChunkCap
          BY <3>2, <4>1, StreamAssumption
        <4> QED BY <3>2, <4>2 DEF TypeOK
      <3> QED BY <1>7, <3>1, <3>2 DEF SendChunk
    <2>4. UNCHANGED <<unread, requestVars, speechVars, uploaded>>
      BY <1>7 DEF SendChunk
    <2> QED BY <2>1, <2>2, <2>3, <2>4 DEF TypeOK
  <1>8. ASSUME NEW r \in Requests, Connect(r) PROVE TypeOK'
    <2>1. /\ transcriber' \in [Requests -> {"off", "connect", "recv", "result", "done"}]
          /\ sender' \in [Requests -> {"off", "select", "done"}]
      BY <1>8 DEF Connect, TypeOK
    <2> QED BY <1>8, <2>1 DEF Connect, TypeOK
  <1>9. ASSUME NEW r \in Requests, Recv(r) PROVE TypeOK'
    <2>1. /\ transcriber' \in [Requests -> {"off", "connect", "recv", "result", "done"}]
          /\ success' \in [Requests -> BOOLEAN]
      BY <1>9 DEF Recv, TypeOK
    <2> QED BY <1>9, <2>1 DEF Recv, TypeOK
  <1>10. ASSUME NEW r \in Requests, SenderSend(r) PROVE TypeOK'
    <2> DEFINE s == audioChunkChan[r]
    <2>1. s \in Seq(AudioChunks) /\ s # <<>> /\ Len(s) <= ChunkCap
      BY <1>10 DEF SenderSend, TypeOK
    <2>2. /\ Head(s) \in AudioChunks /\ Tail(s) \in Seq(AudioChunks)
          /\ Len(Tail(s)) <= ChunkCap
      <3> HIDE DEF s
      <3> QED BY <2>1, StreamAssumption
    <2>3. /\ audioChunkChan' \in [Requests -> Seq(AudioChunks)]
          /\ \A q \in Requests : Len(audioChunkChan'[q]) <= ChunkCap
      <3>1. audioChunkChan' = [audioChunkChan EXCEPT ![r] = Tail(s)]
        BY <1>10 DEF SenderSend
      <3> QED BY <2>2, <3>1 DEF TypeOK
    <2>4. /\ uploaded' \in [Requests -> Seq(AudioChunks)]
          /\ sender' \in [Requests -> {"off", "select", "done"}]
      <3>1. uploaded[r] \in Seq(AudioChunks)
        BY DEF TypeOK
      <3>2. Append(uploaded[r], Head(s)) \in Seq(AudioChunks)
        BY <2>2, <3>1
      <3>3. \/ uploaded' = uploaded
            \/ uploaded' = [uploaded EXCEPT ![r] = uploaded[r]]
            \/ uploaded' = [uploaded EXCEPT ![r] = Append(uploaded[r], Head(s))]
        BY <1>10 DEF SenderSend
      <3> HIDE DEF s
      <3>4. uploaded' \in [Requests -> Seq(AudioChunks)]
        BY <3>1, <3>2, <3>3 DEF TypeOK
      <3>5. sender' \in [Requests -> {"off", "select", "done"}]
        BY <1>10 DEF SenderSend, TypeOK
      <3> QED BY <3>4, <3>5
    <2>5. UNCHANGED <<transcriber, success, unread, body, chunk, chanClosed, requestVars>>
      BY <1>10 DEF SenderSend
    <2> QED BY <2>3, <2>4, <2>5 DEF TypeOK
  <1>11. ASSUME NEW r \in Requests, SenderDone(r) PROVE TypeOK'
    BY <1>11 DEF SenderDone, TypeOK
  <1>12. CASE UNCHANGED vars
    BY <1>12 DEF vars, TypeOK
  <1> QED BY <1>1, <1>2, <1>4, <1>5, <1>6, <1>7, <1>8, <1>9, <1>10, <1>11, <1>12
          DEF Next, Handler, BodyReader, StreamSender, Transcriber

------------------------------------------------------------------------------
(* Chunks in order *)

LEMMA ChunkTyping ==
    ASSUME NEW t \in Seq(AudioChunks)
    PROVE  \A i \in DOMAIN t : t[i][1] \in Requests /\ t[i][2] \in Nat
  <1> SUFFICES ASSUME NEW i \in DOMAIN t PROVE t[i][1] \in Requests /\ t[i][2] \in Nat
    OBVIOUS
  <1>1. t[i] \in AudioChunks
    OBVIOUS
  <1>2. 1..Length \subseteq Nat
    BY StreamAssumption
  <1> QED BY <1>1, <1>2 DEF AudioChunks

\* More of the body is read, by whichever reader.
LEMMA MoreRead ==
    ASSUME NEW up \in Seq(AudioChunks), NEW ch \in Seq(AudioChunks), NEW r,
           NEW n \in Nat, NEW m \in Nat, n <= m
    PROVE  /\ InOrder(up, ch, r, n) => InOrder(up, ch, r, m)
           /\ \A c \in AudioChunks : Latest(c, up, ch, r, n) => Latest(c, up, ch, r, m)
  <1>1. \A k \in Nat : k <= n => k <= m
    OBVIOUS
  <1>2. Own(up, r, n) => Own(up, r, m)
    BY <1>1, ChunkTyping DEF Own
  <1>3. Own(ch, r, n) => Own(ch, r, m)
    BY <1>1, ChunkTyping DEF Own
  <1>4. \A c \in AudioChunks : c[2] \in Nat
    BY StreamAssumption DEF AudioChunks
  <1> QED BY <1>1, <1>2, <1>3, <1>4 DEF InOrder, Latest

\* The next chunk of the body comes after all that were read.
LEMMA NextIsLatest ==
    ASSUME NEW up \in Seq(AudioChunks), NEW ch \in Seq(AudioChunks), NEW r,
           NEW n \in Nat, InOrder(up, ch, r, n)
    PROVE  Latest(<<r, n + 1>>, up, ch, r, n + 1)
  <1>1. \A k \in Nat : k <= n => k < n + 1
    OBVIOUS
  <1>2. Before(up, n + 1) /\ Before(ch, n + 1)
    BY <1>1, ChunkTyping DEF InOrder, Own, Before
  <1> QED BY <1>2 DEF Latest

\* A sequence after an element that comes after the others.
LEMMA Appended ==
    ASSUME NEW t \in Seq(AudioChunks), NEW c \in AudioChunks, NEW r, NEW n,
           Own(t, r, n), Increasing(t), c[1] = r, c[2] <= n, Before(t, c[2])
    PROVE  /\ Own(Append(t, c), r, n) /\ Increasing(Append(t, c))
           /\ \A k \in Nat : Before(t, k) /\ c[2] < k => Before(Append(t, c), k)
  <1>1. /\ DOMAIN Append(t, c) = 1..(Len(t) + 1) /\ DOMAIN t = 1..Len(t)
        /\ Len(t) \in Nat
        /\ \A i \in 1..Len(t) : Append(t, c)[i] = t[i]
        /\ Append(t, c)[Len(t) + 1] = c
    OBVIOUS
  <1>2. Own(Append(t, c), r, n)
    BY <1>1 DEF Own
  <1>3. \A k \in Nat : Before(t, k) /\ c[2] < k => Before(Append(t, c), k)
    BY <1>1 DEF Before
  <1>4. Increasing(Append(t, c))
    <2> SUFFICES ASSUME NEW i \in 1..(Len(t) + 1), NEW j \in 1..(Len(t) + 1), i < j
                 PROVE  Append(t, c)[i][2] < Append(t, c)[j][2]
      BY <1>1 DEF Increasing
    <2>1. i \in 1..Len(t) /\ (j \in 1..Len(t) \/ j = Len(t) + 1)
      BY <1>1
    <2>2. CASE j \in 1..Len(t)
      BY <1>1, <2>1, <2>2 DEF Increasing
    <2>3. CASE j = Len(t) + 1
      BY <1>1, <2>1, <2>3 DEF Before
    <2> QED BY <2>1, <2>2, <2>3
  <1> QED BY <1>2, <1>3, <1>4

\* The reader sends its chunk to audioChunkChan.
LEMMA PutKeeps ==
    ASSUME NEW up \in Seq(AudioChunks), NEW ch \in Seq(AudioChunks),
           NEW c \in AudioChunks, NEW r, NEW n,
           InOrder(up, ch, r, n), Latest(c, up, ch, r, n)
    PROVE  InOrder(up, Append(ch, c), r, n)
  <1>1. Own(Append(ch, c), r, n) /\ Increasing(Append(ch, c))
    BY Appended DEF InOrder, Latest
  <1>2. /\ DOMAIN Append(ch, c) = 1..(Len(ch) + 1) /\ DOMAIN ch = 1..Len(ch)
        /\ Len(ch) \in Nat
        /\ \A i \in 1..Len(ch) : Append(ch, c)[i] = ch[i]
        /\ Append(ch, c)[Len(ch) + 1] = c
    OBVIOUS
  <1>3. \A j \in DOMAIN Append(ch, c) : Before(up, Append(ch, c)[j][2])
    <2> SUFFICES ASSUME NEW j \in 1..(Len(ch) + 1) PROVE Before(up, Append(ch, c)[j][2])
      BY <1>2
    <2>1. CASE j \in 1..Len(ch)
      BY <1>2, <2>1 DEF InOrder
    <2>2. CASE j = Len(ch) + 1
      BY <1>2, <2>2 DEF Latest
    <2> QED BY <1>2, <2>1, <2>2
  <1> QED BY <1>1, <1>3 DEF InOrder

\* The sender takes a chunk out of audioChunkChan, and uploads it or not.
LEMMA TakeKeeps ==
    ASSUME NEW up \in Seq(AudioChunks), NEW ch \in Seq(AudioChunks), ch # <<>>,
           NEW r, NEW n, InOrder(up, ch, r, n)
    PROVE  /\ InOrder(up, Tail(ch), r, n)
           /\ InOrder(Append(up, Head(ch)), Tail(ch), r, n)
           /\ \A c \in AudioChunks : Latest(c, up, ch, r, n) =>
                 /\ Latest(c, up, Tail(ch), r, n)
                 /\ Latest(c, Append(up, Head(ch)), Tail(ch), r, n)
  <1>1. /\ DOMAIN ch = 1..Len(ch) /\ Len(ch) \in Nat \ {0}
        /\ DOMAIN Tail(ch) = 1..(Len(ch) - 1)
        /\ \A j \in 1..(Len(ch) - 1) : Tail(ch)[j] = ch[j + 1]
        /\ Head(ch) = ch[1] /\ Head(ch) \in AudioChunks
    OBVIOUS
  <1>2. \A j \in DOMAIN Tail(ch) : /\ Tail(ch)[j] = ch[j + 1] /\ j + 1 \in DOMAIN ch
                                   /\ 1 < j + 1
    BY <1>1
  <1>3. Own(Tail(ch), r, n) /\ \A k : Before(ch, k) => Before(Tail(ch), k)
    BY <1>2 DEF InOrder, Own, Before
  <1>4. Increasing(Tail(ch))
    <2> SUFFICES ASSUME NEW i \in DOMAIN Tail(ch), NEW j \in DOMAIN Tail(ch), i < j
                 PROVE  Tail(ch)[i][2] < Tail(ch)[j][2]
      BY DEF Increasing
    <2>1. i + 1 < j + 1
      BY <1>1
    <2> QED BY <1>2, <2>1 DEF InOrder, Increasing
  <1>5. \A j \in DOMAIN Tail(ch) : Before(up, Tail(ch)[j][2])
    BY <1>2 DEF InOrder
  <1>6. InOrder(up, Tail(ch), r, n)
    BY <1>3, <1>4, <1>5 DEF InOrder
  <1>7. 1 \in DOMAIN ch /\ ch[1] = Head(ch)
    BY <1>1
  <1>8. \A j \in DOMAIN Tail(ch) : Head(ch)[2] < Tail(ch)[j][2] /\ Tail(ch)[j][2] \in Nat
    BY <1>2, <1>7, ChunkTyping DEF InOrder, Increasing
  <1>9. /\ Own(Append(up, Head(ch)), r, n) /\ Increasing(Append(up, Head(ch)))
        /\ \A k \in Nat : Before(up, k) /\ Head(ch)[2] < k => Before(Append(up, Head(ch)), k)
    <2>1. Head(ch)[1] = r /\ Head(ch)[2] <= n /\ Before(up, Head(ch)[2])
      BY <1>7 DEF InOrder, Own
    <2>2. Own(up, r, n) /\ Increasing(up) /\ Head(ch) \in AudioChunks
      BY <1>1 DEF InOrder
    <2> QED BY <2>1, <2>2, Appended
  <1>10. InOrder(Append(up, Head(ch)), Tail(ch), r, n)
    BY <1>3, <1>4, <1>5, <1>8, <1>9 DEF InOrder
  <1>11. ASSUME NEW c \in AudioChunks, Latest(c, up, ch, r, n)
         PROVE  /\ Latest(c, up, Tail(ch), r, n)
                /\ Latest(c, Append(up, Head(ch)), Tail(ch), r, n)
    <2>1. c[2] \in Nat
      BY StreamAssumption DEF AudioChunks
    <2>2. Head(ch)[2] < c[2]
      BY <1>7, <1>11 DEF Latest, Before
    <2> QED BY <1>3, <1>9, <1>11, <2>1, <2>2 DEF Latest
  <1> QED BY <1>6, <1>10, <1>11

------------------------------------------------------------------------------
(* Induction *)

LEMMA StreamInvInit == Init => StreamInv
  <1> SUFFICES ASSUME Init PROVE StreamInv
    OBVIOUS
  <1>1. Active = {}
    BY DEF Init, Active
  <1>2. NotBegun /\ InHand
    BY DEF Init, NotBegun, InHand
  <1> QED BY <1>1, <1>2, TypeInit DEF StreamInv, OwnContext, OnTheWay

\* Steps of the handler and the transcriber, which leave the audio alone: a
\* handler that goes on runs already.
LEMMA HandlerKeeps ==
    ASSUME StreamInv, TypeOK', NEW r \in Requests,
           handler'[r] # "idle", \A q \in Requests : q # r => handler'[q] = handler[q],
           Active' \subseteq Active,
           \A q \in Active' : uploaded'[q] = uploaded[q],
           \A q \in Requests : q # r => uploaded'[q] = uploaded[q],
           UNCHANGED <<context, serving, unread, body, chunk, audioChunkChan>>
    PROVE  StreamInv'
  <1>1. NotBegun'
    BY DEF StreamInv, NotBegun
  <1>2. InHand'
    BY DEF StreamInv, InHand
  <1>3. OwnContext'
    BY DEF StreamInv, OwnContext
  <1>4. OnTheWay'
    BY DEF StreamInv, OnTheWay, Read
  <1> QED BY <1>1, <1>2, <1>3, <1>4 DEF StreamInv

\* A request comes in.
LEMMA ArriveKeeps ==
    ASSUME StreamInv, TypeOK', NEW r \in Requests, NEW x \in Contexts, Arrive(r, x)
    PROVE  StreamInv'
  <1>1. /\ handler[r] = "idle" /\ handler'[r] # "idle"
        /\ \A q \in Requests : q # r => handler'[q] = handler[q]
        /\ body'[r] \in {body[r], "read"}
        /\ \A q \in Requests : q # r => body'[q] = body[q]
    BY DEF Arrive, StreamInv, TypeOK
  <1>2. /\ context'[r] = x /\ \A q \in Requests : q # r => context'[q] = context[q]
        /\ serving'[x] = r /\ \A y \in Contexts : y # x => serving'[y] = serving[y]
        /\ \A q \in Active : context[q] # x
        /\ UNCHANGED <<unread, chunk, audioChunkChan, uploaded>>
    BY DEF Arrive, FreeContext, StreamInv, TypeOK
  <1>3. /\ body[r] = "off" /\ audioChunkChan[r] = <<>> /\ uploaded[r] = <<>>
    BY <1>1 DEF StreamInv, NotBegun
  <1>4. r \notin Active /\ Active' \subseteq Active \cup {r} /\ Active \subseteq Requests
    BY <1>1 DEF Active
  <1>5. NotBegun'
    BY <1>1, <1>2 DEF StreamInv, NotBegun
  <1>6. InHand'
    BY <1>1, <1>2, <1>3 DEF StreamInv, InHand
  <1>7. OwnContext'
    <2> SUFFICES ASSUME NEW q \in Active'
                 PROVE  context'[q] \in Contexts /\ serving'[context'[q]] = q
      BY DEF OwnContext
    <2>1. CASE q = r
      BY <1>2, <2>1
    <2>2. CASE q # r
      BY <1>2, <1>4, <2>2 DEF StreamInv, OwnContext
    <2> QED BY <2>1, <2>2
  <1>8. OnTheWay'
    <2> SUFFICES ASSUME NEW q \in Active'
                 PROVE  /\ InOrder(uploaded[q], audioChunkChan[q], q, Read(q))
                        /\ body'[q] = "send" =>
                              Latest(chunk[q], uploaded[q], audioChunkChan[q], q, Read(q))
      BY <1>2 DEF OnTheWay, Read
    <2>1. CASE q = r
      <3>1. body'[q] # "send"
        BY <1>1, <1>3, <2>1
      <3>2. InOrder(<<>>, <<>>, q, Read(q))
        BY DEF InOrder, Own, Increasing
      <3> QED BY <1>3, <2>1, <3>1, <3>2
    <2>2. CASE q # r
      BY <1>1, <1>4, <2>2 DEF StreamInv, OnTheWay
    <2> QED BY <2>1, <2>2
  <1> QED BY <1>5, <1>6, <1>7, <1>8 DEF StreamInv

\* A reader gets a chunk of the request its context serves, its own or a later
\* one, or comes to an end.
LEMMA ReadBodyKeeps ==
    ASSUME StreamInv, TypeOK', NEW r \in Requests, ReadBody(r)
    PROVE  StreamInv'
  <1> DEFINE v == serving[context[r]]
  <1>0. TypeOK /\ TypeOK' /\ Length \in Nat
    BY StreamAssumption DEF StreamInv
  <1>1. /\ body[r] = "read" /\ \A q \in Requests : q # r => body'[q] = body[q] /\ chunk'[q] = chunk[q]
        /\ UNCHANGED <<handler, context, serving, audioChunkChan, uploaded>>
    BY <1>0 DEF ReadBody, EndBody, requestVars, TypeOK
  <1>2. Active' = Active /\ Active \subseteq Requests
    BY <1>1 DEF Active
  <1>3. \/ /\ v \in Active /\ unread[v] > 0 /\ unread' = [unread EXCEPT ![v] = unread[v] - 1]
           /\ \/ chunk' = [chunk EXCEPT ![r] = <<v, Length - unread[v] + 1>>]
              \/ body'[r] # "send"
        \/ unread' = unread /\ body'[r] # "send"
    BY <1>0, <1>1 DEF ReadBody, EndBody, TypeOK
  <1>4. NotBegun'
    BY <1>1 DEF StreamInv, NotBegun
  <1>5. InHand'
    <2> SUFFICES ASSUME body'[r] = "send" PROVE chunk'[r] \in AudioChunks
      BY <1>1 DEF StreamInv, InHand
    <2>1. v \in Active /\ unread[v] > 0
          /\ chunk' = [chunk EXCEPT ![r] = <<v, Length - unread[v] + 1>>]
      BY <1>3
    <2>2. <<v, Length - unread[v] + 1>> \in AudioChunks
      BY <1>0, <1>2, <2>1, NextChunk
    <2>3. chunk'[r] = <<v, Length - unread[v] + 1>>
      BY <1>0, <2>1 DEF TypeOK
    <2> QED BY <2>2, <2>3
  <1>6. OwnContext'
    BY <1>1, <1>2 DEF StreamInv, OwnContext
  <1>7. ASSUME NEW q \in Active
        PROVE  /\ Read(q) \in Nat /\ Read(q)' \in Nat /\ Read(q) <= Read(q)'
    <2>1. unread[q] \in 0..Length /\ unread'[q] \in 0..Length
      BY <1>0, <1>2 DEF TypeOK
    <2>2. unread'[q] <= unread[q]
      <3>1. CASE unread' = unread
        BY <2>1, <3>1
      <3>2. CASE v \in Active /\ unread' = [unread EXCEPT ![v] = unread[v] - 1]
        <4>1. unread'[q] = IF q = v THEN unread[q] - 1 ELSE unread[q]
          BY <1>0, <1>2, <3>2 DEF TypeOK
        <4> QED BY <2>1, <4>1
      <3> QED BY <1>3, <3>1, <3>2
    <2> QED BY <1>0, <2>1, <2>2 DEF Read
  <1>8. OnTheWay'
    <2> SUFFICES ASSUME NEW q \in Active
                 PROVE  /\ InOrder(uploaded[q], audioChunkChan[q], q, Read(q)')
                        /\ body'[q] = "send" =>
                              Latest(chunk'[q], uploaded[q], audioChunkChan[q], q, Read(q)')
      BY <1>1, <1>2 DEF OnTheWay, Read
    <2> DEFINE up == uploaded[q]
               ch == audioChunkChan[q]
    <2>1. up \in Seq(AudioChunks) /\ ch \in Seq(AudioChunks)
      BY <1>0, <1>2 DEF TypeOK
    <2>2. InOrder(up, ch, q, Read(q))
      BY DEF StreamInv, OnTheWay
    <2> HIDE DEF up, ch
    <2>3. /\ InOrder(up, ch, q, Read(q)')
          /\ \A c \in AudioChunks : Latest(c, up, ch, q, Read(q)) => Latest(c, up, ch, q, Read(q)')
      BY <1>7, <2>1, <2>2, MoreRead
    <2>4. ASSUME body'[q] = "send" PROVE Latest(chunk'[q], up, ch, q, Read(q)')
      <3>1. CASE q # r
        <4>1. body[q] = "send" /\ chunk'[q] = chunk[q] /\ chunk[q] \in AudioChunks
          BY <1>0, <1>1, <1>2, <2>4, <3>1 DEF StreamInv, InHand, TypeOK
        <4>2. Latest(chunk[q], up, ch, q, Read(q))
          BY <4>1 DEF StreamInv, OnTheWay, up, ch
        <4> QED BY <2>3, <4>1, <4>2
      <3>2. CASE q = r
        <4>1. v = r
          BY <3>2 DEF StreamInv, OwnContext
        <4>2. /\ unread' = [unread EXCEPT ![r] = unread[r] - 1]
              /\ chunk' = [chunk EXCEPT ![r] = <<r, Length - unread[r] + 1>>]
          BY <1>3, <2>4, <3>2, <4>1
        <4>3. chunk'[r] = <<r, Read(r) + 1>> /\ unread'[r] = unread[r] - 1
          BY <1>0, <4>2 DEF TypeOK, Read
        <4>4. unread[r] \in 0..Length
          BY <1>0 DEF TypeOK
        <4>5. Read(r)' = Read(r) + 1
          BY <1>0, <4>3, <4>4 DEF Read
        <4>6. Latest(<<r, Read(r) + 1>>, up, ch, r, Read(r) + 1)
          BY <1>7, <2>1, <2>2, <3>2, NextIsLatest
        <4> QED BY <3>2, <4>3, <4>5, <4>6
      <3> QED BY <3>1, <3>2
    <2> QED BY <2>3, <2>4 DEF up, ch
  <1> QED BY <1>0, <1>4, <1>5, <1>6, <1>8 DEF StreamInv

\* The reader hands its chunk on, or drops it.
LEMMA SendChunkKeeps ==
    ASSUME StreamInv, TypeOK', NEW r \in Requests, SendChunk(r)
    PROVE  StreamInv'
  <1>0. TypeOK
    BY DEF StreamInv
  <1>1. /\ body[r] = "send" /\ body'[r] # "send"
        /\ \A q \in Requests : q # r => /\ body'[q] = body[q] /\ chunk'[q] = chunk[q]
                                        /\ audioChunkChan'[q] = audioChunkChan[q]
        /\ audioChunkChan'[r] \in {audioChunkChan[r], Append(audioChunkChan[r], chunk[r])}
        /\ UNCHANGED <<handler, context, serving, unread, uploaded>>
    BY <1>0 DEF SendChunk, EndBody, requestVars, TypeOK, BodyEnded
  <1>2. Active' = Active /\ Active \subseteq Requests
    BY <1>1 DEF Active
  <1>3. handler[r] # "idle"
    BY <1>1 DEF StreamInv, NotBegun
  <1>4. NotBegun'
    BY <1>1, <1>3 DEF StreamInv, NotBegun
  <1>5. InHand'
    BY <1>1 DEF StreamInv, InHand
  <1>6. OwnContext'
    BY <1>1, <1>2 DEF StreamInv, OwnContext
  <1>7. ASSUME r \in Active
        PROVE  InOrder(uploaded[r], Append(audioChunkChan[r], chunk[r]), r, Read(r))
    <2>1. /\ chunk[r] \in AudioChunks /\ uploaded[r] \in Seq(AudioChunks)
          /\ audioChunkChan[r] \in Seq(AudioChunks)
      BY <1>0, <1>1 DEF StreamInv, InHand, TypeOK
    <2>2. /\ InOrder(uploaded[r], audioChunkChan[r], r, Read(r))
          /\ Latest(chunk[r], uploaded[r], audioChunkChan[r], r, Read(r))
      BY <1>1, <1>7 DEF StreamInv, OnTheWay
    <2> QED BY <2>1, <2>2, PutKeeps
  <1>8. OnTheWay'
    <2> SUFFICES ASSUME NEW q \in Active
                 PROVE  /\ InOrder(uploaded[q], audioChunkChan'[q], q, Read(q))
                        /\ body'[q] = "send" =>
                              Latest(chunk'[q], uploaded[q], audioChunkChan'[q], q, Read(q))
      BY <1>1, <1>2 DEF OnTheWay, Read
    <2>1. CASE q = r
      BY <1>1, <1>7, <2>1 DEF StreamInv, OnTheWay
    <2>2. CASE q # r
      BY <1>1, <1>2, <2>2 DEF StreamInv, OnTheWay
    <2> QED BY <2>1, <2>2
  <1> QED BY <1>4, <1>5, <1>6, <1>8 DEF StreamInv

\* The sender uploads a chunk, or gives up.
LEMMA SenderSendKeeps ==
    ASSUME StreamInv, TypeOK', NEW r \in Requests, SenderSend(r)
    PROVE  StreamInv'
  <1>0. TypeOK
    BY DEF StreamInv
  <1>1. /\ audioChunkChan[r] # <<>> /\ audioChunkChan'[r] = Tail(audioChunkChan[r])
        /\ uploaded'[r] \in {uploaded[r], Append(uploaded[r], Head(audioChunkChan[r]))}
        /\ \A q \in Requests : q # r => /\ audioChunkChan'[q] = audioChunkChan[q]
                                        /\ uploaded'[q] = uploaded[q]
        /\ UNCHANGED <<handler, context, serving, unread, body, chunk>>
    BY <1>0 DEF SenderSend, requestVars, TypeOK
  <1>2. Active' = Active /\ Active \subseteq Requests
    BY <1>1 DEF Active
  <1>3. handler[r] # "idle"
    BY <1>1 DEF StreamInv, NotBegun
  <1>4. NotBegun'
    BY <1>1, <1>3 DEF StreamInv, NotBegun
  <1>5. InHand'
    BY <1>1 DEF StreamInv, InHand
  <1>6. OwnContext'
    BY <1>1, <1>2 DEF StreamInv, OwnContext
  <1>7. OnTheWay'
    <2> SUFFICES ASSUME NEW q \in Active
                 PROVE  /\ InOrder(uploaded'[q], audioChunkChan'[q], q, Read(q))
                        /\ body[q] = "send" =>
                              Latest(chunk[q], uploaded'[q], audioChunkChan'[q], q, Read(q))
      BY <1>1, <1>2 DEF OnTheWay, Read
    <2>1. CASE q = r
      <3> DEFINE up == uploaded[r]
                 ch == audioChunkChan[r]
      <3>1. up \in Seq(AudioChunks) /\ ch \in Seq(AudioChunks) /\ ch # <<>>
        BY <1>0, <1>1 DEF TypeOK
      <3>2. InOrder(up, ch, r, Read(r))
        BY <2>1 DEF StreamInv, OnTheWay
      <3>3. body[r] = "send" => chunk[r] \in AudioChunks /\ Latest(chunk[r], up, ch, r, Read(r))
        BY <1>0, <2>1 DEF StreamInv, OnTheWay, InHand, TypeOK
      <3> HIDE DEF up, ch
      <3>4. /\ InOrder(up, Tail(ch), r, Read(r))
            /\ InOrder(Append(up, Head(ch)), Tail(ch), r, Read(r))
            /\ \A c \in AudioChunks : Latest(c, up, ch, r, Read(r)) =>
                  /\ Latest(c, up, Tail(ch), r, Read(r))
                  /\ Latest(c, Append(up, Head(ch)), Tail(ch), r, Read(r))
        BY <3>1, <3>2, TakeKeeps
      <3> QED BY <1>1, <2>1, <3>3, <3>4 DEF up, ch
    <2>2. CASE q # r
      BY <1>1, <1>2, <2>2 DEF StreamInv, OnTheWay
    <2> QED BY <2>1, <2>2
  <1> QED BY <1>4, <1>5, <1>6, <1>7 DEF StreamInv

LEMMA StreamInvStep == StreamInv /\ [Next]_vars => StreamInv'
  <1> SUFFICES ASSUME StreamInv, [Next]_vars PROVE StreamInv'
    OBVIOUS
  <1>0. TypeOK /\ TypeOK'
    BY TypeStep DEF StreamInv
  <1>1. ASSUME NEW r \in Requests, Expire(r) \/ Transcriber(r) \/ SenderDone(r)
        PROVE  StreamInv'
    <2>1. UNCHANGED <<handler, context, serving, unread, body, chunk, audioChunkChan, uploaded>>
      BY <1>1 DEF Expire, Transcriber, Connect, Recv, SenderDone, requestVars, bodyVars
    <2>2. Active' = Active
      BY <2>1 DEF Active
    <2> QED BY <1>0, <2>1, <2>2 DEF StreamInv, NotBegun, InHand, OwnContext, OnTheWay, Read
  <1>2. ASSUME NEW r \in Requests, Handler(r) PROVE StreamInv'
    <2>1. /\ handler[r] \in {"wait", "publish"}
          /\ UNCHANGED <<context, serving, unread, body, chunk, audioChunkChan>>
      BY <1>2 DEF Handler, Timeout, Result, PublishResult, bodyVars
    <2>2. /\ handler'[r] # "idle"
          /\ \A q \in Requests : q # r => handler'[q] = handler[q] /\ uploaded'[q] = uploaded[q]
          /\ handler'[r] \in {"wait", "publish"} => uploaded'[r] = uploaded[r]
      BY <1>0, <1>2 DEF Handler, Timeout, Result, PublishResult, Return, TypeOK
    <2>3. Active' \subseteq Active /\ \A q \in Active' : uploaded'[q] = uploaded[q]
      BY <2>1, <2>2 DEF Active
    <2> QED BY <1>0, <2>1, <2>2, <2>3, HandlerKeeps
  <1>3. CASE UNCHANGED vars
    BY <1>0, <1>3 DEF vars, StreamInv, NotBegun, InHand, OwnContext, OnTheWay, Read, Active
  <1> QED BY <1>0, <1>1, <1>2, <1>3, ArriveKeeps, ReadBodyKeeps, SendChunkKeeps,
             SenderSendKeeps DEF Next, BodyReader, StreamSender

------------------------------------------------------------------------------
(* Theorems *)

\* The channel of a request keeps within its buffer, and the goroutines of a
\* request within their states.
THEOREM StreamTypeCorrect == Spec => []TypeOK
  <1>1. StreamInv => TypeOK
    BY DEF StreamInv
  <1> QED BY <1>1, StreamInvInit, StreamInvStep, PTL DEF Spec

\* While its handler runs, a request uploads its own audio only, in order and
\* no chunk twice: a reader that has outlived its handler can take chunks away
\* from the request its context serves now, but it sends them to its own
\* channel, and the reader of a running request reads no other body.
THEOREM UploadIsOrdered == Spec => []OrderedUpload
  <1>1. StreamInv => OrderedUpload
    BY DEF StreamInv, OnTheWay, InOrder, Own, Increasing, OrderedUpload
  <1> QED BY <1>1, StreamInvInit, StreamInvStep, PTL DEF Spec
==============================================================================

---------------------------- MODULE Broker_proof -----------------------------
(***************************************************************************)
(* Proofs about Broker for any number of calls, subscribers, topics and    *)
(* any channel capacity.                                                   *)
(***************************************************************************)
EXTENDS Broker, SequenceTheorems, WellFoundedInduction, TLAPS

\* What Append does to the elements of a channel buffer.
LEMMA AppendElements ==
    ASSUME NEW S, NEW s \in Seq(S), NEW e \in S, NEW i \in DOMAIN Append(s, e)
    PROVE  \/ Append(s, e)[i] = e
           \/ i \in DOMAIN s /\ Append(s, e)[i] = s[i]
  OBVIOUS

\* What a receive (Tail) does to the elements of a channel buffer.
LEMMA TailElements ==
    ASSUME NEW S, NEW s \in Seq(S), s # <<>>, NEW i \in DOMAIN Tail(s)
    PROVE  i + 1 \in DOMAIN s /\ Tail(s)[i] = s[i + 1]
  OBVIOUS

\* Receiving and sending keep a buffer well typed and bounded.
LEMMA BufferTyping ==
    ASSUME NEW S, NEW s \in Seq(S), NEW e \in S
    PROVE  /\ Append(s, e) \in Seq(S)
           /\ Len(Append(s, e)) = Len(s) + 1
           /\ s # <<>> => /\ Head(s) \in S
                          /\ Tail(s) \in Seq(S)
                          /\ Len(Tail(s)) = Len(s) - 1
                          /\ Len(s) \in Nat
  OBVIOUS

LEMMA EmptyBuffer == ASSUME NEW S PROVE <<>> \in Seq(S) /\ Len(<<>>) = 0
  OBVIOUS

LEMMA KeyTyping == \A c \in Chans : KeyOf[c] \in Keys
  BY DEF Keys, KeyOf

\* Select, the last step of every Publish, keeps buffers and results typed.
LEMMA SelectTyping ==
    ASSUME Typed, NEW c \in Calls, NEW ch \in Chans, Select(c, ch)
    PROVE  /\ buf' \in [Chans -> Seq(Calls)]
           /\ \A d \in Chans : Len(buf'[d]) <= Capacity
           /\ pc' \in [Chans -> {"start", "create", "send"} \cup Returned]
  <1>1. pc' \in [Chans -> {"start", "create", "send"} \cup Returned]
    BY DEF Typed, Select, Return, Returned, Chans
  <1>2. CASE UNCHANGED buf
    BY <1>1, <1>2 DEF Typed
  <1>3. CASE /\ Len(buf[ch]) < Capacity
             /\ buf' = [buf EXCEPT ![ch] = Append(@, c)]
    <2>1. Append(buf[ch], c) \in Seq(Calls)
      BY BufferTyping DEF Typed
    <2>2. Len(Append(buf[ch], c)) = Len(buf[ch]) + 1 /\ Len(buf[ch]) \in Nat
      BY BufferTyping DEF Typed
    <2>3. Len(Append(buf[ch], c)) <= Capacity
      BY <2>2, <1>3, CapacityAssumption
    <2> QED BY <1>1, <1>3, <2>1, <2>3 DEF Typed
  <1> QED BY <1>2, <1>3 DEF Select

\* The typing of a state, with the two facts about the local variable
\* channel that typing rests on.
TypeInv ==
    /\ Typed
    /\ \A c \in Calls : pc[c] = "send" => channel[c] = c
    /\ \A s \in Subscribers : pc[s] = "ok" => channel[s] # None

LEMMA TypeInvInit == Init => TypeInv
  <1> SUFFICES ASSUME Init PROVE TypeInv
    OBVIOUS
  <1>1. <<>> \in Seq(Calls) /\ Len(<<>>) = 0
    BY EmptyBuffer
  <1>2. /\ buf \in [Chans -> Seq(Calls)]
        /\ wildcardChannel \in Seq(Calls)
        /\ delivered \in Seq(Calls)
    BY <1>1 DEF Init
  <1>3. /\ \A ch \in Chans : Len(buf[ch]) <= Capacity
        /\ Len(wildcardChannel) <= Capacity
    BY <1>1, CapacityAssumption DEF Init
  <1>4. /\ topics \in [Keys -> Chans \cup {None}]
        /\ pc \in [Chans -> {"start", "create", "send"} \cup Returned]
        /\ channel \in [Chans -> Chans \cup {None}]
        /\ topicChannels \in [Keys -> Chans \cup {None}]
        /\ msg \in [Keys -> Calls \cup {None}]
        /\ chanClosed \in SUBSET Chans
    BY DEF Init
  <1>5. closed \in BOOLEAN /\ listening \in BOOLEAN
    BY DEF Init
  <1>6. /\ \A c \in Calls : pc[c] # "send"
        /\ \A s \in Subscribers : pc[s] # "ok"
    BY DEF Init, Chans
  <1> QED BY <1>2, <1>3, <1>4, <1>5, <1>6 DEF TypeInv, Typed

LEMMA TypeInvStep == TypeInv /\ [Next]_vars => TypeInv'
  <1> SUFFICES ASSUME TypeInv, [Next]_vars PROVE TypeInv'
    OBVIOUS
  <1> USE KeyTyping
  <1>0. Typed BY DEF TypeInv
  <1>1. ASSUME NEW c \in Calls, PublishStart(c) PROVE TypeInv'
    <2>1. c \in Chans /\ c \notin Subscribers BY NamesAssumption DEF Chans
    <2>2. CASE UNCHANGED <<buf, channel>> /\ \E r \in {"refused", "create"} : Return(c, r)
      BY <1>0, <1>1, <2>1, <2>2
         DEF PublishStart, TypeInv, Typed, subVars, Return, Returned, Chans
    <2>3. CASE /\ topics[KeyOf[c]] # None
               /\ channel' = [channel EXCEPT ![c] = topics[KeyOf[c]]]
               /\ Select(c, topics[KeyOf[c]])
      <3>1. topics[KeyOf[c]] \in Chans BY <1>0, <2>1, <2>3 DEF Typed
      <3>2. Typed'
        BY <1>0, <1>1, <2>1, <2>3, <3>1, SelectTyping
           DEF PublishStart, Typed, subVars
      <3>3. \A d \in Chans : d # c => pc'[d] = pc[d] /\ channel'[d] = channel[d]
        BY <1>0, <2>3 DEF Select, Return, Typed
      <3>4. pc'[c] \in Returned
        BY <1>0, <2>1, <2>3 DEF Select, Return, Typed, Returned
      <3> QED BY <2>1, <3>2, <3>3, <3>4 DEF TypeInv, Chans, Returned
    <2> QED BY <1>1, <2>2, <2>3 DEF PublishStart
  <1>2. ASSUME NEW c \in Calls, PublishCreate(c) PROVE TypeInv'
    <2>1. c \in Chans /\ c \notin Subscribers BY NamesAssumption DEF Chans
    <2> QED BY <1>0, <1>2, <2>1
            DEF PublishCreate, Return, TypeInv, Typed, subVars, Chans
  <1>3. ASSUME NEW c \in Calls, PublishSend(c) PROVE TypeInv'
    <2>1. c \in Chans /\ c \notin Subscribers /\ channel[c] \in Chans
      BY <1>3, NamesAssumption DEF Chans, PublishSend, TypeInv
    <2>2. Typed'
      BY <1>0, <1>3, <2>1, SelectTyping DEF PublishSend, Typed, subVars
    <2>3. /\ \A d \in Chans : d # c => pc'[d] = pc[d]
          /\ pc'[c] \in Returned
      BY <1>0, <1>3, <2>1 DEF PublishSend, Select, Return, Typed, Returned
    <2> QED BY <1>3, <2>1, <2>2, <2>3 DEF PublishSend, TypeInv, Chans, Returned
  <1>4. ASSUME NEW s \in Subscribers, Subscribe(s) PROVE TypeInv'
    <2>1. s \in Chans /\ s \notin Calls BY NamesAssumption DEF Chans
    <2> DEFINE ch == IF topics[KeyOf[s]] = None THEN s ELSE topics[KeyOf[s]]
    <2>8. ch \in Chans
      BY <1>0, <2>1 DEF Typed
    <2>7. \/ UNCHANGED <<topics, channel>>
          \/ /\ topics' = [topics EXCEPT ![KeyOf[s]] = ch]
             /\ channel' = [channel EXCEPT ![s] = ch]
      BY <1>4 DEF Subscribe
    <2> HIDE DEF ch
    <2>0. /\ topics' \in [Keys -> Chans \cup {None}]
          /\ channel' \in [Chans -> Chans \cup {None}]
      <3>1. /\ topics \in [Keys -> Chans \cup {None}]
            /\ channel \in [Chans -> Chans \cup {None}]
            /\ KeyOf[s] \in Keys
        BY <1>0, <2>1 DEF Typed
      <3>2. CASE UNCHANGED <<topics, channel>>
        BY <3>1, <3>2
      <3>3. CASE /\ topics' = [topics EXCEPT ![KeyOf[s]] = ch]
                 /\ channel' = [channel EXCEPT ![s] = ch]
        BY <2>1, <2>8, <3>1, <3>3
      <3> QED BY <2>7, <3>2, <3>3
    <2>9. pc' \in [Chans -> {"start", "create", "send"} \cup Returned]
      BY <1>0, <1>4 DEF Subscribe, Return, Typed, Returned
    <2>2. Typed'
      BY <1>0, <1>4, <2>0, <2>9 DEF Subscribe, Typed, subVars
    <2>3. \A d \in Chans : d # s => pc'[d] = pc[d] /\ channel'[d] = channel[d]
      BY <1>0, <1>4 DEF Subscribe, Return, Typed
    <2>4. pc'[s] = "ok" => channel'[s] # None
      BY <1>0, <1>4, <2>1, NamesAssumption DEF ch, Subscribe, Return, Typed
    <2> QED BY <2>1, <2>2, <2>3, <2>4 DEF TypeInv, Chans
  <1>5. ASSUME NEW s \in Subscribers, SubscriberReceive(s) PROVE TypeInv'
    <2> DEFINE ch == channel[s]
    <2>1. ch \in Chans /\ buf[ch] \in Seq(Calls) /\ Len(buf[ch]) <= Capacity
      BY <1>0, <1>5 DEF SubscriberReceive, TypeInv, Typed, Chans
    <2>2. /\ Head(buf[ch]) \in Calls
          /\ Tail(buf[ch]) \in Seq(Calls)
          /\ Len(Tail(buf[ch])) <= Capacity
      BY <1>5, <2>1, CapacityAssumption DEF SubscriberReceive
    <2>3. delivered' \in Seq(Calls)
      BY <1>0, <1>5, <2>2 DEF SubscriberReceive, Typed
    <2> QED BY <1>0, <1>5, <2>1, <2>2, <2>3
            DEF SubscriberReceive, TypeInv, Typed, subVars
  <1>6. CASE SubscribeWildcard
    BY <1>0, <1>6 DEF SubscribeWildcard, TypeInv, Typed
  <1>7. CASE Poll
    BY <1>0, <1>7 DEF Poll, TypeInv, Typed
  <1>8. ASSUME NEW k \in Keys, ForwarderReceive(k) PROVE TypeInv'
    <2> DEFINE ch == topicChannels[k]
    <2>1. ch \in Chans /\ buf[ch] \in Seq(Calls) /\ Len(buf[ch]) <= Capacity
      BY <1>0, <1>8 DEF ForwarderReceive, Typed
    <2>2. /\ Head(buf[ch]) \in Calls
          /\ Tail(buf[ch]) \in Seq(Calls)
          /\ Len(Tail(buf[ch])) <= Capacity
      BY <1>8, <2>1, CapacityAssumption DEF ForwarderReceive
    <2> QED BY <1>0, <1>8, <2>1, <2>2 DEF ForwarderReceive, TypeInv, Typed
  <1>9. ASSUME NEW k \in Keys, ForwarderSend(k) PROVE TypeInv'
    <2>1. msg[k] \in Calls BY <1>0, <1>9 DEF ForwarderSend, Typed
    <2>2. wildcardChannel' \in Seq(Calls) /\ Len(wildcardChannel') <= Capacity
      BY <1>0, <1>9, <2>1, CapacityAssumption DEF ForwarderSend, Typed
    <2> QED BY <1>0, <1>9, <2>2 DEF ForwarderSend, TypeInv, Typed
  <1>10. CASE ListenerReceive
    <2>1. /\ delivered' \in Seq(Calls)
          /\ wildcardChannel' \in Seq(Calls)
          /\ Len(wildcardChannel') <= Capacity
      BY <1>0, <1>10, CapacityAssumption DEF ListenerReceive, Typed
    <2> QED BY <1>0, <1>10, <2>1 DEF ListenerReceive, TypeInv, Typed
  <1>11. CASE Close
    BY <1>0, <1>11 DEF Close, TypeInv, Typed, subVars
  <1>12. CASE UNCHANGED vars
    BY <1>0, <1>12 DEF vars, TypeInv, Typed
  <1> QED BY <1>1, <1>2, <1>3, <1>4, <1>5, <1>6, <1>7, <1>8, <1>9, <1>10,
             <1>11, <1>12 DEF Next, Publish, Forward

\* Type correctness of every reachable state: buffers stay within their
\* capacity and no call is left with a nil channel (channel.go, all
\* operations).
THEOREM TypeCorrect == Spec => []TypeOK
  <1>1. TypeInv => TypeOK
    BY NamesAssumption DEF TypeInv, TypeOK, NoNilChannel, Chans
  <1> QED BY <1>1, TypeInvInit, TypeInvStep, PTL DEF Spec

------------------------------------------------------------------------------
(* One channel per key *)

\* Calls come in the order After gives.
Ordered == \A c \in Chans :
    pc[c] # "start" => \A b \in After[c] : pc[b] \in Returned

\* While the broker is open everybody who holds a channel of a key holds the
\* one in the map, and a call about to make one finds none there.
Agree == ~closed =>
    /\ \A c \in Calls : pc[c] = "create" => topics[KeyOf[c]] = None
    /\ \A c \in Chans : channel[c] # None => topics[KeyOf[c]] = channel[c]
    /\ \A k \in Keys : topicChannels[k] # None => topics[k] = topicChannels[k]

\* A message in a buffer was accepted into that channel.
Placed == \A ch \in Chans : \A i \in DOMAIN buf[ch] :
    pc[buf[ch][i]] = "ok" /\ channel[buf[ch][i]] = ch

IInv == TypeInv /\ Ordered /\ Agree /\ Placed

LEMMA IInvInit == Init => IInv
  <1> SUFFICES ASSUME Init PROVE IInv
    OBVIOUS
  <1>1. TypeInv BY TypeInvInit
  <1>2. \A ch \in Chans : DOMAIN buf[ch] = {}
    BY DEF Init
  <1> QED BY <1>1, <1>2
      DEF Init, IInv, Ordered, Agree, Placed, Chans

\* Select on an open channel, or on the caller's own: where messages are.
LEMMA SelectPlaced ==
    ASSUME Typed, Placed, NEW c \in Calls, NEW ch \in Chans, Select(c, ch),
           pc[c] # "ok",
           channel' \in [Chans -> Chans \cup {None}],
           channel'[c] = ch,
           \A d \in Chans : d # c => channel'[d] = channel[d]
    PROVE  Placed'
  <1>1. c \in Chans BY DEF Chans
  <1>2. \A d \in Chans : d # c => pc'[d] = pc[d]
    BY DEF Select, Return, Typed
  <1>3. \A x \in Chans : \A i \in DOMAIN buf[x] : buf[x][i] \in Chans \ {c}
    BY DEF Placed, Typed, Chans
  <1>4. CASE UNCHANGED buf
    BY <1>2, <1>3, <1>4 DEF Placed
  <1>5. CASE /\ buf' = [buf EXCEPT ![ch] = Append(@, c)]
             /\ Return(c, "ok")
    <2> SUFFICES ASSUME NEW x \in Chans, NEW i \in DOMAIN buf'[x]
                 PROVE  pc'[buf'[x][i]] = "ok" /\ channel'[buf'[x][i]] = x
      BY DEF Placed
    <2>1. pc'[c] = "ok" BY <1>1, <1>5 DEF Return, Typed
    <2>2. CASE x # ch
      <3>1. buf'[x] = buf[x]
        BY <1>5, <2>2 DEF Typed
      <3>2. i \in DOMAIN buf[x] /\ buf[x][i] \in Chans \ {c}
        BY <1>3, <3>1
      <3>3. pc[buf[x][i]] = "ok" /\ channel[buf[x][i]] = x
        BY <3>2 DEF Placed
      <3> QED BY <1>2, <3>1, <3>2, <3>3
    <2>3. CASE x = ch
      <3>1. buf'[x] = Append(buf[x], c) /\ buf[x] \in Seq(Calls)
        BY <1>5, <2>3 DEF Typed
      <3>2. \/ buf'[x][i] = c
            \/ i \in DOMAIN buf[x] /\ buf'[x][i] = buf[x][i]
        <4>1. i \in DOMAIN Append(buf[x], c)
          BY <3>1
        <4>2. \/ Append(buf[x], c)[i] = c
              \/ i \in DOMAIN buf[x] /\ Append(buf[x], c)[i] = buf[x][i]
          BY <3>1, <4>1, AppendElements
        <4> QED BY <3>1, <4>2
      <3> QED BY <1>2, <1>3, <2>1, <2>3, <3>2 DEF Placed
    <2> QED BY <2>2, <2>3
  <1> QED BY <1>4, <1>5 DEF Select

\* Receiving from a channel leaves the other messages where they are.
LEMMA ReceivePlaced ==
    ASSUME Typed, Placed, NEW ch \in Chans, buf[ch] # <<>>,
           buf' = [buf EXCEPT ![ch] = Tail(@)], UNCHANGED <<pc, channel>>
    PROVE  Placed'
  <1> SUFFICES ASSUME NEW x \in Chans, NEW i \in DOMAIN buf'[x]
               PROVE  pc'[buf'[x][i]] = "ok" /\ channel'[buf'[x][i]] = x
    BY DEF Placed
  <1>1. CASE x # ch BY <1>1 DEF Placed, Typed
  <1>2. CASE x = ch
    <2>1. buf'[x] = Tail(buf[x]) /\ buf[x] \in Seq(Calls)
      BY <1>2 DEF Typed
    <2>2. i + 1 \in DOMAIN buf[x] /\ buf'[x][i] = buf[x][i + 1]
      <3>1. i \in DOMAIN Tail(buf[x]) /\ buf[x] # <<>>
        BY <1>2, <2>1
      <3>2. i + 1 \in DOMAIN buf[x] /\ Tail(buf[x])[i] = buf[x][i + 1]
        BY <2>1, <3>1, TailElements
      <3> QED BY <2>1, <3>2
    <2> QED BY <2>2 DEF Placed
  <1> QED BY <1>1, <1>2

LEMMA IInvStep ==
    ASSUME OneCallerPerKey PROVE IInv /\ [Next]_vars => IInv'
  <1> SUFFICES ASSUME IInv, [Next]_vars PROVE IInv'
    OBVIOUS
  <1> USE KeyTyping
  <1>0. TypeInv' /\ Typed /\ Typed'
    BY TypeInvStep DEF IInv, TypeInv
  \* A call that is about to make a channel is alone on its key.
  <1>a. ASSUME NEW c \in Calls, pc[c] = "create", NEW d \in Chans, d # c,
               KeyOf[d] = KeyOf[c]
        PROVE  pc[d] \in Returned \/ (pc[d] = "start" /\ ~Called(d))
    BY <1>a DEF OneCallerPerKey, IInv, Ordered, Called, Chans, Returned
  \* Ordered survives any step that moves one call on.
  <1>b. ASSUME NEW c \in Chans, NEW r \in {"create", "send"} \cup Returned,
               Return(c, r), pc[c] \notin Returned,
               \A b \in After[c] : pc[b] \in Returned
        PROVE  Ordered'
    <2>1. pc'[c] = r /\ \A d \in Chans : d # c => pc'[d] = pc[d]
      BY <1>0, <1>b DEF Return, Typed
    <2>2. \A d \in Chans : After[d] \subseteq Chans
      BY NamesAssumption
    <2> QED BY <1>b, <2>1, <2>2 DEF IInv, Ordered
  <1>1. ASSUME NEW c \in Calls, PublishStart(c) PROVE IInv'
    <2> DEFINE found == topics[KeyOf[c]]
    <2>0. c \in Chans /\ pc[c] = "start" /\ \A b \in After[c] : pc[b] \in Returned
      BY <1>1 DEF PublishStart, Called, Chans
    <2>1. CASE UNCHANGED channel /\ UNCHANGED buf /\ Return(c, "refused")
      <3>1. Ordered' BY <1>b, <2>0, <2>1 DEF Returned
      <3>2. \A d \in Chans : pc'[d] = pc[d] \/ d = c
        BY <1>0, <2>1 DEF Return, Typed
      <3>3. pc'[c] = "refused" /\ UNCHANGED <<topics, closed, topicChannels>>
        BY <1>0, <1>1, <2>0, <2>1 DEF PublishStart, subVars, Return, Typed
      <3>4. Agree'
        BY <2>1, <3>2, <3>3 DEF IInv, Agree, Chans
      <3>5. Placed'
        BY <1>0, <2>0, <2>1, <3>2, <3>3 DEF IInv, Placed, Typed, Chans
      <3> QED BY <1>0, <3>1, <3>4, <3>5 DEF IInv
    <2>2. CASE UNCHANGED channel /\ UNCHANGED buf /\ Return(c, "create") /\ found = None
      <3>1. Ordered' BY <1>b, <2>0, <2>2 DEF Returned
      <3>2. \A d \in Chans : pc'[d] = pc[d] \/ d = c
        BY <1>0, <2>2 DEF Return, Typed
      <3>3. pc'[c] = "create" /\ UNCHANGED <<topics, closed, topicChannels>>
        BY <1>0, <1>1, <2>0, <2>2 DEF PublishStart, subVars, Return, Typed
      <3>4. Agree'
        BY <2>2, <3>2, <3>3 DEF IInv, Agree, Chans
      <3>5. Placed'
        BY <1>0, <2>0, <2>2, <3>2, <3>3 DEF IInv, Placed, Typed, Chans
      <3> QED BY <1>0, <3>1, <3>4, <3>5 DEF IInv
    <2>3. CASE /\ ~closed /\ found # None
               /\ channel' = [channel EXCEPT ![c] = found]
               /\ Select(c, found)
      <3>0. found \in Chans BY <1>0, <2>0, <2>3 DEF Typed
      <3>1. PICK r \in Returned : Return(c, r)
        BY <2>3 DEF Select, Returned
      <3>2. Ordered' BY <1>b, <2>0, <3>1 DEF Returned
      <3>3. /\ \A d \in Chans : d # c => pc'[d] = pc[d] /\ channel'[d] = channel[d]
            /\ pc'[c] \in Returned /\ channel'[c] = found
        BY <1>0, <2>0, <2>3, <3>1 DEF Return, Typed
      <3>4. UNCHANGED <<topics, closed, topicChannels>>
        BY <1>1 DEF PublishStart, subVars
      <3>5. Agree' BY <3>3, <3>4 DEF IInv, Agree, Chans, Returned
      <3>6. Placed'
        BY <1>0, <2>0, <2>3, <3>0, <3>3, SelectPlaced DEF IInv, Typed
      <3> QED BY <1>0, <3>2, <3>5, <3>6 DEF IInv
    <2> QED BY <1>1, <2>1, <2>2, <2>3 DEF PublishStart
  <1>2. ASSUME NEW c \in Calls, PublishCreate(c) PROVE IInv'
    <2>0. /\ c \in Chans /\ pc[c] = "create"
          /\ \A b \in After[c] : pc[b] \in Returned
      BY <1>2 DEF PublishCreate, Chans, IInv, Ordered
    <2>1. Ordered' BY <1>2, <1>b, <2>0 DEF PublishCreate, Returned
    <2>2. /\ \A d \in Chans : d # c => pc'[d] = pc[d] /\ channel'[d] = channel[d]
          /\ pc'[c] = "send" /\ channel'[c] = c
          /\ \A k \in Keys : k # KeyOf[c] => topics'[k] = topics[k]
          /\ topics'[KeyOf[c]] = c
          /\ UNCHANGED <<closed, topicChannels, buf>>
      BY <1>0, <1>2, <2>0 DEF PublishCreate, Return, Typed, subVars
    <2>3. ASSUME ~closed, NEW d \in Chans, d # c, KeyOf[d] = KeyOf[c]
          PROVE  channel[d] = None /\ pc[d] # "create"
      BY <1>a, <2>0, <2>3 DEF IInv, Agree, Returned
    <2>4. ~closed => topicChannels[KeyOf[c]] = None
      BY <2>0 DEF IInv, Agree
    <2>5. Agree'
      BY <2>0, <2>2, <2>3, <2>4 DEF IInv, Agree, Chans
    <2>6. Placed'
      BY <1>0, <2>0, <2>2 DEF IInv, Placed, Typed, Chans
    <2> QED BY <1>0, <2>1, <2>5, <2>6 DEF IInv
  <1>3. ASSUME NEW c \in Calls, PublishSend(c) PROVE IInv'
    <2>0. /\ c \in Chans /\ pc[c] = "send" /\ channel[c] = c
          /\ \A b \in After[c] : pc[b] \in Returned
      BY <1>3 DEF PublishSend, Chans, IInv, TypeInv, Ordered
    <2>1. PICK r \in Returned : Return(c, r)
      BY <1>3 DEF PublishSend, Select, Returned
    <2>2. Ordered' BY <1>b, <2>0, <2>1 DEF Returned
    <2>3. /\ \A d \in Chans : d # c => pc'[d] = pc[d]
          /\ pc'[c] \in Returned
          /\ UNCHANGED <<topics, closed, topicChannels, channel>>
      BY <1>0, <1>3, <2>0, <2>1 DEF PublishSend, Return, Typed, subVars
    <2>4. Agree' BY <2>3 DEF IInv, Agree, Chans, Returned
    <2>5. Placed'
      BY <1>0, <1>3, <2>0, <2>3, SelectPlaced DEF IInv, PublishSend, Typed
    <2> QED BY <1>0, <2>2, <2>4, <2>5 DEF IInv
  <1>4. ASSUME NEW s \in Subscribers, Subscribe(s) PROVE IInv'
    <2> DEFINE ch == IF topics[KeyOf[s]] = None THEN s ELSE topics[KeyOf[s]]
    <2>0. /\ s \in Chans /\ s \notin Calls /\ pc[s] = "start" /\ Called(s)
          /\ \A b \in After[s] : pc[b] \in Returned
      BY <1>4, NamesAssumption DEF Subscribe, Called, Chans
    <2>1. PICK r \in {"refused", "ok"} : Return(s, r)
      BY <1>4 DEF Subscribe
    <2>2. Ordered' BY <1>b, <2>0, <2>1 DEF Returned
    <2>3. /\ \A d \in Chans : d # s => pc'[d] = pc[d] /\ channel'[d] = channel[d]
          /\ pc'[s] = r
          /\ UNCHANGED <<closed, topicChannels, buf>>
      BY <1>0, <1>4, <2>0, <2>1 DEF Subscribe, Return, Typed, subVars
    <2>4. ASSUME NEW c \in Calls, pc[c] = "create" PROVE KeyOf[c] # KeyOf[s]
      BY <1>a, <2>0, <2>4, NamesAssumption DEF Returned
    <2>7. Agree'
      <3>5. CASE UNCHANGED <<topics, channel>>
        BY <2>0, <2>3, <3>5 DEF IInv, Agree, Chans
      <3>6. CASE /\ topics' = [topics EXCEPT ![KeyOf[s]] = ch]
                 /\ channel' = [channel EXCEPT ![s] = ch]
        <4>1. /\ topics'[KeyOf[s]] = ch /\ channel'[s] = ch
              /\ \A k \in Keys : k # KeyOf[s] => topics'[k] = topics[k]
          BY <1>0, <2>0, <3>6 DEF Typed
        <4>2. topics[KeyOf[s]] # None => ch = topics[KeyOf[s]]
          OBVIOUS
        <4> HIDE DEF ch
        <4>3. ASSUME ~closed PROVE Agree'
          <5>1. \A c \in Calls : pc'[c] = "create" => topics'[KeyOf[c]] = None
            BY <2>0, <2>3, <2>4, <4>1, <4>3 DEF IInv, Agree, Chans
          <5>2. ASSUME NEW d \in Chans, channel'[d] # None
                PROVE  topics'[KeyOf[d]] = channel'[d]
            BY <2>3, <4>1, <4>2, <4>3, <5>2 DEF IInv, Agree
          <5>3. \A k \in Keys :
                  topicChannels'[k] # None => topics'[k] = topicChannels'[k]
            BY <2>3, <4>1, <4>2, <4>3 DEF IInv, Agree
          <5> QED BY <5>1, <5>2, <5>3 DEF Agree
        <4> QED BY <2>3, <4>3 DEF Agree
      <3> QED BY <1>4, <3>5, <3>6 DEF Subscribe
    <2>8. Placed'
      BY <1>0, <2>0, <2>3 DEF IInv, Placed, Typed, Chans
    <2> QED BY <1>0, <2>2, <2>7, <2>8 DEF IInv
  <1>5. ASSUME NEW s \in Subscribers, SubscriberReceive(s) PROVE IInv'
    <2>1. channel[s] \in Chans
      BY <1>0, <1>5 DEF SubscriberReceive, IInv, TypeInv, Typed, Chans
    <2>2. Placed' BY <1>0, <1>5, <2>1, ReceivePlaced DEF SubscriberReceive, IInv
    <2> QED BY <1>0, <1>5, <2>2 DEF SubscriberReceive, IInv, Ordered, Agree, subVars
  <1>6. CASE SubscribeWildcard
    BY <1>0, <1>6 DEF SubscribeWildcard, IInv, Ordered, Agree, Placed
  <1>7. CASE Poll
    <2>1. Agree' BY <1>0, <1>7 DEF Poll, IInv, Agree, Typed
    <2> QED BY <1>0, <1>7, <2>1 DEF Poll, IInv, Ordered, Placed
  <1>8. ASSUME NEW k \in Keys, ForwarderReceive(k) PROVE IInv'
    <2>1. topicChannels[k] \in Chans
      BY <1>0, <1>8 DEF ForwarderReceive, Typed
    <2>2. Placed' BY <1>0, <1>8, <2>1, ReceivePlaced DEF ForwarderReceive, IInv
    <2> QED BY <1>0, <1>8, <2>2 DEF ForwarderReceive, IInv, Ordered, Agree
  <1>9. ASSUME NEW k \in Keys, ForwarderSend(k) PROVE IInv'
    BY <1>0, <1>9 DEF ForwarderSend, IInv, Ordered, Agree, Placed
  <1>10. CASE ListenerReceive
    BY <1>0, <1>10 DEF ListenerReceive, IInv, Ordered, Agree, Placed
  <1>11. CASE Close
    BY <1>0, <1>11 DEF Close, IInv, Ordered, Agree, Placed, subVars
  <1>12. CASE UNCHANGED vars
    BY <1>0, <1>12 DEF vars, IInv, Ordered, Agree, Placed
  <1> QED BY <1>1, <1>2, <1>3, <1>4, <1>5, <1>6, <1>7, <1>8, <1>9, <1>10,
             <1>11, <1>12 DEF Next, Publish, Forward

\* No accepted message is stranded in a channel that its readers do not
\* use, provided the calls on one key do not overlap (channel.go Publish,
\* Subscribe and the wildcard poller).
THEOREM NothingStranded == ASSUME OneCallerPerKey PROVE Spec => []NoStranded
  <1>1. IInv => NoStranded
    <2> SUFFICES ASSUME IInv, ~closed, NEW c \in Calls, NEW ch \in Chans,
                        NEW i \in DOMAIN buf[ch], buf[ch][i] = c
                 PROVE  /\ topics[KeyOf[c]] = ch
                        /\ topicChannels[KeyOf[c]] \in {None, ch}
                        /\ \A s \in Subscribers :
                             KeyOf[s] = KeyOf[c] /\ pc[s] = "ok" => channel[s] = ch
      BY DEF NoStranded
    <2>1. channel[c] = ch /\ c \in Chans /\ ch # None /\ KeyOf[c] \in Keys
      BY NamesAssumption, KeyTyping DEF IInv, Placed, Chans
    <2>2. topics[KeyOf[c]] = ch
      BY <2>1 DEF IInv, Agree
    <2>3. topicChannels[KeyOf[c]] \in {None, ch}
      BY <2>1, <2>2 DEF IInv, Agree
    <2>4. ASSUME NEW s \in Subscribers, KeyOf[s] = KeyOf[c], pc[s] = "ok"
          PROVE  channel[s] = ch
      BY <2>2, <2>4 DEF IInv, TypeInv, Agree, Chans
    <2> QED BY <2>2, <2>3, <2>4
  <1> QED BY <1>1, IInvInit, IInvStep, PTL DEF Spec

\* Channels are closed by Close only.
OpenChans == ~closed => chanClosed = {}

\* A Publish that found its channel never panics, Close or no Close
\* (channel.go lines 36-44 and 62-73 under one read lock).
THEOREM FoundNeverPanics == Spec => []PanicOnlyInGap
  <1> DEFINE PInv == TypeInv /\ OpenChans /\ PanicOnlyInGap
  <1>1. Init => PInv
    BY TypeInvInit DEF Init, OpenChans, PanicOnlyInGap, Chans
  <1>2. PInv /\ [Next]_vars => PInv'
    <2> SUFFICES ASSUME PInv, [Next]_vars PROVE PInv'
      OBVIOUS
    <2>0. TypeInv' /\ Typed BY TypeInvStep DEF TypeInv
    <2>1. ASSUME NEW c \in Calls, PublishStart(c) PROVE PInv'
      BY <2>0, <2>1 DEF PublishStart, Select, Return, OpenChans,
         PanicOnlyInGap, Typed, Chans
    <2>2. ASSUME NEW c \in Calls, PublishCreate(c) PROVE PInv'
      BY <2>0, <2>2 DEF PublishCreate, Return, OpenChans, PanicOnlyInGap,
         Typed, Chans
    <2>3. ASSUME NEW c \in Calls, PublishSend(c) PROVE PInv'
      BY <2>0, <2>3 DEF PublishSend, Select, Return, OpenChans,
         PanicOnlyInGap, TypeInv, Typed, Chans
    <2>4. ASSUME NEW s \in Subscribers, Subscribe(s) PROVE PInv'
      <3>1. \A c \in Calls : pc'[c] = pc[c] /\ channel'[c] = channel[c]
        BY <2>0, <2>4, NamesAssumption DEF Subscribe, Return, Typed, Chans
      <3> QED BY <2>0, <2>4, <3>1 DEF Subscribe, OpenChans, PanicOnlyInGap
    <2>5. CASE Close
      BY <2>0, <2>5 DEF Close, OpenChans, PanicOnlyInGap
    <2>6. CASE UNCHANGED <<closed, chanClosed, pc, channel>>
      BY <2>0, <2>6 DEF OpenChans, PanicOnlyInGap
    <2> QED BY <2>1, <2>2, <2>3, <2>4, <2>5, <2>6
            DEF Next, Publish, Forward, vars, SubscriberReceive,
                SubscribeWildcard, Poll, ForwarderReceive, ForwarderSend,
                ListenerReceive
  <1> QED BY <1>1, <1>2, PTL DEF Spec

------------------------------------------------------------------------------
(* The wildcard subscription *)

\* A sequence and one more element.
LEMMA OneMore ==
    ASSUME NEW S, NEW s \in Seq(S), NEW e \in S
    PROVE  /\ s \o <<e>> \in Seq(S) /\ Len(s \o <<e>>) = Len(s) + 1
           /\ (s \o <<e>>)[Len(s) + 1] = e
           /\ \A i \in 1..Len(s) : (s \o <<e>>)[i] = s[i]
  <1>1. <<e>> \in Seq(S) /\ Len(<<e>>) = 1 /\ <<e>>[1] = e
    OBVIOUS
  <1>2. Len(s) \in Nat
    OBVIOUS
  <1> DEFINE t == <<e>>
  <1> HIDE DEF t
  <1>3. t \in Seq(S) /\ Len(t) = 1 /\ t[1] = e
    BY <1>1 DEF t
  <1>4. /\ s \o t \in Seq(S) /\ Len(s \o t) = Len(s) + Len(t)
        /\ \A i \in 1..(Len(s) + Len(t)) :
               (s \o t)[i] = IF i <= Len(s) THEN s[i] ELSE t[i - Len(s)]
    BY <1>3, ConcatProperties
  <1>5. /\ Len(s) + 1 \in 1..(Len(s) + Len(t)) /\ ~ (Len(s) + 1 <= Len(s))
        /\ (Len(s) + 1) - Len(s) = 1
    BY <1>2, <1>3
  <1>6. (s \o t)[Len(s) + 1] = e
    BY <1>3, <1>4, <1>5
  <1>7. \A i \in 1..Len(s) : (s \o t)[i] = s[i]
    BY <1>2, <1>3, <1>4
  <1> QED BY <1>3, <1>4, <1>6, <1>7 DEF t

\* Two sequences without the separator are the same if one with the separator
\* behind it starts what begins with the other and the separator: it cannot
\* stand earlier in one than in the other.
LEMMA OneSeparator ==
    ASSUME NEW S, NEW sep \in S, NEW L \in Seq(S), NEW T \in Seq(S), NEW R \in Seq(S),
           \A i \in 1..Len(L) : L[i] # sep, \A i \in 1..Len(T) : T[i] # sep,
           IsPrefix(L \o <<sep>>, T \o <<sep>> \o R)
    PROVE  L = T
  <1> DEFINE p == L \o <<sep>>
             t == T \o <<sep>>
             k == t \o R
  <1>1. IsPrefix(p, k)
    OBVIOUS
  <1>2. Len(L) \in Nat /\ Len(T) \in Nat
    OBVIOUS
  <1>3. /\ p \in Seq(S) /\ Len(p) = Len(L) + 1 /\ p[Len(L) + 1] = sep
        /\ \A i \in 1..Len(L) : p[i] = L[i]
    BY OneMore
  <1>4. /\ t \in Seq(S) /\ Len(t) = Len(T) + 1 /\ t[Len(T) + 1] = sep
        /\ \A i \in 1..Len(T) : t[i] = T[i]
    BY OneMore
  <1> HIDE DEF p, t
  <1>5. /\ k \in Seq(S) /\ Len(k) = Len(t) + Len(R)
        /\ \A i \in 1..(Len(t) + Len(R)) : k[i] = IF i <= Len(t) THEN t[i] ELSE R[i - Len(t)]
    BY <1>4, ConcatProperties
  <1>6. Len(R) \in Nat
    OBVIOUS
  <1> HIDE DEF k
  <1>7. k[Len(T) + 1] = sep /\ \A i \in 1..Len(T) : k[i] = T[i]
    <2>1. \A i \in 1..(Len(T) + 1) : i \in 1..(Len(t) + Len(R)) /\ i <= Len(t)
      BY <1>2, <1>4, <1>6
    <2>2. \A i \in 1..(Len(T) + 1) : k[i] = t[i]
      BY <1>5, <2>1
    <2> QED BY <1>2, <1>4, <2>2
  <1>8. \A i \in 1..Len(p) : p[i] = k[i]
    <2>1. Len(p) <= Len(k) /\ SubSeq(p, 1, Len(p)) = SubSeq(k, 1, Len(p))
      BY <1>1 DEF IsPrefix
    <2>2. \A i \in 1..Len(p) : SubSeq(p, 1, Len(p))[i] = p[i]
      BY <1>3
    <2>3. \A i \in 1..Len(p) : SubSeq(k, 1, Len(p))[i] = k[i]
      BY <1>3, <1>5, <2>1
    <2> QED BY <2>1, <2>2, <2>3
  <1>9. Len(L) = Len(T)
    <2>1. CASE Len(L) < Len(T)
      <3>1. Len(L) + 1 \in 1..Len(p) /\ Len(L) + 1 \in 1..Len(T)
        BY <1>2, <1>3, <2>1
      <3> QED BY <1>3, <1>7, <1>8, <3>1
    <2>2. CASE Len(T) < Len(L)
      <3>1. Len(T) + 1 \in 1..Len(p) /\ Len(T) + 1 \in 1..Len(L)
        BY <1>2, <1>3, <2>2
      <3> QED BY <1>3, <1>7, <1>8, <3>1
    <2> QED BY <1>2, <2>1, <2>2
  <1>10. \A i \in 1..Len(L) : L[i] = T[i]
    <2>1. \A i \in 1..Len(L) : i \in 1..Len(p) /\ i \in 1..Len(T)
      BY <1>2, <1>3, <1>9
    <2> QED BY <1>3, <1>7, <1>8, <2>1
  <1> QED BY <1>9, <1>10

\* So a key that starts with the listened topic and the separator is a key of
\* that topic.
LEMMA MatchingIsTopic ==
    ASSUME TopicsWithoutSeparator, NEW c \in Chans, KeyOf[c] \in Matching
    PROVE  TopicOf[c] = ListenTopic
  <1> DEFINE S == STRING \cup {":"}
             L == ListenTopic
             T == TopicOf[c]
             R == RoutingKeyOf[c]
  <1>1. L \in Topics /\ T \in Topics
    BY TopicsAssumption
  <1>2. L \in Seq(STRING) /\ T \in Seq(STRING) /\ R \in Seq(STRING)
    BY <1>1, TopicsAssumption
  <1>3. /\ \A i \in 1..Len(L) : L[i] # ":"
        /\ \A i \in 1..Len(T) : T[i] # ":"
    BY <1>1, <1>2 DEF TopicsWithoutSeparator
  <1>4. IsPrefix(L \o <<":">>, T \o <<":">> \o R)
    BY Zenon DEF Matching, KeyOf, makeKey
  <1> HIDE DEF L, T, R
  <1>5. ":" \in S /\ L \in Seq(S) /\ T \in Seq(S) /\ R \in Seq(S)
    BY <1>2
  <1> HIDE DEF S
  <1>6. L = T
    BY <1>3, <1>4, <1>5, OneSeparator
  <1> QED BY <1>6 DEF L, T

\* Channels, the messages in them and the forwarders stay with their key.
KeyInv ==
    /\ TypeInv
    /\ \A k \in Keys : topics[k] # None => KeyOf[topics[k]] = k
    /\ \A c \in Chans : channel[c] # None => KeyOf[channel[c]] = KeyOf[c]
    /\ \A ch \in Chans : \A i \in DOMAIN buf[ch] : KeyOf[buf[ch][i]] = KeyOf[ch]
    /\ \A k \in Keys : topicChannels[k] # None =>
                           k \in Matching /\ KeyOf[topicChannels[k]] = k
    /\ \A k \in Keys : msg[k] # None => k \in Matching /\ KeyOf[msg[k]] = k
    /\ \A i \in DOMAIN wildcardChannel : KeyOf[wildcardChannel[i]] \in Matching

LEMMA KeyInvInit == Init => KeyInv
  <1> SUFFICES ASSUME Init PROVE KeyInv
    OBVIOUS
  <1>1. \A ch \in Chans : DOMAIN buf[ch] = {}
    BY DEF Init
  <1>2. DOMAIN wildcardChannel = {}
    BY DEF Init
  <1> QED BY <1>1, <1>2, TypeInvInit DEF Init, KeyInv

LEMMA KeyInvStep == KeyInv /\ [Next]_vars => KeyInv'
  <1> SUFFICES ASSUME KeyInv, [Next]_vars PROVE KeyInv'
    OBVIOUS
  <1>0. TypeInv' /\ Typed
    BY TypeInvStep DEF KeyInv, TypeInv
  <1>s. ASSUME NEW c \in Calls, NEW ch \in Chans, Select(c, ch), KeyOf[ch] = KeyOf[c]
        PROVE  \A d \in Chans : \A i \in DOMAIN buf'[d] : KeyOf[buf'[d][i]] = KeyOf[d]
    <2>1. CASE UNCHANGED buf
      BY <2>1 DEF KeyInv
    <2>2. CASE buf' = [buf EXCEPT ![ch] = Append(@, c)]
      <3> SUFFICES ASSUME NEW d \in Chans, NEW i \in DOMAIN buf'[d]
                   PROVE  KeyOf[buf'[d][i]] = KeyOf[d]
        OBVIOUS
      <3>1. CASE d # ch
        <4>1. buf'[d] = buf[d]
          BY <1>0, <2>2, <3>1 DEF Typed
        <4> QED BY <4>1 DEF KeyInv
      <3>2. CASE d = ch
        <4>1. buf'[d] = Append(buf[d], c) /\ buf[d] \in Seq(Calls)
          BY <1>0, <2>2, <3>2 DEF Typed
        <4>2. \/ buf'[d][i] = c
              \/ i \in DOMAIN buf[d] /\ buf'[d][i] = buf[d][i]
          <5>1. i \in DOMAIN Append(buf[d], c)
            BY <4>1
          <5>2. \/ Append(buf[d], c)[i] = c
                \/ i \in DOMAIN buf[d] /\ Append(buf[d], c)[i] = buf[d][i]
            BY <4>1, <5>1, AppendElements
          <5> QED BY <4>1, <5>2
        <4> QED BY <1>s, <3>2, <4>2 DEF KeyInv
      <3> QED BY <3>1, <3>2
    <2> QED BY <1>s, <2>1, <2>2 DEF Select
  <1>r. ASSUME NEW ch \in Chans, buf[ch] # <<>>, buf' = [buf EXCEPT ![ch] = Tail(@)]
        PROVE  /\ \A d \in Chans : \A i \in DOMAIN buf'[d] : KeyOf[buf'[d][i]] = KeyOf[d]
               /\ KeyOf[Head(buf[ch])] = KeyOf[ch]
    <2>1. ASSUME NEW d \in Chans, NEW i \in DOMAIN buf'[d]
          PROVE  KeyOf[buf'[d][i]] = KeyOf[d]
      <3>1. CASE d # ch
        <4>1. buf'[d] = buf[d]
          BY <1>0, <1>r, <3>1 DEF Typed
        <4> QED BY <2>1, <4>1 DEF KeyInv
      <3>2. CASE d = ch
        <4>1. buf'[d] = Tail(buf[d]) /\ buf[d] \in Seq(Calls)
          BY <1>0, <1>r, <3>2 DEF Typed
        <4>2. i + 1 \in DOMAIN buf[d] /\ buf'[d][i] = buf[d][i + 1]
          <5>1. i \in DOMAIN Tail(buf[d]) /\ buf[d] # <<>>
            BY <1>r, <2>1, <3>2, <4>1
          <5>2. i + 1 \in DOMAIN buf[d] /\ Tail(buf[d])[i] = buf[d][i + 1]
            BY <4>1, <5>1, TailElements
          <5> QED BY <4>1, <5>2
        <4> QED BY <4>2 DEF KeyInv
      <3> QED BY <3>1, <3>2
    <2>2. buf[ch] \in Seq(Calls)
      BY <1>0 DEF Typed
    <2>3. 1 \in DOMAIN buf[ch] /\ Head(buf[ch]) = buf[ch][1]
      BY <1>r, <2>2
    <2>4. KeyOf[Head(buf[ch])] = KeyOf[ch]
      BY <2>3 DEF KeyInv
    <2> QED BY <2>1, <2>4
  <1>1. ASSUME NEW c \in Calls, PublishStart(c) PROVE KeyInv'
    <2>0. c \in Chans /\ KeyOf[c] \in Keys
      BY KeyTyping DEF Chans
    <2>1. UNCHANGED <<topics, topicChannels, msg, wildcardChannel>>
      BY <1>1 DEF PublishStart, subVars
    <2>2. CASE UNCHANGED <<buf, channel>>
      BY <1>0, <2>1, <2>2 DEF KeyInv
    <2>3. CASE /\ topics[KeyOf[c]] # None
               /\ channel' = [channel EXCEPT ![c] = topics[KeyOf[c]]]
               /\ Select(c, topics[KeyOf[c]])
      <3>1. topics[KeyOf[c]] \in Chans /\ KeyOf[topics[KeyOf[c]]] = KeyOf[c]
        BY <1>0, <2>0, <2>3 DEF Typed, KeyInv
      <3>2. \A d \in Chans : channel'[d] # None => KeyOf[channel'[d]] = KeyOf[d]
        BY <1>0, <2>0, <2>3, <3>1 DEF Typed, KeyInv
      <3>3. \A d \in Chans : \A i \in DOMAIN buf'[d] : KeyOf[buf'[d][i]] = KeyOf[d]
        BY <1>s, <2>3, <3>1
      <3> QED BY <1>0, <2>1, <3>2, <3>3 DEF KeyInv
    <2> QED BY <1>1, <2>2, <2>3 DEF PublishStart
  <1>2. ASSUME NEW c \in Calls, PublishCreate(c) PROVE KeyInv'
    <2>0. c \in Chans /\ KeyOf[c] \in Keys
      BY KeyTyping DEF Chans
    <2>1. /\ UNCHANGED <<buf, topicChannels, msg, wildcardChannel>>
          /\ channel' = [channel EXCEPT ![c] = c] /\ topics' = [topics EXCEPT ![KeyOf[c]] = c]
      BY <1>2 DEF PublishCreate, subVars
    <2>2. \A d \in Chans : channel'[d] # None => KeyOf[channel'[d]] = KeyOf[d]
      BY <1>0, <2>0, <2>1 DEF Typed, KeyInv
    <2>3. \A k \in Keys : topics'[k] # None => KeyOf[topics'[k]] = k
      BY <1>0, <2>0, <2>1 DEF Typed, KeyInv
    <2> QED BY <1>0, <2>1, <2>2, <2>3 DEF KeyInv
  <1>3. ASSUME NEW c \in Calls, PublishSend(c) PROVE KeyInv'
    <2>1. channel[c] = c /\ c \in Chans
      BY <1>3 DEF PublishSend, KeyInv, TypeInv, Chans
    <2>2. \A d \in Chans : \A i \in DOMAIN buf'[d] : KeyOf[buf'[d][i]] = KeyOf[d]
      BY <1>3, <1>s, <2>1 DEF PublishSend
    <2>3. UNCHANGED <<topics, channel, topicChannels, msg, wildcardChannel>>
      BY <1>3 DEF PublishSend, subVars
    <2> QED BY <1>0, <2>2, <2>3 DEF KeyInv
  <1>4. ASSUME NEW s \in Subscribers, Subscribe(s) PROVE KeyInv'
    <2> DEFINE ch == IF topics[KeyOf[s]] = None THEN s ELSE topics[KeyOf[s]]
    <2>0. s \in Chans /\ KeyOf[s] \in Keys
      BY KeyTyping DEF Chans
    <2>1. UNCHANGED <<buf, topicChannels, msg, wildcardChannel>>
      BY <1>4 DEF Subscribe, subVars
    <2>2. KeyOf[ch] = KeyOf[s]
      BY <2>0 DEF KeyInv
    <2>3. \/ UNCHANGED <<topics, channel>>
          \/ /\ topics' = [topics EXCEPT ![KeyOf[s]] = ch]
             /\ channel' = [channel EXCEPT ![s] = ch]
      BY <1>4 DEF Subscribe
    <2> HIDE DEF ch
    <2>4. \A d \in Chans : channel'[d] # None => KeyOf[channel'[d]] = KeyOf[d]
      BY <1>0, <2>0, <2>2, <2>3 DEF Typed, KeyInv
    <2>5. \A k \in Keys : topics'[k] # None => KeyOf[topics'[k]] = k
      BY <1>0, <2>0, <2>2, <2>3 DEF Typed, KeyInv
    <2> QED BY <1>0, <2>1, <2>4, <2>5 DEF KeyInv
  <1>5. ASSUME NEW s \in Subscribers, SubscriberReceive(s) PROVE KeyInv'
    <2>1. channel[s] \in Chans
      BY <1>0, <1>5 DEF SubscriberReceive, KeyInv, TypeInv, Typed, Chans
    <2>2. \A d \in Chans : \A i \in DOMAIN buf'[d] : KeyOf[buf'[d][i]] = KeyOf[d]
      BY <1>5, <1>r, <2>1 DEF SubscriberReceive
    <2>3. UNCHANGED <<topics, channel, topicChannels, msg, wildcardChannel>>
      BY <1>5 DEF SubscriberReceive, subVars
    <2> QED BY <1>0, <2>2, <2>3 DEF KeyInv
  <1>6. CASE SubscribeWildcard
    BY <1>0, <1>6 DEF SubscribeWildcard, KeyInv
  <1>7. CASE Poll
    <2>1. \A k \in Keys : topicChannels'[k] # None =>
              k \in Matching /\ KeyOf[topicChannels'[k]] = k
      BY <1>7 DEF Poll, KeyInv
    <2>2. UNCHANGED <<topics, channel, buf, msg, wildcardChannel>>
      BY <1>7 DEF Poll
    <2> QED BY <1>0, <2>1, <2>2 DEF KeyInv
  <1>8. ASSUME NEW k \in Keys, ForwarderReceive(k) PROVE KeyInv'
    <2> DEFINE ch == topicChannels[k]
    <2>1. ch \in Chans /\ k \in Matching /\ KeyOf[ch] = k
      BY <1>0, <1>8 DEF ForwarderReceive, Typed, KeyInv
    <2>2. /\ buf[ch] # <<>> /\ buf' = [buf EXCEPT ![ch] = Tail(@)]
          /\ msg' = [msg EXCEPT ![k] = Head(buf[ch])]
          /\ UNCHANGED <<topics, channel, topicChannels, wildcardChannel>>
      BY <1>8 DEF ForwarderReceive
    <2> HIDE DEF ch
    <2>3. /\ \A d \in Chans : \A i \in DOMAIN buf'[d] : KeyOf[buf'[d][i]] = KeyOf[d]
          /\ KeyOf[Head(buf[ch])] = k
      BY <1>r, <2>1, <2>2
    <2>4. \A j \in Keys : msg'[j] # None => j \in Matching /\ KeyOf[msg'[j]] = j
      BY <1>0, <2>1, <2>2, <2>3 DEF Typed, KeyInv
    <2> QED BY <1>0, <2>2, <2>3, <2>4 DEF KeyInv
  <1>9. ASSUME NEW k \in Keys, ForwarderSend(k) PROVE KeyInv'
    <2>1. msg[k] \in Calls /\ KeyOf[msg[k]] \in Matching
      BY <1>0, <1>9 DEF ForwarderSend, Typed, KeyInv
    <2>2. /\ wildcardChannel' = Append(wildcardChannel, msg[k])
          /\ msg' = [msg EXCEPT ![k] = None]
          /\ UNCHANGED <<topics, channel, buf, topicChannels>>
      BY <1>9 DEF ForwarderSend
    <2>3. \A i \in DOMAIN wildcardChannel' : KeyOf[wildcardChannel'[i]] \in Matching
      <3>1. wildcardChannel \in Seq(Calls)
        BY <1>0 DEF Typed
      <3> QED BY <2>1, <2>2, <3>1, AppendElements DEF KeyInv
    <2>4. \A j \in Keys : msg'[j] # None => j \in Matching /\ KeyOf[msg'[j]] = j
      BY <1>0, <2>2 DEF Typed, KeyInv
    <2> QED BY <1>0, <2>2, <2>3, <2>4 DEF KeyInv
  <1>10. CASE ListenerReceive
    <2>1. wildcardChannel \in Seq(Calls) /\ wildcardChannel # <<>>
      BY <1>0, <1>10 DEF ListenerReceive, Typed
    <2>2. /\ wildcardChannel' = Tail(wildcardChannel)
          /\ UNCHANGED <<topics, channel, buf, topicChannels, msg>>
      BY <1>10 DEF ListenerReceive
    <2>3. \A i \in DOMAIN wildcardChannel' : KeyOf[wildcardChannel'[i]] \in Matching
      BY <2>1, <2>2, TailElements DEF KeyInv
    <2> QED BY <1>0, <2>2, <2>3 DEF KeyInv
  <1>11. CASE Close
    BY <1>0, <1>11 DEF Close, KeyInv, subVars
  <1>12. CASE UNCHANGED vars
    BY <1>0, <1>12 DEF vars, KeyInv
  <1> QED BY <1>1, <1>2, <1>3, <1>4, <1>5, <1>6, <1>7, <1>8, <1>9, <1>10,
             <1>11, <1>12 DEF Next, Publish, Forward

\* The listener gets messages of its own topic only, for any topics without
\* the separator and any routing keys, those with separators included
\* (channel.go lines 91-129, strings.HasPrefix on the combined key).
THEOREM TopicsAreIsolated ==
    ASSUME TopicsWithoutSeparator PROVE Spec => []TopicIsolation
  <1>1. KeyInv => TopicIsolation
    <2> SUFFICES ASSUME KeyInv, NEW i \in DOMAIN wildcardChannel
                 PROVE  TopicOf[wildcardChannel[i]] = ListenTopic
      BY DEF TopicIsolation
    <2>1. wildcardChannel[i] \in Chans
      BY DEF KeyInv, TypeInv, Typed, Chans
    <2>2. KeyOf[wildcardChannel[i]] \in Matching
      BY DEF KeyInv
    <2> QED BY <2>1, <2>2, MatchingIsTopic
  <1> QED BY <1>1, KeyInvInit, KeyInvStep, PTL DEF Spec

------------------------------------------------------------------------------
(* The messages of one key *)

\* Induction: a set of numbers has a least one.
LEMMA Least ==
    ASSUME NEW T, T \subseteq Nat, T # {}
    PROVE  \E n \in T : \A m \in T : n <= m
  <1> DEFINE R == OpToRel(<, Nat)
  <1>1. IsWellFoundedOn(R, Nat)
    BY NatLessThanWellFounded
  <1> HIDE DEF R
  <1>2. PICK n \in T : \A m \in T : <<m, n>> \notin R
    BY <1>1, WFMin
  <1>3. \A m \in T : m < n => <<m, n>> \in R
    BY DEF R, OpToRel
  <1>4. n \in Nat /\ \A m \in T : m \in Nat /\ ~ (m < n)
    BY <1>2, <1>3
  <1> QED BY <1>4

\* One more message after those of key k collected so far.
More(part, m, k) == IF KeyOf[m] = k THEN Append(part, m) ELSE part

\* f gives the messages of key k among the first n of s, for every n.
Collects(f, s, k) ==
    f = [n \in 0..Len(s) |-> IF n = 0 THEN <<>> ELSE More(f[n - 1], s[n], k)]

LEMMA CollectsMeans ==
    ASSUME NEW S, NEW s \in Seq(S), NEW k, NEW f
    PROVE  Collects(f, s, k) <=>
               /\ f = [n \in 0..Len(s) |-> f[n]]
               /\ f[0] = <<>>
               /\ \A n \in 1..Len(s) : f[n] = More(f[n - 1], s[n], k)
  <1> DEFINE next(n) == IF n = 0 THEN <<>> ELSE More(f[n - 1], s[n], k)
             N == Len(s)
  <1>1. Collects(f, s, k) <=> f = [n \in 0..N |-> next(n)]
    BY Zenon DEF Collects
  <1>2. next(0) = <<>> /\ \A n \in 1..N : next(n) = More(f[n - 1], s[n], k)
    OBVIOUS
  <1>3. N \in Nat
    OBVIOUS
  <1> HIDE DEF next, N
  <1>4. f = [n \in 0..N |-> next(n)] <=>
            f = [n \in 0..N |-> f[n]] /\ \A n \in 0..N : f[n] = next(n)
    OBVIOUS
  <1>5. (\A n \in 0..N : f[n] = next(n)) <=>
            f[0] = next(0) /\ \A n \in 1..N : f[n] = next(n)
    <2>1. \A n : n \in 0..N <=> n = 0 \/ n \in 1..N
      BY <1>3
    <2> QED BY <2>1, Zenon
  <1>6. (\A n \in 1..N : f[n] = next(n)) <=>
            \A n \in 1..N : f[n] = More(f[n - 1], s[n], k)
    BY <1>2, Zenon
  <1>7. Collects(f, s, k) <=>
            /\ f = [n \in 0..N |-> f[n]]
            /\ f[0] = <<>>
            /\ \A n \in 1..N : f[n] = More(f[n - 1], s[n], k)
    BY <1>1, <1>2, <1>4, <1>5, <1>6, Zenon
  <1> QED BY <1>7, Zenon DEF N

\* There is at most one such function, so OfKey is its last value.
LEMMA CollectsOnce ==
    ASSUME NEW S, NEW s \in Seq(S), NEW k, NEW f, NEW g,
           Collects(f, s, k), Collects(g, s, k)
    PROVE  f = g
  <1> DEFINE N == Len(s)
             T == {n \in 0..N : f[n] # g[n]}
  <1>1. /\ f = [n \in 0..N |-> f[n]] /\ f[0] = <<>>
        /\ \A n \in 1..N : f[n] = More(f[n - 1], s[n], k)
    BY CollectsMeans
  <1>2. /\ g = [n \in 0..N |-> g[n]] /\ g[0] = <<>>
        /\ \A n \in 1..N : g[n] = More(g[n - 1], s[n], k)
    BY CollectsMeans
  <1>3. N \in Nat
    OBVIOUS
  <1> HIDE DEF N
  <1>4. T = {}
    <2> SUFFICES ASSUME T # {} PROVE FALSE
      OBVIOUS
    <2>1. PICK n \in T : \A m \in T : n <= m
      <3>1. T \subseteq Nat BY <1>3
      <3> HIDE DEF T
      <3> QED BY <3>1, Least
    <2>2. n \in 0..N /\ f[n] # g[n]
      OBVIOUS
    <2>3. n # 0
      BY <1>1, <1>2, <2>2
    <2>4. n \in 1..N /\ n - 1 \in 0..N /\ ~ (n <= n - 1)
      BY <1>3, <2>2, <2>3
    <2>5. f[n - 1] = g[n - 1]
      BY <2>1, <2>4
    <2> QED BY <1>1, <1>2, <2>2, <2>4, <2>5, Zenon
  <1>5. \A n \in 0..N : f[n] = g[n]
    BY <1>4
  <1> QED BY <1>1, <1>2, <1>5

LEMMA OfKeyIs ==
    ASSUME NEW S, NEW s \in Seq(S), NEW k, NEW f, Collects(f, s, k)
    PROVE  OfKey(s, k) = f[Len(s)]
  <1> DEFINE c == CHOOSE g : Collects(g, s, k)
  <1>1. Collects(c, s, k)
    BY Zenon
  <1>2. OfKey(s, k) = c[Len(s)]
    BY Zenon DEF OfKey, Collects, More
  <1> HIDE DEF c
  <1>3. c = f
    BY <1>1, CollectsOnce
  <1> QED BY <1>2, <1>3

\* A message sent after the others comes last in its key.
LEMMA CollectsAppend ==
    ASSUME NEW S, NEW s \in Seq(S), NEW e \in S, NEW k, NEW f, Collects(f, s, k)
    PROVE  \E g : /\ Collects(g, Append(s, e), k)
                  /\ \A n \in 0..Len(s) : g[n] = f[n]
                  /\ g[Len(s) + 1] = More(f[Len(s)], e, k)
  <1> DEFINE N == Len(s)
             t == Append(s, e)
             last == More(f[N], e, k)
             g == [n \in 0..(N + 1) |-> IF n = N + 1 THEN last ELSE f[n]]
  <1>1. /\ f[0] = <<>>
        /\ \A n \in 1..N : f[n] = More(f[n - 1], s[n], k)
    BY CollectsMeans
  <1>2. /\ N \in Nat /\ t \in Seq(S) /\ Len(t) = N + 1 /\ t[N + 1] = e
        /\ \A n \in 1..N : t[n] = s[n]
    OBVIOUS
  <1>l. last = More(f[N], e, k) OBVIOUS
  <1> HIDE DEF N, t, last
  <1>3. /\ \A n \in 0..N : g[n] = f[n]
        /\ g[N + 1] = last
        /\ g = [n \in 0..(N + 1) |-> g[n]]
    BY <1>2
  <1> HIDE DEF g
  <1>4. ASSUME NEW n \in 1..(N + 1) PROVE g[n] = More(g[n - 1], t[n], k)
    <2>1. n - 1 \in 0..N /\ (n = N + 1 \/ (n \in 1..N /\ n \in 0..N)) /\ (N + 1) - 1 = N
      BY <1>2
    <2>2. g[n - 1] = f[n - 1]
      BY <1>3, <2>1
    <2>3. CASE n = N + 1
      BY <1>l, <1>2, <1>3, <2>1, <2>2, <2>3
    <2>4. CASE n \in 1..N /\ n \in 0..N
      BY <1>1, <1>2, <1>3, <2>2, <2>4, Zenon
    <2> QED BY <2>1, <2>3, <2>4
  <1>5. g[0] = <<>>
    <2>1. 0 \in 0..N
      BY <1>2
    <2> QED BY <1>1, <1>3, <2>1, Zenon
  <1>6. Collects(g, t, k)
    BY <1>2, <1>3, <1>4, <1>5, CollectsMeans
  <1> QED BY <1>3, <1>6, <1>l DEF t, N

\* Every sequence has such a function.
LEMMA Collectable ==
    ASSUME NEW S, NEW k, NEW s \in Seq(S)
    PROVE  \E f : Collects(f, s, k) /\ \A n \in 0..Len(s) : f[n] \in Seq(S)
  <1> DEFINE Has(u) == \E f : Collects(f, u, k) /\ \A n \in 0..Len(u) : f[n] \in Seq(S)
             T == {n \in Nat : \E u \in Seq(S) : Len(u) = n /\ ~Has(u)}
  <1>1. T = {}
    <2> SUFFICES ASSUME T # {} PROVE FALSE
      OBVIOUS
    <2>1. PICK n \in T : \A m \in T : n <= m
      <3>1. T \subseteq Nat OBVIOUS
      <3> HIDE DEF T
      <3> QED BY <3>1, Least
    <2>2. PICK u \in Seq(S) : Len(u) = n /\ ~Has(u)
      OBVIOUS
    <2>3. CASE n = 0
      <3> DEFINE f == [i \in 0..Len(u) |-> <<>>]
      <3>1. /\ f = [i \in 0..Len(u) |-> f[i]] /\ f[0] = <<>>
            /\ \A i \in 0..Len(u) : f[i] \in Seq(S)
            /\ 1..Len(u) = {}
        BY <2>2, <2>3
      <3> HIDE DEF f
      <3>2. Collects(f, u, k)
        BY <3>1, CollectsMeans
      <3> QED BY <2>2, <3>1, <3>2
    <2>4. CASE n # 0
      <3> DEFINE v == SubSeq(u, 1, n - 1)
                 e == u[n]
      <3>0. n \in Nat OBVIOUS
      <3>1. v \in Seq(S) /\ Len(v) = n - 1 /\ n - 1 \in Nat /\ e \in S /\ u = Append(v, e)
        BY <2>2, <2>4, <3>0
      <3> HIDE DEF v, e
      <3>2. Has(v)
        BY <2>1, <3>0, <3>1
      <3>3. PICK f : Collects(f, v, k) /\ \A i \in 0..Len(v) : f[i] \in Seq(S)
        BY <3>2
      <3>4. PICK g : /\ Collects(g, u, k)
                     /\ \A i \in 0..Len(v) : g[i] = f[i]
                     /\ g[Len(v) + 1] = More(f[Len(v)], e, k)
        <4>1. \E g : /\ Collects(g, Append(v, e), k)
                     /\ \A i \in 0..Len(v) : g[i] = f[i]
                     /\ g[Len(v) + 1] = More(f[Len(v)], e, k)
          <5>1. v \in Seq(S) /\ e \in S /\ Collects(f, v, k)
            BY <3>1, <3>3
          <5> QED BY <5>1, CollectsAppend
        <4> QED BY <3>1, <4>1
      <3>5. f[Len(v)] \in Seq(S)
        BY <3>1, <3>3
      <3>6. g[n] \in Seq(S)
        <4>1. More(f[Len(v)], e, k) \in Seq(S)
          BY <3>1, <3>5 DEF More
        <4> QED BY <3>0, <3>1, <3>4, <4>1
      <3>7. \A i \in 0..Len(u) : g[i] \in Seq(S)
        <4>1. \A i \in 0..Len(u) : i = n \/ i \in 0..Len(v)
          BY <2>2, <3>0, <3>1
        <4> QED BY <3>3, <3>4, <3>6, <4>1, Zenon
      <3> QED BY <2>2, <3>4, <3>7
    <2> QED BY <2>3, <2>4
  <1>2. Len(s) \in Nat
    OBVIOUS
  <1> QED BY <1>1, <1>2

\* What sending to a channel, receiving from it and looking for a key that
\* is not in it mean for the messages of one key.
LEMMA OfKeyTyping ==
    ASSUME NEW S, NEW k, NEW s \in Seq(S)
    PROVE  OfKey(s, k) \in Seq(S)
  <1>1. PICK f : Collects(f, s, k) /\ \A n \in 0..Len(s) : f[n] \in Seq(S)
    BY Collectable
  <1>2. OfKey(s, k) = f[Len(s)] /\ Len(s) \in 0..Len(s)
    BY <1>1, OfKeyIs
  <1> QED BY <1>1, <1>2

LEMMA OfKeyAppend ==
    ASSUME NEW S, NEW k, NEW s \in Seq(S), NEW e \in S
    PROVE  OfKey(Append(s, e), k) = More(OfKey(s, k), e, k)
  <1>1. PICK f : Collects(f, s, k)
    BY Collectable
  <1>2. PICK g : Collects(g, Append(s, e), k) /\ g[Len(s) + 1] = More(f[Len(s)], e, k)
    BY <1>1, CollectsAppend
  <1>3. OfKey(s, k) = f[Len(s)]
    BY <1>1, OfKeyIs
  <1>4. Append(s, e) \in Seq(S) /\ Len(Append(s, e)) = Len(s) + 1
    OBVIOUS
  <1>5. OfKey(Append(s, e), k) = g[Len(Append(s, e))]
    BY <1>2, <1>4, OfKeyIs
  <1> QED BY <1>2, <1>3, <1>4, <1>5

LEMMA OfKeyNone ==
    ASSUME NEW S, NEW k, NEW s \in Seq(S), \A i \in DOMAIN s : KeyOf[s[i]] # k
    PROVE  OfKey(s, k) = <<>>
  <1> DEFINE f == [n \in 0..Len(s) |-> <<>>]
  <1>1. /\ f = [n \in 0..Len(s) |-> f[n]] /\ f[0] = <<>> /\ f[Len(s)] = <<>>
        /\ \A n \in 1..Len(s) : f[n] = <<>> /\ f[n - 1] = <<>> /\ KeyOf[s[n]] # k
    OBVIOUS
  <1> HIDE DEF f
  <1>2. \A n \in 1..Len(s) : f[n] = More(f[n - 1], s[n], k)
    BY <1>1, Zenon DEF More
  <1>3. Collects(f, s, k)
    BY <1>1, <1>2, CollectsMeans
  <1> QED BY <1>1, <1>3, OfKeyIs

LEMMA OfKeyTail ==
    ASSUME NEW S, NEW k, NEW s \in Seq(S), s # <<>>
    PROVE  OfKey(s, k) = More(<<>>, Head(s), k) \o OfKey(Tail(s), k)
  <1> DEFINE t == Tail(s)
             N == Len(t)
             pre == More(<<>>, Head(s), k)
  <1>1. /\ t \in Seq(S) /\ N \in Nat /\ Len(s) = N + 1 /\ Head(s) = s[1] /\ Head(s) \in S
        /\ \A n \in 1..N : t[n] = s[n + 1] /\ t[n] \in S
    OBVIOUS
  <1>2. pre \in Seq(S)
    <2>1. Append(<<>>, Head(s)) \in Seq(S) /\ <<>> \in Seq(S)
      BY <1>1
    <2> QED BY <2>1 DEF More
  <1>3. PICK g : Collects(g, t, k) /\ \A n \in 0..N : g[n] \in Seq(S)
    BY <1>1, Collectable
  <1>4. g[0] = <<>> /\ \A n \in 1..N : g[n] = More(g[n - 1], t[n], k)
    <2> HIDE DEF t, pre
    <2>1. /\ g[0] = <<>>
          /\ \A n \in 1..Len(t) : g[n] = More(g[n - 1], t[n], k)
      BY <1>1, <1>3, CollectsMeans
    <2> QED BY <2>1
  <1>p. pre = More(<<>>, s[1], k)
    BY <1>1
  <1>q. OfKey(t, k) = g[N]
    BY <1>1, <1>3, OfKeyIs
  <1> HIDE DEF t, N, pre
  <1> DEFINE f == [n \in 0..(N + 1) |-> IF n = 0 THEN <<>> ELSE pre \o g[n - 1]]
  <1>5. /\ f = [n \in 0..(N + 1) |-> f[n]] /\ f[0] = <<>>
        /\ \A n \in 1..(N + 1) : f[n] = pre \o g[n - 1]
    BY <1>1
  <1> HIDE DEF f
  <1>6. ASSUME NEW n \in 1..(N + 1) PROVE f[n] = More(f[n - 1], s[n], k)
    <2>1. CASE n = 1
      <3>1. f[1] = pre \o g[0] /\ f[n - 1] = <<>>
        <4>1. n - 1 = 0 /\ 1 - 1 = 0 /\ 1 \in 1..(N + 1)
          BY <1>1, <2>1
        <4>2. f[1] = pre \o g[1 - 1]
          BY <1>5, <4>1
        <4> QED BY <1>5, <4>1, <4>2
      <3>2. pre \o <<>> = pre
        BY <1>2
      <3> QED BY <1>4, <1>p, <2>1, <3>1, <3>2
    <2>2. CASE n # 1
      <3> DEFINE m == n - 1
      <3>1. m \in 1..N /\ m \in 1..(N + 1) /\ m - 1 \in 0..N /\ n = m + 1 /\ m \in 0..N
        BY <1>1, <2>2
      <3>m. m = n - 1 OBVIOUS
      <3> HIDE DEF m
      <3>2. f[n] = pre \o g[m] /\ f[m] = pre \o g[m - 1]
        BY <1>5, <3>1, <3>m
      <3>3. g[m] = More(g[m - 1], s[n], k) /\ s[n] \in S /\ g[m - 1] \in Seq(S)
        BY <1>1, <1>3, <1>4, <3>1
      <3>4. pre \o Append(g[m - 1], s[n]) = Append(pre \o g[m - 1], s[n])
        BY <1>2, <3>3
      <3>5. pre \o More(g[m - 1], s[n], k) = More(pre \o g[m - 1], s[n], k)
        BY <3>4, Zenon DEF More
      <3> QED BY <3>2, <3>3, <3>5, <3>m
    <2> QED BY <2>1, <2>2
  <1>7. Collects(f, s, k)
    BY <1>1, <1>5, <1>6, CollectsMeans
  <1>8. OfKey(s, k) = f[N + 1]
    BY <1>1, <1>7, OfKeyIs
  <1>9. f[N + 1] = pre \o g[N]
    <2>1. N + 1 \in 1..(N + 1) /\ (N + 1) - 1 = N
      BY <1>1
    <2>2. f[N + 1] = pre \o g[(N + 1) - 1]
      BY <1>5, <2>1
    <2> QED BY <2>1, <2>2
  <1>10. OfKey(s, k) = pre \o OfKey(t, k)
    BY <1>8, <1>9, <1>q
  <1> QED BY <1>10 DEF t, pre

------------------------------------------------------------------------------
(* The broker is a mailbox *)

\* A key has one channel, before Close and after it: everybody who holds a
\* channel holds that one, and a call that is about to make it is the first.
Single ==
    /\ \A c \in Chans : pc[c] \in {"start", "create"} => channel[c] = None
    /\ \A c \in Calls : pc[c] = "create" =>
          \A d \in Chans : KeyOf[d] = KeyOf[c] => channel[d] = None
    /\ \A c, d \in Chans :
          KeyOf[c] = KeyOf[d] /\ channel[c] # None /\ channel[d] # None
              => channel[c] = channel[d]
    /\ \A c \in Chans : channel[c] # None => channel[channel[c]] = channel[c]
    /\ \A k \in Keys : topics[k] # None => channel[topics[k]] = topics[k]
    /\ \A k \in Keys : topicChannels[k] # None =>
                           channel[topicChannels[k]] = topicChannels[k]

MInv == IInv /\ KeyInv /\ Single

\* Taking the channel of its key leaves a call with the one channel.
LEMMA TakeSingle ==
    ASSUME Typed, KeyInv, Single, NEW c \in Chans, NEW ch \in Chans,
           channel[c] = None, KeyOf[ch] = KeyOf[c],
           ch = c \/ channel[ch] = ch,
           \A d \in Chans : KeyOf[d] = KeyOf[c] => channel[d] \in {None, ch},
           \A d \in Calls : pc'[d] = "create" => KeyOf[d] # KeyOf[c] /\ pc[d] = "create",
           \A d \in Chans : pc'[d] \in {"start", "create"} =>
                                d # c /\ pc[d] \in {"start", "create"},
           channel' = [channel EXCEPT ![c] = ch],
           topics' \in [Keys -> Chans \cup {None}],
           \A k \in Keys : topics'[k] = topics[k] \/ topics'[k] = ch,
           topicChannels' = topicChannels
    PROVE  Single'
  <1>1. channel'[c] = ch /\ \A d \in Chans : d # c => channel'[d] = channel[d]
    BY DEF Typed
  <1>2. channel'[ch] = ch
    BY <1>1
  <1>3. \A d \in Chans : channel[d] # None => d # c /\ channel[d] \in Chans /\ channel[d] # c
    BY DEF Single, Typed
  <1>4. \A d \in Chans : channel'[d] # None => channel'[channel'[d]] = channel'[d]
    BY <1>1, <1>2, <1>3 DEF Single
  <1>5. \A k \in Keys : topics'[k] # None => channel'[topics'[k]] = topics'[k]
    BY <1>1, <1>2, <1>3 DEF Single, Typed
  <1>6. \A k \in Keys : topicChannels'[k] # None =>
            channel'[topicChannels'[k]] = topicChannels'[k]
    BY <1>1, <1>2, <1>3 DEF Single, Typed
  <1>7. \A d \in Chans : pc'[d] \in {"start", "create"} => channel'[d] = None
    BY <1>1 DEF Single
  <1>8. \A d \in Calls : pc'[d] = "create" =>
          \A e \in Chans : KeyOf[e] = KeyOf[d] => channel'[e] = None
    BY <1>1 DEF Single
  <1>9. ASSUME NEW d \in Chans, NEW e \in Chans, KeyOf[d] = KeyOf[e],
               channel'[d] # None, channel'[e] # None
        PROVE  channel'[d] = channel'[e]
    <2>1. CASE KeyOf[d] = KeyOf[c]
      BY <1>1, <1>9, <2>1
    <2>2. CASE KeyOf[d] # KeyOf[c]
      BY <1>1, <1>9, <2>2 DEF Single
    <2> QED BY <2>1, <2>2
  <1> QED BY <1>4, <1>5, <1>6, <1>7, <1>8, <1>9 DEF Single

LEMMA SingleStep ==
    ASSUME OneCallerPerKey, MInv, [Next]_vars PROVE Single'
  <1> USE KeyTyping
  <1>0. Typed /\ TypeInv /\ IInv /\ KeyInv /\ Single /\ Agree /\ Ordered
    BY DEF MInv, IInv, TypeInv
  <1>t. Typed'
    BY <1>0, TypeInvStep DEF TypeInv
  \* A call that has not returned has the key to itself.
  <1>a. ASSUME NEW c \in Calls, pc[c] = "create", NEW d \in Chans, d # c,
               KeyOf[d] = KeyOf[c]
        PROVE  pc[d] # "create" /\ ~Called(d)
    BY <1>0, <1>a DEF OneCallerPerKey, Ordered, Called, Chans, Returned
  <1>s. ASSUME UNCHANGED <<channel, topicChannels>>,
               \A k \in Keys : topics'[k] \in {topics[k], None},
               \A d \in Chans : pc'[d] \in {"start", "create"} =>
                                    pc[d] \in {"start", "create"},
               \A d \in Calls : pc'[d] = "create" => pc[d] = "create"
        PROVE  Single'
    BY <1>0, <1>s DEF Single
  <1>1. ASSUME NEW c \in Calls, PublishStart(c) PROVE Single'
    <2> DEFINE found == topics[KeyOf[c]]
    <2>0. c \in Chans /\ pc[c] = "start" /\ Called(c) /\ KeyOf[c] \in Keys
          /\ UNCHANGED <<topics, topicChannels>>
      BY <1>1 DEF PublishStart, Called, Chans, subVars
    <2>1. CASE UNCHANGED channel /\ Return(c, "refused")
      <3>1. /\ \A d \in Chans : pc'[d] = pc[d] \/ (d = c /\ pc'[d] = "refused")
        BY <1>0, <2>0, <2>1 DEF Return, Typed
      <3> QED BY <1>s, <2>0, <2>1, <3>1 DEF Chans
    <2>2. CASE UNCHANGED channel /\ Return(c, "create") /\ found = None /\ ~closed
      <3>1. \A d \in Chans : pc'[d] = pc[d] \/ d = c
        BY <1>0, <2>0, <2>2 DEF Return, Typed
      <3>2. \A d \in Chans : KeyOf[d] = KeyOf[c] => channel[d] = None
        BY <1>0, <2>2 DEF Agree
      <3> QED BY <1>0, <2>0, <2>2, <3>1, <3>2 DEF Single, Chans
    <2>3. CASE ~closed /\ found # None /\ channel' = [channel EXCEPT ![c] = found]
               /\ Select(c, found)
      <3>1. \A d \in Chans : pc'[d] = pc[d] \/ (d = c /\ pc'[d] \in Returned)
        BY <1>0, <2>0, <2>3 DEF Select, Return, Typed, Returned
      <3>2. /\ channel[c] = None /\ found \in Chans /\ KeyOf[found] = KeyOf[c]
            /\ channel[found] = found
        BY <1>0, <2>0, <2>3 DEF Single, KeyInv, Typed
      <3>3. \A d \in Chans : KeyOf[d] = KeyOf[c] => channel[d] \in {None, found}
        BY <1>0, <2>3 DEF Agree
      <3>4. \A d \in Calls : pc'[d] = "create" => KeyOf[d] # KeyOf[c] /\ pc[d] = "create"
        BY <1>a, <2>0, <3>1 DEF Chans, Returned
      <3>5. \A d \in Chans : pc'[d] \in {"start", "create"} =>
                                d # c /\ pc[d] \in {"start", "create"}
        <4>1. pc'[c] \in Returned
          BY <1>0, <2>0, <2>3 DEF Select, Return, Typed, Returned
        <4> QED BY <3>1, <4>1 DEF Returned
      <3>6. /\ topics' \in [Keys -> Chans \cup {None}]
            /\ \A k \in Keys : topics'[k] = topics[k]
        BY <1>t, <2>0 DEF Typed
      <3> HIDE DEF found
      <3> QED BY <1>0, <2>0, <2>3, <3>2, <3>3, <3>4, <3>5, <3>6, TakeSingle
    <2> QED BY <1>1, <2>1, <2>2, <2>3 DEF PublishStart
  <1>2. ASSUME NEW c \in Calls, PublishCreate(c) PROVE Single'
    <2>0. c \in Chans /\ pc[c] = "create" /\ KeyOf[c] \in Keys
      BY <1>2 DEF PublishCreate, Chans
    <2>1. \A d \in Chans : pc'[d] = IF d = c THEN "send" ELSE pc[d]
      BY <1>0, <1>2, <2>0 DEF PublishCreate, Return, Typed
    <2>2. \A d \in Chans : KeyOf[d] = KeyOf[c] => channel[d] = None
      BY <1>0, <2>0 DEF Single
    <2>3. \A d \in Calls : pc'[d] = "create" => KeyOf[d] # KeyOf[c] /\ pc[d] = "create"
      BY <1>a, <2>0, <2>1 DEF Chans
    <2>4. \A d \in Chans : pc'[d] \in {"start", "create"} =>
                              d # c /\ pc[d] \in {"start", "create"}
      BY <2>1
    <2>5. /\ channel' = [channel EXCEPT ![c] = c] /\ topicChannels' = topicChannels
          /\ topics' \in [Keys -> Chans \cup {None}]
          /\ \A k \in Keys : topics'[k] = topics[k] \/ topics'[k] = c
      BY <1>0, <1>t, <1>2 DEF PublishCreate, subVars, Typed
    <2> QED BY <1>0, <2>0, <2>2, <2>3, <2>4, <2>5, TakeSingle
  <1>3. ASSUME NEW c \in Calls, PublishSend(c) PROVE Single'
    <2>1. \A d \in Chans : pc'[d] = pc[d] \/ (d = c /\ pc'[d] \in Returned)
      BY <1>0, <1>3 DEF PublishSend, Select, Return, Typed, Returned, Chans
    <2>2. UNCHANGED <<channel, topics, topicChannels>>
      BY <1>3 DEF PublishSend, subVars
    <2> QED BY <1>s, <2>1, <2>2 DEF Chans, Returned
  <1>4. ASSUME NEW s \in Subscribers, Subscribe(s) PROVE Single'
    <2> DEFINE ch == IF topics[KeyOf[s]] = None THEN s ELSE topics[KeyOf[s]]
    <2>0. s \in Chans /\ pc[s] = "start" /\ Called(s) /\ KeyOf[s] \in Keys
          /\ UNCHANGED topicChannels
      BY <1>4 DEF Subscribe, Called, Chans, subVars
    <2>1. CASE UNCHANGED <<topics, channel>> /\ Return(s, "refused")
      <3>1. \A d \in Chans : pc'[d] = pc[d] \/ (d = s /\ pc'[d] = "refused")
        BY <1>0, <2>0, <2>1 DEF Return, Typed
      <3> QED BY <1>s, <2>0, <2>1, <3>1 DEF Chans
    <2>2. CASE /\ ~closed /\ topics' = [topics EXCEPT ![KeyOf[s]] = ch]
               /\ channel' = [channel EXCEPT ![s] = ch] /\ Return(s, "ok")
      <3>1. \A d \in Chans : pc'[d] = IF d = s THEN "ok" ELSE pc[d]
        BY <1>0, <2>0, <2>2 DEF Return, Typed
      <3>2. /\ channel[s] = None /\ ch \in Chans /\ KeyOf[ch] = KeyOf[s]
            /\ ch = s \/ channel[ch] = ch
        BY <1>0, <2>0, <2>2 DEF Single, KeyInv, Typed
      <3>3. \A d \in Chans : KeyOf[d] = KeyOf[s] => channel[d] \in {None, ch}
        BY <1>0, <2>2 DEF Agree
      <3>4. \A d \in Calls : pc'[d] = "create" => KeyOf[d] # KeyOf[s] /\ pc[d] = "create"
        BY <1>a, <2>0, <3>1, NamesAssumption DEF Chans
      <3>5. \A d \in Chans : pc'[d] \in {"start", "create"} =>
                                d # s /\ pc[d] \in {"start", "create"}
        BY <3>1
      <3>6. /\ topics' \in [Keys -> Chans \cup {None}]
            /\ \A k \in Keys : topics'[k] = topics[k] \/ topics'[k] = ch
        BY <1>0, <1>t, <2>2 DEF Typed
      <3> HIDE DEF ch
      <3> QED BY <1>0, <2>0, <2>2, <3>2, <3>3, <3>4, <3>5, <3>6, TakeSingle
    <2> QED BY <1>4, <2>1, <2>2 DEF Subscribe
  <1>5. CASE Poll
    <2>1. UNCHANGED <<topics, pc, channel>>
          /\ \A k \in Keys : topicChannels'[k] \in {topicChannels[k], topics[k]}
      BY <1>5 DEF Poll
    <2> QED BY <1>0, <2>1 DEF Single
  <1>6. CASE Close
    <2>1. UNCHANGED <<pc, channel, topicChannels>> /\ \A k \in Keys : topics'[k] = None
      BY <1>6 DEF Close, subVars
    <2> QED BY <1>s, <2>1
  <1>7. CASE UNCHANGED <<topics, pc, channel, topicChannels>>
    BY <1>0, <1>7 DEF Single
  <1>8. CASE \/ \E s \in Subscribers : SubscriberReceive(s)
             \/ SubscribeWildcard \/ ListenerReceive
             \/ \E k \in Keys : Forward(k)
             \/ UNCHANGED vars
    BY <1>7, <1>8 DEF SubscriberReceive, SubscribeWildcard, ListenerReceive, Forward,
       ForwarderReceive, ForwarderSend, subVars, vars
  <1> QED BY <1>1, <1>2, <1>3, <1>4, <1>5, <1>6, <1>8 DEF Next, Publish

LEMMA MInvInit == Init => MInv
  BY IInvInit, KeyInvInit, NamesAssumption DEF Init, MInv, Single, Chans

LEMMA MInvStep ==
    ASSUME OneCallerPerKey PROVE MInv /\ [Next]_vars => MInv'
  BY IInvStep, KeyInvStep, SingleStep DEF MInv

\* The subscribers that hold the channel of key k.
Holders(k) == {s \in Subscribers : KeyOf[s] = k /\ pc[s] = "ok"}

\* ReaderChan as a function of what it looks at.
Reader(forwarder, held, lost, found) ==
    IF forwarder # None THEN forwarder
    ELSE IF held # {} THEN CHOOSE ch \in held : TRUE
    ELSE IF lost THEN None
    ELSE found

LEMMA ReaderForm ==
    ASSUME NEW k \in Keys
    PROVE  /\ ReaderChan(k) =
                Reader(topicChannels[k], {channel[s] : s \in Holders(k)},
                       closed /\ ~(listening /\ k \in Matching), topics[k])
           /\ ReaderChan(k)' =
                Reader(topicChannels'[k], {channel'[s] : s \in Holders(k)'},
                       closed' /\ ~(listening' /\ k \in Matching), topics'[k])
  BY Zenon DEF ReaderChan, Holders, Reader

\* The readers of a key use its one channel, when there is one to use.
LEMMA ReaderIsSingle ==
    ASSUME MInv, NEW k \in Keys
    PROVE  /\ ReaderChan(k) \in Chans \cup {None}
           /\ ReaderChan(k) # None =>
                /\ KeyOf[ReaderChan(k)] = k /\ channel[ReaderChan(k)] = ReaderChan(k)
                /\ \A c \in Chans : KeyOf[c] = k /\ channel[c] # None =>
                                        channel[c] = ReaderChan(k)
           /\ ReaderChan(k) = None =>
                /\ topicChannels[k] = None /\ Holders(k) = {}
                /\ (closed /\ ~(listening /\ k \in Matching)) \/ topics[k] = None
  <1> DEFINE held == {channel[s] : s \in Holders(k)}
             R == ReaderChan(k)
  <1>0. Typed /\ TypeInv /\ KeyInv /\ Single
    BY DEF MInv, IInv, TypeInv
  <1>1. R = IF topicChannels[k] # None THEN topicChannels[k]
            ELSE IF held # {} THEN CHOOSE ch \in held : TRUE
            ELSE IF closed /\ ~(listening /\ k \in Matching) THEN None
            ELSE topics[k]
    BY ReaderForm, Zenon DEF Reader
  <1>2. \A s \in Holders(k) : s \in Chans /\ KeyOf[s] = k /\ channel[s] # None
    BY <1>0 DEF Holders, TypeInv, Chans
  <1>3. held # {} => \E s \in Holders(k) : (CHOOSE ch \in held : TRUE) = channel[s]
    <2> SUFFICES ASSUME held # {}
                 PROVE  \E s \in Holders(k) : (CHOOSE ch \in held : TRUE) = channel[s]
      OBVIOUS
    <2>1. (CHOOSE ch \in held : TRUE) \in held
      BY Zenon
    <2> QED BY <2>1
  <1>4. held = {} => Holders(k) = {}
    OBVIOUS
  <1> HIDE DEF R, held
  <1>5. R # None => /\ R \in Chans /\ KeyOf[R] = k /\ channel[R] = R
    <2>1. CASE topicChannels[k] # None
      BY <1>0, <1>1, <2>1 DEF Typed, KeyInv, Single
    <2>2. CASE topicChannels[k] = None /\ held # {}
      <3>1. PICK s \in Holders(k) : R = channel[s]
        BY <1>1, <1>3, <2>2
      <3>2. s \in Chans /\ KeyOf[s] = k /\ channel[s] # None
        BY <1>2
      <3>3. R \in Chans
        BY <1>0, <3>1, <3>2 DEF Typed
      <3>4. KeyOf[R] = k
        BY <1>0, <3>1, <3>2, Zenon DEF KeyInv
      <3>5. channel[R] = R
        BY <1>0, <3>1, <3>2, Zenon DEF Single
      <3> QED BY <3>3, <3>4, <3>5
    <2>3. CASE topicChannels[k] = None /\ held = {} /\ R = topics[k]
      BY <1>0, <2>3 DEF Typed, KeyInv, Single
    <2> QED BY <1>1, <2>1, <2>2, <2>3
  <1>6. R # None => \A c \in Chans : KeyOf[c] = k /\ channel[c] # None => channel[c] = R
    BY <1>0, <1>5, NamesAssumption DEF Single
  <1>7. R = None =>
            /\ topicChannels[k] = None /\ Holders(k) = {}
            /\ (closed /\ ~(listening /\ k \in Matching)) \/ topics[k] = None
    <2> SUFFICES ASSUME R = None
                 PROVE  /\ topicChannels[k] = None /\ Holders(k) = {}
                        /\ (closed /\ ~(listening /\ k \in Matching)) \/ topics[k] = None
      OBVIOUS
    <2>1. topicChannels[k] = None
      BY <1>1
    <2>2. held = {}
      <3> SUFFICES ASSUME held # {} PROVE FALSE
        OBVIOUS
      <3>1. PICK s \in Holders(k) : R = channel[s]
        BY <1>1, <1>3, <2>1
      <3> QED BY <1>2, <3>1
    <2> QED BY <1>1, <1>4, <2>1, <2>2
  <1> QED BY <1>5, <1>6, <1>7 DEF R

\* A step that touches nothing a reader looks at leaves it its channel.
LEMMA SameReader ==
    ASSUME NEW k \in Keys, topicChannels'[k] = topicChannels[k],
           \A s \in Subscribers : KeyOf[s] = k =>
               (pc'[s] = "ok" <=> pc[s] = "ok") /\ channel'[s] = channel[s],
           UNCHANGED <<closed, listening>>, topics'[k] = topics[k]
    PROVE  ReaderChan(k)' = ReaderChan(k) /\ Holders(k)' = Holders(k)
  <1>1. Holders(k)' = Holders(k)
    BY DEF Holders
  <1>2. {channel'[s] : s \in Holders(k)'} = {channel[s] : s \in Holders(k)}
    BY <1>1 DEF Holders
  <1> QED BY <1>1, <1>2, ReaderForm, Zenon

\* The parts of an abstract queue: in a forwarder's hand, in the channel.
InHand(k) == IF msg[k] = None THEN <<>> ELSE <<msg[k]>>
InBuffer(k) == IF ReaderChan(k) = None THEN <<>> ELSE buf[ReaderChan(k)]

LEMMA WaitingIs ==
    ASSUME NEW k \in Keys
    PROVE  /\ Waiting(k) = OfKey(wildcardChannel, k) \o InHand(k) \o InBuffer(k)
           /\ Waiting(k)' = OfKey(wildcardChannel', k) \o InHand(k)' \o InBuffer(k)'
  BY Zenon DEF Waiting, InHand, InBuffer, OfKey

LEMMA PartsTyping ==
    ASSUME MInv, NEW k \in Keys
    PROVE  /\ OfKey(wildcardChannel, k) \in Seq(Calls)
           /\ InHand(k) \in Seq(Calls)
           /\ InBuffer(k) \in Seq(Calls)
  <1>0. Typed
    BY DEF MInv, IInv, TypeInv
  <1>1. OfKey(wildcardChannel, k) \in Seq(Calls)
    BY <1>0, OfKeyTyping DEF Typed
  <1>2. InHand(k) \in Seq(Calls)
    BY <1>0 DEF Typed, InHand
  <1>3. InBuffer(k) \in Seq(Calls)
    BY <1>0, ReaderIsSingle DEF Typed, InBuffer
  <1> QED BY <1>1, <1>2, <1>3

\* A step that touches no part of a queue leaves it.
LEMMA SameWaiting ==
    ASSUME NEW k \in Keys, UNCHANGED wildcardChannel, msg'[k] = msg[k],
           InBuffer(k)' = InBuffer(k)
    PROVE  Waiting(k)' = Waiting(k)
  <1>1. InHand(k)' = InHand(k)
    BY DEF InHand
  <1> QED BY <1>1, WaitingIs

LEMMA NoElements ==
    ASSUME NEW S, NEW s \in Seq(S), DOMAIN s = {}
    PROVE  s = <<>>
  <1>1. Len(s) \in Nat /\ DOMAIN s = 1..Len(s)
    OBVIOUS
  <1>2. Len(s) = 0
    <2> SUFFICES ASSUME Len(s) # 0 PROVE FALSE
      OBVIOUS
    <2>1. 1 \in 1..Len(s)
      BY <1>1
    <2> QED BY <1>1, <2>1
  <1> QED BY <1>2

\* How the parts of a queue move on.
LEMMA JoinedSend ==
    ASSUME NEW S, NEW a \in Seq(S), NEW b \in Seq(S), NEW c \in Seq(S), NEW e \in S
    PROVE  (a \o b) \o Append(c, e) = Append((a \o b) \o c, e)
  OBVIOUS

LEMMA JoinedReceive ==
    ASSUME NEW S, NEW a \in Seq(S), NEW c \in Seq(S), c # <<>>
    PROVE  (a \o <<Head(c)>>) \o Tail(c) = (a \o <<>>) \o c
  OBVIOUS

LEMMA JoinedForward ==
    ASSUME NEW S, NEW a \in Seq(S), NEW c \in Seq(S), NEW e \in S
    PROVE  (Append(a, e) \o <<>>) \o c = (a \o <<e>>) \o c
  OBVIOUS

Accepted == {c \in Calls : pc[c] = "ok"}

\* The steps of the mailbox, queue by queue.
Stays == /\ UNCHANGED <<closed, delivered>> /\ Accepted' = Accepted
         /\ \A k \in Keys : Waiting(k)' = Waiting(k)

Puts(c) == /\ UNCHANGED <<closed, delivered>>
           /\ c \notin Accepted /\ Accepted' = Accepted \cup {c}
           /\ \/ \A k \in Keys : Waiting(k)' = IF k = KeyOf[c] THEN Append(Waiting(k), c)
                                               ELSE Waiting(k)
              \/ closed /\ \A k \in Keys : Waiting(k)' = Waiting(k)

Takes(k) == /\ UNCHANGED closed /\ Accepted' = Accepted
            /\ Waiting(k) # <<>> /\ delivered' = Append(delivered, Head(Waiting(k)))
            /\ \A j \in Keys : Waiting(j)' = IF j = k THEN Tail(Waiting(j)) ELSE Waiting(j)

Stops == /\ ~closed /\ closed' /\ UNCHANGED delivered /\ Accepted' = Accepted
         /\ \A k \in Keys : IsPrefix(Waiting(k)', Waiting(k))

\* The select of Publish (channel.go lines 62-73) puts the message in the
\* queue of its key or changes nothing.
LEMMA SelectPuts ==
    ASSUME MInv, NEW c \in Calls, NEW ch \in Chans, KeyOf[ch] = KeyOf[c], Select(c, ch),
           channel[ch] = ch, pc[c] # "ok", ~closed => topics[KeyOf[c]] # None,
           UNCHANGED <<topics, closed, delivered, subVars>>,
           \A s \in Subscribers : channel'[s] = channel[s]
    PROVE  Puts(c) \/ Stays
  <1> DEFINE K == KeyOf[c]
  <1>0. Typed /\ c \in Chans /\ c \notin Subscribers /\ K \in Keys
    BY KeyTyping, NamesAssumption DEF MInv, IInv, TypeInv, Chans
  <1>1. \A d \in Chans : d # c => pc'[d] = pc[d]
    BY <1>0 DEF Select, Return, Typed
  <1>2. UNCHANGED <<listening, topicChannels, msg, wildcardChannel>>
    BY DEF subVars
  <1>3. ASSUME NEW k \in Keys PROVE ReaderChan(k)' = ReaderChan(k)
    BY <1>0, <1>1, <1>2, SameReader DEF Chans
  <1>4. CASE UNCHANGED buf /\ pc'[c] # "ok"
    <2>1. ASSUME NEW k \in Keys PROVE Waiting(k)' = Waiting(k)
      <3>1. InBuffer(k)' = InBuffer(k)
        BY <1>3, <1>4 DEF InBuffer
      <3> QED BY <1>2, <3>1, SameWaiting
    <2>2. Accepted' = Accepted
      BY <1>1, <1>4 DEF Accepted, Chans
    <2> QED BY <2>1, <2>2 DEF Stays
  <1>5. CASE buf' = [buf EXCEPT ![ch] = Append(@, c)] /\ pc'[c] = "ok"
    <2>1. c \notin Accepted /\ Accepted' = Accepted \cup {c}
      BY <1>0, <1>1, <1>5 DEF Accepted, Chans
    <2>2. ASSUME NEW k \in Keys, k # K PROVE Waiting(k)' = Waiting(k)
      <3>1. ReaderChan(k) # None => ReaderChan(k) # ch /\ ReaderChan(k) \in Chans
        BY <2>2, ReaderIsSingle
      <3>2. InBuffer(k)' = InBuffer(k)
        BY <1>0, <1>3, <1>5, <3>1 DEF InBuffer, Typed
      <3> QED BY <1>2, <3>2, SameWaiting
    <2>3. CASE ReaderChan(K) = None
      <3>1. closed
        BY <1>0, <2>3, ReaderIsSingle
      <3>2. InBuffer(K)' = InBuffer(K)
        BY <1>0, <1>3, <2>3 DEF InBuffer
      <3>3. Waiting(K)' = Waiting(K)
        BY <1>0, <1>2, <3>2, SameWaiting
      <3> QED BY <2>1, <2>2, <3>1, <3>3 DEF Puts
    <2>4. CASE ReaderChan(K) # None
      <3>1. ReaderChan(K) = ch
        BY <1>0, <2>4, ReaderIsSingle, NamesAssumption
      <3>2. InBuffer(K)' = Append(InBuffer(K), c)
        BY <1>0, <1>3, <1>5, <2>4, <3>1 DEF InBuffer, Typed
      <3>3. InHand(K)' = InHand(K)
        BY <1>2 DEF InHand
      <3>4. Waiting(K)' = Append(Waiting(K), c)
        <4> DEFINE a == OfKey(wildcardChannel, K)
                   b == InHand(K)
                   d == InBuffer(K)
        <4>1. a \in Seq(Calls) /\ b \in Seq(Calls) /\ d \in Seq(Calls)
          BY <1>0, PartsTyping
        <4>2. Waiting(K) = (a \o b) \o d /\ Waiting(K)' = (a \o b) \o Append(d, c)
          BY <1>0, <1>2, <3>2, <3>3, WaitingIs
        <4> HIDE DEF a, b, d
        <4> QED BY <4>1, <4>2, JoinedSend
      <3> QED BY <2>1, <2>2, <3>4 DEF Puts
    <2> QED BY <2>3, <2>4
  <1>6. \/ UNCHANGED buf /\ pc'[c] # "ok"
        \/ buf' = [buf EXCEPT ![ch] = Append(@, c)] /\ pc'[c] = "ok"
    BY <1>0 DEF Select, Return, Typed
  <1> QED BY <1>4, <1>5, <1>6

LEMMA PublishPuts ==
    ASSUME MInv, NEW c \in Calls, Publish(c)
    PROVE  Puts(c) \/ Stays
  <1>0. /\ Typed /\ Agree /\ Single /\ KeyInv /\ TypeInv /\ Placed
        /\ c \in Chans /\ c \notin Subscribers /\ KeyOf[c] \in Keys
    BY KeyTyping, NamesAssumption DEF MInv, IInv, TypeInv, Chans
  <1>s. ASSUME UNCHANGED <<closed, delivered, subVars, buf>>,
               \A d \in Chans : d # c => pc'[d] = pc[d] /\ channel'[d] = channel[d],
               pc[c] # "ok", pc'[c] # "ok",
               \A k \in Keys : k # KeyOf[c] => topics'[k] = topics[k],
               InBuffer(KeyOf[c])' = InBuffer(KeyOf[c])
        PROVE  Stays
    <2>1. Accepted' = Accepted
      BY <1>0, <1>s DEF Accepted, Chans
    <2>2. UNCHANGED <<listening, topicChannels, msg, wildcardChannel>>
      BY <1>s DEF subVars
    <2>3. ASSUME NEW k \in Keys PROVE Waiting(k)' = Waiting(k)
      <3>1. CASE k = KeyOf[c]
        BY <1>0, <1>s, <2>2, <3>1, SameWaiting
      <3>2. CASE k # KeyOf[c]
        <4>1. ReaderChan(k)' = ReaderChan(k)
          BY <1>0, <1>s, <2>2, <3>2, SameReader DEF Chans
        <4>2. InBuffer(k)' = InBuffer(k)
          BY <1>s, <4>1 DEF InBuffer
        <4> QED BY <2>2, <4>2, SameWaiting
      <3> QED BY <3>1, <3>2
    <2> QED BY <1>s, <2>1, <2>3 DEF Stays
  <1>1. CASE PublishStart(c)
    <2> DEFINE found == topics[KeyOf[c]]
    <2>0. pc[c] = "start" /\ UNCHANGED <<topics, closed, delivered, subVars>>
      BY <1>1 DEF PublishStart, Called
    <2>1. CASE UNCHANGED <<buf, channel>> /\ (Return(c, "refused") \/ Return(c, "create"))
      <3>1. pc'[c] # "ok" /\ \A d \in Chans : d # c => pc'[d] = pc[d]
        BY <1>0, <2>1 DEF Return, Typed
      <3>2. ReaderChan(KeyOf[c])' = ReaderChan(KeyOf[c])
        BY <1>0, <2>0, <2>1, <3>1, SameReader DEF Chans, subVars
      <3>3. InBuffer(KeyOf[c])' = InBuffer(KeyOf[c])
        BY <2>1, <3>2 DEF InBuffer
      <3> QED BY <1>s, <2>0, <2>1, <3>1, <3>3
    <2>2. CASE ~closed /\ found # None /\ channel' = [channel EXCEPT ![c] = found]
               /\ Select(c, found)
      <3>1. found \in Chans /\ KeyOf[found] = KeyOf[c] /\ channel[found] = found
        BY <1>0, <2>2 DEF Typed, KeyInv, Single
      <3>2. \A s \in Subscribers : channel'[s] = channel[s]
        BY <1>0, <2>2 DEF Typed, Chans
      <3> QED BY <2>0, <2>2, <3>1, <3>2, SelectPuts
    <2> QED BY <1>1, <2>1, <2>2 DEF PublishStart
  <1>2. CASE PublishCreate(c)
    <2> DEFINE K == KeyOf[c]
    <2>0. /\ pc[c] = "create" /\ UNCHANGED <<closed, buf, delivered, subVars>>
          /\ topics' = [topics EXCEPT ![K] = c]
      BY <1>2 DEF PublishCreate
    <2>1. /\ pc'[c] # "ok"
          /\ \A d \in Chans : d # c => pc'[d] = pc[d] /\ channel'[d] = channel[d]
      BY <1>0, <1>2 DEF PublishCreate, Return, Typed
    <2>2. \A d \in Chans : KeyOf[d] = K => channel[d] = None
      BY <1>0, <2>0 DEF Single
    <2>3. ReaderChan(K) = None
      BY <1>0, <2>2, ReaderIsSingle
    <2>4. /\ topicChannels[K] = None /\ Holders(K) = {}
      BY <1>0, <2>3, ReaderIsSingle
    <2>5. /\ topicChannels'[K] = None /\ Holders(K)' = {} /\ topics'[K] = c
      BY <1>0, <2>0, <2>1, <2>4 DEF subVars, Holders, Typed, Chans
    <2>6. ReaderChan(K)' \in {None, c}
      <3>1. {channel'[s] : s \in Holders(K)'} = {}
        BY <2>5
      <3> QED BY <1>0, <2>5, <3>1, ReaderForm DEF Reader
    <2>7. buf[c] = <<>>
      <3>1. DOMAIN buf[c] = {}
        <4> SUFFICES ASSUME NEW i \in DOMAIN buf[c] PROVE FALSE
          OBVIOUS
        <4>1. /\ buf[c][i] \in Chans /\ channel[buf[c][i]] = c /\ KeyOf[buf[c][i]] = K
          BY <1>0 DEF Placed, KeyInv, Typed, Chans
        <4> QED BY <2>2, <4>1, <1>0, NamesAssumption
      <3>2. buf[c] \in Seq(Calls)
        BY <1>0 DEF Typed
      <3> QED BY <3>1, <3>2, NoElements
    <2>8. InBuffer(K)' = InBuffer(K)
      BY <1>0, <2>0, <2>3, <2>6, <2>7, NamesAssumption DEF InBuffer
    <2>9. \A k \in Keys : k # K => topics'[k] = topics[k]
      BY <1>0, <2>0 DEF Typed
    <2> QED BY <1>s, <2>0, <2>1, <2>8, <2>9
  <1>3. CASE PublishSend(c)
    <2>1. /\ channel[c] = c /\ pc[c] = "send" /\ Select(c, c)
          /\ UNCHANGED <<topics, closed, delivered, channel, subVars>>
      BY <1>0, <1>3 DEF PublishSend, TypeInv
    <2>2. ~closed => topics[KeyOf[c]] # None
      BY <1>0, <2>1, NamesAssumption DEF Agree
    <2> QED BY <1>0, <2>1, <2>2, SelectPuts
  <1> QED BY <1>1, <1>2, <1>3 DEF Publish

\* Subscribing, the wildcard Subscribe and the poller move no message
\* (channel.go lines 77-142): a reader that appears finds the channel that
\* holds what waits for it.
LEMMA SubscribeStays ==
    ASSUME MInv, NEW s \in Subscribers, Subscribe(s)
    PROVE  Stays
  <1> DEFINE K == KeyOf[s]
             ch == IF topics[K] = None THEN s ELSE topics[K]
  <1>0. /\ Typed /\ Agree /\ Single /\ KeyInv /\ TypeInv /\ Placed
        /\ s \in Chans /\ s \notin Calls /\ K \in Keys /\ pc[s] = "start"
    BY KeyTyping, NamesAssumption DEF MInv, IInv, TypeInv, Chans, Subscribe, Called
  <1>1. /\ UNCHANGED <<closed, buf, delivered>>
        /\ UNCHANGED <<listening, topicChannels, msg, wildcardChannel>>
    BY DEF Subscribe, subVars
  <1>2. /\ \A d \in Chans : d # s => pc'[d] = pc[d] /\ channel'[d] = channel[d]
        /\ \A k \in Keys : k # K => topics'[k] = topics[k]
    BY <1>0 DEF Subscribe, Return, Typed
  <1>3. Accepted' = Accepted
    BY <1>0, <1>2 DEF Accepted, Chans
  <1>4. ASSUME NEW k \in Keys, k # K PROVE ReaderChan(k)' = ReaderChan(k)
    BY <1>0, <1>1, <1>2, <1>4, SameReader DEF Chans
  <1>5. InBuffer(K)' = InBuffer(K)
    <2>1. CASE UNCHANGED <<topics, channel>> /\ Return(s, "refused")
      <3>1. pc'[s] = "refused"
        BY <1>0, <2>1 DEF Return, Typed
      <3>2. ReaderChan(K)' = ReaderChan(K)
        BY <1>0, <1>1, <1>2, <2>1, <3>1, SameReader DEF Chans
      <3> QED BY <1>1, <3>2 DEF InBuffer
    <2>2. CASE /\ ~closed /\ topics' = [topics EXCEPT ![K] = ch]
               /\ channel' = [channel EXCEPT ![s] = ch] /\ Return(s, "ok")
      <3>1. pc'[s] = "ok" /\ channel'[s] = ch /\ ch \in Chans /\ ch # None
        BY <1>0, <2>2, NamesAssumption DEF Return, Typed
      <3>2. s \in Holders(K)'
        BY <3>1 DEF Holders
      <3>3. \A d \in Chans : KeyOf[d] = K => channel[d] \in {None, ch}
        BY <1>0, <2>2 DEF Agree
      <3>4. \A d \in Holders(K)' : channel'[d] = ch
        BY <1>0, <1>2, <3>1, <3>3 DEF Holders, TypeInv, Chans
      <3>5. {channel'[d] : d \in Holders(K)'} = {ch}
        BY <3>2, <3>4
      <3>6. topicChannels[K] \in {None, ch}
        BY <1>0, <2>2 DEF Agree
      <3>7. ReaderChan(K)' = ch
        <4>1. topicChannels'[K] \in {None, ch}
          BY <1>1, <3>6
        <4>2. (CHOOSE x \in {ch} : TRUE) = ch
          OBVIOUS
        <4> HIDE DEF ch
        <4> QED BY <1>0, <3>5, <4>1, <4>2, ReaderForm, Zenon DEF Reader
      <3>8. CASE topics[K] = None
        <4>1. \A d \in Chans : KeyOf[d] = K => channel[d] = None
          BY <1>0, <2>2, <3>8 DEF Agree
        <4>2. ReaderChan(K) = None
          BY <1>0, <4>1, ReaderIsSingle
        <4>3. DOMAIN buf[s] = {}
          <5> SUFFICES ASSUME NEW i \in DOMAIN buf[s] PROVE FALSE
            OBVIOUS
          <5>1. /\ buf[s][i] \in Chans /\ channel[buf[s][i]] = s /\ KeyOf[buf[s][i]] = K
            BY <1>0 DEF Placed, KeyInv, Typed, Chans
          <5> QED BY <1>0, <4>1, <5>1, NamesAssumption
        <4>4. buf[s] = <<>>
          <5>1. buf[s] \in Seq(Calls)
            BY <1>0 DEF Typed
          <5> QED BY <4>3, <5>1, NoElements
        <4> QED BY <1>1, <3>1, <3>7, <3>8, <4>2, <4>4 DEF InBuffer
      <3>9. CASE topics[K] # None
        <4>1. ch = topics[K] /\ channel[ch] = ch /\ KeyOf[ch] = K
          BY <1>0, <3>9 DEF Single, KeyInv
        <4>2. ReaderChan(K) = ch
          BY <1>0, <2>2, <3>1, <3>9, <4>1, ReaderIsSingle
        <4> QED BY <1>1, <3>1, <3>7, <4>2 DEF InBuffer
      <3> QED BY <3>8, <3>9
    <2> QED BY <2>1, <2>2 DEF Subscribe
  <1>6. ASSUME NEW k \in Keys PROVE Waiting(k)' = Waiting(k)
    <2>1. InBuffer(k)' = InBuffer(k)
      BY <1>1, <1>4, <1>5 DEF InBuffer
    <2> QED BY <1>1, <2>1, SameWaiting
  <1> QED BY <1>1, <1>3, <1>6 DEF Stays

LEMMA ListenStays ==
    ASSUME MInv, SubscribeWildcard \/ Poll
    PROVE  Stays
  <1>0. Typed /\ Single /\ KeyInv
    BY DEF MInv, IInv, TypeInv
  <1>1. UNCHANGED <<topics, closed, buf, pc, channel, msg, wildcardChannel, delivered>>
    BY DEF SubscribeWildcard, Poll
  <1>2. Accepted' = Accepted
    BY <1>1 DEF Accepted
  <1>3. ASSUME NEW k \in Keys PROVE ReaderChan(k)' = ReaderChan(k)
    <2>0. /\ Holders(k)' = Holders(k)
          /\ {channel'[s] : s \in Holders(k)'} = {channel[s] : s \in Holders(k)}
      BY <1>1 DEF Holders
    <2>1. CASE SubscribeWildcard
      <3>1. ~closed /\ UNCHANGED topicChannels
        BY <2>1 DEF SubscribeWildcard
      <3> QED BY <1>1, <2>0, <3>1, ReaderForm, Zenon DEF Reader
    <2>2. CASE Poll /\ topicChannels'[k] = topicChannels[k]
      <3>1. UNCHANGED listening
        BY <2>2 DEF Poll
      <3> QED BY <1>1, <2>2, <3>1, SameReader
    <2>3. CASE Poll /\ topicChannels'[k] # topicChannels[k]
      <3>1. listening /\ k \in Matching /\ topicChannels'[k] = topics[k] /\ topics[k] # None
        BY <1>0, <2>3 DEF Poll, Typed
      <3>2. ReaderChan(k)' = topics[k]
        BY <3>1, ReaderForm, Zenon DEF Reader
      <3>3. ReaderChan(k) # None
        BY <3>1, ReaderIsSingle
      <3>4. topics[k] \in Chans /\ KeyOf[topics[k]] = k /\ channel[topics[k]] = topics[k]
        BY <1>0, <3>1 DEF Typed, KeyInv, Single
      <3>5. ReaderChan(k) = topics[k]
        BY <3>1, <3>3, <3>4, ReaderIsSingle
      <3> QED BY <3>2, <3>5
    <2> QED BY <2>1, <2>2, <2>3
  <1>4. ASSUME NEW k \in Keys PROVE Waiting(k)' = Waiting(k)
    <2>1. InBuffer(k)' = InBuffer(k)
      BY <1>1, <1>3 DEF InBuffer
    <2> QED BY <1>1, <2>1, SameWaiting
  <1> QED BY <1>1, <1>2, <1>4 DEF Stays

\* A receive from the channel ch takes from the queue of its key only.
LEMMA OtherBuffers ==
    ASSUME MInv, NEW ch \in Chans, buf' = [buf EXCEPT ![ch] = Tail(@)],
           UNCHANGED <<topics, closed, pc, channel, listening, topicChannels>>,
           NEW k \in Keys
    PROVE  /\ ReaderChan(k)' = ReaderChan(k)
           /\ k # KeyOf[ch] => InBuffer(k)' = InBuffer(k)
           /\ ReaderChan(k) = ch => InBuffer(k) = buf[ch] /\ InBuffer(k)' = Tail(buf[ch])
  <1>0. Typed
    BY DEF MInv, IInv, TypeInv
  <1>1. ReaderChan(k)' = ReaderChan(k)
    BY SameReader
  <1>2. /\ ReaderChan(k) \in Chans \cup {None}
        /\ ReaderChan(k) # None => KeyOf[ReaderChan(k)] = k
    BY ReaderIsSingle
  <1>3. ch # None
    BY NamesAssumption
  <1>4. \A x \in Chans : buf'[x] = IF x = ch THEN Tail(buf[ch]) ELSE buf[x]
    BY <1>0 DEF Typed
  <1> QED BY <1>1, <1>2, <1>3, <1>4 DEF InBuffer

\* A forwarder moves the oldest message of the channel into its hand, and
\* from there behind the others of its key (channel.go lines 108-116).
LEMMA ForwardStays ==
    ASSUME MInv, NEW k \in Keys, Forward(k)
    PROVE  Stays
  <1>0. Typed /\ KeyInv
    BY DEF MInv, IInv, TypeInv
  <1> DEFINE a == OfKey(wildcardChannel, k)
             d == InBuffer(k)
  <1>t. a \in Seq(Calls) /\ d \in Seq(Calls)
    BY PartsTyping
  <1>1. CASE ForwarderReceive(k)
    <2> DEFINE ch == topicChannels[k]
    <2>1. /\ ch # None /\ msg[k] = None /\ buf[ch] # <<>>
          /\ msg' = [msg EXCEPT ![k] = Head(buf[ch])]
          /\ buf' = [buf EXCEPT ![ch] = Tail(@)]
          /\ UNCHANGED <<topics, closed, pc, channel, listening, topicChannels>>
          /\ UNCHANGED <<wildcardChannel, delivered>>
      BY <1>1 DEF ForwarderReceive
    <2>2. ch \in Chans /\ KeyOf[ch] = k
      BY <1>0, <2>1 DEF Typed, KeyInv
    <2>3. ReaderChan(k) = ch
      BY <2>1, ReaderForm, Zenon DEF Reader
    <2>h. buf[ch] \in Seq(Calls) /\ Head(buf[ch]) \in Calls
      BY <1>0, <2>1, <2>2, BufferTyping DEF Typed
    <2> HIDE DEF ch
    <2>4. d = buf[ch] /\ InBuffer(k)' = Tail(buf[ch])
      BY <2>1, <2>2, <2>3, OtherBuffers
    <2>5. InHand(k) = <<>> /\ InHand(k)' = <<Head(buf[ch])>>
      <3>1. msg'[k] = Head(buf[ch]) /\ msg'[k] # None
        BY <1>0, <2>1, <2>h, NamesAssumption DEF Typed, Chans
      <3> QED BY <2>1, <3>1 DEF InHand
    <2>6. Waiting(k)' = Waiting(k)
      <3>1. /\ Waiting(k) = (a \o <<>>) \o d
            /\ Waiting(k)' = (a \o <<Head(d)>>) \o Tail(d)
        BY <2>1, <2>4, <2>5, WaitingIs
      <3>2. d # <<>>
        BY <2>1, <2>4
      <3> HIDE DEF a, d
      <3>3. (a \o <<Head(d)>>) \o Tail(d) = (a \o <<>>) \o d
        BY <1>t, <3>2, JoinedReceive
      <3> QED BY <3>1, <3>3
    <2>7. ASSUME NEW j \in Keys, j # k PROVE Waiting(j)' = Waiting(j)
      <3>1. InBuffer(j)' = InBuffer(j)
        BY <2>1, <2>2, <2>7, OtherBuffers
      <3>2. msg'[j] = msg[j]
        BY <1>0, <2>1, <2>7 DEF Typed
      <3> QED BY <2>1, <3>1, <3>2, SameWaiting
    <2>8. Accepted' = Accepted
      BY <2>1 DEF Accepted
    <2> QED BY <2>1, <2>6, <2>7, <2>8 DEF Stays
  <1>2. CASE ForwarderSend(k)
    <2>1. /\ msg[k] # None /\ wildcardChannel' = Append(wildcardChannel, msg[k])
          /\ msg' = [msg EXCEPT ![k] = None]
          /\ UNCHANGED <<topics, closed, buf, pc, channel, listening, topicChannels, delivered>>
      BY <1>2 DEF ForwarderSend
    <2>2. msg[k] \in Calls /\ KeyOf[msg[k]] = k /\ wildcardChannel \in Seq(Calls)
      BY <1>0, <2>1 DEF Typed, KeyInv
    <2>3. ASSUME NEW j \in Keys PROVE InBuffer(j)' = InBuffer(j)
      <3>1. ReaderChan(j)' = ReaderChan(j)
        BY <2>1, SameReader
      <3> QED BY <2>1, <3>1 DEF InBuffer
    <2>4. ASSUME NEW j \in Keys
          PROVE  OfKey(wildcardChannel', j) = More(OfKey(wildcardChannel, j), msg[k], j)
      BY <2>1, <2>2, OfKeyAppend
    <2>5. Waiting(k)' = Waiting(k)
      <3>1. InHand(k) = <<msg[k]>> /\ InHand(k)' = <<>>
        BY <1>0, <2>1 DEF InHand, Typed
      <3>2. OfKey(wildcardChannel', k) = Append(a, msg[k])
        BY <2>2, <2>4 DEF More
      <3>3. /\ Waiting(k) = (a \o <<msg[k]>>) \o d
            /\ Waiting(k)' = (Append(a, msg[k]) \o <<>>) \o d
        BY <2>3, <3>1, <3>2, WaitingIs
      <3> DEFINE m == msg[k]
      <3>m. m \in Calls
        BY <2>2
      <3> HIDE DEF a, d, m
      <3>4. (Append(a, m) \o <<>>) \o d = (a \o <<m>>) \o d
        BY <1>t, <3>m, JoinedForward
      <3> QED BY <3>3, <3>4 DEF m
    <2>6. ASSUME NEW j \in Keys, j # k PROVE Waiting(j)' = Waiting(j)
      <3>1. OfKey(wildcardChannel', j) = OfKey(wildcardChannel, j)
        BY <2>2, <2>4, <2>6 DEF More
      <3>2. InHand(j)' = InHand(j)
        BY <1>0, <2>1, <2>6 DEF Typed, InHand
      <3> QED BY <2>3, <3>1, <3>2, WaitingIs
    <2>7. Accepted' = Accepted
      BY <2>1 DEF Accepted
    <2> QED BY <2>1, <2>5, <2>6, <2>7 DEF Stays
  <1> QED BY <1>1, <1>2 DEF Forward

\* Every receive of a reader takes the oldest message of some key.
LEMMA ReceiveTakes ==
    ASSUME MInv, SeparateReaders,
           ListenerReceive \/ \E s \in Subscribers : SubscriberReceive(s)
    PROVE  \E k \in Keys : Takes(k)
  <1>0. Typed /\ KeyInv /\ TypeInv
    BY DEF MInv, IInv, TypeInv
  <1>1. CASE ListenerReceive
    <2> DEFINE w == wildcardChannel
               m == Head(w)
    <2>1. /\ w # <<>> /\ delivered' = Append(delivered, m) /\ wildcardChannel' = Tail(w)
          /\ UNCHANGED <<topics, closed, buf, pc, channel, listening, topicChannels, msg>>
      BY <1>1 DEF ListenerReceive
    <2>2. w \in Seq(Calls) /\ m \in Calls /\ KeyOf[m] \in Keys
      BY <1>0, <2>1, BufferTyping, KeyTyping DEF Typed, Chans
    <2>k. PICK K \in Keys : K = KeyOf[m]
      BY <2>2
    <2>3. ASSUME NEW k \in Keys
          PROVE  /\ InBuffer(k)' = InBuffer(k) /\ InHand(k)' = InHand(k)
                 /\ OfKey(w, k) = More(<<>>, m, k) \o OfKey(wildcardChannel', k)
                 /\ OfKey(wildcardChannel', k) \in Seq(Calls)
                 /\ InHand(k) \in Seq(Calls) /\ InBuffer(k) \in Seq(Calls)
      <3>1. ReaderChan(k)' = ReaderChan(k)
        BY <2>1, SameReader
      <3>2. InBuffer(k)' = InBuffer(k) /\ InHand(k)' = InHand(k)
        BY <2>1, <3>1 DEF InBuffer, InHand
      <3>3. OfKey(w, k) = More(<<>>, m, k) \o OfKey(wildcardChannel', k)
        BY <2>1, <2>2, OfKeyTail
      <3>4. Tail(w) \in Seq(Calls)
        BY <2>1, <2>2
      <3>5. OfKey(wildcardChannel', k) \in Seq(Calls)
        BY <2>1, <3>4, OfKeyTyping
      <3> QED BY <3>2, <3>3, <3>5, PartsTyping
    <2> HIDE DEF w, m
    <2>4. Waiting(K) # <<>> /\ Head(Waiting(K)) = m /\ Waiting(K)' = Tail(Waiting(K))
      <3> DEFINE a == OfKey(wildcardChannel', K)
                 b == InHand(K)
                 d == InBuffer(K)
      <3>1. a \in Seq(Calls) /\ b \in Seq(Calls) /\ d \in Seq(Calls)
        BY <2>2, <2>3
      <3>2. OfKey(wildcardChannel, K) = <<m>> \o a
        <4>1. More(<<>>, m, K) = <<m>>
          BY <2>2, <2>k DEF More
        <4> QED BY <2>3, <4>1 DEF w
      <3>3. /\ Waiting(K) = ((<<m>> \o a) \o b) \o d
            /\ Waiting(K)' = (a \o b) \o d
        BY <2>3, <3>2, WaitingIs
      <3> HIDE DEF a, b, d
      <3>4. /\ ((<<m>> \o a) \o b) \o d # <<>>
            /\ Head(((<<m>> \o a) \o b) \o d) = m
            /\ Tail(((<<m>> \o a) \o b) \o d) = (a \o b) \o d
        <4>1. m \in Calls
          BY <2>2
        <4>2. ((<<m>> \o a) \o b) \o d # <<>>
          BY <3>1, <4>1
        <4>3. Head(((<<m>> \o a) \o b) \o d) = m
          BY <3>1, <4>1
        <4>4. Tail(((<<m>> \o a) \o b) \o d) = (a \o b) \o d
          BY <3>1, <4>1
        <4> QED BY <4>2, <4>3, <4>4
      <3> QED BY <3>3, <3>4
    <2>5. ASSUME NEW k \in Keys, k # K PROVE Waiting(k)' = Waiting(k)
      <3> DEFINE a == OfKey(wildcardChannel', k)
      <3>1. OfKey(wildcardChannel, k) = <<>> \o a
        BY <2>3, <2>5, <2>k DEF More, w
      <3>2. a \in Seq(Calls)
        BY <2>3
      <3> HIDE DEF a
      <3>3. <<>> \o a = a
        BY <3>2
      <3>4. OfKey(wildcardChannel, k) = OfKey(wildcardChannel', k)
        BY <3>1, <3>3 DEF a
      <3> QED BY <2>3, <3>4, WaitingIs
    <2>6. Accepted' = Accepted
      BY <2>1 DEF Accepted
    <2>7. Takes(K)
      BY <2>1, <2>4, <2>5, <2>6 DEF Takes
    <2> QED BY <2>7
  <1>2. ASSUME NEW s \in Subscribers, SubscriberReceive(s) PROVE \E k \in Keys : Takes(k)
    <2> DEFINE ch == channel[s]
               K == KeyOf[s]
    <2>1. /\ pc[s] = "ok" /\ buf[ch] # <<>>
          /\ delivered' = Append(delivered, Head(buf[ch]))
          /\ buf' = [buf EXCEPT ![ch] = Tail(@)]
          /\ UNCHANGED <<topics, closed, pc, channel, listening, topicChannels>>
          /\ UNCHANGED <<msg, wildcardChannel>>
      BY <1>2 DEF SubscriberReceive, subVars
    <2>2. /\ s \in Chans /\ K \in Keys /\ ch # None /\ ch \in Chans /\ KeyOf[ch] = K
          /\ K \notin Matching
      BY <1>0, <2>1, KeyTyping DEF TypeInv, Typed, KeyInv, Chans, SeparateReaders
    <2>3. ReaderChan(K) = ch
      <3>1. s \in Holders(K)
        BY <2>1 DEF Holders
      <3>2. ReaderChan(K) # None
        BY <2>2, <3>1, ReaderIsSingle
      <3> QED BY <2>2, <3>2, ReaderIsSingle
    <2> HIDE DEF ch
    <2>4. InBuffer(K) = buf[ch] /\ InBuffer(K)' = Tail(buf[ch])
      BY <2>1, <2>2, <2>3, OtherBuffers
    <2>5. OfKey(wildcardChannel, K) = <<>>
      <3>1. \A i \in DOMAIN wildcardChannel : KeyOf[wildcardChannel[i]] # K
        BY <1>0, <2>2 DEF KeyInv
      <3> QED BY <1>0, <3>1, OfKeyNone DEF Typed
    <2>6. InHand(K) = <<>> /\ InHand(K)' = <<>>
      BY <1>0, <2>1, <2>2 DEF InHand, KeyInv
    <2>7. Waiting(K) = buf[ch] /\ Waiting(K)' = Tail(buf[ch])
      <3>1. buf[ch] \in Seq(Calls) /\ Tail(buf[ch]) \in Seq(Calls)
        BY <1>0, <2>1, <2>2 DEF Typed
      <3>2. /\ (<<>> \o <<>>) \o buf[ch] = buf[ch]
            /\ (<<>> \o <<>>) \o Tail(buf[ch]) = Tail(buf[ch])
        BY <3>1
      <3> QED BY <2>1, <2>2, <2>4, <2>5, <2>6, <3>2, WaitingIs
    <2>8. ASSUME NEW k \in Keys, k # K PROVE Waiting(k)' = Waiting(k)
      <3>1. InBuffer(k)' = InBuffer(k)
        BY <2>1, <2>2, <2>8, OtherBuffers
      <3> QED BY <2>1, <3>1, SameWaiting
    <2>9. Accepted' = Accepted
      BY <2>1 DEF Accepted
    <2>10. Takes(K)
      BY <2>1, <2>7, <2>8, <2>9 DEF Takes
    <2> QED BY <2>2, <2>10
  <1> QED BY <1>1, <1>2

\* Close (channel.go lines 145-166) cuts off what no reader can find.
LEMMA CloseStops ==
    ASSUME MInv, Close
    PROVE  Stops
  <1>1. /\ ~closed /\ closed' /\ topics' = [k \in Keys |-> None]
        /\ UNCHANGED <<buf, pc, channel, delivered, topicChannels, msg, wildcardChannel>>
    BY DEF Close, subVars
  <1>2. ASSUME NEW k \in Keys PROVE IsPrefix(Waiting(k)', Waiting(k))
    <2> DEFINE a == OfKey(wildcardChannel, k)
               b == InHand(k)
               d == InBuffer(k)
    <2>1. a \in Seq(Calls) /\ b \in Seq(Calls) /\ d \in Seq(Calls)
      BY PartsTyping
    <2>2. ReaderChan(k)' \in {None, ReaderChan(k)}
      <3>1. {channel'[s] : s \in Holders(k)'} = {channel[s] : s \in Holders(k)}
        BY <1>1 DEF Holders
      <3>2. topics'[k] = None /\ topicChannels'[k] = topicChannels[k]
        BY <1>1
      <3> QED BY <3>1, <3>2, ReaderForm, Zenon DEF Reader
    <2>3. InBuffer(k)' = <<>> \/ InBuffer(k)' = d
      BY <1>1, <2>2 DEF InBuffer
    <2>4. InHand(k)' = b
      BY <1>1 DEF InHand
    <2>5. Waiting(k) = (a \o b) \o d /\ Waiting(k)' = (a \o b) \o InBuffer(k)'
      BY <1>1, <2>4, WaitingIs
    <2> HIDE DEF a, b, d
    <2>6. IsPrefix((a \o b) \o <<>>, (a \o b) \o d) /\ IsPrefix((a \o b) \o d, (a \o b) \o d)
      BY <2>1 DEF IsPrefix
    <2> QED BY <2>3, <2>5, <2>6
  <1>3. Accepted' = Accepted
    BY <1>1 DEF Accepted
  <1> QED BY <1>1, <1>2, <1>3 DEF Stops

\* The safety part of ImplementsMailbox for any number of calls, keys and
\* subscribers and any capacity: what Publish accepts waits in the queue of
\* its key, is handed over once and in order, through channels, poller and
\* forwarders, and only Close cuts queues short (channel.go).
THEOREM BrokerIsMailbox ==
    ASSUME OneCallerPerKey, SeparateReaders PROVE Spec => Abstract!Spec
  <1> DEFINE Q == [k \in Keys |-> Waiting(k)]
  <1>1. Init => Abstract!Init
    <2> SUFFICES ASSUME Init PROVE Abstract!Init
      OBVIOUS
    <2>1. ASSUME NEW k \in Keys PROVE Waiting(k) = <<>>
      <3>1. ReaderChan(k) = None
        <4>1. /\ topicChannels[k] = None /\ topics[k] = None /\ Holders(k) = {}
          BY DEF Init, Holders, Chans
        <4>2. {channel[s] : s \in Holders(k)} = {}
          BY <4>1
        <4> QED BY <4>1, <4>2, ReaderForm, Zenon DEF Reader
      <3>2. InHand(k) = <<>> /\ InBuffer(k) = <<>>
        BY <3>1 DEF Init, InHand, InBuffer
      <3>3. OfKey(<<>>, k) = <<>>
        <4>1. <<>> \in Seq(Calls) /\ \A i \in DOMAIN <<>> : KeyOf[<<>>[i]] # k
          OBVIOUS
        <4> QED BY <4>1, OfKeyNone
      <3>4. OfKey(wildcardChannel, k) = <<>>
        BY <3>3 DEF Init
      <3>5. Waiting(k) = (<<>> \o <<>>) \o <<>>
        BY <3>2, <3>4, WaitingIs
      <3> QED BY <3>5
    <2>2. Q = [k \in Keys |-> <<>>]
      BY <2>1
    <2>3. {c \in Calls : pc[c] = "ok"} = {} /\ closed = FALSE /\ delivered = <<>>
      BY DEF Init, Chans
    <2> QED BY <2>2, <2>3 DEF Abstract!Init
  <1>2. MInv /\ [Next]_vars => [Abstract!Next]_Abstract!vars
    <2> SUFFICES ASSUME MInv, [Next]_vars PROVE Abstract!Next \/ UNCHANGED Abstract!vars
      OBVIOUS
    <2>0. /\ \A k \in Keys : Q[k] = Waiting(k) /\ Q'[k] = Waiting(k)'
          /\ Q = [k \in Keys |-> Q[k]] /\ Q' = [k \in Keys |-> Q'[k]]
          /\ DOMAIN Q' = Keys
      OBVIOUS
    <2>1. ASSUME Stays PROVE UNCHANGED Abstract!vars
      <3>1. Q' = Q
        BY <2>0, <2>1 DEF Stays
      <3> QED BY <2>1, <3>1 DEF Stays, Abstract!vars, Accepted
    <2>2. ASSUME NEW c \in Calls, Puts(c) PROVE Abstract!Put(c)
      <3>0. KeyOf[c] \in Keys
        BY KeyTyping DEF Chans
      <3>1. Q' = [Q EXCEPT ![KeyOf[c]] = Append(@, c)] \/ (closed /\ Q' = Q)
        <4>1. CASE closed /\ \A k \in Keys : Waiting(k)' = Waiting(k)
          BY <2>0, <4>1
        <4>2. CASE \A k \in Keys : Waiting(k)' = IF k = KeyOf[c] THEN Append(Waiting(k), c)
                                                 ELSE Waiting(k)
          <5>1. \A k \in Keys : Q'[k] = IF k = KeyOf[c] THEN Append(Q[k], c) ELSE Q[k]
            BY <2>0, <4>2
          <5> HIDE DEF Q
          <5>2. DOMAIN Q = Keys /\ Q = [k \in Keys |-> Q[k]] /\ Q' = [k \in Keys |-> Q'[k]]
            BY <2>0
          <5> QED BY <3>0, <5>1, <5>2
        <4> QED BY <2>2, <4>1, <4>2 DEF Puts
      <3> QED BY <2>2, <3>1 DEF Puts, Abstract!Put, Accepted
    <2>3. ASSUME NEW k \in Keys, Takes(k) PROVE Abstract!Take(k)
      <3>1. Q' = [Q EXCEPT ![k] = Tail(@)]
        <4>1. \A j \in Keys : Q'[j] = IF j = k THEN Tail(Q[j]) ELSE Q[j]
          BY <2>0, <2>3 DEF Takes
        <4> QED BY <2>0, <4>1
      <3>2. Q[k] # <<>> /\ delivered' = Append(delivered, Head(Q[k]))
        BY <2>0, <2>3 DEF Takes
      <3> QED BY <2>3, <3>1, <3>2 DEF Takes, Abstract!Take, Accepted
    <2>4. ASSUME Stops PROVE Abstract!Stop
      <3>1. \A k \in Keys : IsPrefix(Q'[k], Q[k])
        BY <2>0, <2>4 DEF Stops
      <3>2. \A k \in Keys : Abstract!IsPrefix(Q'[k], Q[k])
        BY <3>1 DEF IsPrefix, Abstract!IsPrefix
      <3> QED BY <2>0, <2>4, <3>2 DEF Stops, Abstract!Stop, Accepted
    <2>5. CASE \E c \in Calls : Publish(c)
      BY <2>1, <2>2, <2>5, PublishPuts DEF Abstract!Next
    <2>6. CASE \E s \in Subscribers : Subscribe(s)
      BY <2>1, <2>6, SubscribeStays
    <2>7. CASE SubscribeWildcard \/ Poll
      BY <2>1, <2>7, ListenStays
    <2>8. CASE \E k \in Keys : Forward(k)
      BY <2>1, <2>8, ForwardStays
    <2>9. CASE ListenerReceive \/ \E s \in Subscribers : SubscriberReceive(s)
      BY <2>3, <2>9, ReceiveTakes DEF Abstract!Next
    <2>10. CASE Close
      BY <2>4, <2>10, CloseStops DEF Abstract!Next
    <2>11. CASE UNCHANGED vars
      <3>1. ASSUME NEW k \in Keys PROVE Waiting(k)' = Waiting(k)
        <4>1. ReaderChan(k)' = ReaderChan(k)
          BY <2>11, SameReader DEF vars
        <4>2. InBuffer(k)' = InBuffer(k)
          BY <2>11, <4>1 DEF vars, InBuffer
        <4> QED BY <2>11, <4>2, SameWaiting DEF vars
      <3> QED BY <2>1, <2>11, <3>1 DEF Stays, Accepted, vars
    <2> QED BY <2>5, <2>6, <2>7, <2>8, <2>9, <2>10, <2>11 DEF Next
  <1> QED BY <1>1, <1>2, MInvInit, MInvStep, PTL DEF Spec, Abstract!Spec

==============================================================================

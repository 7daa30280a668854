------------------------------- MODULE Broker --------------------------------
(***************************************************************************)
(* ChannelMessageBroker (agentic/adapters/message_broker/channel.go) with  *)
(* its callers: concurrent Publish calls, Subscribe calls for one key, the *)
(* wildcard subscription of the transcription listener, and Close.         *)
(*                                                                         *)
(* The RWMutex makes every critical section one step.  A Publish that      *)
(* finds its channel sends under the same read lock; one that does not     *)
(* gives the lock up twice (lines 47-48 and 51-52), and other goroutines   *)
(* run in both gaps.  A channel is named by the call that made it.         *)
(***************************************************************************)
EXTENDS Naturals, Sequences, SequencesExt

CONSTANTS Calls,          \* Publish calls; a call is also its message
          Subscribers,    \* Subscribe calls for one routing key
          Topics,         \* topics, each a sequence of tokens
          TopicOf,        \* [Calls \cup Subscribers -> Topics]
          RoutingKeyOf,   \* [Calls \cup Subscribers -> sequences of tokens]
          ListenTopic,    \* the topic of the wildcard subscription
          After,          \* After[c]: calls that have returned when c is made
          Capacity,       \* buffer of a channel (100 in the code)
          None

Chans == Calls \cup Subscribers

makeKey(topic, routingKey) == topic \o <<":">> \o routingKey

KeyOf == [c \in Chans |-> makeKey(TopicOf[c], RoutingKeyOf[c])]

Keys == {KeyOf[c] : c \in Chans}

\* Mutant: the prefix is the bare topic.
MatchingBareTopic == {k \in Keys : IsPrefix(ListenTopic, k)}

\* The keys strings.HasPrefix(key, topic+":") selects.
Matching == {k \in Keys : IsPrefix(ListenTopic \o <<":">>, k)}

ASSUME CapacityAssumption == Capacity \in Nat \ {0}

ASSUME NamesAssumption ==
    /\ Calls \cap Subscribers = {}
    /\ None \notin Chans
    /\ After \in [Chans -> SUBSET Chans]

ASSUME TopicsAssumption ==
    /\ \A t \in Topics : t \in Seq(STRING)
    /\ ListenTopic \in Topics
    /\ TopicOf \in [Chans -> Topics]
    /\ RoutingKeyOf \in [Chans -> Seq(STRING)]

VARIABLES
    topics,         \* the topics map: the channel of a key, or None
    closed,         \* the closed flag
    buf,            \* the buffer of every channel
    chanClosed,     \* the channels close() was called on
    pc,             \* where each Publish and Subscribe call is
    channel,        \* the local variable channel of each call
    listening,      \* the wildcard Subscribe has returned a channel
    topicChannels,  \* the poller's map; a forwarder runs for every entry
    msg,            \* the message a forwarder holds, or None
    wildcardChannel,\* the buffer of the wildcard channel
    delivered       \* messages received by readers, in order

vars == <<topics, closed, buf, chanClosed, pc, channel, listening,
          topicChannels, msg, wildcardChannel, delivered>>

subVars == <<listening, topicChannels, msg, wildcardChannel>>

Returned == {"ok", "full", "expired", "refused", "panic"}

Typed ==
    /\ topics \in [Keys -> Chans \cup {None}]
    /\ closed \in BOOLEAN
    /\ buf \in [Chans -> Seq(Calls)]
    /\ \A ch \in Chans : Len(buf[ch]) <= Capacity
    /\ chanClosed \in SUBSET Chans
    /\ pc \in [Chans -> {"start", "create", "send"} \cup Returned]
    /\ channel \in [Chans -> Chans \cup {None}]
    /\ listening \in BOOLEAN
    /\ topicChannels \in [Keys -> Chans \cup {None}]
    /\ msg \in [Keys -> Calls \cup {None}]
    /\ wildcardChannel \in Seq(Calls)
    /\ Len(wildcardChannel) <= Capacity
    /\ delivered \in Seq(Calls)

\* A map look-up in Go gives nil for a key that is not there; nobody sends
\* to or receives from a nil channel, which would block for ever.
NoNilChannel ==
    /\ \A c \in Calls : pc[c] = "send" => channel[c] # None
    /\ \A s \in Subscribers : pc[s] = "ok" => channel[s] # None

\* The types of the variables, and no call is left with a nil channel
\* (Publish and Subscribe make the channel that the map does not have).
TypeOK == Typed /\ NoNilChannel

Init ==
    /\ topics = [k \in Keys |-> None]
    /\ closed = FALSE
    /\ buf = [ch \in Chans |-> <<>>]
    /\ chanClosed = {}
    /\ pc = [c \in Chans |-> "start"]
    /\ channel = [c \in Chans |-> None]
    /\ listening = FALSE
    /\ topicChannels = [k \in Keys |-> None]
    /\ msg = [k \in Keys |-> None]
    /\ wildcardChannel = <<>>
    /\ delivered = <<>>

------------------------------------------------------------------------------
(* Publish *)

\* Callers make their calls in the order After gives.
Called(c) == pc[c] = "start" /\ \A b \in After[c] : pc[b] \in Returned

Return(c, result) == pc' = [pc EXCEPT ![c] = result]

\* The select of Publish on channel ch.  The deadline of the request may
\* have passed (then either ready case is taken); a send case on a closed
\* channel panics.
Select(c, ch) ==
    \/ /\ ch \in chanClosed
       /\ Return(c, "panic")
       /\ UNCHANGED buf
    \/ /\ ch \notin chanClosed
       /\ Len(buf[ch]) < Capacity
       /\ buf' = [buf EXCEPT ![ch] = Append(@, c)]
       /\ Return(c, "ok")
    \/ /\ ch \notin chanClosed
       /\ Len(buf[ch]) = Capacity
       /\ Return(c, "full")
       /\ UNCHANGED buf
    \/ /\ Return(c, "expired")
       /\ UNCHANGED buf

\* Mutant: the map is not consulted.
PublishStartNoLookup(c) ==
    /\ Called(c)
    /\ Return(c, IF closed THEN "refused" ELSE "create")
    /\ UNCHANGED <<topics, closed, buf, chanClosed, channel, delivered, subVars>>

\* Mutant: the read lock is released before the send.
PublishStartUnlocks(c) ==
    /\ Called(c)
    /\ LET found == topics[KeyOf[c]] IN
       \/ closed /\ Return(c, "refused") /\ UNCHANGED channel
       \/ ~closed /\ found = None /\ Return(c, "create") /\ UNCHANGED channel
       \/ /\ ~closed /\ found # None
          /\ channel' = [channel EXCEPT ![c] = found]
          /\ Return(c, "send")
    /\ UNCHANGED <<topics, closed, buf, chanClosed, delivered, subVars>>

\* First critical section: refused, or sent on the channel found, or no
\* channel and the read lock is released.
PublishStart(c) ==
    /\ Called(c)
    /\ LET found == topics[KeyOf[c]] IN
       \/ closed /\ Return(c, "refused") /\ UNCHANGED <<buf, channel>>
       \/ ~closed /\ found = None /\ Return(c, "create")
            /\ UNCHANGED <<buf, channel>>
       \/ /\ ~closed /\ found # None
          /\ channel' = [channel EXCEPT ![c] = found]
          /\ Select(c, found)
    /\ UNCHANGED <<topics, closed, chanClosed, delivered, subVars>>

\* Under the write lock: a new channel replaces whatever the map holds.
PublishCreate(c) ==
    /\ pc[c] = "create"
    /\ channel' = [channel EXCEPT ![c] = c]
    /\ topics' = [topics EXCEPT ![KeyOf[c]] = c]
    /\ Return(c, "send")
    /\ UNCHANGED <<closed, buf, chanClosed, delivered, subVars>>

PublishSend(c) ==
    /\ pc[c] = "send"
    /\ Select(c, channel[c])
    /\ UNCHANGED <<topics, closed, chanClosed, channel, delivered, subVars>>

------------------------------------------------------------------------------
(* Subscribe and Close *)

\* Mutant: the channel is taken from the map whether or not it is there.
SubscribeNoCreate(s) ==
    /\ Called(s)
    /\ \/ closed /\ Return(s, "refused") /\ UNCHANGED channel
       \/ /\ ~closed
          /\ channel' = [channel EXCEPT ![s] = topics[KeyOf[s]]]
          /\ Return(s, "ok")
    /\ UNCHANGED <<topics, closed, buf, chanClosed, delivered, subVars>>

\* Subscribe for one key, one critical section.
Subscribe(s) ==
    /\ Called(s)
    /\ LET ch == IF topics[KeyOf[s]] = None THEN s ELSE topics[KeyOf[s]] IN
       \/ closed /\ Return(s, "refused") /\ UNCHANGED <<topics, channel>>
       \/ /\ ~closed
          /\ topics' = [topics EXCEPT ![KeyOf[s]] = ch]
          /\ channel' = [channel EXCEPT ![s] = ch]
          /\ Return(s, "ok")
    /\ UNCHANGED <<closed, buf, chanClosed, delivered, subVars>>

\* The subscriber receives from the channel it was given.
SubscriberReceive(s) ==
    /\ pc[s] = "ok"
    /\ buf[channel[s]] # <<>>
    /\ delivered' = Append(delivered, Head(buf[channel[s]]))
    /\ buf' = [buf EXCEPT ![channel[s]] = Tail(@)]
    /\ UNCHANGED <<topics, closed, chanClosed, pc, channel, subVars>>

\* The wildcard Subscribe: starts the poller unless the broker is closed.
SubscribeWildcard ==
    /\ ~listening /\ ~closed
    /\ listening' = TRUE
    /\ UNCHANGED <<topics, closed, buf, chanClosed, pc, channel,
                   topicChannels, msg, wildcardChannel, delivered>>

\* One round of the poller: every matching key it has not seen gets a
\* forwarder on the channel the map holds now.
Poll ==
    /\ listening
    /\ topicChannels' = [k \in Keys |->
            IF k \in Matching /\ topicChannels[k] = None
            THEN topics[k] ELSE topicChannels[k]]
    /\ topicChannels' # topicChannels
    /\ UNCHANGED <<topics, closed, buf, chanClosed, pc, channel, listening,
                   msg, wildcardChannel, delivered>>

\* The forwarder of key k: its range loop receives a message ...
ForwarderReceive(k) ==
    LET ch == topicChannels[k] IN
    /\ ch # None
    /\ msg[k] = None
    /\ buf[ch] # <<>>
    /\ msg' = [msg EXCEPT ![k] = Head(buf[ch])]
    /\ buf' = [buf EXCEPT ![ch] = Tail(@)]
    /\ UNCHANGED <<topics, closed, chanClosed, pc, channel, listening,
                   topicChannels, wildcardChannel, delivered>>

\* Mutant: a full wildcard channel drops the message.
ForwarderSendOrDrop(k) ==
    /\ msg[k] # None
    /\ wildcardChannel' = IF Len(wildcardChannel) < Capacity
                          THEN Append(wildcardChannel, msg[k])
                          ELSE wildcardChannel
    /\ msg' = [msg EXCEPT ![k] = None]
    /\ UNCHANGED <<topics, closed, buf, chanClosed, pc, channel, listening,
                   topicChannels, delivered>>

\* ... and blocks until the wildcard channel takes it.
ForwarderSend(k) ==
    /\ msg[k] # None
    /\ Len(wildcardChannel) < Capacity
    /\ wildcardChannel' = Append(wildcardChannel, msg[k])
    /\ msg' = [msg EXCEPT ![k] = None]
    /\ UNCHANGED <<topics, closed, buf, chanClosed, pc, channel, listening,
                   topicChannels, delivered>>

\* The transcription listener receives from the wildcard channel.
ListenerReceive ==
    /\ wildcardChannel # <<>>
    /\ delivered' = Append(delivered, Head(wildcardChannel))
    /\ wildcardChannel' = Tail(wildcardChannel)
    /\ UNCHANGED <<topics, closed, buf, chanClosed, pc, channel, listening,
                   topicChannels, msg>>

Close ==
    /\ ~closed
    /\ closed' = TRUE
    /\ chanClosed' = chanClosed \cup ({topics[k] : k \in Keys} \ {None})
    /\ topics' = [k \in Keys |-> None]
    /\ UNCHANGED <<buf, pc, channel, delivered, subVars>>

------------------------------------------------------------------------------
Publish(c) == PublishStart(c) \/ PublishCreate(c) \/ PublishSend(c)

Forward(k) == ForwarderReceive(k) \/ ForwarderSend(k)

Next ==
    \/ \E c \in Calls : Publish(c)
    \/ \E s \in Subscribers : Subscribe(s) \/ SubscriberReceive(s)
    \/ SubscribeWildcard
    \/ Poll
    \/ \E k \in Keys : Forward(k)
    \/ ListenerReceive
    \/ Close

Spec == Init /\ [][Next]_vars

\* Goroutines that can run do run; nobody promises a Close.
Fairness ==
    /\ \A c \in Calls : WF_vars(Publish(c))
    /\ \A s \in Subscribers :
          WF_vars(Subscribe(s)) /\ WF_vars(SubscriberReceive(s))
    /\ WF_vars(SubscribeWildcard)
    /\ WF_vars(Poll)
    /\ \A k \in Keys : WF_vars(Forward(k))
    /\ WF_vars(ListenerReceive)

FairSpec == Spec /\ Fairness

------------------------------------------------------------------------------
(* Properties *)

\* Calls on one key come one after the other.  It holds in the server,
\* where the key of a Publish is a random session id used once.
OneCallerPerKey ==
    \A c \in Calls, d \in Chans :
        c # d /\ KeyOf[c] = KeyOf[d] => c \in After[d] \/ d \in After[c]

\* No key has both a subscriber of its own and a forwarder: they would share
\* its messages and the order between them would be lost.  It holds in the
\* server, where the listener's is the only Subscribe.
SeparateReaders == \A s \in Subscribers : KeyOf[s] \notin Matching

\* No topic contains the separator of makeKey.  It holds in the server, whose
\* one topic is "transcription.results"; routing keys may contain it.
TopicsWithoutSeparator == \A t \in Topics : \A i \in DOMAIN t : t[i] # ":"

\* Until Close, every accepted message that still sits in a channel sits in
\* the channel that its readers use or will find: the one of the topics map,
\* the one its forwarder drains, the one its subscribers hold.  A second
\* channel made for a key (Publish lines 47-52) would strand messages.  It
\* needs OneCallerPerKey, which MESSAGE_BROKER_README.md line 340 does not ask
\* for ("Thread-safe with RWMutex"): of two first calls on one key at once the
\* channel of one is overwritten, with the message it has accepted.
NoStranded ==
    ~closed => \A c \in Calls, ch \in Chans :
        (\E i \in DOMAIN buf[ch] : buf[ch][i] = c) =>
            /\ topics[KeyOf[c]] = ch
            /\ topicChannels[KeyOf[c]] \in {None, ch}
            /\ \A s \in Subscribers :
                 KeyOf[s] = KeyOf[c] /\ pc[s] = "ok" => channel[s] = ch

\* Close against Publish: a Publish that finds its channel in the map holds
\* the read lock until it has sent, so it never meets a closed channel.  Only
\* a call that made its own channel can panic: it gives the lock up before it
\* sends.  That it can disagrees with "Thread-safe operations" and "Graceful
\* shutdown" (MESSAGE_BROKER_README.md lines 105 and 108); this server never
\* gets to Close, as log.Fatal ends it.
PanicOnlyInGap == \A c \in Calls : pc[c] = "panic" => channel[c] = c

\* The wildcard subscription hands over messages of its own topic only,
\* though channels are found by a string prefix of the combined key.
TopicIsolation ==
    \A i \in DOMAIN wildcardChannel : TopicOf[wildcardChannel[i]] = ListenTopic

\* The channel the readers of key k use or will find, or None.
ReaderChan(k) ==
    LET held == {channel[s] : s \in {s \in Subscribers :
                                       KeyOf[s] = k /\ pc[s] = "ok"}} IN
    IF topicChannels[k] # None THEN topicChannels[k]
    ELSE IF held # {} THEN CHOOSE ch \in held : TRUE
    ELSE IF closed /\ ~(listening /\ k \in Matching) THEN None
    ELSE topics[k]

\* The messages of key k in the sequence s.
OfKey(s, k) ==
    LET part[n \in 0..Len(s)] ==
            IF n = 0 THEN <<>>
            ELSE IF KeyOf[s[n]] = k THEN Append(part[n - 1], s[n])
            ELSE part[n - 1]
    IN part[Len(s)]

\* The abstract queue of key k: what is on its way to the reader, oldest
\* first: wildcard channel, forwarder, channel.
Waiting(k) ==
    OfKey(wildcardChannel, k)
    \o (IF msg[k] = None THEN <<>> ELSE <<msg[k]>>)
    \o (IF ReaderChan(k) = None THEN <<>> ELSE buf[ReaderChan(k)])

Abstract == INSTANCE Mailbox WITH
    open      <- ~closed,
    accepted  <- {c \in Calls : pc[c] = "ok"},
    queue     <- [k \in Keys |-> Waiting(k)]

\* The broker implements the mailbox: accepted messages are delivered once,
\* in order per key, and eventually, through polling and forwarding; a
\* shutdown loses nothing a forwarder has already been started for.
ImplementsMailbox == Abstract!FairSpec

==============================================================================

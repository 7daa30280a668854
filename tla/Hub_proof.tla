----------------------------- MODULE Hub_proof -------------------------------
(***************************************************************************)
(* Proofs about the connections of the server: about Hub, for any number   *)
(* of connections and devices, and, from the invariant KInv on, about      *)
(* Keepalive.  The two models share no state.                              *)
(***************************************************************************)
EXTENDS Hub, Keepalive, TLAPS

LEMMA TypeOKInit == Init => TypeOK
  <1> SUFFICES ASSUME Init PROVE TypeOK
    OBVIOUS
  <1>1. input \in [Conns -> 0..InputCap]
    BY HubAssumption DEF Init
  <1>2. crashed \in BOOLEAN
    BY DEF Init
  <1>3. /\ pc \in [Conns -> {"idle", "scan", "registering", "registered",
                             "running", "unregistering", "done", "refused",
                             "duplicate"}]
        /\ view \in [Scanners -> SUBSET Conns]
    BY DEF Init
  <1> QED BY <1>1, <1>2, <1>3 DEF Init, TypeOK, TypeOK

LEMMA TypeOKStep == TypeOK /\ [Next]_vars => TypeOK'
  <1> SUFFICES ASSUME TypeOK, [Next]_vars PROVE TypeOK'
    OBVIOUS
  <1> USE HubAssumption DEF TypeOK
  <1>1. ASSUME NEW c \in Conns, Connect(c) PROVE TypeOK'
    BY <1>1 DEF Connect, Begin
  <1>2. ASSUME NEW c \in Conns, CheckDevice(c) PROVE TypeOK'
    BY <1>2 DEF CheckDevice
  <1>3. ASSUME NEW c \in Conns, Run(c) PROVE TypeOK'
    BY <1>3 DEF Run
  <1>4. ASSUME NEW c \in Conns, Leave(c) PROVE TypeOK'
    BY <1>4 DEF Leave
  <1>5. ASSUME NEW c \in Conns, HubRegister(c) PROVE TypeOK'
    BY <1>5 DEF HubRegister, MapWrite
  <1>6. ASSUME NEW c \in Conns, HubUnregister(c) PROVE TypeOK'
    BY <1>6 DEF HubUnregister, MapWrite
  <1>7. ASSUME NEW c \in Conns, CloseClient(c) PROVE TypeOK'
    BY <1>7 DEF CloseClient
  <1>8. ASSUME NEW c \in Conns, ChatReceive(c) PROVE TypeOK'
    BY <1>8 DEF ChatReceive
  <1>9. CASE ListenerReceive
    BY <1>9 DEF ListenerReceive, Begin
  <1>10. CASE ListenerLookup
    <2>1. CASE Receive
      BY <1>10, <2>1 DEF ListenerLookup, Receive
    <2>2. CASE \E c \in Conns : target' = c /\ lpc' = "send"
                              /\ UNCHANGED <<wanted, view>>
      BY <1>10, <2>2 DEF ListenerLookup
    <2> QED BY <1>10, <2>1, <2>2 DEF ListenerLookup
  <1>11. CASE ListenerSend
    <2>1. target \in Conns /\ input[target] \in 0..InputCap
      BY <1>11 DEF ListenerSend
    <2>2. input' \in [Conns -> 0..InputCap]
      BY <1>11, <2>1 DEF ListenerSend
    <2>3. /\ view' \in [Scanners -> SUBSET Conns]
          /\ lpc' = "receive" /\ target' = None /\ wanted' = None
      BY <1>11 DEF ListenerSend, Receive
    <2> QED BY <1>11, <2>2, <2>3 DEF ListenerSend
  <1>12. CASE UNCHANGED vars
    BY <1>12 DEF vars
  <1> QED BY <1>1, <1>2, <1>3, <1>4, <1>5, <1>6, <1>7, <1>8, <1>9, <1>10,
             <1>11, <1>12 DEF Next

\* Type correctness of every reachable state; SendInput is never called on a
\* nil client (hub.go, handler.go, server.go).
THEOREM HubTypeCorrect == Spec => []TypeOK
  BY TypeOKInit, TypeOKStep, PTL DEF Spec

------------------------------------------------------------------------------
(* Duplicates only by race *)

\* Handlers past IsDeviceConnected.
Passed == {"registering", "registered", "running", "unregistering", "done"}

\* A registered client is in the hands of its handler.
Owned == \A c \in clients : pc[c] \in Passed

\* Whoever a look-up saw in the map is there still, or has been closed: the
\* hub deletes a client and closes it in one case of its select.
SeenOrClosed == \A s \in Scanners : view[s] \subseteq clients \cup closed

\* A handler that went on to Register saw no client that is still open.
SawNobody == \A c \in Conns : pc[c] \in Passed => view[c] \subseteq closed

IInv == TypeOK /\ Owned /\ SeenOrClosed /\ SawNobody

LEMMA IInvStep == IInv /\ [Next]_vars => IInv'
  <1> SUFFICES ASSUME IInv, [Next]_vars PROVE IInv'
    OBVIOUS
  <1>0. TypeOK' BY TypeOKStep DEF IInv
  <1> USE <1>0, HubAssumption DEF IInv, TypeOK, Owned, SeenOrClosed,
          SawNobody, Passed, Scanners
  <1>1. ASSUME NEW c \in Conns, Connect(c) PROVE IInv'
    BY <1>1 DEF Connect, Begin
  <1>2. ASSUME NEW c \in Conns, CheckDevice(c) PROVE IInv'
    BY <1>2 DEF CheckDevice, NotFound
  <1>3. ASSUME NEW c \in Conns, Run(c) PROVE IInv'
    BY <1>3 DEF Run
  <1>4. ASSUME NEW c \in Conns, Leave(c) PROVE IInv'
    BY <1>4 DEF Leave
  <1>5. ASSUME NEW c \in Conns, HubRegister(c) PROVE IInv'
    BY <1>5 DEF HubRegister
  <1>6. ASSUME NEW c \in Conns, HubUnregister(c) PROVE IInv'
    BY <1>6 DEF HubUnregister
  <1>7. ASSUME NEW c \in Conns, CloseClient(c) PROVE IInv'
    BY <1>7 DEF CloseClient
  <1>8. ASSUME NEW c \in Conns, ChatReceive(c) PROVE IInv'
    BY <1>8 DEF ChatReceive
  <1>9. CASE ListenerReceive
    BY <1>9 DEF ListenerReceive, Begin
  <1>10. CASE ListenerLookup
    BY <1>10 DEF ListenerLookup, Receive, Found
  <1>11. CASE ListenerSend
    BY <1>11 DEF ListenerSend, Receive
  <1>12. CASE UNCHANGED vars
    BY <1>12 DEF vars
  <1> QED BY <1>1, <1>2, <1>3, <1>4, <1>5, <1>6, <1>7, <1>8, <1>9, <1>10,
             <1>11, <1>12 DEF Next

LEMMA IInvInit == Init => IInv
  BY TypeOKInit DEF Init, IInv, Owned, SeenOrClosed, SawNobody,
     Passed, Scanners

\* Two live clients of one device come only from overlapping look-ups
\* (handler.go lines 80-95, hub.go lines 29-44 and 76-83).
THEOREM DuplicatesOnlyByRace == Spec => []DuplicateOnlyByRace
  <1>1. IInv => DuplicateOnlyByRace
    BY DEF IInv, Owned, SawNobody, DuplicateOnlyByRace, Live
  <1> QED BY <1>1, IInvInit, IInvStep, PTL DEF Spec

------------------------------------------------------------------------------
(* Keepalive, for every ping period, deadline and delay that its assumption allows *)

\* How far the deadline can have come while the doll lives and has not pinged:
\* before the server asks, until the doll answers, and until the reader is back.
Round ==
    alive /\ ~pinged =>
        /\ ~ping /\ ~pong => unread <= waited
        /\ ping /\ ~pong => unread <= pingPeriod + age
        /\ pong => unread + busy <= pingPeriod + MaxDelay + MaxBusy

\* A ping that is not answered was the last thing Ping waited for.
Unanswered == alive /\ ping => waited <= age

\* How long the doll can have been dead: a pong it has left behind is read as
\* soon as the reader is back.
DeadFor ==
    /\ alive => silent = 0
    /\ ~alive /\ pong => silent + busy <= MaxBusy
    /\ ~alive => silent + busy <= unread + MaxBusy

KInv ==
    /\ TimeTypeOK
    /\ ~expired => Round /\ Unanswered /\ DeadFor
    /\ AliveStays

LEMMA KInvInit == TimeInit => KInv
  <1> SUFFICES ASSUME TimeInit PROVE KInv
    OBVIOUS
  <1>1. /\ ~ping /\ ~pong /\ ~dollPing /\ alive /\ ~pinged /\ ~expired
        /\ ping \in BOOLEAN /\ pong \in BOOLEAN /\ dollPing \in BOOLEAN
        /\ alive \in BOOLEAN /\ pinged \in BOOLEAN /\ expired \in BOOLEAN
    BY Zenon DEF TimeInit
  <1> QED BY <1>1, KeepaliveAssumption
          DEF TimeInit, KInv, TimeTypeOK, Round, Unanswered, DeadFor, AliveStays

LEMMA KInvStep == KInv /\ [TimeNext]_timeVars => KInv'
  <1> SUFFICES ASSUME KInv, [TimeNext]_timeVars PROVE KInv'
    OBVIOUS
  <1> USE KeepaliveAssumption
      DEF KInv, TimeTypeOK, Round, Unanswered, DeadFor, AliveStays, serverVars, dollVars
  <1>1. CASE TakePing
    <2>1. pinged' /\ pinged' \in BOOLEAN
      BY <1>1, Zenon DEF TakePing
    <2> QED BY <1>1, <2>1 DEF TakePing
  <1>2. CASE SendPing
    <2>1. ping' /\ ping' \in BOOLEAN
      BY <1>2, Zenon DEF SendPing
    <2> QED BY <1>2, <2>1 DEF SendPing
  <1>3. CASE ReadPong
    <2>1. ~pong' /\ pong' \in BOOLEAN /\ ~pinged' /\ pinged' \in BOOLEAN
      BY <1>3, Zenon DEF ReadPong
    <2> QED BY <1>3, <2>1 DEF ReadPong, Reading
  <1>4. CASE ReadPing
    <2>1. ~dollPing' /\ dollPing' \in BOOLEAN
      BY <1>4, Zenon DEF ReadPing
    <2> QED BY <1>4, <2>1 DEF ReadPing, Reading
  <1>5. CASE ReadAudio
    <2>1. /\ busy' \in 0..MaxBusy /\ ~pong /\ alive
          /\ UNCHANGED <<waited, incomingPing, unread, expired, ping, age, pong, dollPing,
                         alive, silent, pinged>>
      BY <1>5 DEF ReadAudio
    <2> QED BY <2>1
  <1>6. CASE Expire
    <2>1. expired' /\ expired' \in BOOLEAN
      BY <1>6, Zenon DEF Expire
    <2> QED BY <1>6, <2>1 DEF Expire
  <1>7. CASE Answer
    <2>1. pong' /\ pong' \in BOOLEAN /\ ~ping' /\ ping' \in BOOLEAN
      BY <1>7, Zenon DEF Answer
    <2> QED BY <1>7, <2>1 DEF Answer
  <1>8. CASE DollPing
    <2>1. dollPing' /\ dollPing' \in BOOLEAN
      BY <1>8, Zenon DEF DollPing
    <2> QED BY <1>8, <2>1 DEF DollPing
  <1>9. CASE Die
    <2>1. ~alive' /\ alive' \in BOOLEAN
      BY <1>9, Zenon DEF Die
    <2> QED BY <1>9, <2>1 DEF Die
  <1>10. CASE Tick
    BY <1>10 DEF Tick, Idle
  <1>11. CASE UNCHANGED timeVars
    BY <1>11 DEF timeVars
  <1> QED BY <1>1, <1>2, <1>3, <1>4, <1>5, <1>6, <1>7, <1>8, <1>9, <1>10, <1>11 DEF TimeNext

\* The timers of Ping and of the read deadline stay within their bounds.
THEOREM KeepaliveTypeCorrect == TimeSpec => []TimeTypeOK
  <1>1. KInv => TimeTypeOK
    BY DEF KInv
  <1> QED BY <1>1, KInvInit, KInvStep, PTL DEF TimeSpec

\* A doll that answers in time and sends no pings is never cut off by the read
\* deadline, for every choice of pingPeriod and pongWait that leaves room for
\* the answer and for the reader.
THEOREM AliveIsNotCutOff == TimeSpec => []AliveStays
  <1>1. KInv => AliveStays
    BY DEF KInv
  <1> QED BY <1>1, KInvInit, KInvStep, PTL DEF TimeSpec

\* A dead doll is noticed within pongWait and the time the reader is away.
THEOREM DeadIsNoticed == TimeSpec => []DeadNoticed
  <1>1. KInv => DeadNoticed
    BY KeepaliveAssumption DEF KInv, TimeTypeOK, DeadFor, DeadNoticed
  <1> QED BY <1>1, KInvInit, KInvStep, PTL DEF TimeSpec
==============================================================================

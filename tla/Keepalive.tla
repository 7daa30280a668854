------------------------------ MODULE Keepalive ------------------------------
(***************************************************************************)
(* Pings, pongs and the read deadline of a connection, in time             *)
(* (adapters/websocket/client.go: Ping, setupHandlers, readPump).          *)
(* ClientSession has the same goroutines without a clock.                  *)
(*                                                                         *)
(* Time passes in ticks.  A goroutine that can go on does so before the    *)
(* next tick.  The doll answers a ping within MaxDelay ticks while it is   *)
(* alive, and may send pings of its own at any time.  The reader is away   *)
(* while it has speech transcribed, for at most MaxBusy ticks in a row,    *)
(* and does not look at the connection then.                               *)
(***************************************************************************)
EXTENDS Naturals

CONSTANTS pingPeriod,      \* 30 s
          pongWait,        \* 60 s
          MaxDelay,        \* of a pong of the doll
          MaxBusy          \* of the reader

\* A ping is answered before the next one, and a round of ping, pong and reader
\* fits into pongWait.
ASSUME KeepaliveAssumption ==
    /\ pingPeriod \in Nat \ {0} /\ pongWait \in Nat /\ MaxDelay \in Nat /\ MaxBusy \in Nat
    /\ MaxDelay < pingPeriod
    /\ pingPeriod + MaxDelay + MaxBusy < pongWait

VARIABLES
    waited,          \* ticks since Ping entered its select
    incomingPing,    \* messages in this channel, which has room for one
    unread,          \* ticks since the last SetReadDeadline
    busy,            \* ticks until the reader comes back
    ping,            \* the server's last ping is not yet answered
    age,             \* for so many ticks
    pong, dollPing,  \* frames of the doll that wait to be read
    alive,           \* the doll
    silent,          \* ticks since it died
    pinged,          \* a ping of the doll was taken since the last pong
    expired          \* by the deadline

serverVars == <<waited, incomingPing, unread, busy, expired>>
dollVars == <<ping, age, pong, dollPing, alive, silent>>
timeVars == <<serverVars, dollVars, pinged>>

TimeTypeOK ==
    /\ waited \in 0..pingPeriod /\ incomingPing \in 0..1
    /\ unread \in 0..pongWait /\ busy \in 0..MaxBusy
    /\ ping \in BOOLEAN /\ age \in 0..MaxDelay
    /\ pong \in BOOLEAN /\ dollPing \in BOOLEAN
    /\ alive \in BOOLEAN /\ silent \in Nat
    /\ pinged \in BOOLEAN /\ expired \in BOOLEAN

TimeInit ==
    /\ waited = 0 /\ incomingPing = 0 /\ unread = 0 /\ busy = 0
    /\ ping = FALSE /\ age = 0 /\ pong = FALSE /\ dollPing = FALSE
    /\ alive = TRUE /\ silent = 0
    /\ pinged = FALSE /\ expired = FALSE

------------------------------------------------------------------------------
(* Ping *)

\* A ping of the doll: the select starts again, and so does its timer.
TakePing ==
    /\ ~expired /\ incomingPing = 1
    /\ incomingPing' = 0
    /\ waited' = 0
    /\ pinged' = TRUE
    /\ UNCHANGED <<unread, busy, expired, dollVars>>

\* Mutant: the deadline is put off when a ping is sent.
SendPingExtends ==
    /\ ~expired /\ waited = pingPeriod
    /\ ping' = TRUE /\ age' = 0
    /\ waited' = 0
    /\ unread' = 0
    /\ UNCHANGED <<incomingPing, busy, expired, pong, dollPing, alive, silent, pinged>>

\* time.After(pingPeriod): the server sends a ping.
SendPing ==
    /\ ~expired /\ waited = pingPeriod
    /\ ping' = TRUE /\ age' = 0
    /\ waited' = 0
    /\ UNCHANGED <<incomingPing, unread, busy, expired, pong, dollPing, alive, silent, pinged>>

------------------------------------------------------------------------------
(* readPump and the handlers it calls *)

\* The reader is at ReadMessage, and its deadline has not passed.
Reading == ~expired /\ busy = 0 /\ unread < pongWait

\* Mutant: the pong handler does not put the deadline off.
ReadPongOnly ==
    /\ Reading /\ pong
    /\ pong' = FALSE
    /\ pinged' = FALSE
    /\ UNCHANGED <<serverVars, ping, age, dollPing, alive, silent>>

\* The pong handler puts the deadline off.
ReadPong ==
    /\ Reading /\ pong
    /\ pong' = FALSE
    /\ unread' = 0
    /\ pinged' = FALSE
    /\ UNCHANGED <<waited, incomingPing, busy, expired, ping, age, dollPing, alive, silent>>

\* The ping handler hands it on, when the channel has room, and answers.
ReadPing ==
    /\ Reading /\ dollPing /\ incomingPing = 0
    /\ dollPing' = FALSE
    /\ incomingPing' = 1
    /\ UNCHANGED <<waited, unread, busy, expired, ping, age, pong, alive, silent, pinged>>

\* Speech of the doll is transcribed.  A pong that came first is read first.
ReadAudio ==
    /\ Reading /\ alive /\ ~pong
    /\ busy' \in 1..MaxBusy
    /\ UNCHANGED <<waited, incomingPing, unread, expired, dollVars, pinged>>

\* ReadMessage fails once the deadline has passed, whatever has arrived since,
\* and readPump closes the connection.
Expire ==
    /\ ~expired /\ busy = 0 /\ unread = pongWait
    /\ expired' = TRUE
    /\ UNCHANGED <<waited, incomingPing, unread, busy, dollVars, pinged>>

------------------------------------------------------------------------------
(* The doll, and time *)

Answer ==
    /\ ~expired /\ alive /\ ping
    /\ ping' = FALSE
    /\ pong' = TRUE
    /\ UNCHANGED <<serverVars, age, dollPing, alive, silent, pinged>>

DollPing ==
    /\ ~expired /\ alive /\ ~dollPing
    /\ dollPing' = TRUE
    /\ UNCHANGED <<serverVars, ping, age, pong, alive, silent, pinged>>

Die ==
    /\ ~expired /\ alive
    /\ alive' = FALSE
    /\ UNCHANGED <<serverVars, ping, age, pong, dollPing, silent, pinged>>

\* Nobody has anything to do at this moment.
Idle ==
    /\ incomingPing = 0 /\ waited < pingPeriod
    /\ busy = 0 => unread < pongWait /\ ~pong /\ ~dollPing
    /\ alive /\ ping => age < MaxDelay

Tick ==
    /\ ~expired /\ Idle
    /\ waited' = waited + 1
    /\ unread' = IF unread < pongWait THEN unread + 1 ELSE unread
    /\ busy' = IF busy > 0 THEN busy - 1 ELSE 0
    /\ age' = IF alive /\ ping THEN age + 1 ELSE age
    /\ silent' = IF alive THEN 0 ELSE silent + 1
    /\ UNCHANGED <<incomingPing, ping, pong, dollPing, alive, pinged, expired>>

TimeNext ==
    \/ TakePing \/ SendPing \/ ReadPong \/ ReadPing \/ ReadAudio \/ Expire
    \/ Answer \/ DollPing \/ Die \/ Tick

TimeSpec == TimeInit /\ [][TimeNext]_timeVars

------------------------------------------------------------------------------
(* Properties *)

\* A doll that answers the pings of the server is not cut off by the deadline,
\* unless it sends pings of its own: each of them makes the server wait for
\* another pingPeriod before it asks, and none of them puts the deadline off.
AliveStays == expired => ~alive \/ pinged

\* A doll that has died is noticed, wherever the reader was when it died.
DeadNoticed == ~alive /\ ~expired => silent <= pongWait + MaxBusy

==============================================================================

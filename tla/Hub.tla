--------------------------------- MODULE Hub ---------------------------------
(***************************************************************************)
(* The WebSocket hub (agentic/adapters/websocket/hub.go), the connection   *)
(* handler that registers clients with it (handler.go) and the             *)
(* transcription listener that looks clients up in it (server.go).         *)
(*                                                                         *)
(* The goroutine of Hub.run is the only writer of the clients map; every   *)
(* handler and the listener read it, in GetClientByDevice, without a lock. *)
(* A look-up therefore takes two steps: the range loop begins, and later   *)
(* it returns a client or nil.  An entry that stays in the map for the     *)
(* whole loop is visited; one added or deleted meanwhile may or may not    *)
(* be.  When the map is written while a loop runs, the Go runtime may also *)
(* abort the process ("concurrent map iteration and map write").           *)
(***************************************************************************)
EXTENDS Naturals

CONSTANTS Conns,       \* WebSocket connection attempts; also their Client
          Devices,     \* device ids
          DeviceOf,    \* the device_id claim of the token of a connection
          InputCap,    \* buffer of inputChan (10 in the code)
          Listener,    \* the transcription listener goroutine
          None

ASSUME HubAssumption ==
    /\ DeviceOf \in [Conns -> Devices]
    /\ InputCap \in Nat \ {0}
    /\ Listener \notin Conns
    /\ None \notin Conns \cup Devices

Scanners == Conns \cup {Listener}

VARIABLES
    clients,    \* Hub.clients
    closed,     \* the clients whose Close has run
    pc,         \* where Handler is, per connection
    lpc,        \* where startTranscriptionListener is
    wanted,     \* the device of the transcription in hand, or None
    target,     \* the client the listener looked up, or None
    view,       \* per look-up: the device's entries as the loop began
    input,      \* messages waiting in each client's inputChan
    crashed     \* the runtime aborted the process

vars == <<clients, closed, pc, lpc, wanted, target, view, input, crashed>>

\* The types, and that the listener never calls SendInput on a nil client
\* (server.go lines 81 and 91).
TypeOK ==
    /\ clients \in SUBSET Conns
    /\ closed \in SUBSET Conns
    /\ pc \in [Conns -> {"idle", "scan", "registering", "registered", "running",
                         "unregistering", "done", "refused", "duplicate"}]
    /\ lpc \in {"receive", "scan", "send"}
    /\ wanted \in Devices \cup {None}
    /\ target \in Conns \cup {None}
    /\ view \in [Scanners -> SUBSET Conns]
    /\ lpc = "send" => target # None
    /\ input \in [Conns -> 0..InputCap]
    /\ crashed \in BOOLEAN

Init ==
    /\ clients = {}
    /\ closed = {}
    /\ pc = [c \in Conns |-> "idle"]
    /\ lpc = "receive"
    /\ wanted = None
    /\ target = None
    /\ view = [s \in Scanners |-> {}]
    /\ input = [c \in Conns |-> 0]
    /\ crashed = FALSE

------------------------------------------------------------------------------
(* GetClientByDevice *)

\* The range loop over the map begins; entries of other devices are skipped.
Begin(s, device) ==
    view' = [view EXCEPT ![s] = {c \in clients : DeviceOf[c] = device}]

\* The loop visits c now and returns it.
Found(device, c) ==
    c \in clients /\ DeviceOf[c] = device /\ c \notin closed

\* Mutant: the loop stops at the first client of the device, closed or not.
NotFoundFirst(s) == view[s] \cap clients \subseteq closed \/ view[s] \cap closed # {}

\* The loop ends: no client that it is sure to visit qualifies.
NotFound(s) == view[s] \cap clients \subseteq closed

\* Somebody is inside a look-up.
Scanning == lpc = "scan" \/ \E c \in Conns : pc[c] = "scan"

\* What writing the map does to the process.
MapWrite == crashed' \in IF Scanning THEN BOOLEAN ELSE {FALSE}

------------------------------------------------------------------------------
(* Handler *)

\* JWTMiddleware lets the request through and the upgrade succeeds, or not.
Connect(c) ==
    /\ ~crashed /\ pc[c] = "idle"
    /\ \/ /\ pc' = [pc EXCEPT ![c] = "refused"]
          /\ UNCHANGED view
       \/ /\ pc' = [pc EXCEPT ![c] = "scan"]
          /\ Begin(c, DeviceOf[c])
    /\ UNCHANGED <<clients, closed, lpc, wanted, target, input, crashed>>

\* IsDeviceConnected: the new connection is closed, or goes on to Register.
CheckDevice(c) ==
    /\ ~crashed /\ pc[c] = "scan"
    /\ \/ /\ \E d \in Conns : Found(DeviceOf[c], d)
          /\ pc' = [pc EXCEPT ![c] = "duplicate"]
       \/ /\ NotFound(c)
          /\ pc' = [pc EXCEPT ![c] = "registering"]
    /\ UNCHANGED <<clients, closed, lpc, wanted, target, view, input,
                   crashed>>

\* Register meets the hub goroutine, which enters the client.
HubRegister(c) ==
    /\ ~crashed /\ pc[c] = "registering"
    /\ clients' = clients \cup {c}
    /\ pc' = [pc EXCEPT ![c] = "registered"]
    /\ MapWrite
    /\ UNCHANGED <<closed, lpc, wanted, target, view, input>>

\* client.Run starts the goroutines of the client.
Run(c) ==
    /\ ~crashed /\ pc[c] = "registered"
    /\ pc' = [pc EXCEPT ![c] = "running"]
    /\ UNCHANGED <<clients, closed, lpc, wanted, target, view, input,
                   crashed>>

\* A goroutine of the running client closes it: the doll hung up, a read or
\* a write failed, or a deadline passed.
CloseClient(c) ==
    /\ ~crashed /\ pc[c] = "running"
    /\ c \notin closed
    /\ closed' = closed \cup {c}
    /\ UNCHANGED <<clients, pc, lpc, wanted, target, view, input, crashed>>

\* Mutant: the deferred Unregister is missing.
LeaveNoUnregister(c) ==
    /\ ~crashed /\ pc[c] = "running"
    /\ c \in closed
    /\ pc' = [pc EXCEPT ![c] = "done"]
    /\ UNCHANGED <<clients, closed, lpc, wanted, target, view, input,
                   crashed>>

\* The context is done: Handler returns through its deferred Unregister.
Leave(c) ==
    /\ ~crashed /\ pc[c] = "running"
    /\ c \in closed
    /\ pc' = [pc EXCEPT ![c] = "unregistering"]
    /\ UNCHANGED <<clients, closed, lpc, wanted, target, view, input,
                   crashed>>

\* Unregister meets the hub goroutine, which deletes and closes the client.
HubUnregister(c) ==
    /\ ~crashed /\ pc[c] = "unregistering"
    /\ pc' = [pc EXCEPT ![c] = "done"]
    /\ IF c \in clients
       THEN /\ clients' = clients \ {c}
            /\ closed' = closed \cup {c}
            /\ MapWrite
       ELSE UNCHANGED <<clients, closed, crashed>>
    /\ UNCHANGED <<lpc, wanted, target, view, input>>

------------------------------------------------------------------------------
(* The transcription listener *)

\* A transcription for some device arrives and the look-up begins; a payload
\* that does not parse is skipped.
ListenerReceive ==
    /\ ~crashed /\ lpc = "receive"
    /\ wanted' \in Devices
    /\ lpc' = "scan"
    /\ Begin(Listener, wanted')
    /\ UNCHANGED <<clients, closed, pc, target, input, crashed>>

\* The loop body is over and its locals with it.
Receive == /\ lpc' = "receive"
           /\ target' = None
           /\ wanted' = None
           /\ view' = [view EXCEPT ![Listener] = {}]

\* Mutant: the result of the look-up is not compared with nil.
ListenerLookupNil ==
    /\ ~crashed /\ lpc = "scan"
    /\ \/ NotFound(Listener) /\ target' = None
       \/ \E c \in Conns : Found(wanted, c) /\ target' = c
    /\ lpc' = "send"
    /\ UNCHANGED <<clients, closed, pc, wanted, view, input, crashed>>

\* "Device not connected", or a client to send to.
ListenerLookup ==
    /\ ~crashed /\ lpc = "scan"
    /\ \/ NotFound(Listener) /\ Receive
       \/ /\ \E c \in Conns : Found(wanted, c) /\ target' = c
          /\ lpc' = "send"
          /\ UNCHANGED <<wanted, view>>
    /\ UNCHANGED <<clients, closed, pc, input, crashed>>

\* Mutant: the select of SendInput has no default case.
ListenerSendBlocks ==
    /\ ~crashed /\ lpc = "send"
    /\ \/ /\ input[target] < InputCap
          /\ input' = [input EXCEPT ![target] = @ + 1]
       \/ /\ target \in closed
          /\ UNCHANGED input
    /\ Receive
    /\ UNCHANGED <<clients, closed, pc, crashed>>

\* SendInput: queued, or dropped because the client is done or its input
\* channel is full.  Both select cases are ready on a closed client.
ListenerSend ==
    /\ ~crashed /\ lpc = "send"
    /\ \/ /\ input[target] < InputCap
          /\ input' = [input EXCEPT ![target] = @ + 1]
       \/ /\ target \in closed \/ input[target] = InputCap
          /\ UNCHANGED input
    /\ Receive
    /\ UNCHANGED <<clients, closed, pc, crashed>>

\* The chat service of a running client takes an input.
ChatReceive(c) ==
    /\ ~crashed /\ pc[c] \in {"running", "unregistering", "done"}
    /\ input[c] > 0
    /\ input' = [input EXCEPT ![c] = @ - 1]
    /\ UNCHANGED <<clients, closed, pc, lpc, wanted, target, view, crashed>>

------------------------------------------------------------------------------
Next ==
    \/ \E c \in Conns :
          \/ Connect(c) \/ CheckDevice(c) \/ Run(c) \/ Leave(c)
          \/ HubRegister(c) \/ HubUnregister(c)
          \/ CloseClient(c) \/ ChatReceive(c)
    \/ ListenerReceive \/ ListenerLookup \/ ListenerSend

Spec == Init /\ [][Next]_vars

\* Handlers, the hub and the listener keep running unless the process is
\* gone; nobody promises that a doll connects or hangs up, that a
\* transcription arrives, or that a chat service takes its input.
Fairness ==
    /\ \A c \in Conns :
        /\ WF_vars(CheckDevice(c))
        /\ WF_vars(HubRegister(c))
        /\ WF_vars(Run(c))
        /\ WF_vars(Leave(c))
        /\ WF_vars(HubUnregister(c))
    /\ WF_vars(ListenerLookup)
    /\ WF_vars(ListenerSend)

FairSpec == Spec /\ Fairness

------------------------------------------------------------------------------
(* Properties *)

Live(c) == c \in clients /\ c \notin closed

\* What the check of Handler gives: two live clients of one device can only
\* come from look-ups that overlapped, each begun before the other client was
\* registered.  That such clients exist at all (two handlers pass the check of
\* handler.go line 80 before either has registered) disagrees with "Only one
\* WebSocket connection allowed per device ID" and "One device = one
\* connection" (WEBSOCKET_ROUTING_README.md lines 13 and 131).
DuplicateOnlyByRace ==
    \A c, d \in Conns :
        c # d /\ DeviceOf[c] = DeviceOf[d] /\ Live(c) /\ Live(d)
            => c \notin view[d] /\ d \notin view[c]

\* One listener serves all dolls: whatever becomes of the client it has looked
\* up, closed and replaced before SendInput or with a chat service that takes
\* nothing, the listener comes back for the next transcription.
ListenerGoesOn == lpc # "receive" ~> lpc = "receive" \/ crashed

\* A closed client leaves the map, and its device can connect again.
ClosedLeaves ==
    \A c \in Conns : c \in closed ~> c \notin clients \/ crashed
==============================================================================

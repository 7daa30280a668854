------------------------------- MODULE Mailbox -------------------------------
(***************************************************************************)
(* What the message broker promises its callers, without channels, locks,  *)
(* polling or forwarders: a message whose Publish returned nil waits in    *)
(* the queue of its key, the queue of a key is handed over in order, each  *)
(* message once, and nothing queued waits for ever.  Only a shutdown may   *)
(* cut queues short.                                                       *)
(***************************************************************************)
EXTENDS Naturals, Sequences, SequencesExt

CONSTANTS Calls,        \* Publish calls, one message each
          Keys,         \* topic/routing-key pairs
          KeyOf         \* the key every call publishes to

VARIABLES open,         \* no shutdown yet
          accepted,     \* the calls that returned nil
          queue,        \* per key, the messages accepted and not handed over
          delivered     \* every message handed to a reader, in order

vars == <<open, accepted, queue, delivered>>

Init == /\ open = TRUE
        /\ accepted = {}
        /\ queue = [k \in Keys |-> <<>>]
        /\ delivered = <<>>

\* A message is accepted; after the shutdown it may be accepted and lost.
Put(m) == /\ m \notin accepted
          /\ accepted' = accepted \cup {m}
          /\ \/ queue' = [queue EXCEPT ![KeyOf[m]] = Append(@, m)]
             \/ ~open /\ UNCHANGED queue
          /\ UNCHANGED <<open, delivered>>

Take(k) == /\ queue[k] # <<>>
           /\ delivered' = Append(delivered, Head(queue[k]))
           /\ queue' = [queue EXCEPT ![k] = Tail(@)]
           /\ UNCHANGED <<open, accepted>>

\* The shutdown keeps a prefix of every queue.
Stop == /\ open
        /\ open' = FALSE
        /\ DOMAIN queue' = Keys
        /\ \A k \in Keys : IsPrefix(queue'[k], queue[k])
        /\ UNCHANGED <<accepted, delivered>>

Next == \/ \E m \in Calls : Put(m)
        \/ \E k \in Keys : Take(k)
        \/ Stop

Spec == Init /\ [][Next]_vars

FairSpec == Spec /\ \A k \in Keys : WF_vars(Take(k))
==============================================================================

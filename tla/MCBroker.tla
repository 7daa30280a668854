------------------------------ MODULE MCBroker -------------------------------
(***************************************************************************)
(* Instances of Broker for TLC.                                            *)
(***************************************************************************)
EXTENDS Broker

CONSTANTS c1, c2, c3, c4, s1

\* Three transcriptions, two of them on one key and one after the other, and
\* a message on a topic whose name begins with the name of the listened one.
MCTopics == {<<"t">>, <<"t", "x">>}
MCListenTopic == <<"t">>

MCTopicOf == [c \in Chans |->
    IF c \in {c4, s1} THEN <<"t", "x">> ELSE <<"t">>]

MCRoutingKeyOf == [c \in Chans |->
    CASE c \in {c1, c2} -> <<"k1">>
      [] c = c3         -> <<"k2">>
      [] OTHER          -> <<"k3">>]

MCAfter == [c \in Chans |->
    CASE c = c2 -> {c1} [] c = c4 -> {s1} [] OTHER -> {}]
==============================================================================

------------------------------ MODULE BytePipe -------------------------------
(***************************************************************************)
(* What streaming playback promises: bytes go in in chunks and come out in *)
(* frames, each once and in order, until the pipe is shut.  Bytes are      *)
(* numbered in the order they are received.                                *)
(***************************************************************************)
EXTENDS Naturals, Sequences

CONSTANTS ChunkSizes, Frame

VARIABLES sent,     \* number of bytes put into the pipe so far
          pipe,     \* the bytes inside, oldest first
          played    \* the bytes that came out

vars == <<sent, pipe, played>>

Init == sent = 0 /\ pipe = <<>> /\ played = <<>>

Push(n) == /\ sent' = sent + n
           /\ pipe' = pipe \o [i \in 1..n |-> sent + i]
           /\ UNCHANGED played

Pop == /\ Len(pipe) >= Frame
       /\ played' = played \o SubSeq(pipe, 1, Frame)
       /\ pipe' = SubSeq(pipe, Frame + 1, Len(pipe))
       /\ UNCHANGED sent

Shut == pipe' = <<>> /\ UNCHANGED <<sent, played>>

Next == (\E n \in ChunkSizes : Push(n)) \/ Pop \/ Shut

Spec == Init /\ [][Next]_vars
==============================================================================

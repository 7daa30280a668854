-------------------------------- MODULE MCHub --------------------------------
(***************************************************************************)
(* Instances of Hub for TLC: one device that connects three times, and     *)
(* transcriptions for it and for a device that is not there.               *)
(***************************************************************************)
EXTENDS Hub

CONSTANTS devA, devB

MCDeviceOf == [c \in Conns |-> devA]
==============================================================================

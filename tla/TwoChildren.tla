----------------------------- MODULE TwoChildren -----------------------------
(***************************************************************************)
(* One rcopy whose FILENAME datagram the network delivers twice: the main  *)
(* server forks a child for each copy (server.c:43-57), and both serve the *)
(* one socket of rcopy.  rcopy does not know them apart: recvfrom stores   *)
(* the address of the last sender in serverAddress (rcopy.c:96, 174, 293), *)
(* and the next RR or SREJ goes there.  So either child is answered for    *)
(* packets that the other one sent.                                        *)
(*                                                                         *)
(* Transfer is what rcopy and one child do: One and Two are Transfer with  *)
(* either child, the same rcopy, and a queue of its own in each direction. *)
(* Since the queues are not ordered among each other, how the datagrams of *)
(* the two children interleave is left open.                               *)
(***************************************************************************)
EXTENDS Window

CONSTANTS MaxTries, MaxInFlight

ASSUME MaxTriesAssumption == MaxTries \in Nat \ {0}
ASSUME MaxInFlightAssumption == MaxInFlight \in Nat

VARIABLES
  toClient1, toServer1, sstate1, swin1, scount1, offset1, scause1,
  toClient2, toServer2, sstate2, swin2, scount2, offset2, scause2,
  rstate, rwin, rcount, out, rcause,
  peer  \* serverAddress: 1 (or the main server) or 2

One == INSTANCE Transfer WITH
  toClient <- toClient1, toServer <- toServer1, sstate <- sstate1, swin <- swin1,
  scount <- scount1, offset <- offset1, scause <- scause1

Two == INSTANCE Transfer WITH
  toClient <- toClient2, toServer <- toServer2, sstate <- sstate2, swin <- swin2,
  scount <- scount2, offset <- offset2, scause <- scause2

child1 == <<sstate1, swin1, scount1, offset1, scause1>>
child2 == <<sstate2, swin2, scount2, offset2, scause2>>
side1  == <<toClient1, toServer1, child1>>
side2  == <<toClient2, toServer2, child2>>
rcopy  == <<rstate, rwin, rcount, out, rcause>>
vars   == <<side1, side2, rcopy, peer>>

Init == One!Init /\ Two!Init /\ peer = 1

-----------------------------------------------------------------------------
\* The network has a second copy of FILENAME for the main server.
DuplicateFilename ==
  /\ sstate1 = "NONE" /\ sstate2 = "NONE"
  /\ toServer1 # <<>> /\ toServer2 = <<>>
  /\ toServer2' = toServer1
  /\ UNCHANGED <<side1, toClient2, child2, rcopy, peer>>

ChildStep ==
  \/ One!ServerStep /\ UNCHANGED side2
  \/ Two!ServerStep /\ UNCHANGED side1

\* recvfrom takes a datagram of either child and remembers which; a step that
\* receives none sends to the child of the last one.
RcopyStep ==
  \/ /\ One!RcopyStep
     /\ toClient1' # toClient1 \/ peer = 1
     /\ peer' = 1
     /\ UNCHANGED <<child1, side2>>
  \/ /\ Two!RcopyStep
     /\ toClient2' # toClient2 \/ peer = 2
     /\ peer' = 2
     /\ UNCHANGED <<child2, side1>>

\* Another socket: both children are left behind, and serverAddress is filled
\* in with the main server's again.
Retry ==
  /\ One!Retry /\ Two!Retry
  /\ peer' = 1

\* A corrupted datagram is one that is lost, as far as these properties go.
Drop ==
  \/ (One!DropToClient \/ One!DropToServer) /\ UNCHANGED <<child1, side2>>
  \/ (Two!DropToClient \/ Two!DropToServer) /\ UNCHANGED <<child2, side1>>

Next ==
  \/ DuplicateFilename
  \/ ChildStep /\ UNCHANGED <<rcopy, peer>>
  \/ RcopyStep
  \/ Retry
  \/ Drop /\ UNCHANGED <<rcopy, peer>>
  \/ One!Terminated /\ Two!Terminated /\ UNCHANGED peer

Spec == Init /\ [][Next]_vars

-----------------------------------------------------------------------------
(***************************************************************************)
(* What two children cannot break: neither releases a packet that rcopy    *)
(* has not written (server.c:218-222), although either takes an RR for     *)
(* what the other one sent.                                                *)
(***************************************************************************)
ReleasedOnlyWritten == swin1.lower <= Len(out) /\ swin2.lower <= Len(out)

(***************************************************************************)
(* And rcopy's own window stays sound: no packet of either child lands in  *)
(* a slot that belongs to another number (window.c:86-108), in_order       *)
(* starts with an empty buffer and buffering always waits for a gap.       *)
(***************************************************************************)
BufferStaysSound == One!BufferSound

(***************************************************************************)
(* "frame you are sending - lower <= current <= upper" (window.h:20), in   *)
(* the window of each child.                                               *)
(***************************************************************************)
LowerUpToCurrent ==
  /\ swin1.lower <= swin1.current /\ swin1.current <= swin1.upper
  /\ swin2.lower <= swin2.current /\ swin2.current <= swin2.upper
=============================================================================

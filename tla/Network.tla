------------------------------ MODULE Network ------------------------------
(***************************************************************************)
(* The two UDP sockets of one transfer, as a queue of datagrams in each    *)
(* direction, and what may happen to a datagram between sendtoErr and      *)
(* recvfrom.  The error library decides when a datagram is sent whether it *)
(* is dropped or has a byte inverted; since nobody looks at a datagram     *)
(* before it is the oldest of its queue, its fate is chosen there.         *)
(* Datagrams between two sockets stay in order here; ReorderedTransfer     *)
(* lifts that.                                                             *)
(***************************************************************************)
EXTENDS Pdu

CONSTANTS
  MaxTries,      \* consecutive timeouts before a side gives up; 10 in the code
  MaxInFlight    \* no resend timer fires while this many datagrams are queued

ASSUME MaxTriesAssumption == MaxTries \in Nat \ {0}
ASSUME MaxInFlightAssumption == MaxInFlight \in Nat

VARIABLES toClient,   \* datagrams on their way to rcopy's socket
          toServer    \* datagrams on their way to the server (main or child)

networkVars == <<toClient, toServer>>

\* The bound on the network: a timeout that resends waits for room.
TimerMayFire == Len(toClient) + Len(toServer) < MaxInFlight

\* errorDrop::run returns 2 and sendto_Err sends nothing.  A datagram for a
\* socket whose process has exited is lost in the same way.
DropToClient ==
  /\ toClient # <<>>
  /\ toClient' = Tail(toClient)
  /\ UNCHANGED toServer

DropToServer ==
  /\ toServer # <<>>
  /\ toServer' = Tail(toServer)
  /\ UNCHANGED toClient

\* errorFlipBits::run inverts one byte of the datagram.
FlipToClient ==
  /\ toClient # <<>>
  /\ ~processPDU_ISSUE(Head(toClient))
  /\ toClient' = [toClient EXCEPT ![1] = CorruptedByServer]
  /\ UNCHANGED toServer

FlipToServer ==
  /\ toServer # <<>>
  /\ ~processPDU_ISSUE(Head(toServer))
  /\ toServer' = [toServer EXCEPT ![1] = CorruptedByRcopy]
  /\ UNCHANGED toClient
=============================================================================

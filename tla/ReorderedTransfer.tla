-------------------------- MODULE ReorderedTransfer --------------------------
(***************************************************************************)
(* Transfer over a network that may also deliver two datagrams of one      *)
(* direction in the other order, as UDP allows: what is left of the        *)
(* guarantees of Transfer, none of which the code defends with more than   *)
(* its sequence numbers.                                                   *)
(***************************************************************************)
EXTENDS Transfer

\* The queue s with its i-th and (i+1)-th datagrams exchanged.
Swap(s, i) == [s EXCEPT ![i] = s[i + 1], ![i + 1] = s[i]]

ReorderToClient ==
  /\ \E i \in 1 .. Len(toClient) - 1 : toClient' = Swap(toClient, i)
  /\ UNCHANGED toServer

ReorderToServer ==
  /\ \E i \in 1 .. Len(toServer) - 1 : toServer' = Swap(toServer, i)
  /\ UNCHANGED toClient

ReorderedNext ==
  \/ Next
  \/ (ReorderToClient \/ ReorderToServer) /\ UNCHANGED <<serverVars, rcopyVars>>

ReorderedSpec == Init /\ [][ReorderedNext]_vars

-----------------------------------------------------------------------------
(***************************************************************************)
(* What reordering cannot break: after its first chunk the to-file is      *)
(* still the from-file, chunk for chunk, and all of it when rcopy ends at  *)
(* EOF.  A stale SREJ may make the server send the wrong slot, but only    *)
(* under a number rcopy has passed.                                        *)
(***************************************************************************)
OutputIsPrefixAfterFirst ==
  /\ Len(out) <= Len(File)
  /\ rcause = "complete" => Len(out) = Len(File)
  /\ \A i \in 2 .. Len(out) : out[i] = File[i]

(***************************************************************************)
(* And the server's window still trails rcopy's: an RR can only be late,   *)
(* never early, so no packet is released before rcopy has it.              *)
(***************************************************************************)
ReleasedOnlyWritten ==
  /\ swin.lower <= Len(out)
  /\ swin.upper = swin.lower + WindowSize

(***************************************************************************)
(* The packet that in_order writes is the "current data packet"            *)
(* (rcopy.c:202), and both.h:43 keeps a flag of its own for "the response  *)
(* to the filename packet": no byte of a response is in the to-file.       *)
(***************************************************************************)
OnlyDataWritten == \A i \in 1 .. Len(out) : out[i] \in Chunk

(***************************************************************************)
(* "memcpy into the PDU we send it the PDU; returns pduLength"             *)
(* (window.h:43): the get_PDU of resend_data_packet, which uses what it    *)
(* returns as a length at once, finds a PDU.                               *)
(***************************************************************************)
ResendFindsPDU == sstate # "CRASHED"
=============================================================================

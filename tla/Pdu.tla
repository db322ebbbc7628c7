-------------------------------- MODULE Pdu --------------------------------
(***************************************************************************)
(* The packets of the protocol (pdu.c, the flags of both.h).  A PDU is a   *)
(* sequence number, a flag and a payload; the checksum is modelled by what *)
(* processPDU learns from it: Corrupted stands for every datagram whose    *)
(* checksum does not come out as zero, of which the programs look at       *)
(* nothing else.                                                           *)
(*                                                                         *)
(* The payload of a data packet is the chunk of the file that one read()   *)
(* of buffer_size bytes returned, so a file is a sequence of chunks.       *)
(***************************************************************************)
EXTENDS Integers, Sequences

CONSTANTS Chunk, File

ASSUME FileAssumption == File \in Seq(Chunk)

\* What the server sends.  FILE_RESPONSE is FILENAME_RESPONSE_FLAG.
DataFlags == {"DATA", "RESENT_SREJ", "RESENT_TIMEOUT"}
ServerFlags == DataFlags \cup {"FILE_RESPONSE", "EOF", "CORRUPT"}

\* What rcopy sends.
RcopyFlags == {"FILENAME", "RR", "SREJ", "EOF_ACK", "CORRUPT"}

Payload == Chunk \cup {"FILE_OK", "FILE_NOT_OK", "NONE"}

ServerPdu == [seq : Nat, flag : ServerFlags, payload : Payload]

(***************************************************************************)
(* rcopy numbers its own packets (sendSequenceNum) but the server never    *)
(* reads that number except to echo the 0 of the FILENAME packet in the    *)
(* response, so only the number in the payload of an RR or SREJ is kept.   *)
(***************************************************************************)
RcopyPdu == [flag : RcopyFlags, num : Nat]

createPDU(sequenceNumber, flag, payload) ==
  [seq |-> sequenceNumber, flag |-> flag, payload |-> payload]

rcopyPDU(flag, number) == [flag |-> flag, num |-> number]

\* processPDU returns -1: the checksum of the datagram is not zero.
processPDU_ISSUE(aPDU) == aPDU.flag = "CORRUPT"

CorruptedByServer == createPDU(0, "CORRUPT", "NONE")
CorruptedByRcopy  == rcopyPDU("CORRUPT", 0)
=============================================================================

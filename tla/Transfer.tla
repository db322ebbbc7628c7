------------------------------ MODULE Transfer ------------------------------
(***************************************************************************)
(* One run of rcopy against a server: rcopy, the child the server forks    *)
(* for it, and the network between them.                                   *)
(***************************************************************************)
EXTENDS Server, Rcopy

vars == <<networkVars, serverVars, rcopyVars>>

Init ==
  /\ toClient = <<>>
  /\ toServer = <<>>
  /\ NoChild
  /\ RcopyInit

Retry == filename_retry /\ OrphanChild

NetworkStep ==
  \/ DropToClient \/ DropToServer
  \/ FlipToClient \/ FlipToServer

\* Both programs have exited (or the last FILENAME packet was lost).
Terminated ==
  /\ rstate = "DONE"
  /\ sstate \in {"NONE", "DONE", "CRASHED"}
  /\ UNCHANGED vars

Next ==
  \/ ServerStep /\ UNCHANGED rcopyVars
  \/ RcopyStep /\ UNCHANGED serverVars
  \/ Retry
  \/ NetworkStep /\ UNCHANGED <<serverVars, rcopyVars>>
  \/ Terminated

Spec == Init /\ [][Next]_vars

-----------------------------------------------------------------------------
WindowType == [array   : [Slots -> ServerPdu \cup {NULL}],
               upper   : Nat,
               lower   : Nat,
               current : Nat,
               highest : Nat]

\* The values of the variables of both programs and of the two queues.
TypeOK ==
  /\ toClient \in Seq(ServerPdu)
  /\ toServer \in Seq(RcopyPdu)
  /\ sstate \in ServerStates
  /\ swin \in WindowType
  /\ scount \in 0 .. MaxTries
  /\ offset \in 0 .. Len(File)
  /\ scause \in ServerCauses
  /\ rstate \in RcopyStates
  /\ rwin \in WindowType
  /\ rcount \in 0 .. MaxTries
  /\ out \in Seq(Payload)
  /\ rcause \in RcopyCauses

(***************************************************************************)
(* What rcopy has written is a prefix of the from-file, whatever was lost, *)
(* corrupted, resent, buffered and flushed on the way: no chunk is missing *)
(* from the middle, written twice, or another packet's payload.            *)
(***************************************************************************)
OutputIsPrefix ==
  /\ Len(out) <= Len(File)
  /\ \A i \in 1 .. Len(out) : out[i] = File[i]

(***************************************************************************)
(* When rcopy ends at EOF, when its EOF_ACK is on its way, and when the    *)
(* server has taken one, the to-file is the whole from-file.               *)
(***************************************************************************)
CompleteWhenAcked ==
  \/ rcause = "complete"
  \/ scause = "acked"
  \/ \E i \in 1 .. Len(toServer) : toServer[i].flag = "EOF_ACK"
  => out = File

(***************************************************************************)
(* The slot that an SREJ or a timeout makes the server resend still holds  *)
(* a packet (resend_data_packet has no answer for get_PDU's -1), and no    *)
(* datagram finds the server in a state that cannot take its flag.         *)
(***************************************************************************)
ServerAnswers ==
  /\ sstate # "CRASHED"
  /\ scause # "unexpected"

(***************************************************************************)
(* Every packet on its way to rcopy that is, or was resent as, data holds  *)
(* the chunk of its own sequence number, although resend_data_packet takes *)
(* it from slot number % window_size and puts the number on it afterwards; *)
(* EOF comes right after the last chunk.                                   *)
(***************************************************************************)
PacketsGenuine ==
  \A i \in 1 .. Len(toClient) :
    LET pdu == toClient[i] IN
      /\ pdu.flag \in DataFlags => /\ pdu.seq < Len(File)
                                   /\ pdu.payload = File[pdu.seq + 1]
      /\ pdu.flag = "EOF" => pdu.seq = Len(File)

(***************************************************************************)
(* The two windows stay within one window size of each other: the server   *)
(* has not removed a packet that rcopy has not written, rcopy expects no   *)
(* packet the server has not sent, and lower <= current <= upper on the    *)
(* server, upper being lower plus the window size (window.h).              *)
(***************************************************************************)
WindowsAgree ==
  /\ swin.lower <= rwin.current
  /\ sstate # "NONE" => rwin.current <= swin.current
  /\ swin.lower <= swin.current /\ swin.current <= swin.upper
  /\ swin.upper = swin.lower + WindowSize

(***************************************************************************)
(* No RR is behind the server's window when its turn comes: they arrive in *)
(* ascending order, from lower on, so after each of them lower is the RR   *)
(* (server.c:200) and an SREJ never names a packet an earlier RR released. *)
(***************************************************************************)
AnswersInOrder ==
  \A i, j \in 1 .. Len(toServer) :
    /\ toServer[i].flag \in {"RR", "SREJ"} => toServer[i].num >= swin.lower
    /\ /\ i < j
       /\ toServer[i].flag = "RR"
       /\ toServer[j].flag \in {"RR", "SREJ"}
       => toServer[i].num <= toServer[j].num

(***************************************************************************)
(* rcopy's buffer: a populated slot holds the packet of the one sequence   *)
(* number in current .. upper - 1 that maps to it, in_order starts with an *)
(* empty buffer, and buffering has a packet above a missing current.       *)
(***************************************************************************)
BufferSound ==
  /\ \A i \in Slots : rwin.array[i] # NULL =>
       LET pdu == rwin.array[i] IN
         /\ Index(pdu.seq) = i
         /\ pdu.seq \in rwin.current .. rwin.upper - 1
         /\ pdu.seq <= rwin.highest
  /\ rstate = "IN_ORDER" => \A i \in Slots : rwin.array[i] = NULL
  /\ rstate = "BUFFERING" => /\ ~checkPDUValid(rwin, rwin.current)
                             /\ rwin.current < rwin.highest

(***************************************************************************)
(* In buffering mode no EOF arrives for the expected number (the comment   *)
(* at rcopy.c:336): the branch that would pass over it is never taken.     *)
(***************************************************************************)
NoEOFWhileBuffering ==
  rstate = "BUFFERING" =>
    \A i \in 1 .. Len(toClient) :
      toClient[i].flag = "EOF" => toClient[i].seq > rwin.current

(***************************************************************************)
(* The response to the FILENAME packet has number 0 and is not EOF, so     *)
(* in_order would write it to the to-file as the first chunk: it never     *)
(* gets there, even when a data packet stood in for it.                    *)
(***************************************************************************)
ResponseComesFirst ==
  \A i \in 1 .. Len(toClient) :
    toClient[i].flag = "FILE_RESPONSE" =>
      /\ i = 1
      /\ rstate \in {"FILENAME_POLL", "DONE"}

(***************************************************************************)
(* filename() "returns DONE if timeout and send 10 times OR recevied BAD   *)
(* FILE (NOT OK) else FILE_OKAY if all good" (rcopy.c:68).  That is so for *)
(* a file that fills the window: when FILE_OK is lost, a data packet       *)
(* arrives in its place, sent or resent, or nothing.  Behind a shorter     *)
(* file the child sends EOF at once, and an EOF in place of FILE_OK ends   *)
(* rcopy without a retry (rcopy.c:125).                                    *)
(***************************************************************************)
FilenameOutcome == WindowSize <= Len(File) => rcause # "unexpected"

-----------------------------------------------------------------------------
\* How the run looks to the user of rcopy.
CopyStatus == IF rstate # "DONE" THEN "copying"
              ELSE IF rcause = "complete" THEN "complete" ELSE "failed"

Copy == INSTANCE FileCopy WITH written <- out, status <- CopyStatus

(***************************************************************************)
(* Every step of the two programs and the network is a step of the copy or *)
(* leaves it alone: chunks are appended one by one from the from-file,     *)
(* success is reported only with the whole of it, and nothing is written   *)
(* after rcopy has ended.                                                  *)
(***************************************************************************)
ImplementsFileCopy == Copy!Spec
=============================================================================

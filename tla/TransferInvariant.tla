-------------------------- MODULE TransferInvariant --------------------------
(***************************************************************************)
(* The inductive invariants of Transfer, part by part.  None of the        *)
(* properties of Transfer is inductive as it stands: that rcopy writes the *)
(* right chunk depends on what its slots and the queue hold, that on what  *)
(* the server's slots held when it sent, and that on which RRs and SREJs   *)
(* are still on their way.                                                 *)
(*                                                                         *)
(* CoreInv is what holds in whatever order the network delivers datagrams, *)
(* so it is inductive for ReorderedTransfer as well.  OrderInv is what is  *)
(* true because datagrams between two sockets stay in order, and is only   *)
(* inductive together with it: IInv is both.                               *)
(***************************************************************************)
EXTENDS Transfer

DataPdu(n) == createPDU(n, "DATA", File[n + 1])
EofPdu     == createPDU(Len(File), "EOF", "NONE")

\* EOF may have been sent: the whole file has, and EOF has a slot in the
\* window.  The child may have crashed before it got to EOF.
EofSent ==
  /\ sstate \in {"EOF_WAIT", "DONE", "CRASHED"}
  /\ swin.current = Len(File)
  /\ swin.current < swin.upper

(***************************************************************************)
(* A packet the server really sent, as rcopy may receive or keep it.       *)
(***************************************************************************)
Genuine(pdu) ==
  \/ /\ pdu.flag \in DataFlags
     /\ pdu.seq < swin.current
     /\ pdu.payload = File[pdu.seq + 1]
  \/ /\ pdu.flag = "EOF"
     /\ pdu.seq = Len(File)
     /\ EofSent

-----------------------------------------------------------------------------
(***************************************************************************)
(* The server's window: what it sent and has no RR for is in its slots,    *)
(* the slots of what it may still send are free, and nothing but chunks    *)
(* and EOF is ever in one.                                                 *)
(***************************************************************************)
ServerInv ==
  /\ swin.upper = swin.lower + WindowSize
  /\ swin.lower <= swin.current
  /\ swin.current <= swin.upper
  /\ swin.current = offset
  /\ \A i \in Slots : swin.array[i] # NULL => swin.array[i].flag \in {"DATA", "EOF"}
  /\ \A n \in swin.lower .. swin.current - 1 : get_PDU(swin, n) = DataPdu(n)
  /\ sstate \notin {"EOF_WAIT", "DONE", "CRASHED"} =>
       \A n \in swin.current .. swin.upper - 1 : get_PDU(swin, n) = NULL
  /\ sstate = "WINDOW_CLOSED" => swin.current = swin.upper
  /\ sstate \in {"END_OF_FILE", "EOF_WAIT"} =>
       swin.current = Len(File) /\ swin.current < swin.upper
  /\ sstate = "EOF_WAIT" => get_PDU(swin, swin.current) = EofPdu
  /\ scause # "unexpected"

\* rcopy has not received anything yet, or only the response.
Handshake == rstate \in {"START", "FILENAME", "FILENAME_POLL", "FILE_OKAY"}

(***************************************************************************)
(* Before the transfer proper.                                             *)
(***************************************************************************)
HandshakeInv ==
  /\ sstate = "NONE" => /\ NoChild
                        /\ toClient = <<>>
                        /\ Len(toServer) <= 1
                        /\ rstate \in {"START", "FILENAME", "FILENAME_POLL", "DONE"}
  /\ rstate \in {"START", "FILENAME"} => sstate = "NONE" /\ toServer = <<>>
  /\ Handshake => /\ rwin = make_window
                  /\ swin.lower = 0
                  /\ \A i \in 1 .. Len(toServer) :
                       toServer[i].flag \in {"FILENAME", "CORRUPT"}

(***************************************************************************)
(* What is on its way to rcopy: genuine packets; what a late SREJ made the *)
(* server resend, under a number that rcopy has passed; and the response   *)
(* to FILENAME, once, with the number of the first chunk.                  *)
(***************************************************************************)
Stale(pdu) == pdu.flag # "FILE_RESPONSE" /\ pdu.seq < rwin.current

Response(pdu) ==
  /\ pdu.flag = "FILE_RESPONSE"
  /\ pdu.seq = 0
  /\ rstate \in {"FILENAME_POLL", "DONE"} \/ swin.current >= 1

ToClientInv ==
  /\ \A i \in 1 .. Len(toClient) :
       \/ processPDU_ISSUE(toClient[i])
       \/ Genuine(toClient[i])
       \/ Stale(toClient[i])
       \/ Response(toClient[i])
  /\ \A i, j \in 1 .. Len(toClient) :
       toClient[i].flag = "FILE_RESPONSE" /\ toClient[j].flag = "FILE_RESPONSE"
       => i = j

(***************************************************************************)
(* What is on its way to the server: RRs for what rcopy has, and SREJs for *)
(* what the server has sent.                                               *)
(***************************************************************************)
ToServerInv ==
  \A i \in 1 .. Len(toServer) :
    LET pdu == toServer[i] IN
      /\ pdu.flag = "RR" => pdu.num <= rwin.current
      /\ pdu.flag = "SREJ" => pdu.num < swin.current
      /\ pdu.flag = "EOF_ACK" => EofSent /\ rcause = "complete"
      /\ pdu.flag = "FILENAME" => sstate = "NONE"

\* A slot of rcopy's window is empty, or holds the one packet of the window
\* that belongs there.
SlotSound(window, i) ==
  window.array[i] # NULL =>
    LET pdu == window.array[i] IN
      /\ Genuine(pdu)
      /\ Index(pdu.seq) = i
      /\ window.current <= pdu.seq
      /\ pdu.seq < window.upper
      /\ pdu.seq <= window.highest

(***************************************************************************)
(* rcopy's window, its slots and its file.  The first chunk is left to     *)
(* OrderInv: a response that is late is written as if it were it.          *)
(***************************************************************************)
RcopyInv ==
  /\ rwin.lower = rwin.current
  /\ rwin.upper = rwin.current + WindowSize
  /\ swin.lower <= rwin.current
  /\ rwin.current <= swin.current
  /\ rwin.highest <= swin.current
  /\ Len(out) = rwin.current
  /\ \A i \in 2 .. Len(out) : out[i] = File[i]
  /\ \A i \in Slots : SlotSound(rwin, i)
  /\ rstate = "IN_ORDER" => \A i \in Slots : rwin.array[i] = NULL
  /\ rstate \in {"BUFFERING", "FLUSH"} =>
       /\ rwin.current <= rwin.highest
       /\ rwin.highest < rwin.upper
       /\ checkPDUValid(rwin, rwin.highest)
  /\ rstate = "BUFFERING" => ~checkPDUValid(rwin, rwin.current)
  /\ rcause = "complete" => rstate = "DONE" /\ rwin.current = Len(File)
  /\ scause = "acked" => rcause = "complete"

CoreInv ==
  /\ TypeOK
  /\ ServerInv
  /\ HandshakeInv
  /\ ToClientInv
  /\ ToServerInv
  /\ RcopyInv

-----------------------------------------------------------------------------
(***************************************************************************)
(* The response is the first packet that rcopy receives, and the server    *)
(* resends nothing that rcopy has passed.                                  *)
(***************************************************************************)
ResponseFirst ==
  /\ Len(out) >= 1 => out[1] = File[1]
  /\ \A i \in 1 .. Len(toClient) :
       \/ processPDU_ISSUE(toClient[i])
       \/ Genuine(toClient[i])
       \/ /\ toClient[i].flag = "FILE_RESPONSE"
          /\ i = 1
          /\ rstate \in {"FILENAME_POLL", "DONE"}

(***************************************************************************)
(* RRs ascend, from lower on, and none releases a packet that a later SREJ *)
(* asks for: whatever the server is asked for, it has.                     *)
(***************************************************************************)
AnswersAscend ==
  /\ sstate # "CRASHED"
  /\ \A i \in 1 .. Len(toServer) :
       toServer[i].flag \in {"RR", "SREJ"} => swin.lower <= toServer[i].num
  /\ \A i, j \in 1 .. Len(toServer) :
       /\ i < j
       /\ toServer[i].flag = "RR"
       /\ toServer[j].flag \in {"RR", "SREJ"}
       => toServer[i].num <= toServer[j].num

OrderInv == ResponseFirst /\ AnswersAscend

\* The whole of it.
IInv == CoreInv /\ OrderInv

-----------------------------------------------------------------------------
(***************************************************************************)
(* What is left of CoreInv when another child serves the same rcopy (see   *)
(* TwoChildren).  rcopy may be ahead of this child, and the child may be   *)
(* told of packets that it has not sent, so nothing is said of the file,   *)
(* of the server's slots or of the handshake; only the counters and the    *)
(* numbers under way are left.                                             *)
(***************************************************************************)
SideInv ==
  /\ swin.upper = swin.lower + WindowSize
  /\ swin.lower <= rwin.current
  /\ sstate \in {"END_OF_FILE", "EOF_WAIT"} => swin.current < swin.upper
  /\ \A i \in 1 .. Len(toClient) : toClient[i].seq < rwin.upper
  /\ \A i \in 1 .. Len(toServer) :
       /\ toServer[i].flag = "RR" => toServer[i].num <= rwin.current
       /\ toServer[i].flag = "SREJ" => toServer[i].num < rwin.upper

\* A slot is empty, or its packet has the number that belongs there.
SlotFits(window, i) ==
  window.array[i] # NULL =>
    LET pdu == window.array[i] IN
      /\ Index(pdu.seq) = i
      /\ window.current <= pdu.seq
      /\ pdu.seq < window.upper
      /\ pdu.seq <= window.highest

\* rcopy's window, whoever it is served by.
BufferInv ==
  /\ rwin.lower = rwin.current
  /\ rwin.upper = rwin.current + WindowSize
  /\ Len(out) = rwin.current
  /\ \A i \in Slots : SlotFits(rwin, i)
  /\ rstate \in {"START", "FILENAME", "FILENAME_POLL", "FILE_OKAY", "IN_ORDER"} =>
       \A i \in Slots : rwin.array[i] = NULL
  /\ rstate \in {"BUFFERING", "FLUSH"} =>
       /\ rwin.current <= rwin.highest
       /\ rwin.highest < rwin.upper
       /\ checkPDUValid(rwin, rwin.highest)
  /\ rstate = "BUFFERING" => ~checkPDUValid(rwin, rwin.current)
=============================================================================

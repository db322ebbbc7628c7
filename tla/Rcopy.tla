------------------------------- MODULE Rcopy -------------------------------
(***************************************************************************)
(* rcopy.c: the client, from start to exit.  The states are those of enum  *)
(* State; FILENAME_POLL is filename() between safeSendto and the answer of *)
(* pollCall(ONE_SEC).  out is what has been written to the to-file, chunk  *)
(* by chunk, and rcause which return ended the program, which exits with   *)
(* status 0 in every case.                                                 *)
(***************************************************************************)
EXTENDS Window, Network

VARIABLES rstate, rwin, rcount, out, rcause

rcopyVars == <<rstate, rwin, rcount, out, rcause>>

RcopyStates == {"START", "FILENAME", "FILENAME_POLL", "FILE_OKAY", "IN_ORDER",
                "BUFFERING", "FLUSH", "DONE"}
RcopyCauses == {"none", "no_answer", "bad_file", "unexpected", "open_failed",
                "write_failed", "timeout", "complete"}

RcopyInit ==
  /\ rstate = "START"
  /\ rwin = make_window
  /\ rcount = 0
  /\ out = <<>>
  /\ rcause = "none"

RcopyExits(cause) == rstate' = "DONE" /\ rcause' = cause
RcopyGoes(state)  == rstate' = state /\ UNCHANGED rcause

\* One SREJ for each of lo .. hi - 1, in this order.
SREJs(lo, hi) == [k \in 1 .. hi - lo |-> rcopyPDU("SREJ", lo + k - 1)]

\* Mutant: the RR is one ahead.
sendRR_next(number) == toServer' = Append(toServer, rcopyPDU("RR", number + 1))

sendRR(number) == toServer' = Append(toServer, rcopyPDU("RR", number))

sendEOF_ACK == toServer' = Append(toServer, rcopyPDU("EOF_ACK", 0))

-----------------------------------------------------------------------------
start ==
  /\ rstate = "START"
  /\ RcopyGoes("FILENAME")
  /\ UNCHANGED <<networkVars, rwin, rcount, out>>

\* Head of the loop of filename(): the FILENAME packet goes out (again).
filename_send ==
  /\ rstate = "FILENAME"
  /\ toServer' = Append(toServer, rcopyPDU("FILENAME", 0))
  /\ RcopyGoes("FILENAME_POLL")
  /\ UNCHANGED <<toClient, rwin, rcount, out>>

\* Mutant: only a data packet that is sent for the first time counts.
filename_recv_no_resent ==
  /\ rstate = "FILENAME_POLL"
  /\ toClient # <<>>
  /\ toClient' = Tail(toClient)
  /\ LET pdu == Head(toClient) IN
       \/ /\ pdu.flag = "FILE_RESPONSE"
          /\ pdu.payload = "FILE_OK"
          /\ RcopyGoes("FILE_OKAY")
       \/ /\ pdu.flag = "FILE_RESPONSE"
          /\ pdu.payload # "FILE_OK"
          /\ RcopyExits("bad_file")
       \/ /\ pdu.flag = "DATA"
          /\ RcopyGoes("FILE_OKAY")
       \/ /\ pdu.flag \in {"EOF", "RESENT_SREJ", "RESENT_TIMEOUT"}
          /\ RcopyExits("unexpected")
  /\ UNCHANGED <<toServer, rwin, rcount, out>>

\* An intact packet came.  A data packet counts as FILE_OK and is lost; any
\* other flag ends rcopy.
filename_recv ==
  /\ rstate = "FILENAME_POLL"
  /\ toClient # <<>>
  /\ toClient' = Tail(toClient)
  /\ LET pdu == Head(toClient) IN
       \/ /\ pdu.flag = "FILE_RESPONSE"
          /\ pdu.payload = "FILE_OK"
          /\ RcopyGoes("FILE_OKAY")
       \/ /\ pdu.flag = "FILE_RESPONSE"
          /\ pdu.payload # "FILE_OK"
          /\ RcopyExits("bad_file")
       \/ /\ pdu.flag \in {"DATA", "RESENT_TIMEOUT"}
          /\ RcopyGoes("FILE_OKAY")
       \/ /\ pdu.flag \in {"EOF", "RESENT_SREJ"}
          /\ RcopyExits("unexpected")
  /\ UNCHANGED <<toServer, rwin, rcount, out>>

\* Mutant: the same socket is used again.
filename_retry_same_socket ==
  /\ rstate = "FILENAME_POLL"
  /\ rcount + 1 < MaxTries
  /\ rcount' = rcount + 1
  /\ RcopyGoes("FILENAME")
  /\ UNCHANGED <<networkVars, rwin, out>>

\* The second is over, or what came is corrupted: close the socket and open
\* another.  Nothing sent to or from the old socket matters any more.
filename_retry ==
  /\ rstate = "FILENAME_POLL"
  /\ rcount + 1 < MaxTries
  /\ rcount' = rcount + 1
  /\ toClient' = <<>>
  /\ toServer' = <<>>
  /\ RcopyGoes("FILENAME")
  /\ UNCHANGED <<rwin, out>>

filename_give_up ==
  /\ rstate = "FILENAME_POLL"
  /\ rcount + 1 = MaxTries
  /\ rcount' = rcount + 1
  /\ RcopyExits("no_answer")
  /\ UNCHANGED <<networkVars, rwin, out>>

\* open(O_CREAT | O_TRUNC | O_WRONLY) of the to-file.
file_okay ==
  /\ rstate = "FILE_OKAY"
  /\ \/ RcopyGoes("IN_ORDER")
     \/ RcopyExits("open_failed")
  /\ UNCHANGED <<networkVars, rwin, rcount, out>>

-----------------------------------------------------------------------------
\* An intact datagram for in_order or buffering.
Received == Head(toClient)

Receives(state) ==
  /\ rstate = state
  /\ toClient # <<>>
  /\ ~processPDU_ISSUE(Received)
  /\ toClient' = Tail(toClient)
  /\ UNCHANGED rcount

\* A corrupted one: in_order returns to itself, buffering polls again.
discard ==
  /\ rstate \in {"IN_ORDER", "BUFFERING"}
  /\ toClient # <<>>
  /\ processPDU_ISSUE(Received)
  /\ toClient' = Tail(toClient)
  /\ UNCHANGED <<toServer, rcopyVars>>

\* pollCall(TEN_SEC) expired.
ten_sec_timeout ==
  /\ rstate \in {"IN_ORDER", "BUFFERING"}
  /\ RcopyExits("timeout")
  /\ UNCHANGED <<networkVars, rwin, rcount, out>>

\* Mutant: the result of write() is ignored.
WriteCurrent_unchecked(payload, window, state) ==
  /\ out' = Append(out, payload) \/ UNCHANGED out
  /\ rwin' = window
  /\ sendRR(window.current)
  /\ RcopyGoes(state)

\* write() of the packet at current: all of it, then the window moves and
\* the RR goes out; or less than that, and rcopy ends (the bytes of a short
\* write are not a chunk).
WriteCurrent(payload, window, state) ==
  \/ /\ out' = Append(out, payload)
     /\ rwin' = window
     /\ sendRR(window.current)
     /\ RcopyGoes(state)
  \/ /\ RcopyExits("write_failed")
     /\ UNCHANGED <<toServer, rwin, out>>

-----------------------------------------------------------------------------
\* The expected packet, whatever its flag is, unless it is EOF.
in_order_expected ==
  /\ Receives("IN_ORDER")
  /\ Received.seq = rwin.current
  /\ Received.flag # "EOF"
  /\ WriteCurrent(Received.payload,
                  advance(updateHighest(rwin, Received.seq)), "IN_ORDER")

\* Mutant: any EOF ends the transfer.
in_order_eof_any ==
  /\ Receives("IN_ORDER")
  /\ Received.flag = "EOF"
  /\ sendEOF_ACK
  /\ RcopyExits("complete")
  /\ UNCHANGED <<rwin, out>>

in_order_eof ==
  /\ Receives("IN_ORDER")
  /\ Received.seq = rwin.current
  /\ Received.flag = "EOF"
  /\ sendEOF_ACK
  /\ RcopyExits("complete")
  /\ UNCHANGED <<rwin, out>>

\* Packets are missing: reject each of them and keep this one.
in_order_ahead ==
  /\ Receives("IN_ORDER")
  /\ Received.seq > rwin.current
  /\ toServer' = toServer \o SREJs(rwin.current, Received.seq)
  /\ rwin' = add_PDU(updateHighest(rwin, Received.seq), Received, Received.seq)
  /\ RcopyGoes("BUFFERING")
  /\ UNCHANGED out

\* Mutant: the RR is for the packet that came.
in_order_old_received ==
  /\ Receives("IN_ORDER")
  /\ Received.seq < rwin.current
  /\ sendRR(Received.seq + 1)
  /\ UNCHANGED <<rstate, rwin, out, rcause>>

in_order_old ==
  /\ Receives("IN_ORDER")
  /\ Received.seq < rwin.current
  /\ sendRR(rwin.lower)
  /\ UNCHANGED <<rstate, rwin, out, rcause>>

-----------------------------------------------------------------------------
\* Keep the packet; reject what is missing between highest and it.
buffering_ahead ==
  /\ Receives("BUFFERING")
  /\ Received.seq > rwin.current
  /\ toServer' = toServer \o SREJs(rwin.highest + 1, Received.seq)
  /\ rwin' = updateHighest(add_PDU(rwin, Received, Received.seq),
                           IF rwin.highest < Received.seq
                             THEN Received.seq ELSE rwin.highest)
  /\ UNCHANGED <<rstate, out, rcause>>

\* The missing packet.  An EOF here is passed over in silence.
buffering_expected ==
  /\ Receives("BUFFERING")
  /\ Received.seq = rwin.current
  /\ IF Received.flag # "EOF"
       THEN WriteCurrent(Received.payload, advance(rwin), "FLUSH")
       ELSE UNCHANGED <<toServer, rstate, rwin, out, rcause>>

buffering_old ==
  /\ Receives("BUFFERING")
  /\ Received.seq < rwin.current
  /\ sendRR(rwin.current)
  /\ UNCHANGED <<rstate, rwin, out, rcause>>

-----------------------------------------------------------------------------
\* Mutants: the slot is not emptied; the comparison with highest is >=; it is
\* not made at all.
flush_write_no_remove ==
  /\ rstate = "FLUSH"
  /\ checkPDUValid(rwin, rwin.current)
  /\ get_PDU(rwin, rwin.current).flag # "EOF"
  /\ WriteCurrent(get_PDU(rwin, rwin.current).payload, advance(rwin),
                  IF rwin.current + 1 > rwin.highest THEN "IN_ORDER" ELSE "FLUSH")
  /\ UNCHANGED <<toClient, rcount>>

flush_write_early ==
  /\ rstate = "FLUSH"
  /\ checkPDUValid(rwin, rwin.current)
  /\ get_PDU(rwin, rwin.current).flag # "EOF"
  /\ WriteCurrent(get_PDU(rwin, rwin.current).payload,
                  advance(remove_PDU(rwin, rwin.current)),
                  IF rwin.current + 1 >= rwin.highest THEN "IN_ORDER" ELSE "FLUSH")
  /\ UNCHANGED <<toClient, rcount>>

flush_write_no_highest ==
  /\ rstate = "FLUSH"
  /\ checkPDUValid(rwin, rwin.current)
  /\ get_PDU(rwin, rwin.current).flag # "EOF"
  /\ WriteCurrent(get_PDU(rwin, rwin.current).payload,
                  advance(remove_PDU(rwin, rwin.current)), "FLUSH")
  /\ UNCHANGED <<toClient, rcount>>

\* One turn of the loop of flush: the packet at current is written ...
flush_write ==
  /\ rstate = "FLUSH"
  /\ checkPDUValid(rwin, rwin.current)
  /\ get_PDU(rwin, rwin.current).flag # "EOF"
  /\ WriteCurrent(get_PDU(rwin, rwin.current).payload,
                  advance(remove_PDU(rwin, rwin.current)),
                  IF rwin.current + 1 > rwin.highest THEN "IN_ORDER" ELSE "FLUSH")
  /\ UNCHANGED <<toClient, rcount>>

\* ... or is EOF and ends the transfer ...
flush_eof ==
  /\ rstate = "FLUSH"
  /\ checkPDUValid(rwin, rwin.current)
  /\ get_PDU(rwin, rwin.current).flag = "EOF"
  /\ sendEOF_ACK
  /\ RcopyExits("complete")
  /\ UNCHANGED <<toClient, rwin, rcount, out>>

\* ... or is missing.
flush_gap ==
  /\ rstate = "FLUSH"
  /\ ~checkPDUValid(rwin, rwin.current)
  /\ RcopyGoes("BUFFERING")
  /\ UNCHANGED <<networkVars, rwin, rcount, out>>

-----------------------------------------------------------------------------
\* filename_retry is left to the composition: it also leaves a child behind.
RcopyStep ==
  \/ start \/ filename_send \/ filename_recv \/ filename_give_up \/ file_okay
  \/ discard \/ ten_sec_timeout
  \/ in_order_expected \/ in_order_eof \/ in_order_ahead \/ in_order_old
  \/ buffering_ahead \/ buffering_expected \/ buffering_old
  \/ flush_write \/ flush_eof \/ flush_gap
=============================================================================

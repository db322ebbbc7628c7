------------------------------- MODULE Server -------------------------------
(***************************************************************************)
(* server.c: the child that serves one transfer, from the FILENAME packet  *)
(* that makes the main loop fork it to its exit.  The states are those of  *)
(* enum State; two of the handlers block or poll in the middle and are     *)
(* split there: WINDOW_OPEN_POLL is window_open between send_data_packet   *)
(* and the answer of pollCall(0), EOF_WAIT is end_of_file after send_eof.  *)
(* NONE is the time before the fork.                                       *)
(*                                                                         *)
(* scause records which return ended the child; the program forgets it.    *)
(* CRASHED is resend_data_packet after get_PDU found no PDU: the length -1 *)
(* makes createPDU copy (size_t)-8 bytes.                                  *)
(***************************************************************************)
EXTENDS Window, Network

VARIABLES sstate, swin, scount, offset, scause

serverVars == <<sstate, swin, scount, offset, scause>>

ServerStates == {"NONE", "WINDOW_OPEN", "WINDOW_OPEN_POLL", "WINDOW_CLOSED",
                 "END_OF_FILE", "EOF_WAIT", "DONE", "CRASHED"}
ServerCauses == {"none", "bad_setup", "bad_file", "read_error", "unexpected",
                 "gave_up", "acked"}

\* Before the fork.
NoChild ==
  /\ sstate = "NONE"
  /\ swin = make_window
  /\ scount = 0
  /\ offset = 0
  /\ scause = "none"

\* rcopy sends its next FILENAME from another socket: the child it leaves
\* behind, if any, talks to a closed port until it gives up, and the main
\* server forks another one for the new packet.
OrphanChild ==
  /\ sstate' = "NONE"
  /\ swin' = make_window
  /\ scount' = 0
  /\ offset' = 0
  /\ scause' = "none"

ServerExits(cause) == sstate' = "DONE" /\ scause' = cause
ServerGoes(state)  == sstate' = state /\ UNCHANGED scause

-----------------------------------------------------------------------------
\* process_server receives a FILENAME packet and forks; the child's
\* filename() checks it, opens the from-file and answers.
filename ==
  /\ sstate = "NONE"
  /\ toServer # <<>>
  /\ toServer' = Tail(toServer)
  /\ \/ /\ processPDU_ISSUE(Head(toServer))
        /\ ServerExits("bad_setup")
        /\ UNCHANGED toClient
     \/ /\ ~processPDU_ISSUE(Head(toServer))
        /\ \/ /\ toClient' = Append(toClient, createPDU(0, "FILE_RESPONSE", "FILE_OK"))
              /\ ServerGoes("WINDOW_OPEN")
           \/ /\ toClient' = Append(toClient, createPDU(0, "FILE_RESPONSE", "FILE_NOT_OK"))
              /\ ServerExits("bad_file")
  /\ UNCHANGED <<swin, scount, offset>>

-----------------------------------------------------------------------------
\* Mutants: the loop runs once too often (for the slots); it forgets remove_PDU.
cleaning_up_with_RR_too_far(window, rr_seq_num) ==
  IF window.lower < rr_seq_num
    THEN [window EXCEPT
            !.array = [i \in Slots |->
                         IF \E n \in window.lower .. rr_seq_num : Index(n) = i
                           THEN NULL ELSE @[i]],
            !.lower = rr_seq_num,
            !.upper = @ + (rr_seq_num - window.lower)]
    ELSE window

cleaning_up_with_RR_no_remove(window, rr_seq_num) ==
  IF window.lower < rr_seq_num
    THEN [window EXCEPT !.lower = rr_seq_num,
                        !.upper = @ + (rr_seq_num - window.lower)]
    ELSE window

\* lower moves up to rr_seq_num one slot at a time, upper with it.
cleaning_up_with_RR(window, rr_seq_num) ==
  IF window.lower < rr_seq_num
    THEN [window EXCEPT
            !.array = [i \in Slots |->
                         IF \E n \in window.lower .. rr_seq_num - 1 : Index(n) = i
                           THEN NULL ELSE @[i]],
            !.lower = rr_seq_num,
            !.upper = @ + (rr_seq_num - window.lower)]
    ELSE window

\* The packet at the index of sequence_number goes out under that number;
\* only a data packet gets the new flag.
resend_data_packet(sequence_number, flag) ==
  LET pdu == get_PDU(swin, sequence_number)
  IN  toClient' = Append(toClient,
                    createPDU(sequence_number,
                              IF pdu.flag = "DATA" THEN flag ELSE pdu.flag,
                              pdu.payload))

\* resend_data_packet and then `state`, or the crash.
Resend(sequence_number, flag, state) ==
  IF checkPDUValid(swin, sequence_number)
    THEN resend_data_packet(sequence_number, flag) /\ ServerGoes(state)
    ELSE ServerGoes("CRASHED") /\ UNCHANGED toClient

\* Mutant: the packet is sent and not stored.
send_data_packet_no_add(payload) ==
  /\ toClient' = Append(toClient, createPDU(swin.current, "DATA", payload))
  /\ swin' = incrementCurrent(swin)

send_data_packet(payload) ==
  LET pdu == createPDU(swin.current, "DATA", payload)
  IN  /\ toClient' = Append(toClient, pdu)
      /\ swin' = incrementCurrent(add_PDU(swin, pdu, swin.current))

\* EOF takes a slot but does not move current.
send_eof ==
  LET pdu == createPDU(swin.current, "EOF", "NONE")
  IN  /\ toClient' = Append(toClient, pdu)
      /\ swin' = add_PDU(swin, pdu, swin.current)

-----------------------------------------------------------------------------
\* Head of the loop of window_open: read() a chunk and send it.
window_open_send ==
  /\ sstate = "WINDOW_OPEN"
  /\ checkWindowOpen(swin)
  /\ offset < Len(File)
  /\ send_data_packet(File[offset + 1])
  /\ offset' = offset + 1
  /\ ServerGoes("WINDOW_OPEN_POLL")
  /\ UNCHANGED <<toServer, scount>>

\* read() returned 0.
window_open_eof ==
  /\ sstate = "WINDOW_OPEN"
  /\ checkWindowOpen(swin)
  /\ offset = Len(File)
  /\ ServerGoes("END_OF_FILE")
  /\ UNCHANGED <<networkVars, swin, scount, offset>>

\* read() failed.
window_open_error ==
  /\ sstate = "WINDOW_OPEN"
  /\ checkWindowOpen(swin)
  /\ ServerExits("read_error")
  /\ UNCHANGED <<networkVars, swin, scount, offset>>

\* The loop ends; window_closed starts with count = 0.
window_open_full ==
  /\ sstate = "WINDOW_OPEN"
  /\ ~checkWindowOpen(swin)
  /\ ServerGoes("WINDOW_CLOSED")
  /\ scount' = 0
  /\ UNCHANGED <<networkVars, swin, offset>>

\* pollCall(0) found nothing.
window_open_idle ==
  /\ sstate = "WINDOW_OPEN_POLL"
  /\ ServerGoes("WINDOW_OPEN")
  /\ UNCHANGED <<networkVars, swin, scount, offset>>

\* What window_open and window_closed do with a datagram: a corrupted one is
\* ignored, an RR moves the window, an SREJ is answered, and any other flag
\* ends the child.
process_answer(pdu, ignored, moved, answered) ==
  \/ /\ processPDU_ISSUE(pdu)
     /\ ServerGoes(ignored)
     /\ UNCHANGED <<toClient, swin>>
  \/ /\ pdu.flag = "RR"
     /\ swin' = cleaning_up_with_RR(swin, pdu.num)
     /\ ServerGoes(moved)
     /\ UNCHANGED toClient
  \/ /\ pdu.flag \notin {"RR", "CORRUPT"}
     /\ IF pdu.flag = "SREJ"
          THEN Resend(pdu.num, "RESENT_SREJ", answered)
          ELSE ServerExits("unexpected") /\ UNCHANGED toClient
     /\ UNCHANGED swin

\* pollCall(0) found a datagram.
window_open_recv ==
  /\ sstate = "WINDOW_OPEN_POLL"
  /\ toServer # <<>>
  /\ toServer' = Tail(toServer)
  /\ process_answer(Head(toServer), "WINDOW_OPEN", "WINDOW_OPEN", "WINDOW_OPEN")
  /\ UNCHANGED <<scount, offset>>

-----------------------------------------------------------------------------
\* An RR leaves for window_open at once; a corrupted datagram leaves and
\* re-enters the function, which also restarts count.
window_closed_recv ==
  /\ sstate = "WINDOW_CLOSED"
  /\ scount < MaxTries
  /\ toServer # <<>>
  /\ toServer' = Tail(toServer)
  /\ process_answer(Head(toServer), "WINDOW_CLOSED", "WINDOW_OPEN", "WINDOW_CLOSED")
  /\ scount' = 0
  /\ UNCHANGED offset

\* Mutants: the timeout is not counted; the packet sent last goes out again.
window_closed_timeout_uncounted ==
  /\ sstate = "WINDOW_CLOSED"
  /\ TimerMayFire
  /\ Resend(swin.lower, "RESENT_TIMEOUT", "WINDOW_CLOSED")
  /\ UNCHANGED <<toServer, swin, scount, offset>>

window_closed_timeout_last ==
  /\ sstate = "WINDOW_CLOSED"
  /\ scount < MaxTries
  /\ TimerMayFire
  /\ Resend(swin.current - 1, "RESENT_TIMEOUT", "WINDOW_CLOSED")
  /\ scount' = scount + 1
  /\ UNCHANGED <<toServer, swin, offset>>

\* The one-second poll expired: resend the lowest packet, or give up when
\* that was done MaxTries times in a row.
window_closed_timeout ==
  /\ sstate = "WINDOW_CLOSED"
  /\ scount < MaxTries
  /\ TimerMayFire
  /\ Resend(swin.lower, "RESENT_TIMEOUT", "WINDOW_CLOSED")
  /\ scount' = scount + 1
  /\ UNCHANGED <<toServer, swin, offset>>

window_closed_give_up ==
  /\ sstate = "WINDOW_CLOSED"
  /\ scount = MaxTries
  /\ ServerExits("gave_up")
  /\ UNCHANGED <<networkVars, swin, scount, offset>>

-----------------------------------------------------------------------------
\* Entry of end_of_file.
end_of_file_send ==
  /\ sstate = "END_OF_FILE"
  /\ send_eof
  /\ scount' = 0
  /\ ServerGoes("EOF_WAIT")
  /\ UNCHANGED <<toServer, offset>>

\* As above, and EOF_ACK is the answer that ends the transfer.
end_of_file_recv ==
  /\ sstate = "EOF_WAIT"
  /\ scount < MaxTries
  /\ toServer # <<>>
  /\ toServer' = Tail(toServer)
  /\ \/ /\ Head(toServer).flag # "EOF_ACK"
        /\ process_answer(Head(toServer), "EOF_WAIT", "EOF_WAIT", "EOF_WAIT")
     \/ /\ Head(toServer).flag = "EOF_ACK"
        /\ ServerExits("acked")
        /\ UNCHANGED <<toClient, swin>>
  /\ scount' = 0
  /\ UNCHANGED offset

\* Mutant: count is not compared with the limit.
end_of_file_timeout_no_limit ==
  /\ sstate = "EOF_WAIT"
  /\ TimerMayFire
  /\ Resend(swin.lower, "RESENT_TIMEOUT", "EOF_WAIT")
  /\ scount' = scount + 1
  /\ UNCHANGED <<toServer, swin, offset>>

end_of_file_timeout ==
  /\ sstate = "EOF_WAIT"
  /\ scount < MaxTries
  /\ TimerMayFire
  /\ Resend(swin.lower, "RESENT_TIMEOUT", "EOF_WAIT")
  /\ scount' = scount + 1
  /\ UNCHANGED <<toServer, swin, offset>>

\* Mutant: one try too few.
end_of_file_give_up_early ==
  /\ sstate = "EOF_WAIT"
  /\ scount + 1 >= MaxTries
  /\ ServerExits("gave_up")
  /\ UNCHANGED <<networkVars, swin, scount, offset>>

end_of_file_give_up ==
  /\ sstate = "EOF_WAIT"
  /\ scount = MaxTries
  /\ ServerExits("gave_up")
  /\ UNCHANGED <<networkVars, swin, scount, offset>>

-----------------------------------------------------------------------------
ServerStep ==
  \/ filename
  \/ window_open_send \/ window_open_eof \/ window_open_error
  \/ window_open_full \/ window_open_idle \/ window_open_recv
  \/ window_closed_recv \/ window_closed_timeout \/ window_closed_give_up
  \/ end_of_file_send \/ end_of_file_recv
  \/ end_of_file_timeout \/ end_of_file_give_up
=============================================================================

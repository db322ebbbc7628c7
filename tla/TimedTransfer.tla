---------------------------- MODULE TimedTransfer ----------------------------
(***************************************************************************)
(* Transfer with time: the timers of pollCall run for the seconds that     *)
(* server.c and rcopy.c give them, and everything else, datagrams          *)
(* included, takes no time compared with a second.  What ends the          *)
(* programs, and how many faults of the network a copy survives, depends   *)
(* on how the ten tries of one side and the ten seconds of the other fit   *)
(* together.                                                               *)
(***************************************************************************)
EXTENDS Transfer

CONSTANTS
  TEN_SEC,   \* rcopy's pollCall, in units of ONE_SEC; 10 in the code
  MaxFaults  \* the faults of the network are counted up to here

\* No fault that a property counts is left out.
ASSUME TimedAssumption ==
  /\ TEN_SEC \in Nat \ {0} /\ MaxFaults \in Nat
  /\ MaxTries <= MaxFaults /\ TEN_SEC <= MaxFaults

VARIABLES
  stimer,  \* seconds since the child last called pollCall
  rtimer,  \* the same for rcopy
  faults   \* datagrams dropped or corrupted so far; MaxFaults: or more

timedVars == <<vars, stimer, rtimer, faults>>

ONE_SEC == 1

-----------------------------------------------------------------------------
\* The calls of pollCall with a timeout.
ServerWaits == sstate \in {"WINDOW_CLOSED", "EOF_WAIT"} /\ scount < MaxTries

RcopyWaits == rstate \in {"FILENAME_POLL", "IN_ORDER", "BUFFERING"}

\* Mutant: rcopy waits no longer for data than for the response.
rcopy_timeout_one_sec == ONE_SEC

RcopyTimeout == IF rstate = "FILENAME_POLL" THEN ONE_SEC ELSE TEN_SEC

ServerExpired == ServerWaits /\ stimer = ONE_SEC

RcopyExpired == RcopyWaits /\ rtimer = RcopyTimeout

\* A process that has exited reads nothing; before the fork the main server
\* does.
ServerHasExited == sstate \in {"DONE", "CRASHED"}

\* Mutant: a timeout that is due does not stop the clock.
quiet_when_due ==
  /\ ServerWaits \/ sstate = "NONE" \/ ServerHasExited
  /\ RcopyWaits \/ rstate = "DONE"
  /\ toServer = <<>> \/ ServerHasExited
  /\ toClient = <<>> \/ rstate = "DONE"

\* Both wait for a datagram or have exited, none is on its way, and no timeout
\* is due.
Quiet ==
  /\ ServerWaits \/ sstate = "NONE" \/ ServerHasExited
  /\ RcopyWaits \/ rstate = "DONE"
  /\ toServer = <<>> \/ ServerHasExited
  /\ toClient = <<>> \/ rstate = "DONE"
  /\ ~ServerExpired /\ ~RcopyExpired

Tick ==
  /\ Quiet
  /\ ServerWaits \/ RcopyWaits
  /\ stimer' = IF ServerWaits THEN stimer + 1 ELSE stimer
  /\ rtimer' = IF RcopyWaits THEN rtimer + 1 ELSE rtimer
  /\ UNCHANGED <<vars, faults>>

-----------------------------------------------------------------------------
\* What each program does when pollCall returns -1; any other step of it is
\* taken without waiting.
ServerTimeouts == window_closed_timeout \/ end_of_file_timeout

ServerMoves ==
  \/ filename
  \/ window_open_send \/ window_open_eof \/ window_open_error
  \/ window_open_full \/ window_open_idle \/ window_open_recv
  \/ window_closed_recv \/ window_closed_give_up
  \/ end_of_file_send \/ end_of_file_recv \/ end_of_file_give_up

RcopyMoves ==
  \/ start \/ filename_send \/ filename_recv \/ file_okay
  \/ discard
  \/ in_order_expected \/ in_order_eof \/ in_order_ahead \/ in_order_old
  \/ buffering_ahead \/ buffering_expected \/ buffering_old
  \/ flush_write \/ flush_eof \/ flush_gap

\* filename() has one answer to a timeout and to a corrupted datagram.
FilenameFails ==
  \/ rtimer = ONE_SEC
  \/ toClient # <<>> /\ processPDU_ISSUE(Head(toClient))

\* Every step ends the pollCall it was made in.
ServerSteps ==
  /\ ServerMoves \/ (ServerExpired /\ ServerTimeouts)
  /\ stimer' = 0
  /\ UNCHANGED <<rcopyVars, rtimer, faults>>

RcopySteps ==
  /\ \/ RcopyMoves
     \/ RcopyExpired /\ ten_sec_timeout
     \/ FilenameFails /\ filename_give_up
  /\ rtimer' = 0
  /\ UNCHANGED <<serverVars, stimer, faults>>

RetrySteps ==
  /\ FilenameFails
  /\ Retry
  /\ rtimer' = 0 /\ stimer' = 0
  /\ UNCHANGED faults

ProgramSteps == ServerSteps \/ RcopySteps \/ RetrySteps

NetworkFaults ==
  /\ NetworkStep
  /\ UNCHANGED <<serverVars, rcopyVars, stimer, rtimer>>

Ended ==
  /\ Terminated
  /\ UNCHANGED <<stimer, rtimer, faults>>

-----------------------------------------------------------------------------
TimedInit == Init /\ stimer = 0 /\ rtimer = 0 /\ faults = 0

TimedNext ==
  \/ ProgramSteps
  \/ Tick
  \/ NetworkFaults /\ faults' = IF faults < MaxFaults THEN faults + 1 ELSE faults
  \/ Ended

(***************************************************************************)
(* Both programs are scheduled, and time passes.  The error rate is less   *)
(* than 1 and drawn for each message (cpe464.h:82, PacketManager.cpp:      *)
(* 160-161): a program that is sent datagrams again and again receives     *)
(* intact ones again and again.                                            *)
(***************************************************************************)
ServerHears ==
  /\ toServer # <<>> /\ ~processPDU_ISSUE(Head(toServer))
  /\ ServerSteps /\ toServer' = Tail(toServer)

RcopyHears ==
  /\ toClient # <<>> /\ ~processPDU_ISSUE(Head(toClient))
  /\ RcopySteps /\ toClient' = Tail(toClient)

TimedFairness ==
  /\ WF_timedVars(ServerSteps)
  /\ WF_timedVars(RcopySteps)
  /\ WF_timedVars(RetrySteps)
  /\ WF_timedVars(Tick)
  /\ SF_timedVars(ServerHears)
  /\ SF_timedVars(RcopyHears)

TimedSpec == TimedInit /\ [][TimedNext]_timedVars /\ TimedFairness

-----------------------------------------------------------------------------
TimedTypeOK ==
  /\ stimer \in 0 .. ONE_SEC
  /\ rtimer \in 0 .. TEN_SEC
  /\ faults \in 0 .. MaxFaults

(***************************************************************************)
(* rcopy and the child both end, although a corrupted datagram starts the  *)
(* ten seconds of rcopy and the ten tries of the child anew                *)
(* (rcopy.c:184-188, 303-305, server.c:292-295, 350-353).                  *)
(***************************************************************************)
BothEnd == <>[](rstate = "DONE" /\ sstate \in {"NONE", "DONE"})

\* Something outside the network made the copy impossible.
FileFailure ==
  \/ rcause \in {"bad_file", "open_failed", "write_failed"}
  \/ scause = "read_error"

(***************************************************************************)
(* With fewer faults than tries a file that fills the window is copied in  *)
(* full, wherever they strike: no loss of an SREJ, an RR, FILE_OK or a     *)
(* resent packet needs more than the retries that are there (server.c:278, *)
(* 335, rcopy.c:91).  A shorter file is not copied when FILE_OK and all    *)
(* data are lost and EOF comes in the handshake (see FilenameOutcome).     *)
(***************************************************************************)
CopyCompletes ==
  WindowSize <= Len(File) =>
    <>(rcause = "complete" \/ FileFailure \/ faults >= MaxTries)

(***************************************************************************)
(* The child gives up on an rcopy that still waits only after as many      *)
(* faults as it has tries (server.c:323-325, 380-382), though it does not  *)
(* wait for an answer to the last of them.                                 *)
(***************************************************************************)
GivesUpOnSilence ==
  scause = "gave_up" => rstate = "DONE" \/ faults >= MaxTries

(***************************************************************************)
(* rcopy gives up on a child that still serves it only when the network    *)
(* has lost everything for ten seconds: its timer is not shorter than the  *)
(* child's resends (rcopy.c:169, 288, server.c:279, 337).                  *)
(***************************************************************************)
TimesOutOnSilence ==
  rcause = "timeout" => ServerHasExited \/ faults >= TEN_SEC
=============================================================================

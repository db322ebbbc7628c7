-------------------------- MODULE TwoChildrenProofs --------------------------
(***************************************************************************)
(* What two children cannot break, for every file and window size.  Each   *)
(* side keeps to SideInv and rcopy's window to BufferInv; the lemmas about *)
(* the steps of one side (ServerProofs, RcopyProofs) are taken for either. *)
(***************************************************************************)
EXTENDS TwoChildren, TLAPS

OneP == INSTANCE RcopyProofs WITH
  toClient <- toClient1, toServer <- toServer1, sstate <- sstate1, swin <- swin1,
  scount <- scount1, offset <- offset1, scause <- scause1

TwoP == INSTANCE RcopyProofs WITH
  toClient <- toClient2, toServer <- toServer2, sstate <- sstate2, swin <- swin2,
  scount <- scount2, offset <- offset2, scause <- scause2

-----------------------------------------------------------------------------
(***************************************************************************)
(* OneP is the Transfer of One with the lemmas about it: what the two call *)
(* by the same name is the same, definition by definition.                 *)
(***************************************************************************)
LEMMA SameOne ==
  /\ One!Init <=> OneP!Init
  /\ One!ServerStep <=> OneP!ServerStep
  /\ One!RcopyStep <=> OneP!RcopyStep
  /\ One!Retry <=> OneP!Retry
  /\ One!DropToClient <=> OneP!DropToClient
  /\ One!DropToServer <=> OneP!DropToServer
  /\ One!BufferSound <=> OneP!BufferSound
BY Zenon
   DEF One!Init, One!Retry, One!BufferSound, One!ServerStep, One!filename,
       One!window_open_send, One!window_open_eof, One!window_open_error,
       One!window_open_full, One!window_open_idle, One!window_open_recv,
       One!window_closed_recv, One!window_closed_timeout,
       One!window_closed_give_up, One!end_of_file_send, One!end_of_file_recv,
       One!end_of_file_timeout, One!end_of_file_give_up, One!NoChild,
       One!OrphanChild, One!ServerExits, One!ServerGoes, One!send_data_packet,
       One!send_eof, One!process_answer, One!Resend, One!resend_data_packet,
       One!cleaning_up_with_RR, One!serverVars, One!RcopyStep, One!start,
       One!filename_send, One!filename_recv, One!filename_retry,
       One!filename_give_up, One!file_okay, One!discard, One!ten_sec_timeout,
       One!in_order_expected, One!in_order_eof, One!in_order_ahead,
       One!in_order_old, One!buffering_ahead, One!buffering_expected,
       One!buffering_old, One!flush_write, One!flush_eof, One!flush_gap,
       One!Received, One!Receives, One!WriteCurrent, One!RcopyInit,
       One!RcopyExits, One!RcopyGoes, One!SREJs, One!sendRR, One!sendEOF_ACK,
       One!rcopyVars, One!networkVars, One!TimerMayFire, One!DropToClient,
       One!DropToServer, One!Slots, One!Index, One!make_window,
       One!checkWindowOpen, One!checkPDUValid, One!get_PDU, One!add_PDU,
       One!remove_PDU, One!updateHighest, One!incrementCurrent,
       One!incrementLower, One!incrementUpper, One!advance, One!createPDU,
       One!rcopyPDU, One!processPDU_ISSUE, OneP!Init, OneP!Retry,
       OneP!BufferSound, OneP!ServerStep, OneP!filename, OneP!window_open_send,
       OneP!window_open_eof, OneP!window_open_error, OneP!window_open_full,
       OneP!window_open_idle, OneP!window_open_recv, OneP!window_closed_recv,
       OneP!window_closed_timeout, OneP!window_closed_give_up,
       OneP!end_of_file_send, OneP!end_of_file_recv, OneP!end_of_file_timeout,
       OneP!end_of_file_give_up, OneP!NoChild, OneP!OrphanChild,
       OneP!ServerExits, OneP!ServerGoes, OneP!send_data_packet, OneP!send_eof,
       OneP!process_answer, OneP!Resend, OneP!resend_data_packet,
       OneP!cleaning_up_with_RR, OneP!serverVars, OneP!RcopyStep, OneP!start,
       OneP!filename_send, OneP!filename_recv, OneP!filename_retry,
       OneP!filename_give_up, OneP!file_okay, OneP!discard,
       OneP!ten_sec_timeout, OneP!in_order_expected, OneP!in_order_eof,
       OneP!in_order_ahead, OneP!in_order_old, OneP!buffering_ahead,
       OneP!buffering_expected, OneP!buffering_old, OneP!flush_write,
       OneP!flush_eof, OneP!flush_gap, OneP!Received, OneP!Receives,
       OneP!WriteCurrent, OneP!RcopyInit, OneP!RcopyExits, OneP!RcopyGoes,
       OneP!SREJs, OneP!sendRR, OneP!sendEOF_ACK, OneP!rcopyVars,
       OneP!networkVars, OneP!TimerMayFire, OneP!DropToClient,
       OneP!DropToServer, OneP!Slots, OneP!Index, OneP!make_window,
       OneP!checkWindowOpen, OneP!checkPDUValid, OneP!get_PDU, OneP!add_PDU,
       OneP!remove_PDU, OneP!updateHighest, OneP!incrementCurrent,
       OneP!incrementLower, OneP!incrementUpper, OneP!advance, OneP!createPDU,
       OneP!rcopyPDU, OneP!processPDU_ISSUE

LEMMA SameTwo ==
  /\ Two!Init <=> TwoP!Init
  /\ Two!ServerStep <=> TwoP!ServerStep
  /\ Two!RcopyStep <=> TwoP!RcopyStep
  /\ Two!Retry <=> TwoP!Retry
  /\ Two!DropToClient <=> TwoP!DropToClient
  /\ Two!DropToServer <=> TwoP!DropToServer
  /\ Two!BufferSound <=> TwoP!BufferSound
BY Zenon
   DEF Two!Init, Two!Retry, Two!BufferSound, Two!ServerStep, Two!filename,
       Two!window_open_send, Two!window_open_eof, Two!window_open_error,
       Two!window_open_full, Two!window_open_idle, Two!window_open_recv,
       Two!window_closed_recv, Two!window_closed_timeout,
       Two!window_closed_give_up, Two!end_of_file_send, Two!end_of_file_recv,
       Two!end_of_file_timeout, Two!end_of_file_give_up, Two!NoChild,
       Two!OrphanChild, Two!ServerExits, Two!ServerGoes, Two!send_data_packet,
       Two!send_eof, Two!process_answer, Two!Resend, Two!resend_data_packet,
       Two!cleaning_up_with_RR, Two!serverVars, Two!RcopyStep, Two!start,
       Two!filename_send, Two!filename_recv, Two!filename_retry,
       Two!filename_give_up, Two!file_okay, Two!discard, Two!ten_sec_timeout,
       Two!in_order_expected, Two!in_order_eof, Two!in_order_ahead,
       Two!in_order_old, Two!buffering_ahead, Two!buffering_expected,
       Two!buffering_old, Two!flush_write, Two!flush_eof, Two!flush_gap,
       Two!Received, Two!Receives, Two!WriteCurrent, Two!RcopyInit,
       Two!RcopyExits, Two!RcopyGoes, Two!SREJs, Two!sendRR, Two!sendEOF_ACK,
       Two!rcopyVars, Two!networkVars, Two!TimerMayFire, Two!DropToClient,
       Two!DropToServer, Two!Slots, Two!Index, Two!make_window,
       Two!checkWindowOpen, Two!checkPDUValid, Two!get_PDU, Two!add_PDU,
       Two!remove_PDU, Two!updateHighest, Two!incrementCurrent,
       Two!incrementLower, Two!incrementUpper, Two!advance, Two!createPDU,
       Two!rcopyPDU, Two!processPDU_ISSUE, TwoP!Init, TwoP!Retry,
       TwoP!BufferSound, TwoP!ServerStep, TwoP!filename, TwoP!window_open_send,
       TwoP!window_open_eof, TwoP!window_open_error, TwoP!window_open_full,
       TwoP!window_open_idle, TwoP!window_open_recv, TwoP!window_closed_recv,
       TwoP!window_closed_timeout, TwoP!window_closed_give_up,
       TwoP!end_of_file_send, TwoP!end_of_file_recv, TwoP!end_of_file_timeout,
       TwoP!end_of_file_give_up, TwoP!NoChild, TwoP!OrphanChild,
       TwoP!ServerExits, TwoP!ServerGoes, TwoP!send_data_packet, TwoP!send_eof,
       TwoP!process_answer, TwoP!Resend, TwoP!resend_data_packet,
       TwoP!cleaning_up_with_RR, TwoP!serverVars, TwoP!RcopyStep, TwoP!start,
       TwoP!filename_send, TwoP!filename_recv, TwoP!filename_retry,
       TwoP!filename_give_up, TwoP!file_okay, TwoP!discard,
       TwoP!ten_sec_timeout, TwoP!in_order_expected, TwoP!in_order_eof,
       TwoP!in_order_ahead, TwoP!in_order_old, TwoP!buffering_ahead,
       TwoP!buffering_expected, TwoP!buffering_old, TwoP!flush_write,
       TwoP!flush_eof, TwoP!flush_gap, TwoP!Received, TwoP!Receives,
       TwoP!WriteCurrent, TwoP!RcopyInit, TwoP!RcopyExits, TwoP!RcopyGoes,
       TwoP!SREJs, TwoP!sendRR, TwoP!sendEOF_ACK, TwoP!rcopyVars,
       TwoP!networkVars, TwoP!TimerMayFire, TwoP!DropToClient,
       TwoP!DropToServer, TwoP!Slots, TwoP!Index, TwoP!make_window,
       TwoP!checkWindowOpen, TwoP!checkPDUValid, TwoP!get_PDU, TwoP!add_PDU,
       TwoP!remove_PDU, TwoP!updateHighest, TwoP!incrementCurrent,
       TwoP!incrementLower, TwoP!incrementUpper, TwoP!advance, TwoP!createPDU,
       TwoP!rcopyPDU, TwoP!processPDU_ISSUE

-----------------------------------------------------------------------------
(***************************************************************************)
(* The invariant: what RcopyProofs asks of each side before a step.        *)
(***************************************************************************)
SidesInv ==
  /\ OneP!TypeOK /\ OneP!SideInv /\ OneP!BufferInv
  /\ TwoP!TypeOK /\ TwoP!SideInv /\ TwoP!BufferInv

\* Packets are packets in either.
LEMMA PacketsOne == OneP!ServerPdu = ServerPdu
BY DEF OneP!ServerPdu, ServerPdu, OneP!ServerFlags, ServerFlags, OneP!DataFlags, DataFlags,
       OneP!Payload, Payload

LEMMA ServerOne ==
  ASSUME OneP!TypeOK, OneP!SideInv, OneP!BufferInv, OneP!ServerStep, UNCHANGED OneP!rcopyVars
  PROVE  OneP!TypeOK' /\ OneP!SideInv'
BY PacketsOne, OneP!TypeServer, OneP!SideServer, FileAssumption, WindowSizeAssumption,
   NULLAssumption, MaxTriesAssumption, MaxInFlightAssumption

LEMMA RcopyOne ==
  ASSUME OneP!TypeOK, OneP!SideInv, OneP!BufferInv, OneP!RcopyStep, UNCHANGED OneP!serverVars
  PROVE  OneP!TypeOK' /\ OneP!SideKept
BY PacketsOne, OneP!SideRcopy, FileAssumption, WindowSizeAssumption,
   NULLAssumption, MaxTriesAssumption, MaxInFlightAssumption

\* Packets are packets in either.
LEMMA PacketsTwo == TwoP!ServerPdu = ServerPdu
BY DEF TwoP!ServerPdu, ServerPdu, TwoP!ServerFlags, ServerFlags, TwoP!DataFlags, DataFlags,
       TwoP!Payload, Payload

LEMMA ServerTwo ==
  ASSUME TwoP!TypeOK, TwoP!SideInv, TwoP!BufferInv, TwoP!ServerStep, UNCHANGED TwoP!rcopyVars
  PROVE  TwoP!TypeOK' /\ TwoP!SideInv'
BY PacketsTwo, TwoP!TypeServer, TwoP!SideServer, FileAssumption, WindowSizeAssumption,
   NULLAssumption, MaxTriesAssumption, MaxInFlightAssumption

LEMMA RcopyTwo ==
  ASSUME TwoP!TypeOK, TwoP!SideInv, TwoP!BufferInv, TwoP!RcopyStep, UNCHANGED TwoP!serverVars
  PROVE  TwoP!TypeOK' /\ TwoP!SideKept
BY PacketsTwo, TwoP!SideRcopy, FileAssumption, WindowSizeAssumption,
   NULLAssumption, MaxTriesAssumption, MaxInFlightAssumption

-----------------------------------------------------------------------------
(***************************************************************************)
(* rcopy's part of the state is the same for both sides.                   *)
(***************************************************************************)
LEMMA SameTypes ==
  /\ OneP!WindowType = TwoP!WindowType
  /\ OneP!RcopyPdu = TwoP!RcopyPdu
  /\ OneP!Payload = TwoP!Payload
  /\ OneP!RcopyStates = TwoP!RcopyStates
  /\ OneP!RcopyCauses = TwoP!RcopyCauses
<1>1. OneP!WindowType = TwoP!WindowType
  BY PacketsOne, PacketsTwo DEF OneP!WindowType, TwoP!WindowType, OneP!Slots, TwoP!Slots
<1> QED
  BY <1>1
  DEF OneP!RcopyPdu, TwoP!RcopyPdu, OneP!RcopyFlags, TwoP!RcopyFlags,
      OneP!Payload, TwoP!Payload, OneP!RcopyStates, TwoP!RcopyStates,
      OneP!RcopyCauses, TwoP!RcopyCauses

LEMMA SameBuffer == OneP!BufferInv <=> TwoP!BufferInv
BY Zenon
   DEF OneP!BufferInv, OneP!SlotFits, OneP!Slots, OneP!Index, OneP!checkPDUValid,
       TwoP!BufferInv, TwoP!SlotFits, TwoP!Slots, TwoP!Index, TwoP!checkPDUValid

\* A side that a step leaves alone, and rcopy with it.
LEMMA KeptOne ==
  ASSUME OneP!TypeOK, OneP!SideInv, OneP!BufferInv, UNCHANGED <<side1, rcopy>>
  PROVE  OneP!TypeOK' /\ OneP!SideInv' /\ OneP!BufferInv'
<1>1. /\ UNCHANGED <<toClient1, toServer1, sstate1, swin1, scount1, offset1, scause1>>
      /\ UNCHANGED <<rstate, rwin, rcount, out, rcause>>
  BY DEF side1, child1, rcopy
<1>2. OneP!TypeOK'
  BY <1>1 DEF OneP!TypeOK
<1>3. OneP!SideInv'
  BY <1>1 DEF OneP!SideInv
<1>4. OneP!BufferInv'
  BY <1>1 DEF OneP!BufferInv, OneP!SlotFits, OneP!checkPDUValid
<1> QED
  BY <1>2, <1>3, <1>4

\* A step of rcopy that takes part in the other side.
LEMMA OtherOne ==
  ASSUME OneP!TypeOK, OneP!SideInv, OneP!BufferInv, UNCHANGED side1,
         TwoP!TypeOK', TwoP!BufferInv', rwin.current <= rwin'.current
  PROVE  OneP!TypeOK' /\ OneP!SideInv' /\ OneP!BufferInv'
<1>1. UNCHANGED <<toClient1, toServer1, sstate1, swin1, scount1, offset1, scause1>>
  BY DEF side1, child1
<1>2. OneP!TypeOK'
  BY <1>1, SameTypes DEF OneP!TypeOK, TwoP!TypeOK
<1>3. OneP!BufferInv'
  BY SameBuffer, PTL
<1>4. UNCHANGED <<OneP!networkVars, OneP!serverVars>>
  BY <1>1 DEF OneP!networkVars, OneP!serverVars
<1>5. OneP!SideInv'
  BY <1>2, <1>3, <1>4, PacketsOne, OneP!SideOther, FileAssumption, WindowSizeAssumption,
     NULLAssumption, MaxTriesAssumption, MaxInFlightAssumption
<1> QED
  BY <1>2, <1>3, <1>5

LEMMA DropOne ==
  ASSUME OneP!TypeOK, OneP!SideInv, OneP!BufferInv, OneP!DropToClient \/ OneP!DropToServer,
         UNCHANGED <<OneP!serverVars, OneP!rcopyVars>>
  PROVE  OneP!TypeOK' /\ OneP!SideInv' /\ OneP!BufferInv'
BY PacketsOne, OneP!SideDrop, FileAssumption, WindowSizeAssumption,
   NULLAssumption, MaxTriesAssumption, MaxInFlightAssumption

LEMMA RetryOne ==
  ASSUME OneP!TypeOK, OneP!SideInv, OneP!BufferInv, OneP!Retry
  PROVE  OneP!TypeOK' /\ OneP!SideInv' /\ OneP!BufferInv'
BY PacketsOne, OneP!SideRetry, FileAssumption, WindowSizeAssumption,
   NULLAssumption, MaxTriesAssumption, MaxInFlightAssumption

LEMMA InitOne == OneP!Init => OneP!TypeOK /\ OneP!SideInv /\ OneP!BufferInv
BY PacketsOne, OneP!SideInit, FileAssumption, WindowSizeAssumption,
   NULLAssumption, MaxTriesAssumption, MaxInFlightAssumption

\* A side that a step leaves alone, and rcopy with it.
LEMMA KeptTwo ==
  ASSUME TwoP!TypeOK, TwoP!SideInv, TwoP!BufferInv, UNCHANGED <<side2, rcopy>>
  PROVE  TwoP!TypeOK' /\ TwoP!SideInv' /\ TwoP!BufferInv'
<1>1. /\ UNCHANGED <<toClient2, toServer2, sstate2, swin2, scount2, offset2, scause2>>
      /\ UNCHANGED <<rstate, rwin, rcount, out, rcause>>
  BY DEF side2, child2, rcopy
<1>2. TwoP!TypeOK'
  BY <1>1 DEF TwoP!TypeOK
<1>3. TwoP!SideInv'
  BY <1>1 DEF TwoP!SideInv
<1>4. TwoP!BufferInv'
  BY <1>1 DEF TwoP!BufferInv, TwoP!SlotFits, TwoP!checkPDUValid
<1> QED
  BY <1>2, <1>3, <1>4

\* A step of rcopy that takes part in the other side.
LEMMA OtherTwo ==
  ASSUME TwoP!TypeOK, TwoP!SideInv, TwoP!BufferInv, UNCHANGED side2,
         OneP!TypeOK', OneP!BufferInv', rwin.current <= rwin'.current
  PROVE  TwoP!TypeOK' /\ TwoP!SideInv' /\ TwoP!BufferInv'
<1>1. UNCHANGED <<toClient2, toServer2, sstate2, swin2, scount2, offset2, scause2>>
  BY DEF side2, child2
<1>2. TwoP!TypeOK'
  BY <1>1, SameTypes DEF TwoP!TypeOK, OneP!TypeOK
<1>3. TwoP!BufferInv'
  BY SameBuffer, PTL
<1>4. UNCHANGED <<TwoP!networkVars, TwoP!serverVars>>
  BY <1>1 DEF TwoP!networkVars, TwoP!serverVars
<1>5. TwoP!SideInv'
  BY <1>2, <1>3, <1>4, PacketsTwo, TwoP!SideOther, FileAssumption, WindowSizeAssumption,
     NULLAssumption, MaxTriesAssumption, MaxInFlightAssumption
<1> QED
  BY <1>2, <1>3, <1>5

LEMMA DropTwo ==
  ASSUME TwoP!TypeOK, TwoP!SideInv, TwoP!BufferInv, TwoP!DropToClient \/ TwoP!DropToServer,
         UNCHANGED <<TwoP!serverVars, TwoP!rcopyVars>>
  PROVE  TwoP!TypeOK' /\ TwoP!SideInv' /\ TwoP!BufferInv'
BY PacketsTwo, TwoP!SideDrop, FileAssumption, WindowSizeAssumption,
   NULLAssumption, MaxTriesAssumption, MaxInFlightAssumption

LEMMA RetryTwo ==
  ASSUME TwoP!TypeOK, TwoP!SideInv, TwoP!BufferInv, TwoP!Retry
  PROVE  TwoP!TypeOK' /\ TwoP!SideInv' /\ TwoP!BufferInv'
BY PacketsTwo, TwoP!SideRetry, FileAssumption, WindowSizeAssumption,
   NULLAssumption, MaxTriesAssumption, MaxInFlightAssumption

LEMMA InitTwo == TwoP!Init => TwoP!TypeOK /\ TwoP!SideInv /\ TwoP!BufferInv
BY PacketsTwo, TwoP!SideInit, FileAssumption, WindowSizeAssumption,
   NULLAssumption, MaxTriesAssumption, MaxInFlightAssumption

-----------------------------------------------------------------------------
(***************************************************************************)
(* The steps of the composition.                                           *)
(***************************************************************************)
LEMMA SidesInit == Init => SidesInv
BY SameOne, SameTwo, InitOne, InitTwo DEF Init, SidesInv

\* The second child gets the FILENAME packet of the first one.
LEMMA SidesDuplicate ==
  ASSUME SidesInv, DuplicateFilename
  PROVE  SidesInv'
<1>1. /\ toServer2' = toServer1 /\ UNCHANGED <<side1, rcopy>>
      /\ UNCHANGED <<toClient2, sstate2, swin2, scount2, offset2, scause2>>
      /\ UNCHANGED <<rstate, rwin, rcount, out, rcause>>
  BY DEF DuplicateFilename, child2, rcopy
<1>2. OneP!TypeOK' /\ OneP!SideInv' /\ OneP!BufferInv'
  BY <1>1, KeptOne DEF SidesInv
<1>3. TwoP!BufferInv'
  BY <1>2, SameBuffer, PTL
<1>4. TwoP!TypeOK'
  BY <1>1, SameTypes DEF SidesInv, OneP!TypeOK, TwoP!TypeOK
<1>5. TwoP!SideInv'
  BY <1>1 DEF SidesInv, OneP!SideInv, TwoP!SideInv
<1> QED
  BY <1>2, <1>3, <1>4, <1>5 DEF SidesInv

LEMMA SidesServer ==
  ASSUME SidesInv, ChildStep, UNCHANGED <<rcopy, peer>>
  PROVE  SidesInv'
<1>1. /\ OneP!TypeOK /\ OneP!SideInv /\ OneP!BufferInv
      /\ TwoP!TypeOK /\ TwoP!SideInv /\ TwoP!BufferInv
  BY DEF SidesInv
<1>2. UNCHANGED rcopy /\ UNCHANGED OneP!rcopyVars /\ UNCHANGED TwoP!rcopyVars
  BY DEF rcopy, OneP!rcopyVars, TwoP!rcopyVars
<1>3. CASE One!ServerStep /\ UNCHANGED side2
  <2>1. OneP!TypeOK' /\ OneP!SideInv'
    BY <1>1, <1>2, <1>3, SameOne, ServerOne
  <2>2. TwoP!TypeOK' /\ TwoP!SideInv' /\ TwoP!BufferInv'
    BY <1>1, <1>2, <1>3, KeptTwo
  <2>3. OneP!BufferInv'
    BY <2>2, SameBuffer, PTL
  <2> QED
    BY <2>1, <2>2, <2>3 DEF SidesInv
<1>4. CASE Two!ServerStep /\ UNCHANGED side1
  <2>1. TwoP!TypeOK' /\ TwoP!SideInv'
    BY <1>1, <1>2, <1>4, SameTwo, ServerTwo
  <2>2. OneP!TypeOK' /\ OneP!SideInv' /\ OneP!BufferInv'
    BY <1>1, <1>2, <1>4, KeptOne
  <2>3. TwoP!BufferInv'
    BY <2>2, SameBuffer, PTL
  <2> QED
    BY <2>1, <2>2, <2>3 DEF SidesInv
<1> QED
  BY <1>3, <1>4 DEF ChildStep

LEMMA SidesRcopy ==
  ASSUME SidesInv, RcopyStep
  PROVE  SidesInv'
<1>1. /\ OneP!TypeOK /\ OneP!SideInv /\ OneP!BufferInv
      /\ TwoP!TypeOK /\ TwoP!SideInv /\ TwoP!BufferInv
  BY DEF SidesInv
<1>2. CASE One!RcopyStep /\ UNCHANGED <<child1, side2>>
  <2>1. UNCHANGED OneP!serverVars /\ UNCHANGED side2
    BY <1>2 DEF child1, OneP!serverVars
  <2>2. OneP!TypeOK' /\ OneP!SideKept
    BY <1>1, <1>2, <2>1, SameOne, RcopyOne
  <2>3. OneP!SideInv' /\ OneP!BufferInv' /\ rwin.current <= rwin'.current
    BY <2>2 DEF OneP!SideKept
  <2> QED
    BY <1>1, <2>1, <2>2, <2>3, OtherTwo DEF SidesInv
<1>3. CASE Two!RcopyStep /\ UNCHANGED <<child2, side1>>
  <2>1. UNCHANGED TwoP!serverVars /\ UNCHANGED side1
    BY <1>3 DEF child2, TwoP!serverVars
  <2>2. TwoP!TypeOK' /\ TwoP!SideKept
    BY <1>1, <1>3, <2>1, SameTwo, RcopyTwo
  <2>3. TwoP!SideInv' /\ TwoP!BufferInv' /\ rwin.current <= rwin'.current
    BY <2>2 DEF TwoP!SideKept
  <2> QED
    BY <1>1, <2>1, <2>2, <2>3, OtherOne DEF SidesInv
<1> QED
  BY <1>2, <1>3 DEF RcopyStep

LEMMA SidesDrop ==
  ASSUME SidesInv, Drop, UNCHANGED <<rcopy, peer>>
  PROVE  SidesInv'
<1>1. /\ OneP!TypeOK /\ OneP!SideInv /\ OneP!BufferInv
      /\ TwoP!TypeOK /\ TwoP!SideInv /\ TwoP!BufferInv
  BY DEF SidesInv
<1>2. UNCHANGED rcopy /\ UNCHANGED OneP!rcopyVars /\ UNCHANGED TwoP!rcopyVars
  BY DEF rcopy, OneP!rcopyVars, TwoP!rcopyVars
<1>3. CASE (One!DropToClient \/ One!DropToServer) /\ UNCHANGED <<child1, side2>>
  <2>1. UNCHANGED <<OneP!serverVars, OneP!rcopyVars>> /\ UNCHANGED side2
    BY <1>2, <1>3 DEF child1, OneP!serverVars
  <2>2. OneP!TypeOK' /\ OneP!SideInv' /\ OneP!BufferInv'
    BY <1>1, <1>3, <2>1, SameOne, DropOne
  <2>3. TwoP!TypeOK' /\ TwoP!SideInv' /\ TwoP!BufferInv'
    BY <1>1, <1>2, <2>1, KeptTwo
  <2> QED
    BY <2>2, <2>3 DEF SidesInv
<1>4. CASE (Two!DropToClient \/ Two!DropToServer) /\ UNCHANGED <<child2, side1>>
  <2>1. UNCHANGED <<TwoP!serverVars, TwoP!rcopyVars>> /\ UNCHANGED side1
    BY <1>2, <1>4 DEF child2, TwoP!serverVars
  <2>2. TwoP!TypeOK' /\ TwoP!SideInv' /\ TwoP!BufferInv'
    BY <1>1, <1>4, <2>1, SameTwo, DropTwo
  <2>3. OneP!TypeOK' /\ OneP!SideInv' /\ OneP!BufferInv'
    BY <1>1, <1>2, <2>1, KeptOne
  <2> QED
    BY <2>2, <2>3 DEF SidesInv
<1> QED
  BY <1>3, <1>4 DEF Drop

LEMMA SidesRetry ==
  ASSUME SidesInv, Retry
  PROVE  SidesInv'
BY SameOne, SameTwo, RetryOne, RetryTwo DEF SidesInv, Retry

\* Both programs have exited, or nothing happens.
LEMMA SidesStutter ==
  ASSUME SidesInv, UNCHANGED <<side1, side2, rcopy>>
  PROVE  SidesInv'
BY KeptOne, KeptTwo DEF SidesInv

LEMMA SidesNext == SidesInv /\ [Next]_vars => SidesInv'
<1> SUFFICES ASSUME SidesInv, [Next]_vars PROVE SidesInv'
  OBVIOUS
<1>1. CASE UNCHANGED vars
  BY <1>1, SidesStutter DEF vars
<1>2. CASE One!Terminated /\ Two!Terminated
  <2>1. UNCHANGED One!vars /\ UNCHANGED Two!vars
    BY <1>2 DEF One!Terminated, Two!Terminated
  <2>2. UNCHANGED <<side1, side2, rcopy>>
    BY <2>1
    DEF One!vars, One!networkVars, One!serverVars, One!rcopyVars,
        Two!vars, Two!networkVars, Two!serverVars, Two!rcopyVars,
        side1, side2, child1, child2, rcopy
  <2> QED
    BY <2>2, SidesStutter
<1> QED
  BY <1>1, <1>2, SidesDuplicate, SidesServer, SidesRcopy, SidesRetry, SidesDrop DEF Next

-----------------------------------------------------------------------------
(***************************************************************************)
(* Whichever child rcopy answers: no child's lower passes rcopy's current, *)
(* every packet under way is below rcopy's upper, every RR at most its     *)
(* current, and rcopy's slots hold packets of its window in their places.  *)
(* A child that takes an RR for what the other one sent (server.c:218-222) *)
(* moves up no further than rcopy did.  Nothing is said of contents.       *)
(***************************************************************************)
THEOREM SidesCorrect == Spec => []SidesInv
BY SidesInit, SidesNext, PTL DEF Spec

\* What the counters say of rcopy's file.
LEMMA SidesReleased ==
  ASSUME SidesInv
  PROVE  ReleasedOnlyWritten
BY DEF SidesInv, OneP!SideInv, OneP!BufferInv, TwoP!SideInv, ReleasedOnlyWritten

\* And rcopy's slots, of its window.
LEMMA SidesSound ==
  ASSUME SidesInv
  PROVE  BufferStaysSound
<1>1. OneP!BufferSound
  BY PacketsOne, OneP!FitsIsSound, FileAssumption, WindowSizeAssumption,
     NULLAssumption, MaxTriesAssumption, MaxInFlightAssumption
  DEF SidesInv
<1> QED
  BY <1>1, SameOne DEF BufferStaysSound

(***************************************************************************)
(* No child releases a packet that rcopy has not written, for any file,    *)
(* window size and number of tries, whichever child rcopy answers          *)
(* (cleaning_up_with_RR, server.c:218-222).                                *)
(***************************************************************************)
THEOREM ReleasedCorrect == Spec => []ReleasedOnlyWritten
<1>1. SidesInv => ReleasedOnlyWritten
  BY SidesReleased
<1> QED
  BY <1>1, SidesCorrect, PTL

(***************************************************************************)
(* rcopy's buffer stays sound with packets of both children in it: each    *)
(* slot holds a packet of the window under its own number, and buffering   *)
(* waits for a missing packet (window.c:86-108, rcopy.c buffering, flush). *)
(***************************************************************************)
THEOREM BufferCorrect == Spec => []BufferStaysSound
<1>1. SidesInv => BufferStaysSound
  BY SidesSound
<1> QED
  BY <1>1, SidesCorrect, PTL
=============================================================================

------------------------------- MODULE Window -------------------------------
(***************************************************************************)
(* window.c: the ring buffer that both programs keep their PDUs in.  The   *)
(* server's window holds what it sent and has no RR for; rcopy's holds     *)
(* what arrived ahead of the expected sequence number.  A window is a      *)
(* record with the fields of struct WindowArray; window_size is the same   *)
(* number on both sides (rcopy sends it in its FILENAME packet) and is the *)
(* constant WindowSize.  NULL is an empty slot.                            *)
(***************************************************************************)
EXTENDS Pdu

CONSTANTS WindowSize, NULL

(***************************************************************************)
(* rcopy's checkArgs does not look at the window size; 0 would make the    *)
(* server divide by zero in get_PDU (see the hazards), so the model, like  *)
(* every use of the program, starts at 1.                                  *)
(***************************************************************************)
ASSUME WindowSizeAssumption == WindowSize \in Nat \ {0}

\* An empty slot is no packet.
ASSUME NULLAssumption == NULL \notin ServerPdu

Slots == 0 .. WindowSize - 1

\* int32_t index = sequence_number % window->window_size
Index(sequence_number) == sequence_number % WindowSize

make_window ==
  [array   |-> [i \in Slots |-> NULL],
   upper   |-> WindowSize,
   lower   |-> 0,
   current |-> 0,
   highest |-> 0]

checkWindowOpen(window) == window.current < window.upper

checkPDUValid(window, sequence_number) ==
  window.array[Index(sequence_number)] # NULL

\* The slot's content whatever its own sequence number is; NULL is the -1.
get_PDU(window, sequence_number) == window.array[Index(sequence_number)]

\* A slot that is populated keeps its PDU.
add_PDU(window, PDU, sequence_number) ==
  IF checkPDUValid(window, sequence_number)
    THEN window
    ELSE [window EXCEPT !.array[Index(sequence_number)] = PDU]

remove_PDU(window, sequence_number) ==
  [window EXCEPT !.array[Index(sequence_number)] = NULL]

updateHighest(window, value) == [window EXCEPT !.highest = value]

incrementCurrent(window) == [window EXCEPT !.current = @ + 1]

incrementLower(window) == [window EXCEPT !.lower = @ + 1]

incrementUpper(window) == [window EXCEPT !.upper = @ + 1]

\* rcopy moves all three together when it has written the expected packet.
advance(window) == incrementCurrent(incrementUpper(incrementLower(window)))
=============================================================================

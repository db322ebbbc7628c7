------------------------------ MODULE PollSet ------------------------------
(***************************************************************************)
(* pollLib.c, on the file descriptors of one process.  A poll set is the   *)
(* three static variables: the table pollFileDescriptors, whose domain is  *)
(* 0 .. currentPollSetSize - 1, and maxFileDescriptor.  A process's files  *)
(* are a function from descriptors to what is open there.                  *)
(***************************************************************************)
EXTENDS Integers, FiniteSets

CONSTANTS
  POLL_SET_SIZE,  \* entries of a new table; 10 in the code
  MaxDescriptor   \* descriptors a process may have

ASSUME PollSetAssumption ==
  POLL_SET_SIZE \in Nat \ {0} /\ MaxDescriptor \in Nat

Descriptors == 0 .. MaxDescriptor

\* "MAIN" is the main server's socket, "OWN" the one a process has opened for
\* its transfer.  A terminal whose other end is gone is "HUNGUP".
FileKinds == {"CLOSED", "OPEN", "HUNGUP", "MAIN", "OWN"}

\* socket() and open() return the lowest descriptor that is not in use.
LowestFree(files) ==
  CHOOSE d \in Descriptors :
    /\ files[d] = "CLOSED"
    /\ \A e \in Descriptors : files[e] = "CLOSED" => d <= e

-----------------------------------------------------------------------------
NotPolled == [fd |-> 0, events |-> FALSE]

PollSets == [table : [Descriptors -> [fd : Descriptors, events : BOOLEAN]],
             size  : Nat,
             max   : Nat]

NoPollSet == [table |-> [d \in Descriptors |-> NotPolled], size |-> 0, max |-> 0]

\* maxFileDescriptor keeps its value.
setupPollSet(ps) ==
  [ps EXCEPT !.table = [d \in Descriptors |-> NotPolled], !.size = POLL_SET_SIZE]

growPollSet(ps, newSetSize) ==
  [ps EXCEPT !.table = [d \in Descriptors |->
                          IF d < ps.size THEN @[d] ELSE NotPolled],
             !.size = newSetSize]

\* Mutant: the first descriptor behind the table is taken for one in it.
no_room_for_last(ps, socketNumber) ==
  LET grown == IF socketNumber > ps.size
               THEN growPollSet(ps, socketNumber + POLL_SET_SIZE) ELSE ps
  IN  [grown EXCEPT
         !.max = IF socketNumber + 1 >= @ THEN socketNumber + 1 ELSE @,
         !.table[socketNumber] = [fd |-> socketNumber, events |-> TRUE]]

addToPollSet(ps, socketNumber) ==
  LET grown == IF socketNumber >= ps.size
               THEN growPollSet(ps, socketNumber + POLL_SET_SIZE) ELSE ps
  IN  [grown EXCEPT
         !.max = IF socketNumber + 1 >= @ THEN socketNumber + 1 ELSE @,
         !.table[socketNumber] = [fd |-> socketNumber, events |-> TRUE]]

removeFromPollSet(ps, socketNumber) ==
  [ps EXCEPT !.table[socketNumber] = NotPolled]

(***************************************************************************)
(* The entries of which poll() reports something (revents > 0) when there  *)
(* is something to read from the files of the kinds in ready.  An entry    *)
(* that was never added, or was removed, asks for nothing of descriptor 0; *)
(* but that a descriptor is hung up or closed is reported unasked.         *)
(***************************************************************************)
Reported(ps, files, ready) ==
  {d \in Descriptors :
     /\ d < ps.max
     /\ LET entry == ps.table[d]
            file  == files[entry.fd]
        IN  \/ file \in {"CLOSED", "HUNGUP"}
            \/ entry.events /\ file \in ready}

\* What pollCall returns: the lowest entry reported, or -1 after a timeout.
pollCall(ps, files, ready) ==
  LET reported == Reported(ps, files, ready)
  IN  IF reported = {} THEN -1
      ELSE CHOOSE d \in reported : \A e \in reported : d <= e
=============================================================================

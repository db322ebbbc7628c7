------------------------------ MODULE FileCopy ------------------------------
(***************************************************************************)
(* What rcopy promises its user: the to-file is the from-file, written in  *)
(* order from its beginning; a run may fail at any time, but one that      *)
(* reports the end of the file has written all of it.                      *)
(***************************************************************************)
EXTENDS Integers, Sequences

CONSTANT File

VARIABLES written,   \* the chunks in the to-file
          status     \* "copying", "complete" or "failed"

Init == written = <<>> /\ status = "copying"

Write ==
  /\ status = "copying"
  /\ Len(written) < Len(File)
  /\ written' = Append(written, File[Len(written) + 1])
  /\ UNCHANGED status

Finish ==
  /\ status = "copying"
  /\ written = File
  /\ status' = "complete"
  /\ UNCHANGED written

Fail ==
  /\ status = "copying"
  /\ status' = "failed"
  /\ UNCHANGED written

Next == Write \/ Finish \/ Fail

Spec == Init /\ [][Next]_<<written, status>>
=============================================================================

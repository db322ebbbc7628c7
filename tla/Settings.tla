------------------------------ MODULE Settings ------------------------------
(***************************************************************************)
(* What SettingsManager makes of the environment (SettingsManager.cpp).    *)
(* The value of a variable is the sequence of what stands between its      *)
(* commas, each with a number at its front (which is all strtol and strtof *)
(* look at) or not; the empty string is the empty sequence.  The numbers   *)
(* are longs; what is narrower than a long is for the module that uses it. *)
(***************************************************************************)
EXTENDS Integers, SequencesExt

Number(n) == [isNumber |-> TRUE, n |-> n]
Word == [isNumber |-> FALSE, n |-> 0]

Unset == [exists |-> FALSE, tokens |-> <<>>]
Value(tokens) == [exists |-> TRUE, tokens |-> tokens]

NotSet == [isSet |-> FALSE, list |-> <<>>]

\* The numbers in front of the first token that is none.
parser2ListLong(tokens) ==
  LET words == {i \in DOMAIN tokens : ~tokens[i].isNumber}
      n == CHOOSE n \in 0 .. Len(tokens) :
             /\ words \cap (1 .. n) = {}
             /\ n + 1 \in words \/ n = Len(tokens)
  IN  [i \in 1 .. n |-> tokens[i].n]

\* loadEnvData, EDT_LIST_LONG: a variable that exists is set, whatever it holds.
loadEnvData_List(value) ==
  IF value.exists THEN [isSet |-> TRUE, list |-> parser2ListLong(value.tokens)]
                  ELSE NotSet

\* loadEnvData, EDT_LONG and EDT_FLOAT: set when it starts with a number.
loadEnvData_Number(value) ==
  IF value.exists /\ value.tokens # <<>> /\ Head(value.tokens).isNumber
  THEN [isSet |-> TRUE, list |-> <<Head(value.tokens).n>>]
  ELSE NotSet
=============================================================================

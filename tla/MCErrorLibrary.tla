--------------------------- MODULE MCErrorLibrary ---------------------------
EXTENDS ErrorLibrary

\* Unset; set without a number; -1 for random events; lists, one that a word
\* cuts short, and one with a number that does not fit into 32 bits, of which
\* 16 stand for them.
MCEnvLists ==
  {Unset} \cup
  {Value(t) : t \in {<<>>, <<Word, Number(2)>>, <<Number(-1)>>, <<Number(2), Word, Number(3)>>,
                     <<Number(3), Number(-1), Number(1)>>, <<Number(65536 + 2)>>}}

\* Numbers at the boundaries of a byte, short payloads of extreme bytes, and
\* one packet whose sum carries twice.
MCFields ==
  [seq     : {<<0, 0>>, <<0, 256>>, <<1, 65535>>},
   flag    : {5, 16},
   payload : {<<p>> : p \in {0, 1, 128, 255}} \cup
             {<<p, q>> : p, q \in {0, 127, 255}}]
  \cup {[seq |-> <<32767, 65535>>, flag |-> 16, payload |-> <<255, 112, 1>>]}
=============================================================================

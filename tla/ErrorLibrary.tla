---------------------------- MODULE ErrorLibrary ----------------------------
(***************************************************************************)
(* The error library of one process (PacketManager.cpp, MsgEvents/, the    *)
(* two modes of SettingsManager.cpp): which datagrams it drops, which it   *)
(* inverts a byte of, and what processPDU makes of the result.             *)
(*                                                                         *)
(* The lists of events are filled once from the environment, by the        *)
(* constructor of SettingsManager, and then by each call of sendErr_init:  *)
(* one in rcopy, two in a child of the server, which inherits the lists of *)
(* the main server and calls sendErr_init again (server.c:9 and 53).       *)
(* Seeds and the error rate are in module Seeds; here drand48() may return *)
(* 0, so that a random event may happen whatever the rate is.              *)
(***************************************************************************)
EXTENDS Checksum, Settings

CONSTANTS
  EnvLists,    \* values of CPE464_OVERRIDE_ERR_DROP and _FLIP
  Fields,      \* what the program hands to createPDU
  Uint32Size,  \* the values of a uint32_t; 2^32 in the code
  MaxInits,    \* calls of sendErr_init in one process
  MaxMsgs      \* bound on the messages sent

ASSUME FieldsAssumption ==
  /\ Fields \subseteq [seq : Word32, flag : Byte, payload : Seq(Byte)]
  /\ \A f \in Fields : Len(f.payload) <= MaxPayload

ASSUME Uint32Assumption == Uint32Size \in Nat \ {0}

\* m_MsgNo, a uint32_t, does not wrap.
ASSUME BoundsAssumption == MaxInits \in Nat /\ MaxMsgs \in 0 .. Uint32Size - 1

VARIABLES
  drop, flip,   \* m_EnvData[EDK_OVERRIDE_ERR_DROP], [EDK_OVERRIDE_ERR_FLIP]
  standard,     \* m_ErrorCase_Constant
  chance,       \* m_ErrorCase_Chance
  inits,        \* calls of sendErr_init so far
  msgNo,        \* m_MsgNo
  last          \* the message on its way: its fields, its bytes and its fate

vars == <<drop, flip, standard, chance, inits, msgNo, last>>

infoSeqNo      == [name |-> "infoSeqNo", dropAll |-> FALSE, dropList |-> {}]
errorFlipBits  == [name |-> "errorFlipBits", dropAll |-> FALSE, dropList |-> {}]
errorDrop(all, list) == [name |-> "errorDrop", dropAll |-> all, dropList |-> list]

NoMessage == [fate |-> "NONE"]

-----------------------------------------------------------------------------
\* The messages that the environment names; a negative number names none.
Named(entry) == ToSet(entry.list) \cap Nat

\* The longs are pushed into a list<uint32_t>, which keeps their low 32 bits.
parserLong2Uint32(entry) == {n % Uint32Size : n \in Named(entry)}

\* The drop event that the environment asks for: of the messages it lists, or,
\* without a list, of any message at random.
loadEnvData_ErrDrop(entry) ==
  LET list == parserLong2Uint32(entry)
  IN  [standard |-> IF entry.isSet /\ list # {}
                    THEN <<errorDrop(FALSE, list)>> ELSE <<>>,
       chance   |-> IF entry.isSet /\ list = {}
                    THEN <<errorDrop(TRUE, {})>> ELSE <<>>]

\* A list of messages to invert is not implemented in the library: it adds
\* nothing, and the variable counts as set.
loadEnvData_ErrFlip(entry) ==
  IF entry.isSet /\ parserLong2Uint32(entry) = {} THEN <<errorFlipBits>> ELSE <<>>

\* The constructor of SettingsManager.
Init ==
  /\ \E value \in EnvLists : drop = loadEnvData_List(value)
  /\ \E value \in EnvLists : flip = loadEnvData_List(value)
  /\ standard = loadEnvData_ErrDrop(drop).standard
  /\ chance = loadEnvData_ErrDrop(drop).chance \o loadEnvData_ErrFlip(flip)
  /\ inits = 0
  /\ msgNo = 0
  /\ last = NoMessage

\* Mutant: the environment is not asked.
user_drops_anyway(isEnabled) ==
  IF isEnabled THEN <<errorDrop(TRUE, {})>> ELSE <<>>

\* What the two modes add to the random events: nothing when the environment
\* has decided.
setUserMode_ErrDrop(isEnabled) ==
  IF isEnabled /\ ~drop.isSet THEN <<errorDrop(TRUE, {})>> ELSE <<>>

setUserMode_ErrFlip(isEnabled) ==
  IF isEnabled /\ ~flip.isSet THEN <<errorFlipBits>> ELSE <<>>

\* Mutant: the inversion is added to the list whose events are all run.
flip_in_standard ==
  /\ inits < MaxInits
  /\ inits' = inits + 1
  /\ standard' = Append(standard, infoSeqNo) \o setUserMode_ErrFlip(TRUE)
  /\ chance' = chance \o setUserMode_ErrDrop(TRUE)
  /\ UNCHANGED <<drop, flip, msgNo, last>>

\* Both programs pass DROP_ON and FLIP_ON.
sendErr_init ==
  /\ inits < MaxInits
  /\ inits' = inits + 1
  /\ standard' = Append(standard, infoSeqNo)
  /\ chance' = chance \o setUserMode_ErrDrop(TRUE) \o setUserMode_ErrFlip(TRUE)
  /\ UNCHANGED <<drop, flip, msgNo, last>>

-----------------------------------------------------------------------------
\* IMsgEvent::run of each class: the results it may have on a message.
run(event, buf, n) ==
  IF event.name = "errorFlipBits"
  THEN {[result |-> 1, buf |-> [buf EXCEPT ![i] = 255 - @]] : i \in DOMAIN buf}
  ELSE {[result |-> IF event.dropAll \/ n \in event.dropList THEN 2 ELSE 0,
         buf    |-> buf]}

\* All events of a list in turn; a drop ends the loop.
runMsgEvents(events, buf, n) ==
  LET after[k \in 0 .. Len(events)] ==
        IF k = 0 THEN {[result |-> 0, buf |-> buf]}
        ELSE UNION {IF o.result = 2 THEN {o}
                    ELSE {[result |-> IF r.result = 0 THEN o.result ELSE r.result,
                           buf    |-> r.buf] : r \in run(events[k], o.buf, n)}
                    : o \in after[k - 1]}
  IN  after[Len(events)]

\* Mutant: all random events are run, as the constant ones are.
all_random_events(buf, n) == runMsgEvents(chance, buf, n)

\* At most one of the random events, drawn anew for each message.
runRandomEvent(buf, n) == UNION {run(chance[k], buf, n) : k \in DOMAIN chance}

processEvents(buf, n) ==
  LET constant == runMsgEvents(standard, buf, n)
  IN  constant \cup
        UNION {{[result |-> IF o.result = 2 THEN 2 ELSE r.result, buf |-> r.buf]
                : r \in runRandomEvent(o.buf, n)} : o \in constant}

\* The program makes a packet and sends it.
sendto_Err ==
  /\ inits > 0
  /\ msgNo < MaxMsgs
  /\ last = NoMessage
  /\ msgNo' = msgNo + 1
  /\ \E fields \in Fields :
       LET buf == createPDU(fields)
       IN  \E o \in processEvents(buf, msgNo') :
             last' = [fate   |-> IF o.result = 2 THEN "DROPPED" ELSE "SENT",
                      fields |-> fields,
                      buf    |-> buf,
                      wire   |-> o.buf]
  /\ UNCHANGED <<drop, flip, standard, chance, inits>>

\* recvfrom at the other side, or nothing: the message is done with.
recvfrom_Mod ==
  /\ last # NoMessage
  /\ last' = NoMessage
  /\ UNCHANGED <<drop, flip, standard, chance, inits, msgNo>>

Next == sendErr_init \/ sendto_Err \/ recvfrom_Mod

Spec == Init /\ [][Next]_vars

-----------------------------------------------------------------------------
TypeOK ==
  /\ {drop, flip} \subseteq {loadEnvData_List(value) : value \in EnvLists}
  /\ \A k \in DOMAIN standard : standard[k].name \in {"infoSeqNo", "errorDrop"}
  /\ \A k \in DOMAIN chance : chance[k].name \in {"errorDrop", "errorFlipBits"}
  /\ inits \in 0 .. MaxInits
  /\ msgNo \in 0 .. MaxMsgs
  /\ last.fate \in {"NONE", "SENT", "DROPPED"}

(***************************************************************************)
(* A datagram that the library leaves alone passes processPDU, which finds *)
(* in it what createPDU was given (pdu.c; the odd byte and the carries of  *)
(* checksum.c:75-84).                                                      *)
(***************************************************************************)
IntactAccepted ==
  last.fate = "SENT" /\ last.wire = last.buf =>
    processPDU(last.wire) = [result |-> 0, fields |-> last.fields]

(***************************************************************************)
(* Whatever else comes out of the library, processPDU rejects.  It depends *)
(* on the library: the checksum notices one inverted byte, and two could   *)
(* cancel out.  After two calls of sendErr_init there are two such events  *)
(* in the list, of which processEvents runs at most one                    *)
(* (PacketManager.cpp:161-165).  The models of the protocol rely on this.  *)
(***************************************************************************)
InvertedRejected ==
  last.fate = "SENT" /\ last.wire # last.buf =>
    processPDU(last.wire).result = -1

(***************************************************************************)
(* When the environment lists the messages to drop, and each number is one *)
(* that a message can have, these are dropped and no others, whichever     *)
(* random event is drawn and however often sendErr_init has been called    *)
(* (SettingsManager.cpp:192-221, 328-343).                                 *)
(***************************************************************************)
DropListDecides ==
  /\ last.fate # "NONE"
  /\ drop.isSet /\ Named(drop) # {}
  /\ \A n \in Named(drop) : n < Uint32Size
  => (last.fate = "DROPPED" <=> msgNo \in Named(drop))
=============================================================================

---------------------------- MODULE RcopyProofs ----------------------------
(***************************************************************************)
(* The steps of rcopy keep the types, and they preserve CoreInv and, if    *)
(* the network keeps the order, OrderInv.                                  *)
(***************************************************************************)
EXTENDS ServerProofs

\* The SREJs are a sequence of packets, empty when there is no gap.
LEMMA SREJsType ==
  ASSUME NEW lo \in Nat, NEW hi \in Nat
  PROVE  /\ SREJs(lo, hi) \in Seq(RcopyPdu)
         /\ Len(SREJs(lo, hi)) = IF lo < hi THEN hi - lo ELSE 0
         /\ \A k \in 1 .. Len(SREJs(lo, hi)) :
              SREJs(lo, hi)[k] = rcopyPDU("SREJ", lo + k - 1)
<1> DEFINE n == IF lo < hi THEN hi - lo ELSE 0
<1>1. n \in Nat /\ 1 .. hi - lo = 1 .. n
  OBVIOUS
<1>2. \A k \in 1 .. n : rcopyPDU("SREJ", lo + k - 1) \in RcopyPdu
  BY RcopyPDUType DEF RcopyFlags
<1>3. SREJs(lo, hi) = [k \in 1 .. n |-> rcopyPDU("SREJ", lo + k - 1)]
  BY <1>1 DEF SREJs
<1> HIDE DEF n
<1>4. SREJs(lo, hi) \in [1 .. n -> RcopyPdu]
  BY <1>2, <1>3
<1>5. SREJs(lo, hi) \in Seq(RcopyPdu) /\ Len(SREJs(lo, hi)) = n
  BY <1>1, <1>4
<1> QED
  BY <1>3, <1>5 DEF n

\* What the write of a packet makes of rcopy.
LEMMA WriteType ==
  ASSUME TypeOK, NEW payload \in Payload, NEW w \in WindowType,
         NEW state \in RcopyStates, WriteCurrent(payload, w, state)
  PROVE  /\ toServer' \in Seq(RcopyPdu)
         /\ out' \in Seq(Payload)
         /\ rwin' \in WindowType
         /\ rstate' \in RcopyStates
         /\ rcause' \in RcopyCauses
<1>1. rcopyPDU("RR", w.current) \in RcopyPdu
  BY RcopyPDUType DEF WindowType, RcopyFlags
<1>2. CASE out' = Append(out, payload) /\ rwin' = w /\ sendRR(w.current) /\ RcopyGoes(state)
  BY <1>1, <1>2 DEF TypeOK, sendRR, RcopyGoes
<1>3. CASE RcopyExits("write_failed") /\ UNCHANGED <<toServer, rwin, out>>
  BY <1>3 DEF TypeOK, RcopyExits, RcopyStates, RcopyCauses
<1> QED
  BY <1>2, <1>3 DEF WriteCurrent

LEMMA TypeRcopy ==
  ASSUME TypeOK, RcopyStep, UNCHANGED serverVars
  PROVE  TypeOK'
<1> USE DEF serverVars, networkVars
<1> DEFINE ServerPart == /\ sstate' \in ServerStates /\ swin' \in WindowType
                        /\ scount' \in 0 .. MaxTries /\ offset' \in 0 .. Len(File)
                        /\ scause' \in ServerCauses
<1>a. ServerPart
  BY DEF TypeOK
<1>b. toClient # <<>> => Tail(toClient) \in Seq(ServerPdu)
  BY DEF TypeOK
<1>c. toClient # <<>> => /\ Received \in ServerPdu
                        /\ Received.seq \in Nat
                        /\ Received.payload \in Payload
  <2>1. toClient # <<>> => Received \in ServerPdu
    BY DEF TypeOK, Received
  <2> QED
    BY <2>1 DEF ServerPdu
<1>d. /\ rwin \in WindowType
      /\ rwin.current \in Nat /\ rwin.lower \in Nat /\ rwin.highest \in Nat
  BY DEF TypeOK, WindowType
<1>e. \A n \in Nat : \A flag \in RcopyFlags :
        Append(toServer, rcopyPDU(flag, n)) \in Seq(RcopyPdu)
  BY RcopyPDUType DEF TypeOK
<1> HIDE DEF ServerPart
<1>1. CASE start \/ filename_recv \/ file_okay \/ discard \/ ten_sec_timeout
  BY <1>1, <1>a, <1>b
  DEF start, filename_recv, file_okay, discard, ten_sec_timeout, TypeOK, rcopyVars,
      RcopyGoes, RcopyExits, ServerPart, RcopyStates, RcopyCauses
<1>2. CASE filename_send
  <2>1. toServer' \in Seq(RcopyPdu)
    BY <1>2, <1>e DEF filename_send, RcopyFlags
  <2> QED
    BY <1>2, <1>a, <2>1 DEF filename_send, TypeOK, RcopyGoes, ServerPart, RcopyStates
<1>3. CASE filename_give_up
  BY <1>3, <1>a, MaxTriesAssumption
  DEF filename_give_up, TypeOK, RcopyExits, ServerPart, RcopyStates, RcopyCauses
<1>4. CASE in_order_expected
  <2> DEFINE w == advance(updateHighest(rwin, Received.seq))
  <2>1. w \in WindowType
    BY <1>4, <1>c, <1>d, AdvanceType, UpdateHighestType DEF in_order_expected, Receives
  <2> HIDE DEF w
  <2>2. WriteCurrent(Received.payload, w, "IN_ORDER")
    BY <1>4 DEF in_order_expected, w
  <2>3. /\ toServer' \in Seq(RcopyPdu) /\ out' \in Seq(Payload) /\ rwin' \in WindowType
        /\ rstate' \in RcopyStates /\ rcause' \in RcopyCauses
    BY <1>4, <1>c, <2>1, <2>2, WriteType DEF in_order_expected, Receives, RcopyStates
  <2> QED
    BY <1>4, <1>a, <1>b, <2>3 DEF in_order_expected, Receives, TypeOK, ServerPart
<1>5. CASE in_order_eof \/ flush_eof
  <2>1. toServer' \in Seq(RcopyPdu)
    BY <1>5, <1>e DEF in_order_eof, flush_eof, sendEOF_ACK, RcopyFlags
  <2> QED
    BY <1>5, <1>a, <1>b, <2>1
    DEF in_order_eof, flush_eof, Receives, RcopyExits, TypeOK, ServerPart, RcopyStates, RcopyCauses
<1>6. CASE in_order_ahead
  <2>1. rwin' \in WindowType
    BY <1>6, <1>c, <1>d, AddType, UpdateHighestType DEF in_order_ahead, Receives
  <2>2. SREJs(rwin.current, Received.seq) \in Seq(RcopyPdu)
    BY <1>6, <1>c, <1>d, SREJsType DEF in_order_ahead, Receives
  <2>3. toServer' \in Seq(RcopyPdu)
    BY <1>6, <2>2 DEF in_order_ahead, TypeOK
  <2> QED
    BY <1>6, <1>a, <1>b, <2>1, <2>3
    DEF in_order_ahead, Receives, RcopyGoes, TypeOK, ServerPart, RcopyStates
<1>7. CASE in_order_old \/ buffering_old
  <2>1. toServer' \in Seq(RcopyPdu)
    BY <1>7, <1>d, <1>e DEF in_order_old, buffering_old, sendRR, RcopyFlags
  <2> QED
    BY <1>7, <1>a, <1>b, <2>1 DEF in_order_old, buffering_old, Receives, TypeOK, ServerPart
<1>8. CASE buffering_ahead
  <2> DEFINE h == IF rwin.highest < Received.seq THEN Received.seq ELSE rwin.highest
             w == add_PDU(rwin, Received, Received.seq)
  <2>1. h \in Nat
    BY <1>8, <1>c, <1>d DEF buffering_ahead, Receives
  <2>2. w \in WindowType
    BY <1>8, <1>c, <1>d, AddType DEF buffering_ahead, Receives
  <2>3. rwin' = updateHighest(w, h)
    BY <1>8 DEF buffering_ahead
  <2> HIDE DEF h, w
  <2>4. rwin' \in WindowType
    BY <2>1, <2>2, <2>3, UpdateHighestType
  <2>5. SREJs(rwin.highest + 1, Received.seq) \in Seq(RcopyPdu)
    <3>1. rwin.highest + 1 \in Nat /\ Received.seq \in Nat
      BY <1>8, <1>c, <1>d DEF buffering_ahead, Receives
    <3> QED
      BY <3>1, SREJsType
  <2>6. toServer' \in Seq(RcopyPdu)
    BY <1>8, <2>5 DEF buffering_ahead, TypeOK
  <2> QED
    BY <1>8, <1>a, <1>b, <2>4, <2>6 DEF buffering_ahead, Receives, TypeOK, ServerPart
<1>9. CASE buffering_expected
  <2>1. CASE Received.flag = "EOF"
    BY <1>9, <1>a, <1>b, <2>1 DEF buffering_expected, Receives, TypeOK, ServerPart
  <2>2. CASE Received.flag # "EOF"
    <3>1. advance(rwin) \in WindowType
      BY <1>d, AdvanceType
    <3>2. WriteCurrent(Received.payload, advance(rwin), "FLUSH")
      BY <1>9, <2>2 DEF buffering_expected
    <3>3. /\ toServer' \in Seq(RcopyPdu) /\ out' \in Seq(Payload) /\ rwin' \in WindowType
          /\ rstate' \in RcopyStates /\ rcause' \in RcopyCauses
      BY <1>9, <1>c, <3>1, <3>2, WriteType DEF buffering_expected, Receives, RcopyStates
    <3> QED
      BY <1>9, <1>a, <1>b, <3>3 DEF buffering_expected, Receives, TypeOK, ServerPart
  <2> QED
    BY <2>1, <2>2
<1>10. CASE flush_write
  <2> DEFINE w == advance(remove_PDU(rwin, rwin.current))
             s == IF rwin.current + 1 > rwin.highest THEN "IN_ORDER" ELSE "FLUSH"
             p == get_PDU(rwin, rwin.current).payload
  <2>1. w \in WindowType
    BY <1>d, AdvanceType, RemoveType
  <2>2. p \in Payload
    BY <1>10, <1>d, IndexInSlots DEF flush_write, checkPDUValid, get_PDU, WindowType, ServerPdu
  <2>3. s \in RcopyStates
    BY DEF RcopyStates
  <2>4. WriteCurrent(p, w, s)
    BY <1>10 DEF flush_write
  <2> HIDE DEF w, s, p
  <2>5. /\ toServer' \in Seq(RcopyPdu) /\ out' \in Seq(Payload) /\ rwin' \in WindowType
        /\ rstate' \in RcopyStates /\ rcause' \in RcopyCauses
    BY <2>1, <2>2, <2>3, <2>4, WriteType
  <2> QED
    BY <1>10, <1>a, <2>5 DEF flush_write, TypeOK, ServerPart
<1>11. CASE flush_gap
  BY <1>11, <1>a DEF flush_gap, RcopyGoes, TypeOK, ServerPart, RcopyStates
<1> QED
  BY <1>1, <1>2, <1>3, <1>4, <1>5, <1>6, <1>7, <1>8, <1>9, <1>10, <1>11 DEF RcopyStep

-----------------------------------------------------------------------------
\* What the steps of rcopy are shown to do.
InvKept == CoreInv' /\ (OrderInv => OrderInv')

\* rcopy is past the handshake and has not ended.
Copying == rstate \in {"IN_ORDER", "BUFFERING", "FLUSH"}

\* The answers that one step of rcopy may send: what it has, what it misses,
\* or the acknowledgement of EOF.
AnswerSound(pdu) ==
  \/ pdu.flag = "RR" /\ pdu.num = rwin'.current
  \/ pdu.flag = "SREJ" /\ rwin.current <= pdu.num /\ pdu.num < swin.current
  \/ pdu.flag = "EOF_ACK" /\ EofSent /\ rcause' = "complete"

\* One answer, or SREJs only, joins the queue behind those that are there.
AnswersSent ==
  \E s \in Seq(RcopyPdu) :
    /\ toServer' = toServer \o s
    /\ \A k \in 1 .. Len(s) : AnswerSound(s[k])
    /\ Len(s) <= 1 \/ \A k \in 1 .. Len(s) : s[k].flag # "RR"

\* rcopy takes the oldest packet on its way to it, or none.
PacketTaken ==
  \/ UNCHANGED toClient
  \/ toClient # <<>> /\ toClient' = Tail(toClient)

\* The first chunk written is the first one of the file, if the response came
\* first.
FirstWritten == ResponseFirst /\ Len(out') >= 1 => out'[1] = File[1]

\* For the leaves whose facts are too many for the arithmetic.
LEMMA LeqTransitive ==
  ASSUME NEW a \in Nat, NEW b \in Nat, NEW c \in Nat, a <= b, b <= c
  PROVE  a <= c
OBVIOUS

-----------------------------------------------------------------------------
(***************************************************************************)
(* A step of rcopy that copies leaves the server and the packets on their  *)
(* way to it alone: what the step has to care for is its own window and    *)
(* the answers it sends.                                                   *)
(***************************************************************************)
LEMMA CopyingFacts ==
  ASSUME CoreInv, Copying
  PROVE  /\ sstate # "NONE" /\ rcause # "complete" /\ ~Handshake
         /\ \A i \in 1 .. Len(toServer) : toServer[i].flag # "EOF_ACK"
<1>1. sstate # "NONE" /\ rcause # "complete" /\ ~Handshake
  BY DEF Copying, CoreInv, HandshakeInv, RcopyInv, Handshake
<1> QED
  BY <1>1 DEF CoreInv, ToServerInv

\* The queue to the server is the old one and the answers.
LEMMA AnswersJoin ==
  ASSUME CoreInv, AnswersSent
  PROVE  \E s \in Seq(RcopyPdu) :
           /\ Len(toServer) \in Nat /\ Len(s) \in Nat
           /\ Len(toServer') = Len(toServer) + Len(s)
           /\ \A i \in 1 .. Len(toServer) :
                /\ toServer'[i] = toServer[i]
                /\ toServer[i] \in RcopyPdu /\ toServer[i].num \in Nat
           /\ \A i \in Len(toServer) + 1 .. Len(toServer) + Len(s) :
                /\ toServer'[i] \in RcopyPdu /\ toServer'[i].num \in Nat
                /\ AnswerSound(toServer'[i])
                /\ Len(s) <= 1 \/ toServer'[i].flag # "RR"
<1>1. PICK s \in Seq(RcopyPdu) :
        /\ toServer' = toServer \o s
        /\ \A k \in 1 .. Len(s) : AnswerSound(s[k])
        /\ Len(s) <= 1 \/ \A k \in 1 .. Len(s) : s[k].flag # "RR"
  BY DEF AnswersSent
<1>2. /\ toServer \in Seq(RcopyPdu) /\ Len(toServer) \in Nat /\ Len(s) \in Nat
      /\ Len(toServer') = Len(toServer) + Len(s)
      /\ \A i \in 1 .. Len(toServer) : toServer'[i] = toServer[i]
      /\ \A i \in Len(toServer) + 1 .. Len(toServer) + Len(s) :
           toServer'[i] = s[i - Len(toServer)]
  BY <1>1, Types, ConcatFacts DEF CoreInv
<1>3. ASSUME NEW i \in 1 .. Len(toServer)
      PROVE  toServer[i] \in RcopyPdu /\ toServer[i].num \in Nat
  <2>1. toServer[i] \in RcopyPdu
    BY <1>2
  <2> QED
    BY <2>1 DEF RcopyPdu
<1>4. ASSUME NEW i \in Len(toServer) + 1 .. Len(toServer) + Len(s)
      PROVE  /\ toServer'[i] \in RcopyPdu /\ toServer'[i].num \in Nat
             /\ AnswerSound(toServer'[i])
             /\ Len(s) <= 1 \/ toServer'[i].flag # "RR"
  <2>1. PICK k \in 1 .. Len(s) : k = i - Len(toServer)
    BY <1>2
  <2>2. s[k] \in RcopyPdu
    BY <1>2
  <2>3. toServer'[i] = s[k] /\ s[k].num \in Nat
    BY <1>2, <2>1, <2>2 DEF RcopyPdu
  <2> QED
    BY <1>1, <2>2, <2>3
<1> QED
  BY <1>2, <1>3, <1>4

LEMMA AnswersKept ==
  ASSUME CoreInv, TypeOK', Copying, UNCHANGED serverVars,
         rwin.current <= rwin'.current, AnswersSent
  PROVE  ToServerInv'
<1> DEFINE n == Len(toServer)
<1>1. PICK s \in Seq(RcopyPdu) :
           /\ n \in Nat /\ Len(s) \in Nat
           /\ Len(toServer') = n + Len(s)
           /\ \A i \in 1 .. n : /\ toServer'[i] = toServer[i]
                                /\ toServer[i] \in RcopyPdu /\ toServer[i].num \in Nat
           /\ \A i \in n + 1 .. n + Len(s) :
                /\ toServer'[i] \in RcopyPdu /\ toServer'[i].num \in Nat
                /\ AnswerSound(toServer'[i])
                /\ Len(s) <= 1 \/ toServer'[i].flag # "RR"
  BY AnswersJoin
<1>2. swin.current \in Nat /\ rwin.current \in Nat /\ rwin'.current \in Nat
  BY Types DEF CoreInv, TypeOK, WindowType
<1>3. \A i \in 1 .. n :
        /\ toServer[i].flag = "RR" => toServer[i].num <= rwin.current
        /\ toServer[i].flag = "SREJ" => toServer[i].num < swin.current
        /\ toServer[i].flag # "EOF_ACK"
        /\ toServer[i].flag # "FILENAME"
  BY CopyingFacts DEF CoreInv, ToServerInv
<1> HIDE DEF n
<1>4. ASSUME NEW i \in 1 .. Len(toServer')
      PROVE  /\ toServer'[i].flag = "RR" => toServer'[i].num <= rwin'.current
             /\ toServer'[i].flag = "SREJ" => toServer'[i].num < swin.current
             /\ toServer'[i].flag = "EOF_ACK" => EofSent /\ rcause' = "complete"
             /\ toServer'[i].flag # "FILENAME"
  <2>1. CASE i \in 1 .. n
    <3>1. toServer'[i] = toServer[i] /\ toServer[i].num \in Nat
      BY <1>1, <2>1
    <3>2. toServer[i].flag = "RR" => toServer[i].num <= rwin'.current
      BY <1>2, <1>3, <2>1, <3>1, LeqTransitive
    <3> QED
      BY <1>3, <2>1, <3>1, <3>2
  <2>2. CASE i \in n + 1 .. n + Len(s)
    <3>1. AnswerSound(toServer'[i])
      BY <1>1, <2>2
    <3> QED
      BY <1>2, <3>1 DEF AnswerSound
  <2> QED
    BY <1>1, <2>1, <2>2
<1>5. EofSent' = EofSent /\ swin' = swin /\ sstate' = sstate
  BY DEF EofSent, serverVars
<1> QED
  BY <1>4, <1>5 DEF ToServerInv

\* They ascend, as those before them did.
LEMMA AnswersStillAscend ==
  ASSUME CoreInv, TypeOK', AnswersAscend, UNCHANGED serverVars,
         rwin.current <= rwin'.current, AnswersSent
  PROVE  AnswersAscend'
<1> DEFINE n == Len(toServer)
<1>1. PICK s \in Seq(RcopyPdu) :
           /\ n \in Nat /\ Len(s) \in Nat
           /\ Len(toServer') = n + Len(s)
           /\ \A i \in 1 .. n : /\ toServer'[i] = toServer[i]
                                /\ toServer[i] \in RcopyPdu /\ toServer[i].num \in Nat
           /\ \A i \in n + 1 .. n + Len(s) :
                /\ toServer'[i] \in RcopyPdu /\ toServer'[i].num \in Nat
                /\ AnswerSound(toServer'[i])
                /\ Len(s) <= 1 \/ toServer'[i].flag # "RR"
  BY AnswersJoin
<1>2. /\ swin.lower \in Nat /\ rwin.current \in Nat /\ rwin'.current \in Nat
      /\ swin.lower <= rwin.current
      /\ sstate' = sstate /\ swin' = swin /\ sstate # "CRASHED"
  BY Types DEF CoreInv, RcopyInv, TypeOK, WindowType, AnswersAscend, serverVars
<1>3. \A i \in 1 .. n : toServer[i].flag = "RR" => toServer[i].num <= rwin.current
  BY DEF CoreInv, ToServerInv
<1>4. \A i \in 1 .. n : toServer[i].flag \in {"RR", "SREJ"} => swin.lower <= toServer[i].num
  BY DEF AnswersAscend
<1>5. \A i, j \in 1 .. n :
        i < j /\ toServer[i].flag = "RR" /\ toServer[j].flag \in {"RR", "SREJ"}
        => toServer[i].num <= toServer[j].num
  BY DEF AnswersAscend
<1> HIDE DEF n
<1>6. \A i \in n + 1 .. n + Len(s) :
        toServer'[i].flag \in {"RR", "SREJ"} => rwin.current <= toServer'[i].num
  BY <1>1, <1>2 DEF AnswerSound
<1>7. ASSUME NEW i \in 1 .. Len(toServer'), toServer'[i].flag \in {"RR", "SREJ"}
      PROVE  swin.lower <= toServer'[i].num
  <2>1. CASE i \in 1 .. n
    BY <1>1, <1>4, <1>7, <2>1
  <2>2. CASE i \in n + 1 .. n + Len(s)
    <3>1. toServer'[i].num \in Nat /\ rwin.current <= toServer'[i].num
      BY <1>1, <1>6, <1>7, <2>2
    <3> QED
      BY <1>2, <3>1, LeqTransitive
  <2> QED
    BY <1>1, <2>1, <2>2
<1>8. ASSUME NEW i \in 1 .. Len(toServer'), NEW j \in 1 .. Len(toServer'), i < j,
             toServer'[i].flag = "RR", toServer'[j].flag \in {"RR", "SREJ"}
      PROVE  toServer'[i].num <= toServer'[j].num
  <2>1. CASE j \in 1 .. n
    <3>1. i \in 1 .. n
      BY <1>1, <1>8, <2>1
    <3> QED
      BY <1>1, <1>5, <1>8, <2>1, <3>1
  <2>2. CASE i \in 1 .. n /\ j \in n + 1 .. n + Len(s)
    <3>1. toServer'[j].num \in Nat /\ rwin.current <= toServer'[j].num
      BY <1>1, <1>6, <1>8, <2>2
    <3>2. toServer'[i].num \in Nat /\ toServer'[i].num <= rwin.current
      BY <1>1, <1>3, <1>8, <2>2
    <3> QED
      BY <1>2, <3>1, <3>2, LeqTransitive
  <2>3. CASE i \in n + 1 .. n + Len(s)
    <3>1. j \in n + 1 .. n + Len(s) /\ Len(s) > 1
      BY <1>1, <1>8, <2>3
    <3>2. toServer'[i].flag # "RR"
      BY <1>1, <2>3, <3>1
    <3> QED
      BY <1>8, <3>2
  <2> QED
    BY <1>1, <1>8, <2>1, <2>2, <2>3
<1> QED
  BY <1>2, <1>7, <1>8 DEF AnswersAscend

\* What is on its way to rcopy, when it takes the oldest packet or none.
LEMMA PacketsKept ==
  ASSUME CoreInv, TypeOK', Copying, UNCHANGED serverVars, PacketTaken,
         rwin.current <= rwin'.current
  PROVE  ToClientInv'
<1> USE DEF serverVars
<1> DEFINE Fits(pdu) == \/ processPDU_ISSUE(pdu)
                        \/ Genuine(pdu)
                        \/ pdu.flag # "FILE_RESPONSE" /\ pdu.seq < rwin'.current
                        \/ pdu.flag = "FILE_RESPONSE" /\ pdu.seq = 0 /\ swin.current >= 1
<1>1. /\ toClient \in Seq(ServerPdu)
      /\ swin.current \in Nat /\ rwin.current \in Nat /\ rwin'.current \in Nat
  BY Types DEF CoreInv, TypeOK, WindowType
<1>2. ASSUME NEW i \in 1 .. Len(toClient)
      PROVE  Fits(toClient[i])
  <2>1. toClient[i] \in ServerPdu
    BY <1>1
  <2>2. toClient[i].seq \in Nat
    BY <2>1 DEF ServerPdu
  <2>3. Response(toClient[i]) =>
          /\ toClient[i].flag = "FILE_RESPONSE" /\ toClient[i].seq = 0
          /\ swin.current >= 1
    BY DEF Response, Copying
  <2>4. Stale(toClient[i]) =>
          toClient[i].flag # "FILE_RESPONSE" /\ toClient[i].seq < rwin'.current
    BY <1>1, <2>2 DEF Stale
  <2> QED
    BY <2>3, <2>4 DEF CoreInv, ToClientInv
<1>3. \A i \in 1 .. Len(toClient') :
        \E k \in 1 .. Len(toClient) :
          /\ toClient'[i] = toClient[k]
          /\ k = i \/ (toClient # <<>> /\ toClient' = Tail(toClient) /\ k = i + 1)
  <2>1. CASE UNCHANGED toClient
    BY <2>1
  <2>2. CASE toClient # <<>> /\ toClient' = Tail(toClient)
    <3>1. \A i \in 1 .. Len(toClient') :
            i + 1 \in 1 .. Len(toClient) /\ toClient'[i] = toClient[i + 1]
      BY <1>1, <2>2, TailFacts
    <3> QED
      BY <2>2, <3>1
  <2> QED
    BY <2>1, <2>2 DEF PacketTaken
<1>4. \A i \in 1 .. Len(toClient') : Fits(toClient'[i])
  <2> HIDE DEF Fits
  <2> QED
    BY <1>2, <1>3
<1>5. \A i, j \in 1 .. Len(toClient') :
        toClient'[i].flag = "FILE_RESPONSE" /\ toClient'[j].flag = "FILE_RESPONSE" => i = j
  <2>1. \A i, j \in 1 .. Len(toClient) :
          toClient[i].flag = "FILE_RESPONSE" /\ toClient[j].flag = "FILE_RESPONSE" => i = j
    BY DEF CoreInv, ToClientInv
  <2>2. CASE UNCHANGED toClient
    BY <2>1, <2>2
  <2>3. CASE toClient # <<>> /\ toClient' = Tail(toClient)
    <3>1. \A i \in 1 .. Len(toClient') :
            i + 1 \in 1 .. Len(toClient) /\ toClient'[i] = toClient[i + 1]
      BY <1>1, <2>3, TailFacts
    <3>2. \A i, j \in 1 .. Len(toClient') :
            toClient'[i].flag = "FILE_RESPONSE" /\ toClient'[j].flag = "FILE_RESPONSE"
            => i + 1 = j + 1
      BY <2>1, <3>1
    <3> QED
      BY <3>2
  <2> QED
    BY <2>2, <2>3 DEF PacketTaken
<1>6. swin' = swin /\ sstate' = sstate
  OBVIOUS
<1> QED
  BY <1>4, <1>5, <1>6 DEF ToClientInv, Genuine, Stale, Response, EofSent, processPDU_ISSUE

\* While it copies, rcopy has the response behind it.
LEMMA ResponseBehind ==
  ASSUME CoreInv, ResponseFirst, Copying
  PROVE  \A i \in 1 .. Len(toClient) : processPDU_ISSUE(toClient[i]) \/ Genuine(toClient[i])
BY DEF ResponseFirst, Copying

LEMMA ResponseStillFirst ==
  ASSUME CoreInv, ResponseFirst, Copying, UNCHANGED serverVars, PacketTaken, FirstWritten
  PROVE  ResponseFirst'
<1> USE DEF serverVars
<1>1. toClient \in Seq(ServerPdu)
  BY Types DEF CoreInv
<1>2. \A i \in 1 .. Len(toClient') :
        \E k \in 1 .. Len(toClient) : toClient'[i] = toClient[k]
  <2>1. CASE UNCHANGED toClient
    BY <2>1
  <2>2. CASE toClient # <<>> /\ toClient' = Tail(toClient)
    <3>1. \A i \in 1 .. Len(toClient') :
            i + 1 \in 1 .. Len(toClient) /\ toClient'[i] = toClient[i + 1]
      BY <1>1, <2>2, TailFacts
    <3> QED
      BY <3>1
  <2> QED
    BY <2>1, <2>2 DEF PacketTaken
<1>3. \A i \in 1 .. Len(toClient') : processPDU_ISSUE(toClient'[i]) \/ Genuine(toClient'[i])
  BY <1>2, ResponseBehind
<1>4. \A i \in 1 .. Len(toClient') : processPDU_ISSUE(toClient'[i]) \/ Genuine(toClient[i])'
  BY <1>3 DEF Genuine, EofSent
<1> QED
  BY <1>4 DEF ResponseFirst, FirstWritten, processPDU_ISSUE

\* The frame of all the steps below.
LEMMA RcopyFrame ==
  ASSUME CoreInv, TypeOK', Copying, UNCHANGED serverVars, RcopyInv',
         rstate' \in {"IN_ORDER", "BUFFERING", "FLUSH", "DONE"},
         rwin.current <= rwin'.current,
         PacketTaken, AnswersSent, FirstWritten
  PROVE  InvKept
<1>1. ToClientInv'
  BY PacketsKept
<1>2. ToServerInv'
  BY AnswersKept
<1>3. ServerInv'
  BY DEF CoreInv, ServerInv, serverVars, get_PDU
<1>4. HandshakeInv'
  BY CopyingFacts DEF HandshakeInv, Handshake, serverVars
<1>5. ASSUME OrderInv PROVE OrderInv'
  BY <1>5, AnswersStillAscend, ResponseStillFirst DEF OrderInv
<1> QED
  BY <1>1, <1>2, <1>3, <1>4, <1>5 DEF CoreInv, InvKept

-----------------------------------------------------------------------------
(***************************************************************************)
(* The handshake: rcopy's window and file stay as they were made.          *)
(***************************************************************************)
LEMMA HandshakeFrame ==
  ASSUME CoreInv, TypeOK', Handshake, UNCHANGED <<serverVars, rwin, out>>,
         rcause' # "complete", rstate' \notin {"BUFFERING", "FLUSH"}
  PROVE  ServerInv' /\ RcopyInv'
<1> USE DEF serverVars
<1>1. ServerInv'
  BY DEF CoreInv, ServerInv, get_PDU
<1>2. rwin = make_window /\ rcause # "complete"
  BY DEF CoreInv, HandshakeInv, RcopyInv, Handshake
<1>3. \A i \in Slots : rwin.array[i] = NULL
  BY <1>2, MakeWindowFacts
<1>4. scause # "acked"
  BY <1>2 DEF CoreInv, RcopyInv
<1>5. \A i \in Slots : SlotSound(rwin, i)'
  BY <1>3 DEF SlotSound
<1>6. RcopyInv'
  BY <1>3, <1>4, <1>5 DEF CoreInv, RcopyInv
<1> QED
  BY <1>1, <1>6

\* The steps that send or give up before anything arrives.
LEMMA HandshakeSendStep ==
  ASSUME CoreInv, TypeOK', UNCHANGED serverVars,
         start \/ filename_send \/ filename_give_up
  PROVE  InvKept
<1> USE DEF serverVars
<1>0. Handshake /\ UNCHANGED <<toClient, rwin, out>>
  BY DEF start, filename_send, filename_give_up, Handshake, networkVars
<1>1. rcause # "complete" /\ rwin = make_window /\ swin.lower = 0
  BY <1>0 DEF CoreInv, HandshakeInv, RcopyInv, Handshake
<1>2. CASE start
  <2>1. /\ rstate' = "FILENAME" /\ UNCHANGED <<toClient, toServer, rcause, rwin, out>>
        /\ rstate = "START"
    BY <1>2 DEF start, RcopyGoes, networkVars
  <2>2. ServerInv' /\ RcopyInv'
    BY <1>0, <1>1, <2>1, HandshakeFrame
  <2>3. sstate = "NONE" /\ toServer = <<>> /\ toClient = <<>>
    BY <2>1 DEF CoreInv, HandshakeInv
  <2>4. ToClientInv' /\ ToServerInv'
    BY <2>1, <2>3 DEF ToClientInv, ToServerInv
  <2>5. HandshakeInv'
    BY <2>1 DEF CoreInv, HandshakeInv, Handshake, NoChild
  <2>6. ASSUME OrderInv PROVE OrderInv'
    BY <2>1, <2>3, <2>6 DEF OrderInv, ResponseFirst, AnswersAscend
  <2> QED
    BY <2>2, <2>4, <2>5, <2>6 DEF CoreInv, InvKept
<1>3. CASE filename_send
  <2>1. /\ rstate' = "FILENAME_POLL" /\ UNCHANGED <<toClient, rcause, rwin, out>>
        /\ toServer' = Append(toServer, rcopyPDU("FILENAME", 0))
        /\ rstate = "FILENAME"
    BY <1>3 DEF filename_send, RcopyGoes
  <2>2. ServerInv' /\ RcopyInv'
    BY <1>0, <1>1, <2>1, HandshakeFrame
  <2>3. sstate = "NONE" /\ toServer = <<>> /\ toClient = <<>> /\ NoChild
    BY <2>1 DEF CoreInv, HandshakeInv
  <2>4. toServer' = <<rcopyPDU("FILENAME", 0)>>
    BY <2>1, <2>3
  <2>5. Len(toServer') = 1 /\ \A i \in 1 .. Len(toServer') : i = 1 /\ toServer'[i].flag = "FILENAME"
    BY <2>4 DEF rcopyPDU
  <2>6. ToClientInv' /\ ToServerInv'
    BY <2>1, <2>3, <2>5 DEF ToClientInv, ToServerInv
  <2>7. NoChild'
    BY <2>3 DEF NoChild, make_window
  <2>8. HandshakeInv'
    BY <1>1, <2>1, <2>3, <2>5, <2>7 DEF HandshakeInv, Handshake
  <2>9. ASSUME OrderInv PROVE OrderInv'
    BY <2>1, <2>3, <2>5, <2>9 DEF OrderInv, ResponseFirst, AnswersAscend
  <2> QED
    BY <2>2, <2>6, <2>8, <2>9 DEF CoreInv, InvKept
<1>4. CASE filename_give_up
  <2>1. /\ rstate' = "DONE" /\ rcause' = "no_answer"
        /\ UNCHANGED <<toClient, toServer, rwin, out>>
        /\ rstate = "FILENAME_POLL"
    BY <1>4 DEF filename_give_up, RcopyExits, networkVars
  <2>2. ServerInv' /\ RcopyInv'
    BY <1>0, <1>1, <2>1, HandshakeFrame
  <2>3. ToClientInv'
    BY <2>1 DEF CoreInv, ToClientInv, Genuine, Stale, Response, EofSent, processPDU_ISSUE
  <2>4. \A i \in 1 .. Len(toServer) : toServer[i].flag \in {"FILENAME", "CORRUPT"}
    BY <1>0 DEF CoreInv, HandshakeInv
  <2>5. ToServerInv'
    BY <2>1, <2>4 DEF CoreInv, ToServerInv
  <2>6. HandshakeInv'
    BY <2>1 DEF CoreInv, HandshakeInv, Handshake, NoChild
  <2>7. ASSUME OrderInv PROVE OrderInv'
    BY <2>1, <2>7 DEF OrderInv, ResponseFirst, AnswersAscend, Genuine, EofSent, processPDU_ISSUE
  <2> QED
    BY <2>2, <2>3, <2>5, <2>6, <2>7 DEF CoreInv, InvKept
<1> QED
  BY <1>2, <1>3, <1>4

\* The first packet from the server, and the to-file opened.
LEMMA HandshakeRecvStep ==
  ASSUME CoreInv, TypeOK', UNCHANGED serverVars, filename_recv \/ file_okay
  PROVE  InvKept
<1> USE DEF serverVars
<1>1. /\ Handshake /\ rstate \in {"FILENAME_POLL", "FILE_OKAY"}
      /\ UNCHANGED <<toServer, rwin, out>>
      /\ rstate' \in {"FILE_OKAY", "IN_ORDER", "DONE"}
      /\ rcause' = rcause \/ rcause' \in {"bad_file", "unexpected", "open_failed"}
  BY DEF filename_recv, file_okay, Handshake, RcopyGoes, RcopyExits, networkVars
<1>2. rcause # "complete" /\ rwin = make_window /\ swin.lower = 0
  BY <1>1 DEF CoreInv, HandshakeInv, RcopyInv, Handshake
<1>3. ServerInv' /\ RcopyInv'
  <2>1. rcause' # "complete" /\ rstate' \notin {"BUFFERING", "FLUSH"}
    BY <1>1, <1>2
  <2> QED
    BY <1>1, <2>1, HandshakeFrame
<1>4. toClient \in Seq(ServerPdu) /\ swin.current \in Nat
  BY Types DEF CoreInv
<1>5. /\ \A i \in 1 .. Len(toClient) :
           \/ processPDU_ISSUE(toClient[i]) \/ Genuine(toClient[i])
           \/ Stale(toClient[i]) \/ Response(toClient[i])
      /\ \A i, j \in 1 .. Len(toClient) :
           toClient[i].flag = "FILE_RESPONSE" /\ toClient[j].flag = "FILE_RESPONSE" => i = j
  BY DEF CoreInv, ToClientInv
<1> DEFINE Rest == \A i \in 1 .. Len(toClient') :
                    processPDU_ISSUE(toClient'[i]) \/ Genuine(toClient'[i])
<1>6. ASSUME filename_recv
      PROVE  sstate # "NONE" /\ ToClientInv' /\ (ResponseFirst => Rest)
  <2>1. toClient # <<>> /\ toClient' = Tail(toClient)
    BY <1>6 DEF filename_recv
  <2>2. /\ 1 \in 1 .. Len(toClient) /\ Head(toClient) = toClient[1]
        /\ \A i \in 1 .. Len(toClient') :
             /\ i + 1 \in 1 .. Len(toClient) /\ toClient'[i] = toClient[i + 1]
             /\ i + 1 # 1
    BY <1>4, <2>1, TailFacts
  <2>3. ASSUME NEW i \in 1 .. Len(toClient'), Response(toClient'[i])
        PROVE  rstate' = "DONE" \/ swin.current >= 1
    <3>1. toClient[i + 1].flag = "FILE_RESPONSE" /\ i + 1 \in 1 .. Len(toClient)
      BY <2>2, <2>3 DEF Response
    <3>2. toClient[1].flag # "FILE_RESPONSE"
      BY <1>5, <2>2, <3>1
    <3>3. CASE rstate' # "DONE"
      <4>1. toClient[1].flag \in {"DATA", "RESENT_TIMEOUT"}
        BY <1>6, <2>2, <3>2, <3>3 DEF filename_recv, RcopyExits
      <4>2. toClient[1] \in ServerPdu
        BY <1>4, <2>2
      <4>3. toClient[1].seq \in Nat
        BY <4>2 DEF ServerPdu
      <4>4. ~Stale(toClient[1])
        BY <1>2, <4>3, MakeWindowFacts DEF Stale
      <4>5. Genuine(toClient[1])
        BY <1>5, <2>2, <4>1, <4>4 DEF processPDU_ISSUE, Response
      <4> QED
        BY <1>4, <4>1, <4>3, <4>5 DEF Genuine
    <3> QED
      BY <3>3
  <2>4. ToClientInv'
    <3>1. \A i \in 1 .. Len(toClient') :
            \/ processPDU_ISSUE(toClient'[i]) \/ Genuine(toClient'[i])
            \/ Stale(toClient'[i])
            \/ /\ toClient'[i].flag = "FILE_RESPONSE" /\ toClient'[i].seq = 0
               /\ rstate' = "DONE" \/ swin.current >= 1
      <4> SUFFICES ASSUME NEW i \in 1 .. Len(toClient'), Response(toClient'[i])
                   PROVE  /\ toClient'[i].flag = "FILE_RESPONSE" /\ toClient'[i].seq = 0
                          /\ rstate' = "DONE" \/ swin.current >= 1
        BY <1>5, <2>2
      <4> QED
        BY <2>3 DEF Response
    <3>2. \A i, j \in 1 .. Len(toClient') :
            toClient'[i].flag = "FILE_RESPONSE" /\ toClient'[j].flag = "FILE_RESPONSE"
            => i + 1 = j + 1
      BY <1>5, <2>2
    <3>3. \A i, j \in 1 .. Len(toClient') :
            toClient'[i].flag = "FILE_RESPONSE" /\ toClient'[j].flag = "FILE_RESPONSE"
            => i = j
      BY <3>2
    <3> QED
      BY <1>1, <3>1, <3>3
      DEF ToClientInv, Genuine, Stale, Response, EofSent, processPDU_ISSUE
  <2>5. ASSUME ResponseFirst PROVE Rest
    BY <2>2, <2>5 DEF ResponseFirst
  <2>6. sstate # "NONE"
    BY <2>1 DEF CoreInv, HandshakeInv
  <2> QED
    BY <2>4, <2>5, <2>6
<1>7. ASSUME file_okay
      PROVE  sstate # "NONE" /\ ToClientInv' /\ (ResponseFirst => Rest)
  <2>1. toClient' = toClient /\ rstate = "FILE_OKAY"
    BY <1>7 DEF file_okay, networkVars
  <2>2. sstate # "NONE"
    BY <2>1 DEF CoreInv, HandshakeInv
  <2>3. ToClientInv'
    BY <1>1, <1>5, <2>1 DEF ToClientInv, Genuine, Stale, Response, EofSent, processPDU_ISSUE
  <2>4. ASSUME ResponseFirst PROVE Rest
    BY <2>1, <2>4 DEF ResponseFirst
  <2> QED
    BY <2>2, <2>3, <2>4
<1>8. sstate # "NONE" /\ ToClientInv' /\ (ResponseFirst => Rest)
  BY <1>6, <1>7
<1>9. \A i \in 1 .. Len(toServer) : toServer[i].flag \in {"FILENAME", "CORRUPT"}
  BY <1>1 DEF CoreInv, HandshakeInv
<1>10. ToServerInv'
  BY <1>1, <1>9 DEF CoreInv, ToServerInv
<1>11. HandshakeInv'
  BY <1>1, <1>2, <1>8, <1>9, MakeWindowFacts DEF HandshakeInv, Handshake, make_window, Slots
<1>12. ASSUME OrderInv PROVE OrderInv'
  <2>1. Rest
    BY <1>8, <1>12 DEF OrderInv
  <2>2. ResponseFirst'
    BY <1>1, <1>12, <2>1 DEF OrderInv, ResponseFirst, Genuine, EofSent, processPDU_ISSUE
  <2> QED
    BY <1>1, <1>12, <2>2 DEF OrderInv, AnswersAscend
<1> QED
  BY <1>3, <1>8, <1>10, <1>11, <1>12 DEF CoreInv, InvKept


-----------------------------------------------------------------------------
(***************************************************************************)
(* rcopy's slots.                                                          *)
(***************************************************************************)
\* A packet of the window is put into its slot, and highest covers it.
LEMMA AddFits ==
  ASSUME TypeOK, NEW w \in WindowType, NEW v \in WindowType, NEW p \in ServerPdu,
         \A i \in Slots : SlotFits(w, i),
         w.current <= p.seq, p.seq < w.upper,
         w.upper = w.current + WindowSize,
         v.current = w.current, v.upper = w.upper, p.seq <= v.highest,
         \/ w.highest <= v.highest
         \/ \A i \in Slots : w.array[i] = NULL,
         v.array = IF w.array[Index(p.seq)] # NULL THEN w.array
                   ELSE [w.array EXCEPT ![Index(p.seq)] = p]
  PROVE  /\ \A i \in Slots : SlotFits(v, i)
         /\ checkPDUValid(v, p.seq)
         /\ \A n \in Nat : checkPDUValid(w, n) => checkPDUValid(v, n)
         /\ \A n \in w.current .. w.upper - 1 :
              n # p.seq /\ ~checkPDUValid(w, n) => ~checkPDUValid(v, n)
<1>1. /\ p.seq \in Nat /\ w.current \in Nat /\ w.upper \in Nat /\ w.highest \in Nat
      /\ v.highest \in Nat /\ w.array \in [Slots -> ServerPdu \cup {NULL}]
      /\ WindowSize \in Nat
  BY WindowSizeAssumption DEF ServerPdu, WindowType
<1>2. Index(p.seq) \in Slots /\ p # NULL
  BY <1>1, IndexInSlots, NULLAssumption
<1>3. \A i \in Slots : \/ v.array[i] = w.array[i]
                       \/ i = Index(p.seq) /\ w.array[i] = NULL /\ v.array[i] = p
  BY <1>1, <1>2
<1>4. ASSUME NEW i \in Slots PROVE SlotFits(v, i)
  <2>1. CASE v.array[i] = w.array[i] /\ w.array[i] # NULL
    <3>1. SlotFits(w, i) /\ w.highest <= v.highest
      BY <2>1
    <3>2. w.array[i] \in ServerPdu /\ w.array[i].seq \in Nat
      <4>1. w.array[i] \in ServerPdu
        BY <1>1, <2>1
      <4> QED
        BY <4>1 DEF ServerPdu
    <3>3. w.array[i].seq <= v.highest
      BY <1>1, <2>1, <3>1, <3>2 DEF SlotFits
    <3> QED
      BY <2>1, <3>1, <3>3 DEF SlotFits
  <2>2. CASE v.array[i] = NULL
    BY <2>2 DEF SlotFits
  <2>3. CASE i = Index(p.seq) /\ v.array[i] = p
    BY <2>3 DEF SlotFits
  <2> QED
    BY <1>3, <2>1, <2>2, <2>3
<1>5. v.array[Index(p.seq)] # NULL
  BY <1>1, <1>2
<1>6. \A n \in Nat : checkPDUValid(w, n) => checkPDUValid(v, n)
  <2> SUFFICES ASSUME NEW n \in Nat, w.array[Index(n)] # NULL
               PROVE  v.array[Index(n)] # NULL
    BY DEF checkPDUValid
  <2>1. Index(n) \in Slots
    BY IndexInSlots
  <2> QED
    BY <1>3, <2>1
<1>7. ASSUME NEW n \in w.current .. w.upper - 1, n # p.seq, w.array[Index(n)] = NULL
      PROVE  v.array[Index(n)] = NULL
  <2>1. Index(n) \in Slots /\ n \in Nat
    BY <1>1, IndexInSlots
  <2>2. Index(n) # Index(p.seq)
    BY <1>1, <1>7, <2>1, IndexDistinct
  <2> QED
    BY <1>3, <1>7, <2>1, <2>2
<1> QED
  BY <1>4, <1>5, <1>6, <1>7 DEF checkPDUValid

\* The window moves by one when the slot of current is, or is made, empty.
LEMMA AdvanceFits ==
  ASSUME TypeOK, NEW w \in WindowType, NEW v \in WindowType,
         \A i \in Slots : SlotFits(w, i),
         w.upper = w.current + WindowSize,
         v.current = w.current + 1, v.upper = w.upper + 1,
         v.highest = w.highest \/ \A i \in Slots : w.array[i] = NULL,
         v.array = [w.array EXCEPT ![Index(w.current)] = NULL]
  PROVE  /\ \A i \in Slots : SlotFits(v, i)
         /\ \A n \in w.current + 1 .. w.upper - 1 :
              checkPDUValid(w, n) => checkPDUValid(v, n)
<1>1. /\ w.current \in Nat /\ w.upper \in Nat /\ w.highest \in Nat
      /\ v.highest \in Nat /\ w.array \in [Slots -> ServerPdu \cup {NULL}]
      /\ WindowSize \in Nat
  BY WindowSizeAssumption DEF WindowType
<1>2. Index(w.current) \in Slots
  BY <1>1, IndexInSlots
<1>3. /\ v.array[Index(w.current)] = NULL
      /\ \A i \in Slots : i # Index(w.current) => v.array[i] = w.array[i]
  BY <1>1, <1>2
<1>4. ASSUME NEW i \in Slots, v.array[i] # NULL PROVE SlotFits(v, i)
  <2>1. i # Index(w.current) /\ v.array[i] = w.array[i]
    BY <1>3, <1>4
  <2>2. w.array[i] \in ServerPdu /\ w.array[i].seq \in Nat
    <3>1. w.array[i] \in ServerPdu
      BY <1>1, <1>4, <2>1
    <3> QED
      BY <3>1 DEF ServerPdu
  <2>3. SlotFits(w, i) /\ v.highest = w.highest
    BY <1>4, <2>1
  <2>4. w.array[i].seq # w.current
    BY <1>4, <2>1, <2>3 DEF SlotFits
  <2> QED
    BY <1>1, <1>4, <2>1, <2>2, <2>3, <2>4 DEF SlotFits
<1>5. \A i \in Slots : SlotFits(v, i)
  BY <1>4 DEF SlotFits
<1>6. ASSUME NEW n \in w.current + 1 .. w.upper - 1, w.array[Index(n)] # NULL
      PROVE  v.array[Index(n)] # NULL
  <2>1. Index(n) \in Slots /\ n \in Nat
    BY <1>1, IndexInSlots
  <2>2. Index(n) # Index(w.current)
    BY <1>1, <2>1, IndexDistinct
  <2> QED
    BY <1>3, <1>6, <2>1, <2>2
<1> QED
  BY <1>5, <1>6 DEF checkPDUValid

\* A slot is sound when its packet fits and is genuine.
LEMMA SoundSlots ==
  ASSUME NEW w
  PROVE  (\A i \in Slots : SlotSound(w, i)) <=>
           /\ \A i \in Slots : SlotFits(w, i)
           /\ \A i \in Slots : w.array[i] # NULL => Genuine(w.array[i])
BY DEF SlotSound, SlotFits

\* The same with what the packets are.
LEMMA AddSound ==
  ASSUME TypeOK, NEW w \in WindowType, NEW v \in WindowType, NEW p \in ServerPdu,
         \A i \in Slots : SlotSound(w, i),
         Genuine(p), w.current <= p.seq, p.seq < w.upper,
         w.upper = w.current + WindowSize,
         v.current = w.current, v.upper = w.upper, p.seq <= v.highest,
         \/ w.highest <= v.highest
         \/ \A i \in Slots : w.array[i] = NULL,
         v.array = IF w.array[Index(p.seq)] # NULL THEN w.array
                   ELSE [w.array EXCEPT ![Index(p.seq)] = p]
  PROVE  /\ \A i \in Slots : SlotSound(v, i)
         /\ checkPDUValid(v, p.seq)
         /\ \A n \in Nat : checkPDUValid(w, n) => checkPDUValid(v, n)
         /\ \A n \in w.current .. w.upper - 1 :
              n # p.seq /\ ~checkPDUValid(w, n) => ~checkPDUValid(v, n)
<1>1. \A i \in Slots : SlotFits(w, i)
  BY SoundSlots
<1>2. Index(p.seq) \in Slots /\ w.array \in [Slots -> ServerPdu \cup {NULL}]
  BY IndexInSlots DEF ServerPdu, WindowType
<1>3. \A i \in Slots : v.array[i] # NULL => Genuine(v.array[i])
  BY <1>2, SoundSlots
<1>4. /\ \A i \in Slots : SlotFits(v, i)
      /\ checkPDUValid(v, p.seq)
      /\ \A n \in Nat : checkPDUValid(w, n) => checkPDUValid(v, n)
      /\ \A n \in w.current .. w.upper - 1 :
           n # p.seq /\ ~checkPDUValid(w, n) => ~checkPDUValid(v, n)
  BY <1>1, AddFits
<1> QED
  BY <1>3, <1>4, SoundSlots

LEMMA AdvanceSound ==
  ASSUME TypeOK, NEW w \in WindowType, NEW v \in WindowType,
         \A i \in Slots : SlotSound(w, i),
         w.upper = w.current + WindowSize,
         v.current = w.current + 1, v.upper = w.upper + 1,
         v.highest = w.highest \/ \A i \in Slots : w.array[i] = NULL,
         v.array = [w.array EXCEPT ![Index(w.current)] = NULL]
  PROVE  /\ \A i \in Slots : SlotSound(v, i)
         /\ \A n \in w.current + 1 .. w.upper - 1 :
              checkPDUValid(w, n) => checkPDUValid(v, n)
<1>1. \A i \in Slots : SlotFits(w, i)
  BY SoundSlots
<1>2. Index(w.current) \in Slots /\ w.array \in [Slots -> ServerPdu \cup {NULL}]
  BY IndexInSlots DEF WindowType
<1>3. \A i \in Slots : v.array[i] # NULL => Genuine(v.array[i])
  BY <1>2, SoundSlots
<1>4. /\ \A i \in Slots : SlotFits(v, i)
      /\ \A n \in w.current + 1 .. w.upper - 1 :
           checkPDUValid(w, n) => checkPDUValid(v, n)
  BY <1>1, AdvanceFits
<1> QED
  BY <1>3, <1>4, SoundSlots

\* The packet in the slot of current is the packet current.
LEMMA CurrentSlot ==
  ASSUME TypeOK, RcopyInv, checkPDUValid(rwin, rwin.current)
  PROVE  /\ get_PDU(rwin, rwin.current) \in ServerPdu
         /\ Genuine(get_PDU(rwin, rwin.current))
         /\ get_PDU(rwin, rwin.current).seq = rwin.current
<1> DEFINE i == Index(rwin.current)
           p == rwin.array[i]
<1>1. rwin.current \in Nat /\ rwin.upper = rwin.current + WindowSize /\ WindowSize >= 1
  BY Types DEF RcopyInv
<1>2. i \in Slots /\ p # NULL
  BY <1>1, IndexInSlots DEF checkPDUValid
<1>3. p \in ServerPdu /\ p.seq \in Nat
  BY <1>2, SlotType
<1>4. SlotSound(rwin, i)
  BY <1>2 DEF RcopyInv
<1>5. Genuine(p) /\ Index(p.seq) = i /\ rwin.current <= p.seq /\ p.seq < rwin.upper
  BY <1>2, <1>4 DEF SlotSound
<1>6. p.seq = rwin.current
  BY <1>1, <1>3, <1>5, IndexDistinct, WindowSizeAssumption
<1> QED
  BY <1>3, <1>5, <1>6 DEF get_PDU

-----------------------------------------------------------------------------
(***************************************************************************)
(* The steps that copy.                                                    *)
(***************************************************************************)
\* rcopy's part of the invariant when it goes on with window v.
LEMMA WindowReplaced ==
  ASSUME CoreInv, TypeOK', Copying, UNCHANGED <<serverVars, rcause>>,
         NEW v \in WindowType, rwin' = v,
         v.lower = v.current, v.upper = v.current + WindowSize,
         rwin.current <= v.current, v.current <= swin.current,
         v.highest <= swin.current,
         \A i \in Slots : SlotSound(v, i),
         Len(out') = v.current, \A i \in 2 .. Len(out') : out'[i] = File[i],
         rstate' \in {"IN_ORDER", "BUFFERING", "FLUSH"},
         rstate' = "IN_ORDER" => \A i \in Slots : v.array[i] = NULL,
         rstate' \in {"BUFFERING", "FLUSH"} =>
           /\ v.current <= v.highest
           /\ v.highest < v.upper
           /\ checkPDUValid(v, v.highest),
         rstate' = "BUFFERING" => ~checkPDUValid(v, v.current)
  PROVE  RcopyInv'
<1> USE DEF serverVars
<1>1. rcause # "complete" /\ scause # "acked"
  BY CopyingFacts DEF CoreInv, RcopyInv
<1>2. ASSUME NEW i \in Slots PROVE SlotSound(rwin, i)'
  <2>1. SlotSound(v, i)
    OBVIOUS
  <2>2. SlotSound(v, i)'
    BY <2>1 DEF SlotSound, Genuine, EofSent
  <2> QED
    BY <2>2 DEF SlotSound
<1>3. swin.lower <= v.current
  BY Types DEF CoreInv, RcopyInv, WindowType
<1> QED
  BY <1>1, <1>2, <1>3 DEF RcopyInv, checkPDUValid, get_PDU

\* rcopy's part of the invariant when it ends.
LEMMA RcopyEnds ==
  ASSUME CoreInv, TypeOK', Copying, UNCHANGED <<serverVars, rwin, out>>,
         rstate' = "DONE",
         rcause' = "complete" => rwin.current = Len(File)
  PROVE  RcopyInv'
<1> USE DEF serverVars
<1>1. scause # "acked"
  BY CopyingFacts DEF CoreInv, RcopyInv
<1>2. ASSUME NEW i \in Slots PROVE SlotSound(rwin, i)'
  BY DEF CoreInv, RcopyInv, SlotSound, Genuine, EofSent
<1> QED
  BY <1>1, <1>2 DEF CoreInv, RcopyInv

\* No answer.
LEMMA NothingSent ==
  ASSUME CoreInv, UNCHANGED toServer
  PROVE  AnswersSent
<1>1. toServer \in Seq(RcopyPdu)
  BY Types DEF CoreInv
<1>2. <<>> \in Seq(RcopyPdu) /\ Len(<<>>) = 0 /\ toServer' = toServer \o <<>>
  BY <1>1
<1>3. PICK s \in Seq(RcopyPdu) : Len(s) = 0 /\ toServer' = toServer \o s
  BY <1>2
<1>4. \A k \in 1 .. Len(s) : AnswerSound(s[k])
  BY <1>3
<1>5. Len(s) <= 1
  BY <1>3
<1> QED
  BY <1>3, <1>4, <1>5 DEF AnswersSent

\* One answer.
LEMMA OneSent ==
  ASSUME CoreInv, NEW p \in RcopyPdu, AnswerSound(p), toServer' = Append(toServer, p)
  PROVE  AnswersSent
<1>1. toServer \in Seq(RcopyPdu)
  BY Types DEF CoreInv
<1>2. <<p>> \in Seq(RcopyPdu) /\ Len(<<p>>) = 1 /\ toServer' = toServer \o <<p>>
  BY <1>1
<1>3. PICK s \in Seq(RcopyPdu) : Len(s) = 1 /\ s[1] = p /\ toServer' = toServer \o s
  BY <1>2
<1>4. \A k \in 1 .. Len(s) : AnswerSound(s[k])
  BY <1>3
<1>5. Len(s) <= 1
  BY <1>3
<1> QED
  BY <1>3, <1>4, <1>5 DEF AnswersSent

\* The SREJs of a gap.
LEMMA GapSent ==
  ASSUME CoreInv, NEW lo \in Nat, NEW hi \in Nat, rwin.current <= lo, hi <= swin.current,
         toServer' = toServer \o SREJs(lo, hi)
  PROVE  AnswersSent
<1>1. /\ SREJs(lo, hi) \in Seq(RcopyPdu)
      /\ Len(SREJs(lo, hi)) = IF lo < hi THEN hi - lo ELSE 0
      /\ \A k \in 1 .. Len(SREJs(lo, hi)) : SREJs(lo, hi)[k] = rcopyPDU("SREJ", lo + k - 1)
  BY SREJsType
<1>2. rwin.current \in Nat /\ swin.current \in Nat
  BY Types DEF CoreInv
<1>3. ASSUME NEW k \in 1 .. Len(SREJs(lo, hi))
      PROVE  /\ AnswerSound(SREJs(lo, hi)[k])
             /\ SREJs(lo, hi)[k].flag # "RR"
  <2>1. rwin.current <= lo + k - 1 /\ lo + k - 1 < swin.current
    BY <1>1, <1>2
  <2>2. SREJs(lo, hi)[k] = rcopyPDU("SREJ", lo + k - 1)
    BY <1>1
  <2>3. SREJs(lo, hi)[k].flag = "SREJ" /\ SREJs(lo, hi)[k].num = lo + k - 1
    BY <2>2 DEF rcopyPDU
  <2> QED
    BY <2>1, <2>3 DEF AnswerSound
<1> QED
  BY <1>1, <1>3 DEF AnswersSent

\* The packet that in_order and buffering look at.
LEMMA ReceivedFacts ==
  ASSUME CoreInv, Copying, toClient # <<>>, ~processPDU_ISSUE(Received)
  PROVE  /\ Received \in ServerPdu /\ Received.seq \in Nat /\ Received.payload \in Payload
         /\ Received.seq <= swin.current
         /\ Received.seq < rwin.current + WindowSize
         /\ Received.seq > rwin.current => Genuine(Received)
         /\ Received.seq >= rwin.current /\ Received.flag # "EOF" =>
              /\ Received.seq < swin.current
              /\ rwin.current >= 1 \/ ResponseFirst => Received.payload = File[Received.seq + 1]
         /\ Received.seq >= rwin.current /\ Received.flag = "EOF" =>
              /\ Received.seq = Len(File)
              /\ Received.seq = swin.current
              /\ EofSent
<1>1. /\ toClient \in Seq(ServerPdu) /\ swin.current \in Nat /\ swin.lower \in Nat
      /\ swin.upper \in Nat /\ rwin.current \in Nat
      /\ WindowSize \in Nat /\ WindowSize >= 1
  BY Types DEF CoreInv
<1>2. Received \in ServerPdu /\ Received = toClient[1] /\ 1 \in 1 .. Len(toClient)
  BY <1>1, TailFacts DEF Received
<1>3. Received.seq \in Nat /\ Received.payload \in Payload
  BY <1>2 DEF ServerPdu
<1>4. /\ Genuine(Received) \/ Stale(Received) \/ Response(Received)
      /\ ResponseFirst => Genuine(Received)
  BY <1>2, ResponseBehind DEF CoreInv, ToClientInv
<1>5. /\ swin.current <= swin.upper /\ swin.upper = swin.lower + WindowSize
      /\ swin.lower <= rwin.current /\ rwin.current <= swin.current
  BY DEF CoreInv, ServerInv, RcopyInv
<1>6. CASE Genuine(Received) /\ Received.flag = "EOF"
  <2>1. Received.seq = Len(File) /\ EofSent
    BY <1>6 DEF Genuine, DataFlags
  <2>2. Received.seq = swin.current /\ swin.current < swin.upper
    BY <2>1 DEF EofSent
  <2>3. Received.seq < rwin.current + WindowSize /\ Received.seq <= swin.current
    BY <1>1, <1>5, <2>2
  <2> QED
    BY <1>2, <1>3, <1>6, <2>1, <2>2, <2>3
<1>7. CASE Genuine(Received) /\ Received.flag # "EOF"
  <2>1. Received.seq < swin.current /\ Received.payload = File[Received.seq + 1]
    BY <1>7 DEF Genuine
  <2>2. Received.seq < rwin.current + WindowSize /\ Received.seq <= swin.current
    BY <1>1, <1>3, <1>5, <2>1
  <2> QED
    BY <1>2, <1>3, <1>7, <2>1, <2>2
<1>8. CASE ~Genuine(Received) /\ Stale(Received)
  <2>1. Received.seq < rwin.current
    BY <1>8 DEF Stale
  <2>2. /\ Received.seq <= swin.current /\ Received.seq < rwin.current + WindowSize
        /\ ~(Received.seq >= rwin.current) /\ ~(Received.seq > rwin.current)
    BY <1>1, <1>3, <1>5, <2>1
  <2> QED
    BY <1>2, <1>3, <2>2
<1>9. CASE ~Genuine(Received) /\ Response(Received)
  <2>1. Received.flag = "FILE_RESPONSE" /\ Received.seq = 0 /\ swin.current >= 1
    BY <1>9 DEF Response, Copying
  <2>2. /\ Received.seq < swin.current /\ Received.seq <= swin.current
        /\ Received.seq < rwin.current + WindowSize /\ ~(Received.seq > rwin.current)
        /\ Received.seq >= rwin.current => ~(rwin.current >= 1)
    BY <1>1, <2>1
  <2>3. ~ResponseFirst /\ Received.flag # "EOF"
    BY <1>4, <1>9, <2>1
  <2> QED
    BY <1>2, <1>3, <2>2, <2>3
<1> QED
  BY <1>4, <1>6, <1>7, <1>8, <1>9

\* A packet is written, or is not and rcopy ends.
LEMMA WriteStep ==
  ASSUME CoreInv, TypeOK', Copying, UNCHANGED serverVars, PacketTaken,
         NEW v \in WindowType,
         v.lower = rwin.current + 1, v.current = rwin.current + 1,
         v.upper = rwin.current + 1 + WindowSize,
         rwin.current < swin.current, v.highest <= swin.current,
         \A i \in Slots : SlotSound(v, i),
         NEW state \in {"IN_ORDER", "FLUSH"},
         state = "IN_ORDER" => \A i \in Slots : v.array[i] = NULL,
         state = "FLUSH" => /\ v.current <= v.highest
                            /\ v.highest < v.upper
                            /\ checkPDUValid(v, v.highest),
         NEW chunk \in Payload,
         rwin.current >= 1 \/ ResponseFirst => chunk = File[rwin.current + 1],
         WriteCurrent(chunk, v, state)
  PROVE  InvKept
<1>1. /\ rwin.current \in Nat /\ swin.current \in Nat /\ out \in Seq(Payload)
      /\ Len(out) = rwin.current
      /\ \A i \in 2 .. Len(out) : out[i] = File[i]
      /\ rcause # "complete"
  BY Types, CopyingFacts DEF CoreInv, RcopyInv, ServerInv
<1>2. CASE /\ out' = Append(out, chunk) /\ rwin' = v
           /\ sendRR(v.current) /\ RcopyGoes(state)
  <2>1. /\ rstate' = state /\ UNCHANGED rcause
        /\ toServer' = Append(toServer, rcopyPDU("RR", v.current))
    BY <1>2 DEF sendRR, RcopyGoes
  <2>2. /\ Len(out') = Len(out) + 1
        /\ \A i \in 1 .. Len(out) : out'[i] = out[i]
        /\ out'[Len(out) + 1] = chunk
    BY <1>1, <1>2, AppendFacts
  <2>3. Len(out') = rwin.current + 1 /\ \A i \in 2 .. Len(out') : out'[i] = File[i]
    <3> SUFFICES ASSUME NEW i \in 2 .. Len(out) + 1
                 PROVE  out'[i] = File[i]
      BY <1>1, <2>2
    <3>1. CASE i \in 2 .. Len(out)
      BY <1>1, <2>2, <3>1
    <3>2. CASE i = Len(out) + 1
      <4>1. rwin.current >= 1 /\ i = rwin.current + 1
        BY <1>1, <3>2
      <4> QED
        BY <1>1, <2>2, <4>1
    <3> QED
      BY <1>1, <3>1, <3>2
  <2>a. FirstWritten
    <3> SUFFICES ASSUME ResponseFirst PROVE out'[1] = File[1]
      BY DEF FirstWritten
    <3>1. CASE rwin.current = 0
      BY <1>1, <2>2, <3>1
    <3>2. CASE rwin.current >= 1
      BY <1>1, <2>2, <3>2 DEF ResponseFirst
    <3> QED
      BY <1>1, <3>1, <3>2
  <2>4. RcopyInv'
    <3>1. /\ rwin' = v /\ v.lower = v.current /\ v.upper = v.current + WindowSize
          /\ rwin.current <= v.current /\ v.current <= swin.current
          /\ Len(out') = v.current
      BY <1>1, <1>2, <2>3
    <3> QED
      BY <2>1, <2>3, <3>1, WindowReplaced
  <2>5. AnswersSent
    <3>1. PICK p \in RcopyPdu : p = rcopyPDU("RR", v.current)
      BY RcopyPDUType DEF WindowType, RcopyFlags
    <3>2. p.flag = "RR" /\ p.num = rwin'.current
      BY <1>2, <3>1 DEF rcopyPDU
    <3>3. AnswerSound(p)
      BY <3>2 DEF AnswerSound
    <3>4. toServer' = Append(toServer, p)
      BY <2>1, <3>1
    <3> QED
      BY <3>3, <3>4, OneSent
  <2>6. rwin.current <= rwin'.current
    BY <1>1, <1>2
  <2> QED
    BY <2>1, <2>4, <2>5, <2>6, <2>a, RcopyFrame
<1>3. CASE RcopyExits("write_failed") /\ UNCHANGED <<toServer, rwin, out>>
  <2>1. rstate' = "DONE" /\ rcause' = "write_failed" /\ UNCHANGED <<toServer, rwin, out>>
    BY <1>3 DEF RcopyExits
  <2>2. RcopyInv'
    BY <2>1, RcopyEnds
  <2>3. AnswersSent /\ FirstWritten /\ rwin.current <= rwin'.current
    BY <1>1, <2>1, NothingSent DEF FirstWritten, ResponseFirst
  <2> QED
    BY <2>1, <2>2, <2>3, RcopyFrame
<1> QED
  BY <1>2, <1>3 DEF WriteCurrent

\* EOF is acknowledged when it is the packet that is due.
LEMMA EofAckStep ==
  ASSUME CoreInv, TypeOK', Copying, UNCHANGED <<serverVars, rwin, out>>, PacketTaken,
         EofSent, rwin.current = Len(File),
         sendEOF_ACK, RcopyExits("complete")
  PROVE  InvKept
<1>1. rstate' = "DONE" /\ rcause' = "complete"
  BY DEF RcopyExits
<1>2. PICK p \in RcopyPdu : p = rcopyPDU("EOF_ACK", 0)
  BY RcopyPDUType DEF RcopyFlags
<1>3. AnswerSound(p)
  BY <1>1, <1>2 DEF AnswerSound, rcopyPDU
<1>4. toServer' = Append(toServer, p)
  BY <1>2 DEF sendEOF_ACK
<1>5. rwin.current <= rwin'.current /\ FirstWritten /\ UNCHANGED serverVars
  BY Types DEF CoreInv, FirstWritten, ResponseFirst
<1>6. AnswersSent
  BY <1>3, <1>4, OneSent
<1>7. RcopyInv'
  BY <1>1, RcopyEnds
<1> QED
  BY <1>1, <1>5, <1>6, <1>7, RcopyFrame

\* A packet that rcopy has already is answered with what it expects.
LEMMA OldStep ==
  ASSUME CoreInv, TypeOK', Copying, UNCHANGED <<serverVars, rstate, rwin, out, rcause>>,
         PacketTaken,
         \/ UNCHANGED toServer
         \/ toServer' = Append(toServer, rcopyPDU("RR", rwin.lower))
         \/ toServer' = Append(toServer, rcopyPDU("RR", rwin.current))
  PROVE  InvKept
<1> USE DEF serverVars
<1>1. RcopyInv'
  BY DEF CoreInv, RcopyInv, SlotSound, Genuine, EofSent, checkPDUValid, get_PDU
<1>2. rwin.lower = rwin.current /\ rwin.current \in Nat
  BY Types DEF CoreInv, RcopyInv
<1>3. UNCHANGED serverVars /\ rwin.current <= rwin'.current /\ FirstWritten
  BY <1>2 DEF FirstWritten, ResponseFirst
<1>4. AnswersSent
  <2>1. CASE UNCHANGED toServer
    BY <2>1, NothingSent
  <2>2. CASE toServer' = Append(toServer, rcopyPDU("RR", rwin.current))
    <3>1. PICK p \in RcopyPdu : p = rcopyPDU("RR", rwin.current)
      BY <1>2, RcopyPDUType DEF RcopyFlags
    <3>2. AnswerSound(p)
      BY <3>1 DEF AnswerSound, rcopyPDU
    <3> QED
      BY <2>2, <3>1, <3>2, OneSent
  <2> QED
    BY <1>2, <2>1, <2>2
<1>5. rstate' \in {"IN_ORDER", "BUFFERING", "FLUSH", "DONE"}
  BY DEF Copying
<1> QED
  BY <1>1, <1>3, <1>4, <1>5, RcopyFrame

-----------------------------------------------------------------------------
\* in_order.
LEMMA InOrderStep ==
  ASSUME CoreInv, TypeOK', UNCHANGED serverVars,
         in_order_expected \/ in_order_eof \/ in_order_ahead \/ in_order_old
  PROVE  InvKept
<1>1. /\ Receives("IN_ORDER") /\ Copying /\ rstate = "IN_ORDER"
      /\ toClient # <<>> /\ PacketTaken /\ ~processPDU_ISSUE(Received)
  BY DEF in_order_expected, in_order_eof, in_order_ahead, in_order_old, Receives, Copying,
         PacketTaken
<1>2. /\ rwin \in WindowType /\ rwin.current \in Nat /\ rwin.lower \in Nat
      /\ rwin.upper \in Nat /\ swin.current \in Nat /\ WindowSize \in Nat /\ WindowSize >= 1
  BY Types DEF CoreInv
<1>3. /\ rwin.lower = rwin.current /\ rwin.upper = rwin.current + WindowSize
      /\ rwin.current <= swin.current
      /\ \A i \in Slots : rwin.array[i] = NULL
      /\ \A i \in Slots : SlotSound(rwin, i)
      /\ Len(out) = rwin.current
      /\ \A i \in 2 .. Len(out) : out[i] = File[i]
  BY <1>1 DEF CoreInv, RcopyInv
<1>4. PICK p \in ServerPdu : p = Received
  BY <1>1, ReceivedFacts
<1>5. /\ p.seq \in Nat /\ p.payload \in Payload
      /\ p.seq <= swin.current /\ p.seq < rwin.current + WindowSize
      /\ p.seq > rwin.current => Genuine(p)
      /\ p.seq >= rwin.current /\ p.flag # "EOF" =>
           /\ p.seq < swin.current
           /\ rwin.current >= 1 \/ ResponseFirst => p.payload = File[p.seq + 1]
      /\ p.seq >= rwin.current /\ p.flag = "EOF" => p.seq = Len(File) /\ EofSent
  BY <1>1, <1>4, ReceivedFacts
<1>6. TypeOK /\ ~(rwin.current < rwin.current) /\ rwin.current >= rwin.current
  BY <1>2 DEF CoreInv
<1>7. CASE in_order_expected
  <2>1. /\ p.seq = rwin.current /\ p.flag # "EOF"
        /\ WriteCurrent(p.payload, advance(updateHighest(rwin, p.seq)), "IN_ORDER")
    BY <1>4, <1>7 DEF in_order_expected
  <2>2. PICK w \in WindowType : w = updateHighest(rwin, p.seq)
    BY <1>2, <1>5, UpdateHighestType
  <2>3. PICK v \in WindowType : v = advance(w)
    BY AdvanceType
  <2>4. /\ w.array = rwin.array /\ w.current = rwin.current /\ w.lower = rwin.lower
        /\ w.upper = rwin.upper /\ w.highest = p.seq
    BY <1>2, <1>5, <2>2, UpdateHighestType
  <2>5. /\ v.array = rwin.array /\ v.current = rwin.current + 1
        /\ v.lower = rwin.lower + 1 /\ v.upper = rwin.upper + 1 /\ v.highest = p.seq
    BY <2>3, <2>4, AdvanceType
  <2>6. \A i \in Slots : v.array[i] = NULL /\ SlotSound(v, i)
    BY <1>3, <2>5 DEF SlotSound
  <2>7. /\ rwin.current < swin.current /\ v.highest <= swin.current
        /\ v.lower = rwin.current + 1 /\ v.upper = rwin.current + 1 + WindowSize
        /\ rwin.current >= 1 \/ ResponseFirst => p.payload = File[rwin.current + 1]
    BY <1>2, <1>3, <1>5, <2>1, <2>5
  <2>8. WriteCurrent(p.payload, v, "IN_ORDER")
    BY <2>1, <2>2, <2>3
  <2> QED
    BY <1>1, <1>5, <2>5, <2>6, <2>7, <2>8, WriteStep
<1>8. CASE in_order_eof
  <2>1. /\ p.seq = rwin.current /\ p.flag = "EOF"
        /\ sendEOF_ACK /\ RcopyExits("complete") /\ UNCHANGED <<rwin, out>>
    BY <1>4, <1>8 DEF in_order_eof
  <2>2. EofSent /\ rwin.current = Len(File)
    BY <1>5, <1>6, <2>1
  <2> QED
    BY <1>1, <2>1, <2>2, EofAckStep
<1>9. CASE in_order_ahead
  <2>1. /\ p.seq > rwin.current
        /\ toServer' = toServer \o SREJs(rwin.current, p.seq)
        /\ rwin' = add_PDU(updateHighest(rwin, p.seq), p, p.seq)
        /\ rstate' = "BUFFERING" /\ UNCHANGED <<out, rcause>>
    BY <1>4, <1>9 DEF in_order_ahead, RcopyGoes
  <2>2. PICK w \in WindowType : w = updateHighest(rwin, p.seq)
    BY <1>2, <1>5, UpdateHighestType
  <2>3. PICK v \in WindowType : v = add_PDU(w, p, p.seq)
    BY <1>5, AddType
  <2>4. /\ w.array = rwin.array /\ w.current = rwin.current /\ w.lower = rwin.lower
        /\ w.upper = rwin.upper /\ w.highest = p.seq
    BY <1>2, <1>5, <2>2, UpdateHighestType
  <2>5. /\ v.array = IF w.array[Index(p.seq)] # NULL THEN w.array
                     ELSE [w.array EXCEPT ![Index(p.seq)] = p]
        /\ v.current = w.current /\ v.lower = w.lower /\ v.upper = w.upper
        /\ v.highest = w.highest
    <3>1. p.seq \in Nat
      BY <1>5
    <3> QED
      BY <2>3, <3>1, AddType
  <2>6. \A i \in Slots : w.array[i] = NULL /\ SlotSound(w, i)
    BY <1>3, <2>4 DEF SlotSound
  <2>7. /\ w.current <= p.seq /\ p.seq < w.upper /\ w.upper = w.current + WindowSize
        /\ p.seq <= v.highest /\ Genuine(p)
    BY <1>2, <1>3, <1>5, <2>1, <2>4, <2>5
  <2>8. /\ \A i \in Slots : SlotSound(v, i)
        /\ checkPDUValid(v, p.seq)
        /\ \A n \in w.current .. w.upper - 1 :
             n # p.seq /\ ~checkPDUValid(w, n) => ~checkPDUValid(v, n)
    BY <1>5, <1>6, <2>5, <2>6, <2>7, AddSound
  <2>9. ~checkPDUValid(v, v.current)
    <3>1. Index(w.current) \in Slots
      BY <1>2, <2>4, IndexInSlots
    <3>2. ~checkPDUValid(w, w.current)
      BY <2>6, <3>1 DEF checkPDUValid
    <3>3. w.current \in w.current .. w.upper - 1 /\ w.current # p.seq
      BY <1>2, <1>3, <2>1, <2>4
    <3> QED
      BY <2>5, <2>8, <3>2, <3>3
  <2>a. rwin' = v
    BY <2>1, <2>2, <2>3
  <2>b. /\ v.lower = v.current /\ v.upper = v.current + WindowSize
        /\ rwin.current <= v.current /\ v.current <= swin.current
        /\ v.highest <= swin.current /\ Len(out') = v.current
        /\ \A i \in 2 .. Len(out') : out'[i] = File[i]
        /\ v.current <= v.highest /\ v.highest < v.upper /\ v.highest = p.seq
    BY <1>2, <1>3, <1>5, <2>1, <2>4, <2>5
  <2>c. RcopyInv'
    BY <1>1, <2>1, <2>8, <2>9, <2>a, <2>b, WindowReplaced
  <2>d. AnswersSent
    <3>2. PICK lo \in Nat : lo = rwin.current
      BY <1>2
    <3>3. rwin.current <= lo /\ toServer' = toServer \o SREJs(lo, p.seq)
      BY <1>2, <2>1, <3>2
    <3> QED
      BY <1>5, <3>3, GapSent
  <2>e. rwin.current <= rwin'.current /\ FirstWritten
    BY <2>1, <2>a, <2>b DEF FirstWritten, ResponseFirst
  <2> QED
    BY <1>1, <2>1, <2>c, <2>d, <2>e, RcopyFrame
<1>a. CASE in_order_old
  <2>1. /\ UNCHANGED <<rstate, rwin, out, rcause>>
        /\ toServer' = Append(toServer, rcopyPDU("RR", rwin.lower))
    BY <1>a DEF in_order_old, sendRR
  <2> QED
    BY <1>1, <2>1, OldStep
<1> QED
  BY <1>7, <1>8, <1>9, <1>a

\* buffering: the window still has a packet above the missing current.
LEMMA BufferingFacts ==
  ASSUME CoreInv, rstate = "BUFFERING" \/ rstate = "FLUSH"
  PROVE  /\ TypeOK /\ Copying
         /\ rwin \in WindowType /\ rwin.current \in Nat /\ rwin.lower \in Nat
         /\ rwin.upper \in Nat /\ rwin.highest \in Nat /\ swin.current \in Nat
         /\ WindowSize \in Nat /\ WindowSize >= 1
         /\ rwin.lower = rwin.current /\ rwin.upper = rwin.current + WindowSize
         /\ rwin.current <= swin.current /\ rwin.highest <= swin.current
         /\ rwin.current <= rwin.highest /\ rwin.highest < rwin.upper
         /\ checkPDUValid(rwin, rwin.highest)
         /\ rstate = "BUFFERING" => /\ ~checkPDUValid(rwin, rwin.current)
                                    /\ rwin.current < rwin.highest
         /\ \A i \in Slots : SlotSound(rwin, i)
         /\ Len(out) = rwin.current
         /\ \A i \in 2 .. Len(out) : out[i] = File[i]
<1>1. /\ rwin \in WindowType /\ rwin.current \in Nat /\ rwin.lower \in Nat
      /\ rwin.upper \in Nat /\ rwin.highest \in Nat /\ swin.current \in Nat
      /\ WindowSize \in Nat /\ WindowSize >= 1
  BY Types DEF CoreInv
<1>2. /\ rwin.lower = rwin.current /\ rwin.upper = rwin.current + WindowSize
      /\ rwin.current <= swin.current /\ rwin.highest <= swin.current
      /\ rwin.current <= rwin.highest /\ rwin.highest < rwin.upper
      /\ checkPDUValid(rwin, rwin.highest)
      /\ rstate = "BUFFERING" => ~checkPDUValid(rwin, rwin.current)
      /\ \A i \in Slots : SlotSound(rwin, i)
      /\ Len(out) = rwin.current
      /\ \A i \in 2 .. Len(out) : out[i] = File[i]
  BY DEF CoreInv, RcopyInv
<1>3. rstate = "BUFFERING" => rwin.current # rwin.highest
  BY <1>2
<1>4. TypeOK /\ Copying
  BY DEF CoreInv, Copying
<1> QED
  BY <1>1, <1>2, <1>3, <1>4

LEMMA BufferingStep ==
  ASSUME CoreInv, TypeOK', UNCHANGED serverVars,
         buffering_ahead \/ buffering_expected \/ buffering_old
  PROVE  InvKept
<1>1. /\ Copying /\ rstate = "BUFFERING"
      /\ toClient # <<>> /\ PacketTaken /\ ~processPDU_ISSUE(Received)
  BY DEF buffering_ahead, buffering_expected, buffering_old, Receives, Copying, PacketTaken
<1>2. /\ TypeOK
      /\ rwin \in WindowType /\ rwin.current \in Nat /\ rwin.lower \in Nat
      /\ rwin.upper \in Nat /\ rwin.highest \in Nat /\ swin.current \in Nat
      /\ WindowSize \in Nat /\ WindowSize >= 1
      /\ rwin.lower = rwin.current /\ rwin.upper = rwin.current + WindowSize
      /\ rwin.current <= swin.current /\ rwin.highest <= swin.current
      /\ rwin.current < rwin.highest /\ rwin.highest < rwin.upper
      /\ checkPDUValid(rwin, rwin.highest) /\ ~checkPDUValid(rwin, rwin.current)
      /\ \A i \in Slots : SlotSound(rwin, i)
      /\ Len(out) = rwin.current
      /\ \A i \in 2 .. Len(out) : out[i] = File[i]
  BY <1>1, BufferingFacts
<1>3. PICK p \in ServerPdu : p = Received
  BY <1>1, ReceivedFacts
<1>4. /\ p.seq \in Nat /\ p.payload \in Payload
      /\ p.seq <= swin.current /\ p.seq < rwin.current + WindowSize
      /\ p.seq > rwin.current => Genuine(p)
      /\ p.seq >= rwin.current /\ p.flag # "EOF" =>
           /\ p.seq < swin.current
           /\ rwin.current >= 1 \/ ResponseFirst => p.payload = File[p.seq + 1]
  BY <1>1, <1>3, ReceivedFacts
<1>5. CASE buffering_ahead
  <2> DEFINE h == IF rwin.highest < p.seq THEN p.seq ELSE rwin.highest
  <2>1. /\ p.seq > rwin.current
        /\ toServer' = toServer \o SREJs(rwin.highest + 1, p.seq)
        /\ rwin' = updateHighest(add_PDU(rwin, p, p.seq), h)
        /\ UNCHANGED <<rstate, out, rcause>>
    BY <1>3, <1>5 DEF buffering_ahead
  <2>2. h \in Nat /\ h >= rwin.highest /\ h >= p.seq /\ (h = p.seq \/ h = rwin.highest)
    BY <1>2, <1>4
  <2> HIDE DEF h
  <2>3. PICK w \in WindowType : w = add_PDU(rwin, p, p.seq)
    BY <1>2, <1>4, AddType
  <2>4. PICK v \in WindowType : v = updateHighest(w, h)
    BY <2>2, UpdateHighestType
  <2>5. /\ w.array = IF rwin.array[Index(p.seq)] # NULL THEN rwin.array
                     ELSE [rwin.array EXCEPT ![Index(p.seq)] = p]
        /\ w.current = rwin.current /\ w.lower = rwin.lower /\ w.upper = rwin.upper
    <3>1. rwin \in WindowType /\ p.seq \in Nat
      BY <1>2, <1>4
    <3> QED
      BY <2>3, <3>1, AddType
  <2>6. /\ v.array = w.array /\ v.current = w.current /\ v.lower = w.lower
        /\ v.upper = w.upper /\ v.highest = h
    BY <2>2, <2>4, UpdateHighestType
  <2>7. /\ rwin.current <= p.seq /\ p.seq < rwin.upper
        /\ p.seq <= v.highest /\ rwin.highest <= v.highest
        /\ v.current = rwin.current /\ v.upper = rwin.upper
        /\ v.array = IF rwin.array[Index(p.seq)] # NULL THEN rwin.array
                     ELSE [rwin.array EXCEPT ![Index(p.seq)] = p]
    BY <1>2, <1>4, <2>1, <2>2, <2>5, <2>6
  <2>8. PICK r \in WindowType : r = rwin
    BY <1>2
  <2>9. /\ \A i \in Slots : SlotSound(r, i)
        /\ r.current <= p.seq /\ p.seq < r.upper /\ r.upper = r.current + WindowSize
        /\ r.highest <= v.highest /\ v.current = r.current /\ v.upper = r.upper
        /\ v.array = IF r.array[Index(p.seq)] # NULL THEN r.array
                     ELSE [r.array EXCEPT ![Index(p.seq)] = p]
    BY <1>2, <2>7, <2>8
  <2>a. /\ \A i \in Slots : SlotSound(v, i)
        /\ checkPDUValid(v, p.seq)
        /\ \A n \in Nat : checkPDUValid(r, n) => checkPDUValid(v, n)
        /\ \A n \in r.current .. r.upper - 1 :
             n # p.seq /\ ~checkPDUValid(r, n) => ~checkPDUValid(v, n)
    BY <1>2, <1>4, <2>1, <2>7, <2>9, AddSound
  <2>b. checkPDUValid(v, v.highest)
    BY <1>2, <2>2, <2>6, <2>8, <2>a
  <2>c. ~checkPDUValid(v, v.current)
    <3>1. r.current \in r.current .. r.upper - 1 /\ r.current # p.seq
      BY <1>2, <2>1, <2>8
    <3>2. ~checkPDUValid(r, r.current)
      BY <1>2, <2>8
    <3> QED
      BY <2>9, <2>a, <3>1, <3>2
  <2>d. rwin' = v
    BY <2>1, <2>3, <2>4
  <2>e. /\ v.lower = v.current /\ v.upper = v.current + WindowSize
        /\ rwin.current <= v.current /\ v.current <= swin.current
        /\ v.highest <= swin.current /\ Len(out') = v.current
        /\ \A i \in 2 .. Len(out') : out'[i] = File[i]
        /\ v.current <= v.highest /\ v.highest < v.upper
    <3>1. /\ v.current = rwin.current /\ v.lower = rwin.lower
          /\ v.upper = rwin.upper /\ v.highest = h
      BY <2>5, <2>6
    <3>2. Len(out') = rwin.current /\ \A i \in 2 .. Len(out') : out'[i] = File[i]
      BY <1>2, <2>1
    <3>3. rwin.current <= h /\ h <= swin.current /\ h < rwin.upper
      BY <1>2, <1>4, <2>1, <2>2
    <3> QED
      BY <1>2, <3>1, <3>2, <3>3
  <2>f. rstate' = "BUFFERING" /\ UNCHANGED <<serverVars, rcause>>
    BY <1>1, <2>1
  <2>g. RcopyInv'
    BY <1>1, <2>a, <2>b, <2>c, <2>d, <2>e, <2>f, WindowReplaced
  <2>h. AnswersSent
    <3>2. PICK lo \in Nat : lo = rwin.highest + 1
      BY <1>2
    <3>3. rwin.current <= lo /\ toServer' = toServer \o SREJs(lo, p.seq)
      BY <1>2, <2>1, <3>2
    <3> QED
      BY <1>4, <3>3, GapSent
  <2>i. rwin.current <= rwin'.current /\ FirstWritten
    BY <2>1, <2>d, <2>e DEF FirstWritten, ResponseFirst
  <2> QED
    BY <1>1, <2>f, <2>g, <2>h, <2>i, RcopyFrame
<1>6. CASE buffering_expected
  <2>1. CASE p.flag # "EOF"
    <3>1. p.seq = rwin.current /\ WriteCurrent(p.payload, advance(rwin), "FLUSH")
      BY <1>3, <1>6, <2>1 DEF buffering_expected
    <3>2. PICK v \in WindowType : v = advance(rwin)
      BY <1>2, AdvanceType
    <3>3. /\ v.array = rwin.array /\ v.current = rwin.current + 1
          /\ v.lower = rwin.lower + 1 /\ v.upper = rwin.upper + 1
          /\ v.highest = rwin.highest
      BY <1>2, <3>2, AdvanceType
    <3>4. rwin.array[Index(rwin.current)] = NULL /\ Index(rwin.current) \in Slots
      BY <1>2, IndexInSlots DEF checkPDUValid
    <3>5. v.array = [rwin.array EXCEPT ![Index(rwin.current)] = NULL]
      <4>1. rwin.array \in [Slots -> ServerPdu \cup {NULL}]
        BY <1>2 DEF WindowType
      <4>2. rwin.array = [rwin.array EXCEPT ![Index(rwin.current)] = NULL]
        BY <3>4, <4>1
      <4> QED
        BY <3>3, <4>2
    <3>6. \A i \in Slots : SlotSound(v, i)
      BY <1>2, <3>3, <3>5, AdvanceSound
    <3>7. checkPDUValid(v, v.highest)
      BY <1>2, <3>3 DEF checkPDUValid
    <3>8. /\ v.lower = rwin.current + 1 /\ v.upper = rwin.current + 1 + WindowSize
          /\ rwin.current < swin.current /\ v.highest <= swin.current
          /\ v.current <= v.highest /\ v.highest < v.upper
          /\ rwin.current >= 1 \/ ResponseFirst => p.payload = File[rwin.current + 1]
      <4>2. p.seq = rwin.current /\ p.seq >= rwin.current
        BY <1>2, <3>1
      <4>1. /\ p.seq < swin.current
            /\ rwin.current >= 1 \/ ResponseFirst => p.payload = File[p.seq + 1]
        BY <1>4, <2>1, <4>2
      <4>3. /\ v.lower = rwin.current + 1 /\ v.upper = rwin.current + 1 + WindowSize
            /\ v.highest <= swin.current
        BY <1>2, <3>3
      <4>4. v.current <= v.highest /\ v.highest < v.upper
        BY <1>2, <3>3
      <4> QED
        BY <4>1, <4>2, <4>3, <4>4
    <3>9. WriteCurrent(p.payload, v, "FLUSH")
      BY <3>1, <3>2
    <3> QED
      BY <1>1, <1>4, <3>3, <3>6, <3>7, <3>8, <3>9, WriteStep
  <2>2. CASE p.flag = "EOF"
    <3>1. UNCHANGED <<toServer, rstate, rwin, out, rcause>>
      BY <1>3, <1>6, <2>2 DEF buffering_expected
    <3>2. UNCHANGED <<serverVars, rstate, rwin, out, rcause>> /\ UNCHANGED toServer
      BY <3>1
    <3> QED
      BY <1>1, <3>2, OldStep
  <2> QED
    BY <2>1, <2>2
<1>7. CASE buffering_old
  <2>1. /\ UNCHANGED <<rstate, rwin, out, rcause>>
        /\ toServer' = Append(toServer, rcopyPDU("RR", rwin.current))
    BY <1>7 DEF buffering_old, sendRR
  <2> QED
    BY <1>1, <2>1, OldStep
<1> QED
  BY <1>5, <1>6, <1>7

\* flush.
LEMMA FlushStep ==
  ASSUME CoreInv, TypeOK', UNCHANGED serverVars, flush_write \/ flush_eof \/ flush_gap
  PROVE  InvKept
<1>1. Copying /\ rstate = "FLUSH" /\ PacketTaken
  BY DEF flush_write, flush_eof, flush_gap, Copying, PacketTaken, networkVars
<1>2. /\ TypeOK
      /\ rwin \in WindowType /\ rwin.current \in Nat /\ rwin.lower \in Nat
      /\ rwin.upper \in Nat /\ rwin.highest \in Nat /\ swin.current \in Nat
      /\ WindowSize \in Nat /\ WindowSize >= 1
      /\ rwin.lower = rwin.current /\ rwin.upper = rwin.current + WindowSize
      /\ rwin.current <= swin.current /\ rwin.highest <= swin.current
      /\ rwin.current <= rwin.highest /\ rwin.highest < rwin.upper
      /\ checkPDUValid(rwin, rwin.highest)
      /\ \A i \in Slots : SlotSound(rwin, i)
      /\ Len(out) = rwin.current
      /\ \A i \in 2 .. Len(out) : out[i] = File[i]
  BY <1>1, BufferingFacts
<1>3. ASSUME checkPDUValid(rwin, rwin.current)
      PROVE  \E p \in ServerPdu : /\ p = get_PDU(rwin, rwin.current)
                                  /\ Genuine(p)
                                  /\ p.seq = rwin.current
  BY <1>2, <1>3, CurrentSlot DEF CoreInv
<1>4. CASE flush_write
  <2>1. PICK p \in ServerPdu : /\ p = get_PDU(rwin, rwin.current)
                               /\ Genuine(p)
                               /\ p.seq = rwin.current
    BY <1>3, <1>4 DEF flush_write
  <2>2. PICK state \in {"IN_ORDER", "FLUSH"} :
          state = IF rwin.current + 1 > rwin.highest THEN "IN_ORDER" ELSE "FLUSH"
    OBVIOUS
  <2>3. /\ p.flag # "EOF"
        /\ WriteCurrent(p.payload, advance(remove_PDU(rwin, rwin.current)), state)
    BY <1>4, <2>1, <2>2 DEF flush_write
  <2>4. p.payload = File[rwin.current + 1] /\ rwin.current < swin.current
    BY <2>1, <2>3 DEF Genuine
  <2>5. PICK w \in WindowType : w = remove_PDU(rwin, rwin.current)
    BY <1>2, RemoveType
  <2>6. PICK v \in WindowType : v = advance(w)
    BY AdvanceType
  <2>7. /\ w.array = [rwin.array EXCEPT ![Index(rwin.current)] = NULL]
        /\ w.current = rwin.current /\ w.lower = rwin.lower
        /\ w.upper = rwin.upper /\ w.highest = rwin.highest
    <3>1. rwin \in WindowType /\ rwin.current \in Nat
      BY <1>2
    <3> QED
      BY <2>5, <3>1, RemoveType
  <2>8. /\ v.array = w.array /\ v.current = w.current + 1 /\ v.lower = w.lower + 1
        /\ v.upper = w.upper + 1 /\ v.highest = w.highest
    BY <2>6, AdvanceType
  <2>9. PICK r \in WindowType : r = rwin
    BY <1>2
  <2>a. /\ \A i \in Slots : SlotSound(r, i)
        /\ r.upper = r.current + WindowSize
        /\ v.current = r.current + 1 /\ v.upper = r.upper + 1
        /\ v.highest = r.highest
        /\ v.array = [r.array EXCEPT ![Index(r.current)] = NULL]
    BY <1>2, <2>7, <2>8, <2>9
  <2>b. /\ \A i \in Slots : SlotSound(v, i)
        /\ \A n \in r.current + 1 .. r.upper - 1 :
             checkPDUValid(r, n) => checkPDUValid(v, n)
    BY <1>2, <2>a, AdvanceSound
  <2>c. state = "IN_ORDER" => \A i \in Slots : v.array[i] = NULL
    <3> SUFFICES ASSUME state = "IN_ORDER", NEW i \in Slots, v.array[i] # NULL
                 PROVE  FALSE
      OBVIOUS
    <3>1. v.array[i] \in ServerPdu
      BY DEF WindowType
    <3>2. v.array[i].seq \in Nat
      BY <3>1 DEF ServerPdu
    <3>3. v.current <= v.array[i].seq /\ v.array[i].seq <= v.highest
      BY <2>b DEF SlotSound
    <3>4. rwin.current + 1 > rwin.highest
      BY <2>2
    <3> QED
      BY <1>2, <2>7, <2>8, <3>2, <3>3, <3>4
  <2>d. state = "FLUSH" => /\ v.current <= v.highest
                           /\ v.highest < v.upper
                           /\ checkPDUValid(v, v.highest)
    <3> SUFFICES ASSUME state = "FLUSH"
                 PROVE  /\ v.current <= v.highest
                        /\ v.highest < v.upper
                        /\ checkPDUValid(v, v.highest)
      OBVIOUS
    <3>1. rwin.current + 1 <= rwin.highest
      BY <1>2, <2>2
    <3>2. r.highest \in r.current + 1 .. r.upper - 1 /\ checkPDUValid(r, r.highest)
      BY <1>2, <2>9, <3>1
    <3>3. checkPDUValid(v, v.highest)
      BY <2>a, <2>b, <3>2
    <3> QED
      BY <1>2, <2>7, <2>8, <3>1, <3>3
  <2>e. /\ v.lower = rwin.current + 1 /\ v.current = rwin.current + 1
        /\ v.upper = rwin.current + 1 + WindowSize /\ v.highest <= swin.current
    BY <1>2, <2>7, <2>8
  <2>f. WriteCurrent(p.payload, v, state)
    BY <2>3, <2>5, <2>6
  <2>g. p.payload \in Payload
    BY DEF ServerPdu
  <2> QED
    BY <1>1, <2>4, <2>b, <2>c, <2>d, <2>e, <2>f, <2>g, WriteStep
<1>5. CASE flush_eof
  <2>1. PICK p \in ServerPdu : /\ p = get_PDU(rwin, rwin.current)
                               /\ Genuine(p)
                               /\ p.seq = rwin.current
    BY <1>3, <1>5 DEF flush_eof
  <2>2. p.flag = "EOF" /\ sendEOF_ACK /\ RcopyExits("complete") /\ UNCHANGED <<rwin, out>>
    BY <1>5, <2>1 DEF flush_eof
  <2>3. EofSent /\ rwin.current = Len(File)
    BY <2>1, <2>2 DEF Genuine, DataFlags
  <2> QED
    BY <1>1, <2>2, <2>3, EofAckStep
<1>6. CASE flush_gap
  <2>1. /\ rstate' = "BUFFERING" /\ UNCHANGED <<toServer, rwin, out, rcause>>
        /\ ~checkPDUValid(rwin, rwin.current)
    BY <1>6 DEF flush_gap, RcopyGoes, networkVars
  <2>2. PICK v \in WindowType : v = rwin
    BY <1>2
  <2>3. RcopyInv'
    <3>1. /\ rwin' = v /\ v.lower = v.current /\ v.upper = v.current + WindowSize
          /\ rwin.current <= v.current /\ v.current <= swin.current
          /\ v.highest <= swin.current /\ Len(out') = v.current
          /\ \A i \in 2 .. Len(out') : out'[i] = File[i]
          /\ \A i \in Slots : SlotSound(v, i)
          /\ v.current <= v.highest /\ v.highest < v.upper
          /\ checkPDUValid(v, v.highest) /\ ~checkPDUValid(v, v.current)
      BY <1>2, <2>1, <2>2
    <3>2. UNCHANGED <<serverVars, rcause>>
      BY <2>1
    <3> QED
      BY <1>1, <2>1, <3>1, <3>2, WindowReplaced
  <2>4. rwin.current <= rwin'.current /\ FirstWritten
    BY <1>2, <2>1 DEF FirstWritten, ResponseFirst
  <2>5. AnswersSent
    BY <2>1, NothingSent
  <2> QED
    BY <1>1, <2>1, <2>3, <2>4, <2>5, RcopyFrame
<1> QED
  BY <1>4, <1>5, <1>6

\* The steps that write and answer nothing.
LEMMA QuietStep ==
  ASSUME CoreInv, TypeOK', UNCHANGED serverVars, discard \/ ten_sec_timeout
  PROVE  InvKept
<1>1. Copying /\ UNCHANGED <<toServer, rwin, out>>
  BY DEF discard, ten_sec_timeout, Copying, rcopyVars, networkVars
<1>2. CASE discard
  <2>1. PacketTaken /\ UNCHANGED <<serverVars, rstate, rwin, out, rcause>> /\ UNCHANGED toServer
    BY <1>2 DEF discard, rcopyVars, PacketTaken
  <2> QED
    BY <1>1, <2>1, OldStep
<1>3. CASE ten_sec_timeout
  <2>1. rstate' = "DONE" /\ rcause' = "timeout" /\ PacketTaken
    BY <1>3 DEF ten_sec_timeout, RcopyExits, networkVars, PacketTaken
  <2>2. UNCHANGED <<serverVars, rwin, out>>
    BY <1>1
  <2>3. RcopyInv'
    BY <1>1, <2>1, <2>2, RcopyEnds
  <2>4. AnswersSent /\ FirstWritten /\ rwin.current <= rwin'.current
    BY <1>1, NothingSent, Types DEF CoreInv, FirstWritten, ResponseFirst
  <2> QED
    BY <1>1, <2>1, <2>3, <2>4, RcopyFrame
<1> QED
  BY <1>2, <1>3

LEMMA RcopyInductive ==
  ASSUME CoreInv, TypeOK', RcopyStep, UNCHANGED serverVars
  PROVE  InvKept
BY HandshakeSendStep, HandshakeRecvStep, InOrderStep, BufferingStep, FlushStep, QuietStep
   DEF RcopyStep

-----------------------------------------------------------------------------
(***************************************************************************)
(* rcopy as it is served by two children: its window stays sound, and what *)
(* it answers keeps to SideInv.                                            *)
(***************************************************************************)
AnswerNear(pdu) ==
  /\ pdu.flag = "RR" => pdu.num <= rwin'.current
  /\ pdu.flag = "SREJ" => pdu.num < rwin'.upper

AnswersNear ==
  \E s \in Seq(RcopyPdu) :
    /\ toServer' = toServer \o s
    /\ \A k \in 1 .. Len(s) : AnswerNear(s[k])

SideKept == SideInv' /\ BufferInv' /\ rwin.current <= rwin'.current

\* The limits of rcopy's window.
LEMMA BufferFacts ==
  ASSUME TypeOK, BufferInv
  PROVE  /\ rwin \in WindowType /\ rwin.current \in Nat /\ rwin.lower \in Nat
         /\ rwin.upper \in Nat /\ rwin.highest \in Nat
         /\ WindowSize \in Nat /\ WindowSize >= 1
         /\ rwin.lower = rwin.current /\ rwin.upper = rwin.current + WindowSize
         /\ out \in Seq(Payload) /\ Len(out) = rwin.current
BY Types DEF BufferInv

\* A window that moves up leaves what is on its way behind.
LEMMA UpKept ==
  ASSUME TypeOK, BufferInv, TypeOK', BufferInv', rwin.current <= rwin'.current
  PROVE  rwin.upper <= rwin'.upper
<1>1. /\ rwin.current \in Nat /\ WindowSize \in Nat
      /\ rwin.upper = rwin.current + WindowSize
  BY BufferFacts
<1>2. rwin'.upper = rwin'.current + WindowSize /\ rwin'.current \in Nat
  BY DEF BufferInv, TypeOK, WindowType
<1> QED
  BY <1>1, <1>2

LEMMA SideAnswers ==
  ASSUME TypeOK, TypeOK', SideInv, BufferInv, BufferInv', UNCHANGED serverVars,
         rwin.current <= rwin'.current, PacketTaken, AnswersNear
  PROVE  SideKept
<1> USE DEF serverVars
<1>1. /\ toClient \in Seq(ServerPdu) /\ toServer \in Seq(RcopyPdu)
      /\ swin.lower \in Nat /\ rwin.current \in Nat /\ rwin.upper \in Nat
  BY Types
<1>2. rwin'.current \in Nat /\ rwin'.upper \in Nat
  BY DEF TypeOK, WindowType
<1>3. rwin.upper <= rwin'.upper
  BY UpKept
<1>4. ASSUME NEW i \in 1 .. Len(toClient') PROVE toClient'[i].seq < rwin'.upper
  <2>1. PICK j \in 1 .. Len(toClient) : toClient'[i] = toClient[j]
    <3>1. CASE UNCHANGED toClient
      BY <1>4, <3>1
    <3>2. CASE toClient # <<>> /\ toClient' = Tail(toClient)
      <4>1. /\ Len(toClient) \in Nat
            /\ Len(toClient') = Len(toClient) - 1
            /\ \A k \in 1 .. Len(toClient') : toClient'[k] = toClient[k + 1]
        BY <1>1, <3>2, TailFacts
      <4>2. i + 1 \in 1 .. Len(toClient) /\ toClient'[i] = toClient[i + 1]
        BY <4>1
      <4> QED
        BY <4>2
    <3> QED
      BY <3>1, <3>2 DEF PacketTaken
  <2>2. toClient[j] \in ServerPdu /\ toClient[j].seq < rwin.upper
    BY <1>1 DEF SideInv
  <2>3. toClient[j].seq \in Nat
    BY <2>2 DEF ServerPdu
  <2> QED
    BY <1>1, <1>2, <1>3, <2>1, <2>2, <2>3
<1>5. ASSUME NEW i \in 1 .. Len(toServer') PROVE AnswerNear(toServer'[i])
  <2>1. PICK s \in Seq(RcopyPdu) : /\ toServer' = toServer \o s
                                   /\ \A k \in 1 .. Len(s) : AnswerNear(s[k])
    BY DEF AnswersNear
  <2>2. /\ Len(toServer) \in Nat /\ Len(s) \in Nat
        /\ Len(toServer') = Len(toServer) + Len(s)
        /\ \A k \in 1 .. Len(toServer) : toServer'[k] = toServer[k]
        /\ \A k \in Len(toServer) + 1 .. Len(toServer) + Len(s) :
             toServer'[k] = s[k - Len(toServer)]
    BY <1>1, <2>1, ConcatFacts
  <2>3. CASE i \in 1 .. Len(toServer)
    <3>1. PICK p \in RcopyPdu : p = toServer[i]
      BY <1>1, <2>3
    <3>2. p.num \in Nat
      BY DEF RcopyPdu
    <3>3. /\ p.flag = "RR" => p.num <= rwin.current
          /\ p.flag = "SREJ" => p.num < rwin.upper
      BY <2>3, <3>1 DEF SideInv
    <3>4. AnswerNear(p)
      BY <1>1, <1>2, <1>3, <3>2, <3>3 DEF AnswerNear
    <3> QED
      BY <2>2, <2>3, <3>1, <3>4
  <2>4. CASE i \notin 1 .. Len(toServer)
    <3>1. PICK k \in 1 .. Len(s) : k = i - Len(toServer)
      BY <2>2, <2>4
    <3>2. i \in Len(toServer) + 1 .. Len(toServer) + Len(s)
      BY <2>2, <2>4
    <3> QED
      BY <2>1, <2>2, <3>1, <3>2
  <2> QED
    BY <2>3, <2>4
<1>6. swin.lower <= rwin'.current
  BY <1>1, <1>2 DEF SideInv
<1>7. SideInv'
  BY <1>4, <1>5, <1>6 DEF SideInv, AnswerNear
<1> QED
  BY <1>7 DEF SideKept

\* No answer, or one.
LEMMA NoneNear ==
  ASSUME TypeOK, UNCHANGED toServer
  PROVE  AnswersNear
<1>1. toServer \in Seq(RcopyPdu)
  BY Types
<1>2. PICK s \in Seq(RcopyPdu) : Len(s) = 0 /\ toServer' = toServer \o s
  <2>1. <<>> \in Seq(RcopyPdu) /\ Len(<<>>) = 0 /\ toServer' = toServer \o <<>>
    BY <1>1
  <2> QED
    BY <2>1
<1>3. \A k \in 1 .. Len(s) : AnswerNear(s[k])
  BY <1>2
<1> QED
  BY <1>2, <1>3 DEF AnswersNear

LEMMA OneNear ==
  ASSUME TypeOK, NEW p \in RcopyPdu, AnswerNear(p), toServer' = Append(toServer, p)
  PROVE  AnswersNear
<1>1. toServer \in Seq(RcopyPdu)
  BY Types
<1>2. PICK s \in Seq(RcopyPdu) : Len(s) = 1 /\ s[1] = p /\ toServer' = toServer \o s
  <2>1. <<p>> \in Seq(RcopyPdu) /\ Len(<<p>>) = 1 /\ toServer' = toServer \o <<p>>
    BY <1>1
  <2> QED
    BY <2>1
<1>3. \A k \in 1 .. Len(s) : AnswerNear(s[k])
  BY <1>2
<1> QED
  BY <1>2, <1>3 DEF AnswersNear

\* The RR is for the number that rcopy expects now.
LEMMA RRNear ==
  ASSUME TypeOK, TypeOK', sendRR(rwin'.current)
  PROVE  AnswersNear
<1>1. PICK n \in Nat : n = rwin'.current
  BY DEF TypeOK, WindowType
<1>2. PICK p \in RcopyPdu : p = rcopyPDU("RR", n)
  BY RcopyPDUType DEF RcopyFlags
<1>3. p.flag = "RR" /\ p.num = rwin'.current
  BY <1>1, <1>2 DEF rcopyPDU
<1>4. AnswerNear(p)
  BY <1>1, <1>3 DEF AnswerNear
<1>5. toServer' = Append(toServer, p)
  BY <1>1, <1>2 DEF sendRR
<1> QED
  BY <1>4, <1>5, OneNear

\* FILENAME and EOF_ACK ask for nothing.
LEMMA OtherNear ==
  ASSUME TypeOK, NEW flag \in {"FILENAME", "EOF_ACK"},
         toServer' = Append(toServer, rcopyPDU(flag, 0))
  PROVE  AnswersNear
<1>1. PICK p \in RcopyPdu : p = rcopyPDU(flag, 0)
  BY RcopyPDUType DEF RcopyFlags
<1>2. AnswerNear(p)
  BY <1>1 DEF AnswerNear, rcopyPDU
<1> QED
  BY <1>1, <1>2, OneNear

\* The SREJs of a gap below upper.
LEMMA GapNear ==
  ASSUME TypeOK, NEW lo \in Nat, NEW hi \in Nat, NEW up \in Nat, hi < up, rwin'.upper = up,
         toServer' = toServer \o SREJs(lo, hi)
  PROVE  AnswersNear
<1>1. PICK s \in Seq(RcopyPdu) : s = SREJs(lo, hi)
  BY SREJsType
<1>2. /\ Len(s) = IF lo < hi THEN hi - lo ELSE 0
      /\ \A k \in 1 .. Len(s) : s[k] = rcopyPDU("SREJ", lo + k - 1)
  BY <1>1, SREJsType
<1>3. ASSUME NEW k \in 1 .. Len(s) PROVE AnswerNear(s[k])
  <2>1. PICK n \in Nat : n = lo + k - 1 /\ n < up
    BY <1>2
  <2>2. s[k] = rcopyPDU("SREJ", n)
    BY <1>2, <2>1
  <2>3. s[k].flag = "SREJ" /\ s[k].num = n
    BY <2>2 DEF rcopyPDU
  <2> QED
    BY <2>1, <2>3 DEF AnswerNear
<1> QED
  BY <1>1, <1>3 DEF AnswersNear

-----------------------------------------------------------------------------
\* The states in which nothing is buffered.
EmptyStates == {"START", "FILENAME", "FILENAME_POLL", "FILE_OKAY", "IN_ORDER"}

\* A step that leaves the window and the file alone.
LEMMA BufferStays ==
  ASSUME BufferInv, UNCHANGED <<rwin, out>>,
         \/ rstate' \in {rstate, "DONE"}
         \/ rstate \in EmptyStates /\ rstate' \in EmptyStates
         \/ rstate = "FLUSH" /\ rstate' = "BUFFERING" /\ ~checkPDUValid(rwin, rwin.current)
  PROVE  BufferInv'
<1>1. /\ (rwin.lower = rwin.current)'
      /\ (rwin.upper = rwin.current + WindowSize)'
      /\ (Len(out) = rwin.current)'
      /\ \A i \in Slots : SlotFits(rwin, i)'
  BY DEF BufferInv, SlotFits
<1>2. (rstate \in EmptyStates => \A i \in Slots : rwin.array[i] = NULL)'
  BY DEF BufferInv, EmptyStates
<1>3. (rstate \in {"BUFFERING", "FLUSH"} =>
         /\ rwin.current <= rwin.highest
         /\ rwin.highest < rwin.upper
         /\ checkPDUValid(rwin, rwin.highest))'
  BY DEF BufferInv, EmptyStates, checkPDUValid
<1>4. (rstate = "BUFFERING" => ~checkPDUValid(rwin, rwin.current))'
  BY DEF BufferInv, EmptyStates, checkPDUValid
<1> QED
  BY <1>1, <1>2, <1>3, <1>4 DEF BufferInv, EmptyStates

LEMMA StillSide ==
  ASSUME TypeOK, TypeOK', SideInv, BufferInv, UNCHANGED serverVars, UNCHANGED <<rwin, out>>,
         PacketTaken, AnswersNear, BufferInv'
  PROVE  SideKept
<1>1. rwin.current <= rwin'.current
  BY BufferFacts
<1> QED
  BY <1>1, SideAnswers

\* rcopy goes on with window v.
LEMMA BufferReplaced ==
  ASSUME TypeOK, BufferInv, NEW v \in WindowType, rwin' = v,
         v.lower = v.current, v.upper = v.current + WindowSize,
         \A i \in Slots : SlotFits(v, i), Len(out') = v.current,
         rstate' \in {"IN_ORDER", "BUFFERING", "FLUSH"},
         rstate' = "IN_ORDER" => \A i \in Slots : v.array[i] = NULL,
         rstate' \in {"BUFFERING", "FLUSH"} =>
           /\ v.current <= v.highest
           /\ v.highest < v.upper
           /\ checkPDUValid(v, v.highest),
         rstate' = "BUFFERING" => ~checkPDUValid(v, v.current)
  PROVE  BufferInv'
<1>1. \A i \in Slots : SlotFits(v, i)'
  BY DEF SlotFits
<1> QED
  BY <1>1 DEF BufferInv, SlotFits, checkPDUValid

\* A packet is written, or is not and rcopy ends.
LEMMA WriteFits ==
  ASSUME TypeOK, TypeOK', SideInv, BufferInv, UNCHANGED serverVars, PacketTaken,
         NEW v \in WindowType,
         v.lower = rwin.current + 1, v.current = rwin.current + 1,
         v.upper = rwin.current + 1 + WindowSize,
         \A i \in Slots : SlotFits(v, i),
         NEW state \in {"IN_ORDER", "FLUSH"},
         state = "IN_ORDER" => \A i \in Slots : v.array[i] = NULL,
         state = "FLUSH" => /\ v.current <= v.highest
                            /\ v.highest < v.upper
                            /\ checkPDUValid(v, v.highest),
         NEW chunk \in Payload, WriteCurrent(chunk, v, state)
  PROVE  SideKept
<1>1. rwin.current \in Nat /\ out \in Seq(Payload) /\ Len(out) = rwin.current
  BY BufferFacts
<1>2. CASE /\ out' = Append(out, chunk) /\ rwin' = v
           /\ sendRR(v.current) /\ RcopyGoes(state)
  <2>1. Len(out') = v.current /\ v.lower = v.current
    BY <1>1, <1>2, AppendFacts
  <2>2. rstate' = state /\ v.upper = v.current + WindowSize
    BY <1>2 DEF RcopyGoes
  <2>3. BufferInv'
    BY <1>2, <2>1, <2>2, BufferReplaced
  <2>4. rwin.current <= rwin'.current
    BY <1>1, <1>2
  <2>5. AnswersNear
    BY <1>2, RRNear
  <2> QED
    BY <2>3, <2>4, <2>5, SideAnswers
<1>3. CASE RcopyExits("write_failed") /\ UNCHANGED <<toServer, rwin, out>>
  <2>1. rstate' = "DONE" /\ UNCHANGED <<toServer, rwin, out>>
    BY <1>3 DEF RcopyExits
  <2>2. BufferInv'
    BY <2>1, BufferStays
  <2> QED
    BY <2>1, <2>2, NoneNear, StillSide
<1> QED
  BY <1>2, <1>3 DEF WriteCurrent

-----------------------------------------------------------------------------
\* The packet that in_order and buffering look at, if it is not behind.
LEMMA ReceivedNear ==
  ASSUME TypeOK, SideInv, BufferInv, toClient # <<>>
  PROVE  /\ Received \in ServerPdu /\ Received.seq \in Nat /\ Received.payload \in Payload
         /\ Received.seq < rwin.upper
<1>1. toClient \in Seq(ServerPdu)
  BY Types
<1>2. Received \in ServerPdu /\ Received = toClient[1] /\ 1 \in 1 .. Len(toClient)
  BY <1>1, TailFacts DEF Received
<1>3. Received.seq \in Nat /\ Received.payload \in Payload
  BY <1>2 DEF ServerPdu
<1> QED
  BY <1>2, <1>3 DEF SideInv

\* The steps that leave the window alone.
LEMMA StillSteps ==
  ASSUME TypeOK, TypeOK', SideInv, BufferInv, UNCHANGED serverVars,
         \/ start \/ filename_send \/ filename_recv \/ filename_give_up \/ file_okay
         \/ discard \/ ten_sec_timeout \/ in_order_eof \/ flush_eof \/ flush_gap
  PROVE  SideKept
<1>1. UNCHANGED <<rwin, out>> /\ PacketTaken
  BY DEF start, filename_send, filename_recv, filename_give_up, file_okay, discard,
         ten_sec_timeout, in_order_eof, flush_eof, flush_gap, Receives, PacketTaken,
         networkVars, rcopyVars
<1>2. \/ rstate' \in {rstate, "DONE"}
      \/ rstate \in EmptyStates /\ rstate' \in EmptyStates
      \/ rstate = "FLUSH" /\ rstate' = "BUFFERING" /\ ~checkPDUValid(rwin, rwin.current)
  BY DEF start, filename_send, filename_recv, filename_give_up, file_okay, discard,
         ten_sec_timeout, in_order_eof, flush_eof, flush_gap, Receives,
         RcopyGoes, RcopyExits, rcopyVars, EmptyStates
<1>3. BufferInv'
  BY <1>1, <1>2, BufferStays
<1>4. \/ UNCHANGED toServer
      \/ toServer' = Append(toServer, rcopyPDU("FILENAME", 0))
      \/ toServer' = Append(toServer, rcopyPDU("EOF_ACK", 0))
  BY DEF start, filename_send, filename_recv, filename_give_up, file_okay, discard,
         ten_sec_timeout, in_order_eof, flush_eof, flush_gap, sendEOF_ACK, networkVars
<1>5. AnswersNear
  BY <1>4, NoneNear, OtherNear
<1> QED
  BY <1>1, <1>3, <1>5, StillSide

\* What is behind is answered with an RR.
LEMMA OldSteps ==
  ASSUME TypeOK, TypeOK', SideInv, BufferInv, UNCHANGED serverVars,
         in_order_old \/ buffering_old
  PROVE  SideKept
<1>1. UNCHANGED <<rwin, out>> /\ PacketTaken /\ rstate' = rstate
  BY DEF in_order_old, buffering_old, Receives, PacketTaken
<1>2. BufferInv'
  BY <1>1, BufferStays
<1>3. sendRR(rwin'.current)
  BY <1>1, BufferFacts DEF in_order_old, buffering_old
<1>4. AnswersNear
  BY <1>3, RRNear
<1> QED
  BY <1>1, <1>2, <1>4, StillSide

\* in_order: the buffer is empty.
LEMMA InOrderFits ==
  ASSUME TypeOK, TypeOK', SideInv, BufferInv, UNCHANGED serverVars,
         in_order_expected \/ in_order_ahead
  PROVE  SideKept
<1>1. rstate = "IN_ORDER" /\ toClient # <<>> /\ PacketTaken
  BY DEF in_order_expected, in_order_ahead, Receives, PacketTaken
<1>2. /\ rwin \in WindowType /\ rwin.current \in Nat /\ rwin.lower \in Nat
      /\ rwin.upper \in Nat /\ WindowSize \in Nat /\ WindowSize >= 1
      /\ rwin.lower = rwin.current /\ rwin.upper = rwin.current + WindowSize
      /\ Len(out) = rwin.current
  BY BufferFacts
<1>3. \A i \in Slots : rwin.array[i] = NULL
  BY <1>1 DEF BufferInv
<1>4. PICK p \in ServerPdu : p = Received
  BY <1>1, ReceivedNear
<1>5. p.seq \in Nat /\ p.payload \in Payload /\ p.seq < rwin.upper
  BY <1>1, <1>4, ReceivedNear
<1>6. PICK w \in WindowType : w = updateHighest(rwin, p.seq)
  BY <1>2, <1>5, UpdateHighestType
<1>7. /\ w.array = rwin.array /\ w.current = rwin.current /\ w.lower = rwin.lower
      /\ w.upper = rwin.upper /\ w.highest = p.seq
  BY <1>2, <1>5, <1>6, UpdateHighestType
<1>8. CASE in_order_expected
  <2>1. PICK v \in WindowType : v = advance(w)
    BY AdvanceType
  <2>2. WriteCurrent(p.payload, v, "IN_ORDER")
    BY <1>4, <1>6, <1>8, <2>1 DEF in_order_expected
  <2>3. /\ v.array = rwin.array /\ v.current = rwin.current + 1
        /\ v.lower = rwin.lower + 1 /\ v.upper = rwin.upper + 1
    BY <1>7, <2>1, AdvanceType
  <2>4. \A i \in Slots : v.array[i] = NULL /\ SlotFits(v, i)
    BY <1>3, <2>3 DEF SlotFits
  <2>5. v.lower = rwin.current + 1 /\ v.upper = rwin.current + 1 + WindowSize
    BY <1>2, <2>3
  <2> QED
    BY <1>1, <1>5, <2>2, <2>3, <2>4, <2>5, WriteFits
<1>9. CASE in_order_ahead
  <2>1. /\ p.seq > rwin.current
        /\ toServer' = toServer \o SREJs(rwin.current, p.seq)
        /\ rwin' = add_PDU(w, p, p.seq)
        /\ rstate' = "BUFFERING" /\ UNCHANGED out
    BY <1>4, <1>6, <1>9 DEF in_order_ahead, RcopyGoes
  <2>2. PICK v \in WindowType : v = add_PDU(w, p, p.seq)
    BY <1>5, AddType
  <2>3. /\ v.array = IF w.array[Index(p.seq)] # NULL THEN w.array
                     ELSE [w.array EXCEPT ![Index(p.seq)] = p]
        /\ v.current = w.current /\ v.lower = w.lower /\ v.upper = w.upper
        /\ v.highest = w.highest
    <3>1. p.seq \in Nat
      BY <1>5
    <3> QED
      BY <2>2, <3>1, AddType
  <2>4. \A i \in Slots : w.array[i] = NULL /\ SlotFits(w, i)
    BY <1>3, <1>7 DEF SlotFits
  <2>5. /\ w.current <= p.seq /\ p.seq < w.upper /\ w.upper = w.current + WindowSize
        /\ p.seq <= v.highest
    BY <1>2, <1>5, <1>7, <2>1, <2>3
  <2>6. /\ \A i \in Slots : SlotFits(v, i)
        /\ checkPDUValid(v, p.seq)
        /\ \A n \in w.current .. w.upper - 1 :
             n # p.seq /\ ~checkPDUValid(w, n) => ~checkPDUValid(v, n)
    BY <1>5, <2>3, <2>4, <2>5, AddFits
  <2>7. ~checkPDUValid(v, v.current)
    <3>1. Index(w.current) \in Slots
      BY <1>2, <1>7, IndexInSlots
    <3>2. ~checkPDUValid(w, w.current)
      BY <2>4, <3>1 DEF checkPDUValid
    <3>3. w.current \in w.current .. w.upper - 1 /\ w.current # p.seq
      BY <1>2, <1>7, <2>1
    <3> QED
      BY <2>3, <2>6, <3>2, <3>3
  <2>8. /\ rwin' = v /\ v.lower = v.current /\ v.upper = v.current + WindowSize
        /\ v.current = rwin.current
        /\ Len(out') = v.current
        /\ v.current <= v.highest /\ v.highest < v.upper /\ v.highest = p.seq
    BY <1>2, <1>5, <1>7, <2>1, <2>2, <2>3
  <2>9. BufferInv'
    BY <2>1, <2>6, <2>7, <2>8, BufferReplaced
  <2>a. AnswersNear
    <3>1. PICK lo \in Nat : lo = rwin.current
      BY <1>2
    <3>2. toServer' = toServer \o SREJs(lo, p.seq) /\ rwin'.upper = rwin.upper
      BY <1>7, <2>1, <2>3, <2>8, <3>1
    <3> QED
      BY <1>2, <1>5, <3>2, GapNear
  <2>b. rwin.current <= rwin'.current
    BY <1>2, <2>8
  <2> QED
    BY <1>1, <2>9, <2>a, <2>b, SideAnswers
<1> QED
  BY <1>8, <1>9

\* buffering: a packet is kept, or the missing one is written.
LEMMA BufferingFits ==
  ASSUME TypeOK, TypeOK', SideInv, BufferInv, UNCHANGED serverVars,
         buffering_ahead \/ buffering_expected
  PROVE  SideKept
<1>1. rstate = "BUFFERING" /\ toClient # <<>> /\ PacketTaken
  BY DEF buffering_ahead, buffering_expected, Receives, PacketTaken
<1>2. PICK r \in WindowType : r = rwin
  BY BufferFacts
<1>3. /\ r.current \in Nat /\ r.lower \in Nat
      /\ r.upper \in Nat /\ r.highest \in Nat /\ WindowSize \in Nat /\ WindowSize >= 1
      /\ r.lower = r.current /\ r.upper = r.current + WindowSize
      /\ Len(out) = r.current
  BY <1>2, BufferFacts
<1>4. /\ r.current <= r.highest /\ r.highest < r.upper
      /\ checkPDUValid(r, r.highest) /\ ~checkPDUValid(r, r.current)
      /\ \A i \in Slots : SlotFits(r, i)
  BY <1>1, <1>2 DEF BufferInv
<1>5. r.current < r.highest
  <2>1. r.current # r.highest
    BY <1>4
  <2> QED
    BY <1>3, <1>4, <2>1
<1>6. PICK p \in ServerPdu : p = Received
  BY <1>1, ReceivedNear
<1>7. p.seq \in Nat /\ p.payload \in Payload /\ p.seq < r.upper
  BY <1>1, <1>2, <1>6, ReceivedNear
<1>8. CASE buffering_ahead
  <2>1. PICK h : h = IF r.highest < p.seq THEN p.seq ELSE r.highest
    OBVIOUS
  <2>2. /\ p.seq > r.current
        /\ toServer' = toServer \o SREJs(r.highest + 1, p.seq)
        /\ rwin' = updateHighest(add_PDU(r, p, p.seq), h)
        /\ UNCHANGED <<rstate, out>>
    BY <1>2, <1>6, <1>8, <2>1 DEF buffering_ahead
  <2>3. h \in Nat /\ h >= r.highest /\ h >= p.seq /\ (h = p.seq \/ h = r.highest)
    BY <1>3, <1>7, <2>1
  <2>4. PICK w \in WindowType : w = add_PDU(r, p, p.seq)
    BY <1>7, AddType
  <2>5. PICK v \in WindowType : v = updateHighest(w, h)
    BY <2>3, UpdateHighestType
  <2>6. /\ w.array = IF r.array[Index(p.seq)] # NULL THEN r.array
                     ELSE [r.array EXCEPT ![Index(p.seq)] = p]
        /\ w.current = r.current /\ w.lower = r.lower /\ w.upper = r.upper
    <3>1. p.seq \in Nat
      BY <1>7
    <3> QED
      BY <2>4, <3>1, AddType
  <2>7. /\ v.array = w.array /\ v.current = w.current /\ v.lower = w.lower
        /\ v.upper = w.upper /\ v.highest = h
    BY <2>3, <2>5, UpdateHighestType
  <2>8. /\ r.current <= p.seq /\ p.seq <= v.highest /\ r.highest <= v.highest
        /\ v.current = r.current /\ v.upper = r.upper
        /\ v.array = IF r.array[Index(p.seq)] # NULL THEN r.array
                     ELSE [r.array EXCEPT ![Index(p.seq)] = p]
    BY <1>3, <1>7, <2>2, <2>3, <2>6, <2>7
  <2>9. /\ \A i \in Slots : SlotFits(v, i)
        /\ checkPDUValid(v, p.seq)
        /\ \A n \in Nat : checkPDUValid(r, n) => checkPDUValid(v, n)
        /\ \A n \in r.current .. r.upper - 1 :
             n # p.seq /\ ~checkPDUValid(r, n) => ~checkPDUValid(v, n)
    BY <1>3, <1>4, <1>7, <2>8, AddFits
  <2>a. checkPDUValid(v, v.highest)
    BY <1>3, <1>4, <2>3, <2>7, <2>9
  <2>b. ~checkPDUValid(v, v.current)
    <3>1. r.current \in r.current .. r.upper - 1 /\ r.current # p.seq
      BY <1>3, <2>2
    <3> QED
      BY <1>4, <2>8, <2>9, <3>1
  <2>c. /\ rwin' = v /\ v.lower = v.current /\ v.upper = v.current + WindowSize
        /\ v.current = r.current /\ Len(out') = v.current
        /\ v.current <= v.highest /\ v.highest < v.upper
    <3>1. rwin' = v
      BY <2>2, <2>4, <2>5
    <3>2. v.lower = r.lower /\ v.current = r.current /\ v.upper = r.upper /\ v.highest = h
      BY <2>6, <2>7
    <3>3. r.current <= h /\ h < r.upper
      BY <1>3, <1>4, <1>7, <2>3
    <3> QED
      BY <1>3, <2>2, <3>1, <3>2, <3>3
  <2>d. BufferInv'
    BY <1>1, <2>2, <2>9, <2>a, <2>b, <2>c, BufferReplaced
  <2>e. AnswersNear
    <3>1. PICK lo \in Nat : lo = r.highest + 1
      BY <1>3
    <3>2. toServer' = toServer \o SREJs(lo, p.seq) /\ rwin'.upper = r.upper
      BY <2>2, <2>8, <2>c, <3>1
    <3> QED
      BY <1>3, <1>7, <3>2, GapNear
  <2>f. rwin.current <= rwin'.current
    BY <1>2, <1>3, <2>c
  <2> QED
    BY <1>1, <2>d, <2>e, <2>f, SideAnswers
<1>9. CASE buffering_expected /\ p.flag # "EOF"
  <2>1. PICK v \in WindowType : v = advance(r)
    BY AdvanceType
  <2>2. WriteCurrent(p.payload, v, "FLUSH")
    BY <1>2, <1>6, <1>9, <2>1 DEF buffering_expected
  <2>3. /\ v.array = r.array /\ v.current = r.current + 1
        /\ v.lower = r.lower + 1 /\ v.upper = r.upper + 1 /\ v.highest = r.highest
    BY <2>1, AdvanceType
  <2>4. v.array = [r.array EXCEPT ![Index(r.current)] = NULL]
    <3>1. r.array[Index(r.current)] = NULL /\ Index(r.current) \in Slots
      BY <1>3, <1>4, IndexInSlots DEF checkPDUValid
    <3>2. r.array \in [Slots -> ServerPdu \cup {NULL}]
      BY DEF WindowType
    <3>3. r.array = [r.array EXCEPT ![Index(r.current)] = NULL]
      BY <3>1, <3>2
    <3> QED
      BY <2>3, <3>3
  <2>5. \A i \in Slots : SlotFits(v, i)
    BY <1>3, <1>4, <2>3, <2>4, AdvanceFits
  <2>6. checkPDUValid(v, v.highest)
    BY <1>4, <2>3 DEF checkPDUValid
  <2>7. /\ v.lower = rwin.current + 1 /\ v.current = rwin.current + 1
        /\ v.upper = rwin.current + 1 + WindowSize
        /\ v.current <= v.highest /\ v.highest < v.upper
    BY <1>2, <1>3, <1>4, <1>5, <2>3
  <2> QED
    BY <1>1, <1>7, <2>2, <2>5, <2>6, <2>7, WriteFits
<1>a. CASE buffering_expected /\ p.flag = "EOF"
  <2>1. UNCHANGED <<toServer, rstate, rwin, out>>
    BY <1>6, <1>a DEF buffering_expected
  <2>2. BufferInv'
    BY <2>1, BufferStays
  <2> QED
    BY <1>1, <2>1, <2>2, NoneNear, StillSide
<1> QED
  BY <1>8, <1>9, <1>a

\* flush: one packet after the other, until none is left or one is missing.
LEMMA FlushFits ==
  ASSUME TypeOK, TypeOK', SideInv, BufferInv, UNCHANGED serverVars, flush_write
  PROVE  SideKept
<1>1. rstate = "FLUSH" /\ PacketTaken /\ checkPDUValid(rwin, rwin.current)
  BY DEF flush_write, PacketTaken
<1>2. PICK r \in WindowType : r = rwin
  BY BufferFacts
<1>3. /\ r.current \in Nat /\ r.lower \in Nat
      /\ r.upper \in Nat /\ r.highest \in Nat /\ WindowSize \in Nat /\ WindowSize >= 1
      /\ r.lower = r.current /\ r.upper = r.current + WindowSize
  BY <1>2, BufferFacts
<1>4. /\ r.current <= r.highest /\ r.highest < r.upper
      /\ checkPDUValid(r, r.highest)
      /\ \A i \in Slots : SlotFits(r, i)
  BY <1>1, <1>2 DEF BufferInv
<1>5. PICK p \in ServerPdu : p = get_PDU(rwin, rwin.current)
  <2>1. Index(r.current) \in Slots /\ r.array[Index(r.current)] # NULL
    BY <1>1, <1>2, <1>3, IndexInSlots DEF checkPDUValid
  <2>2. r.array[Index(r.current)] \in ServerPdu
    BY <2>1 DEF WindowType
  <2> QED
    BY <1>2, <2>2 DEF get_PDU
<1>6. PICK state \in {"IN_ORDER", "FLUSH"} :
        state = IF r.current + 1 > r.highest THEN "IN_ORDER" ELSE "FLUSH"
  OBVIOUS
<1>7. PICK w \in WindowType : w = remove_PDU(r, r.current)
  BY <1>3, RemoveType
<1>8. PICK v \in WindowType : v = advance(w)
  BY AdvanceType
<1>9. WriteCurrent(p.payload, v, state) /\ p.payload \in Payload
  BY <1>2, <1>5, <1>6, <1>7, <1>8 DEF flush_write, ServerPdu
<1>a. /\ w.array = [r.array EXCEPT ![Index(r.current)] = NULL]
      /\ w.current = r.current /\ w.lower = r.lower
      /\ w.upper = r.upper /\ w.highest = r.highest
  BY <1>3, <1>7, RemoveType
<1>b. /\ v.array = [r.array EXCEPT ![Index(r.current)] = NULL]
      /\ v.current = r.current + 1 /\ v.lower = r.lower + 1
      /\ v.upper = r.upper + 1 /\ v.highest = r.highest
  BY <1>8, <1>a, AdvanceType
<1>c. /\ \A i \in Slots : SlotFits(v, i)
      /\ \A n \in r.current + 1 .. r.upper - 1 :
           checkPDUValid(r, n) => checkPDUValid(v, n)
  BY <1>3, <1>4, <1>b, AdvanceFits
<1>d. state = "IN_ORDER" => \A i \in Slots : v.array[i] = NULL
  <2> SUFFICES ASSUME state = "IN_ORDER", NEW i \in Slots, v.array[i] # NULL
               PROVE  FALSE
    OBVIOUS
  <2>1. v.array[i] \in ServerPdu
    BY DEF WindowType
  <2>2. v.array[i].seq \in Nat
    BY <2>1 DEF ServerPdu
  <2>3. v.current <= v.array[i].seq /\ v.array[i].seq <= v.highest
    BY <1>c DEF SlotFits
  <2>4. r.current + 1 > r.highest
    BY <1>6
  <2> QED
    BY <1>3, <1>b, <2>2, <2>3, <2>4
<1>e. state = "FLUSH" => /\ v.current <= v.highest
                         /\ v.highest < v.upper
                         /\ checkPDUValid(v, v.highest)
  <2> SUFFICES ASSUME state = "FLUSH"
               PROVE  /\ v.current <= v.highest
                      /\ v.highest < v.upper
                      /\ checkPDUValid(v, v.highest)
    OBVIOUS
  <2>1. r.current + 1 <= r.highest
    BY <1>3, <1>6
  <2>2. r.highest \in r.current + 1 .. r.upper - 1
    BY <1>3, <1>4, <2>1
  <2>3. checkPDUValid(v, v.highest)
    BY <1>4, <1>b, <1>c, <2>2
  <2> QED
    BY <1>3, <1>4, <1>b, <2>1, <2>3
<1>f. /\ v.lower = rwin.current + 1 /\ v.current = rwin.current + 1
      /\ v.upper = rwin.current + 1 + WindowSize
  BY <1>2, <1>3, <1>b
<1> QED
  BY <1>1, <1>9, <1>c, <1>d, <1>e, <1>f, WriteFits

LEMMA SideRcopy ==
  ASSUME TypeOK, SideInv, BufferInv, RcopyStep, UNCHANGED serverVars
  PROVE  TypeOK' /\ SideKept
<1>1. TypeOK'
  BY TypeRcopy
<1> QED
  BY <1>1, StillSteps, OldSteps, InOrderFits, BufferingFits, FlushFits DEF RcopyStep

-----------------------------------------------------------------------------
\* What the other child makes rcopy do leaves this side as it is.
LEMMA SideOther ==
  ASSUME TypeOK, TypeOK', SideInv, BufferInv, BufferInv',
         UNCHANGED <<networkVars, serverVars>>, rwin.current <= rwin'.current
  PROVE  SideInv'
<1>1. UNCHANGED serverVars /\ UNCHANGED toServer /\ PacketTaken
  BY DEF networkVars, PacketTaken
<1>2. AnswersNear
  BY <1>1, NoneNear
<1>3. SideKept
  BY <1>1, <1>2, SideAnswers
<1> QED
  BY <1>3 DEF SideKept

\* A datagram is lost.
LEMMA SideDrop ==
  ASSUME TypeOK, SideInv, BufferInv, DropToClient \/ DropToServer,
         UNCHANGED <<serverVars, rcopyVars>>
  PROVE  TypeOK' /\ SideInv' /\ BufferInv'
<1>1. UNCHANGED serverVars /\ UNCHANGED rcopyVars /\ UNCHANGED <<rwin, out>> /\ rstate' = rstate
  BY DEF rcopyVars
<1>2. toClient' \in Seq(ServerPdu) /\ toServer' \in Seq(RcopyPdu)
  BY Types, TailFacts DEF DropToClient, DropToServer
<1>3. TypeOK'
  BY <1>2 DEF TypeOK, serverVars, rcopyVars
<1>4. BufferInv'
  BY <1>1, BufferStays
<1>5. CASE DropToClient
  <2>1. PacketTaken /\ UNCHANGED toServer
    BY <1>5 DEF DropToClient, PacketTaken
  <2>2. AnswersNear
    BY <2>1, NoneNear
  <2>3. SideKept
    BY <1>1, <1>3, <1>4, <2>1, <2>2, StillSide
  <2> QED
    BY <1>3, <1>4, <2>3 DEF SideKept
<1>6. CASE DropToServer
  <2>1. AnswersTaken /\ SentFits
    BY <1>6 DEF DropToServer, AnswersTaken, SentFits
  <2>2. swin' = swin /\ sstate' = sstate
    BY DEF serverVars
  <2>3. CountersKept
    BY <2>2, LimitsStay DEF SideInv
  <2> QED
    BY <1>1, <1>3, <1>4, <2>1, <2>3, SideFrame
<1> QED
  BY <1>5, <1>6

\* A side that has no child and nothing on its way.
LEMMA SideFresh ==
  ASSUME toClient = <<>>, toServer = <<>>, NoChild, rwin.current \in Nat
  PROVE  SideInv
<1>1. make_window.upper = make_window.lower + WindowSize /\ make_window.lower = 0
  BY MakeWindowFacts, WindowSizeAssumption
<1>2. swin = make_window /\ sstate = "NONE" /\ swin.lower <= rwin.current
  BY <1>1 DEF NoChild
<1> QED
  BY <1>1, <1>2 DEF SideInv

LEMMA SideInit == Init => TypeOK /\ SideInv /\ BufferInv
<1> SUFFICES ASSUME Init PROVE TypeOK /\ SideInv /\ BufferInv
  OBVIOUS
<1>1. /\ TypeOK /\ toClient = <<>> /\ toServer = <<>> /\ NoChild
      /\ rstate = "START" /\ rwin = make_window /\ out = <<>>
  BY TypeInit DEF Init, RcopyInit
<1>2. SideInv
  BY <1>1, MakeWindowFacts, SideFresh
<1>3. BufferInv
  <2>1. /\ make_window.lower = make_window.current
        /\ make_window.upper = make_window.current + WindowSize
        /\ make_window.current = 0 /\ \A i \in Slots : make_window.array[i] = NULL
    BY MakeWindowFacts, WindowSizeAssumption
  <2>2. \A i \in Slots : rwin.array[i] = NULL
    BY <1>1, <2>1
  <2>3. Len(out) = 0
    BY <1>1
  <2> QED
    BY <1>1, <2>1, <2>2, <2>3 DEF BufferInv, SlotFits
<1> QED
  BY <1>1, <1>2, <1>3

\* Another socket: both sides start again, and rcopy has nothing buffered.
LEMMA SideRetry ==
  ASSUME TypeOK, SideInv, BufferInv, Retry
  PROVE  TypeOK' /\ SideInv' /\ BufferInv'
<1>1. /\ rstate = "FILENAME_POLL" /\ rstate' = "FILENAME" /\ UNCHANGED <<rwin, out, rcause>>
      /\ toClient' = <<>> /\ toServer' = <<>>
      /\ rcount' = rcount + 1 /\ rcount + 1 < MaxTries
      /\ NoChild'
  BY DEF Retry, filename_retry, OrphanChild, RcopyGoes, NoChild
<1>2. BufferInv'
  BY <1>1, BufferStays DEF EmptyStates
<1>3. rwin.current \in Nat
  BY BufferFacts
<1>4. /\ sstate' = "NONE" /\ swin' = make_window /\ scount' = 0 /\ offset' = 0
      /\ scause' = "none"
  BY <1>1 DEF NoChild
<1>5. SideInv'
  <2>1. make_window.upper = make_window.lower + WindowSize /\ make_window.lower = 0
    BY MakeWindowFacts, WindowSizeAssumption
  <2>2. swin'.lower <= rwin'.current /\ swin'.upper = swin'.lower + WindowSize
    BY <1>1, <1>3, <1>4, <2>1
  <2>3. Len(toClient') = 0 /\ Len(toServer') = 0
    BY <1>1
  <2> QED
    BY <1>4, <2>2, <2>3 DEF SideInv
<1>6. TypeOK'
  BY <1>1, <1>4, MakeWindowType, MaxTriesAssumption, FileAssumption
  DEF TypeOK, ServerStates, ServerCauses, RcopyStates
<1> QED
  BY <1>2, <1>5, <1>6

\* The property of TwoChildren follows.
LEMMA FitsIsSound ==
  ASSUME TypeOK, BufferInv
  PROVE  BufferSound
<1>1. /\ rwin \in WindowType /\ rwin.current \in Nat /\ rwin.upper \in Nat
      /\ rwin.highest \in Nat
  BY BufferFacts
<1>2. ASSUME NEW i \in Slots, rwin.array[i] # NULL
      PROVE  /\ Index(rwin.array[i].seq) = i
             /\ rwin.array[i].seq \in rwin.current .. rwin.upper - 1
             /\ rwin.array[i].seq <= rwin.highest
  <2>1. PICK p \in ServerPdu : p = rwin.array[i]
    BY <1>1, <1>2 DEF WindowType
  <2>2. p.seq \in Nat
    BY DEF ServerPdu
  <2>3. /\ Index(p.seq) = i /\ rwin.current <= p.seq /\ p.seq < rwin.upper
        /\ p.seq <= rwin.highest
    BY <1>2, <2>1 DEF BufferInv, SlotFits
  <2> QED
    BY <1>1, <2>1, <2>2, <2>3
<1>3. rstate = "IN_ORDER" => \A i \in Slots : rwin.array[i] = NULL
  BY DEF BufferInv
<1>4. rstate = "BUFFERING" => /\ ~checkPDUValid(rwin, rwin.current)
                              /\ rwin.current < rwin.highest
  <2> SUFFICES ASSUME rstate = "BUFFERING"
               PROVE  ~checkPDUValid(rwin, rwin.current) /\ rwin.current < rwin.highest
    OBVIOUS
  <2>1. /\ rwin.current <= rwin.highest /\ checkPDUValid(rwin, rwin.highest)
        /\ ~checkPDUValid(rwin, rwin.current)
    BY DEF BufferInv
  <2>2. rwin.current # rwin.highest
    BY <2>1
  <2> QED
    BY <1>1, <2>1, <2>2
<1> QED
  BY <1>2, <1>3, <1>4 DEF BufferSound
=============================================================================

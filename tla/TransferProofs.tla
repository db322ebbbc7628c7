--------------------------- MODULE TransferProofs ---------------------------
(***************************************************************************)
(* The safety properties of Transfer and of ReorderedTransfer, for every   *)
(* file, window size and number of tries: CoreInv is inductive in any      *)
(* order of delivery, IInv in the order of Transfer, and they imply them.  *)
(***************************************************************************)
EXTENDS RcopyProofs, ReorderedTransfer

-----------------------------------------------------------------------------
(***************************************************************************)
(* What the network does to a queue: each datagram of the new one is one   *)
(* of the old one, and no other is, or it is corrupted.                    *)
(***************************************************************************)
Places(s, t) == [1 .. Len(t) -> 1 .. Len(s)]

CameFrom(k, s, t) ==
  \A j \in 1 .. Len(t) : t[j] = s[k[j]] \/ t[j].flag = "CORRUPT"

Rearranged(s, t) ==
  /\ Len(t) <= Len(s)
  /\ \E k \in Places(s, t) :
       /\ CameFrom(k, s, t)
       /\ \A i, j \in 1 .. Len(t) : k[i] = k[j] => i = j

\* The same without overtaking.
Thinned(s, t) ==
  /\ Len(t) <= Len(s)
  /\ \E k \in Places(s, t) :
       /\ CameFrom(k, s, t)
       /\ \A j \in 1 .. Len(t) : j <= k[j]
       /\ \A i, j \in 1 .. Len(t) : i < j => k[i] < k[j]

LEMMA ThinnedIsRearranged ==
  ASSUME NEW S, NEW s \in Seq(S), NEW t \in Seq(S), Thinned(s, t)
  PROVE  Rearranged(s, t)
<1>1. Len(s) \in Nat /\ Len(t) \in Nat
  OBVIOUS
<1>2. PICK k \in Places(s, t) :
        /\ CameFrom(k, s, t)
        /\ \A i, j \in 1 .. Len(t) : i < j => k[i] < k[j]
  BY DEF Thinned
<1>3. \A i \in 1 .. Len(t) : k[i] \in Nat
  BY <1>1, <1>2 DEF Places
<1>4. \A i, j \in 1 .. Len(t) : k[i] = k[j] => i = j
  BY <1>1, <1>2, <1>3
<1> QED
  BY <1>2, <1>4 DEF Thinned, Rearranged

LEMMA UntouchedIsThinned ==
  ASSUME NEW S, NEW s \in Seq(S)
  PROVE  Thinned(s, s)
<1>1. Len(s) \in Nat
  OBVIOUS
<1> DEFINE k == [j \in 1 .. Len(s) |-> j]
<1>2. k \in Places(s, s)
  BY DEF Places
<1>3. \A j \in 1 .. Len(s) : k[j] = j
  OBVIOUS
<1> HIDE DEF k
<1>4. CameFrom(k, s, s)
  BY <1>3 DEF CameFrom
<1> QED
  BY <1>1, <1>2, <1>3, <1>4 DEF Thinned

LEMMA TailIsThinned ==
  ASSUME NEW S, NEW s \in Seq(S), s # <<>>
  PROVE  Thinned(s, Tail(s))
<1> DEFINE t == Tail(s)
           k == [j \in 1 .. Len(t) |-> j + 1]
<1>1. /\ Len(s) \in Nat /\ Len(t) \in Nat /\ Len(t) = Len(s) - 1
      /\ \A j \in 1 .. Len(t) : t[j] = s[j + 1]
  BY TailFacts
<1> HIDE DEF t
<1>2. \A j \in 1 .. Len(t) : j + 1 \in 1 .. Len(s)
  BY <1>1
<1>3. k \in Places(s, t)
  BY <1>2 DEF Places
<1>4. \A j \in 1 .. Len(t) : k[j] = j + 1
  OBVIOUS
<1> HIDE DEF k
<1>5. CameFrom(k, s, t)
  BY <1>1, <1>4 DEF CameFrom
<1>6. /\ \A j \in 1 .. Len(t) : j <= k[j]
      /\ \A i, j \in 1 .. Len(t) : i < j => k[i] < k[j]
      /\ Len(t) <= Len(s)
  BY <1>1, <1>4
<1>7. Thinned(s, t)
  BY <1>3, <1>5, <1>6 DEF Thinned
<1> QED
  BY <1>7 DEF t

LEMMA FlippedIsThinned ==
  ASSUME NEW S, NEW s \in Seq(S), s # <<>>, NEW e, e.flag = "CORRUPT"
  PROVE  Thinned(s, [s EXCEPT ![1] = e])
<1> DEFINE t == [s EXCEPT ![1] = e]
           k == [j \in 1 .. Len(s) |-> j]
<1>1. /\ Len(s) \in Nat /\ Len(t) = Len(s)
      /\ \A j \in 1 .. Len(s) : t[j] = IF j = 1 THEN e ELSE s[j]
  OBVIOUS
<1> HIDE DEF t
<1>2. k \in Places(s, t)
  BY <1>1 DEF Places
<1>3. \A j \in 1 .. Len(t) : k[j] = j
  BY <1>1
<1> HIDE DEF k
<1>4. CameFrom(k, s, t)
  BY <1>1, <1>3 DEF CameFrom
<1>5. Thinned(s, t)
  BY <1>1, <1>2, <1>3, <1>4 DEF Thinned
<1> QED
  BY <1>5 DEF t

\* The exchange of two neighbours.
LEMMA SwapFacts ==
  ASSUME NEW S, NEW s \in Seq(S), NEW i \in 1 .. Len(s) - 1
  PROVE  Swap(s, i) \in Seq(S) /\ Rearranged(s, Swap(s, i))
<1>1. Len(s) \in Nat /\ i \in Nat /\ i \in 1 .. Len(s) /\ i + 1 \in 1 .. Len(s)
  OBVIOUS
<1> DEFINE t == Swap(s, i)
           k == [j \in 1 .. Len(s) |-> IF j = i THEN i + 1 ELSE IF j = i + 1 THEN i ELSE j]
<1>2. t \in Seq(S) /\ Len(t) = Len(s)
  BY <1>1 DEF Swap
<1>3. \A j \in 1 .. Len(s) : t[j] = IF j = i THEN s[i + 1] ELSE IF j = i + 1 THEN s[i] ELSE s[j]
  BY <1>1 DEF Swap
<1> HIDE DEF t
<1>4. k \in Places(s, t)
  BY <1>1, <1>2 DEF Places
<1>5. \A j \in 1 .. Len(s) : k[j] = IF j = i THEN i + 1 ELSE IF j = i + 1 THEN i ELSE j
  OBVIOUS
<1> HIDE DEF k
<1>6. CameFrom(k, s, t)
  BY <1>2, <1>3, <1>5 DEF CameFrom
<1>7. \A a, b \in 1 .. Len(t) : k[a] = k[b] => a = b
  BY <1>1, <1>2, <1>5
<1>8. Rearranged(s, t)
  BY <1>1, <1>2, <1>4, <1>6, <1>7 DEF Rearranged
<1> QED
  BY <1>2, <1>8 DEF t

-----------------------------------------------------------------------------
(***************************************************************************)
(* Types.                                                                  *)
(***************************************************************************)
LEMMA TypeNetwork ==
  ASSUME TypeOK, NetworkStep, UNCHANGED <<serverVars, rcopyVars>>
  PROVE  TypeOK'
<1>1. CorruptedByServer \in ServerPdu
  BY CreatePDUType DEF CorruptedByServer, ServerFlags, Payload
<1>2. CorruptedByRcopy \in RcopyPdu
  BY RcopyPDUType DEF CorruptedByRcopy, RcopyFlags
<1>3. CASE DropToClient \/ DropToServer
  <2>a. toClient # <<>> => Tail(toClient) \in Seq(ServerPdu)
    BY DEF TypeOK
  <2>b. toServer # <<>> => Tail(toServer) \in Seq(RcopyPdu)
    BY DEF TypeOK
  <2>1. toClient' \in Seq(ServerPdu) /\ toServer' \in Seq(RcopyPdu)
    BY <1>3, <2>a, <2>b DEF DropToClient, DropToServer, TypeOK
  <2> QED
    BY <2>1 DEF TypeOK, serverVars, rcopyVars
<1>4. CASE FlipToClient
  <2>1. toClient' \in Seq(ServerPdu)
    BY <1>1, <1>4 DEF FlipToClient, TypeOK
  <2> QED
    BY <1>4, <2>1 DEF FlipToClient, TypeOK, serverVars, rcopyVars
<1>5. CASE FlipToServer
  <2>1. toServer' \in Seq(RcopyPdu)
    BY <1>2, <1>5 DEF FlipToServer, TypeOK
  <2> QED
    BY <1>5, <2>1 DEF FlipToServer, TypeOK, serverVars, rcopyVars
<1> QED
  BY <1>3, <1>4, <1>5 DEF NetworkStep

LEMMA TypeRetry ==
  ASSUME TypeOK, Retry
  PROVE  TypeOK'
<1>1. make_window \in WindowType /\ 0 \in 0 .. MaxTries /\ 0 \in 0 .. Len(File)
  BY MakeWindowType, MaxTriesAssumption, FileAssumption
<1> QED
  BY <1>1, MaxTriesAssumption
  DEF Retry, filename_retry, OrphanChild, RcopyGoes, TypeOK, ServerStates, ServerCauses,
      RcopyStates

LEMMA TypeNext == TypeOK /\ [Next]_vars => TypeOK'
<1> SUFFICES ASSUME TypeOK, [Next]_vars PROVE TypeOK'
  OBVIOUS
<1>1. CASE UNCHANGED vars
  BY <1>1 DEF vars, networkVars, serverVars, rcopyVars, TypeOK
<1>2. CASE Terminated
  BY <1>1, <1>2 DEF Terminated
<1> QED
  BY <1>1, <1>2, TypeServer, TypeRcopy, TypeNetwork, TypeRetry DEF Next

\* The type invariant does not depend on the order of the queues.
LEMMA ReorderedType == TypeOK /\ [ReorderedNext]_vars => TypeOK'
<1> SUFFICES ASSUME TypeOK, [ReorderedNext]_vars PROVE TypeOK'
  OBVIOUS
<1>1. CASE [Next]_vars
  BY <1>1, TypeNext
<1>2. CASE ReorderToClient /\ UNCHANGED <<serverVars, rcopyVars>>
  <2>1. toClient' \in Seq(ServerPdu)
    BY <1>2, SwapFacts DEF ReorderToClient, TypeOK
  <2> QED
    BY <1>2, <2>1 DEF ReorderToClient, TypeOK, serverVars, rcopyVars
<1>3. CASE ReorderToServer /\ UNCHANGED <<serverVars, rcopyVars>>
  <2>1. toServer' \in Seq(RcopyPdu)
    BY <1>3, SwapFacts DEF ReorderToServer, TypeOK
  <2> QED
    BY <1>3, <2>1 DEF ReorderToServer, TypeOK, serverVars, rcopyVars
<1> QED
  BY <1>1, <1>2, <1>3 DEF ReorderedNext

\* Type correctness, for every file, window size and number of tries.
THEOREM TypeCorrect == Spec => []TypeOK
BY TypeInit, TypeNext, PTL DEF Spec

\* And for every order of delivery.
THEOREM ReorderedTypeCorrect == ReorderedSpec => []TypeOK
BY TypeInit, ReorderedType, PTL DEF ReorderedSpec

-----------------------------------------------------------------------------
(***************************************************************************)
(* The network.                                                            *)
(***************************************************************************)
\* Nothing that the invariant says of a packet depends on its place.
LEMMA ToClientRearranged ==
  ASSUME ToClientInv, UNCHANGED <<serverVars, rcopyVars>>, Rearranged(toClient, toClient')
  PROVE  ToClientInv'
<1> USE DEF serverVars, rcopyVars
<1>1. PICK k \in Places(toClient, toClient') :
        /\ CameFrom(k, toClient, toClient')
        /\ \A i, j \in 1 .. Len(toClient') : k[i] = k[j] => i = j
  BY DEF Rearranged
<1>2. ASSUME NEW j \in 1 .. Len(toClient')
      PROVE  /\ k[j] \in 1 .. Len(toClient)
             /\ toClient'[j] = toClient[k[j]] \/ toClient'[j].flag = "CORRUPT"
  BY <1>1 DEF Places, CameFrom
<1>3. ASSUME NEW j \in 1 .. Len(toClient')
      PROVE  (\/ processPDU_ISSUE(toClient[j])
              \/ Genuine(toClient[j])
              \/ Stale(toClient[j])
              \/ Response(toClient[j]))'
  <2>1. CASE toClient'[j] = toClient[k[j]]
    <3>1. \/ processPDU_ISSUE(toClient[k[j]]) \/ Genuine(toClient[k[j]])
          \/ Stale(toClient[k[j]]) \/ Response(toClient[k[j]])
      BY <1>2 DEF ToClientInv
    <3> QED
      BY <2>1, <3>1 DEF processPDU_ISSUE, Genuine, EofSent, Stale, Response
  <2>2. CASE toClient'[j].flag = "CORRUPT"
    BY <2>2 DEF processPDU_ISSUE
  <2> QED
    BY <1>2, <2>1, <2>2
<1>4. ASSUME NEW i \in 1 .. Len(toClient'), NEW j \in 1 .. Len(toClient'),
             toClient'[i].flag = "FILE_RESPONSE", toClient'[j].flag = "FILE_RESPONSE"
      PROVE  i = j
  <2>1. toClient'[i] = toClient[k[i]] /\ toClient'[j] = toClient[k[j]]
    BY <1>2, <1>4
  <2>2. k[i] = k[j]
    BY <1>2, <1>4, <2>1 DEF ToClientInv
  <2> QED
    BY <1>1, <2>2
<1> QED
  BY <1>3, <1>4 DEF ToClientInv

LEMMA NetworkFrame ==
  ASSUME CoreInv, TypeOK', UNCHANGED <<serverVars, rcopyVars>>,
         Rearranged(toClient, toClient'), Rearranged(toServer, toServer')
  PROVE  CoreInv'
<1> USE DEF serverVars, rcopyVars
<1>1. ServerInv' /\ RcopyInv'
  BY DEF CoreInv, ServerInv, RcopyInv, SlotSound, Genuine, EofSent, checkPDUValid, get_PDU
<1>2. ToClientInv'
  BY ToClientRearranged DEF CoreInv
<1>3. PICK k \in Places(toServer, toServer') : CameFrom(k, toServer, toServer')
  BY DEF Rearranged
<1>4. ASSUME NEW j \in 1 .. Len(toServer')
      PROVE  /\ k[j] \in 1 .. Len(toServer)
             /\ toServer'[j] = toServer[k[j]] \/ toServer'[j].flag = "CORRUPT"
  BY <1>3 DEF Places, CameFrom
<1>5. ToServerInv'
  BY <1>4 DEF CoreInv, ToServerInv, EofSent
<1>6. HandshakeInv'
  <2>1. /\ toClient \in Seq(ServerPdu) /\ toClient' \in Seq(ServerPdu)
        /\ toServer \in Seq(RcopyPdu) /\ toServer' \in Seq(RcopyPdu)
        /\ Len(toClient') <= Len(toClient) /\ Len(toServer') <= Len(toServer)
    BY DEF CoreInv, TypeOK, Rearranged
  <2>2. /\ toClient = <<>> => toClient' = <<>>
        /\ toServer = <<>> => toServer' = <<>>
        /\ Len(toServer) <= 1 => Len(toServer') <= 1
    BY <2>1
  <2>3. Handshake => \A i \in 1 .. Len(toServer') : toServer'[i].flag \in {"FILENAME", "CORRUPT"}
    BY <1>4 DEF CoreInv, HandshakeInv
  <2> QED
    BY <2>2, <2>3 DEF CoreInv, HandshakeInv, Handshake, NoChild
<1> QED
  BY <1>1, <1>2, <1>5, <1>6 DEF CoreInv

\* Without overtaking the response stays first and the answers ascending.
LEMMA OrderFrame ==
  ASSUME OrderInv, UNCHANGED <<serverVars, rcopyVars>>,
         toClient' \in Seq(ServerPdu), toServer' \in Seq(RcopyPdu),
         Thinned(toClient, toClient'), Thinned(toServer, toServer')
  PROVE  OrderInv'
<1> USE DEF serverVars, rcopyVars
<1>1. Len(toClient') \in Nat /\ Len(toServer') \in Nat
  OBVIOUS
<1>2. ResponseFirst'
  <2>1. PICK k \in Places(toClient, toClient') :
          /\ CameFrom(k, toClient, toClient')
          /\ \A j \in 1 .. Len(toClient') : j <= k[j]
    BY DEF Thinned
  <2>2. ASSUME NEW j \in 1 .. Len(toClient')
        PROVE  (\/ processPDU_ISSUE(toClient[j])
                \/ Genuine(toClient[j])
                \/ /\ toClient[j].flag = "FILE_RESPONSE"
                   /\ j = 1
                   /\ rstate \in {"FILENAME_POLL", "DONE"})'
    <3>1. /\ k[j] \in 1 .. Len(toClient) /\ j <= k[j]
          /\ toClient'[j] = toClient[k[j]] \/ toClient'[j].flag = "CORRUPT"
      BY <2>1 DEF Places, CameFrom
    <3>2. CASE toClient'[j] = toClient[k[j]]
      <4>1. k[j] = 1 => j = 1
        BY <1>1, <3>1
      <4>2. \/ processPDU_ISSUE(toClient[k[j]]) \/ Genuine(toClient[k[j]])
            \/ /\ toClient[k[j]].flag = "FILE_RESPONSE" /\ k[j] = 1
               /\ rstate \in {"FILENAME_POLL", "DONE"}
        BY <3>1 DEF OrderInv, ResponseFirst
      <4> QED
        BY <3>2, <4>1, <4>2 DEF processPDU_ISSUE, Genuine, EofSent
    <3>3. CASE toClient'[j].flag = "CORRUPT"
      BY <3>3 DEF processPDU_ISSUE
    <3> QED
      BY <3>1, <3>2, <3>3
  <2> QED
    BY <2>2 DEF OrderInv, ResponseFirst
<1>3. AnswersAscend'
  <2>1. PICK k \in Places(toServer, toServer') :
          /\ CameFrom(k, toServer, toServer')
          /\ \A i, j \in 1 .. Len(toServer') : i < j => k[i] < k[j]
    BY DEF Thinned
  <2>2. \A j \in 1 .. Len(toServer') :
          /\ k[j] \in 1 .. Len(toServer)
          /\ toServer'[j].flag \in {"RR", "SREJ"} => toServer'[j] = toServer[k[j]]
    BY <2>1 DEF Places, CameFrom
  <2> QED
    BY <2>1, <2>2 DEF OrderInv, AnswersAscend
<1> QED
  BY <1>2, <1>3 DEF OrderInv

LEMMA NetworkThins ==
  ASSUME TypeOK, NetworkStep
  PROVE  Thinned(toClient, toClient') /\ Thinned(toServer, toServer')
<1>1. toClient \in Seq(ServerPdu) /\ toServer \in Seq(RcopyPdu)
  BY DEF TypeOK
<1>2. Thinned(toClient, toClient) /\ Thinned(toServer, toServer)
  BY <1>1, UntouchedIsThinned
<1>3. CASE DropToClient
  BY <1>1, <1>2, <1>3, TailIsThinned DEF DropToClient
<1>4. CASE DropToServer
  BY <1>1, <1>2, <1>4, TailIsThinned DEF DropToServer
<1>5. CASE FlipToClient
  <2>1. CorruptedByServer.flag = "CORRUPT"
    BY DEF CorruptedByServer, createPDU
  <2> QED
    BY <1>1, <1>2, <1>5, <2>1, FlippedIsThinned DEF FlipToClient
<1>6. CASE FlipToServer
  <2>1. CorruptedByRcopy.flag = "CORRUPT"
    BY DEF CorruptedByRcopy, rcopyPDU
  <2> QED
    BY <1>1, <1>2, <1>6, <2>1, FlippedIsThinned DEF FlipToServer
<1> QED
  BY <1>3, <1>4, <1>5, <1>6 DEF NetworkStep

LEMMA NetworkInductive ==
  ASSUME CoreInv, TypeOK', NetworkStep, UNCHANGED <<serverVars, rcopyVars>>
  PROVE  InvKept
<1>1. /\ toClient \in Seq(ServerPdu) /\ toClient' \in Seq(ServerPdu)
      /\ toServer \in Seq(RcopyPdu) /\ toServer' \in Seq(RcopyPdu)
  BY DEF CoreInv, TypeOK
<1>2. Thinned(toClient, toClient') /\ Thinned(toServer, toServer')
  BY NetworkThins DEF CoreInv
<1>3. Rearranged(toClient, toClient') /\ Rearranged(toServer, toServer')
  BY <1>1, <1>2, ThinnedIsRearranged
<1> QED
  BY <1>1, <1>2, <1>3, NetworkFrame, OrderFrame DEF InvKept

LEMMA ReorderInductive ==
  ASSUME CoreInv, TypeOK', ReorderToClient \/ ReorderToServer,
         UNCHANGED <<serverVars, rcopyVars>>
  PROVE  CoreInv'
<1>1. toClient \in Seq(ServerPdu) /\ toServer \in Seq(RcopyPdu)
  BY DEF CoreInv, TypeOK
<1>2. Rearranged(toClient, toClient) /\ Rearranged(toServer, toServer)
  BY <1>1, UntouchedIsThinned, ThinnedIsRearranged
<1>3. Rearranged(toClient, toClient') /\ Rearranged(toServer, toServer')
  BY <1>1, <1>2, SwapFacts DEF ReorderToClient, ReorderToServer
<1> QED
  BY <1>3, NetworkFrame

-----------------------------------------------------------------------------
(***************************************************************************)
(* A fresh start, and the socket that rcopy abandons.                      *)
(***************************************************************************)
\* No child and an idle rcopy: the whole invariant is about new windows.
Fresh ==
  /\ TypeOK
  /\ NoChild
  /\ toClient = <<>> /\ toServer = <<>>
  /\ rstate \in {"START", "FILENAME"}
  /\ rwin = make_window /\ out = <<>>
  /\ rcause # "complete"

LEMMA FreshStart == Fresh => IInv
<1> SUFFICES ASSUME Fresh PROVE IInv
  OBVIOUS
<1> USE DEF Fresh
<1>1. WindowSize \in Nat /\ WindowSize >= 1
  BY WindowSizeAssumption
<1>2. ServerInv
  BY <1>1, MakeWindowFacts DEF NoChild, ServerInv
<1>3. HandshakeInv
  BY MakeWindowFacts DEF HandshakeInv, NoChild
<1>4. ToClientInv /\ ToServerInv
  BY DEF ToClientInv, ToServerInv
<1>5. RcopyInv
  <2>1. \A i \in Slots : SlotSound(rwin, i)
    BY MakeWindowFacts DEF SlotSound
  <2> QED
    BY <1>1, <2>1, MakeWindowFacts DEF NoChild, RcopyInv
<1>6. OrderInv
  BY DEF NoChild, OrderInv, ResponseFirst, AnswersAscend
<1> QED
  BY <1>2, <1>3, <1>4, <1>5, <1>6 DEF IInv, CoreInv

LEMMA InvInit == Init => IInv
BY TypeInit, FreshStart DEF Init, RcopyInit, Fresh

LEMMA RetryInductive ==
  ASSUME CoreInv, TypeOK', Retry
  PROVE  IInv'
<1>1. rwin = make_window /\ rstate = "FILENAME_POLL" /\ rcause # "complete"
  BY DEF CoreInv, HandshakeInv, Handshake, RcopyInv, Retry, filename_retry
<1>2. Len(out) = 0 /\ out \in Seq(Payload)
  BY <1>1, MakeWindowFacts DEF CoreInv, RcopyInv, TypeOK
<1>3. out = <<>>
  BY <1>2
<1>4. /\ rwin' = make_window /\ out' = <<>> /\ rcause' # "complete"
      /\ rstate' = "FILENAME" /\ toClient' = <<>> /\ toServer' = <<>>
  BY <1>1, <1>3 DEF Retry, filename_retry, RcopyGoes
<1>5. NoChild'
  BY DEF Retry, OrphanChild, NoChild, make_window
<1>6. Fresh'
  BY <1>4, <1>5 DEF Fresh, make_window, Slots
<1>7. Fresh' => IInv'
  BY FreshStart, PTL
<1> QED
  BY <1>6, <1>7

-----------------------------------------------------------------------------
(***************************************************************************)
(* The order of the answers and a step of the child.                       *)
(***************************************************************************)
\* A step of the child takes the oldest answer or none; its window's lower
\* bound moves to an RR or not at all, current and the EOF only ahead.
LEMMA ServerMovesUp ==
  ASSUME TypeOK, ServerStep
  PROVE  /\ toServer' = toServer \/ (toServer # <<>> /\ toServer' = Tail(toServer))
         /\ \/ swin'.lower = swin.lower
            \/ /\ toServer # <<>>
               /\ toServer' = Tail(toServer)
               /\ Head(toServer).flag = "RR"
               /\ swin'.lower = Head(toServer).num
         /\ swin.current <= swin'.current
         /\ EofSent => EofSent'
<1>0. /\ swin \in WindowType /\ swin.lower \in Nat /\ swin.current \in Nat
      /\ swin.upper \in Nat
      /\ toServer \in Seq(RcopyPdu)
  BY Types
<1>1. CASE window_open_send
  <2>1. PICK pdu \in ServerPdu : swin' = incrementCurrent(add_PDU(swin, pdu, swin.current))
    <3>1. File[offset + 1] \in Payload
      BY <1>1, FileAssumption DEF TypeOK, window_open_send, Payload
    <3> QED
      BY <1>0, <1>1, <3>1, CreatePDUType DEF window_open_send, send_data_packet, ServerFlags, DataFlags
  <2>2. swin'.lower = swin.lower /\ swin'.current = swin.current + 1
    <3> DEFINE w == add_PDU(swin, pdu, swin.current)
    <3>1. w \in WindowType /\ w.lower = swin.lower /\ w.current = swin.current
      BY <1>0, AddType
    <3> HIDE DEF w
    <3>2. swin' = incrementCurrent(w)
      BY <2>1 DEF w
    <3> QED
      BY <3>1, <3>2, IncrementCurrentType
  <2>3. ~EofSent
    BY <1>1 DEF window_open_send, EofSent
  <2> QED
    BY <1>0, <1>1, <2>2, <2>3 DEF window_open_send
<1>2. CASE end_of_file_send
  <2>1. PICK pdu \in ServerPdu : swin' = add_PDU(swin, pdu, swin.current)
    BY <1>0, <1>2, CreatePDUType DEF end_of_file_send, send_eof, ServerFlags, Payload
  <2>2. swin'.lower = swin.lower /\ swin'.current = swin.current
    BY <1>0, <2>1, AddType
  <2>3. ~EofSent
    BY <1>2 DEF end_of_file_send, EofSent
  <2> QED
    BY <1>0, <1>2, <2>2, <2>3 DEF end_of_file_send
<1>3. CASE window_open_recv \/ window_closed_recv \/ end_of_file_recv
  <2>1. /\ toServer # <<>> /\ toServer' = Tail(toServer)
        /\ \/ swin' = swin
           \/ /\ Head(toServer).flag = "RR"
              /\ swin' = cleaning_up_with_RR(swin, Head(toServer).num)
    BY <1>3 DEF window_open_recv, window_closed_recv, end_of_file_recv, process_answer
  <2>2. \/ swin' = swin
        \/ /\ Head(toServer).flag = "RR"
           /\ swin'.lower = Head(toServer).num
           /\ swin'.current = swin.current /\ swin'.upper \in Nat /\ swin.upper <= swin'.upper
    <3>1. Head(toServer) \in RcopyPdu /\ Head(toServer).num \in Nat
      <4>1. Head(toServer) \in RcopyPdu
        BY <1>0, <2>1, TailFacts
      <4> QED
        BY <4>1 DEF RcopyPdu
    <3> DEFINE rr == Head(toServer).num
    <3>2. rr \in Nat
      BY <3>1
    <3>3. cleaning_up_with_RR(swin, rr) = swin
          \/ /\ cleaning_up_with_RR(swin, rr).lower = rr
             /\ cleaning_up_with_RR(swin, rr).current = swin.current
             /\ cleaning_up_with_RR(swin, rr).upper = swin.upper + (rr - swin.lower)
             /\ swin.lower < rr
      <4> HIDE DEF rr
      <4>1. swin.lower >= rr \/ swin.lower < rr
        BY <1>0, <3>2
      <4> QED
        BY <1>0, <3>2, <4>1, CleaningType
    <3> QED
      BY <1>0, <2>1, <3>2, <3>3
  <2>3. EofSent => EofSent'
    <3>1. EofSent => sstate' \in {"EOF_WAIT", "DONE", "CRASHED"}
      BY <1>3 DEF EofSent, window_open_recv, window_closed_recv, end_of_file_recv,
                  process_answer, Resend, ServerGoes, ServerExits
    <3> QED
      BY <1>0, <2>2, <3>1 DEF EofSent
  <2> QED
    BY <1>0, <2>1, <2>2, <2>3
<1>4. CASE \/ filename \/ window_open_eof \/ window_open_error \/ window_open_full
           \/ window_open_idle \/ window_closed_timeout \/ window_closed_give_up
           \/ end_of_file_timeout \/ end_of_file_give_up
  <2>1. /\ swin' = swin
        /\ toServer' = toServer \/ (toServer # <<>> /\ toServer' = Tail(toServer))
    BY <1>4 DEF filename, window_open_eof, window_open_error, window_open_full,
                window_open_idle, window_closed_timeout, window_closed_give_up,
                end_of_file_timeout, end_of_file_give_up, networkVars
  <2>2. EofSent => sstate' \in {"EOF_WAIT", "DONE", "CRASHED"}
    BY <1>4 DEF EofSent, filename, window_open_eof, window_open_error, window_open_full,
                window_open_idle, window_closed_timeout, window_closed_give_up,
                end_of_file_timeout, end_of_file_give_up, Resend, ServerGoes, ServerExits
  <2> QED
    BY <1>0, <2>1, <2>2 DEF EofSent
<1> QED
  BY <1>1, <1>2, <1>3, <1>4 DEF ServerStep

\* The answers that are left still ascend, from the one just taken on.
LEMMA AnswersLeft ==
  ASSUME TypeOK, TypeOK', AnswersAscend, sstate' # "CRASHED",
         toServer' = toServer \/ (toServer # <<>> /\ toServer' = Tail(toServer)),
         \/ swin'.lower = swin.lower
         \/ /\ toServer # <<>>
            /\ toServer' = Tail(toServer)
            /\ Head(toServer).flag = "RR"
            /\ swin'.lower = Head(toServer).num
  PROVE  AnswersAscend'
<1>0. toServer \in Seq(RcopyPdu) /\ Len(toServer) \in Nat
  BY DEF TypeOK
<1>1. CASE toServer' = toServer /\ swin'.lower = swin.lower
  BY <1>1 DEF AnswersAscend
<1>2. CASE toServer # <<>> /\ toServer' = Tail(toServer)
  <2>1. /\ Len(toServer') = Len(toServer) - 1 /\ Len(toServer') \in Nat
        /\ \A i \in 1 .. Len(toServer') : /\ toServer'[i] = toServer[i + 1]
                                          /\ i + 1 \in 1 .. Len(toServer)
        /\ Head(toServer) = toServer[1] /\ 1 \in 1 .. Len(toServer)
    BY <1>0, <1>2, TailFacts
  <2>2. \A i \in 1 .. Len(toServer') :
          toServer'[i].flag \in {"RR", "SREJ"} => swin'.lower <= toServer'[i].num
    <3>1. \A i \in 1 .. Len(toServer') : 1 < i + 1
      OBVIOUS
    <3> QED
      BY <2>1, <3>1 DEF AnswersAscend
  <2>3. \A i, j \in 1 .. Len(toServer') :
          /\ i < j
          /\ toServer'[i].flag = "RR"
          /\ toServer'[j].flag \in {"RR", "SREJ"}
          => toServer'[i].num <= toServer'[j].num
    <3>1. \A i, j \in 1 .. Len(toServer') : i < j => i + 1 < j + 1
      OBVIOUS
    <3> QED
      BY <2>1, <3>1 DEF AnswersAscend
  <2> QED
    BY <2>2, <2>3 DEF AnswersAscend
<1> QED
  BY <1>0, <1>1, <1>2, TailFacts

LEMMA ServerOrder ==
  ASSUME CoreInv, TypeOK', OrderInv, ServerStep, UNCHANGED rcopyVars, filename \/ Orderly
  PROVE  OrderInv'
<1> USE DEF rcopyVars
<1>1. /\ toServer' = toServer \/ (toServer # <<>> /\ toServer' = Tail(toServer))
      /\ \/ swin'.lower = swin.lower
         \/ /\ toServer # <<>>
            /\ toServer' = Tail(toServer)
            /\ Head(toServer).flag = "RR"
            /\ swin'.lower = Head(toServer).num
      /\ swin.current <= swin'.current
      /\ EofSent => EofSent'
  BY ServerMovesUp DEF CoreInv
<1>2. CASE filename
  <2>1. /\ toServer' = <<>> /\ rstate \in {"FILENAME_POLL", "DONE"}
        /\ sstate' \in {"WINDOW_OPEN", "DONE"}
        /\ \/ toClient' = <<>>
           \/ \E p : /\ p.flag = "FILE_RESPONSE" /\ p.seq = 0
                     /\ toClient' = Append(<<>>, p)
    BY <1>2, FilenameFacts
  <2>2. AnswersAscend'
    BY <2>1 DEF AnswersAscend
  <2>3. \A i \in 1 .. Len(toClient') : toClient'[i].flag = "FILE_RESPONSE" /\ i = 1
    BY <2>1
  <2>4. ResponseFirst'
    BY <2>1, <2>3 DEF OrderInv, ResponseFirst
  <2> QED
    BY <2>2, <2>4 DEF OrderInv
<1>3. CASE Orderly
  <2>1. /\ sstate' # "CRASHED"
        /\ \/ UNCHANGED toClient
           \/ \E p \in ServerPdu : Genuine(p)' /\ toClient' = Append(toClient, p)
    BY <1>3, Zenon DEF Orderly, OrderInv
  <2>2. AnswersAscend'
    BY <1>1, <2>1, AnswersLeft DEF CoreInv, OrderInv
  <2>3. toClient \in Seq(ServerPdu) /\ \A i \in 1 .. Len(toClient) : toClient[i] \in ServerPdu
    BY DEF CoreInv, TypeOK
  <2>4. ASSUME NEW i \in 1 .. Len(toClient), NEW j \in 1 .. Len(toClient'),
               i = j, toClient'[j] = toClient[i]
        PROVE  (\/ processPDU_ISSUE(toClient[j])
                \/ Genuine(toClient[j])
                \/ /\ toClient[j].flag = "FILE_RESPONSE"
                   /\ j = 1
                   /\ rstate \in {"FILENAME_POLL", "DONE"})'
    <3>1. CASE Genuine(toClient[i])
      <4>1. PICK p \in ServerPdu : p = toClient[i]
        BY <2>3
      <4>2. Genuine(p)'
        BY <1>1, <3>1, <4>1, GenuineKept DEF CoreInv
      <4> QED
        BY <2>4, <4>1, <4>2 DEF Genuine
    <3>2. CASE ~Genuine(toClient[i])
      <4>1. \/ processPDU_ISSUE(toClient[i])
            \/ /\ toClient[i].flag = "FILE_RESPONSE" /\ i = 1
               /\ rstate \in {"FILENAME_POLL", "DONE"}
        BY <3>2 DEF OrderInv, ResponseFirst
      <4> QED
        BY <2>4, <4>1 DEF processPDU_ISSUE
    <3> QED
      BY <3>1, <3>2
  <2>5. ResponseFirst'
    <3>1. CASE UNCHANGED toClient
      <4>1. \A j \in 1 .. Len(toClient') : j \in 1 .. Len(toClient) /\ toClient'[j] = toClient[j]
        BY <3>1
      <4> QED
        BY <2>4, <4>1 DEF OrderInv, ResponseFirst
    <3>2. ASSUME NEW p \in ServerPdu, Genuine(p)', toClient' = Append(toClient, p)
          PROVE  ResponseFirst'
      <4>1. \A j \in 1 .. Len(toClient') :
              \/ j \in 1 .. Len(toClient) /\ toClient'[j] = toClient[j]
              \/ toClient'[j] = p
        BY <2>3, <3>2, AppendFacts
      <4>2. \A j \in 1 .. Len(toClient') : toClient'[j] = p => Genuine(toClient[j])'
        BY <3>2 DEF Genuine
      <4> QED
        BY <2>4, <4>1, <4>2 DEF OrderInv, ResponseFirst
    <3> QED
      BY <2>1, <3>1, <3>2
  <2> QED
    BY <2>2, <2>5 DEF OrderInv
<1> QED
  BY <1>2, <1>3

-----------------------------------------------------------------------------
(***************************************************************************)
(* The invariants.                                                         *)
(***************************************************************************)
LEMMA InvUnchanged ==
  ASSUME CoreInv, UNCHANGED vars
  PROVE  InvKept
<1>1. UNCHANGED <<toClient, toServer, serverVars, rcopyVars>>
  BY DEF vars, networkVars
<1>2. toClient \in Seq(ServerPdu) /\ toServer \in Seq(RcopyPdu)
  BY DEF CoreInv, TypeOK
<1>3. Thinned(toClient, toClient') /\ Thinned(toServer, toServer')
  BY <1>1, <1>2, UntouchedIsThinned
<1>4. Rearranged(toClient, toClient') /\ Rearranged(toServer, toServer')
  BY <1>1, <1>2, <1>3, ThinnedIsRearranged
<1>5. TypeOK'
  BY <1>1, TypeNext DEF CoreInv, vars, networkVars
<1> QED
  BY <1>1, <1>2, <1>3, <1>4, <1>5, NetworkFrame, OrderFrame DEF InvKept

LEMMA NextInductive ==
  ASSUME CoreInv, [Next]_vars
  PROVE  InvKept
<1>1. TypeOK'
  BY TypeNext DEF CoreInv
<1>2. CASE ServerStep /\ UNCHANGED rcopyVars
  BY <1>1, <1>2, ServerInductive, ServerOrder DEF InvKept
<1>3. CASE RcopyStep /\ UNCHANGED serverVars
  BY <1>1, <1>3, RcopyInductive
<1>4. CASE Retry
  BY <1>1, <1>4, RetryInductive DEF InvKept, IInv
<1>5. CASE NetworkStep /\ UNCHANGED <<serverVars, rcopyVars>>
  BY <1>1, <1>5, NetworkInductive
<1>6. CASE UNCHANGED vars
  BY <1>6, InvUnchanged
<1> QED
  BY <1>2, <1>3, <1>4, <1>5, <1>6 DEF Next, Terminated

LEMMA InvNext == IInv /\ [Next]_vars => IInv'
BY NextInductive DEF IInv, InvKept

LEMMA CoreNext == CoreInv /\ [ReorderedNext]_vars => CoreInv'
<1> SUFFICES ASSUME CoreInv, [ReorderedNext]_vars PROVE CoreInv'
  OBVIOUS
<1>1. CASE [Next]_vars
  BY <1>1, NextInductive DEF InvKept
<1>2. CASE /\ ReorderToClient \/ ReorderToServer
           /\ UNCHANGED <<serverVars, rcopyVars>>
  <2>1. TypeOK'
    BY ReorderedType DEF CoreInv
  <2> QED
    BY <1>2, <2>1, ReorderInductive
<1> QED
  BY <1>1, <1>2 DEF ReorderedNext

\* The inductive invariant holds in every state of every run.
THEOREM InvCorrect == Spec => []IInv
<1>1. Init => IInv
  BY InvInit
<1>2. IInv /\ [Next]_vars => IInv'
  BY InvNext
<1> QED
  BY <1>1, <1>2, PTL DEF Spec

\* Its part that does not depend on the order of delivery holds when that is
\* any order.
THEOREM CoreCorrect == ReorderedSpec => []CoreInv
<1>1. Init => CoreInv
  BY InvInit DEF IInv
<1>2. CoreInv /\ [ReorderedNext]_vars => CoreInv'
  BY CoreNext
<1> QED
  BY <1>1, <1>2, PTL DEF ReorderedSpec

-----------------------------------------------------------------------------
(***************************************************************************)
(* What it implies.                                                        *)
(***************************************************************************)
\* The chunks written are those of the file, the first one included.
LEMMA WrittenInOrder ==
  ASSUME IInv
  PROVE  \A i \in 1 .. Len(out) : out[i] = File[i]
<1>1. Len(out) \in Nat
  BY Types DEF IInv, CoreInv
<1>2. \A i \in 1 .. Len(out) : i = 1 \/ i \in 2 .. Len(out)
  BY <1>1
<1>3. \A i \in 2 .. Len(out) : out[i] = File[i]
  BY DEF IInv, CoreInv, RcopyInv
<1>4. Len(out) >= 1 => out[1] = File[1]
  BY DEF IInv, OrderInv, ResponseFirst
<1> QED
  BY <1>1, <1>2, <1>3, <1>4

\* A to-file as long as the from-file is the from-file.
LEMMA WholeFile ==
  ASSUME IInv, Len(out) = Len(File)
  PROVE  out = File
<1>1. out \in Seq(Payload) /\ File \in Seq(Chunk)
  BY FileAssumption, Types DEF IInv, CoreInv
<1>2. \A i \in 1 .. Len(out) : out[i] = File[i]
  BY WrittenInOrder
<1> QED
  BY <1>1, <1>2

\* rcopy has written a prefix of the file, for every file and window size.
THEOREM OutputCorrect == Spec => []OutputIsPrefix
<1>1. IInv => OutputIsPrefix
  <2> SUFFICES ASSUME IInv PROVE OutputIsPrefix
    OBVIOUS
  <2>1. Len(out) <= Len(File)
    BY Types DEF IInv, CoreInv, ServerInv, RcopyInv
  <2> QED
    BY <2>1, WrittenInOrder DEF OutputIsPrefix
<1> QED
  BY <1>1, InvCorrect, PTL

\* An acknowledged or successful end means that the whole file was written.
THEOREM CompletionCorrect == Spec => []CompleteWhenAcked
<1>1. IInv => CompleteWhenAcked
  <2> SUFFICES ASSUME IInv, ~(out = File)
               PROVE  /\ rcause # "complete" /\ scause # "acked"
                      /\ \A i \in 1 .. Len(toServer) : toServer[i].flag # "EOF_ACK"
    BY DEF CompleteWhenAcked
  <2>1. Len(out) # Len(File)
    BY WholeFile
  <2>2. rcause # "complete"
    BY <2>1 DEF IInv, CoreInv, RcopyInv
  <2> QED
    BY <2>2 DEF IInv, CoreInv, RcopyInv, ToServerInv
<1> QED
  BY <1>1, InvCorrect, PTL

\* The server always has the packet it is asked to resend, and is never given
\* a flag its state does not know.
THEOREM ServerCorrect == Spec => []ServerAnswers
<1>1. IInv => ServerAnswers
  BY DEF IInv, CoreInv, ServerInv, OrderInv, AnswersAscend, ServerAnswers
<1> QED
  BY <1>1, InvCorrect, PTL

\* Every data packet on its way holds the chunk of its number.
THEOREM PacketsCorrect == Spec => []PacketsGenuine
<1>1. IInv => PacketsGenuine
  <2> SUFFICES ASSUME IInv, NEW i \in 1 .. Len(toClient)
               PROVE  /\ toClient[i].flag \in DataFlags =>
                           /\ toClient[i].seq < Len(File)
                           /\ toClient[i].payload = File[toClient[i].seq + 1]
                      /\ toClient[i].flag = "EOF" => toClient[i].seq = Len(File)
    BY DEF PacketsGenuine
  <2>1. toClient[i] \in ServerPdu
    BY Types DEF IInv, CoreInv
  <2>2. toClient[i].seq \in Nat
    BY <2>1 DEF ServerPdu
  <2>3. swin.current \in Nat /\ Len(File) \in Nat /\ swin.current <= Len(File)
    BY Types DEF IInv, CoreInv, ServerInv
  <2>4. \/ processPDU_ISSUE(toClient[i])
        \/ Genuine(toClient[i])
        \/ toClient[i].flag = "FILE_RESPONSE"
    BY DEF IInv, OrderInv, ResponseFirst
  <2> QED
    BY <2>2, <2>3, <2>4 DEF Genuine, DataFlags, processPDU_ISSUE
<1> QED
  BY <1>1, InvCorrect, PTL

\* The server's window trails rcopy's and rcopy's never passes it.
THEOREM WindowsCorrect == Spec => []WindowsAgree
<1>1. IInv => WindowsAgree
  BY Types DEF IInv, CoreInv, ServerInv, RcopyInv, WindowsAgree
<1> QED
  BY <1>1, InvCorrect, PTL

\* RRs reach the server in order, and no SREJ is behind one.
THEOREM AnswersCorrect == Spec => []AnswersInOrder
<1>1. IInv => AnswersInOrder
  <2> SUFFICES ASSUME IInv PROVE AnswersInOrder
    OBVIOUS
  <2>1. /\ swin.lower \in Nat
        /\ \A i \in 1 .. Len(toServer) : toServer[i].num \in Nat
    <3>1. \A i \in 1 .. Len(toServer) : toServer[i] \in RcopyPdu
      BY Types DEF IInv, CoreInv
    <3> QED
      BY <3>1, Types DEF IInv, CoreInv, RcopyPdu
  <2> QED
    BY <2>1 DEF IInv, OrderInv, AnswersAscend, AnswersInOrder
<1> QED
  BY <1>1, InvCorrect, PTL

\* rcopy's slots hold what belongs there.
THEOREM BufferCorrect == Spec => []BufferSound
<1>1. IInv => BufferSound
  <2> SUFFICES ASSUME IInv PROVE BufferSound
    OBVIOUS
  <2>1. ASSUME NEW i \in Slots, rwin.array[i] # NULL
        PROVE  /\ Index(rwin.array[i].seq) = i
               /\ rwin.array[i].seq \in rwin.current .. rwin.upper - 1
               /\ rwin.array[i].seq <= rwin.highest
    <3>1. SlotSound(rwin, i)
      BY DEF IInv, CoreInv, RcopyInv
    <3>2. rwin.array[i].seq \in Nat /\ rwin.current \in Nat /\ rwin.upper \in Nat
      BY <2>1, SlotType, Types DEF IInv, CoreInv
    <3> QED
      BY <2>1, <3>1, <3>2 DEF SlotSound
  <2>2. rstate = "BUFFERING" => /\ ~checkPDUValid(rwin, rwin.current)
                                /\ rwin.current < rwin.highest
    BY BufferingFacts DEF IInv
  <2>3. rstate = "IN_ORDER" => \A i \in Slots : rwin.array[i] = NULL
    BY DEF IInv, CoreInv, RcopyInv
  <2> QED
    BY <2>1, <2>2, <2>3 DEF BufferSound
<1> QED
  BY <1>1, InvCorrect, PTL

\* EOF comes after everything that a gap may be followed by.
LEMMA EofNeverExpected ==
  ASSUME IInv
  PROVE  NoEOFWhileBuffering
<1> SUFFICES ASSUME rstate = "BUFFERING", NEW i \in 1 .. Len(toClient),
                    toClient[i].flag = "EOF"
             PROVE  toClient[i].seq > rwin.current
  BY DEF NoEOFWhileBuffering
<1>1. rwin.current < rwin.highest /\ rwin.highest <= swin.current /\ Copying
  BY BufferingFacts DEF IInv
<1>2. Genuine(toClient[i])
  BY <1>1, ResponseBehind DEF IInv, OrderInv, processPDU_ISSUE
<1>3. toClient[i].seq = swin.current
  BY <1>2 DEF Genuine, DataFlags, EofSent
<1> QED
  BY <1>1, <1>3, Types DEF IInv, CoreInv

\* buffering's branch for an expected EOF is dead.
THEOREM EofCorrect == Spec => []NoEOFWhileBuffering
<1>1. IInv => NoEOFWhileBuffering
  BY EofNeverExpected
<1> QED
  BY <1>1, InvCorrect, PTL

\* in_order never sees the response to the FILENAME packet.
THEOREM ResponseCorrect == Spec => []ResponseComesFirst
<1>1. IInv => ResponseComesFirst
  BY DEF IInv, OrderInv, ResponseFirst, Genuine, DataFlags, processPDU_ISSUE,
         ResponseComesFirst
<1> QED
  BY <1>1, InvCorrect, PTL

-----------------------------------------------------------------------------
(***************************************************************************)
(* The handshake.                                                          *)
(***************************************************************************)
\* Until rcopy answers, the child has no SREJ to resend anything for.
FilenameInv ==
  /\ FilenameOutcome
  /\ Handshake =>
       \A i \in 1 .. Len(toClient) : toClient[i].flag # "RESENT_SREJ"

\* During the handshake no answer of rcopy's is under way, and what the child
\* sends on its own is the response, a chunk, EOF or what a timeout resends.
LEMMA UnaskedPackets ==
  ASSUME IInv, Handshake, ServerStep
  PROVE  \/ UNCHANGED toClient
         \/ \E pdu \in ServerPdu : /\ pdu.flag # "RESENT_SREJ"
                                   /\ toClient' = Append(toClient, pdu)
<1> DEFINE Sends(pdu) == /\ pdu \in ServerPdu
                         /\ pdu.flag # "RESENT_SREJ"
                         /\ toClient' = Append(toClient, pdu)
<1>0. /\ swin.lower \in Nat /\ swin.current \in Nat /\ offset \in Nat
      /\ Len(File) \in Nat /\ toServer \in Seq(RcopyPdu)
      /\ WindowSize \in Nat /\ WindowSize >= 1
  BY Types DEF IInv, CoreInv
<1>1. \A n \in Nat : n < Len(File) => DataPdu(n) \in ServerPdu /\ DataPdu(n).flag = "DATA"
  BY <1>0, FileAssumption
  DEF DataPdu, createPDU, ServerPdu, ServerFlags, DataFlags, Payload
<1>2. toServer # <<>> => Head(toServer).flag \in {"FILENAME", "CORRUPT"}
  BY <1>0, TailFacts DEF IInv, CoreInv, HandshakeInv
<1>3. ASSUME NEW answer, NEW moved, NEW ignored, toServer # <<>>,
             process_answer(Head(toServer), ignored, moved, answer)
      PROVE  UNCHANGED toClient
  BY <1>2, <1>3 DEF process_answer
<1>4. ASSUME NEW state, Resend(swin.lower, "RESENT_TIMEOUT", state),
             sstate \in {"WINDOW_CLOSED", "EOF_WAIT"}
      PROVE  UNCHANGED toClient \/ \E pdu \in ServerPdu : Sends(pdu)
  <2> DEFINE pdu == get_PDU(swin, swin.lower)
             sent == createPDU(swin.lower,
                               IF pdu.flag = "DATA" THEN "RESENT_TIMEOUT" ELSE pdu.flag,
                               pdu.payload)
  <2>1. toClient' = toClient \/ toClient' = Append(toClient, sent)
    BY <1>4 DEF Resend, resend_data_packet
  <2>2. \/ pdu = DataPdu(swin.lower) /\ swin.lower < Len(File)
        \/ pdu = EofPdu
    <3>1. swin.lower <= swin.current /\ swin.current <= Len(File)
      BY Types DEF IInv, CoreInv, ServerInv
    <3>2. CASE swin.lower < swin.current
      BY <1>0, <3>1, <3>2 DEF IInv, CoreInv, ServerInv
    <3>3. CASE swin.lower = swin.current
      BY <1>0, <1>4, <3>3 DEF IInv, CoreInv, ServerInv
    <3> QED
      BY <1>0, <3>1, <3>2, <3>3
  <2>3. sent \in ServerPdu /\ sent.flag # "RESENT_SREJ"
    <3>1. CASE pdu = EofPdu
      BY <1>0, <3>1 DEF EofPdu, createPDU, ServerPdu, ServerFlags, Payload
    <3>2. CASE pdu = DataPdu(swin.lower) /\ swin.lower < Len(File)
      BY <1>0, <1>1, <3>2 DEF createPDU, ServerPdu, ServerFlags, DataFlags
    <3> QED
      BY <2>2, <3>1, <3>2
  <2> QED
    BY <2>1, <2>3
<1>5. CASE filename
  BY <1>5 DEF filename, createPDU, ServerPdu, ServerFlags, Payload
<1>6. CASE window_open_send
  <2>1. toClient' = Append(toClient, DataPdu(swin.current)) /\ swin.current < Len(File)
    BY <1>6 DEF window_open_send, send_data_packet, DataPdu, IInv, CoreInv, ServerInv
  <2> QED
    BY <1>0, <1>1, <2>1
<1>7. CASE window_open_eof \/ window_open_error \/ window_open_full \/ window_open_idle
  BY <1>7 DEF window_open_eof, window_open_error, window_open_full,
              window_open_idle, networkVars
<1>8. CASE window_open_recv
  BY <1>3, <1>8 DEF window_open_recv
<1>9. CASE window_closed_recv
  BY <1>3, <1>9 DEF window_closed_recv
<1>10. CASE window_closed_timeout
  BY <1>4, <1>10 DEF window_closed_timeout
<1>11. CASE window_closed_give_up \/ end_of_file_give_up
  BY <1>11 DEF window_closed_give_up, end_of_file_give_up, networkVars
<1>12. CASE end_of_file_send
  BY <1>0, <1>12 DEF end_of_file_send, send_eof, createPDU, ServerPdu, ServerFlags, Payload
<1>13. CASE end_of_file_recv
  BY <1>3, <1>13 DEF end_of_file_recv
<1>14. CASE end_of_file_timeout
  BY <1>4, <1>14 DEF end_of_file_timeout
<1> QED
  BY <1>5, <1>6, <1>7, <1>8, <1>9, <1>10, <1>11, <1>12, <1>13, <1>14 DEF ServerStep

\* Of an intact packet that is neither a response nor data, rcopy can during
\* the handshake only receive EOF, and that only behind a short file.
LEMMA HandshakeEnds ==
  ASSUME IInv, FilenameInv, filename_recv, rcause' = "unexpected", rcause # "unexpected"
  PROVE  Len(File) < WindowSize
<1>0. /\ swin.lower \in Nat /\ swin.current \in Nat /\ Len(File) \in Nat
      /\ toClient \in Seq(ServerPdu) /\ WindowSize \in Nat
  BY Types DEF IInv, CoreInv
<1>1. /\ rstate = "FILENAME_POLL" /\ toClient # <<>>
      /\ Head(toClient).flag \in {"EOF", "RESENT_SREJ"}
  BY DEF filename_recv, RcopyGoes, RcopyExits
<1>2. /\ 1 \in 1 .. Len(toClient) /\ Head(toClient) = toClient[1]
  BY <1>0, <1>1, TailFacts
<1>3. Handshake /\ swin.lower = 0
  BY <1>1 DEF Handshake, IInv, CoreInv, HandshakeInv
<1>4. toClient[1].flag = "EOF"
  BY <1>1, <1>2, <1>3 DEF FilenameInv
<1>5. EofSent
  BY <1>2, <1>4 DEF IInv, OrderInv, ResponseFirst, Genuine, processPDU_ISSUE, DataFlags
<1> QED
  BY <1>0, <1>3, <1>5 DEF EofSent, IInv, CoreInv, ServerInv

LEMMA FilenameNext == IInv /\ FilenameInv /\ [Next]_vars => FilenameInv'
<1> SUFFICES ASSUME IInv, FilenameInv, [Next]_vars
             PROVE  FilenameInv'
  OBVIOUS
<1>0. /\ toClient \in Seq(ServerPdu) /\ Len(toClient) \in Nat
      /\ Len(File) \in Nat /\ WindowSize \in Nat
  BY Types DEF IInv, CoreInv
<1>1. ASSUME rcause' # "unexpected" \/ rcause' = rcause
      PROVE  FilenameOutcome'
  BY <1>1 DEF FilenameInv, FilenameOutcome
<1>2. ASSUME Handshake' => Handshake,
             UNCHANGED toClient \/ toClient' = <<>> \/ (toClient # <<>> /\ toClient' = Tail(toClient))
      PROVE  Handshake' =>
               \A i \in 1 .. Len(toClient') : toClient'[i].flag # "RESENT_SREJ"
  <2>1. CASE UNCHANGED toClient \/ toClient' = <<>>
    BY <1>2, <2>1 DEF FilenameInv
  <2>2. CASE toClient # <<>> /\ toClient' = Tail(toClient)
    BY <1>0, <1>2, <2>2, TailFacts DEF FilenameInv
  <2> QED
    BY <1>2, <2>1, <2>2
<1>3. CASE ServerStep /\ UNCHANGED rcopyVars
  <2>1. FilenameOutcome' /\ (Handshake' <=> Handshake)
    BY <1>1, <1>3 DEF rcopyVars, Handshake
  <2>2. ASSUME Handshake
        PROVE  \A i \in 1 .. Len(toClient') : toClient'[i].flag # "RESENT_SREJ"
    <3>1. CASE UNCHANGED toClient
      BY <2>2, <3>1 DEF FilenameInv
    <3>2. ASSUME NEW pdu \in ServerPdu, pdu.flag # "RESENT_SREJ",
                 toClient' = Append(toClient, pdu)
          PROVE  \A i \in 1 .. Len(toClient') : toClient'[i].flag # "RESENT_SREJ"
      BY <1>0, <2>2, <3>2, AppendFacts DEF FilenameInv
    <3> QED
      BY <1>3, <2>2, <3>1, <3>2, UnaskedPackets
  <2> QED
    BY <2>1, <2>2 DEF FilenameInv
<1>4. CASE RcopyStep /\ UNCHANGED serverVars
  <2>1. CASE filename_recv
    <3>1. FilenameOutcome'
      BY <1>0, <1>1, <2>1, HandshakeEnds DEF FilenameInv, FilenameOutcome
    <3>2. Handshake /\ toClient # <<>> /\ toClient' = Tail(toClient)
      BY <2>1 DEF filename_recv, Handshake
    <3> QED
      BY <1>2, <3>1, <3>2 DEF FilenameInv
  <2>2. CASE start \/ filename_send \/ filename_give_up \/ file_okay
    <3>1. UNCHANGED toClient /\ Handshake
      BY <2>2 DEF start, filename_send, filename_give_up, file_okay, Handshake, networkVars
    <3>2. rcause' # "unexpected" \/ rcause' = rcause
      BY <2>2 DEF start, filename_send, filename_give_up, file_okay, RcopyGoes, RcopyExits
    <3> QED
      BY <1>1, <1>2, <3>1, <3>2 DEF FilenameInv
  <2>3. CASE ~filename_recv /\ ~(start \/ filename_send \/ filename_give_up \/ file_okay)
    <3>1. rcause' # "unexpected" \/ rcause' = rcause
      BY <1>4, <2>3
      DEF RcopyStep, discard, ten_sec_timeout, in_order_expected, in_order_eof,
          in_order_ahead, in_order_old, buffering_ahead, buffering_expected,
          buffering_old, flush_write, flush_eof, flush_gap, WriteCurrent,
          RcopyGoes, RcopyExits, rcopyVars
    <3>2. ~Handshake'
      BY <1>4, <2>3
      DEF RcopyStep, discard, ten_sec_timeout, in_order_expected, in_order_eof,
          in_order_ahead, in_order_old, buffering_ahead, buffering_expected,
          buffering_old, flush_write, flush_eof, flush_gap, WriteCurrent,
          RcopyGoes, RcopyExits, Receives, Handshake, rcopyVars
    <3> QED
      BY <1>1, <3>1, <3>2 DEF FilenameInv
  <2> QED
    BY <2>1, <2>2, <2>3
<1>5. CASE Retry
  <2>1. toClient' = <<>> /\ rcause' = rcause
    BY <1>5 DEF Retry, filename_retry, RcopyGoes
  <2> QED
    BY <1>1, <2>1 DEF FilenameInv
<1>6. CASE NetworkStep /\ UNCHANGED <<serverVars, rcopyVars>>
  <2>1. FilenameOutcome' /\ (Handshake' <=> Handshake)
    BY <1>1, <1>6 DEF rcopyVars, Handshake
  <2>2. CASE DropToClient \/ DropToServer \/ FlipToServer
    BY <1>2, <2>1, <2>2 DEF DropToClient, DropToServer, FlipToServer, FilenameInv
  <2>3. CASE FlipToClient
    <3>1. \A i \in 1 .. Len(toClient') :
            /\ i \in 1 .. Len(toClient)
            /\ toClient'[i] = toClient[i] \/ toClient'[i].flag = "CORRUPT"
      BY <1>0, <2>3 DEF FlipToClient, CorruptedByServer, createPDU
    <3> QED
      BY <2>1, <3>1 DEF FilenameInv
  <2> QED
    BY <1>6, <2>2, <2>3 DEF NetworkStep
<1>7. CASE UNCHANGED vars
  BY <1>1, <1>2, <1>7 DEF vars, networkVars, rcopyVars, Handshake, FilenameInv
<1> QED
  BY <1>3, <1>4, <1>5, <1>6, <1>7 DEF Next, Terminated

\* The handshake ends as the comment on filename() says, whatever is lost, when
\* the file has at least as many chunks as the window (rcopy.c:68, 106-126).
THEOREM FilenameCorrect == Spec => []FilenameOutcome
<1>1. Init => FilenameInv
  BY DEF Init, RcopyInit, FilenameInv, FilenameOutcome
<1>2. FilenameInv => FilenameOutcome
  BY DEF FilenameInv
<1> QED
  BY <1>1, <1>2, InvCorrect, FilenameNext, PTL DEF Spec

-----------------------------------------------------------------------------
(***************************************************************************)
(* Transfer implements FileCopy.                                           *)
(***************************************************************************)
\* The state of the copy after a step that leaves rcopy alone.
LEMMA CopyStutters ==
  ASSUME UNCHANGED rcopyVars
  PROVE  UNCHANGED <<out, CopyStatus>>
BY DEF rcopyVars, CopyStatus

\* rcopy goes on or ends: only `complete` is a success.
LEMMA CopyEnds ==
  ASSUME IInv, IInv', UNCHANGED out, rstate # "DONE"
  PROVE  [Copy!Next]_<<out, CopyStatus>>
<1>1. CopyStatus = "copying"
  BY DEF CopyStatus
<1>2. CASE rstate' # "DONE"
  <2>1. CopyStatus' = "copying"
    BY <1>2 DEF CopyStatus
  <2> QED
    BY <1>1, <2>1
<1>3. CASE rstate' = "DONE" /\ rcause' # "complete"
  <2>1. CopyStatus' = "failed"
    BY <1>3 DEF CopyStatus
  <2> QED
    BY <1>1, <2>1 DEF Copy!Next, Copy!Fail
<1>4. CASE rstate' = "DONE" /\ rcause' = "complete"
  <2>1. CopyStatus' = "complete"
    BY <1>4 DEF CopyStatus
  <2>2. Len(out') = Len(File)
    BY <1>4 DEF IInv, CoreInv, RcopyInv
  <2>3. out = File
    BY <2>2, WholeFile
  <2> QED
    BY <1>1, <2>1, <2>3 DEF Copy!Next, Copy!Finish
<1> QED
  BY <1>2, <1>3, <1>4

\* A packet is written.
LEMMA CopyWrites ==
  ASSUME IInv, IInv', rstate # "DONE",
         NEW payload, NEW w, NEW state \in {"IN_ORDER", "FLUSH"},
         WriteCurrent(payload, w, state)
  PROVE  [Copy!Next]_<<out, CopyStatus>>
<1>1. CASE out' = Append(out, payload) /\ rstate' = state
  <2>1. CopyStatus = "copying" /\ CopyStatus' = "copying"
    BY <1>1 DEF CopyStatus
  <2>2. out \in Seq(Payload \cup {payload})
    BY Types DEF IInv, CoreInv
  <2>3. /\ Len(out) \in Nat
        /\ Len(out') = Len(out) + 1
        /\ out'[Len(out) + 1] = payload
    BY <1>1, <2>2, AppendFacts
  <2>4. Len(out') <= Len(File) /\ \A i \in 1 .. Len(out') : out'[i] = File[i]
    <3>1. \A i \in 1 .. Len(out') : out'[i] = File[i]
      <4>1. IInv' => (\A i \in 1 .. Len(out) : out[i] = File[i])'
        BY WrittenInOrder, PTL
      <4> QED
        BY <4>1
    <3>2. /\ Len(out') = rwin'.current /\ rwin'.current <= swin'.current
          /\ swin'.current = offset'
      BY DEF IInv, CoreInv, RcopyInv, ServerInv
    <3>3. offset' \in 0 .. Len(File) /\ Len(File) \in Nat
      BY FileAssumption DEF IInv, CoreInv, TypeOK
    <3> QED
      BY <3>1, <3>2, <3>3
  <2>5. /\ payload = File[Len(out) + 1]
        /\ Len(out) < Len(File)
    <3>1. Len(File) \in Nat /\ Len(out) + 1 \in 1 .. Len(out')
      BY <2>3, FileAssumption
    <3> QED
      BY <2>3, <2>4, <3>1
  <2> QED
    BY <1>1, <2>1, <2>5 DEF Copy!Next, Copy!Write
<1>2. CASE UNCHANGED out
  BY <1>2, CopyEnds
<1> QED
  BY <1>1, <1>2 DEF WriteCurrent, RcopyGoes

LEMMA CopyStep == IInv /\ IInv' /\ [Next]_vars => [Copy!Next]_<<out, CopyStatus>>
<1> SUFFICES ASSUME IInv, IInv', [Next]_vars
             PROVE  [Copy!Next]_<<out, CopyStatus>>
  OBVIOUS
<1>1. CASE UNCHANGED rcopyVars
  BY <1>1, CopyStutters
<1>2. CASE RcopyStep
  <2>1. CASE UNCHANGED out /\ rstate # "DONE"
    BY <2>1, CopyEnds
  <2>2. CASE in_order_expected
    <3>1. rstate # "DONE"
      BY <2>2 DEF in_order_expected, Receives
    <3> QED
      BY <2>2, <3>1, CopyWrites DEF in_order_expected
  <2>3. CASE buffering_expected
    <3>1. rstate # "DONE"
      BY <2>3 DEF buffering_expected, Receives
    <3>2. \/ WriteCurrent(Received.payload, advance(rwin), "FLUSH")
          \/ UNCHANGED out
      BY <2>3 DEF buffering_expected
    <3> QED
      BY <3>1, <3>2, <2>1, CopyWrites
  <2>4. CASE flush_write
    <3>1. rstate # "DONE"
      BY <2>4 DEF flush_write
    <3> QED
      BY <2>4, <3>1, CopyWrites DEF flush_write
  <2>5. CASE discard
    BY <2>5, CopyStutters DEF discard
  <2> QED
    BY <1>2, <2>1, <2>2, <2>3, <2>4, <2>5
       DEF RcopyStep, start, filename_send, filename_recv, filename_give_up,
           file_okay, ten_sec_timeout, in_order_eof, in_order_ahead, in_order_old,
           buffering_ahead, buffering_old, flush_eof, flush_gap, Receives
<1>3. CASE Retry
  <2>1. UNCHANGED out /\ rstate # "DONE"
    BY <1>3 DEF Retry, filename_retry
  <2> QED
    BY <2>1, CopyEnds
<1> QED
  BY <1>1, <1>2, <1>3 DEF Next, Terminated, vars

\* Every run of the two programs is a run of the copy: chunks are appended one
\* by one from the from-file, and only the whole of it is a success.
THEOREM TransferImplementsFileCopy == Spec => ImplementsFileCopy
<1>1. Init => Copy!Init
  BY DEF Init, RcopyInit, Copy!Init, CopyStatus
<1>2. IInv /\ IInv' /\ [Next]_vars => [Copy!Next]_<<out, CopyStatus>>
  BY CopyStep
<1> QED
  BY <1>1, <1>2, InvCorrect, PTL DEF Spec, ImplementsFileCopy, Copy!Spec

-----------------------------------------------------------------------------
(***************************************************************************)
(* What is left when the network reorders datagrams.                       *)
(***************************************************************************)
\* Reordering may make an RR late but never early: the server releases only
\* what rcopy has written (server.c:218-222).
THEOREM ReleaseCorrect == ReorderedSpec => []ReleasedOnlyWritten
<1>1. CoreInv => ReleasedOnlyWritten
  BY DEF CoreInv, ServerInv, RcopyInv, ReleasedOnlyWritten
<1> QED
  BY <1>1, CoreCorrect, PTL

\* After its first chunk the to-file is the from-file, chunk for chunk, and all
\* of it at EOF: what a stale SREJ makes the server send under a wrong number,
\* rcopy has already, and it writes nothing below its window (rcopy.c:199-222).
THEOREM ReorderedOutputCorrect == ReorderedSpec => []OutputIsPrefixAfterFirst
<1>1. CoreInv => OutputIsPrefixAfterFirst
  <2> SUFFICES ASSUME CoreInv PROVE OutputIsPrefixAfterFirst
    OBVIOUS
  <2>1. Len(out) <= Len(File)
    BY Types DEF CoreInv, ServerInv, RcopyInv
  <2> QED
    BY <2>1 DEF CoreInv, RcopyInv, OutputIsPrefixAfterFirst
<1> QED
  BY <1>1, CoreCorrect, PTL
=============================================================================

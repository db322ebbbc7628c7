---------------------------- MODULE ServerProofs ----------------------------
(***************************************************************************)
(* What the proofs about Transfer share - what the window operations       *)
(* return, the slots and the queues - and the server's child: its steps    *)
(* keep the types, and they preserve CoreInv.                              *)
(***************************************************************************)
EXTENDS TransferInvariant, TLAPS

\* n % window_size is an index of the array.
LEMMA IndexInSlots ==
  ASSUME NEW n \in Nat
  PROVE  Index(n) \in Slots
BY WindowSizeAssumption DEF Index, Slots

\* A window is made with the type of a window.
LEMMA MakeWindowType == make_window \in WindowType
BY WindowSizeAssumption DEF make_window, WindowType

\* A packet of the server is a record of these fields.
LEMMA CreatePDUType ==
  ASSUME NEW n \in Nat, NEW flag \in ServerFlags, NEW payload \in Payload
  PROVE  createPDU(n, flag, payload) \in ServerPdu
BY DEF createPDU, ServerPdu

\* So is a packet of rcopy.
LEMMA RcopyPDUType ==
  ASSUME NEW n \in Nat, NEW flag \in RcopyFlags
  PROVE  rcopyPDU(flag, n) \in RcopyPdu
BY DEF rcopyPDU, RcopyPdu

\* add_PDU changes at most the slot of the number.
LEMMA AddType ==
  ASSUME NEW w \in WindowType, NEW p \in ServerPdu, NEW n \in Nat
  PROVE  /\ add_PDU(w, p, n) \in WindowType
         /\ add_PDU(w, p, n).upper = w.upper
         /\ add_PDU(w, p, n).lower = w.lower
         /\ add_PDU(w, p, n).current = w.current
         /\ add_PDU(w, p, n).highest = w.highest
         /\ add_PDU(w, p, n).array =
              IF w.array[Index(n)] # NULL THEN w.array
              ELSE [w.array EXCEPT ![Index(n)] = p]
BY IndexInSlots DEF add_PDU, checkPDUValid, WindowType

\* remove_PDU empties the slot of the number.
LEMMA RemoveType ==
  ASSUME NEW w \in WindowType, NEW n \in Nat
  PROVE  /\ remove_PDU(w, n) \in WindowType
         /\ remove_PDU(w, n).upper = w.upper
         /\ remove_PDU(w, n).lower = w.lower
         /\ remove_PDU(w, n).current = w.current
         /\ remove_PDU(w, n).highest = w.highest
         /\ remove_PDU(w, n).array = [w.array EXCEPT ![Index(n)] = NULL]
BY IndexInSlots DEF remove_PDU, WindowType

\* The counters move and the slots stay.
LEMMA IncrementCurrentType ==
  ASSUME NEW w \in WindowType
  PROVE  /\ incrementCurrent(w) \in WindowType
         /\ incrementCurrent(w).upper = w.upper
         /\ incrementCurrent(w).lower = w.lower
         /\ incrementCurrent(w).current = w.current + 1
         /\ incrementCurrent(w).highest = w.highest
         /\ incrementCurrent(w).array = w.array
BY DEF incrementCurrent, WindowType

\* All three counters.
LEMMA AdvanceType ==
  ASSUME NEW w \in WindowType
  PROVE  /\ advance(w) \in WindowType
         /\ advance(w).upper = w.upper + 1
         /\ advance(w).lower = w.lower + 1
         /\ advance(w).current = w.current + 1
         /\ advance(w).highest = w.highest
         /\ advance(w).array = w.array
<1> DEFINE l == incrementLower(w)
           u == incrementUpper(l)
<1>1. /\ l \in WindowType /\ l.lower = w.lower + 1 /\ l.upper = w.upper
      /\ l.current = w.current /\ l.highest = w.highest /\ l.array = w.array
  BY DEF incrementLower, WindowType
<1> HIDE DEF l
<1>2. /\ u \in WindowType /\ u.lower = l.lower /\ u.upper = l.upper + 1
      /\ u.current = l.current /\ u.highest = l.highest /\ u.array = l.array
  BY <1>1 DEF incrementUpper, WindowType
<1> HIDE DEF u
<1>3. advance(w) = incrementCurrent(u)
  BY DEF advance, u, l
<1> QED
  BY <1>1, <1>2, <1>3, IncrementCurrentType

\* Only highest changes.
LEMMA UpdateHighestType ==
  ASSUME NEW w \in WindowType, NEW n \in Nat
  PROVE  /\ updateHighest(w, n) \in WindowType
         /\ updateHighest(w, n).upper = w.upper
         /\ updateHighest(w, n).lower = w.lower
         /\ updateHighest(w, n).current = w.current
         /\ updateHighest(w, n).highest = n
         /\ updateHighest(w, n).array = w.array
BY DEF updateHighest, WindowType

\* An RR moves lower and upper together and empties the slots it passes.
LEMMA CleaningType ==
  ASSUME NEW w \in WindowType, NEW rr \in Nat
  PROVE  /\ cleaning_up_with_RR(w, rr) \in WindowType
         /\ w.lower >= rr => cleaning_up_with_RR(w, rr) = w
         /\ w.lower < rr =>
              /\ cleaning_up_with_RR(w, rr).upper = w.upper + (rr - w.lower)
              /\ cleaning_up_with_RR(w, rr).lower = rr
              /\ cleaning_up_with_RR(w, rr).current = w.current
              /\ cleaning_up_with_RR(w, rr).highest = w.highest
              /\ cleaning_up_with_RR(w, rr).array =
                   [i \in Slots |->
                      IF \E n \in w.lower .. rr - 1 : Index(n) = i
                        THEN NULL ELSE w.array[i]]
<1>1. CASE w.lower >= rr
  <2>1. ~(w.lower < rr)
    BY <1>1 DEF WindowType
  <2>2. cleaning_up_with_RR(w, rr) = w
    BY <2>1, Zenon DEF cleaning_up_with_RR
  <2> QED
    BY <2>1, <2>2
<1>2. CASE w.lower < rr
  <2> DEFINE a == [i \in Slots |->
                     IF \E n \in w.lower .. rr - 1 : Index(n) = i
                       THEN NULL ELSE w.array[i]]
  <2>1. a \in [Slots -> ServerPdu \cup {NULL}]
    BY DEF WindowType
  <2>2. cleaning_up_with_RR(w, rr) =
          [w EXCEPT !.array = a, !.lower = rr, !.upper = w.upper + (rr - w.lower)]
    BY <1>2 DEF cleaning_up_with_RR, WindowType
  <2> HIDE DEF a
  <2>3. w.upper + (rr - w.lower) \in Nat
    BY <1>2 DEF WindowType
  <2>4. /\ cleaning_up_with_RR(w, rr) \in WindowType
        /\ cleaning_up_with_RR(w, rr).upper = w.upper + (rr - w.lower)
        /\ cleaning_up_with_RR(w, rr).lower = rr
        /\ cleaning_up_with_RR(w, rr).current = w.current
        /\ cleaning_up_with_RR(w, rr).highest = w.highest
        /\ cleaning_up_with_RR(w, rr).array = a
    BY <2>1, <2>2, <2>3 DEF WindowType
  <2> QED
    BY <1>2, <2>4 DEF a, WindowType
<1> QED
  BY <1>1, <1>2 DEF WindowType

-----------------------------------------------------------------------------
(***************************************************************************)
(* The slots.  Two numbers less than a window apart have different slots:  *)
(* everything the windows do rests on this.                                *)
(***************************************************************************)
LEMMA Division ==
  ASSUME NEW n \in Nat
  PROVE  /\ n \div WindowSize \in Nat
         /\ Index(n) \in 0 .. WindowSize - 1
         /\ n = (WindowSize * (n \div WindowSize)) + Index(n)
BY WindowSizeAssumption DEF Index

LEMMA Multiple ==
  ASSUME NEW k \in Nat \ {0}
  PROVE  WindowSize * k >= WindowSize
BY WindowSizeAssumption

LEMMA IndexInjective ==
  ASSUME NEW a \in Nat, NEW b \in Nat, a < b, b < a + WindowSize
  PROVE  Index(a) # Index(b)
<1> SUFFICES ASSUME Index(a) = Index(b) PROVE FALSE
  OBVIOUS
<1> DEFINE q == a \div WindowSize
           r == b \div WindowSize
<1>1. /\ q \in Nat /\ r \in Nat /\ Index(a) \in Nat /\ WindowSize \in Nat
      /\ a = (WindowSize * q) + Index(a)
      /\ b = (WindowSize * r) + Index(b)
  <2>1. /\ q \in Nat /\ Index(a) \in 0 .. WindowSize - 1
        /\ a = (WindowSize * q) + Index(a)
    BY Division
  <2>2. /\ r \in Nat /\ b = (WindowSize * r) + Index(b)
    BY Division
  <2> QED
    BY <2>1, <2>2, WindowSizeAssumption
<1> HIDE DEF q, r
<1>2. b - a = (WindowSize * r) - (WindowSize * q)
  BY <1>1
<1>3. b - a = WindowSize * (r - q)
  BY <1>1, <1>2
<1>4. CASE r - q >= 1
  BY <1>1, <1>3, <1>4, Multiple
<1>5. CASE r - q <= 0
  <2>1. WindowSize * (r - q) <= 0
    BY <1>1, <1>5
  <2> QED
    BY <1>3, <2>1
<1> QED
  BY <1>1, <1>4, <1>5

\* The same in either order.
LEMMA IndexDistinct ==
  ASSUME NEW lo \in Nat, NEW a \in Nat, NEW b \in Nat,
         lo <= a, a < lo + WindowSize, lo <= b, b < lo + WindowSize,
         Index(a) = Index(b)
  PROVE  a = b
<1>1. ~(a < b /\ b < a + WindowSize)
  BY IndexInjective
<1>2. ~(b < a /\ a < b + WindowSize)
  BY IndexInjective
<1> QED
  BY <1>1, <1>2, WindowSizeAssumption

\* A window further is the same slot.
LEMMA IndexPeriodic ==
  ASSUME NEW n \in Nat
  PROVE  Index(n + WindowSize) = Index(n)
<1> DEFINE m == n + WindowSize
           q == n \div WindowSize
           r == m \div WindowSize
<1>1. /\ q \in Nat /\ r \in Nat
      /\ Index(n) \in 0 .. WindowSize - 1 /\ Index(m) \in 0 .. WindowSize - 1
      /\ n = (WindowSize * q) + Index(n)
      /\ m = (WindowSize * r) + Index(m)
      /\ WindowSize \in Nat
      /\ m = n + WindowSize
  <2>1. /\ q \in Nat /\ Index(n) \in 0 .. WindowSize - 1
        /\ n = (WindowSize * q) + Index(n)
    BY Division
  <2>2. m \in Nat
    BY WindowSizeAssumption
  <2> HIDE DEF m
  <2>3. /\ r \in Nat /\ Index(m) \in 0 .. WindowSize - 1
        /\ m = (WindowSize * r) + Index(m)
    BY <2>2, Division
  <2> QED
    BY <2>1, <2>3, WindowSizeAssumption DEF m
<1> HIDE DEF q, r, m
<1>2. WindowSize * (r - (q + 1)) = Index(n) - Index(m)
  BY <1>1
<1>3. CASE r - (q + 1) >= 1
  BY <1>1, <1>2, <1>3, Multiple
<1>4. CASE r - (q + 1) <= -1
  <2>1. (q + 1) - r \in Nat \ {0}
    BY <1>1, <1>4
  <2>2. WindowSize * ((q + 1) - r) >= WindowSize
    BY <2>1, Multiple
  <2>3. WindowSize * ((q + 1) - r) = 0 - (WindowSize * (r - (q + 1)))
    BY <1>1
  <2> QED
    BY <1>1, <1>2, <2>2, <2>3
<1>5. CASE r = q + 1
  <2>1. WindowSize * (r - (q + 1)) = 0
    BY <1>1, <1>5
  <2> QED
    BY <1>1, <1>2, <2>1 DEF m
<1> QED
  BY <1>1, <1>3, <1>4, <1>5

-----------------------------------------------------------------------------
(***************************************************************************)
(* The queues.                                                             *)
(***************************************************************************)
LEMMA TailFacts ==
  ASSUME NEW S, NEW s \in Seq(S), s # <<>>
  PROVE  /\ Tail(s) \in Seq(S)
         /\ Len(s) \in Nat /\ Len(s) >= 1
         /\ Len(Tail(s)) = Len(s) - 1
         /\ \A i \in 1 .. Len(Tail(s)) : Tail(s)[i] = s[i + 1]
         /\ Head(s) = s[1]
         /\ Head(s) \in S
OBVIOUS

LEMMA AppendFacts ==
  ASSUME NEW S, NEW s \in Seq(S), NEW e \in S
  PROVE  /\ Append(s, e) \in Seq(S)
         /\ Len(s) \in Nat
         /\ Len(Append(s, e)) = Len(s) + 1
         /\ \A i \in 1 .. Len(s) : Append(s, e)[i] = s[i]
         /\ Append(s, e)[Len(s) + 1] = e
OBVIOUS

LEMMA ConcatFacts ==
  ASSUME NEW S, NEW s \in Seq(S), NEW t \in Seq(S)
  PROVE  /\ Len(s) \in Nat /\ Len(t) \in Nat
         /\ Len(s \o t) = Len(s) + Len(t)
         /\ \A i \in 1 .. Len(s) : (s \o t)[i] = s[i]
         /\ \A i \in Len(s) + 1 .. Len(s) + Len(t) : (s \o t)[i] = t[i - Len(s)]
OBVIOUS

\* The types that TypeOK gives to the parts of the state.
LEMMA Types ==
  ASSUME TypeOK
  PROVE  /\ toClient \in Seq(ServerPdu) /\ toServer \in Seq(RcopyPdu)
         /\ swin \in WindowType /\ rwin \in WindowType
         /\ swin.lower \in Nat /\ swin.upper \in Nat /\ swin.current \in Nat
         /\ rwin.lower \in Nat /\ rwin.upper \in Nat /\ rwin.current \in Nat
         /\ rwin.highest \in Nat
         /\ offset \in Nat /\ offset <= Len(File) /\ Len(File) \in Nat
         /\ out \in Seq(Payload) /\ Len(out) \in Nat
         /\ WindowSize \in Nat /\ WindowSize >= 1
<1>1. Len(File) \in Nat
  BY FileAssumption
<1>2. /\ swin \in WindowType /\ rwin \in WindowType
      /\ toClient \in Seq(ServerPdu) /\ toServer \in Seq(RcopyPdu)
      /\ out \in Seq(Payload) /\ offset \in 0 .. Len(File)
  BY DEF TypeOK
<1>3. /\ swin.lower \in Nat /\ swin.upper \in Nat /\ swin.current \in Nat
      /\ rwin.lower \in Nat /\ rwin.upper \in Nat /\ rwin.current \in Nat
      /\ rwin.highest \in Nat
  BY <1>2 DEF WindowType
<1>4. WindowSize \in Nat /\ WindowSize >= 1
  BY WindowSizeAssumption
<1>5. Len(out) \in Nat
  BY <1>2
<1> QED
  BY <1>1, <1>2, <1>3, <1>4, <1>5

\* A window that was just made.
LEMMA MakeWindowFacts ==
  /\ make_window.lower = 0 /\ make_window.current = 0 /\ make_window.highest = 0
  /\ make_window.upper = WindowSize
  /\ \A i \in Slots : make_window.array[i] = NULL
  /\ \A n \in Nat : get_PDU(make_window, n) = NULL
<1>1. /\ make_window.lower = 0 /\ make_window.current = 0 /\ make_window.highest = 0
      /\ make_window.upper = WindowSize
      /\ make_window.array = [i \in Slots |-> NULL]
  BY DEF make_window
<1> QED
  BY <1>1, IndexInSlots DEF get_PDU

-----------------------------------------------------------------------------
(***************************************************************************)
(* The variables of both programs and the queues keep their types.         *)
(***************************************************************************)
LEMMA TypeInit == Init => TypeOK
<1> SUFFICES ASSUME Init PROVE TypeOK
  OBVIOUS
<1>1. swin \in WindowType /\ rwin \in WindowType
  BY MakeWindowType DEF Init, NoChild, RcopyInit
<1> QED
  BY <1>1, MaxTriesAssumption, FileAssumption
  DEF Init, NoChild, RcopyInit, TypeOK, ServerStates, ServerCauses,
      RcopyStates, RcopyCauses

\* What a resend puts in the queue.
LEMMA ResendType ==
  ASSUME TypeOK, NEW n \in Nat, NEW flag \in ServerFlags, NEW state \in ServerStates,
         Resend(n, flag, state)
  PROVE  /\ toClient' \in Seq(ServerPdu)
         /\ sstate' \in ServerStates
         /\ scause' \in ServerCauses
<1>1. Index(n) \in Slots
  BY IndexInSlots
<1>2. CASE checkPDUValid(swin, n)
  <2> DEFINE pdu == get_PDU(swin, n)
  <2>1. pdu \in ServerPdu
    BY <1>1, <1>2 DEF TypeOK, WindowType, get_PDU, checkPDUValid
  <2> HIDE DEF pdu
  <2>2. /\ (IF pdu.flag = "DATA" THEN flag ELSE pdu.flag) \in ServerFlags
        /\ pdu.payload \in Payload
    BY <2>1 DEF ServerPdu
  <2>3. createPDU(n, IF pdu.flag = "DATA" THEN flag ELSE pdu.flag, pdu.payload) \in ServerPdu
    BY <2>2, CreatePDUType
  <2>4. toClient' = Append(toClient, createPDU(n, IF pdu.flag = "DATA" THEN flag ELSE pdu.flag, pdu.payload))
    BY <1>2 DEF Resend, resend_data_packet, pdu
  <2> QED
    BY <1>2, <2>3, <2>4 DEF Resend, ServerGoes, TypeOK
<1>3. CASE ~checkPDUValid(swin, n)
  BY <1>3 DEF Resend, ServerGoes, TypeOK, ServerStates
<1> QED
  BY <1>2, <1>3

\* What an answer of rcopy makes of the server.
LEMMA AnswerType ==
  ASSUME TypeOK, NEW pdu \in RcopyPdu,
         NEW a \in ServerStates, NEW b \in ServerStates, NEW c \in ServerStates,
         process_answer(pdu, a, b, c)
  PROVE  /\ toClient' \in Seq(ServerPdu)
         /\ swin' \in WindowType
         /\ sstate' \in ServerStates
         /\ scause' \in ServerCauses
<1>1. pdu.num \in Nat
  BY DEF RcopyPdu
<1>2. CASE processPDU_ISSUE(pdu) /\ ServerGoes(a) /\ UNCHANGED <<toClient, swin>>
  BY <1>2 DEF ServerGoes, TypeOK
<1>3. CASE swin' = cleaning_up_with_RR(swin, pdu.num) /\ ServerGoes(b) /\ UNCHANGED toClient
  BY <1>1, <1>3, CleaningType DEF ServerGoes, TypeOK
<1>4. CASE Resend(pdu.num, "RESENT_SREJ", c) /\ UNCHANGED swin
  BY <1>1, <1>4, ResendType DEF TypeOK, ServerFlags, DataFlags
<1>5. CASE ServerExits("unexpected") /\ UNCHANGED toClient /\ UNCHANGED swin
  BY <1>5 DEF ServerExits, TypeOK, ServerStates, ServerCauses
<1> QED
  BY <1>2, <1>3, <1>4, <1>5 DEF process_answer

LEMMA TypeServer ==
  ASSUME TypeOK, ServerStep, UNCHANGED rcopyVars
  PROVE  TypeOK'
<1> USE DEF rcopyVars, networkVars
<1>a. TypeOK
  OBVIOUS
<1> DEFINE RcopyPart == /\ rstate' \in RcopyStates /\ rwin' \in WindowType
                       /\ rcount' \in 0 .. MaxTries /\ out' \in Seq(Payload)
                       /\ rcause' \in RcopyCauses
<1>b. RcopyPart
  BY DEF TypeOK
<1>c. /\ toServer # <<>> => Head(toServer) \in RcopyPdu
      /\ toServer # <<>> => Tail(toServer) \in Seq(RcopyPdu)
  BY DEF TypeOK
<1>d. 0 \in 0 .. MaxTries
  BY MaxTriesAssumption
<1> HIDE DEF RcopyPart
<1>1. CASE filename
  <2>1. createPDU(0, "FILE_RESPONSE", "FILE_OK") \in ServerPdu
    BY CreatePDUType DEF ServerFlags, Payload
  <2>2. createPDU(0, "FILE_RESPONSE", "FILE_NOT_OK") \in ServerPdu
    BY CreatePDUType DEF ServerFlags, Payload
  <2>3. /\ sstate' \in ServerStates
        /\ scause' \in ServerCauses
    BY <1>1 DEF filename, TypeOK, ServerExits, ServerGoes, ServerStates, ServerCauses
  <2>4. \/ toClient' = toClient
        \/ toClient' = Append(toClient, createPDU(0, "FILE_RESPONSE", "FILE_OK"))
        \/ toClient' = Append(toClient, createPDU(0, "FILE_RESPONSE", "FILE_NOT_OK"))
    BY <1>1 DEF filename
  <2>5. \A p \in ServerPdu : Append(toClient, p) \in Seq(ServerPdu)
    BY DEF TypeOK
  <2>6. toClient' \in Seq(ServerPdu)
    BY <2>1, <2>2, <2>4, <2>5, Zenon DEF TypeOK
  <2> QED
    BY <1>1, <1>b, <1>c, <2>3, <2>6 DEF filename, TypeOK, RcopyPart
<1>2. CASE window_open_send
  <2> DEFINE pdu == createPDU(swin.current, "DATA", File[offset + 1])
  <2>1. swin \in WindowType /\ swin.current \in Nat
    BY DEF TypeOK, WindowType
  <2>2. File[offset + 1] \in Payload
    BY <1>2, FileAssumption DEF window_open_send, TypeOK, Payload
  <2>3. pdu \in ServerPdu
    BY <2>1, <2>2, CreatePDUType DEF ServerFlags, DataFlags
  <2> HIDE DEF pdu
  <2>4. toClient' = Append(toClient, pdu) /\ swin' = incrementCurrent(add_PDU(swin, pdu, swin.current))
    BY <1>2 DEF window_open_send, send_data_packet, pdu
  <2>5. swin' \in WindowType
    BY <2>1, <2>3, <2>4, AddType, IncrementCurrentType
  <2>6. toClient' \in Seq(ServerPdu)
    BY <2>3, <2>4 DEF TypeOK
  <2>7. offset' \in 0 .. Len(File)
    BY <1>2, FileAssumption DEF window_open_send, TypeOK
  <2> QED
    BY <1>2, <1>b, <2>5, <2>6, <2>7
    DEF window_open_send, TypeOK, ServerGoes, RcopyPart, ServerStates
<1>3. CASE window_open_eof \/ window_open_error \/ window_open_full \/ window_open_idle
  BY <1>3, <1>b, <1>d
  DEF window_open_eof, window_open_error, window_open_full, window_open_idle,
      TypeOK, ServerGoes, ServerExits, RcopyPart, ServerStates, ServerCauses
<1>4. CASE window_open_recv
  <2>1. /\ toClient' \in Seq(ServerPdu) /\ swin' \in WindowType
        /\ sstate' \in ServerStates /\ scause' \in ServerCauses
    BY <1>4, <1>c, AnswerType DEF window_open_recv, ServerStates
  <2> QED
    BY <1>4, <1>b, <1>c, <2>1 DEF window_open_recv, TypeOK, RcopyPart
<1>5. CASE window_closed_recv
  <2>1. /\ toClient' \in Seq(ServerPdu) /\ swin' \in WindowType
        /\ sstate' \in ServerStates /\ scause' \in ServerCauses
    BY <1>5, <1>c, AnswerType DEF window_closed_recv, ServerStates
  <2> QED
    BY <1>5, <1>b, <1>c, <1>d, <2>1 DEF window_closed_recv, TypeOK, RcopyPart
<1>6. CASE window_closed_timeout \/ end_of_file_timeout
  <2>1. swin.lower \in Nat
    BY DEF TypeOK, WindowType
  <2>2. /\ toClient' \in Seq(ServerPdu)
        /\ sstate' \in ServerStates /\ scause' \in ServerCauses
    BY <1>6, <2>1, ResendType
    DEF window_closed_timeout, end_of_file_timeout, ServerStates, ServerFlags, DataFlags
  <2>3. scount' \in 0 .. MaxTries
    BY <1>6, MaxTriesAssumption DEF window_closed_timeout, end_of_file_timeout, TypeOK
  <2> QED
    BY <1>6, <1>b, <2>2, <2>3 DEF window_closed_timeout, end_of_file_timeout, TypeOK, RcopyPart
<1>7. CASE window_closed_give_up \/ end_of_file_give_up
  BY <1>7, <1>b
  DEF window_closed_give_up, end_of_file_give_up,
      TypeOK, ServerExits, RcopyPart, ServerStates, ServerCauses
<1>8. CASE end_of_file_send
  <2> DEFINE pdu == createPDU(swin.current, "EOF", "NONE")
  <2>1. swin \in WindowType /\ swin.current \in Nat
    BY DEF TypeOK, WindowType
  <2>2. pdu \in ServerPdu
    BY <2>1, CreatePDUType DEF ServerFlags, Payload
  <2> HIDE DEF pdu
  <2>3. toClient' = Append(toClient, pdu) /\ swin' = add_PDU(swin, pdu, swin.current)
    BY <1>8 DEF end_of_file_send, send_eof, pdu
  <2>4. swin' \in WindowType
    BY <2>1, <2>2, <2>3, AddType
  <2>5. toClient' \in Seq(ServerPdu)
    BY <2>2, <2>3 DEF TypeOK
  <2> QED
    BY <1>8, <1>b, <1>d, <2>4, <2>5
    DEF end_of_file_send, TypeOK, ServerGoes, RcopyPart, ServerStates
<1>9. CASE end_of_file_recv
  <2>1. /\ toClient' \in Seq(ServerPdu) /\ swin' \in WindowType
        /\ sstate' \in ServerStates /\ scause' \in ServerCauses
    <3>1. CASE process_answer(Head(toServer), "EOF_WAIT", "EOF_WAIT", "EOF_WAIT")
      BY <1>9, <3>1, <1>c, AnswerType DEF end_of_file_recv, ServerStates
    <3>2. CASE ServerExits("acked") /\ UNCHANGED <<toClient, swin>>
      BY <3>2 DEF ServerExits, TypeOK, ServerStates, ServerCauses
    <3> QED
      BY <1>9, <3>1, <3>2 DEF end_of_file_recv
  <2> QED
    BY <1>9, <1>b, <1>c, <1>d, <2>1 DEF end_of_file_recv, TypeOK, RcopyPart
<1> QED
  BY <1>1, <1>2, <1>3, <1>4, <1>5, <1>6, <1>7, <1>8, <1>9 DEF ServerStep

\* A genuine packet stays one while the server's window only grows.
LEMMA GenuineKept ==
  ASSUME TypeOK, TypeOK', NEW pdu \in ServerPdu, Genuine(pdu),
         swin.current <= swin'.current, EofSent => EofSent'
  PROVE  Genuine(pdu)'
<1>1. /\ pdu.seq \in Nat
      /\ swin.current \in Nat /\ swin'.current \in Nat
  BY DEF ServerPdu, TypeOK, WindowType
<1> QED
  BY <1>1 DEF Genuine

\* The slots of rcopy hold packets or nothing.
LEMMA SlotType ==
  ASSUME TypeOK, NEW i \in Slots, rwin.array[i] # NULL
  PROVE  rwin.array[i] \in ServerPdu /\ rwin.array[i].seq \in Nat
<1>1. rwin.array[i] \in ServerPdu
  BY DEF TypeOK, WindowType
<1> QED
  BY <1>1 DEF ServerPdu

\* rcopy's part of the invariant survives a step that leaves rcopy alone.
LEMMA RcopyKept ==
  ASSUME TypeOK, TypeOK', RcopyInv, UNCHANGED rcopyVars,
         swin'.lower <= rwin.current,
         swin.current <= swin'.current, EofSent => EofSent',
         scause' = "acked" => rcause = "complete"
  PROVE  RcopyInv'
<1> USE DEF rcopyVars
<1>1. \A pdu \in ServerPdu : Genuine(pdu) => Genuine(pdu)'
  BY GenuineKept
<1>2. /\ rwin.current \in Nat /\ rwin.highest \in Nat
      /\ swin.current \in Nat /\ swin'.current \in Nat
      /\ swin.lower \in Nat /\ swin'.lower \in Nat
  BY DEF TypeOK, WindowType
<1>3. rwin'.current <= swin'.current /\ rwin'.highest <= swin'.current
  BY <1>2 DEF RcopyInv
<1>4. ASSUME NEW i \in Slots, rwin'.array[i] # NULL
      PROVE  Genuine(rwin.array[i])'
  <2>1. rwin' = rwin
    OBVIOUS
  <2>2. rwin.array[i] \in ServerPdu /\ Genuine(rwin.array[i])
    BY <1>4, <2>1, SlotType DEF RcopyInv, SlotSound
  <2> QED
    BY <1>1, <2>1, <2>2
<1> QED
  BY <1>3, <1>4 DEF RcopyInv, SlotSound, checkPDUValid, get_PDU

\* What is on its way to rcopy stays right when the server adds a genuine
\* packet, a stale one or nothing.
LEMMA ToClientKept ==
  ASSUME TypeOK, TypeOK', ToClientInv, UNCHANGED <<rstate, rwin>>,
         swin.current <= swin'.current, EofSent => EofSent',
         \/ UNCHANGED toClient
         \/ \E p \in ServerPdu : /\ p.flag # "FILE_RESPONSE"
                                 /\ Genuine(p)' \/ Stale(p)
                                 /\ toClient' = Append(toClient, p)
  PROVE  ToClientInv'
<1> DEFINE Fits(pdu) == \/ processPDU_ISSUE(pdu)
                        \/ Genuine(pdu)
                        \/ Stale(pdu)
                        \/ Response(pdu)
           Genuine1(pdu) == \/ /\ pdu.flag \in DataFlags
                               /\ pdu.seq < swin'.current
                               /\ pdu.payload = File[pdu.seq + 1]
                            \/ /\ pdu.flag = "EOF"
                               /\ pdu.seq = Len(File)
                               /\ EofSent'
           Fits1(pdu) == \/ processPDU_ISSUE(pdu)
                         \/ Genuine1(pdu)
                         \/ Stale(pdu)
                         \/ /\ pdu.flag = "FILE_RESPONSE"
                            /\ pdu.seq = 0
                            /\ rstate \in {"FILENAME_POLL", "DONE"} \/ swin'.current >= 1
<1>a. \A pdu \in ServerPdu : Genuine(pdu)' => Genuine1(pdu)
  BY DEF Genuine
<1>1. \A pdu \in ServerPdu : Genuine(pdu) => Genuine1(pdu)
  BY <1>a, GenuineKept
<1>2. toClient \in Seq(ServerPdu) /\ swin.current \in Nat /\ swin'.current \in Nat
  BY Types DEF TypeOK, WindowType
<1>b. ASSUME \A i \in 1 .. Len(toClient') : Fits1(toClient'[i]),
             \A i, j \in 1 .. Len(toClient') :
               toClient'[i].flag = "FILE_RESPONSE" /\ toClient'[j].flag = "FILE_RESPONSE"
               => i = j
      PROVE  ToClientInv'
  <2> HIDE DEF EofSent
  <2>1. \A i \in 1 .. Len(toClient') :
          \/ processPDU_ISSUE(toClient'[i])
          \/ Genuine1(toClient'[i])
          \/ Stale(toClient'[i])
          \/ /\ toClient'[i].flag = "FILE_RESPONSE"
             /\ toClient'[i].seq = 0
             /\ rstate' \in {"FILENAME_POLL", "DONE"} \/ swin'.current >= 1
    BY <1>b
  <2> QED
    BY <1>b, <2>1 DEF ToClientInv, processPDU_ISSUE, Stale, Response, Genuine
<1> HIDE DEF Genuine1
<1>3. \A pdu \in ServerPdu : Fits(pdu) => Fits1(pdu)
  <2>1. swin.current >= 1 => swin'.current >= 1
    BY <1>2
  <2> QED
    BY <1>1, <2>1 DEF Response
<1>4. \A i \in 1 .. Len(toClient) : toClient[i] \in ServerPdu /\ Fits(toClient[i])
  BY <1>2 DEF ToClientInv
<1> HIDE DEF Fits
<1>5. \A i \in 1 .. Len(toClient) : Fits1(toClient[i])
  BY <1>3, <1>4
<1> HIDE DEF Fits1
<1>7. CASE UNCHANGED toClient
  BY <1>5, <1>b, <1>7 DEF ToClientInv
<1>8. ASSUME NEW p \in ServerPdu, p.flag # "FILE_RESPONSE", Genuine(p)' \/ Stale(p),
             toClient' = Append(toClient, p)
      PROVE  ToClientInv'
  <2>1. /\ Len(toClient) \in Nat
        /\ Len(toClient') = Len(toClient) + 1
        /\ \A i \in 1 .. Len(toClient) : toClient'[i] = toClient[i]
        /\ toClient'[Len(toClient) + 1] = p
    BY <1>2, <1>8, AppendFacts
  <2>2. Fits1(p)
    BY <1>a, <1>8 DEF Fits1
  <2>3. \A i \in 1 .. Len(toClient') : Fits1(toClient'[i])
    BY <1>5, <2>1, <2>2
  <2>4. \A i \in 1 .. Len(toClient') :
          toClient'[i].flag = "FILE_RESPONSE" =>
            i \in 1 .. Len(toClient) /\ toClient[i].flag = "FILE_RESPONSE"
    BY <1>8, <2>1
  <2>5. \A i, j \in 1 .. Len(toClient') :
          toClient'[i].flag = "FILE_RESPONSE" /\ toClient'[j].flag = "FILE_RESPONSE"
          => i = j
    BY <2>4 DEF ToClientInv
  <2> QED
    BY <1>b, <2>3, <2>5
<1> QED
  BY <1>7, <1>8

\* What is on its way to the server stays right when the server takes the
\* oldest answer or none.
LEMMA ToServerKept ==
  ASSUME TypeOK, TypeOK', ToServerInv, UNCHANGED rcopyVars,
         EofSent => EofSent', swin.current <= swin'.current,
         sstate # "NONE", sstate' # "NONE",
         UNCHANGED toServer \/ (toServer # <<>> /\ toServer' = Tail(toServer))
  PROVE  ToServerInv'
<1> USE DEF rcopyVars
<1>1. /\ toServer \in Seq(RcopyPdu)
      /\ swin.current \in Nat /\ swin'.current \in Nat /\ rwin.current \in Nat
  BY DEF TypeOK, WindowType
<1>2. \A i \in 1 .. Len(toServer) : toServer[i] \in RcopyPdu /\ toServer[i].num \in Nat
  <2>1. \A i \in 1 .. Len(toServer) : toServer[i] \in RcopyPdu
    BY <1>1
  <2> QED
    BY <2>1 DEF RcopyPdu
<1>3. \A i \in 1 .. Len(toServer') :
        \E k \in 1 .. Len(toServer) : toServer'[i] = toServer[k]
  <2>1. CASE toServer # <<>> /\ toServer' = Tail(toServer)
    <3>1. \A i \in 1 .. Len(toServer') :
            i + 1 \in 1 .. Len(toServer) /\ toServer'[i] = toServer[i + 1]
      BY <1>1, <2>1, TailFacts
    <3> QED
      BY <3>1
  <2> QED
    BY <2>1
<1>4. ASSUME NEW k \in 1 .. Len(toServer)
      PROVE  /\ toServer[k].flag = "RR" => toServer[k].num <= rwin'.current
             /\ toServer[k].flag = "SREJ" => toServer[k].num < swin'.current
             /\ toServer[k].flag = "EOF_ACK" => EofSent' /\ rcause' = "complete"
             /\ toServer[k].flag # "FILENAME"
  BY <1>1, <1>2 DEF ToServerInv
<1> QED
  BY <1>3, <1>4 DEF ToServerInv

(***************************************************************************)
(* A step of the child: it leaves CoreInv true if it keeps its own window  *)
(* in order, does not pass rcopy and sends only genuine packets, or such   *)
(* as rcopy has already.                                                   *)
(***************************************************************************)
LEMMA ServerFrame ==
  ASSUME CoreInv, TypeOK', ServerInv', UNCHANGED rcopyVars,
         sstate # "NONE", sstate' # "NONE",
         swin.current <= swin'.current, EofSent => EofSent',
         scause' = "acked" => rcause = "complete",
         \/ UNCHANGED toClient
         \/ \E p \in ServerPdu : /\ p.flag # "FILE_RESPONSE"
                                 /\ Genuine(p)' \/ Stale(p)
                                 /\ toClient' = Append(toClient, p),
         UNCHANGED toServer \/ (toServer # <<>> /\ toServer' = Tail(toServer)),
         \/ swin'.lower = swin.lower
         \/ /\ toServer # <<>>
            /\ Head(toServer).flag = "RR"
            /\ swin'.lower = Head(toServer).num
  PROVE  CoreInv'
<1>1. ToClientInv'
  BY ToClientKept DEF CoreInv, rcopyVars
<1>2. ToServerInv'
  BY ToServerKept DEF CoreInv
<1>a. /\ toServer \in Seq(RcopyPdu)
      /\ toServer # <<>> => /\ Len(toServer) \in Nat /\ Len(toServer) >= 1
                            /\ Len(Tail(toServer)) = Len(toServer) - 1
                            /\ \A i \in 1 .. Len(Tail(toServer)) : Tail(toServer)[i] = toServer[i + 1]
                            /\ Head(toServer) = toServer[1]
  BY Types, TailFacts DEF CoreInv
<1>3. swin'.lower <= rwin.current
  <2>1. toServer # <<>> => 1 \in 1 .. Len(toServer)
    BY <1>a
  <2>2. toServer # <<>> /\ toServer[1].flag = "RR" => toServer[1].num <= rwin.current
    BY <2>1 DEF CoreInv, ToServerInv
  <2> QED
    BY <1>a, <2>2 DEF CoreInv, RcopyInv
<1>4. RcopyInv'
  BY <1>3, RcopyKept DEF CoreInv
<1>5. HandshakeInv'
  <2>1. CASE Handshake
    <3>1. \A i \in 1 .. Len(toServer) : toServer[i].flag \in {"FILENAME", "CORRUPT"}
      BY <2>1 DEF CoreInv, HandshakeInv
    <3>2. toServer # <<>> => Head(toServer).flag # "RR"
      BY <1>a, <3>1
    <3>3. swin'.lower = swin.lower
      BY <3>2
    <3>4. \A i \in 1 .. Len(toServer') : toServer'[i].flag \in {"FILENAME", "CORRUPT"}
      <4>1. CASE toServer' = toServer
        BY <3>1, <4>1
      <4>2. CASE toServer # <<>> /\ toServer' = Tail(toServer)
        <5>1. \A i \in 1 .. Len(toServer') :
                i + 1 \in 1 .. Len(toServer) /\ toServer'[i] = toServer[i + 1]
          BY <1>a, <4>2
        <5> QED
          BY <3>1, <5>1
      <4> QED
        BY <4>1, <4>2
    <3> QED
      BY <2>1, <3>3, <3>4 DEF CoreInv, HandshakeInv, Handshake, rcopyVars
  <2>2. CASE ~Handshake
    BY <2>2 DEF CoreInv, HandshakeInv, Handshake, rcopyVars
  <2> QED
    BY <2>1, <2>2
<1> QED
  BY <1>1, <1>2, <1>4, <1>5 DEF CoreInv

\* What the order of delivery adds for a step of the child: it finds every
\* packet it is to resend, and sends nothing that rcopy has.
Orderly ==
  AnswersAscend =>
    /\ sstate' # "CRASHED"
    /\ \/ UNCHANGED toClient
       \/ \E p \in ServerPdu : Genuine(p)' /\ toClient' = Append(toClient, p)

\* A genuine packet is no response.
LEMMA GenuineIsNoResponse ==
  ASSUME NEW pdu, Genuine(pdu)'
  PROVE  pdu.flag # "FILE_RESPONSE"
BY DEF Genuine, DataFlags

-----------------------------------------------------------------------------
(***************************************************************************)
(* The steps of the child.                                                 *)
(***************************************************************************)
\* What the server sends for the first time.
LEMMA DataPduType ==
  ASSUME NEW n \in Nat, n < Len(File)
  PROVE  DataPdu(n) \in ServerPdu /\ DataPdu(n).flag = "DATA"
<1>1. File[n + 1] \in Payload
  BY FileAssumption DEF Payload
<1>2. "DATA" \in ServerFlags
  BY DEF ServerFlags, DataFlags
<1> QED
  BY <1>1, <1>2, CreatePDUType DEF DataPdu, createPDU

LEMMA EofPduType == EofPdu \in ServerPdu /\ EofPdu.flag = "EOF"
<1>1. "EOF" \in ServerFlags /\ "NONE" \in Payload /\ Len(File) \in Nat
  BY FileAssumption DEF ServerFlags, Payload
<1> QED
  BY <1>1, CreatePDUType DEF EofPdu, createPDU

\* A read chunk goes into the slot of current, which was free.
LEMMA SendStep ==
  ASSUME CoreInv, TypeOK', window_open_send, UNCHANGED rcopyVars
  PROVE  CoreInv' /\ Orderly
<1>1. TypeOK /\ ServerInv
  BY DEF CoreInv
<1>2. /\ swin \in WindowType /\ swin.lower \in Nat /\ swin.upper \in Nat
      /\ swin.current \in Nat /\ WindowSize \in Nat /\ Len(File) \in Nat
      /\ offset = swin.current /\ swin.current < Len(File)
      /\ swin.current < swin.upper /\ swin.upper = swin.lower + WindowSize
      /\ swin.lower <= swin.current
      /\ sstate = "WINDOW_OPEN"
  BY <1>1, Types DEF ServerInv, window_open_send, checkWindowOpen
<1>3. PICK p \in ServerPdu : p = DataPdu(swin.current) /\ p # NULL
  BY <1>2, DataPduType, NULLAssumption
<1> DEFINE w == add_PDU(swin, p, swin.current)
<1>4. toClient' = Append(toClient, p) /\ swin' = incrementCurrent(w)
  BY <1>2, <1>3 DEF window_open_send, send_data_packet, DataPdu
<1>5. get_PDU(swin, swin.current) = NULL
  BY <1>1, <1>2 DEF ServerInv
<1>6. /\ swin'.upper = swin.upper /\ swin'.lower = swin.lower
      /\ swin'.current = swin.current + 1
      /\ swin'.array = [swin.array EXCEPT ![Index(swin.current)] = p]
  <2>1. /\ w \in WindowType /\ w.upper = swin.upper /\ w.lower = swin.lower
        /\ w.current = swin.current
        /\ w.array = [swin.array EXCEPT ![Index(swin.current)] = p]
    <3>1. ~(swin.array[Index(swin.current)] # NULL)
      BY <1>5 DEF get_PDU
    <3>2. swin \in WindowType /\ swin.current \in Nat /\ p \in ServerPdu
      BY <1>2
    <3> QED
      BY <3>1, <3>2, AddType
  <2> HIDE DEF w
  <2> QED
    BY <1>4, <2>1, IncrementCurrentType
<1>7. swin.array \in [Slots -> ServerPdu \cup {NULL}] /\ Index(swin.current) \in Slots
  BY <1>2, IndexInSlots DEF WindowType
<1>8. get_PDU(swin', swin.current) = p
  BY <1>6, <1>7 DEF get_PDU
<1>9. ASSUME NEW n \in Nat, n # swin.current,
             swin.lower <= n, n < swin.upper
      PROVE  get_PDU(swin', n) = get_PDU(swin, n)
  <2>1. Index(n) # Index(swin.current)
    BY <1>2, <1>9, IndexDistinct
  <2>2. Index(n) \in Slots
    BY IndexInSlots
  <2> QED
    BY <1>6, <1>7, <2>1, <2>2 DEF get_PDU
<1>10. \A n \in swin'.lower .. swin'.current - 1 : get_PDU(swin', n) = DataPdu(n)
  <2> SUFFICES ASSUME NEW n \in swin.lower .. swin.current
               PROVE  get_PDU(swin', n) = DataPdu(n)
    BY <1>2, <1>6
  <2>1. CASE n = swin.current
    BY <1>3, <1>8, <2>1
  <2>2. CASE n # swin.current
    <3>1. n \in Nat /\ swin.lower <= n /\ n < swin.upper /\ n \in swin.lower .. swin.current - 1
      BY <1>2, <2>2
    <3>2. get_PDU(swin, n) = DataPdu(n)
      BY <1>1, <3>1 DEF ServerInv
    <3> QED
      BY <1>9, <2>2, <3>1, <3>2
  <2> QED
    BY <2>1, <2>2
<1>11. \A n \in swin'.current .. swin'.upper - 1 : get_PDU(swin', n) = NULL
  <2> SUFFICES ASSUME NEW n \in swin.current + 1 .. swin.upper - 1
               PROVE  get_PDU(swin', n) = NULL
    BY <1>6
  <2>1. /\ n \in Nat /\ swin.lower <= n /\ n < swin.upper /\ n # swin.current
        /\ n \in swin.current .. swin.upper - 1
    BY <1>2
  <2>2. get_PDU(swin, n) = NULL
    BY <1>1, <1>2, <2>1 DEF ServerInv
  <2> QED
    BY <1>9, <2>1, <2>2
<1>12. sstate' = "WINDOW_OPEN_POLL" /\ scause' = scause /\ offset' = offset + 1
  BY DEF window_open_send, ServerGoes
<1>a. \A i \in Slots : swin'.array[i] # NULL => swin'.array[i].flag \in {"DATA", "EOF"}
  <2>1. p.flag = "DATA"
    BY <1>3 DEF DataPdu, createPDU
  <2> QED
    BY <1>1, <1>6, <1>7, <2>1 DEF ServerInv
<1>13. ServerInv'
  BY <1>1, <1>2, <1>6, <1>10, <1>11, <1>12, <1>a DEF ServerInv
<1>14. Genuine(p)'
  <2>1. p.flag = "DATA" /\ p.seq = swin.current /\ p.payload = File[swin.current + 1]
    BY <1>3 DEF DataPdu, createPDU
  <2> QED
    BY <1>2, <1>6, <2>1 DEF Genuine, DataFlags
<1>15. ~EofSent
  BY <1>2 DEF EofSent
<1>16. swin.current <= swin'.current
  BY <1>2, <1>6
<1>17. scause' = "acked" => rcause = "complete"
  BY <1>12 DEF CoreInv, RcopyInv
<1>18. CoreInv'
  BY <1>2, <1>3, <1>4, <1>6, <1>12, <1>13, <1>14, <1>15, <1>16, <1>17,
     GenuineIsNoResponse, ServerFrame DEF window_open_send
<1> HIDE DEF w
<1> QED
  BY <1>3, <1>4, <1>12, <1>14, <1>18 DEF Orderly

\* EOF takes the slot of current.
LEMMA EofStep ==
  ASSUME CoreInv, TypeOK', end_of_file_send, UNCHANGED rcopyVars
  PROVE  CoreInv' /\ Orderly
<1>1. TypeOK /\ ServerInv
  BY DEF CoreInv
<1>2. /\ swin \in WindowType /\ swin.lower \in Nat /\ swin.upper \in Nat
      /\ swin.current \in Nat /\ WindowSize \in Nat
      /\ swin.current = Len(File)
      /\ swin.current < swin.upper /\ swin.upper = swin.lower + WindowSize
      /\ swin.lower <= swin.current
      /\ sstate = "END_OF_FILE"
  BY <1>1, Types DEF ServerInv, end_of_file_send
<1>3. PICK p \in ServerPdu : p = EofPdu /\ p # NULL
  BY EofPduType, NULLAssumption
<1>4. toClient' = Append(toClient, p) /\ swin' = add_PDU(swin, p, swin.current)
  BY <1>2, <1>3 DEF end_of_file_send, send_eof, EofPdu
<1>5. get_PDU(swin, swin.current) = NULL
  BY <1>1, <1>2 DEF ServerInv
<1>6. /\ swin'.upper = swin.upper /\ swin'.lower = swin.lower
      /\ swin'.current = swin.current
      /\ swin'.array = [swin.array EXCEPT ![Index(swin.current)] = p]
  <2>1. swin.array[Index(swin.current)] = NULL
    BY <1>5 DEF get_PDU
  <2>2. swin \in WindowType /\ swin.current \in Nat
    BY <1>2
  <2>3. PICK w \in WindowType : w = add_PDU(swin, p, swin.current)
    BY <2>2, AddType
  <2>4. /\ w.upper = swin.upper /\ w.lower = swin.lower /\ w.current = swin.current
        /\ w.array = IF swin.array[Index(swin.current)] # NULL THEN swin.array
                     ELSE [swin.array EXCEPT ![Index(swin.current)] = p]
    BY <2>2, <2>3, AddType
  <2> QED
    BY <1>4, <2>1, <2>3, <2>4
<1>7. swin.array \in [Slots -> ServerPdu \cup {NULL}] /\ Index(swin.current) \in Slots
  BY <1>2, IndexInSlots DEF WindowType
<1>8. get_PDU(swin', swin.current) = EofPdu
  BY <1>3, <1>6, <1>7 DEF get_PDU
<1>9. \A n \in swin'.lower .. swin'.current - 1 : get_PDU(swin', n) = DataPdu(n)
  <2> SUFFICES ASSUME NEW n \in swin.lower .. swin.current - 1
               PROVE  get_PDU(swin', n) = DataPdu(n)
    BY <1>6
  <2>1. n \in Nat /\ swin.lower <= n /\ n < swin.upper /\ n # swin.current
    BY <1>2
  <2>2. Index(n) # Index(swin.current)
    BY <1>2, <2>1, IndexDistinct
  <2>3. Index(n) \in Slots
    BY <2>1, IndexInSlots
  <2>4. get_PDU(swin, n) = DataPdu(n)
    BY <1>1 DEF ServerInv
  <2> QED
    BY <1>6, <1>7, <2>2, <2>3, <2>4 DEF get_PDU
<1>10. sstate' = "EOF_WAIT" /\ scause' = scause /\ offset' = offset
  BY DEF end_of_file_send, ServerGoes
<1>a. \A i \in Slots : swin'.array[i] # NULL => swin'.array[i].flag \in {"DATA", "EOF"}
  BY <1>1, <1>3, <1>6, <1>7, EofPduType DEF ServerInv
<1>11. ServerInv'
  BY <1>1, <1>2, <1>6, <1>8, <1>9, <1>10, <1>a DEF ServerInv
<1>12. EofSent'
  BY <1>2, <1>6, <1>10 DEF EofSent
<1>13. Genuine(p)'
  <2>1. p.flag = "EOF" /\ p.seq = Len(File)
    BY <1>3 DEF EofPdu, createPDU
  <2> QED
    BY <1>12, <2>1 DEF Genuine
<1>14. scause' = "acked" => rcause = "complete"
  BY <1>10 DEF CoreInv, RcopyInv
<1>15. swin.current <= swin'.current
  BY <1>2, <1>6
<1>16. CoreInv'
  BY <1>2, <1>3, <1>4, <1>6, <1>10, <1>11, <1>12, <1>13, <1>14, <1>15,
     GenuineIsNoResponse, ServerFrame DEF end_of_file_send
<1> QED
  BY <1>3, <1>4, <1>10, <1>13, <1>16 DEF Orderly

\* A step that only changes the state.
LEMMA MoveStep ==
  ASSUME CoreInv, TypeOK',
         window_open_eof \/ window_open_error \/ window_open_full \/ window_open_idle
           \/ window_closed_give_up \/ end_of_file_give_up,
         UNCHANGED rcopyVars
  PROVE  CoreInv' /\ Orderly
<1>1. /\ UNCHANGED <<toClient, toServer, swin, offset>>
      /\ sstate # "NONE" /\ sstate' # "NONE"
      /\ scause' = scause \/ scause' \in {"read_error", "gave_up"}
  BY DEF window_open_eof, window_open_error, window_open_full, window_open_idle,
         window_closed_give_up, end_of_file_give_up, ServerGoes, ServerExits, networkVars
<1>2. EofSent => EofSent'
  BY DEF window_open_eof, window_open_error, window_open_full, window_open_idle,
         window_closed_give_up, end_of_file_give_up, ServerGoes, ServerExits, EofSent
<1>3. /\ swin.upper \in Nat /\ swin.current \in Nat /\ swin.lower \in Nat
      /\ swin.current <= swin.upper
  BY Types DEF CoreInv, ServerInv
<1>4. ServerInv'
  BY <1>1, <1>3
  DEF window_open_eof, window_open_error, window_open_full, window_open_idle,
      window_closed_give_up, end_of_file_give_up, ServerGoes, ServerExits, ServerInv, CoreInv,
      checkWindowOpen, get_PDU
<1>5. scause' = "acked" => rcause = "complete"
  BY <1>1 DEF CoreInv, RcopyInv
<1>6. CoreInv'
  BY <1>1, <1>2, <1>3, <1>4, <1>5, ServerFrame
<1>7. sstate' # "CRASHED"
  BY DEF window_open_eof, window_open_error, window_open_full, window_open_idle,
         window_closed_give_up, end_of_file_give_up, ServerGoes, ServerExits
<1> QED
  BY <1>1, <1>6, <1>7 DEF Orderly

\* A resend of a packet the window holds sends it again, and never crashes.
LEMMA ResendGenuine ==
  ASSUME TypeOK, ServerInv, sstate # "DONE",
         NEW n \in Nat, NEW flag \in {"RESENT_SREJ", "RESENT_TIMEOUT"}, NEW state,
         \/ swin.lower <= n /\ n < swin.current
         \/ n = swin.current /\ sstate = "EOF_WAIT",
         Resend(n, flag, state)
  PROVE  /\ \E p \in ServerPdu : /\ Genuine(p) /\ p.seq = n
                                 /\ toClient' = Append(toClient, p)
         /\ ServerGoes(state)
<1>1. /\ swin \in WindowType /\ swin.lower \in Nat /\ swin.upper \in Nat
      /\ swin.current \in Nat /\ Len(File) \in Nat /\ WindowSize \in Nat
      /\ offset = swin.current /\ swin.current <= Len(File)
  BY Types DEF ServerInv
<1>2. CASE swin.lower <= n /\ n < swin.current
  <2>1. get_PDU(swin, n) = DataPdu(n)
    BY <1>1, <1>2 DEF ServerInv
  <2>2. n < Len(File)
    BY <1>1, <1>2
  <2>3. checkPDUValid(swin, n)
    BY <2>1, <2>2, DataPduType, NULLAssumption DEF get_PDU, checkPDUValid
  <2>4. PICK p : p = createPDU(n, flag, File[n + 1])
    OBVIOUS
  <2>5. toClient' = Append(toClient, p) /\ ServerGoes(state)
    BY <2>1, <2>3, <2>4 DEF Resend, resend_data_packet, DataPdu, createPDU
  <2>6. p \in ServerPdu
    <3>1. File[n + 1] \in Payload
      BY <2>2, FileAssumption DEF Payload
    <3>2. flag \in ServerFlags
      BY DEF ServerFlags, DataFlags
    <3> QED
      BY <2>4, <3>1, <3>2, CreatePDUType
  <2>7. Genuine(p) /\ p.seq = n
    BY <1>2, <2>4 DEF Genuine, createPDU, DataFlags
  <2> QED
    BY <2>5, <2>6, <2>7
<1>3. CASE n = swin.current /\ sstate = "EOF_WAIT"
  <2>1. get_PDU(swin, n) = EofPdu /\ EofSent
    BY <1>3 DEF ServerInv, EofSent
  <2>2. checkPDUValid(swin, n)
    BY <2>1, EofPduType, NULLAssumption DEF get_PDU, checkPDUValid
  <2>3. n = Len(File)
    BY <1>3 DEF ServerInv
  <2>4. PICK p : p = createPDU(n, "EOF", "NONE")
    OBVIOUS
  <2>5. toClient' = Append(toClient, p) /\ ServerGoes(state)
    BY <2>1, <2>2, <2>4 DEF Resend, resend_data_packet, EofPdu, createPDU
  <2>6. p \in ServerPdu
    BY <2>3, <2>4, EofPduType DEF EofPdu
  <2>7. Genuine(p) /\ p.seq = n
    BY <2>1, <2>3, <2>4 DEF Genuine, createPDU
  <2> QED
    BY <2>5, <2>6, <2>7
<1> QED
  BY <1>2, <1>3

\* An RR between lower and current releases what is below it and nothing
\* else.
LEMMA CleanFacts ==
  ASSUME TypeOK, ServerInv, NEW rr \in Nat, swin.lower <= rr, rr <= swin.current,
         swin' = cleaning_up_with_RR(swin, rr)
  PROVE  /\ swin'.lower = rr
         /\ swin'.current = swin.current
         /\ swin'.upper = rr + WindowSize
         /\ \A n \in rr .. swin.current :
              n < swin.upper => get_PDU(swin', n) = get_PDU(swin, n)
         /\ (\A n \in swin.current .. swin.upper - 1 : get_PDU(swin, n) = NULL) =>
              \A n \in swin.current .. swin'.upper - 1 : get_PDU(swin', n) = NULL
         /\ \A i \in Slots : swin'.array[i] \in {NULL, swin.array[i]}
<1>1. /\ swin \in WindowType /\ swin.lower \in Nat /\ swin.upper \in Nat
      /\ swin.current \in Nat /\ WindowSize \in Nat /\ WindowSize >= 1
      /\ swin.upper = swin.lower + WindowSize /\ swin.current <= swin.upper
      /\ swin.lower <= swin.current
  BY Types DEF ServerInv
<1>2. CASE rr = swin.lower
  <2>1. swin' = swin
    BY <1>1, <1>2, CleaningType
  <2> QED
    BY <1>1, <1>2, <2>1 DEF get_PDU
<1>3. CASE swin.lower < rr
  <2>1. /\ swin'.upper = swin.upper + (rr - swin.lower)
        /\ swin'.lower = rr
        /\ swin'.current = swin.current
        /\ swin'.array = [i \in Slots |->
                            IF \E n \in swin.lower .. rr - 1 : Index(n) = i
                              THEN NULL ELSE swin.array[i]]
    BY <1>1, <1>3, CleaningType
  <2>2. swin'.upper = rr + WindowSize
    BY <1>1, <2>1
  <2>3. ASSUME NEW n \in rr .. swin.current, n < swin.upper
        PROVE  get_PDU(swin', n) = get_PDU(swin, n)
    <3>1. n \in Nat /\ Index(n) \in Slots
      BY IndexInSlots
    <3>2. ~ \E m \in swin.lower .. rr - 1 : Index(m) = Index(n)
      <4> SUFFICES ASSUME NEW m \in swin.lower .. rr - 1, Index(m) = Index(n) PROVE FALSE
        OBVIOUS
      <4>1. m \in Nat /\ m < n /\ n < m + WindowSize
        BY <1>1, <2>3
      <4> QED
        BY <3>1, <4>1, IndexInjective
    <3> QED
      BY <2>1, <3>1, <3>2 DEF get_PDU
  <2>4. ASSUME \A n \in swin.current .. swin.upper - 1 : get_PDU(swin, n) = NULL,
               NEW n \in swin.current .. swin'.upper - 1
        PROVE  get_PDU(swin', n) = NULL
    <3>1. n \in Nat /\ Index(n) \in Slots
      BY <1>1, IndexInSlots
    <3>2. CASE n < swin.upper
      <4>1. get_PDU(swin, n) = NULL
        BY <1>1, <2>4, <3>2
      <4> QED
        BY <2>1, <3>1, <4>1 DEF get_PDU
    <3>3. CASE n >= swin.upper
      <4>1. PICK m \in Int : m = n - WindowSize
        BY <1>1, <3>1
      <4>2. m \in Nat /\ m \in swin.lower .. rr - 1 /\ n = m + WindowSize
        BY <1>1, <2>2, <3>1, <3>3, <4>1
      <4>3. Index(m) = Index(n)
        BY <4>2, IndexPeriodic
      <4> QED
        BY <2>1, <3>1, <4>2, <4>3 DEF get_PDU
    <3> QED
      BY <1>1, <3>1, <3>2, <3>3
  <2>5. \A i \in Slots : swin'.array[i] \in {NULL, swin.array[i]}
    BY <2>1
  <2> QED
    BY <2>1, <2>2, <2>3, <2>4, <2>5
<1> QED
  BY <1>1, <1>2, <1>3

\* The oldest answer, whatever it is, finds the server ready for it.
LEMMA HeadAnswer ==
  ASSUME CoreInv, toServer # <<>>
  PROVE  /\ Head(toServer) \in RcopyPdu /\ Head(toServer).num \in Nat
         /\ Head(toServer).flag = "RR" => Head(toServer).num <= swin.current
         /\ Head(toServer).flag = "SREJ" => Head(toServer).num < swin.current
         /\ Head(toServer).flag = "EOF_ACK" => EofSent /\ rcause = "complete"
         /\ Head(toServer).flag = "FILENAME" => sstate = "NONE"
<1>1. /\ toServer \in Seq(RcopyPdu) /\ rwin.current \in Nat /\ swin.current \in Nat
      /\ rwin.current <= swin.current
  BY Types DEF CoreInv, RcopyInv
<1>2. Head(toServer) \in RcopyPdu /\ Head(toServer) = toServer[1] /\ 1 \in 1 .. Len(toServer)
  BY <1>1, TailFacts
<1>3. Head(toServer).num \in Nat
  BY <1>2 DEF RcopyPdu
<1>4. /\ toServer[1].flag = "RR" => toServer[1].num <= rwin.current
      /\ toServer[1].flag = "SREJ" => toServer[1].num < swin.current
      /\ toServer[1].flag = "EOF_ACK" => EofSent /\ rcause = "complete"
      /\ toServer[1].flag = "FILENAME" => sstate = "NONE"
  BY <1>2 DEF CoreInv, ToServerInv
<1>5. toServer[1].flag = "RR" => toServer[1].num <= swin.current
  BY <1>1, <1>2, <1>3, <1>4
<1> QED
  BY <1>2, <1>3, <1>4, <1>5

\* A resend of a packet of the window leaves the server as it was.
LEMMA ResendStep ==
  ASSUME CoreInv, TypeOK', UNCHANGED <<rcopyVars, swin, offset>>,
         NEW n \in Nat, NEW flag \in {"RESENT_SREJ", "RESENT_TIMEOUT"},
         NEW state \in {"WINDOW_OPEN", "WINDOW_CLOSED", "EOF_WAIT"},
         sstate \in {"WINDOW_OPEN_POLL", "WINDOW_CLOSED", "EOF_WAIT"},
         sstate = "EOF_WAIT" <=> state = "EOF_WAIT",
         state = "WINDOW_CLOSED" => sstate = "WINDOW_CLOSED",
         \/ swin.lower <= n /\ n < swin.current
         \/ n = swin.current /\ sstate = "EOF_WAIT",
         UNCHANGED toServer \/ (toServer # <<>> /\ toServer' = Tail(toServer)),
         Resend(n, flag, state)
  PROVE  CoreInv' /\ Orderly
<1>1. /\ \E p \in ServerPdu : Genuine(p) /\ toClient' = Append(toClient, p)
      /\ sstate' = state /\ scause' = scause
  <2>1. TypeOK /\ ServerInv
    BY DEF CoreInv
  <2>2. /\ \E p \in ServerPdu : Genuine(p) /\ toClient' = Append(toClient, p)
        /\ ServerGoes(state)
    BY <2>1, ResendGenuine
  <2> QED
    BY <2>2 DEF ServerGoes
<1>2. ServerInv'
  BY <1>1 DEF CoreInv, ServerInv, get_PDU
<1>3. EofSent => EofSent'
  BY <1>1 DEF EofSent
<1>4. swin.current \in Nat
  BY Types DEF CoreInv
<1>5. \A p \in ServerPdu : Genuine(p) => Genuine(p)'
  BY <1>3, <1>4, GenuineKept DEF CoreInv
<1>6. scause' = "acked" => rcause = "complete"
  BY <1>1 DEF CoreInv, RcopyInv
<1>7. sstate # "NONE" /\ sstate' # "NONE" /\ swin.current <= swin'.current
  BY <1>1, <1>4
<1>8. PICK p \in ServerPdu : Genuine(p)' /\ toClient' = Append(toClient, p)
  BY <1>1, <1>5
<1>9. CoreInv'
  BY <1>2, <1>3, <1>6, <1>7, <1>8, GenuineIsNoResponse, ServerFrame
<1> QED
  BY <1>1, <1>8, <1>9 DEF Orderly

\* An SREJ that comes after the RR that released its packet: the slot is empty
\* and the child crashes, or holds another packet, which goes out under the
\* number that rcopy has passed.
LEMMA StaleStep ==
  ASSUME CoreInv, TypeOK', UNCHANGED <<rcopyVars, swin, offset>>,
         NEW n \in Nat, n < swin.lower,
         NEW state \in {"WINDOW_OPEN", "WINDOW_CLOSED", "EOF_WAIT"},
         sstate \in {"WINDOW_OPEN_POLL", "WINDOW_CLOSED", "EOF_WAIT"},
         sstate = "EOF_WAIT" <=> state = "EOF_WAIT",
         state = "WINDOW_CLOSED" => sstate = "WINDOW_CLOSED",
         toServer # <<>>, toServer' = Tail(toServer),
         Resend(n, "RESENT_SREJ", state)
  PROVE  CoreInv'
<1>1. /\ swin \in WindowType /\ swin.lower \in Nat /\ swin.current \in Nat
      /\ rwin.current \in Nat /\ swin.lower <= rwin.current
      /\ swin.array \in [Slots -> ServerPdu \cup {NULL}] /\ Index(n) \in Slots
  BY Types, IndexInSlots DEF CoreInv, RcopyInv, WindowType
<1>2. scause' = scause /\ sstate' \in {state, "CRASHED"}
  BY DEF Resend, ServerGoes
<1>3. ServerInv'
  BY <1>2 DEF CoreInv, ServerInv, get_PDU
<1>4. EofSent => EofSent'
  BY <1>2 DEF EofSent
<1>5. scause' = "acked" => rcause = "complete"
  BY <1>2 DEF CoreInv, RcopyInv
<1>6. sstate # "NONE" /\ sstate' # "NONE" /\ swin.current <= swin'.current
  BY <1>1, <1>2
<1>7. \/ UNCHANGED toClient
      \/ \E p \in ServerPdu : /\ p.flag # "FILE_RESPONSE"
                              /\ Stale(p)
                              /\ toClient' = Append(toClient, p)
  <2>1. CASE ~checkPDUValid(swin, n)
    BY <2>1 DEF Resend
  <2>2. CASE checkPDUValid(swin, n)
    <3>1. PICK pdu \in ServerPdu : pdu = get_PDU(swin, n)
      BY <1>1, <2>2 DEF get_PDU, checkPDUValid
    <3>2. pdu.flag \in {"DATA", "EOF"} /\ pdu.payload \in Payload
      BY <1>1, <2>2, <3>1 DEF CoreInv, ServerInv, get_PDU, checkPDUValid, ServerPdu
    <3>3. PICK flag \in {"RESENT_SREJ", "EOF"} :
            flag = IF pdu.flag = "DATA" THEN "RESENT_SREJ" ELSE pdu.flag
      BY <3>2
    <3>4. PICK p \in ServerPdu : p = createPDU(n, flag, pdu.payload)
      BY <3>2, CreatePDUType DEF ServerFlags, DataFlags
    <3>5. p.flag = flag /\ p.seq = n
      BY <3>4 DEF createPDU
    <3>6. n < rwin.current
      BY <1>1
    <3>7. toClient' = Append(toClient, p)
      BY <2>2, <3>1, <3>3, <3>4 DEF Resend, resend_data_packet
    <3> QED
      BY <3>5, <3>6, <3>7 DEF Stale
  <2> QED
    BY <2>1, <2>2
<1> QED
  BY <1>3, <1>4, <1>5, <1>6, <1>7, ServerFrame

\* An answer other than EOF_ACK, in the three states that wait for one.
LEMMA AnswerStep ==
  ASSUME CoreInv, TypeOK', UNCHANGED <<rcopyVars, offset>>,
         sstate \in {"WINDOW_OPEN_POLL", "WINDOW_CLOSED", "EOF_WAIT"},
         NEW a \in {"WINDOW_OPEN", "WINDOW_CLOSED", "EOF_WAIT"},
         NEW b \in {"WINDOW_OPEN", "EOF_WAIT"},
         sstate = "EOF_WAIT" <=> a = "EOF_WAIT",
         sstate = "EOF_WAIT" <=> b = "EOF_WAIT",
         a = "WINDOW_CLOSED" => sstate = "WINDOW_CLOSED",
         toServer # <<>>, toServer' = Tail(toServer),
         Head(toServer).flag # "EOF_ACK",
         process_answer(Head(toServer), a, b, a)
  PROVE  CoreInv' /\ Orderly
<1> DEFINE pdu == Head(toServer)
<1>1. /\ pdu.num \in Nat
      /\ pdu.flag \in {"RR", "SREJ", "CORRUPT"}
      /\ pdu.flag = "RR" => pdu.num <= swin.current
      /\ pdu.flag = "SREJ" => pdu.num < swin.current
  BY HeadAnswer DEF RcopyPdu, RcopyFlags
<1>2. swin.current \in Nat /\ swin.lower \in Nat /\ swin.upper \in Nat
  BY Types DEF CoreInv
<1>3. CASE UNCHANGED <<toClient, swin>> /\ sstate' \in {a, b} /\ scause' = scause
  <2>1. ServerInv'
    BY <1>3 DEF CoreInv, ServerInv, get_PDU
  <2>2. EofSent => EofSent'
    BY <1>3 DEF EofSent
  <2>3. scause' = "acked" => rcause = "complete"
    BY <1>3 DEF CoreInv, RcopyInv
  <2>4. sstate # "NONE" /\ sstate' # "NONE" /\ swin.current <= swin'.current
    BY <1>2, <1>3
  <2>5. CoreInv'
    BY <1>3, <2>1, <2>2, <2>3, <2>4, ServerFrame
  <2> QED
    BY <1>3, <2>5 DEF Orderly
<1>4. CASE pdu.flag = "SREJ"
  <2>1. Resend(pdu.num, "RESENT_SREJ", a) /\ UNCHANGED swin
    BY <1>4 DEF process_answer, processPDU_ISSUE
  <2>2. AnswersAscend => swin.lower <= pdu.num
    <3>1. toServer \in Seq(RcopyPdu)
      BY Types DEF CoreInv
    <3>2. 1 \in 1 .. Len(toServer) /\ pdu = toServer[1]
      BY <3>1, TailFacts
    <3> QED
      BY <1>4, <3>2 DEF AnswersAscend
  <2> HIDE DEF pdu
  <2>3. CASE swin.lower <= pdu.num
    <3>1. pdu.num < swin.current /\ pdu.num \in Nat
      BY <1>1, <1>4
    <3> QED
      BY <2>1, <2>3, <3>1, ResendStep
  <2>4. CASE pdu.num < swin.lower
    <3>1. CoreInv'
      BY <1>1, <2>1, <2>4, StaleStep
    <3>2. ~AnswersAscend
      BY <1>1, <1>2, <2>2, <2>4
    <3> QED
      BY <3>1, <3>2 DEF Orderly
  <2> QED
    BY <1>1, <1>2, <2>3, <2>4
<1>5. CASE pdu.flag = "RR"
  <2>1. /\ swin' = cleaning_up_with_RR(swin, pdu.num)
        /\ sstate' = b /\ scause' = scause /\ UNCHANGED toClient
    BY <1>5 DEF process_answer, ServerGoes, processPDU_ISSUE
  <2>a. CASE pdu.num < swin.lower
    <3>1. swin \in WindowType /\ pdu.num \in Nat /\ swin.lower >= pdu.num
      BY <1>1, <1>2, <2>a, Types DEF CoreInv
    <3>2. swin' = swin
      BY <2>1, <3>1, CleaningType
    <3> QED
      BY <1>3, <2>1, <3>2
  <2>b. CASE swin.lower <= pdu.num
    <3> HIDE DEF pdu
    <3>2. /\ swin'.lower = pdu.num
          /\ swin'.current = swin.current
          /\ swin'.upper = pdu.num + WindowSize
          /\ \A n \in pdu.num .. swin.current :
               n < swin.upper => get_PDU(swin', n) = get_PDU(swin, n)
          /\ (\A n \in swin.current .. swin.upper - 1 : get_PDU(swin, n) = NULL) =>
               \A n \in swin.current .. swin'.upper - 1 : get_PDU(swin', n) = NULL
          /\ \A i \in Slots : swin'.array[i] \in {NULL, swin.array[i]}
      BY <1>1, <1>5, <2>1, <2>b, CleanFacts DEF CoreInv
    <3>3. /\ swin.upper = swin.lower + WindowSize /\ swin.current <= swin.upper
          /\ WindowSize \in Nat /\ swin.lower <= pdu.num /\ pdu.num <= swin.current
          /\ pdu.num \in Nat
      BY <1>1, <1>5, <2>b, Types DEF CoreInv, ServerInv
    <3>4. \A n \in swin'.lower .. swin'.current - 1 : get_PDU(swin', n) = DataPdu(n)
      <4> SUFFICES ASSUME NEW n \in pdu.num .. swin.current - 1
                   PROVE  get_PDU(swin', n) = DataPdu(n)
        BY <3>2
      <4>1. /\ n \in pdu.num .. swin.current /\ n < swin.upper
            /\ n \in swin.lower .. swin.current - 1
        BY <1>2, <3>3
      <4>2. get_PDU(swin, n) = DataPdu(n)
        BY <4>1 DEF CoreInv, ServerInv
      <4> QED
        BY <3>2, <4>1, <4>2
    <3>5. sstate = "EOF_WAIT" => get_PDU(swin', swin'.current) = EofPdu
      BY <1>2, <3>2, <3>3 DEF CoreInv, ServerInv
    <3>6. sstate # "EOF_WAIT" =>
            \A n \in swin'.current .. swin'.upper - 1 : get_PDU(swin', n) = NULL
      BY <3>2 DEF CoreInv, ServerInv
    <3>7. swin.upper <= swin'.upper
      BY <1>2, <3>2, <3>3
    <3>8. ServerInv'
      <4>1. /\ swin'.upper = swin'.lower + WindowSize
            /\ swin'.lower <= swin'.current /\ swin'.current <= swin'.upper
            /\ swin'.current = offset'
        BY <1>2, <3>2, <3>3, <3>7 DEF CoreInv, ServerInv
      <4>2. sstate = "EOF_WAIT" => swin'.current = Len(File) /\ swin'.current < swin'.upper
        BY <1>2, <3>2, <3>3, <3>7 DEF CoreInv, ServerInv
      <4>3. scause # "unexpected"
        BY DEF CoreInv, ServerInv
      <4>4. \A i \in Slots : swin'.array[i] # NULL => swin'.array[i].flag \in {"DATA", "EOF"}
        BY <3>2 DEF CoreInv, ServerInv
      <4> QED
        BY <2>1, <3>4, <3>5, <3>6, <4>1, <4>2, <4>3, <4>4 DEF ServerInv
    <3>9. EofSent => EofSent'
      BY <1>2, <2>1, <3>2, <3>3, <3>7 DEF EofSent
    <3>10. scause' = "acked" => rcause = "complete"
      BY <2>1 DEF CoreInv, RcopyInv
    <3>11. sstate # "NONE" /\ sstate' # "NONE" /\ swin.current <= swin'.current
      BY <1>2, <2>1, <3>2
    <3>12. toServer # <<>> /\ Head(toServer).flag = "RR" /\ swin'.lower = Head(toServer).num
      BY <1>5, <3>2 DEF pdu
    <3>13. CoreInv'
      BY <2>1, <3>8, <3>9, <3>10, <3>11, <3>12, ServerFrame
    <3> QED
      BY <2>1, <3>13 DEF Orderly
  <2> QED
    BY <1>1, <1>2, <2>a, <2>b
<1>6. CASE pdu.flag = "CORRUPT"
  <2>1. UNCHANGED <<toClient, swin>> /\ sstate' = a /\ scause' = scause
    BY <1>6 DEF process_answer, ServerGoes
  <2> QED
    BY <1>3, <2>1
<1> QED
  BY <1>1, <1>4, <1>5, <1>6

\* The reads and the timeouts of the three states.
LEMMA ReadStep ==
  ASSUME CoreInv, TypeOK', window_open_recv \/ window_closed_recv \/ end_of_file_recv,
         UNCHANGED rcopyVars
  PROVE  CoreInv' /\ Orderly
<1>1. CASE window_open_recv
  <2>1. Head(toServer).flag # "EOF_ACK"
    BY <1>1, HeadAnswer DEF window_open_recv, EofSent
  <2> QED
    BY <1>1, <2>1, AnswerStep DEF window_open_recv
<1>2. CASE window_closed_recv
  <2>1. Head(toServer).flag # "EOF_ACK"
    BY <1>2, HeadAnswer DEF window_closed_recv, EofSent
  <2> QED
    BY <1>2, <2>1, AnswerStep DEF window_closed_recv
<1>3. CASE end_of_file_recv /\ Head(toServer).flag # "EOF_ACK"
  BY <1>3, AnswerStep DEF end_of_file_recv
<1>4. CASE end_of_file_recv /\ Head(toServer).flag = "EOF_ACK"
  <2>1. /\ sstate' = "DONE" /\ scause' = "acked" /\ sstate = "EOF_WAIT"
        /\ UNCHANGED <<toClient, swin, offset>>
        /\ toServer # <<>> /\ toServer' = Tail(toServer)
    BY <1>4 DEF end_of_file_recv, ServerExits
  <2>2. rcause = "complete"
    BY <1>4, <2>1, HeadAnswer
  <2>3. ServerInv'
    BY <2>1 DEF CoreInv, ServerInv, get_PDU
  <2>4. EofSent => EofSent'
    BY <2>1 DEF EofSent
  <2>5. sstate # "NONE" /\ sstate' # "NONE" /\ swin.current <= swin'.current
    BY <2>1, Types DEF CoreInv
  <2>6. CoreInv'
    BY <2>1, <2>2, <2>3, <2>4, <2>5, ServerFrame
  <2> QED
    BY <2>1, <2>6 DEF Orderly
<1> QED
  BY <1>1, <1>2, <1>3, <1>4

LEMMA TimeoutStep ==
  ASSUME CoreInv, TypeOK', window_closed_timeout \/ end_of_file_timeout,
         UNCHANGED rcopyVars
  PROVE  CoreInv' /\ Orderly
<1>1. /\ swin.lower \in Nat /\ swin.current \in Nat /\ swin.upper \in Nat
      /\ WindowSize \in Nat /\ WindowSize >= 1
      /\ swin.upper = swin.lower + WindowSize /\ swin.lower <= swin.current
  BY Types DEF CoreInv, ServerInv
<1>2. CASE window_closed_timeout
  <2>1. swin.lower < swin.current /\ sstate = "WINDOW_CLOSED"
    BY <1>1, <1>2 DEF window_closed_timeout, CoreInv, ServerInv
  <2> QED
    BY <1>1, <1>2, <2>1, ResendStep DEF window_closed_timeout
<1>3. CASE end_of_file_timeout
  BY <1>1, <1>3, ResendStep DEF end_of_file_timeout
<1> QED
  BY <1>2, <1>3

\* The fork, when the FILENAME packet arrives.
LEMMA FilenameFacts ==
  ASSUME CoreInv, filename
  PROVE  /\ sstate = "NONE" /\ NoChild /\ toClient = <<>> /\ Len(toServer) <= 1
         /\ toServer \in Seq(RcopyPdu) /\ toServer # <<>> /\ toServer' = <<>>
         /\ UNCHANGED <<swin, scount, offset>>
         /\ sstate' \in {"WINDOW_OPEN", "DONE"} /\ scause' \in {"none", "bad_setup", "bad_file"}
         /\ rstate \in {"FILENAME_POLL", "DONE"}
         /\ \/ toClient' = <<>>
            \/ \E p : /\ p.flag = "FILE_RESPONSE" /\ p.seq = 0
                      /\ toClient' = Append(<<>>, p)
<1>1. /\ sstate = "NONE" /\ NoChild /\ toClient = <<>> /\ Len(toServer) <= 1
      /\ toServer \in Seq(RcopyPdu) /\ toServer # <<>> /\ toServer' = Tail(toServer)
      /\ UNCHANGED <<swin, scount, offset>>
      /\ sstate' \in {"WINDOW_OPEN", "DONE"} /\ scause' \in {"none", "bad_setup", "bad_file"}
  BY Types DEF CoreInv, HandshakeInv, NoChild, filename, ServerExits, ServerGoes
<1>2. toServer' = <<>>
  BY <1>1
<1>3. rstate # "START" /\ rstate # "FILENAME" /\ rstate \in {"FILENAME_POLL", "DONE"}
  BY <1>1 DEF CoreInv, HandshakeInv
<1>4. \/ toClient' = <<>>
      \/ \E p : /\ p.flag = "FILE_RESPONSE" /\ p.seq = 0
                /\ toClient' = Append(<<>>, p)
  BY <1>1 DEF filename, createPDU
<1> QED
  BY <1>1, <1>2, <1>3, <1>4

LEMMA FilenameStep ==
  ASSUME CoreInv, TypeOK', filename, UNCHANGED rcopyVars
  PROVE  CoreInv'
<1>1. /\ sstate = "NONE" /\ NoChild
      /\ toServer' = <<>>
      /\ UNCHANGED <<swin, scount, offset>>
      /\ sstate' \in {"WINDOW_OPEN", "DONE"} /\ scause' \in {"none", "bad_setup", "bad_file"}
      /\ rstate \in {"FILENAME_POLL", "DONE"}
      /\ \/ toClient' = <<>>
         \/ \E p : /\ p.flag = "FILE_RESPONSE" /\ p.seq = 0
                   /\ toClient' = Append(<<>>, p)
  BY FilenameFacts
<1>4. ~EofSent
  BY <1>1 DEF EofSent
<1>5. ServerInv'
  BY <1>1 DEF CoreInv, ServerInv, get_PDU
<1>6. HandshakeInv'
  BY <1>1 DEF CoreInv, HandshakeInv, Handshake, rcopyVars
<1>7. ToServerInv'
  BY <1>1 DEF ToServerInv
<1>8. RcopyInv'
  <2>1. swin.current \in Nat
    BY Types DEF CoreInv
  <2>2. swin'.lower <= rwin.current /\ swin.current <= swin'.current
    BY <1>1, <2>1 DEF CoreInv, RcopyInv
  <2> QED
    BY <1>1, <1>4, <2>2, RcopyKept DEF CoreInv
<1>9. ToClientInv'
  <2>2. CASE toClient' = <<>>
    BY <2>2 DEF ToClientInv
  <2>3. ASSUME NEW p, p.flag = "FILE_RESPONSE", p.seq = 0, toClient' = Append(<<>>, p)
        PROVE  ToClientInv'
    <3>1. Len(toClient') = 1 /\ toClient'[1] = p
      BY <2>3
    <3>2. rstate' \in {"FILENAME_POLL", "DONE"}
      BY <1>1 DEF rcopyVars
    <3>3. \A i \in 1 .. Len(toClient') :
            i = 1 /\ toClient'[i].flag = "FILE_RESPONSE" /\ toClient'[i].seq = 0
      BY <2>3, <3>1
    <3> QED
      BY <3>2, <3>3 DEF ToClientInv, Response
  <2> QED
    BY <1>1, <2>2, <2>3
<1> QED
  BY <1>5, <1>6, <1>7, <1>8, <1>9 DEF CoreInv

LEMMA ServerInductive ==
  ASSUME CoreInv, TypeOK', ServerStep, UNCHANGED rcopyVars
  PROVE  CoreInv' /\ (filename \/ Orderly)
BY FilenameStep, SendStep, EofStep, MoveStep, ReadStep, TimeoutStep DEF ServerStep

-----------------------------------------------------------------------------
(***************************************************************************)
(* The child as one of two that serve the same rcopy: its counters and     *)
(* what it sends keep to SideInv, whatever the other child does.           *)
(***************************************************************************)
\* A step sends nothing, or one packet with a number below rcopy's upper.
SentFits ==
  \/ UNCHANGED toClient
  \/ \E p \in ServerPdu : p.seq < rwin.upper /\ toClient' = Append(toClient, p)

AnswersTaken ==
  \/ UNCHANGED toServer
  \/ toServer # <<>> /\ toServer' = Tail(toServer)

CountersKept ==
  /\ swin'.upper = swin'.lower + WindowSize
  /\ swin'.lower <= rwin.current
  /\ sstate' \in {"END_OF_FILE", "EOF_WAIT"} => swin'.current < swin'.upper

LEMMA SideFrame ==
  ASSUME TypeOK, SideInv, UNCHANGED rcopyVars, SentFits, AnswersTaken, CountersKept
  PROVE  SideInv'
<1> USE DEF rcopyVars
<1>1. toClient \in Seq(ServerPdu) /\ toServer \in Seq(RcopyPdu)
  BY Types
<1>2. ASSUME NEW i \in 1 .. Len(toClient') PROVE toClient'[i].seq < rwin.upper
  <2>1. CASE UNCHANGED toClient
    BY <1>2, <2>1 DEF SideInv
  <2>2. CASE \E p \in ServerPdu : p.seq < rwin.upper /\ toClient' = Append(toClient, p)
    <3>1. PICK p \in ServerPdu : p.seq < rwin.upper /\ toClient' = Append(toClient, p)
      BY <2>2
    <3>2. /\ Len(toClient) \in Nat
          /\ Len(toClient') = Len(toClient) + 1
          /\ \A k \in 1 .. Len(toClient) : toClient'[k] = toClient[k]
          /\ toClient'[Len(toClient) + 1] = p
      BY <1>1, <3>1, AppendFacts
    <3>3. CASE i = Len(toClient) + 1
      BY <3>1, <3>2, <3>3
    <3>4. CASE i # Len(toClient) + 1
      <4>1. i \in 1 .. Len(toClient)
        BY <3>2, <3>4
      <4> QED
        BY <3>2, <4>1 DEF SideInv
    <3> QED
      BY <3>3, <3>4
  <2> QED
    BY <2>1, <2>2 DEF SentFits
<1>3. ASSUME NEW i \in 1 .. Len(toServer')
      PROVE  /\ toServer'[i].flag = "RR" => toServer'[i].num <= rwin.current
             /\ toServer'[i].flag = "SREJ" => toServer'[i].num < rwin.upper
  <2>1. CASE UNCHANGED toServer
    BY <1>3, <2>1 DEF SideInv
  <2>2. CASE toServer # <<>> /\ toServer' = Tail(toServer)
    <3>1. /\ Len(toServer) \in Nat
          /\ Len(toServer') = Len(toServer) - 1
          /\ \A k \in 1 .. Len(toServer') : toServer'[k] = toServer[k + 1]
      BY <1>1, <2>2, TailFacts
    <3>2. i + 1 \in 1 .. Len(toServer) /\ toServer'[i] = toServer[i + 1]
      BY <3>1
    <3> QED
      BY <3>2 DEF SideInv
  <2> QED
    BY <2>1, <2>2 DEF AnswersTaken
<1> QED
  BY <1>2, <1>3 DEF SideInv, CountersKept

\* What SideInv and BufferInv say of the numbers.
LEMMA SideFacts ==
  ASSUME TypeOK, SideInv, BufferInv
  PROVE  /\ swin \in WindowType /\ rwin \in WindowType
         /\ swin.lower \in Nat /\ swin.upper \in Nat /\ swin.current \in Nat
         /\ rwin.current \in Nat /\ rwin.upper \in Nat
         /\ WindowSize \in Nat /\ WindowSize >= 1
         /\ swin.upper = swin.lower + WindowSize
         /\ rwin.upper = rwin.current + WindowSize
         /\ swin.lower <= rwin.current
         /\ swin.lower < rwin.upper /\ 0 < rwin.upper
         /\ swin.upper <= rwin.upper
<1>1. /\ swin \in WindowType /\ rwin \in WindowType
      /\ swin.lower \in Nat /\ swin.upper \in Nat /\ swin.current \in Nat
      /\ rwin.current \in Nat /\ rwin.upper \in Nat
      /\ WindowSize \in Nat /\ WindowSize >= 1
  BY Types
<1>2. /\ swin.upper = swin.lower + WindowSize
      /\ rwin.upper = rwin.current + WindowSize
      /\ swin.lower <= rwin.current
  BY DEF SideInv, BufferInv
<1> QED
  BY <1>1, <1>2

\* A packet goes out again, or the child crashes.
LEMMA ResendFits ==
  ASSUME TypeOK, NEW n \in Nat, n < rwin.upper,
         NEW flag \in ServerFlags, NEW state, Resend(n, flag, state)
  PROVE  SentFits /\ sstate' \in {state, "CRASHED"}
<1>1. CASE checkPDUValid(swin, n)
  <2>1. PICK pdu : pdu = get_PDU(swin, n)
    OBVIOUS
  <2>2. Index(n) \in Slots
    BY IndexInSlots
  <2>3. pdu \in ServerPdu
    BY <1>1, <2>1, <2>2 DEF TypeOK, WindowType, get_PDU, checkPDUValid
  <2>4. PICK f : f = IF pdu.flag = "DATA" THEN flag ELSE pdu.flag
    OBVIOUS
  <2>5. f \in ServerFlags /\ pdu.payload \in Payload
    BY <2>3, <2>4 DEF ServerPdu
  <2>6. PICK p : p = createPDU(n, f, pdu.payload)
    OBVIOUS
  <2>7. p \in ServerPdu /\ p.seq = n
    BY <2>5, <2>6, CreatePDUType DEF createPDU
  <2>8. toClient' = Append(toClient, p) /\ sstate' = state
    BY <1>1, <2>1, <2>4, <2>6 DEF Resend, resend_data_packet, ServerGoes
  <2> QED
    BY <2>7, <2>8 DEF SentFits
<1>2. CASE ~checkPDUValid(swin, n)
  BY <1>2 DEF Resend, ServerGoes, SentFits
<1> QED
  BY <1>1, <1>2

\* An answer moves the window, or has a packet sent again.
LEMMA AnswerFits ==
  ASSUME TypeOK, SideInv, BufferInv, UNCHANGED rcopyVars,
         toServer # <<>>,
         NEW a, NEW b, NEW c, process_answer(Head(toServer), a, b, c),
         {a, b, c} \cap {"END_OF_FILE", "EOF_WAIT"} = {} \/ sstate = "EOF_WAIT"
  PROVE  SentFits /\ CountersKept
<1> DEFINE pdu == Head(toServer)
<1>1. /\ swin \in WindowType /\ swin.lower \in Nat /\ swin.upper \in Nat
      /\ swin.current \in Nat /\ rwin.current \in Nat /\ rwin.upper \in Nat
      /\ WindowSize \in Nat /\ swin.upper = swin.lower + WindowSize
      /\ swin.lower <= rwin.current
  BY SideFacts
<1>2. pdu \in RcopyPdu /\ pdu = toServer[1] /\ 1 \in 1 .. Len(toServer)
  BY Types, TailFacts
<1>3. /\ pdu.num \in Nat
      /\ pdu.flag = "RR" => pdu.num <= rwin.current
      /\ pdu.flag = "SREJ" => pdu.num < rwin.upper
  BY <1>2 DEF RcopyPdu, SideInv
<1> HIDE DEF pdu
<1>4. sstate = "EOF_WAIT" => swin.current < swin.upper
  BY DEF SideInv
<1>5. CASE ServerGoes(a) /\ UNCHANGED <<toClient, swin>>
  BY <1>1, <1>4, <1>5 DEF SentFits, CountersKept, ServerGoes
<1>6. CASE /\ pdu.flag = "RR" /\ swin' = cleaning_up_with_RR(swin, pdu.num)
           /\ ServerGoes(b) /\ UNCHANGED toClient
  <2>1. /\ swin'.upper = swin'.lower + WindowSize
        /\ swin'.lower <= rwin.current
        /\ swin'.current = swin.current
        /\ swin'.upper \in Nat /\ swin.upper <= swin'.upper
    <3>1. CASE swin.lower >= pdu.num
      <4>1. swin' = swin
        BY <1>1, <1>3, <1>6, <3>1, CleaningType
      <4> QED
        BY <1>1, <4>1
    <3>2. CASE swin.lower < pdu.num
      <4>1. /\ swin'.upper = swin.upper + (pdu.num - swin.lower)
            /\ swin'.lower = pdu.num /\ swin'.current = swin.current
        BY <1>1, <1>3, <1>6, <3>2, CleaningType
      <4> QED
        BY <1>1, <1>3, <1>6, <3>2, <4>1
    <3> QED
      BY <1>1, <1>3, <3>1, <3>2
  <2>2. swin.current < swin.upper => swin'.current < swin'.upper
    BY <1>1, <2>1
  <2> QED
    BY <1>4, <1>6, <2>1, <2>2 DEF SentFits, CountersKept, ServerGoes
<1>7. CASE pdu.flag = "SREJ" /\ Resend(pdu.num, "RESENT_SREJ", c) /\ UNCHANGED swin
  <2>1. SentFits /\ sstate' \in {c, "CRASHED"}
    BY <1>3, <1>7, ResendFits DEF ServerFlags, DataFlags
  <2> QED
    BY <1>1, <1>4, <1>7, <2>1 DEF CountersKept
<1>8. CASE ServerExits("unexpected") /\ UNCHANGED toClient /\ UNCHANGED swin
  BY <1>1, <1>8 DEF SentFits, CountersKept, ServerExits
<1> QED
  BY <1>5, <1>6, <1>7, <1>8 DEF process_answer, pdu

\* Storing a packet that was sent moves current and nothing else.
LEMMA SendLimits ==
  ASSUME NEW w \in WindowType, NEW p \in ServerPdu, NEW v,
         v = incrementCurrent(add_PDU(w, p, w.current))
  PROVE  v.upper = w.upper /\ v.lower = w.lower
<1>1. w.current \in Nat
  BY DEF WindowType
<1>2. PICK u \in WindowType : u = add_PDU(w, p, w.current) /\ u.upper = w.upper /\ u.lower = w.lower
  BY <1>1, AddType
<1> QED
  BY <1>2, IncrementCurrentType

\* The window may get a packet, but its limits stay.
LEMMA LimitsStay ==
  ASSUME TypeOK, SideInv, swin'.upper = swin.upper, swin'.lower = swin.lower,
         \/ sstate' \notin {"END_OF_FILE", "EOF_WAIT"}
         \/ swin.current < swin.upper /\ swin'.current = swin.current
  PROVE  CountersKept
<1>1. swin'.upper = swin'.lower + WindowSize /\ swin'.lower <= rwin.current
  BY DEF SideInv
<1>2. CASE sstate' \notin {"END_OF_FILE", "EOF_WAIT"}
  BY <1>1, <1>2, Zenon DEF CountersKept
<1>3. CASE swin.current < swin.upper /\ swin'.current = swin.current
  BY <1>1, <1>3 DEF CountersKept
<1> QED
  BY <1>2, <1>3

\* A step that sends nothing and leaves the window alone.
LEMMA NothingDone ==
  ASSUME TypeOK, SideInv, UNCHANGED <<toClient, toServer, swin>>,
         sstate' \notin {"END_OF_FILE", "EOF_WAIT"} \/ swin.current < swin.upper
  PROVE  SentFits /\ AnswersTaken /\ CountersKept
<1>1. CountersKept
  BY LimitsStay
<1> QED
  BY <1>1 DEF SentFits, AnswersTaken

\* The steps of the child, one by one.
LEMMA SideServer ==
  ASSUME TypeOK, SideInv, BufferInv, ServerStep, UNCHANGED rcopyVars
  PROVE  SideInv'
<1>1. /\ swin \in WindowType /\ swin.lower \in Nat /\ swin.upper \in Nat
      /\ swin.current \in Nat /\ rwin.current \in Nat /\ rwin.upper \in Nat
      /\ WindowSize \in Nat /\ swin.upper = swin.lower + WindowSize
      /\ swin.lower <= rwin.current /\ swin.lower < rwin.upper /\ 0 < rwin.upper
      /\ swin.upper <= rwin.upper
  BY SideFacts
<1>2. sstate \in {"END_OF_FILE", "EOF_WAIT"} => swin.current < swin.upper
  BY DEF SideInv
<1> SUFFICES SentFits /\ AnswersTaken /\ CountersKept
  BY SideFrame
<1>3. CASE filename
  <2>1. CountersKept /\ AnswersTaken
    BY <1>1, <1>3 DEF filename, CountersKept, AnswersTaken, ServerExits, ServerGoes
  <2>2. ASSUME NEW payload \in Payload,
               toClient' = Append(toClient, createPDU(0, "FILE_RESPONSE", payload))
        PROVE  SentFits
    <3>1. PICK p : p = createPDU(0, "FILE_RESPONSE", payload)
      OBVIOUS
    <3>2. p \in ServerPdu /\ p.seq = 0
      BY <3>1, CreatePDUType DEF createPDU, ServerFlags
    <3> QED
      BY <1>1, <2>2, <3>1, <3>2 DEF SentFits
  <2>3. \/ UNCHANGED toClient
        \/ toClient' = Append(toClient, createPDU(0, "FILE_RESPONSE", "FILE_OK"))
        \/ toClient' = Append(toClient, createPDU(0, "FILE_RESPONSE", "FILE_NOT_OK"))
    BY <1>3 DEF filename
  <2>4. "FILE_OK" \in Payload /\ "FILE_NOT_OK" \in Payload
    BY DEF Payload
  <2>5. SentFits
    BY <2>2, <2>3, <2>4, Zenon DEF SentFits
  <2> QED
    BY <2>1, <2>5
<1>4. CASE window_open_send
  <2>1. PICK p : p = createPDU(swin.current, "DATA", File[offset + 1])
    OBVIOUS
  <2>2. File[offset + 1] \in Payload
    BY <1>4, FileAssumption DEF window_open_send, TypeOK, Payload
  <2>3. p \in ServerPdu /\ p.seq = swin.current
    BY <1>1, <2>1, <2>2, CreatePDUType DEF ServerFlags, DataFlags, createPDU
  <2>4. /\ toClient' = Append(toClient, p) /\ UNCHANGED toServer
        /\ swin' = incrementCurrent(add_PDU(swin, p, swin.current))
        /\ sstate' = "WINDOW_OPEN_POLL"
        /\ swin.current < swin.upper
    BY <1>4, <2>1 DEF window_open_send, send_data_packet, ServerGoes, checkWindowOpen
  <2>5. swin'.upper = swin.upper /\ swin'.lower = swin.lower
    BY <1>1, <2>3, <2>4, SendLimits
  <2>6. SentFits
    BY <1>1, <2>3, <2>4 DEF SentFits
  <2>7. sstate' \notin {"END_OF_FILE", "EOF_WAIT"}
    BY <2>4
  <2>8. CountersKept
    BY <2>5, <2>7, LimitsStay
  <2> QED
    BY <2>4, <2>6, <2>8 DEF AnswersTaken
<1>5. CASE window_open_eof \/ window_open_error \/ window_open_full \/ window_open_idle
  <2>1. UNCHANGED <<toClient, toServer, swin>>
    BY <1>5
    DEF window_open_eof, window_open_error, window_open_full, window_open_idle, networkVars
  <2>2. sstate' \notin {"END_OF_FILE", "EOF_WAIT"} \/ swin.current < swin.upper
    BY <1>5
    DEF window_open_eof, window_open_error, window_open_full, window_open_idle,
        ServerGoes, ServerExits, checkWindowOpen
  <2> QED
    BY <2>1, <2>2, NothingDone
<1>6. CASE window_open_recv
  <2>1. AnswersTaken /\ toServer # <<>>
    BY <1>6 DEF window_open_recv, AnswersTaken
  <2>2. process_answer(Head(toServer), "WINDOW_OPEN", "WINDOW_OPEN", "WINDOW_OPEN")
    BY <1>6 DEF window_open_recv
  <2> QED
    BY <2>1, <2>2, AnswerFits
<1>7. CASE window_closed_recv
  <2>1. AnswersTaken /\ toServer # <<>>
    BY <1>7 DEF window_closed_recv, AnswersTaken
  <2>2. process_answer(Head(toServer), "WINDOW_CLOSED", "WINDOW_OPEN", "WINDOW_CLOSED")
    BY <1>7 DEF window_closed_recv
  <2> QED
    BY <2>1, <2>2, AnswerFits
<1>8. CASE window_closed_timeout \/ end_of_file_timeout
  <2>1. PICK state \in {"WINDOW_CLOSED", "EOF_WAIT"} :
          Resend(swin.lower, "RESENT_TIMEOUT", state) /\ sstate = state
    BY <1>8 DEF window_closed_timeout, end_of_file_timeout
  <2>2. UNCHANGED <<toServer, swin>>
    BY <1>8 DEF window_closed_timeout, end_of_file_timeout
  <2>3. SentFits /\ sstate' \in {state, "CRASHED"}
    BY <1>1, <2>1, ResendFits DEF ServerFlags, DataFlags
  <2>4. sstate' \notin {"END_OF_FILE", "EOF_WAIT"} \/ swin.current < swin.upper
    BY <1>2, <2>1, <2>3
  <2>5. CountersKept
    BY <2>2, <2>4, LimitsStay
  <2> QED
    BY <2>2, <2>3, <2>5 DEF AnswersTaken
<1>9. CASE window_closed_give_up \/ end_of_file_give_up
  <2>1. UNCHANGED <<toClient, toServer, swin>> /\ sstate' = "DONE"
    BY <1>9 DEF window_closed_give_up, end_of_file_give_up, networkVars, ServerExits
  <2>2. sstate' \notin {"END_OF_FILE", "EOF_WAIT"}
    BY <2>1
  <2> QED
    BY <2>1, <2>2, NothingDone
<1>10. CASE end_of_file_send
  <2>1. PICK p : p = createPDU(swin.current, "EOF", "NONE")
    OBVIOUS
  <2>2. p \in ServerPdu /\ p.seq = swin.current
    BY <1>1, <2>1, CreatePDUType DEF ServerFlags, Payload, createPDU
  <2>3. /\ toClient' = Append(toClient, p) /\ UNCHANGED toServer
        /\ swin' = add_PDU(swin, p, swin.current)
        /\ sstate = "END_OF_FILE"
    BY <1>10, <2>1 DEF end_of_file_send, send_eof
  <2>4. /\ swin'.upper = swin.upper /\ swin'.lower = swin.lower
        /\ swin'.current = swin.current
    BY <1>1, <2>2, <2>3, AddType
  <2>5. SentFits
    BY <1>1, <1>2, <2>2, <2>3 DEF SentFits
  <2>6. CountersKept
    BY <1>2, <2>3, <2>4, LimitsStay
  <2> QED
    BY <2>3, <2>5, <2>6 DEF AnswersTaken
<1>11. CASE end_of_file_recv
  <2>1. AnswersTaken /\ toServer # <<>> /\ sstate = "EOF_WAIT"
    BY <1>11 DEF end_of_file_recv, AnswersTaken
  <2>2. CASE process_answer(Head(toServer), "EOF_WAIT", "EOF_WAIT", "EOF_WAIT")
    BY <2>1, <2>2, AnswerFits
  <2>3. CASE ServerExits("acked") /\ UNCHANGED <<toClient, swin>>
    BY <1>1, <2>1, <2>3 DEF ServerExits, SentFits, CountersKept
  <2> QED
    BY <1>11, <2>2, <2>3 DEF end_of_file_recv
<1> QED
  BY <1>3, <1>4, <1>5, <1>6, <1>7, <1>8, <1>9, <1>10, <1>11 DEF ServerStep
=============================================================================

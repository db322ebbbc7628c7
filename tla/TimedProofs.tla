----------------------------- MODULE TimedProofs -----------------------------
(***************************************************************************)
(* A run with time is a run of Transfer, so that whatever is proved of     *)
(* Transfer holds of it too; no timer runs past its timeout; and neither   *)
(* program gives up on the other before the network has lost as many       *)
(* datagrams as there are tries, or seconds.                               *)
(***************************************************************************)
EXTENDS TimedTransfer, TransferProofs

\* Every step is a step of Transfer or changes nothing but the time.
LEMMA TimedStep == [TimedNext]_timedVars => [Next]_vars
<1> SUFFICES ASSUME [TimedNext]_timedVars
             PROVE  [Next]_vars
  OBVIOUS
<1>1. CASE ServerSteps
  <2>1. ServerStep
    BY <1>1 DEF ServerSteps, ServerMoves, ServerTimeouts, ServerStep
  <2> QED
    BY <1>1, <2>1 DEF ServerSteps, Next
<1>2. CASE RcopySteps
  <2>1. RcopyStep
    BY <1>2 DEF RcopySteps, RcopyMoves, RcopyStep
  <2> QED
    BY <1>2, <2>1 DEF RcopySteps, Next
<1>3. CASE RetrySteps
  BY <1>3 DEF RetrySteps, Next
<1>4. CASE Tick
  BY <1>4 DEF Tick
<1>5. CASE NetworkFaults
  BY <1>5 DEF NetworkFaults, Next
<1>6. CASE Ended
  BY <1>6 DEF Ended, Terminated
<1>7. CASE UNCHANGED timedVars
  BY <1>7 DEF timedVars
<1> QED
  BY <1>1, <1>2, <1>3, <1>4, <1>5, <1>6, <1>7 DEF TimedNext, ProgramSteps

\* The timed programs implement the untimed ones: no run with time is anything
\* that Transfer, whose timeouts fire at any moment, does not have.
THEOREM TimedImplementsTransfer == TimedSpec => Spec
<1>1. TimedInit => Init
  BY DEF TimedInit
<1> QED
  BY <1>1, TimedStep, PTL DEF TimedSpec, Spec

-----------------------------------------------------------------------------
\* The timer of rcopy is compared with one second or with ten: it has not run
\* past the shorter of them when that one is due.
TimersInv ==
  /\ TimedTypeOK
  /\ rstate = "FILENAME_POLL" => rtimer <= ONE_SEC

LEMMA TimersInit == TimedInit => TimersInv
  BY TimedAssumption DEF TimedInit, TimersInv, TimedTypeOK, ONE_SEC

LEMMA TimersNext == TimersInv /\ [TimedNext]_timedVars => TimersInv'
<1> SUFFICES ASSUME TimersInv, [TimedNext]_timedVars
             PROVE  TimersInv'
  OBVIOUS
<1> USE TimedAssumption DEF TimersInv, TimedTypeOK, ONE_SEC
<1>1. CASE ServerSteps /\ UNCHANGED faults
  BY <1>1 DEF ServerSteps, rcopyVars
<1>2. CASE RcopySteps /\ UNCHANGED faults
  BY <1>2 DEF RcopySteps
<1>3. CASE RetrySteps
  BY <1>3 DEF RetrySteps
<1>4. CASE Tick
  <2>1. UNCHANGED <<rstate, faults>>
    BY <1>4 DEF Tick, vars, rcopyVars
  <2>2. stimer' \in 0 .. ONE_SEC
    BY <1>4 DEF Tick, Quiet, ServerExpired
  <2>3. rtimer' = rtimer \/ (rtimer' = rtimer + 1 /\ rtimer # RcopyTimeout)
    <3>1. RcopyWaits => rtimer # RcopyTimeout
      BY <1>4, Zenon DEF Tick, Quiet, RcopyExpired
    <3>2. rtimer' = IF RcopyWaits THEN rtimer + 1 ELSE rtimer
      BY <1>4, Zenon DEF Tick
    <3> QED
      BY <3>1, <3>2, Zenon
  <2> QED
    BY <2>1, <2>2, <2>3 DEF RcopyTimeout
<1>5. CASE /\ NetworkFaults
           /\ faults' = IF faults < MaxFaults THEN faults + 1 ELSE faults
  BY <1>5 DEF NetworkFaults, rcopyVars
<1>6. CASE Ended \/ UNCHANGED timedVars
  BY <1>6 DEF Ended, Terminated, timedVars, vars, rcopyVars
<1> QED
  BY <1>1, <1>2, <1>3, <1>4, <1>5, <1>6
  DEF TimedNext, ProgramSteps, ServerSteps, RcopySteps

\* No timer runs past its timeout: time stands still until a timeout that is
\* due has been handled (server.c:279, 337, rcopy.c:93, 169, 288).
THEOREM TimedTypeCorrect == TimedSpec => []TimedTypeOK
<1>1. TimersInv => TimedTypeOK
  BY DEF TimersInv
<1> QED
  BY <1>1, TimersInit, TimersNext, PTL DEF TimedSpec

-----------------------------------------------------------------------------
(***************************************************************************)
(* Who gives up on whom, and after how many faults.  The invariant counts  *)
(* what the network must have lost for the programs to be where they are;  *)
(* it is inductive together with IInv, which every run with time keeps.    *)
(***************************************************************************)
\* At least k faults, as far as they are counted.
AtLeast(k) == faults >= k \/ faults = MaxFaults

\* The child is past the handshake and has not ended; it waits for an answer.
Serving == sstate \in {"WINDOW_OPEN", "WINDOW_OPEN_POLL", "WINDOW_CLOSED",
                       "END_OF_FILE", "EOF_WAIT"}
Awaits  == sstate \in {"WINDOW_CLOSED", "EOF_WAIT"}

\* rcopy answers the packet as soon as it gets it, or ends.
GetsAnswer(i) ==
  /\ rstate = "FILENAME_POLL" => i >= 2
  /\ toClient[i].flag \notin {"FILE_RESPONSE", "CORRUPT"}
  /\ toClient[i].seq <= rwin.current

AnswerDue == toServer # <<>> \/ \E i \in 1 .. Len(toClient) : GetsAnswer(i)

(***************************************************************************)
(* Each timeout of the child has cost a fault, and so will the next one    *)
(* unless an answer is due: what is resent is a packet that rcopy answers. *)
(***************************************************************************)
CountInv ==
  Awaits /\ rstate # "DONE" =>
    /\ AtLeast(scount + 1) \/ (AtLeast(scount) /\ AnswerDue)
    /\ stimer = ONE_SEC => AtLeast(scount + 1)

(***************************************************************************)
(* In the handshake rcopy answers nothing.  What the child has sent and is *)
(* not under way is lost, and it has at most one timeout, because rcopy    *)
(* then has its own.                                                       *)
(***************************************************************************)
Sent == IF swin.current > 0 \/ sstate = "EOF_WAIT" THEN 2 ELSE 1

SentInv ==
  /\ sstate = "NONE" => stimer = 0
  /\ rstate = "FILENAME_POLL" =>
       /\ Serving => AtLeast(Sent - Len(toClient))
       /\ scount + stimer <= rtimer
       /\ Awaits /\ scount + stimer >= 1 => AtLeast(2)

(***************************************************************************)
(* Without a fault everything is as if there were no network: rcopy gets   *)
(* one packet after the other, and the child one RR after the other.       *)
(***************************************************************************)
NumbersSent == swin.current + (IF sstate = "EOF_WAIT" THEN 1 ELSE 0)
Responses   == IF rstate = "FILENAME_POLL" THEN 1 ELSE 0

StreamInv ==
  /\ Len(toClient) = Responses + NumbersSent - rwin.current
  /\ \A i \in 1 .. Len(toClient) :
       IF i <= Responses
       THEN toClient[i].flag = "FILE_RESPONSE"
       ELSE /\ toClient[i].flag \in {"DATA", "EOF"}
            /\ toClient[i].seq = rwin.current + i - 1 - Responses

RRsInv ==
  /\ \A i \in 1 .. Len(toServer) : toServer[i].flag = "RR"
  /\ toServer = <<>> => swin.lower = rwin.current
  /\ toServer # <<>> => toServer[Len(toServer)].num = rwin.current

FaultlessInv ==
  /\ rstate \in {"FILENAME_POLL", "FILE_OKAY"} /\ sstate # "NONE" => toServer = <<>>
  /\ faults = 0 /\ Serving /\ rstate # "DONE" =>
       /\ rstate \in {"FILENAME_POLL", "FILE_OKAY", "IN_ORDER"}
       /\ StreamInv
       /\ RRsInv

(***************************************************************************)
(* Each second that rcopy has waited for data has cost a fault: the child  *)
(* resends a packet every second, to be lost in the next.                  *)
(***************************************************************************)
TimeoutInv ==
  /\ rcause = "timeout" => rstate = "DONE"
  /\ rstate \in {"IN_ORDER", "BUFFERING"} /\ ~ServerHasExited /\ rtimer >= 1 =>
       /\ toServer = <<>>
       /\ Awaits
       /\ AtLeast(rtimer)
       /\ \/ stimer = ONE_SEC /\ toClient = <<>>
          \/ stimer = 0 /\ (toClient # <<>> \/ AtLeast(rtimer + 1))

SilenceInv ==
  /\ CountInv
  /\ SentInv
  /\ FaultlessInv
  /\ TimeoutInv
  /\ GivesUpOnSilence
  /\ TimesOutOnSilence

-----------------------------------------------------------------------------
\* The types that these proofs need, and what IInv says of the counters.
LEMMA TimedFacts ==
  ASSUME IInv, TimersInv
  PROVE  /\ toClient \in Seq(ServerPdu) /\ toServer \in Seq(RcopyPdu)
         /\ Len(toClient) \in Nat /\ Len(toServer) \in Nat
         /\ \A i \in 1 .. Len(toClient) : toClient[i].seq \in Nat
         /\ \A i \in 1 .. Len(toServer) : toServer[i].num \in Nat
         /\ swin.lower \in Nat /\ swin.current \in Nat /\ rwin.current \in Nat
         /\ swin.lower <= rwin.current /\ rwin.current <= swin.current
         /\ swin.lower <= swin.current
         /\ sstate = "WINDOW_CLOSED" => swin.current > 0
         /\ scount \in Nat /\ scount <= MaxTries
         /\ stimer \in {0, 1} /\ rtimer \in Nat /\ rtimer <= TEN_SEC
         /\ rstate = "FILENAME_POLL" => rtimer <= 1
         /\ faults \in Nat /\ faults <= MaxFaults
         /\ MaxTries \in Nat /\ MaxTries >= 1 /\ MaxTries <= MaxFaults
         /\ TEN_SEC \in Nat /\ TEN_SEC >= 1 /\ TEN_SEC <= MaxFaults
         /\ MaxFaults \in Nat
<1>1. TypeOK /\ ServerInv /\ RcopyInv
  BY DEF IInv, CoreInv
<1>2. /\ toClient \in Seq(ServerPdu) /\ toServer \in Seq(RcopyPdu)
      /\ swin.lower \in Nat /\ swin.current \in Nat /\ rwin.current \in Nat
      /\ swin.upper \in Nat /\ WindowSize \in Nat /\ WindowSize >= 1
  BY <1>1, Types
<1>3. /\ \A i \in 1 .. Len(toClient) : toClient[i] \in ServerPdu
      /\ \A i \in 1 .. Len(toServer) : toServer[i] \in RcopyPdu
  BY <1>2
<1>4. /\ \A i \in 1 .. Len(toClient) : toClient[i].seq \in Nat
      /\ \A i \in 1 .. Len(toServer) : toServer[i].num \in Nat
  BY <1>3 DEF ServerPdu, RcopyPdu
<1>5. scount \in 0 .. MaxTries
  BY <1>1 DEF TypeOK
<1>6. /\ swin.lower <= rwin.current /\ rwin.current <= swin.current
      /\ swin.lower <= swin.current
      /\ sstate = "WINDOW_CLOSED" => swin.current > 0
  BY <1>1, <1>2 DEF ServerInv, RcopyInv
<1>7. /\ stimer \in {0, 1} /\ rtimer \in Nat /\ rtimer <= TEN_SEC
      /\ rstate = "FILENAME_POLL" => rtimer <= 1
      /\ faults \in Nat /\ faults <= MaxFaults /\ MaxFaults \in Nat
      /\ TEN_SEC \in Nat /\ TEN_SEC >= 1 /\ TEN_SEC <= MaxFaults
  BY TimedAssumption DEF TimersInv, TimedTypeOK, ONE_SEC
<1>8. MaxTries \in Nat /\ MaxTries >= 1 /\ MaxTries <= MaxFaults
  BY TimedAssumption, MaxTriesAssumption
<1> QED
  BY <1>2, <1>4, <1>5, <1>6, <1>7, <1>8

\* Less than what has been lost.
LEMMA FewerFaults ==
  ASSUME faults \in Nat, NEW k \in Int, NEW j \in Int, j <= k, AtLeast(k)
  PROVE  AtLeast(j)
BY DEF AtLeast

\* While nothing has been lost, rcopy owes the child an answer.
Owed == faults = 0 /\ Awaits /\ rstate # "DONE" => AnswerDue

LEMMA FaultlessAnswer ==
  ASSUME IInv, TimersInv, FaultlessInv
  PROVE  Owed
<1> SUFFICES ASSUME faults = 0, Awaits, rstate # "DONE"
             PROVE  AnswerDue
  BY DEF Owed
<1>1. /\ Serving /\ StreamInv /\ RRsInv
      /\ rstate \in {"FILENAME_POLL", "FILE_OKAY", "IN_ORDER"}
  BY DEF FaultlessInv, Serving, Awaits
<1>2. SUFFICES ASSUME toServer = <<>>
               PROVE  \E i \in 1 .. Len(toClient) : GetsAnswer(i)
  BY DEF AnswerDue
<1>3. swin.lower = rwin.current
  BY <1>1, <1>2 DEF RRsInv
<1>4. NumbersSent >= rwin.current + 1
  <2>1. CASE sstate = "WINDOW_CLOSED"
    <3>1. swin.current = swin.lower + WindowSize
      BY <2>1 DEF IInv, CoreInv, ServerInv
    <3>2. WindowSize \in Nat /\ WindowSize >= 1
      BY WindowSizeAssumption
    <3> QED
      BY <1>3, <2>1, <3>1, <3>2, TimedFacts DEF NumbersSent
  <2>2. CASE sstate = "EOF_WAIT"
    BY <2>2, TimedFacts DEF NumbersSent
  <2> QED
    BY <2>1, <2>2 DEF Awaits
<1>5. Responses \in {0, 1} /\ (rstate = "FILENAME_POLL" => Responses = 1)
  BY DEF Responses
<1> DEFINE k == Responses + 1
<1>6. k \in 1 .. Len(toClient) /\ ~(k <= Responses)
  BY <1>1, <1>4, <1>5, TimedFacts DEF StreamInv, NumbersSent
<1>7. toClient[k].flag \in {"DATA", "EOF"} /\ toClient[k].seq = rwin.current + k - 1 - Responses
  BY <1>1, <1>6 DEF StreamInv
<1>8. GetsAnswer(k)
  BY <1>5, <1>7, TimedFacts DEF GetsAnswer
<1> QED
  BY <1>6, <1>8

-----------------------------------------------------------------------------
(***************************************************************************)
(* The child.                                                              *)
(***************************************************************************)
ServerTurn == stimer' = 0 /\ UNCHANGED <<rcopyVars, rtimer, faults>>

\* A child that starts to wait owes no fault to anybody yet.
LEMMA CountStarts ==
  ASSUME IInv', TimersInv', FaultlessInv', stimer' = 0, scount' = 0 \/ ~Awaits'
  PROVE  CountInv'
<1> SUFFICES ASSUME Awaits', rstate' # "DONE"
             PROVE  AtLeast(1)' \/ (AtLeast(0)' /\ AnswerDue')
  BY DEF CountInv, ONE_SEC, AtLeast
<1>1. faults' \in Nat
  BY TimedAssumption DEF TimersInv, TimedTypeOK
<1>2. AtLeast(0)'
  BY <1>1 DEF AtLeast
<1>3. CASE faults' = 0
  <2>1. AnswerDue'
    <3>1. Owed'
      BY FaultlessAnswer, PTL
    <3> QED
      BY <1>3, <3>1 DEF Owed
  <2> QED
    BY <1>2, <2>1
<1>4. CASE faults' # 0
  BY <1>1, <1>4 DEF AtLeast
<1> QED
  BY <1>3, <1>4

\* What any step but a timeout or the last one leaves as it is.
LEMMA ServerKeeps ==
  ASSUME IInv, TimersInv, IInv', TimersInv', SilenceInv, ServerTurn,
         ~ServerHasExited, ~Awaits \/ toServer # <<>>,
         sstate' # "NONE", scause' = scause \/ scause' # "gave_up",
         scount' \in {0, scount}, scount' = 0 \/ ~Awaits',
         rstate = "FILENAME_POLL" /\ Serving' => AtLeast(Sent' - Len(toClient')),
         FaultlessInv'
  PROVE  SilenceInv'
<1> USE DEF ServerTurn, rcopyVars
<1>1. CountInv'
  BY CountStarts
<1>2. SentInv'
  <2>1. scount \in Nat /\ stimer \in {0, 1} /\ rtimer \in Nat
    BY TimedFacts
  <2>2. rstate = "FILENAME_POLL" => scount' + stimer' <= rtimer'
    <3>1. SUFFICES ASSUME rstate = "FILENAME_POLL"
                   PROVE  scount' + stimer' <= rtimer'
      OBVIOUS
    <3>2. scount + stimer <= rtimer
      BY <3>1 DEF SilenceInv, SentInv
    <3>3. scount <= rtimer
      BY <2>1, <3>2
    <3>4. scount' = 0 \/ scount' = scount
      OBVIOUS
    <3>5. scount' \in Nat /\ scount' <= rtimer
      <4>1. CASE scount' = 0
        BY <2>1, <4>1
      <4>2. CASE scount' = scount
        BY <2>1, <3>3, <4>2
      <4> QED
        BY <3>4, <4>1, <4>2
    <3>6. stimer' = 0 /\ rtimer' = rtimer
      OBVIOUS
    <3>7. \A n, r \in Nat : n <= r => n + 0 <= r
      OBVIOUS
    <3>8. scount' + 0 <= rtimer
      BY <2>1, <3>5, <3>7
    <3> QED
      BY <3>6, <3>8
  <2>3. Awaits' => ~(scount' + stimer' >= 1)
    BY <2>1
  <2>4. rstate = "FILENAME_POLL" /\ Serving' => AtLeast(Sent - Len(toClient))'
    BY DEF AtLeast
  <2> QED
    BY <2>2, <2>3, <2>4 DEF SentInv
<1>3. TimeoutInv'
  BY DEF SilenceInv, TimeoutInv, ServerHasExited
<1>4. GivesUpOnSilence' /\ TimesOutOnSilence'
  BY DEF SilenceInv, GivesUpOnSilence, TimesOutOnSilence
<1> QED
  BY <1>1, <1>2, <1>3, <1>4 DEF SilenceInv

\* The fork, and the answer to FILENAME.
LEMMA FilenameSilence ==
  ASSUME IInv, TimersInv, IInv', TimersInv', SilenceInv, ServerTurn, filename
  PROVE  SilenceInv'
<1> USE DEF ServerTurn, rcopyVars
<1>1. /\ sstate = "NONE" /\ NoChild /\ toClient = <<>> /\ toServer # <<>> /\ toServer' = <<>>
      /\ UNCHANGED <<swin, scount, offset>>
      /\ sstate' \in {"WINDOW_OPEN", "DONE"} /\ scause' # "gave_up"
      /\ rstate \in {"FILENAME_POLL", "DONE"}
  BY FilenameFacts DEF IInv
<1>2. sstate' = "WINDOW_OPEN" => /\ toClient' = <<createPDU(0, "FILE_RESPONSE", "FILE_OK")>>
  BY <1>1 DEF filename, ServerExits, ServerGoes
<1>3. swin.current = 0 /\ swin.lower = 0 /\ scount = 0
  BY <1>1 DEF NoChild, make_window
<1>4. rstate = "FILENAME_POLL" => rwin.current = 0
  BY DEF IInv, CoreInv, HandshakeInv, Handshake, make_window
<1>5. faults \in Nat
  BY TimedFacts
<1>6. ASSUME sstate' = "WINDOW_OPEN"
      PROVE  Len(toClient') = 1 /\ toClient'[1].flag = "FILE_RESPONSE"
  BY <1>2, <1>6 DEF createPDU
<1>7. rstate = "FILENAME_POLL" /\ Serving' => AtLeast(Sent' - Len(toClient'))
  BY <1>1, <1>3, <1>5, <1>6 DEF Serving, Sent, AtLeast
<1>8. FaultlessInv'
  <2>1. SUFFICES ASSUME Serving', rstate = "FILENAME_POLL"
                 PROVE  StreamInv' /\ RRsInv'
    BY <1>1 DEF FaultlessInv
  <2>2. sstate' = "WINDOW_OPEN"
    BY <1>1, <2>1 DEF Serving
  <2>3. StreamInv'
    <3>1. /\ Responses' = 1 /\ NumbersSent' = 0 /\ rwin' = rwin /\ rwin.current = 0
          /\ Len(toClient') = 1 /\ toClient'[1].flag = "FILE_RESPONSE"
      BY <1>1, <1>3, <1>4, <1>6, <2>1, <2>2 DEF NumbersSent, Responses
    <3>2. \A i \in 1 .. 1 : i = 1
      OBVIOUS
    <3> QED
      BY <3>1, <3>2 DEF StreamInv
  <2>4. RRsInv'
    BY <1>1, <1>3, <1>4, <2>1 DEF RRsInv
  <2> QED
    BY <2>3, <2>4
<1> QED
  BY <1>1, <1>3, <1>7, <1>8, ServerKeeps DEF ServerHasExited, Awaits

\* Steps between states that change neither queue nor window.
LEMMA MovesSilence ==
  ASSUME IInv, TimersInv, IInv', TimersInv', SilenceInv, ServerTurn,
         window_open_eof \/ window_open_error \/ window_open_full \/ window_open_idle
  PROVE  SilenceInv'
<1> USE DEF ServerTurn, rcopyVars
<1>1. /\ UNCHANGED <<toClient, toServer, swin>>
      /\ sstate \in {"WINDOW_OPEN", "WINDOW_OPEN_POLL"}
      /\ sstate' \in {"WINDOW_OPEN", "WINDOW_CLOSED", "END_OF_FILE", "DONE"}
      /\ scause' = scause \/ scause' # "gave_up"
      /\ scount' \in {0, scount}
      /\ sstate' = "WINDOW_CLOSED" => scount' = 0
  BY DEF window_open_eof, window_open_error, window_open_full, window_open_idle,
         ServerGoes, ServerExits, networkVars
<1>2. rstate = "FILENAME_POLL" /\ Serving' => AtLeast(Sent' - Len(toClient'))
  BY <1>1 DEF SilenceInv, SentInv, Serving, Sent
<1>3. FaultlessInv'
  <2>1. StreamInv => StreamInv'
    BY <1>1 DEF StreamInv, NumbersSent, Responses
  <2>2. RRsInv => RRsInv'
    BY <1>1 DEF RRsInv
  <2> QED
    BY <1>1, <2>1, <2>2 DEF SilenceInv, FaultlessInv, Serving
<1> QED
  BY <1>1, <1>2, <1>3, ServerKeeps DEF ServerHasExited, Awaits

\* A chunk, or EOF, goes out.
LEMMA SendsSilence ==
  ASSUME IInv, TimersInv, IInv', TimersInv', SilenceInv, ServerTurn,
         window_open_send \/ end_of_file_send
  PROVE  SilenceInv'
<1> USE DEF ServerTurn, rcopyVars
<1>1. /\ toClient \in Seq(ServerPdu) /\ Len(toClient) \in Nat
      /\ swin.current \in Nat /\ rwin.current \in Nat /\ faults \in Nat
  BY TimedFacts
<1>2. /\ UNCHANGED toServer
      /\ sstate \in {"WINDOW_OPEN", "END_OF_FILE"}
      /\ sstate' \in {"WINDOW_OPEN_POLL", "EOF_WAIT"}
      /\ scause' = scause
      /\ scount' \in {0, scount}
      /\ sstate' = "EOF_WAIT" => scount' = 0
  BY DEF window_open_send, end_of_file_send, ServerGoes
<1>3. /\ NumbersSent' = NumbersSent + 1 /\ NumbersSent = swin.current
      /\ swin'.lower = swin.lower
      /\ swin'.current >= swin.current
      /\ \E p \in ServerPdu : /\ p.seq = swin.current /\ p.flag \in {"DATA", "EOF"}
                              /\ toClient' = Append(toClient, p)
  <2>1. swin \in WindowType /\ add_PDU(swin, EofPdu, swin.current) \in WindowType
    BY EofPduType, AddType, Types DEF IInv, CoreInv
  <2>2. CASE window_open_send
    <3>1. swin.current = offset /\ offset < Len(File)
      BY <2>2 DEF window_open_send, IInv, CoreInv, ServerInv
    <3>2. DataPdu(swin.current) \in ServerPdu
      BY <1>1, <3>1, DataPduType
    <3>3. /\ toClient' = Append(toClient, DataPdu(swin.current))
          /\ swin' = incrementCurrent(add_PDU(swin, DataPdu(swin.current), swin.current))
          /\ sstate = "WINDOW_OPEN" /\ sstate' = "WINDOW_OPEN_POLL"
      BY <2>2, <3>1 DEF window_open_send, send_data_packet, DataPdu, ServerGoes
    <3>4. add_PDU(swin, DataPdu(swin.current), swin.current) \in WindowType
      BY <1>1, <2>1, <3>2, AddType
    <3> DEFINE added == add_PDU(swin, DataPdu(swin.current), swin.current)
    <3>5. added.current = swin.current /\ added.lower = swin.lower
      BY <2>1 DEF add_PDU, WindowType
    <3> HIDE DEF added
    <3>6. swin'.current = added.current + 1 /\ swin'.lower = added.lower
      BY <3>3, <3>4 DEF incrementCurrent, WindowType, added
    <3>7. DataPdu(swin.current).seq = swin.current /\ DataPdu(swin.current).flag = "DATA"
      BY DEF DataPdu, createPDU
    <3> QED
      BY <1>1, <3>2, <3>3, <3>5, <3>6, <3>7 DEF NumbersSent
  <2>3. CASE end_of_file_send
    <3>1. swin.current = Len(File)
      BY <2>3 DEF end_of_file_send, IInv, CoreInv, ServerInv
    <3>2. /\ toClient' = Append(toClient, EofPdu)
          /\ swin' = add_PDU(swin, EofPdu, swin.current)
          /\ sstate = "END_OF_FILE" /\ sstate' = "EOF_WAIT"
      BY <2>3, <3>1 DEF end_of_file_send, send_eof, EofPdu, ServerGoes
    <3>3. swin'.current = swin.current /\ swin'.lower = swin.lower
      BY <2>1, <3>2 DEF add_PDU, WindowType
    <3>4. EofPdu \in ServerPdu /\ EofPdu.flag = "EOF" /\ EofPdu.seq = swin.current
      BY <3>1, EofPduType DEF EofPdu, createPDU
    <3> QED
      BY <1>1, <3>2, <3>3, <3>4 DEF NumbersSent
  <2> QED
    BY <2>2, <2>3
<1>4. PICK p \in ServerPdu : /\ p.seq = swin.current /\ p.flag \in {"DATA", "EOF"}
                             /\ toClient' = Append(toClient, p)
  BY <1>3
<1>5. /\ Len(toClient') = Len(toClient) + 1
      /\ \A i \in 1 .. Len(toClient) : toClient'[i] = toClient[i]
      /\ toClient'[Len(toClient) + 1] = p
  BY <1>1, <1>4, AppendFacts
<1>6. rstate = "FILENAME_POLL" /\ Serving' => AtLeast(Sent' - Len(toClient'))
  <2>1. Sent' - Len(toClient') <= Sent - Len(toClient)
    BY <1>1, <1>2, <1>3, <1>5 DEF Sent
  <2>2. Sent' \in Nat /\ Sent \in Nat
    BY DEF Sent
  <2>3. rstate = "FILENAME_POLL" => AtLeast(Sent - Len(toClient))
    BY <1>2 DEF SilenceInv, SentInv, Serving
  <2> QED
    BY <1>1, <1>5, <2>1, <2>2, <2>3, FewerFaults
<1>7. FaultlessInv'
  <2>1. SUFFICES ASSUME faults = 0, rstate # "DONE"
                 PROVE  /\ rstate \in {"FILENAME_POLL", "FILE_OKAY", "IN_ORDER"}
                        /\ StreamInv' /\ RRsInv'
    BY <1>2 DEF SilenceInv, FaultlessInv
  <2>2. /\ rstate \in {"FILENAME_POLL", "FILE_OKAY", "IN_ORDER"}
        /\ StreamInv /\ RRsInv
    BY <1>2, <2>1 DEF SilenceInv, FaultlessInv, Serving
  <2>3. StreamInv'
    <3>1. Responses' = Responses /\ Responses \in {0, 1}
      BY DEF Responses
    <3>2. Len(toClient) = Responses + swin.current - rwin.current
      BY <1>3, <2>2 DEF StreamInv
    <3>3. rwin.current <= swin.current
      BY TimedFacts
    <3>4. ASSUME NEW i \in 1 .. Len(toClient')
          PROVE  IF i <= Responses
                 THEN toClient'[i].flag = "FILE_RESPONSE"
                 ELSE /\ toClient'[i].flag \in {"DATA", "EOF"}
                      /\ toClient'[i].seq = rwin.current + i - 1 - Responses
      <4>1. CASE i \in 1 .. Len(toClient)
        BY <1>5, <2>2, <4>1 DEF StreamInv
      <4>2. CASE i = Len(toClient) + 1
        <5>1. ~(i <= Responses) /\ swin.current = rwin.current + i - 1 - Responses
          BY <1>1, <3>1, <3>2, <3>3, <4>2
        <5> QED
          BY <1>4, <1>5, <4>2, <5>1
      <4> QED
        BY <1>1, <1>5, <4>1, <4>2
    <3>5. Len(toClient') = Responses' + NumbersSent' - rwin.current
      BY <1>1, <1>3, <1>5, <3>1, <3>2
    <3> QED
      BY <3>1, <3>4, <3>5 DEF StreamInv
  <2>4. RRsInv'
    BY <1>2, <1>3, <2>2 DEF RRsInv
  <2> QED
    BY <2>2, <2>3, <2>4
<1> QED
  BY <1>2, <1>6, <1>7, ServerKeeps DEF ServerHasExited, Awaits

\* A datagram of rcopy's arrives.
LEMMA AnswersSilence ==
  ASSUME IInv, TimersInv, IInv', TimersInv', SilenceInv, ServerTurn,
         window_open_recv \/ window_closed_recv \/ end_of_file_recv
  PROVE  SilenceInv'
<1> USE DEF ServerTurn, rcopyVars
<1>1. /\ sstate \in {"WINDOW_OPEN_POLL", "WINDOW_CLOSED", "EOF_WAIT"}
      /\ toServer # <<>> /\ toServer' = Tail(toServer)
  BY DEF window_open_recv, window_closed_recv, end_of_file_recv
<1>2. /\ sstate' # "NONE"
      /\ scause' = scause \/ scause' # "gave_up"
      /\ scount' \in {0, scount}
      /\ scount' = 0 \/ ~Awaits'
  BY DEF window_open_recv, window_closed_recv, end_of_file_recv, process_answer,
         Resend, ServerGoes, ServerExits, Awaits
<1>3. rstate \notin {"FILENAME_POLL", "FILE_OKAY"}
  BY <1>1 DEF SilenceInv, FaultlessInv
<1>4. FaultlessInv'
  <2>1. SUFFICES ASSUME faults = 0, Serving', rstate # "DONE"
                 PROVE  rstate = "IN_ORDER" /\ StreamInv' /\ RRsInv'
    BY <1>3 DEF FaultlessInv
  <2>2. rstate = "IN_ORDER" /\ StreamInv /\ RRsInv
    BY <1>1, <1>3, <2>1 DEF SilenceInv, FaultlessInv, Serving
  <2>3. /\ toServer \in Seq(RcopyPdu)
        /\ \A i \in 1 .. Len(toServer) : toServer[i].num \in Nat
        /\ swin.current \in Nat /\ rwin.current \in Nat
    BY TimedFacts
  <2>4. /\ Len(toServer) \in Nat /\ Len(toServer) >= 1
        /\ Len(toServer') = Len(toServer) - 1
        /\ \A i \in 1 .. Len(toServer') : toServer'[i] = toServer[i + 1]
        /\ Head(toServer) = toServer[1]
    BY <1>1, <2>3, TailFacts
  <2>5. Head(toServer).flag = "RR" /\ Head(toServer).num \in Nat
    BY <2>2, <2>3, <2>4 DEF RRsInv
  <2>6. /\ swin' = cleaning_up_with_RR(swin, Head(toServer).num)
        /\ UNCHANGED toClient
        /\ sstate' = "EOF_WAIT" <=> sstate = "EOF_WAIT"
    BY <1>1, <2>5
    DEF window_open_recv, window_closed_recv, end_of_file_recv, process_answer,
        processPDU_ISSUE, ServerGoes
  <2>7. swin.lower <= Head(toServer).num /\ Head(toServer).num <= swin.current
    <3>1. Head(toServer).num <= swin.current
      BY <1>1, <2>5, HeadAnswer DEF IInv
    <3>2. swin.lower <= toServer[1].num
      BY <2>4, <2>5 DEF IInv, OrderInv, AnswersAscend
    <3> QED
      BY <2>4, <3>1, <3>2
  <2>8. swin'.lower = Head(toServer).num /\ swin'.current = swin.current
    BY <2>5, <2>6, <2>7, CleanFacts DEF IInv, CoreInv
  <2>9. StreamInv'
    BY <2>2, <2>6, <2>8 DEF StreamInv, NumbersSent, Responses
  <2>10. RRsInv'
    <3>1. \A i \in 1 .. Len(toServer') : toServer'[i].flag = "RR"
      BY <2>2, <2>4 DEF RRsInv
    <3>2. CASE Len(toServer) = 1
      <4>1. toServer' = <<>> /\ swin'.lower = rwin.current
        <5>1. toServer' \in Seq(RcopyPdu)
          BY <1>1, <2>3, TailFacts
        <5>2. toServer' = <<>>
          BY <2>4, <3>2, <5>1
        <5> QED
          BY <1>1, <2>2, <2>4, <2>8, <3>2, <5>2 DEF RRsInv
      <4> QED
        BY <4>1 DEF RRsInv
    <3>3. CASE Len(toServer) > 1
      <4>1. toServer' # <<>>
        BY <2>4, <3>3
      <4>2. toServer'[Len(toServer')] = toServer[Len(toServer)]
        BY <2>4, <3>3
      <4> QED
        BY <1>1, <2>2, <3>1, <4>1, <4>2 DEF RRsInv
    <3> QED
      BY <2>4, <3>2, <3>3
  <2> QED
    BY <2>2, <2>9, <2>10
<1> QED
  BY <1>1, <1>2, <1>3, <1>4, ServerKeeps DEF ServerHasExited

\* The child resends the lowest packet it has no RR for: one that rcopy
\* answers.
LEMMA ResentGetsAnswer ==
  ASSUME IInv, TimersInv, IInv', UNCHANGED rcopyVars,
         window_closed_timeout \/ end_of_file_timeout
  PROVE  /\ sstate' = sstate /\ scount' = scount + 1
         /\ UNCHANGED <<toServer, swin, scause>>
         /\ Len(toClient') = Len(toClient) + 1
         /\ rstate # "FILENAME_POLL" => AnswerDue'
<1>1. /\ toClient \in Seq(ServerPdu)
      /\ swin.lower \in Nat /\ swin.current \in Nat /\ swin.lower <= swin.current
      /\ swin.lower <= rwin.current
      /\ sstate = "WINDOW_CLOSED" => swin.lower < swin.current
  <2>1. sstate = "WINDOW_CLOSED" => swin.current = swin.lower + WindowSize
    BY DEF IInv, CoreInv, ServerInv
  <2>2. WindowSize \in Nat /\ WindowSize >= 1
    BY WindowSizeAssumption
  <2> QED
    BY <2>1, <2>2, TimedFacts
<1>2. PICK state \in {"WINDOW_CLOSED", "EOF_WAIT"} :
        /\ sstate = state
        /\ Resend(swin.lower, "RESENT_TIMEOUT", state)
        /\ scount' = scount + 1
        /\ UNCHANGED <<toServer, swin>>
  BY DEF window_closed_timeout, end_of_file_timeout
<1>3. /\ \E p \in ServerPdu : /\ Genuine(p) /\ p.seq = swin.lower
                             /\ toClient' = Append(toClient, p)
      /\ ServerGoes(state)
  <2>1. TypeOK /\ ServerInv /\ sstate # "DONE"
    BY <1>2 DEF IInv, CoreInv
  <2>2. \/ swin.lower <= swin.lower /\ swin.lower < swin.current
        \/ swin.lower = swin.current /\ sstate = "EOF_WAIT"
    BY <1>1, <1>2
  <2> QED
    BY <1>1, <1>2, <2>1, <2>2, ResendGenuine
<1>4. PICK p \in ServerPdu : /\ Genuine(p) /\ p.seq = swin.lower
                            /\ toClient' = Append(toClient, p)
  BY <1>3
<1>5. p.flag \notin {"FILE_RESPONSE", "CORRUPT"}
  BY <1>4 DEF Genuine, DataFlags
<1>6. Len(toClient') = Len(toClient) + 1 /\ toClient'[Len(toClient) + 1] = p
  BY <1>1, <1>4, AppendFacts
<1>7. rstate # "FILENAME_POLL" => AnswerDue'
  <2> SUFFICES ASSUME rstate # "FILENAME_POLL"
               PROVE  AnswerDue'
    OBVIOUS
  <2>1. p.seq <= rwin.current /\ rwin' = rwin /\ rstate' # "FILENAME_POLL"
    BY <1>1, <1>4 DEF rcopyVars
  <2>2. Len(toClient) + 1 \in 1 .. Len(toClient')
    BY <1>1, <1>6
  <2>3. \E i \in 1 .. Len(toClient') : GetsAnswer(i)'
    BY <1>5, <1>6, <2>1, <2>2 DEF GetsAnswer
  <2> QED
    BY <2>3 DEF AnswerDue
<1> QED
  BY <1>2, <1>3, <1>6, <1>7 DEF ServerGoes

\* A second without an answer: a fault, and one more packet to lose.
LEMMA TimeoutsSilence ==
  ASSUME IInv, TimersInv, IInv', TimersInv', SilenceInv, ServerTurn,
         ServerExpired, window_closed_timeout \/ end_of_file_timeout
  PROVE  SilenceInv'
<1> USE DEF ServerTurn, rcopyVars
<1>1. /\ toServer' = toServer /\ swin' = swin /\ scause' = scause
      /\ sstate' = sstate /\ scount' = scount + 1
      /\ Len(toClient') = Len(toClient) + 1
      /\ rstate # "FILENAME_POLL" => AnswerDue'
  BY ResentGetsAnswer
<1>2. /\ Awaits /\ Awaits' /\ stimer = 1 /\ ~ServerHasExited
  BY <1>1 DEF ServerExpired, ServerWaits, Awaits, ONE_SEC, ServerHasExited
<1>3. /\ scount \in Nat /\ faults \in Nat /\ Len(toClient) \in Nat /\ rtimer \in Nat
      /\ MaxFaults \in Nat /\ MaxFaults >= 1
      /\ rstate = "FILENAME_POLL" => rtimer <= 1
  BY TimedFacts
<1>4. rstate # "DONE" => AtLeast(scount + 1)
  BY <1>2 DEF SilenceInv, CountInv, ONE_SEC
<1>5. rstate = "FILENAME_POLL" => scount = 0 /\ rtimer = 1 /\ AtLeast(2)
  BY <1>2, <1>3 DEF SilenceInv, SentInv
<1>6. CountInv'
  <2>1. CASE rstate = "FILENAME_POLL"
    BY <1>1, <1>5, <2>1 DEF CountInv, AtLeast, ONE_SEC
  <2>2. CASE rstate \notin {"FILENAME_POLL", "DONE"}
    <3>1. AnswerDue'
      BY <1>1, <2>2
    <3>2. AtLeast(scount)'
      BY <1>1, <1>4, <2>2 DEF AtLeast
    <3> QED
      BY <3>1, <3>2 DEF CountInv, ONE_SEC
  <2>3. CASE rstate = "DONE"
    BY <2>3 DEF CountInv
  <2> QED
    BY <2>1, <2>2, <2>3
<1>7. SentInv'
  <2>1. sstate' # "NONE"
    BY <1>2 DEF Awaits
  <2>2. CASE rstate = "FILENAME_POLL"
    <3>1. AtLeast(Sent - Len(toClient))'
      <4>1. Sent' = Sent /\ Sent \in Nat
        BY <1>1 DEF Sent
      <4>2. AtLeast(Sent - Len(toClient))
        BY <1>2, <2>2 DEF SilenceInv, SentInv, Serving, Awaits
      <4>3. AtLeast(Sent' - Len(toClient'))
        BY <1>1, <1>3, <4>1, <4>2, FewerFaults
      <4> QED
        BY <4>3 DEF AtLeast
    <3>2. scount' + stimer' <= rtimer'
      BY <1>1, <1>5, <2>2
    <3>3. AtLeast(2)'
      BY <1>5, <2>2 DEF AtLeast
    <3> QED
      BY <2>1, <3>1, <3>2, <3>3 DEF SentInv
  <2>3. CASE rstate # "FILENAME_POLL"
    BY <2>1, <2>3 DEF SentInv
  <2> QED
    BY <2>2, <2>3
<1>8. FaultlessInv'
  <2>1. rstate # "DONE" => faults # 0
    BY <1>3, <1>4 DEF AtLeast
  <2> QED
    BY <1>1, <2>1 DEF SilenceInv, FaultlessInv
<1>9. TimeoutInv'
  <2>1. toClient' # <<>>
    BY <1>1, <1>3
  <2> QED
    BY <1>1, <1>2, <2>1 DEF SilenceInv, TimeoutInv, AtLeast
<1>10. GivesUpOnSilence' /\ TimesOutOnSilence'
  BY <1>1, <1>2 DEF SilenceInv, GivesUpOnSilence, TimesOutOnSilence
<1> QED
  BY <1>6, <1>7, <1>8, <1>9, <1>10 DEF SilenceInv

\* The last of them.
LEMMA GiveUpSilence ==
  ASSUME IInv, TimersInv, SilenceInv, ServerTurn,
         window_closed_give_up \/ end_of_file_give_up
  PROVE  SilenceInv'
<1> USE DEF ServerTurn, rcopyVars
<1>1. /\ sstate' = "DONE" /\ UNCHANGED <<toServer, scount>> /\ scount = MaxTries /\ Awaits
  BY DEF window_closed_give_up, end_of_file_give_up, ServerExits, Awaits, networkVars
<1>2. ~Awaits' /\ ~Serving' /\ ServerHasExited'
  BY <1>1 DEF Awaits, Serving, ServerHasExited
<1>3. /\ MaxTries \in Nat /\ faults \in Nat /\ MaxTries <= MaxFaults /\ rtimer \in Nat
      /\ stimer \in {0, 1} /\ MaxFaults \in Nat
  BY TimedFacts
<1>4. CountInv'
  BY <1>2 DEF CountInv
<1>5. SentInv'
  <2>1. rstate = "FILENAME_POLL" => scount' + stimer' <= rtimer'
    BY <1>1, <1>3 DEF SilenceInv, SentInv
  <2> QED
    BY <1>1, <1>2, <2>1 DEF SentInv
<1>6. FaultlessInv'
  BY <1>1, <1>2 DEF SilenceInv, FaultlessInv, Awaits
<1>7. TimeoutInv' /\ TimesOutOnSilence'
  BY <1>2 DEF SilenceInv, TimeoutInv, TimesOutOnSilence
<1>8. GivesUpOnSilence'
  <2>1. rstate # "DONE" => AtLeast(scount + 1) \/ AtLeast(scount)
    BY <1>1 DEF SilenceInv, CountInv
  <2> QED
    BY <1>1, <1>3, <2>1 DEF AtLeast, GivesUpOnSilence
<1> QED
  BY <1>4, <1>5, <1>6, <1>7, <1>8 DEF SilenceInv

LEMMA ServerSilence ==
  ASSUME IInv, TimersInv, IInv', TimersInv', SilenceInv, ServerSteps
  PROVE  SilenceInv'
<1>1. ServerTurn
  BY DEF ServerSteps, ServerTurn
<1> QED
  BY <1>1, FilenameSilence, MovesSilence, SendsSilence, AnswersSilence,
     TimeoutsSilence, GiveUpSilence
  DEF ServerSteps, ServerMoves, ServerTimeouts

-----------------------------------------------------------------------------
(***************************************************************************)
(* rcopy.                                                                  *)
(***************************************************************************)
RcopyTurn == rtimer' = 0 /\ UNCHANGED <<serverVars, stimer, faults>>

\* What in_order does to the window when it has written a packet.
LEMMA ExpectedMoves ==
  ASSUME NEW w \in WindowType, NEW n \in Nat
  PROVE  advance(updateHighest(w, n)).current = w.current + 1
<1>1. updateHighest(w, n) \in WindowType /\ updateHighest(w, n).current = w.current
  BY UpdateHighestType
<1>2. PICK u \in WindowType : u = updateHighest(w, n) /\ u.current = w.current
  BY <1>1
<1>3. advance(u).current = u.current + 1
  BY AdvanceType
<1> QED
  BY <1>2, <1>3

\* An answer that is due is given, or rcopy ends.
LEMMA RcopyAnswers ==
  ASSUME IInv, TimersInv, RcopyMoves \/ ten_sec_timeout \/ filename_give_up,
         UNCHANGED serverVars, sstate # "NONE", AnswerDue, rstate' # "DONE"
  PROVE  AnswerDue'
<1>0. /\ toClient \in Seq(ServerPdu) /\ Len(toClient) \in Nat /\ toServer \in Seq(RcopyPdu)
      /\ rwin \in WindowType /\ rwin.current \in Nat
      /\ \A i \in 1 .. Len(toClient) : toClient[i].seq \in Nat
  BY TimedFacts, Types DEF IInv, CoreInv
<1>1. rstate \notin {"START", "FILENAME"}
  BY DEF IInv, CoreInv, HandshakeInv
<1>2. ASSUME UNCHANGED <<networkVars, rwin>>, rstate' # "FILENAME_POLL"
      PROVE  AnswerDue'
  BY <1>2 DEF AnswerDue, GetsAnswer, networkVars
<1>3. ASSUME NEW n \in Nat, sendRR(n) \/ sendEOF_ACK
      PROVE  AnswerDue'
  BY <1>0, <1>3 DEF AnswerDue, sendRR, sendEOF_ACK
<1>4. ASSUME toClient # <<>>, toClient' = Tail(toClient), rwin'.current = rwin.current,
             rstate' # "FILENAME_POLL", toServer # <<>> => toServer' # <<>>,
             ~GetsAnswer(1)
      PROVE  AnswerDue'
  <2>1. CASE toServer # <<>>
    BY <1>4, <2>1 DEF AnswerDue
  <2>2. CASE toServer = <<>>
    <3>1. PICK i \in 1 .. Len(toClient) : GetsAnswer(i)
      BY <2>2 DEF AnswerDue
    <3>2. i - 1 \in 1 .. Len(toClient') /\ toClient'[i - 1] = toClient[i]
      <4>1. i # 1
        BY <1>4, <3>1
      <4> QED
        BY <1>0, <1>4, <4>1, TailFacts
    <3>3. \E k \in 1 .. Len(toClient') : GetsAnswer(k)'
      BY <1>4, <3>1, <3>2 DEF GetsAnswer
    <3> QED
      BY <3>3 DEF AnswerDue
  <2> QED
    BY <2>1, <2>2
<1>5. CASE filename_recv
  BY <1>4, <1>5 DEF filename_recv, GetsAnswer, RcopyGoes, RcopyExits
<1>6. CASE file_okay \/ flush_gap
  BY <1>2, <1>6 DEF file_okay, flush_gap, RcopyGoes, RcopyExits, networkVars
<1>7. toClient # <<>> => Received = toClient[1] /\ Received.seq \in Nat
  BY <1>0, TailFacts DEF Received
<1>8. CASE discard
  <2>1. ~GetsAnswer(1)
    BY <1>7, <1>8 DEF discard, GetsAnswer, processPDU_ISSUE
  <2> QED
    BY <1>4, <1>8, <2>1 DEF discard, rcopyVars
<1>9. CASE in_order_expected \/ flush_write
         \/ (buffering_expected /\ Received.flag # "EOF")
  <2>1. \A w : w.current \in Nat =>
          \A payload, state : WriteCurrent(payload, w, state) => AnswerDue'
    BY <1>3 DEF WriteCurrent, RcopyExits
  <2>2. /\ Received.seq \in Nat =>
             advance(updateHighest(rwin, Received.seq)).current = rwin.current + 1
        /\ advance(rwin).current = rwin.current + 1
        /\ advance(remove_PDU(rwin, rwin.current)).current = rwin.current + 1
    <3>1. remove_PDU(rwin, rwin.current) \in WindowType
      BY <1>0, RemoveType
    <3>2. /\ advance(rwin).current = rwin.current + 1
          /\ advance(remove_PDU(rwin, rwin.current)).current = rwin.current + 1
      BY <1>0, <3>1, AdvanceType, RemoveType
    <3>3. ASSUME Received.seq \in Nat
          PROVE  advance(updateHighest(rwin, Received.seq)).current = rwin.current + 1
      BY <1>0, <3>3, ExpectedMoves
    <3> QED
      BY <3>2, <3>3
  <2> QED
    BY <1>0, <1>7, <1>9, <2>1, <2>2
    DEF in_order_expected, flush_write, buffering_expected, Receives
<1>10. CASE in_order_eof \/ flush_eof \/ ten_sec_timeout \/ filename_give_up
  BY <1>10 DEF in_order_eof, flush_eof, ten_sec_timeout, filename_give_up, RcopyExits
<1>11. CASE in_order_old \/ buffering_old
  <2>1. rwin.lower \in Nat
    BY Types DEF IInv, CoreInv
  <2> QED
    BY <1>0, <1>3, <1>11, <2>1 DEF in_order_old, buffering_old
<1>12. CASE buffering_expected /\ Received.flag = "EOF"
  <2>1. rstate = "BUFFERING" /\ toClient # <<>> /\ Received.seq = rwin.current
    BY <1>12 DEF buffering_expected, Receives
  <2>2. 1 \in 1 .. Len(toClient)
    BY <1>0, <2>1, TailFacts
  <2>3. toClient[1].seq > rwin.current
    BY <1>7, <1>12, <2>1, <2>2, EofNeverExpected DEF NoEOFWhileBuffering
  <2> QED
    BY <1>0, <1>7, <2>1, <2>3
<1>13. CASE in_order_ahead \/ buffering_ahead
  <2>1. /\ rstate \in {"IN_ORDER", "BUFFERING"} /\ rstate' # "FILENAME_POLL"
        /\ toClient # <<>> /\ toClient' = Tail(toClient)
        /\ Received.seq > rwin.current
    BY <1>13 DEF in_order_ahead, buffering_ahead, Receives, RcopyGoes
  <2>2. ~GetsAnswer(1)
    BY <1>0, <1>7, <2>1 DEF GetsAnswer
  <2>3. rwin'.current = rwin.current
    <3>1. Received \in ServerPdu /\ Received.seq \in Nat /\ rwin.highest \in Nat
      BY <1>0, <1>7, <2>1, TailFacts, Types DEF Received, IInv, CoreInv
    <3>2. CASE in_order_ahead
      <4>1. PICK w \in WindowType :
              w = updateHighest(rwin, Received.seq) /\ w.current = rwin.current
        BY <1>0, <3>1, UpdateHighestType
      <4>2. add_PDU(w, Received, Received.seq).current = w.current
        BY <3>1, AddType
      <4>3. rwin' = add_PDU(w, Received, Received.seq)
        BY <3>2, <4>1 DEF in_order_ahead
      <4> QED
        BY <4>1, <4>2, <4>3
    <3>3. CASE buffering_ahead
      <4>1. PICK h \in Nat :
              rwin' = updateHighest(add_PDU(rwin, Received, Received.seq), h)
        BY <3>1, <3>3 DEF buffering_ahead
      <4>2. PICK w \in WindowType :
              w = add_PDU(rwin, Received, Received.seq) /\ w.current = rwin.current
        <5>1. /\ add_PDU(rwin, Received, Received.seq) \in WindowType
              /\ add_PDU(rwin, Received, Received.seq).current = rwin.current
          BY <1>0, <3>1, AddType
        <5> QED
          BY <5>1
      <4>3. updateHighest(w, h).current = w.current
        BY UpdateHighestType
      <4> QED
        BY <4>1, <4>2, <4>3
    <3> QED
      BY <1>13, <3>2, <3>3
  <2>4. toServer # <<>> => toServer' # <<>>
    <3>1. Received.seq \in Nat /\ rwin.highest + 1 \in Nat
      BY <1>7, <2>1, Types DEF IInv, CoreInv
    <3>2. PICK srejs \in Seq(RcopyPdu) : toServer' = toServer \o srejs
      BY <1>0, <1>13, <3>1, SREJsType DEF in_order_ahead, buffering_ahead
    <3>3. /\ Len(toServer) \in Nat /\ Len(srejs) \in Nat
          /\ Len(toServer') = Len(toServer) + Len(srejs)
      BY <1>0, <3>2, ConcatFacts
    <3> QED
      BY <1>0, <3>3
  <2> QED
    BY <1>4, <2>1, <2>2, <2>3, <2>4
<1> QED
  BY <1>1, <1>5, <1>6, <1>8, <1>9, <1>10, <1>11, <1>12, <1>13
  DEF RcopyMoves, start, filename_send

\* rcopy leaves the handshake by an answer of the child, and ends only once.
LEMMA RcopyPasses ==
  ASSUME IInv, RcopyMoves \/ ten_sec_timeout \/ filename_give_up
  PROVE  /\ rstate # "DONE"
         /\ rstate' = "FILENAME_POLL" => sstate = "NONE"
         /\ rstate' = "FILE_OKAY" =>
              rstate = "FILENAME_POLL" /\ UNCHANGED <<toServer, rwin>> /\ toClient # <<>>
              /\ toClient' = Tail(toClient)
         /\ rstate' = "DONE" \/ rcause' = rcause
         /\ rcause' = "timeout" => rcause = "timeout" \/ ten_sec_timeout
<1>1. rstate \in {"START", "FILENAME"} => sstate = "NONE"
  BY DEF IInv, CoreInv, HandshakeInv
<1> USE DEF RcopyGoes, RcopyExits, Receives
<1>2. CASE start \/ filename_send \/ filename_recv \/ file_okay \/ filename_give_up
  BY <1>1, <1>2 DEF start, filename_send, filename_recv, file_okay, filename_give_up
<1>3. CASE discard \/ ten_sec_timeout \/ in_order_eof \/ in_order_ahead \/ in_order_old
             \/ buffering_ahead \/ buffering_old
  BY <1>3 DEF discard, ten_sec_timeout, in_order_eof, in_order_ahead, in_order_old,
              buffering_ahead, buffering_old, rcopyVars
<1>4. CASE in_order_expected \/ buffering_expected \/ flush_write \/ flush_eof \/ flush_gap
  BY <1>4 DEF in_order_expected, buffering_expected, flush_write, flush_eof, flush_gap,
              WriteCurrent
<1> QED
  BY <1>2, <1>3, <1>4 DEF RcopyMoves

\* Without a fault rcopy takes the response, and then one packet after the
\* other.
LEMMA FaultlessRcopy ==
  ASSUME IInv, TimersInv, RcopyMoves \/ ten_sec_timeout \/ filename_give_up,
         UNCHANGED serverVars, sstate # "NONE", rstate' # "DONE",
         rstate \in {"FILENAME_POLL", "FILE_OKAY", "IN_ORDER"}, StreamInv, RRsInv
  PROVE  /\ rstate' \in {"FILENAME_POLL", "FILE_OKAY", "IN_ORDER"}
         /\ StreamInv' /\ RRsInv'
<1> USE DEF serverVars
<1>1. /\ toClient \in Seq(ServerPdu) /\ toServer \in Seq(RcopyPdu)
      /\ Len(toClient) \in Nat /\ Len(toServer) \in Nat
      /\ rwin \in WindowType /\ rwin.current \in Nat
      /\ NumbersSent \in Int /\ NumbersSent' = NumbersSent
  <2>1. rwin \in WindowType
    BY Types DEF IInv, CoreInv
  <2>2. NumbersSent' = NumbersSent
    BY DEF NumbersSent
  <2>3. NumbersSent \in Int
    BY TimedFacts DEF NumbersSent
  <2> QED
    BY <2>1, <2>2, <2>3, TimedFacts
<1>2. toClient # <<>> =>
        /\ 1 \in 1 .. Len(toClient) /\ Head(toClient) = toClient[1]
        /\ Len(Tail(toClient)) = Len(toClient) - 1
        /\ Len(Tail(toClient)) \in Nat
        /\ \A i \in 1 .. Len(Tail(toClient)) :
             i + 1 \in 1 .. Len(toClient) /\ Tail(toClient)[i] = toClient[i + 1]
  BY <1>1, TailFacts
<1>3. rstate = "IN_ORDER" /\ toClient # <<>> =>
        Received.flag \in {"DATA", "EOF"} /\ Received.seq = rwin.current
  BY <1>1, <1>2 DEF StreamInv, Responses, Received
<1>4. CASE filename_recv
  <2>1. /\ rstate = "FILENAME_POLL" /\ toClient # <<>> /\ toClient' = Tail(toClient)
        /\ UNCHANGED <<toServer, rwin>>
    BY <1>4 DEF filename_recv
  <2>2. rstate' = "FILE_OKAY"
    BY <1>4 DEF filename_recv, RcopyGoes, RcopyExits
  <2>3. Responses = 1 /\ Responses' = 0
    BY <2>1, <2>2 DEF Responses
  <2>4. \A i \in 1 .. Len(toClient') : i \in Nat /\ i >= 1
    BY <1>2, <2>1
  <2>5. StreamInv'
    BY <1>1, <1>2, <2>1, <2>3, <2>4 DEF StreamInv
  <2> QED
    BY <2>1, <2>2, <2>5 DEF RRsInv
<1>5. CASE file_okay
  BY <1>1, <1>5 DEF file_okay, RcopyGoes, RcopyExits, networkVars, StreamInv, RRsInv, Responses
<1>6. CASE in_order_expected
  <2>1. Received.seq = rwin.current /\ rstate = "IN_ORDER"
        /\ toClient # <<>> /\ toClient' = Tail(toClient)
    BY <1>6 DEF in_order_expected, Receives
  <2>2. PICK n \in Nat : n = rwin.current + 1 /\ rwin'.current = n
                         /\ toServer' = Append(toServer, rcopyPDU("RR", n)) /\ rstate' = "IN_ORDER"
    <3>1. advance(updateHighest(rwin, Received.seq)).current = rwin.current + 1
      BY <1>1, <2>1, ExpectedMoves
    <3> QED
      BY <1>1, <1>6, <3>1 DEF in_order_expected, WriteCurrent, sendRR, RcopyGoes, RcopyExits
  <2>3. rcopyPDU("RR", n) \in RcopyPdu /\ rcopyPDU("RR", n).flag = "RR"
        /\ rcopyPDU("RR", n).num = n
    BY RcopyPDUType DEF rcopyPDU, RcopyFlags
  <2>4. /\ Len(toServer') = Len(toServer) + 1
        /\ \A i \in 1 .. Len(toServer) : toServer'[i] = toServer[i]
        /\ toServer'[Len(toServer) + 1] = rcopyPDU("RR", n)
        /\ toServer' # <<>>
    BY <1>1, <2>2, <2>3, AppendFacts
  <2>5. RRsInv'
    <3>1. ASSUME NEW i \in 1 .. Len(toServer')
          PROVE  toServer'[i].flag = "RR"
      <4>1. i \in 1 .. Len(toServer) \/ i = Len(toServer) + 1
        BY <1>1, <2>4
      <4> QED
        BY <2>3, <2>4, <4>1 DEF RRsInv
    <3>2. toServer'[Len(toServer')].num = rwin'.current
      BY <2>2, <2>3, <2>4
    <3> QED
      BY <2>4, <3>1, <3>2 DEF RRsInv
  <2>6. StreamInv'
    <3>1. Responses = 0 /\ Responses' = 0
      BY <2>1, <2>2 DEF Responses
    <3>2. Len(toClient') = Responses' + NumbersSent' - rwin'.current
      BY <1>1, <1>2, <2>1, <2>2, <3>1 DEF StreamInv
    <3>3. ASSUME NEW i \in 1 .. Len(toClient')
          PROVE  /\ toClient'[i].flag \in {"DATA", "EOF"}
                 /\ toClient'[i].seq = rwin'.current + i - 1 - 0
                 /\ ~(i <= 0)
      <4>1. i \in Nat /\ i >= 1
        BY <1>2, <2>1
      <4>2. i + 1 \in 1 .. Len(toClient) /\ toClient'[i] = toClient[i + 1] /\ ~(i + 1 <= 0)
        BY <1>2, <2>1, <4>1
      <4>3. toClient[i + 1].flag \in {"DATA", "EOF"}
            /\ toClient[i + 1].seq = rwin.current + (i + 1) - 1 - 0
        BY <3>1, <4>2 DEF StreamInv
      <4>4. \A c, j \in Nat : c + (j + 1) - 1 - 0 = (c + 1) + j - 1 - 0
        OBVIOUS
      <4>5. rwin.current + (i + 1) - 1 - 0 = rwin'.current + i - 1 - 0
        BY <1>1, <2>2, <4>1, <4>4
      <4> QED
        BY <4>1, <4>2, <4>3, <4>5
    <3> QED
      BY <3>1, <3>2, <3>3 DEF StreamInv
  <2> QED
    BY <2>2, <2>5, <2>6
<1>7. ~(discard \/ in_order_ahead \/ in_order_old)
  BY <1>1, <1>3 DEF discard, in_order_ahead, in_order_old, Receives, processPDU_ISSUE
<1>8. ~(in_order_eof \/ ten_sec_timeout \/ filename_give_up)
  BY DEF in_order_eof, ten_sec_timeout, filename_give_up, RcopyExits
<1>9. ~(start \/ filename_send)
  BY DEF start, filename_send
<1>10. ~(buffering_ahead \/ buffering_expected \/ buffering_old
         \/ flush_write \/ flush_eof \/ flush_gap)
  BY DEF buffering_ahead, buffering_expected, buffering_old, flush_write, flush_eof,
         flush_gap, Receives
<1> QED
  BY <1>4, <1>5, <1>6, <1>7, <1>8, <1>9, <1>10 DEF RcopyMoves

LEMMA RcopySilence ==
  ASSUME IInv, TimersInv, SilenceInv, RcopySteps
  PROVE  SilenceInv'
<1> USE DEF serverVars
<1>1. /\ RcopyMoves \/ ten_sec_timeout \/ filename_give_up
      /\ rtimer' = 0 /\ UNCHANGED <<serverVars, stimer, faults>>
  BY DEF RcopySteps
<1>2. /\ rstate # "DONE"
      /\ rstate' = "FILENAME_POLL" => sstate = "NONE"
      /\ rstate' = "FILE_OKAY" => rstate = "FILENAME_POLL" /\ UNCHANGED toServer
      /\ rstate' = "DONE" \/ rcause' = rcause
      /\ rcause' = "timeout" => rcause = "timeout" \/ ten_sec_timeout
  BY <1>1, RcopyPasses
<1>3. /\ scount \in Nat /\ stimer \in {0, 1} /\ rtimer \in Nat /\ faults \in Nat
      /\ TEN_SEC \in Nat /\ TEN_SEC >= 1 /\ TEN_SEC <= MaxFaults /\ MaxFaults \in Nat
  BY TimedFacts
<1>4. rcause # "timeout"
  BY <1>2 DEF SilenceInv, TimeoutInv
<1>5. CountInv'
  <2>1. SUFFICES ASSUME Awaits, rstate' # "DONE"
                 PROVE  CountInv'
    BY <1>1 DEF CountInv, Awaits
  <2>2. AnswerDue => AnswerDue'
    BY <1>1, <2>1, RcopyAnswers DEF Awaits
  <2>3. /\ AtLeast(scount + 1) \/ (AtLeast(scount) /\ AnswerDue)
        /\ stimer = ONE_SEC => AtLeast(scount + 1)
    BY <1>2, <2>1 DEF SilenceInv, CountInv
  <2> QED
    BY <1>1, <2>2, <2>3 DEF CountInv, AtLeast
<1>6. SentInv'
  <2>1. sstate = "NONE" => stimer = 0 /\ scount = 0
    BY DEF SilenceInv, SentInv, IInv, CoreInv, HandshakeInv, NoChild
  <2> QED
    BY <1>1, <1>2, <2>1 DEF SentInv, Serving, Awaits
<1>7. FaultlessInv'
  <2>1. rstate' \in {"FILENAME_POLL", "FILE_OKAY"} /\ sstate' # "NONE" => toServer' = <<>>
    BY <1>1, <1>2 DEF SilenceInv, FaultlessInv
  <2>2. SUFFICES ASSUME faults = 0, Serving, rstate' # "DONE"
                 PROVE  /\ rstate' \in {"FILENAME_POLL", "FILE_OKAY", "IN_ORDER"}
                        /\ StreamInv' /\ RRsInv'
    BY <1>1, <2>1 DEF FaultlessInv, Serving
  <2>3. sstate # "NONE" /\ rstate \in {"FILENAME_POLL", "FILE_OKAY", "IN_ORDER"}
        /\ StreamInv /\ RRsInv
    BY <1>2, <2>2 DEF SilenceInv, FaultlessInv, Serving
  <2> QED
    BY <1>1, <2>2, <2>3, FaultlessRcopy
<1>8. TimeoutInv'
  BY <1>1, <1>2, <1>4 DEF TimeoutInv, ten_sec_timeout, RcopyExits
<1>9. GivesUpOnSilence'
  BY <1>1, <1>2 DEF SilenceInv, GivesUpOnSilence
<1>10. TimesOutOnSilence'
  <2>1. SUFFICES ASSUME ten_sec_timeout, ~ServerHasExited
                 PROVE  faults >= TEN_SEC
    BY <1>1, <1>2, <1>4 DEF TimesOutOnSilence, ServerHasExited
  <2>2. rstate \in {"IN_ORDER", "BUFFERING"}
    BY <2>1 DEF ten_sec_timeout
  <2>3. RcopyExpired
    <3>1. ~filename_give_up
      BY <2>2 DEF filename_give_up
    <3>2. rcause' = "timeout"
      BY <2>1 DEF ten_sec_timeout, RcopyExits
    <3>3. ~RcopyMoves
      <4>1. ~(start \/ filename_send \/ filename_recv \/ file_okay)
        BY <2>2 DEF start, filename_send, filename_recv, file_okay
      <4> QED
        BY <1>4, <3>2, <4>1
        DEF RcopyMoves, discard, in_order_expected, in_order_eof, in_order_ahead, in_order_old,
            buffering_ahead, buffering_expected, buffering_old, flush_write, flush_eof,
            flush_gap, WriteCurrent, RcopyGoes, RcopyExits, rcopyVars
    <3> QED
      BY <3>1, <3>3 DEF RcopySteps
  <2>4. rtimer = TEN_SEC
    BY <2>2, <2>3 DEF RcopyExpired, RcopyTimeout
  <2>5. AtLeast(TEN_SEC)
    BY <1>3, <2>1, <2>2, <2>4 DEF SilenceInv, TimeoutInv
  <2> QED
    BY <1>3, <2>5 DEF AtLeast
<1> QED
  BY <1>5, <1>6, <1>7, <1>8, <1>9, <1>10 DEF SilenceInv

-----------------------------------------------------------------------------
(***************************************************************************)
(* The new socket, the clock and the network.                              *)
(***************************************************************************)
LEMMA RetrySilence ==
  ASSUME TimersInv, SilenceInv, RetrySteps
  PROVE  SilenceInv'
<1>1. /\ rstate' = "FILENAME" /\ rcause' = rcause /\ rstate = "FILENAME_POLL"
      /\ sstate' = "NONE" /\ scause' = "none" /\ stimer' = 0
  BY DEF RetrySteps, Retry, filename_retry, OrphanChild, RcopyGoes
<1>2. rcause # "timeout"
  BY <1>1 DEF SilenceInv, TimeoutInv
<1>3. CountInv' /\ SentInv' /\ FaultlessInv' /\ TimeoutInv'
  BY <1>1, <1>2 DEF CountInv, SentInv, FaultlessInv, TimeoutInv, Awaits, Serving
<1> QED
  BY <1>1, <1>2, <1>3 DEF SilenceInv, GivesUpOnSilence, TimesOutOnSilence

\* A second passes only when nothing is under way, so each answer that was
\* due has been given.
LEMMA TickSilence ==
  ASSUME IInv, TimersInv, SilenceInv, Tick
  PROVE  SilenceInv'
<1> USE DEF vars, networkVars, serverVars, rcopyVars
<1>1. /\ UNCHANGED <<vars, faults>>
      /\ stimer' = IF ServerWaits THEN stimer + 1 ELSE stimer
      /\ rtimer' = IF RcopyWaits THEN rtimer + 1 ELSE rtimer
  BY DEF Tick
<1>2. /\ ServerWaits \/ sstate = "NONE" \/ ServerHasExited
      /\ RcopyWaits \/ rstate = "DONE"
      /\ toServer = <<>> \/ ServerHasExited
      /\ toClient = <<>> \/ rstate = "DONE"
      /\ ServerWaits => stimer # ONE_SEC
  BY DEF Tick, Quiet, ServerExpired
<1>3. /\ scount \in Nat /\ stimer \in {0, 1} /\ rtimer \in Nat /\ faults \in Nat
      /\ sstate = "WINDOW_CLOSED" => swin.current > 0
  BY TimedFacts
<1>4. Awaits => ~ServerHasExited /\ sstate # "NONE" /\ Serving /\ ServerWaits
  BY <1>2 DEF Awaits, ServerHasExited, Serving, ServerWaits
<1>5. Awaits /\ rstate # "DONE" => AtLeast(scount + 1)
  <2>1. SUFFICES ASSUME Awaits, rstate # "DONE"
                 PROVE  AtLeast(scount + 1)
    OBVIOUS
  <2>2. toServer = <<>> /\ toClient = <<>>
    BY <1>2, <1>4, <2>1
  <2>3. ~AnswerDue
    BY <2>2 DEF AnswerDue
  <2> QED
    BY <2>1, <2>3 DEF SilenceInv, CountInv
<1>6. CountInv'
  BY <1>1, <1>5 DEF CountInv, Awaits, AtLeast
<1>7. SentInv'
  <2>1. sstate = "NONE" => stimer' = 0
    BY <1>1 DEF SilenceInv, SentInv, ServerWaits
  <2>2. SUFFICES ASSUME rstate = "FILENAME_POLL"
                 PROVE  /\ Serving => AtLeast(Sent - Len(toClient))
                        /\ scount + stimer' <= rtimer'
                        /\ Awaits => AtLeast(2)
    BY <1>1, <2>1 DEF SentInv, Serving, Sent, Awaits, AtLeast
  <2>3. /\ Serving => AtLeast(Sent - Len(toClient))
        /\ scount + stimer <= rtimer
    BY <2>2 DEF SilenceInv, SentInv
  <2>4. scount + stimer' <= rtimer'
    <3>1. rtimer' = rtimer + 1
      BY <1>1, <2>2 DEF RcopyWaits
    <3>2. stimer' = stimer \/ stimer' = stimer + 1
      BY <1>1
    <3> QED
      BY <1>3, <2>3, <3>1, <3>2
  <2>5. ASSUME Awaits
        PROVE  AtLeast(2)
    <3>1. Sent = 2
      BY <1>3, <2>5 DEF Awaits, Sent
    <3>2. Len(toClient) = 0
      BY <1>2, <2>2
    <3> QED
      BY <1>4, <2>3, <2>5, <3>1, <3>2 DEF AtLeast
  <2> QED
    BY <2>3, <2>4, <2>5
<1>8. FaultlessInv'
  BY <1>1 DEF SilenceInv, FaultlessInv, Serving, StreamInv, RRsInv, Responses, NumbersSent
<1>9. TimeoutInv'
  <2>1. SUFFICES ASSUME rstate \in {"IN_ORDER", "BUFFERING"}, ~ServerHasExited
                 PROVE  /\ toServer = <<>> /\ Awaits /\ AtLeast(rtimer + 1)
                        /\ stimer' = ONE_SEC /\ toClient = <<>> /\ rtimer' = rtimer + 1
    BY <1>1 DEF SilenceInv, TimeoutInv, ServerHasExited, Awaits, AtLeast
  <2>2. sstate # "NONE"
    BY <2>1 DEF IInv, CoreInv, HandshakeInv
  <2>3. ServerWaits /\ Awaits
    BY <1>2, <2>1, <2>2 DEF ServerWaits, Awaits
  <2>4. stimer = 0 /\ stimer' = ONE_SEC /\ rtimer' = rtimer + 1
    BY <1>1, <1>2, <1>3, <2>1, <2>3 DEF ONE_SEC, RcopyWaits
  <2>5. toServer = <<>> /\ toClient = <<>>
    BY <1>2, <2>1
  <2>6. AtLeast(rtimer + 1)
    <3>1. CASE rtimer = 0
      BY <1>3, <1>5, <2>1, <2>3, <3>1 DEF AtLeast
    <3>2. CASE rtimer # 0
      <4>1. rtimer >= 1
        BY <1>3, <3>2
      <4> QED
        BY <2>1, <2>4, <2>5, <4>1 DEF SilenceInv, TimeoutInv, ONE_SEC
    <3> QED
      BY <3>1, <3>2
  <2> QED
    BY <2>3, <2>4, <2>5, <2>6
<1>10. GivesUpOnSilence' /\ TimesOutOnSilence'
  BY <1>1 DEF SilenceInv, GivesUpOnSilence, TimesOutOnSilence, ServerHasExited
<1> QED
  BY <1>6, <1>7, <1>8, <1>9, <1>10 DEF SilenceInv

\* One fault counts for one packet, or one answer.
LEMMA FaultSilence ==
  ASSUME IInv, TimersInv, SilenceInv, NetworkFaults,
         faults' = IF faults < MaxFaults THEN faults + 1 ELSE faults
  PROVE  SilenceInv'
<1> USE DEF serverVars, rcopyVars
<1>1. UNCHANGED <<serverVars, rcopyVars, stimer, rtimer>>
  BY DEF NetworkFaults
<1>2. /\ toClient \in Seq(ServerPdu) /\ toServer \in Seq(RcopyPdu)
      /\ Len(toClient) \in Nat
      /\ scount \in Nat /\ rtimer \in Nat /\ faults \in Nat /\ faults <= MaxFaults
      /\ MaxFaults \in Nat /\ TEN_SEC \in Nat /\ TEN_SEC >= 1 /\ TEN_SEC <= MaxFaults
      /\ MaxTries \in Nat
  BY TimedFacts
<1>3. /\ toServer = <<>> => toServer' = <<>>
      /\ toClient = <<>> => toClient' = <<>>
      /\ Len(toClient') = Len(toClient) \/ Len(toClient') = Len(toClient) - 1
  BY <1>2 DEF NetworkFaults, NetworkStep, DropToClient, DropToServer, FlipToClient,
              FlipToServer
<1>4. faults' \in Nat /\ faults' # 0 /\ faults' >= faults
  BY <1>2
<1>5. ASSUME NEW k \in Int, AtLeast(k)
      PROVE  faults' >= k + 1 \/ faults' = MaxFaults
  BY <1>2, <1>5 DEF AtLeast
<1>6. ASSUME NEW k \in Int, AtLeast(k)
      PROVE  faults' >= k \/ faults' = MaxFaults
  BY <1>2, <1>6 DEF AtLeast
<1>7. CountInv'
  <2>1. SUFFICES ASSUME Awaits, rstate # "DONE"
                 PROVE  faults' >= scount + 1 \/ faults' = MaxFaults
    BY <1>1 DEF CountInv, Awaits, AtLeast
  <2>2. AtLeast(scount + 1) \/ AtLeast(scount)
    BY <2>1 DEF SilenceInv, CountInv
  <2> QED
    BY <1>2, <1>5, <1>6, <2>2
<1>8. SentInv'
  <2>1. SUFFICES ASSUME rstate = "FILENAME_POLL"
                 PROVE  /\ Serving => \/ faults' >= Sent - Len(toClient')
                                      \/ faults' = MaxFaults
                        /\ Awaits /\ scount + stimer >= 1 => faults' >= 2 \/ faults' = MaxFaults
    BY <1>1 DEF SilenceInv, SentInv, Serving, Sent, Awaits, AtLeast
  <2>2. /\ Serving => AtLeast(Sent - Len(toClient))
        /\ Awaits /\ scount + stimer >= 1 => AtLeast(2)
    BY <2>1 DEF SilenceInv, SentInv
  <2>3. Sent \in Nat /\ Sent - Len(toClient) \in Int
    BY <1>2 DEF Sent
  <2>4. ASSUME Serving
        PROVE  faults' >= Sent - Len(toClient') \/ faults' = MaxFaults
    <3>1. CASE Len(toClient') = Len(toClient)
      BY <1>6, <2>2, <2>3, <2>4, <3>1
    <3>2. CASE Len(toClient') = Len(toClient) - 1
      <4>1. Sent - Len(toClient') = (Sent - Len(toClient)) + 1
        BY <1>2, <2>3, <3>2
      <4> QED
        BY <1>5, <2>2, <2>3, <2>4, <4>1
    <3> QED
      BY <1>3, <3>1, <3>2
  <2> QED
    BY <1>6, <2>2, <2>4
<1>9. FaultlessInv'
  BY <1>1, <1>3, <1>4 DEF SilenceInv, FaultlessInv
<1>10. TimeoutInv'
  <2>1. rcause = "timeout" => rstate = "DONE"
    BY DEF SilenceInv, TimeoutInv
  <2>2. SUFFICES ASSUME rstate \in {"IN_ORDER", "BUFFERING"}, ~ServerHasExited, rtimer >= 1
                 PROVE  /\ toServer' = <<>> /\ Awaits
                        /\ faults' >= rtimer \/ faults' = MaxFaults
                        /\ \/ stimer = ONE_SEC /\ toClient' = <<>>
                           \/ stimer = 0 /\ (faults' >= rtimer + 1 \/ faults' = MaxFaults)
    BY <1>1, <2>1 DEF TimeoutInv, ServerHasExited, Awaits, AtLeast
  <2>3. /\ toServer = <<>> /\ Awaits /\ AtLeast(rtimer)
        /\ \/ stimer = ONE_SEC /\ toClient = <<>>
           \/ stimer = 0
    BY <2>2 DEF SilenceInv, TimeoutInv
  <2> QED
    BY <1>2, <1>3, <1>5, <1>6, <2>3
<1>11. GivesUpOnSilence' /\ TimesOutOnSilence'
  BY <1>1, <1>2, <1>4 DEF SilenceInv, GivesUpOnSilence, TimesOutOnSilence, ServerHasExited
<1> QED
  BY <1>7, <1>8, <1>9, <1>10, <1>11 DEF SilenceInv

-----------------------------------------------------------------------------
LEMMA SilenceInit == TimedInit => SilenceInv
<1> SUFFICES ASSUME TimedInit
             PROVE  SilenceInv
  OBVIOUS
<1>1. /\ sstate = "NONE" /\ rstate = "START" /\ rcause = "none" /\ scause = "none"
      /\ stimer = 0
  BY DEF TimedInit, Init, NoChild, RcopyInit
<1> QED
  BY <1>1 DEF SilenceInv, CountInv, SentInv, FaultlessInv, TimeoutInv, GivesUpOnSilence,
              TimesOutOnSilence, Awaits, Serving

LEMMA SilenceUnchanged ==
  ASSUME SilenceInv, UNCHANGED timedVars
  PROVE  SilenceInv'
BY DEF SilenceInv, CountInv, SentInv, FaultlessInv, TimeoutInv, GivesUpOnSilence,
       TimesOutOnSilence, Awaits, Serving, ServerHasExited, AtLeast, AnswerDue, GetsAnswer,
       Sent, StreamInv, RRsInv, NumbersSent, Responses,
       timedVars, vars, networkVars, serverVars, rcopyVars

LEMMA SilenceNext ==
  IInv /\ IInv' /\ TimersInv /\ TimersInv' /\ SilenceInv /\ [TimedNext]_timedVars => SilenceInv'
<1> SUFFICES ASSUME IInv, IInv', TimersInv, TimersInv', SilenceInv, [TimedNext]_timedVars
             PROVE  SilenceInv'
  OBVIOUS
<1>1. CASE Ended \/ UNCHANGED timedVars
  <2>1. UNCHANGED timedVars
    BY <1>1 DEF Ended, Terminated, timedVars
  <2> QED
    BY <2>1, SilenceUnchanged
<1> QED
  BY <1>1, ServerSilence, RcopySilence, RetrySilence, TickSilence, FaultSilence
  DEF TimedNext, ProgramSteps

\* The count of the faults holds in every state of a run with time: none of the
\* two properties is inductive without it.
THEOREM SilenceCorrect == TimedSpec => []SilenceInv
<1>1. TimedSpec => [](IInv /\ TimersInv)
  BY TimedImplementsTransfer, InvCorrect, TimersInit, TimersNext, PTL DEF TimedSpec
<1> QED
  BY <1>1, SilenceInit, SilenceNext, PTL DEF TimedSpec

\* The child gives up on an rcopy that has not ended only when the network
\* has lost as many datagrams as it has tries: a resend is never counted
\* without one, in the handshake or after it (server.c:278, 323, 335, 380).
THEOREM GivesUpCorrect == TimedSpec => []GivesUpOnSilence
<1>1. SilenceInv => GivesUpOnSilence
  BY DEF SilenceInv
<1> QED
  BY <1>1, SilenceCorrect, PTL

\* rcopy gives up on a child that has not exited only when the network has
\* lost a datagram in each of the ten seconds (rcopy.c:169, 288).
THEOREM TimesOutCorrect == TimedSpec => []TimesOutOnSilence
<1>1. SilenceInv => TimesOutOnSilence
  BY DEF SilenceInv
<1> QED
  BY <1>1, SilenceCorrect, PTL
=============================================================================

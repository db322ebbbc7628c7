----------------------------- MODULE Processes -----------------------------
(***************************************************************************)
(* The processes: the main server, the children it forks, and several      *)
(* rcopies, with their file descriptors and poll sets.  The transfers are  *)
(* those of an empty file, FILENAME, FILE_OK, EOF and EOF_ACK; Transfer    *)
(* has all others.  What is followed here is who is forked for whom, who   *)
(* polls which socket, who waits for what, and that they come to an end.   *)
(***************************************************************************)
EXTENDS PollSet, Sequences

CONSTANTS
  Clients,       \* the rcopies
  MaxTries,      \* 10 in the code, for rcopy's handshake and the child
  MaxProcesses,  \* children, running or not waited for, that fork allows
  MaxQueue,      \* datagrams that the buffer of a socket holds
  Launches       \* files with which the shell starts a program

ASSUME ProcessesAssumption ==
  /\ MaxTries \in Nat \ {0}
  /\ MaxProcesses \in Nat
  /\ Launches \subseteq [Descriptors -> {"CLOSED", "OPEN", "HUNGUP"}]
  \* A socket and a file can be opened.
  /\ \A files \in Launches : \E d, e \in Descriptors :
       d # e /\ files[d] = "CLOSED" /\ files[e] = "CLOSED"

VARIABLES
  main,      \* the main server
  requests,  \* FILENAME packets in the buffer of its socket
  children,  \* the children it has forked, in that order
  rcopies    \* the rcopies, by client

vars == <<main, requests, children, rcopies>>

\* The client's socket, thus the client and its try, names a transfer.
Requests == [client : Clients, try : 0 .. MaxTries]

Process(files) == [files |-> files, ps |-> NoPollSet, socket |-> 0]

-----------------------------------------------------------------------------
\* socket() and bind(), in udpServerSetup and setupUdpClientToServer.
OpenSocket(p, kind) ==
  LET fd == LowestFree(p.files)
  IN  [p EXCEPT !.files[fd] = kind, !.socket = fd]

CloseSocket(p) == [p EXCEPT !.files[p.socket] = "CLOSED"]

OpenFile(p) == [p EXCEPT !.files[LowestFree(p.files)] = "OPEN"]

\* setupPollSet and addToPollSet of the socket, which all programs do together.
PollSocket(p) == [p EXCEPT !.ps = addToPollSet(setupPollSet(@), p.socket)]

RemoveSocket(p) == [p EXCEPT !.ps = removeFromPollSet(@, p.socket)]

\* The kinds of files of a process that have something to read.
Ready(inbox) ==
  (IF requests # <<>> THEN {"MAIN"} ELSE {}) \cup
  (IF inbox # <<>> THEN {"OWN"} ELSE {})

Polls(p, inbox) == pollCall(p.ps, p.files, Ready(inbox))

\* What a datagram does to a queue: it arrives if there is room, or is lost.
Sent(queue, datagram) ==
  {queue} \cup IF Len(queue) < MaxQueue THEN {Append(queue, datagram)} ELSE {}

-----------------------------------------------------------------------------
(* The main server.                                                        *)

MainInit(files) ==
  main = [state   |-> "POLL",
          process |-> PollSocket(OpenSocket(Process(files), "MAIN")),
          request |-> <<>>]

\* pollCall(-1) has no timeout.
MainPoll ==
  /\ main.state = "POLL"
  /\ Polls(main.process, <<>>) # -1
  /\ main' = [main EXCEPT !.state = "RECV"]
  /\ UNCHANGED <<requests, children, rcopies>>

MainRecv ==
  /\ main.state = "RECV"
  /\ requests # <<>>
  /\ main' = [main EXCEPT !.state = "FORK", !.request = <<Head(requests)>>]
  /\ requests' = Tail(requests)
  /\ UNCHANGED <<children, rcopies>>

NewChild == [state |-> "SETUP", process |-> main.process,
             request |-> main.request[1], inbox |-> <<>>, count |-> 0]

\* Mutant: the server ends with its first client.
fork_once ==
  /\ main.state = "FORK"
  /\ Len(children) < MaxProcesses
  /\ children' = Append(children, NewChild)
  /\ main' = [main EXCEPT !.state = "EXITED", !.request = <<>>]
  /\ UNCHANGED <<requests, rcopies>>

\* The child starts with a copy of everything.
MainFork ==
  /\ main.state = "FORK"
  /\ Len(children) < MaxProcesses
  /\ children' = Append(children, NewChild)
  /\ main' = [main EXCEPT !.state = "POLL", !.request = <<>>]
  /\ UNCHANGED <<requests, rcopies>>

\* Children that have exited count as well: nobody waits for them, since the
\* line that installs handleZombies is a comment.
MainForkFails ==
  /\ main.state = "FORK"
  /\ Len(children) >= MaxProcesses
  /\ main' = [main EXCEPT !.state = "EXITED", !.request = <<>>]
  /\ UNCHANGED <<requests, children, rcopies>>

MainStep == MainPoll \/ MainRecv \/ MainFork \/ MainForkFails

-----------------------------------------------------------------------------
(* The children.                                                           *)

\* A datagram to the client, which has it if it still has that socket.
ToClient(k, datagram) ==
  LET r == children[k].request
      c == rcopies[r.client]
  IN  IF c.count = r.try /\ c.state # "DONE"
      THEN \E q \in Sent(c.inbox, datagram) :
             rcopies' = [rcopies EXCEPT ![r.client].inbox = q]
      ELSE UNCHANGED rcopies

ChildGoes(k, state) == children' = [children EXCEPT ![k].state = state]

\* Mutant: the child leaves the socket of its parent open.
setup_without_close(k) ==
  /\ children[k].state = "SETUP"
  /\ children' = [children EXCEPT ![k].state = "FILENAME",
                                  ![k].process = OpenSocket(@, "OWN")]
  /\ UNCHANGED <<main, requests, rcopies>>

\* The poll set is the inherited one.
ChildSetup(k) ==
  /\ children[k].state = "SETUP"
  /\ children' = [children EXCEPT ![k].state = "FILENAME",
                                  ![k].process = OpenSocket(CloseSocket(@), "OWN")]
  /\ UNCHANGED <<main, requests, rcopies>>

\* filename: the from-file is opened, and FILE_OK goes out.
ChildFileOk(k) ==
  /\ children[k].state = "FILENAME"
  /\ children' = [children EXCEPT ![k].state = "SEND",
                                  ![k].process = OpenFile(@)]
  /\ ToClient(k, "FILE_OK")
  /\ UNCHANGED <<main, requests>>

\* There is no such file.
ChildFileNotOk(k) ==
  /\ children[k].state = "FILENAME"
  /\ ChildGoes(k, "ZOMBIE")
  /\ ToClient(k, "FILE_NOT_OK")
  /\ UNCHANGED <<main, requests>>

\* The FILENAME packet is corrupted.
ChildFilenameIssue(k) ==
  /\ children[k].state = "FILENAME"
  /\ ChildGoes(k, "ZOMBIE")
  /\ UNCHANGED <<main, requests, rcopies>>

\* window_open finds the end of the file, end_of_file sends EOF.
ChildSend(k) ==
  /\ children[k].state = "SEND"
  /\ ChildGoes(k, "POLL")
  /\ ToClient(k, "EOF")
  /\ UNCHANGED <<main, requests>>

ChildPoll(k) ==
  /\ children[k].state = "POLL"
  /\ Polls(children[k].process, children[k].inbox) # -1
  /\ ChildGoes(k, "RECV")
  /\ UNCHANGED <<main, requests, rcopies>>

\* Mutant: the tries are not counted.
timeout_not_counted(k) ==
  /\ children[k].state = "POLL"
  /\ Polls(children[k].process, children[k].inbox) = -1
  /\ UNCHANGED children
  /\ ToClient(k, "EOF")
  /\ UNCHANGED <<main, requests>>

\* pollCall(ONE_SEC) is -1: the EOF is sent again, ten times at most.
ChildTimeout(k) ==
  /\ children[k].state = "POLL"
  /\ Polls(children[k].process, children[k].inbox) = -1
  /\ children' = [children EXCEPT
       ![k].count = @ + 1,
       ![k].state = IF children[k].count + 1 < MaxTries THEN "POLL" ELSE "ZOMBIE"]
  /\ ToClient(k, "EOF")
  /\ UNCHANGED <<main, requests>>

\* EOF_ACK ends the transfer; a corrupted datagram sets the count back.
ChildRecv(k) ==
  /\ children[k].state = "RECV"
  /\ children[k].inbox # <<>>
  /\ \E state \in {"ZOMBIE", "POLL"} :
       children' = [children EXCEPT ![k].state = state,
                                    ![k].inbox = Tail(@),
                                    ![k].count = 0]
  /\ UNCHANGED <<main, requests, rcopies>>

\* exit(-1) of the child: socket or bind fails in udpServerSetup, or sendto in
\* safeSendto.
ChildExits(k) ==
  /\ \/ children[k].state \in {"SETUP", "FILENAME", "SEND"}
     \/ /\ children[k].state = "POLL"
        /\ Polls(children[k].process, children[k].inbox) = -1
  /\ ChildGoes(k, "ZOMBIE")
  /\ UNCHANGED <<main, requests, rcopies>>

ChildStep(k) ==
  /\ k \in DOMAIN children
  /\ \/ ChildSetup(k) \/ ChildFileOk(k) \/ ChildFileNotOk(k)
     \/ ChildFilenameIssue(k) \/ ChildSend(k) \/ ChildPoll(k)
     \/ ChildTimeout(k) \/ ChildRecv(k) \/ ChildExits(k)

-----------------------------------------------------------------------------
(* The rcopies.                                                            *)

\* start
RcopyInit(files) ==
  [state   |-> "SEND",
   process |-> PollSocket(OpenSocket(Process(files), "OWN")),
   count   |-> 0,
   inbox   |-> <<>>]

RcopyGoes(c, state) == rcopies' = [rcopies EXCEPT ![c].state = state]

RcopySend(c) ==
  /\ rcopies[c].state = "SEND"
  /\ requests' \in Sent(requests, [client |-> c, try |-> rcopies[c].count])
  /\ RcopyGoes(c, "POLL")
  /\ UNCHANGED <<main, children>>

RcopyPolls(c) == Polls(rcopies[c].process, rcopies[c].inbox)

RcopyPoll(c) ==
  /\ RcopyPolls(c) # -1
  /\ \/ rcopies[c].state = "POLL" /\ RcopyGoes(c, "RECV")
     \/ rcopies[c].state = "TRANSFER" /\ RcopyGoes(c, "RECV_EOF")
  /\ UNCHANGED <<main, requests, children>>

\* Mutant: one try more.
retry_once_more(c) ==
  LET r == rcopies[c]
      closed == CloseSocket(r.process)
      reopened == PollSocket(OpenSocket(RemoveSocket(closed), "OWN"))
  IN  rcopies' = [rcopies EXCEPT ![c] =
        IF r.count = MaxTries
        THEN [r EXCEPT !.state = "DONE", !.process = closed,
                       !.count = @ + 1, !.inbox = <<>>]
        ELSE [r EXCEPT !.state = "SEND", !.process = reopened,
                       !.count = @ + 1, !.inbox = <<>>]]

\* The end of a turn of filename: with another socket, but for the last.
Retry(c) ==
  LET r == rcopies[c]
      closed == CloseSocket(r.process)
      reopened == PollSocket(OpenSocket(RemoveSocket(closed), "OWN"))
  IN  rcopies' = [rcopies EXCEPT ![c] =
        IF r.count + 1 = MaxTries
        THEN [r EXCEPT !.state = "DONE", !.process = closed,
                       !.count = @ + 1, !.inbox = <<>>]
        ELSE [r EXCEPT !.state = "SEND", !.process = reopened,
                       !.count = @ + 1, !.inbox = <<>>]]

RcopyTimeout(c) ==
  /\ rcopies[c].state = "POLL"
  /\ RcopyPolls(c) = -1
  /\ Retry(c)
  /\ UNCHANGED <<main, requests, children>>

RcopyCorrupted(c) ==
  /\ rcopies[c].state = "RECV"
  /\ rcopies[c].inbox # <<>>
  /\ Retry(c)
  /\ UNCHANGED <<main, requests, children>>

\* filename ends without a transfer: the socket is closed and removed.
EndWithoutFile(r) ==
  [r EXCEPT !.state = "DONE", !.process = RemoveSocket(CloseSocket(@)),
            !.inbox = <<>>]

\* An EOF before any FILE_OK ends rcopy (rcopy.c:125).
RcopyRecv(c) ==
  /\ rcopies[c].state = "RECV"
  /\ rcopies[c].inbox # <<>>
  /\ rcopies' = [rcopies EXCEPT ![c] =
       CASE Head(@.inbox) = "FILE_NOT_OK" -> EndWithoutFile(@)
         [] Head(@.inbox) = "EOF" -> [@ EXCEPT !.state = "DONE", !.inbox = <<>>]
         [] Head(@.inbox) = "FILE_OK" ->
              [@ EXCEPT !.state = "FILE_OKAY", !.inbox = Tail(@)]]
  /\ UNCHANGED <<main, requests, children>>

\* file_okay
RcopyOpen(c) ==
  /\ rcopies[c].state = "FILE_OKAY"
  /\ rcopies' \in
       {[rcopies EXCEPT ![c] = EndWithoutFile(@)],
        [rcopies EXCEPT ![c].state = "TRANSFER", ![c].process = OpenFile(@)]}
  /\ UNCHANGED <<main, requests, children>>

\* pollCall(TEN_SEC) is -1.
RcopyGivesUp(c) ==
  /\ rcopies[c].state = "TRANSFER"
  /\ RcopyPolls(c) = -1
  /\ RcopyGoes(c, "DONE")
  /\ UNCHANGED <<main, requests, children>>

\* in_order: EOF_ACK goes out, and rcopy ends.  A corrupted EOF is ignored.
RcopyRecvEOF(c) ==
  /\ rcopies[c].state = "RECV_EOF"
  /\ rcopies[c].inbox # <<>>
  /\ \/ /\ rcopies' = [rcopies EXCEPT ![c].state = "DONE", ![c].inbox = <<>>]
        /\ \/ UNCHANGED children
           \/ \E k \in DOMAIN children :
                /\ children[k].request = [client |-> c, try |-> rcopies[c].count]
                /\ children[k].state # "ZOMBIE"
                /\ \E q \in Sent(children[k].inbox, "EOF_ACK") :
                     children' = [children EXCEPT ![k].inbox = q]
     \/ /\ rcopies' = [rcopies EXCEPT ![c].state = "TRANSFER", ![c].inbox = Tail(@)]
        /\ UNCHANGED children
  /\ UNCHANGED <<main, requests>>

\* exit(-1) of rcopy: sendto fails, or the server's name is not found when the
\* next socket is set up.  The answer that rcopy had not taken is lost.
RcopyExits(c) ==
  /\ \/ rcopies[c].state = "SEND"
     \/ rcopies[c].state = "POLL" /\ RcopyPolls(c) = -1
     \/ rcopies[c].state = "RECV" /\ rcopies[c].inbox # <<>>
  /\ rcopies' = [rcopies EXCEPT ![c].state = "DONE", ![c].inbox = <<>>]
  /\ UNCHANGED <<main, requests, children>>

RcopyStep(c) ==
  \/ RcopySend(c) \/ RcopyPoll(c) \/ RcopyTimeout(c) \/ RcopyCorrupted(c)
  \/ RcopyRecv(c) \/ RcopyOpen(c) \/ RcopyGivesUp(c) \/ RcopyRecvEOF(c)
  \/ RcopyExits(c)

-----------------------------------------------------------------------------
AllFinished ==
  /\ \A c \in Clients : rcopies[c].state = "DONE"
  /\ \A k \in DOMAIN children : children[k].state = "ZOMBIE"

\* The main server waits for further clients, or has exited.
Idle ==
  /\ AllFinished
  /\ \/ main.state = "EXITED"
     \/ main.state \in {"POLL", "RECV"} /\ requests = <<>>
  /\ UNCHANGED vars

Init ==
  /\ \E files \in Launches : MainInit(files)
  /\ requests = <<>>
  /\ children = <<>>
  /\ \E files \in [Clients -> Launches] :
       rcopies = [c \in Clients |-> RcopyInit(files[c])]

Next ==
  \/ MainStep
  \/ \E k \in 1 .. MaxProcesses : ChildStep(k)
  \/ \E c \in Clients : RcopyStep(c)
  \/ Idle

\* Each process is scheduled, and its timers run out.
Fairness ==
  /\ WF_vars(MainStep)
  /\ \A k \in 1 .. MaxProcesses : WF_vars(ChildStep(k))
  /\ \A c \in Clients : WF_vars(RcopyStep(c))

Spec == Init /\ [][Next]_vars /\ Fairness

-----------------------------------------------------------------------------
ProcessType == [files : [Descriptors -> FileKinds],
                ps : PollSets, socket : Descriptors]

TypeOK ==
  /\ main.state \in {"POLL", "RECV", "FORK", "EXITED"}
  /\ main.process \in ProcessType
  /\ requests \in Seq(Requests)
  /\ \A k \in DOMAIN children :
       /\ children[k].state \in {"SETUP", "FILENAME", "SEND", "POLL", "RECV", "ZOMBIE"}
       /\ children[k].process \in ProcessType
       /\ children[k].request \in Requests
       /\ children[k].count \in 0 .. MaxTries
  /\ \A c \in Clients :
       /\ rcopies[c].state \in {"SEND", "POLL", "RECV", "FILE_OKAY", "TRANSFER",
                                "RECV_EOF", "DONE"}
       /\ rcopies[c].process \in ProcessType
       /\ rcopies[c].count \in 0 .. MaxTries

\* The processes that may call pollCall or recvfrom from now on.
Polling ==
  {main.process} \cup
  {children[k].process : k \in {k \in DOMAIN children :
                                  children[k].state \notin {"SETUP", "ZOMBIE"}}} \cup
  {rcopies[c].process : c \in {c \in Clients : rcopies[c].state # "DONE"}}

(***************************************************************************)
(* A process polls one socket, the one from which it then receives, and    *)
(* the socket is open.  A child never adds its socket to the poll set it   *)
(* inherits (server.c:51-52): it is right only because the child closes    *)
(* its parent's socket first and is given the same descriptor again.       *)
(***************************************************************************)
WatchesItsSocket ==
  \A p \in Polling :
    /\ {d \in Descriptors : p.ps.table[d].events} = {p.socket}
    /\ p.ps.table[p.socket].fd = p.socket
    /\ p.files[p.socket] = IF p = main.process THEN "MAIN" ELSE "OWN"

(***************************************************************************)
(* poll() reads no entry behind the table, though setupPollSet makes a     *)
(* table of the first size and leaves maxFileDescriptor as it was          *)
(* (pollLib.c:30-34, 40-51, rcopy.c:137-143).                              *)
(***************************************************************************)
PollSetInBounds == \A p \in Polling : p.ps.max <= p.ps.size

(***************************************************************************)
(* pollCall "returns the socket number if one is ready for read"           *)
(* (pollLib.c:65): whoever went on to recvfrom has a datagram there, and   *)
(* a timeout that has been set is not lost to a recvfrom that blocks.      *)
(***************************************************************************)
RecvHasDatagram ==
  /\ \A k \in DOMAIN children :
       children[k].state = "RECV" => children[k].inbox # <<>>
  /\ \A c \in Clients :
       rcopies[c].state \in {"RECV", "RECV_EOF"} => rcopies[c].inbox # <<>>

(***************************************************************************)
(* "server should never turn off even if no clients are connected"         *)
(* (server.c:40): when it has exited there is a client it still serves.    *)
(***************************************************************************)
NeverTurnsOff ==
  main.state = "EXITED" =>
    \E k \in DOMAIN children : children[k].state # "ZOMBIE"

\* A FILENAME packet that has arrived is given a child, whoever else is being
\* served, as long as fork succeeds (server.c:39-61).
RequestsServed ==
  \A r \in Requests :
    (\E i \in DOMAIN requests : requests[i] = r)
      ~> \/ \E k \in DOMAIN children : children[k].request = r
         \/ Len(children) >= MaxProcesses

\* Every rcopy and every child ends, whatever is lost: no wait is without a
\* timeout but the main server's (rcopy.c:91-147, server.c:317-325, 375-383).
EverybodyFinishes == <>[]AllFinished
=============================================================================

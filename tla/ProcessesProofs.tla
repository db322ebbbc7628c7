--------------------------- MODULE ProcessesProofs ---------------------------
(***************************************************************************)
(* The poll sets and descriptors of all processes, for any number of       *)
(* clients, children, tries and descriptors: a process polls its own       *)
(* socket within the table and does not block in recvfrom.                 *)
(***************************************************************************)
EXTENDS Processes, TLAPS, WellFoundedInduction

-----------------------------------------------------------------------------
(* Descriptors.                                                            *)

\* socket() and open() find the lowest free descriptor when there is one.
LEMMA LowestFreeExists ==
  ASSUME NEW files \in [Descriptors -> FileKinds],
         \E d \in Descriptors : files[d] = "CLOSED"
  PROVE  /\ LowestFree(files) \in Descriptors
         /\ files[LowestFree(files)] = "CLOSED"
         /\ \A e \in Descriptors : files[e] = "CLOSED" => LowestFree(files) <= e
<1> DEFINE Free == {d \in Descriptors : files[d] = "CLOSED"}
<1>1. Free \subseteq Nat /\ Free # {}
  BY PollSetAssumption DEF Descriptors
<1>2. \E d \in Free : \A e \in Free : <<e, d>> \notin OpToRel(<, Nat)
  <2> HIDE DEF Free
  <2> QED
    BY <1>1, NatLessThanWellFounded, WFMin
<1>3. PICK d \in Free : \A e \in Free : <<e, d>> \notin OpToRel(<, Nat)
  BY <1>2
<1>4. \A e \in Free : d <= e
  <2> SUFFICES ASSUME NEW e \in Free, ~(d <= e)
               PROVE  FALSE
    OBVIOUS
  <2>1. <<e, d>> \in Nat \X Nat /\ e < d
    BY <1>1
  <2>2. <<e, d>> \in OpToRel(<, Nat)
    BY <2>1 DEF OpToRel
  <2> QED
    BY <1>3, <2>2
<1> QED
  BY <1>4 DEF LowestFree

\* The descriptor that has just been closed is given again when all below it
\* are in use.
LEMMA LowestFreeIs ==
  ASSUME NEW files \in [Descriptors -> FileKinds],
         NEW d \in Descriptors, files[d] = "CLOSED",
         \A e \in Descriptors : e < d => files[e] # "CLOSED"
  PROVE  LowestFree(files) = d
<1>1. LowestFree(files) \in Descriptors /\ files[LowestFree(files)] = "CLOSED"
  BY LowestFreeExists
<1>2. LowestFree(files) <= d
  BY LowestFreeExists
<1>3. ~(LowestFree(files) < d)
  BY <1>1
<1> QED
  BY <1>1, <1>2, <1>3, PollSetAssumption DEF Descriptors

-----------------------------------------------------------------------------
(* Processes.                                                              *)

\* No program is started with a standard input that is hung up.
NoHangup == \A files \in Launches : files[0] # "HUNGUP"

\* Only the socket, of the given kind, is in the poll set, which has room for
\* it, and there is no free descriptor below it.
Watching(p, kind) ==
  /\ p.files[p.socket] = kind
  /\ \A d \in Descriptors : d < p.socket => p.files[d] # "CLOSED"
  /\ p.ps.table = [NoPollSet.table EXCEPT
                     ![p.socket] = [fd |-> p.socket, events |-> TRUE]]
  /\ p.ps.max = p.socket + 1
  /\ p.socket < p.ps.size
  /\ NoHangup => p.files[0] # "HUNGUP"

HasFree(p) == \E d \in Descriptors : p.files[d] = "CLOSED"

Tables == [Descriptors -> [fd : Descriptors, events : BOOLEAN]]

\* The tables of PollSets.
LEMMA PollSetsAre == PollSets = [table : Tables, size : Nat, max : Nat]
BY DEF PollSets, Tables

\* 0 is a descriptor.
LEMMA ZeroDescriptor == 0 \in Descriptors /\ Descriptors \subseteq Nat
BY PollSetAssumption DEF Descriptors

\* A table with one entry is a table.
LEMMA TableType ==
  ASSUME NEW s \in Descriptors
  PROVE  /\ [NoPollSet.table EXCEPT ![s] = [fd |-> s, events |-> TRUE]] \in Tables
         /\ NoPollSet.table \in Tables
         /\ NoPollSet \in PollSets
<1> DEFINE Entries == [fd : Descriptors, events : BOOLEAN]
           entry == [fd |-> s, events |-> TRUE]
<1>1. NotPolled \in Entries /\ entry \in Entries
  BY ZeroDescriptor DEF NotPolled
<1>2. NoPollSet.table = [d \in Descriptors |-> NotPolled]
  BY DEF NoPollSet
<1>3. Tables = [Descriptors -> Entries]
  BY DEF Tables
<1> HIDE DEF Entries, entry
<1>4. NoPollSet.table \in Tables
  BY <1>1, <1>2, <1>3
<1>5. [NoPollSet.table EXCEPT ![s] = entry] \in Tables
  BY <1>1, <1>3, <1>4
<1>6. NoPollSet \in PollSets
  <2>1. NoPollSet = [table |-> NoPollSet.table, size |-> 0, max |-> 0]
    BY DEF NoPollSet
  <2> QED
    BY <1>4, <2>1, PollSetsAre
<1> QED
  BY <1>4, <1>5, <1>6 DEF entry

\* What setupPollSet and addToPollSet make of a set that has seen no
\* descriptor above this one.
LEMMA SetupAndAdd ==
  ASSUME NEW ps \in PollSets, NEW s \in Descriptors, ps.max <= s + 1
  PROVE  LET new == addToPollSet(setupPollSet(ps), s)
         IN  /\ new \in PollSets
             /\ new.table = [NoPollSet.table EXCEPT ![s] = [fd |-> s, events |-> TRUE]]
             /\ new.max = s + 1
             /\ s < new.size
<1> DEFINE empty == setupPollSet(ps)
           grown == IF s >= empty.size THEN growPollSet(empty, s + POLL_SET_SIZE) ELSE empty
           new == addToPollSet(empty, s)
<1>0. s \in Nat /\ POLL_SET_SIZE \in Nat \ {0}
  BY PollSetAssumption DEF Descriptors
<1>1. /\ empty.table = NoPollSet.table
      /\ empty.size = POLL_SET_SIZE
      /\ empty.max = ps.max
      /\ ps.max \in Nat
      /\ empty = [table |-> empty.table, size |-> empty.size, max |-> empty.max]
  <2>1. /\ ps = [table |-> ps.table, size |-> ps.size, max |-> ps.max]
        /\ ps.max \in Nat
    BY PollSetsAre
  <2>2. empty = [ps EXCEPT !.table = NoPollSet.table, !.size = POLL_SET_SIZE]
    BY DEF setupPollSet, NoPollSet
  <2> HIDE DEF empty
  <2> QED
    BY <2>1, <2>2
<1>2. /\ grown.table = NoPollSet.table
      /\ grown.max = ps.max
      /\ grown.size \in Nat
      /\ s < grown.size
      /\ grown = [table |-> grown.table, size |-> grown.size, max |-> grown.max]
  <2>1. CASE s >= empty.size
    <3>1. grown = growPollSet(empty, s + POLL_SET_SIZE)
      BY <2>1
    <3>2. [d \in Descriptors |-> IF d < empty.size THEN empty.table[d] ELSE NotPolled]
            = NoPollSet.table
      BY <1>1 DEF NoPollSet
    <3>3. grown = [table |-> NoPollSet.table, size |-> s + POLL_SET_SIZE, max |-> ps.max]
      <4> HIDE DEF empty, grown
      <4> QED
        BY <1>1, <3>1, <3>2 DEF growPollSet
    <3> HIDE DEF empty, grown
    <3> QED
      BY <1>0, <3>3
  <2>2. CASE ~(s >= empty.size)
    <3>1. grown = empty
      BY <2>2
    <3> HIDE DEF empty, grown
    <3> QED
      BY <1>0, <1>1, <2>2, <3>1
  <2> QED
    BY <2>1, <2>2
<1>3. new = [grown EXCEPT !.max = IF s + 1 >= @ THEN s + 1 ELSE @,
                          !.table[s] = [fd |-> s, events |-> TRUE]]
  BY DEF addToPollSet
<1> HIDE DEF empty, grown, new
<1>4. new = [table |-> [NoPollSet.table EXCEPT ![s] = [fd |-> s, events |-> TRUE]],
             size |-> grown.size, max |-> s + 1]
  <2>1. (IF s + 1 >= grown.max THEN s + 1 ELSE grown.max) = s + 1
    BY <1>0, <1>1, <1>2
  <2>2. new = [grown EXCEPT !.max = s + 1,
                            !.table[s] = [fd |-> s, events |-> TRUE]]
    BY <1>3, <2>1
  <2> QED
    BY <1>2, <2>2
<1>5. new \in PollSets
  BY <1>0, <1>2, <1>4, TableType, PollSetsAre
<1> QED
  BY <1>2, <1>4, <1>5 DEF new, empty

\* A program that starts: the lowest free descriptor becomes its socket.
LEMMA StartedWatches ==
  ASSUME NEW files \in Launches, NEW kind \in {"MAIN", "OWN"}
  PROVE  LET p == PollSocket(OpenSocket(Process(files), kind))
         IN  p \in ProcessType /\ Watching(p, kind) /\ HasFree(p)
<1> DEFINE fd == LowestFree(files)
           p == PollSocket(OpenSocket(Process(files), kind))
<1>1. files \in [Descriptors -> FileKinds]
  BY ProcessesAssumption DEF FileKinds
<1>2. PICK d \in Descriptors, e \in Descriptors :
        d # e /\ files[d] = "CLOSED" /\ files[e] = "CLOSED"
  BY ProcessesAssumption
<1>3. /\ fd \in Descriptors
      /\ files[fd] = "CLOSED"
      /\ \A x \in Descriptors : files[x] = "CLOSED" => fd <= x
  <2> HIDE DEF fd
  <2> QED
    BY <1>1, <1>2, LowestFreeExists DEF fd
<1> HIDE DEF fd
<1>4. OpenSocket(Process(files), kind) =
        [files |-> [files EXCEPT ![fd] = kind], ps |-> NoPollSet, socket |-> fd]
  <2>1. Process(files).files = files
    BY DEF Process
  <2>2. OpenSocket(Process(files), kind) =
          [Process(files) EXCEPT !.files[fd] = kind, !.socket = fd]
    BY <2>1 DEF OpenSocket, fd
  <2> QED
    BY <2>2 DEF Process
<1>5. p = [files |-> [files EXCEPT ![fd] = kind],
           ps |-> addToPollSet(setupPollSet(NoPollSet), fd), socket |-> fd]
  BY <1>4 DEF PollSocket
<1> HIDE DEF p
<1>6. NoPollSet \in PollSets /\ NoPollSet.max <= fd + 1
  <2>1. NoPollSet.max = 0 /\ fd \in Nat
    BY <1>3, ZeroDescriptor DEF NoPollSet
  <2>2. NoPollSet \in PollSets
    BY <1>3, TableType
  <2> QED
    BY <2>1, <2>2
<1>7. [files EXCEPT ![fd] = kind] \in [Descriptors -> FileKinds]
  BY <1>1, <1>3 DEF FileKinds
<1>8. p \in ProcessType
  BY <1>3, <1>5, <1>6, <1>7, SetupAndAdd DEF ProcessType
<1>9. Watching(p, kind)
  <2>1. p.files[p.socket] = kind
    BY <1>1, <1>3, <1>5
  <2>2. \A x \in Descriptors : x < p.socket => p.files[x] # "CLOSED"
    BY <1>1, <1>3, <1>5, PollSetAssumption DEF Descriptors
  <2>3. NoHangup => p.files[0] # "HUNGUP"
    BY <1>1, <1>3, <1>5, PollSetAssumption DEF NoHangup, Descriptors
  <2>4. p.socket = fd /\ p.ps = addToPollSet(setupPollSet(NoPollSet), fd)
    BY <1>5
  <2> QED
    BY <2>1, <2>2, <2>3, <2>4, <1>3, <1>6, SetupAndAdd DEF Watching
<1>10. HasFree(p)
  BY <1>1, <1>2, <1>5 DEF HasFree
<1> QED
  BY <1>8, <1>9, <1>10 DEF p

\* The fields of a process.
LEMMA ProcessFields ==
  ASSUME NEW p \in ProcessType
  PROVE  /\ p = [files |-> p.files, ps |-> p.ps, socket |-> p.socket]
         /\ p.files \in [Descriptors -> FileKinds]
         /\ p.ps \in PollSets
         /\ p.socket \in Descriptors
BY DEF ProcessType

\* Closing the socket and taking it out of the poll set change nothing else.
LEMMA Closed ==
  ASSUME NEW p \in ProcessType
  PROVE  /\ CloseSocket(p) \in ProcessType
         /\ CloseSocket(p).ps = p.ps
         /\ CloseSocket(p).socket = p.socket
         /\ CloseSocket(p).files = [p.files EXCEPT ![p.socket] = "CLOSED"]
<1>1. CloseSocket(p) = [files |-> [p.files EXCEPT ![p.socket] = "CLOSED"],
                        ps |-> p.ps, socket |-> p.socket]
  BY ProcessFields DEF CloseSocket
<1>2. [p.files EXCEPT ![p.socket] = "CLOSED"] \in [Descriptors -> FileKinds]
  BY ProcessFields DEF FileKinds
<1> QED
  BY <1>1, <1>2, ProcessFields DEF ProcessType

LEMMA Removed ==
  ASSUME NEW p \in ProcessType
  PROVE  /\ RemoveSocket(p) \in ProcessType
         /\ RemoveSocket(p).ps.max = p.ps.max
         /\ RemoveSocket(p).socket = p.socket
         /\ RemoveSocket(p).files = p.files
<1> DEFINE ps == removeFromPollSet(p.ps, p.socket)
<1>1. p.ps = [table |-> p.ps.table, size |-> p.ps.size, max |-> p.ps.max]
      /\ p.ps.table \in Tables /\ p.ps.size \in Nat /\ p.ps.max \in Nat
  BY ProcessFields, PollSetsAre
<1>2. ps = [table |-> [p.ps.table EXCEPT ![p.socket] = NotPolled],
            size |-> p.ps.size, max |-> p.ps.max]
  BY <1>1 DEF removeFromPollSet
<1>3. [p.ps.table EXCEPT ![p.socket] = NotPolled] \in Tables
  <2> DEFINE Entries == [fd : Descriptors, events : BOOLEAN]
  <2>1. NotPolled \in Entries
    BY ZeroDescriptor DEF NotPolled
  <2>2. Tables = [Descriptors -> Entries]
    BY DEF Tables
  <2> HIDE DEF Entries
  <2> QED
    BY <1>1, <2>1, <2>2, ProcessFields
<1>4. ps \in PollSets /\ ps.max = p.ps.max
  BY <1>1, <1>2, <1>3, PollSetsAre
<1> HIDE DEF ps
<1>5. RemoveSocket(p) = [files |-> p.files, ps |-> ps, socket |-> p.socket]
  BY ProcessFields DEF RemoveSocket, ps
<1> QED
  BY <1>4, <1>5, ProcessFields DEF ProcessType

\* A process whose socket is closed, and all descriptors below in use, gets the
\* same descriptor again.
LEMMA SameSocket ==
  ASSUME NEW p \in ProcessType, NEW kind \in {"MAIN", "OWN"},
         p.files[p.socket] = "CLOSED",
         \A d \in Descriptors : d < p.socket => p.files[d] # "CLOSED"
  PROVE  /\ OpenSocket(p, kind) \in ProcessType
         /\ OpenSocket(p, kind).ps = p.ps
         /\ OpenSocket(p, kind).socket = p.socket
         /\ OpenSocket(p, kind).files = [p.files EXCEPT ![p.socket] = kind]
<1>1. LowestFree(p.files) = p.socket
  BY ProcessFields, LowestFreeIs
<1>2. OpenSocket(p, kind) = [files |-> [p.files EXCEPT ![p.socket] = kind],
                             ps |-> p.ps, socket |-> p.socket]
  <2>1. OpenSocket(p, kind) = [p EXCEPT !.files[p.socket] = kind, !.socket = p.socket]
    BY <1>1 DEF OpenSocket
  <2> QED
    BY <2>1, ProcessFields
<1>3. [p.files EXCEPT ![p.socket] = kind] \in [Descriptors -> FileKinds]
  BY ProcessFields DEF FileKinds
<1> QED
  BY <1>2, <1>3, ProcessFields DEF ProcessType

\* A child closes the socket it has inherited and opens its own: the poll set
\* it never touched is right for it.
LEMMA ChildWatches ==
  ASSUME NEW p \in ProcessType, Watching(p, "MAIN"), HasFree(p)
  PROVE  LET new == OpenSocket(CloseSocket(p), "OWN")
         IN  new \in ProcessType /\ Watching(new, "OWN") /\ HasFree(new)
<1> DEFINE closed == CloseSocket(p)
           new == OpenSocket(closed, "OWN")
<1>1. /\ closed \in ProcessType
      /\ closed.ps = p.ps
      /\ closed.socket = p.socket
      /\ closed.files = [p.files EXCEPT ![p.socket] = "CLOSED"]
  BY Closed
<1> HIDE DEF closed
<1>2. /\ closed.files[closed.socket] = "CLOSED"
      /\ \A d \in Descriptors : d < closed.socket => closed.files[d] # "CLOSED"
  BY <1>1, ProcessFields, ZeroDescriptor DEF Watching
<1>3. /\ new \in ProcessType
      /\ new.ps = p.ps
      /\ new.socket = p.socket
      /\ new.files = [p.files EXCEPT ![p.socket] = "OWN"]
  <2>1. /\ new \in ProcessType
        /\ new.ps = closed.ps
        /\ new.socket = closed.socket
        /\ new.files = [closed.files EXCEPT ![closed.socket] = "OWN"]
    BY <1>1, <1>2, SameSocket
  <2> QED
    BY <1>1, <2>1, ProcessFields
<1> HIDE DEF new
<1>4. Watching(new, "OWN")
  BY <1>3, ProcessFields, ZeroDescriptor DEF Watching
<1>5. HasFree(new)
  BY <1>3, ProcessFields DEF HasFree, Watching
<1> QED
  BY <1>3, <1>4, <1>5 DEF new, closed

\* rcopy's next try: closed, removed, opened, set up and added.
LEMMA RetryWatches ==
  ASSUME NEW p \in ProcessType, Watching(p, "OWN"), HasFree(p)
  PROVE  LET new == PollSocket(OpenSocket(RemoveSocket(CloseSocket(p)), "OWN"))
         IN  new \in ProcessType /\ Watching(new, "OWN") /\ HasFree(new)
<1> DEFINE closed == RemoveSocket(CloseSocket(p))
           opened == OpenSocket(closed, "OWN")
           new == PollSocket(opened)
<1>1. /\ closed \in ProcessType
      /\ closed.ps.max = p.socket + 1
      /\ closed.socket = p.socket
      /\ closed.files = [p.files EXCEPT ![p.socket] = "CLOSED"]
  BY Closed, Removed DEF Watching
<1> HIDE DEF closed
<1>2. /\ closed.files[closed.socket] = "CLOSED"
      /\ \A d \in Descriptors : d < closed.socket => closed.files[d] # "CLOSED"
  BY <1>1, ProcessFields, ZeroDescriptor DEF Watching
<1>3. /\ opened \in ProcessType
      /\ opened.ps = closed.ps
      /\ opened.socket = p.socket
      /\ opened.files = [p.files EXCEPT ![p.socket] = "OWN"]
  <2>1. /\ opened \in ProcessType
        /\ opened.ps = closed.ps
        /\ opened.socket = closed.socket
        /\ opened.files = [closed.files EXCEPT ![closed.socket] = "OWN"]
    BY <1>1, <1>2, SameSocket
  <2> QED
    BY <1>1, <2>1, ProcessFields
<1> HIDE DEF opened
<1>4. /\ opened.ps \in PollSets
      /\ opened.ps.max <= p.socket + 1
      /\ p.socket \in Nat
  BY <1>1, <1>3, ProcessFields, ZeroDescriptor
<1> DEFINE ps == addToPollSet(setupPollSet(opened.ps), p.socket)
<1>5. new = [files |-> opened.files, ps |-> ps, socket |-> p.socket]
  BY <1>3, ProcessFields DEF PollSocket
<1>6. /\ ps \in PollSets
      /\ ps.table = [NoPollSet.table EXCEPT
                       ![p.socket] = [fd |-> p.socket, events |-> TRUE]]
      /\ ps.max = p.socket + 1
      /\ p.socket < ps.size
  BY <1>4, ProcessFields, SetupAndAdd
<1> HIDE DEF ps, new
<1>7. new \in ProcessType
  BY <1>3, <1>5, <1>6, ProcessFields DEF ProcessType
<1>8. Watching(new, "OWN")
  BY <1>3, <1>5, <1>6, ProcessFields, ZeroDescriptor DEF Watching
<1>9. HasFree(new)
  BY <1>3, <1>5, ProcessFields DEF HasFree, Watching
<1> QED
  BY <1>7, <1>8, <1>9 DEF new, opened, closed

\* The file gets a descriptor of its own.
LEMMA FileOpened ==
  ASSUME NEW p \in ProcessType, Watching(p, "OWN"), HasFree(p)
  PROVE  OpenFile(p) \in ProcessType /\ Watching(OpenFile(p), "OWN")
<1> DEFINE fd == LowestFree(p.files)
           new == OpenFile(p)
<1>1. fd \in Descriptors /\ p.files[fd] = "CLOSED"
  BY ProcessFields, LowestFreeExists DEF HasFree
<1>2. fd # p.socket
  BY <1>1 DEF Watching
<1> HIDE DEF fd
<1>3. new = [files |-> [p.files EXCEPT ![fd] = "OPEN"], ps |-> p.ps, socket |-> p.socket]
  BY ProcessFields DEF OpenFile, fd
<1>4. [p.files EXCEPT ![fd] = "OPEN"] \in [Descriptors -> FileKinds]
  BY <1>1, ProcessFields DEF FileKinds
<1> HIDE DEF new
<1>5. new \in ProcessType
  BY <1>3, <1>4, ProcessFields DEF ProcessType
<1>6. Watching(new, "OWN")
  BY <1>1, <1>2, <1>3, ProcessFields, ZeroDescriptor DEF Watching
<1> QED
  BY <1>5, <1>6 DEF new

\* poll() reports the process's own socket, and that only for a datagram.
LEMMA PollFindsDatagram ==
  ASSUME NEW p \in ProcessType, Watching(p, "OWN"), NoHangup,
         NEW inbox, Polls(p, inbox) # -1
  PROVE  inbox # <<>>
<1> DEFINE ready == Ready(inbox)
           reported == Reported(p.ps, p.files, ready)
<1>1. reported # {}
  BY DEF Polls, pollCall
<1>2. PICK d \in reported : TRUE
  BY <1>1
<1>3. /\ d \in Descriptors
      /\ \/ p.files[p.ps.table[d].fd] \in {"CLOSED", "HUNGUP"}
         \/ p.ps.table[d].events /\ p.files[p.ps.table[d].fd] \in ready
  BY <1>2 DEF Reported
<1>4. p.files[0] \notin {"CLOSED", "HUNGUP"}
  BY ProcessFields, ZeroDescriptor DEF Watching
<1>5. CASE d = p.socket
  <2>1. p.ps.table[d].fd = p.socket
    BY <1>3, <1>5 DEF Watching, NoPollSet
  <2>2. "OWN" \in ready
    BY <1>3, <2>1 DEF Watching
  <2> QED
    BY <2>2 DEF Ready
<1>6. CASE d # p.socket
  <2>1. p.ps.table[d] = NotPolled
    BY <1>3, <1>6 DEF Watching, NoPollSet
  <2> QED
    BY <1>3, <1>4, <2>1 DEF NotPolled
<1> QED
  BY <1>5, <1>6

-----------------------------------------------------------------------------
(* The inductive invariant.                                                *)

MainType == [state   : {"POLL", "RECV", "FORK", "EXITED"},
             process : ProcessType,
             request : Seq(Requests)]

ChildType == [state   : {"SETUP", "FILENAME", "SEND", "POLL", "RECV", "ZOMBIE"},
              process : ProcessType,
              request : Requests,
              inbox   : Seq({"EOF_ACK"}),
              count   : 0 .. MaxTries]

RcopyType == [state   : {"SEND", "POLL", "RECV", "FILE_OKAY", "TRANSFER",
                         "RECV_EOF", "DONE"},
              process : ProcessType,
              count   : 0 .. MaxTries,
              inbox   : Seq({"FILE_OK", "FILE_NOT_OK", "EOF"})]

\* The main server always watches its socket, and can give a descriptor to a
\* child.
MainSound ==
  /\ main \in MainType
  /\ requests \in Seq(Requests)
  /\ Watching(main.process, "MAIN") /\ HasFree(main.process)
  /\ main.state = "FORK" => main.request # <<>>

\* A child watches its parent's socket until it has its own.
ChildSound(x) ==
  /\ x \in ChildType
  /\ x.state = "SETUP" => Watching(x.process, "MAIN")
  /\ x.state \in {"SETUP", "FILENAME"} => HasFree(x.process)
  /\ x.state \in {"FILENAME", "SEND", "POLL", "RECV"} => Watching(x.process, "OWN")
  /\ x.state # "ZOMBIE" => x.count < MaxTries
  /\ NoHangup /\ x.state = "RECV" => x.inbox # <<>>

RcopySound(x) ==
  /\ x \in RcopyType
  /\ x.state \in {"SEND", "POLL", "RECV", "FILE_OKAY"} => HasFree(x.process)
  /\ x.state # "DONE" => Watching(x.process, "OWN") /\ x.count < MaxTries
  /\ NoHangup /\ x.state \in {"RECV", "RECV_EOF"} => x.inbox # <<>>

ChildrenSound ==
  /\ children \in Seq(ChildType)
  /\ \A k \in DOMAIN children : ChildSound(children[k])

RcopiesSound ==
  /\ rcopies \in [Clients -> RcopyType]
  /\ \A c \in Clients : RcopySound(rcopies[c])

ProcessesInv == MainSound /\ ChildrenSound /\ RcopiesSound

\* It implies what the runs check.
LEMMA ProcessesInvImplies ==
  ProcessesInv => /\ TypeOK
                  /\ WatchesItsSocket
                  /\ PollSetInBounds
                  /\ NoHangup => RecvHasDatagram
<1> SUFFICES ASSUME ProcessesInv
             PROVE  /\ TypeOK
                    /\ WatchesItsSocket
                    /\ PollSetInBounds
                    /\ NoHangup => RecvHasDatagram
  OBVIOUS
<1> USE DEF ProcessesInv
<1>1. TypeOK
  BY DEF MainSound, ChildrenSound, RcopiesSound, ChildSound, RcopySound,
         MainType, ChildType, RcopyType, TypeOK
<1>2. \A p \in Polling :
        /\ p \in ProcessType
        /\ p = main.process => Watching(p, "MAIN")
        /\ p # main.process => Watching(p, "OWN")
  <2>1. \A k \in DOMAIN children :
          children[k].state \notin {"SETUP", "ZOMBIE"} =>
            children[k].process \in ProcessType /\ Watching(children[k].process, "OWN")
    BY DEF ChildrenSound, ChildSound, ChildType
  <2>2. \A c \in Clients : rcopies[c].state # "DONE" =>
          rcopies[c].process \in ProcessType /\ Watching(rcopies[c].process, "OWN")
    BY DEF RcopiesSound, RcopySound, RcopyType
  <2>3. main.process \in ProcessType /\ Watching(main.process, "MAIN")
    BY DEF MainSound, MainType
  <2> QED
    BY <2>1, <2>2, <2>3 DEF Polling
<1>3. ASSUME NEW p \in ProcessType, NEW kind, Watching(p, kind)
      PROVE  /\ {d \in Descriptors : p.ps.table[d].events} = {p.socket}
             /\ p.ps.table[p.socket].fd = p.socket
             /\ p.files[p.socket] = kind
             /\ p.ps.max <= p.ps.size
  <2>1. \A d \in Descriptors :
          p.ps.table[d] = IF d = p.socket THEN [fd |-> p.socket, events |-> TRUE]
                                          ELSE NotPolled
    BY <1>3, ProcessFields DEF Watching, NoPollSet
  <2>2. \A d \in Descriptors : p.ps.table[d].events <=> d = p.socket
    <3> TAKE d \in Descriptors
    <3>1. CASE d = p.socket
      BY <2>1, <3>1
    <3>2. CASE d # p.socket
      BY <2>1, <3>2 DEF NotPolled
    <3> QED
      BY <3>1, <3>2
  <2>3. p.socket \in Nat /\ p.ps.size \in Nat
    BY ProcessFields, ZeroDescriptor, PollSetsAre
  <2> QED
    BY <1>3, <2>1, <2>2, <2>3, ProcessFields DEF Watching
<1>4. WatchesItsSocket
  BY <1>2, <1>3 DEF WatchesItsSocket
<1>5. PollSetInBounds
  BY <1>2, <1>3 DEF PollSetInBounds
<1>6. NoHangup => RecvHasDatagram
  BY DEF ChildrenSound, RcopiesSound, ChildSound, RcopySound, RecvHasDatagram
<1> QED
  BY <1>1, <1>4, <1>5, <1>6

\* The programs start like this.
LEMMA ProcessesInit == Init => ProcessesInv
<1> SUFFICES ASSUME Init
             PROVE  ProcessesInv
  OBVIOUS
<1>0. MaxTries \in Nat \ {0}
  BY ProcessesAssumption
<1>1. MainSound
  <2>1. PICK files \in Launches : MainInit(files)
    BY DEF Init
  <2> DEFINE p == PollSocket(OpenSocket(Process(files), "MAIN"))
  <2>2. p \in ProcessType /\ Watching(p, "MAIN") /\ HasFree(p)
    BY StartedWatches
  <2>3. main = [state |-> "POLL", process |-> p, request |-> <<>>]
    BY <2>1 DEF MainInit
  <2>4. requests = <<>>
    BY DEF Init
  <2> HIDE DEF p
  <2> QED
    BY <2>2, <2>3, <2>4 DEF MainSound, MainType
<1>2. ChildrenSound
  BY DEF Init, ChildrenSound
<1>3. RcopiesSound
  <2>1. PICK files \in [Clients -> Launches] :
          rcopies = [c \in Clients |-> RcopyInit(files[c])]
    BY DEF Init
  <2>2. ASSUME NEW c \in Clients
        PROVE  RcopySound(rcopies[c])
    <3> DEFINE p == PollSocket(OpenSocket(Process(files[c]), "OWN"))
    <3>1. p \in ProcessType /\ Watching(p, "OWN") /\ HasFree(p)
      BY StartedWatches
    <3>2. rcopies[c] = [state |-> "SEND", process |-> p, count |-> 0, inbox |-> <<>>]
      BY <2>1 DEF RcopyInit
    <3> HIDE DEF p
    <3>3. /\ rcopies[c].state = "SEND" /\ rcopies[c].process = p
          /\ rcopies[c].count = 0 /\ rcopies[c] \in RcopyType
      BY <1>0, <3>1, <3>2 DEF RcopyType
    <3> QED
      BY <1>0, <3>1, <3>3 DEF RcopySound
  <2> QED
    BY <2>1, <2>2 DEF RcopiesSound, RcopySound
<1> QED
  BY <1>1, <1>2, <1>3 DEF ProcessesInv

\* One child changes.
LEMMA OneChild ==
  ASSUME ChildrenSound, NEW k \in DOMAIN children, NEW x, ChildSound(x),
         children' = [children EXCEPT ![k] = x]
  PROVE  ChildrenSound'
<1>1. children' \in Seq(ChildType)
  BY DEF ChildrenSound, ChildSound
<1>2. DOMAIN children' = DOMAIN children
      /\ \A i \in DOMAIN children : children'[i] = IF i = k THEN x ELSE children[i]
  BY DEF ChildrenSound
<1> QED
  BY <1>1, <1>2 DEF ChildrenSound, ChildSound

\* One rcopy changes.
LEMMA OneRcopy ==
  ASSUME RcopiesSound, NEW c \in Clients, NEW x, RcopySound(x),
         rcopies' = [rcopies EXCEPT ![c] = x]
  PROVE  RcopiesSound'
<1>1. rcopies' \in [Clients -> RcopyType]
  BY DEF RcopiesSound, RcopySound
<1>2. \A i \in Clients : rcopies'[i] = IF i = c THEN x ELSE rcopies[i]
  BY DEF RcopiesSound
<1> QED
  BY <1>1, <1>2 DEF RcopiesSound, RcopySound

\* What is not touched stays sound.
LEMMA Untouched ==
  /\ MainSound /\ UNCHANGED <<main, requests>> => MainSound'
  /\ ChildrenSound /\ UNCHANGED children => ChildrenSound'
  /\ RcopiesSound /\ UNCHANGED rcopies => RcopiesSound'
<1>1. MainSound /\ UNCHANGED <<main, requests>> => MainSound'
  BY DEF MainSound, Watching, HasFree
<1>2. ChildrenSound /\ UNCHANGED children => ChildrenSound'
  BY DEF ChildrenSound, ChildSound, Watching, HasFree
<1>3. RcopiesSound /\ UNCHANGED rcopies => RcopiesSound'
  BY DEF RcopiesSound, RcopySound, Watching, HasFree
<1> QED
  BY <1>1, <1>2, <1>3

\* A queue that is sent to stays a queue, and what was in it stays in it.
LEMMA SentQueue ==
  ASSUME NEW S, NEW queue \in Seq(S), NEW datagram \in S,
         NEW q \in Sent(queue, datagram)
  PROVE  q \in Seq(S) /\ (queue # <<>> => q # <<>>)
BY DEF Sent

\* A child sends to its client.
LEMMA ToClientSound ==
  ASSUME ChildrenSound, RcopiesSound, NEW k \in DOMAIN children,
         NEW datagram \in {"FILE_OK", "FILE_NOT_OK", "EOF"}, ToClient(k, datagram)
  PROVE  RcopiesSound'
<1> DEFINE r == children[k].request
           c == r.client
<1>1. c \in Clients
  <2>1. children[k] \in ChildType
    BY DEF ChildrenSound, ChildSound
  <2>2. r \in Requests
    BY <2>1 DEF ChildType
  <2> QED
    BY <2>2 DEF Requests
<1>2. CASE UNCHANGED rcopies
  BY <1>2, Untouched
<1>3. CASE ~UNCHANGED rcopies
  <2>1. PICK q \in Sent(rcopies[c].inbox, datagram) :
          rcopies' = [rcopies EXCEPT ![c].inbox = q]
    BY <1>3 DEF ToClient
  <2> HIDE DEF c
  <2>2. RcopySound(rcopies[c]) /\ rcopies[c] \in RcopyType
    BY <1>1 DEF RcopiesSound
  <2>3. /\ q \in Seq({"FILE_OK", "FILE_NOT_OK", "EOF"})
        /\ rcopies[c].inbox # <<>> => q # <<>>
    BY <2>1, <2>2, SentQueue DEF RcopyType
  <2> DEFINE x == [rcopies[c] EXCEPT !.inbox = q]
  <2>4. /\ x \in RcopyType /\ x.state = rcopies[c].state /\ x.inbox = q
        /\ x.process = rcopies[c].process /\ x.count = rcopies[c].count
    BY <2>2, <2>3 DEF RcopyType
  <2>5. rcopies' = [rcopies EXCEPT ![c] = x]
    BY <2>1
  <2> HIDE DEF x
  <2>6. RcopySound(x)
    BY <2>2, <2>3, <2>4 DEF RcopySound
  <2> QED
    BY <1>1, <2>5, <2>6, OneRcopy
<1> QED
  BY <1>2, <1>3

-----------------------------------------------------------------------------
(* The steps.                                                              *)

\* The main server.
LEMMA MainSteps ==
  ASSUME ProcessesInv, MainStep
  PROVE  ProcessesInv'
<1>0. MainSound /\ ChildrenSound /\ RcopiesSound /\ main \in MainType
  BY DEF ProcessesInv, MainSound
<1>1. ASSUME NEW state \in {"POLL", "RECV", "FORK", "EXITED"},
             NEW request \in Seq(Requests), state = "FORK" => request # <<>>,
             main' = [main EXCEPT !.state = state, !.request = request],
             requests' \in Seq(Requests)
      PROVE  MainSound'
  <2>1. /\ main'.state = state /\ main'.request = request
        /\ main'.process = main.process /\ main' \in MainType
    BY <1>0, <1>1 DEF MainType
  <2> QED
    BY <1>0, <1>1, <2>1 DEF MainSound, Watching, HasFree
<1>2. CASE MainPoll
  <2>1. main' = [main EXCEPT !.state = "RECV", !.request = main.request]
    BY <1>0, <1>2 DEF MainPoll, MainType
  <2>2. main.request \in Seq(Requests) /\ requests' \in Seq(Requests)
    BY <1>0, <1>2 DEF MainPoll, MainSound, MainType
  <2>3. MainSound'
    BY <1>1, <2>1, <2>2
  <2> QED
    BY <1>0, <1>2, <2>3, Untouched DEF MainPoll, ProcessesInv
<1>3. CASE MainRecv
  <2>1. /\ <<Head(requests)>> \in Seq(Requests)
        /\ Tail(requests) \in Seq(Requests)
    BY <1>0, <1>3 DEF MainRecv, MainSound
  <2>2. MainSound'
    BY <1>1, <1>3, <2>1 DEF MainRecv
  <2> QED
    BY <1>0, <1>3, <2>2, Untouched DEF MainRecv, ProcessesInv
<1>4. CASE MainFork
  <2>1. MainSound'
    <3>1. main' = [main EXCEPT !.state = "POLL", !.request = <<>>]
      BY <1>4 DEF MainFork
    <3>2. <<>> \in Seq(Requests) /\ requests' \in Seq(Requests)
      BY <1>0, <1>4 DEF MainFork, MainSound
    <3> QED
      BY <1>1, <3>1, <3>2
  <2>2. ChildSound(NewChild)
    <3>1. main.request # <<>> /\ main.request \in Seq(Requests)
      BY <1>0, <1>4 DEF MainFork, MainSound, MainType
    <3>2. main.request[1] \in Requests
      BY <3>1
    <3>3. main.process \in ProcessType
      BY <1>0 DEF MainType
    <3>4. /\ NewChild \in ChildType /\ NewChild.state = "SETUP"
          /\ NewChild.process = main.process /\ NewChild.count = 0
      BY <3>2, <3>3, ProcessesAssumption DEF NewChild, ChildType
    <3> QED
      BY <1>0, <3>4, ProcessesAssumption DEF ChildSound, MainSound
  <2>3. children' = Append(children, NewChild)
    BY <1>4 DEF MainFork
  <2>4. NewChild \in ChildType /\ children \in Seq(ChildType)
    BY <1>0, <2>2 DEF ChildSound, ChildrenSound
  <2>5. /\ children' \in Seq(ChildType)
        /\ \A k \in DOMAIN children' :
             (k \in DOMAIN children /\ children'[k] = children[k]) \/ children'[k] = NewChild
    BY <2>3, <2>4
  <2>6. \A k \in DOMAIN children' : ChildSound(children'[k])
    BY <1>0, <2>2, <2>5 DEF ChildrenSound
  <2>7. ChildrenSound'
    BY <2>5, <2>6 DEF ChildrenSound, ChildSound
  <2> QED
    BY <1>0, <1>4, <2>1, <2>7, Untouched DEF MainFork, ProcessesInv
<1>5. CASE MainForkFails
  <2>1. MainSound'
    <3>1. main' = [main EXCEPT !.state = "EXITED", !.request = <<>>]
      BY <1>5 DEF MainForkFails
    <3>2. <<>> \in Seq(Requests) /\ requests' \in Seq(Requests)
      BY <1>0, <1>5 DEF MainForkFails, MainSound
    <3> QED
      BY <1>1, <3>1, <3>2
  <2> QED
    BY <1>0, <1>5, <2>1, Untouched DEF MainForkFails, ProcessesInv
<1> QED
  BY <1>2, <1>3, <1>4, <1>5 DEF MainStep

\* A child goes to a state in which it polls what it polled before, or exits.
LEMMA ChildGoesOn ==
  ASSUME ChildrenSound, NEW k \in DOMAIN children,
         NEW state \in {"SEND", "POLL", "RECV", "ZOMBIE"}, ChildGoes(k, state),
         state # "ZOMBIE" => children[k].state \in {"FILENAME", "SEND", "POLL", "RECV"},
         NoHangup /\ state = "RECV" => children[k].inbox # <<>>
  PROVE  ChildrenSound'
<1> DEFINE x == [children[k] EXCEPT !.state = state]
<1>1. ChildSound(children[k]) /\ children[k] \in ChildType
  BY DEF ChildrenSound, ChildSound
<1>2. /\ x \in ChildType /\ x.state = state /\ x.process = children[k].process
      /\ x.count = children[k].count /\ x.inbox = children[k].inbox
  BY <1>1 DEF ChildType
<1>3. children' = [children EXCEPT ![k] = x]
  BY DEF ChildGoes
<1> HIDE DEF x
<1>4. ChildSound(x)
  BY <1>1, <1>2 DEF ChildSound
<1> QED
  BY <1>3, <1>4, OneChild

\* A child.
LEMMA ChildSteps ==
  ASSUME ProcessesInv, NEW k, ChildStep(k)
  PROVE  ProcessesInv'
<1>0. /\ MainSound /\ ChildrenSound /\ RcopiesSound /\ k \in DOMAIN children
      /\ ChildSound(children[k]) /\ children[k] \in ChildType
  BY DEF ProcessesInv, ChildStep, ChildrenSound, ChildSound
<1>1. CASE ChildSetup(k)
  <2> DEFINE p == OpenSocket(CloseSocket(children[k].process), "OWN")
             x == [children[k] EXCEPT !.state = "FILENAME", !.process = p]
  <2>1. children' = [children EXCEPT ![k] = x]
    BY <1>1 DEF ChildSetup
  <2>2. /\ children[k].process \in ProcessType
        /\ Watching(children[k].process, "MAIN") /\ HasFree(children[k].process)
        /\ children[k].count < MaxTries
    BY <1>0, <1>1 DEF ChildSetup, ChildSound, ChildType
  <2>3. p \in ProcessType /\ Watching(p, "OWN") /\ HasFree(p)
    BY <2>2, ChildWatches
  <2> HIDE DEF p
  <2>4. /\ x \in ChildType /\ x.state = "FILENAME" /\ x.process = p
        /\ x.count = children[k].count
    BY <1>0, <2>3 DEF ChildType
  <2> HIDE DEF x
  <2>5. ChildSound(x)
    BY <2>2, <2>3, <2>4 DEF ChildSound
  <2>6. ChildrenSound'
    BY <1>0, <2>1, <2>5, OneChild
  <2> QED
    BY <1>0, <1>1, <2>6, Untouched DEF ChildSetup, ProcessesInv
<1>2. CASE ChildFileOk(k)
  <2> DEFINE p == OpenFile(children[k].process)
             x == [children[k] EXCEPT !.state = "SEND", !.process = p]
  <2>1. children' = [children EXCEPT ![k] = x]
    BY <1>2 DEF ChildFileOk
  <2>2. /\ children[k].process \in ProcessType
        /\ Watching(children[k].process, "OWN") /\ HasFree(children[k].process)
        /\ children[k].count < MaxTries
    BY <1>0, <1>2 DEF ChildFileOk, ChildSound, ChildType
  <2>3. p \in ProcessType /\ Watching(p, "OWN")
    BY <2>2, FileOpened
  <2> HIDE DEF p
  <2>4. /\ x \in ChildType /\ x.state = "SEND" /\ x.process = p
        /\ x.count = children[k].count
    BY <1>0, <2>3 DEF ChildType
  <2> HIDE DEF x
  <2>5. ChildSound(x)
    BY <2>2, <2>3, <2>4 DEF ChildSound
  <2>6. ChildrenSound'
    BY <1>0, <2>1, <2>5, OneChild
  <2>7. RcopiesSound'
    BY <1>0, <1>2, ToClientSound DEF ChildFileOk
  <2> QED
    BY <1>0, <1>2, <2>6, <2>7, Untouched DEF ChildFileOk, ProcessesInv
<1>3. CASE ChildFileNotOk(k)
  <2>1. ChildrenSound' /\ RcopiesSound'
    BY <1>0, <1>3, ChildGoesOn, ToClientSound DEF ChildFileNotOk
  <2> QED
    BY <1>0, <1>3, <2>1, Untouched DEF ChildFileNotOk, ProcessesInv
<1>4. CASE ChildFilenameIssue(k)
  <2>1. ChildrenSound'
    BY <1>0, <1>4, ChildGoesOn DEF ChildFilenameIssue
  <2> QED
    BY <1>0, <1>4, <2>1, Untouched DEF ChildFilenameIssue, ProcessesInv
<1>5. CASE ChildSend(k)
  <2>1. ChildrenSound' /\ RcopiesSound'
    BY <1>0, <1>5, ChildGoesOn, ToClientSound DEF ChildSend
  <2> QED
    BY <1>0, <1>5, <2>1, Untouched DEF ChildSend, ProcessesInv
<1>6. CASE ChildPoll(k)
  <2>1. children[k].process \in ProcessType /\ Watching(children[k].process, "OWN")
    BY <1>0, <1>6 DEF ChildPoll, ChildSound, ChildType
  <2>2. NoHangup => children[k].inbox # <<>>
    BY <1>6, <2>1, PollFindsDatagram DEF ChildPoll
  <2>3. ChildrenSound'
    BY <1>0, <1>6, <2>2, ChildGoesOn DEF ChildPoll
  <2> QED
    BY <1>0, <1>6, <2>3, Untouched DEF ChildPoll, ProcessesInv
<1>7. CASE ChildTimeout(k)
  <2> DEFINE count == children[k].count + 1
             state == IF count < MaxTries THEN "POLL" ELSE "ZOMBIE"
             x == [children[k] EXCEPT !.count = count, !.state = state]
  <2>1. children' = [children EXCEPT ![k] = x]
    BY <1>7 DEF ChildTimeout
  <2>2. /\ children[k].process \in ProcessType
        /\ Watching(children[k].process, "OWN")
        /\ children[k].count < MaxTries
        /\ children[k].count \in 0 .. MaxTries
    BY <1>0, <1>7 DEF ChildTimeout, ChildSound, ChildType
  <2>3. count \in 0 .. MaxTries /\ state \in {"POLL", "ZOMBIE"}
        /\ (state = "POLL" => count < MaxTries)
    BY <2>2, ProcessesAssumption
  <2> HIDE DEF state, count
  <2>4. /\ x \in ChildType /\ x.state = state /\ x.count = count
        /\ x.process = children[k].process
    BY <1>0, <2>3 DEF ChildType
  <2> HIDE DEF x
  <2>5. ChildSound(x)
    BY <2>2, <2>3, <2>4 DEF ChildSound
  <2>6. ChildrenSound' /\ RcopiesSound'
    BY <1>0, <1>7, <2>1, <2>5, OneChild, ToClientSound DEF ChildTimeout
  <2> QED
    BY <1>0, <1>7, <2>6, Untouched DEF ChildTimeout, ProcessesInv
<1>8. CASE ChildRecv(k)
  <2>1. PICK state \in {"ZOMBIE", "POLL"} :
          children' = [children EXCEPT ![k].state = state,
                                       ![k].inbox = Tail(@), ![k].count = 0]
    BY <1>8 DEF ChildRecv
  <2> DEFINE x == [children[k] EXCEPT !.state = state, !.inbox = Tail(@), !.count = 0]
  <2>2. children' = [children EXCEPT ![k] = x]
    BY <2>1
  <2>3. /\ children[k].process \in ProcessType
        /\ Watching(children[k].process, "OWN")
        /\ Tail(children[k].inbox) \in Seq({"EOF_ACK"})
        /\ 0 \in 0 .. MaxTries
    BY <1>0, <1>8, ProcessesAssumption DEF ChildRecv, ChildSound, ChildType
  <2>4. /\ x \in ChildType /\ x.state = state /\ x.count = 0
        /\ x.process = children[k].process
    BY <1>0, <2>3 DEF ChildType
  <2> HIDE DEF x
  <2>5. ChildSound(x)
    BY <2>3, <2>4, ProcessesAssumption DEF ChildSound
  <2>6. ChildrenSound'
    BY <1>0, <2>2, <2>5, OneChild
  <2> QED
    BY <1>0, <1>8, <2>6, Untouched DEF ChildRecv, ProcessesInv
<1>9. CASE ChildExits(k)
  <2>1. ChildrenSound'
    BY <1>0, <1>9, ChildGoesOn DEF ChildExits
  <2> QED
    BY <1>0, <1>9, <2>1, Untouched DEF ChildExits, ProcessesInv
<1> QED
  BY <1>1, <1>2, <1>3, <1>4, <1>5, <1>6, <1>7, <1>8, <1>9 DEF ChildStep

\* An rcopy that ends is sound whatever it leaves behind.
LEMMA RcopyDone ==
  ASSUME RcopiesSound, NEW c \in Clients,
         NEW process \in ProcessType, NEW count \in 0 .. MaxTries,
         NEW inbox \in Seq({"FILE_OK", "FILE_NOT_OK", "EOF"}),
         rcopies' = [rcopies EXCEPT ![c] =
           [@ EXCEPT !.state = "DONE", !.process = process,
                     !.count = count, !.inbox = inbox]]
  PROVE  RcopiesSound'
<1> DEFINE x == [rcopies[c] EXCEPT !.state = "DONE", !.process = process,
                                   !.count = count, !.inbox = inbox]
<1>1. rcopies' = [rcopies EXCEPT ![c] = x]
  OBVIOUS
<1>2. rcopies[c] \in RcopyType
  BY DEF RcopiesSound
<1>3. x \in RcopyType /\ x.state = "DONE"
  BY <1>2 DEF RcopyType
<1> HIDE DEF x
<1>4. RcopySound(x)
  BY <1>3 DEF RcopySound
<1> QED
  BY <1>1, <1>4, OneRcopy

\* An rcopy goes to another state with what it has.
LEMMA RcopyGoesOn ==
  ASSUME RcopiesSound, NEW c \in Clients,
         NEW state \in {"POLL", "RECV", "FILE_OKAY", "TRANSFER", "RECV_EOF", "DONE"},
         NEW inbox \in Seq({"FILE_OK", "FILE_NOT_OK", "EOF"}),
         rcopies' = [rcopies EXCEPT ![c] = [@ EXCEPT !.state = state, !.inbox = inbox]],
         state # "DONE" => rcopies[c].state # "DONE",
         state \in {"POLL", "RECV", "FILE_OKAY"} =>
           rcopies[c].state \in {"SEND", "POLL", "RECV", "FILE_OKAY"},
         NoHangup /\ state \in {"RECV", "RECV_EOF"} => inbox # <<>>
  PROVE  RcopiesSound'
<1> DEFINE x == [rcopies[c] EXCEPT !.state = state, !.inbox = inbox]
<1>1. rcopies' = [rcopies EXCEPT ![c] = x]
  OBVIOUS
<1>2. rcopies[c] \in RcopyType /\ RcopySound(rcopies[c])
  BY DEF RcopiesSound
<1>3. /\ x \in RcopyType /\ x.state = state /\ x.inbox = inbox
      /\ x.process = rcopies[c].process /\ x.count = rcopies[c].count
  BY <1>2 DEF RcopyType
<1> HIDE DEF x
<1>4. RcopySound(x)
  BY <1>2, <1>3 DEF RcopySound
<1> QED
  BY <1>1, <1>4, OneRcopy

\* The next try of an rcopy, or its end.
LEMMA RetrySound ==
  ASSUME RcopiesSound, NEW c \in Clients, rcopies[c].state \in {"POLL", "RECV"},
         Retry(c)
  PROVE  RcopiesSound'
<1> DEFINE r == rcopies[c]
           closed == CloseSocket(r.process)
           reopened == PollSocket(OpenSocket(RemoveSocket(closed), "OWN"))
<1>1. /\ r \in RcopyType /\ RcopySound(r)
      /\ r.process \in ProcessType /\ Watching(r.process, "OWN") /\ HasFree(r.process)
      /\ r.count < MaxTries /\ r.count \in 0 .. MaxTries
  BY DEF RcopiesSound, RcopySound, RcopyType
<1>2. closed \in ProcessType
  BY <1>1, Closed
<1>3. reopened \in ProcessType /\ Watching(reopened, "OWN") /\ HasFree(reopened)
  BY <1>1, RetryWatches
<1>4. r.count + 1 \in 0 .. MaxTries
      /\ <<>> \in Seq({"FILE_OK", "FILE_NOT_OK", "EOF"})
  BY <1>1, ProcessesAssumption
<1>5. CASE r.count + 1 = MaxTries
  <2>1. rcopies' = [rcopies EXCEPT ![c] =
          [@ EXCEPT !.state = "DONE", !.process = closed,
                    !.count = r.count + 1, !.inbox = <<>>]]
    BY <1>5 DEF Retry
  <2> HIDE DEF closed, r
  <2> QED
    BY <1>2, <1>4, <2>1, RcopyDone
<1>6. CASE r.count + 1 # MaxTries
  <2> DEFINE x == [r EXCEPT !.state = "SEND", !.process = reopened,
                            !.count = r.count + 1, !.inbox = <<>>]
  <2>1. rcopies' = [rcopies EXCEPT ![c] = x]
    BY <1>6 DEF Retry
  <2>2. r.count + 1 < MaxTries
    BY <1>1, <1>6, ProcessesAssumption
  <2> HIDE DEF reopened
  <2>3. /\ x \in RcopyType /\ x.state = "SEND" /\ x.process = reopened
        /\ x.count = r.count + 1
    BY <1>1, <1>3, <1>4 DEF RcopyType
  <2> HIDE DEF x, r
  <2>4. RcopySound(x)
    BY <1>3, <2>2, <2>3 DEF RcopySound
  <2> QED
    BY <2>1, <2>4, OneRcopy
<1> QED
  BY <1>5, <1>6

\* The file is not there, or cannot be opened.
LEMMA EndSound ==
  ASSUME RcopiesSound, NEW c \in Clients,
         rcopies' = [rcopies EXCEPT ![c] = EndWithoutFile(@)]
  PROVE  RcopiesSound'
<1> DEFINE p == RemoveSocket(CloseSocket(rcopies[c].process))
           x == EndWithoutFile(rcopies[c])
<1>1. rcopies[c] \in RcopyType
  BY DEF RcopiesSound
<1>2. rcopies[c].process \in ProcessType /\ <<>> \in Seq({"FILE_OK", "FILE_NOT_OK", "EOF"})
  BY <1>1 DEF RcopyType
<1>3. p \in ProcessType
  BY <1>2, Closed, Removed
<1>4. x = [rcopies[c] EXCEPT !.state = "DONE", !.process = p, !.inbox = <<>>]
  BY DEF EndWithoutFile
<1>5. rcopies' = [rcopies EXCEPT ![c] = x]
  OBVIOUS
<1> HIDE DEF p, x
<1>6. x \in RcopyType /\ x.state = "DONE"
  BY <1>1, <1>2, <1>3, <1>4 DEF RcopyType
<1>7. RcopySound(x)
  BY <1>6 DEF RcopySound
<1> QED
  BY <1>5, <1>7, OneRcopy

\* An rcopy.
LEMMA RcopySteps ==
  ASSUME ProcessesInv, NEW c \in Clients, RcopyStep(c)
  PROVE  ProcessesInv'
<1> DEFINE r == rcopies[c]
           Queues == Seq({"FILE_OK", "FILE_NOT_OK", "EOF"})
<1>0. /\ MainSound /\ ChildrenSound /\ RcopiesSound
      /\ RcopySound(r) /\ r \in RcopyType /\ r.inbox \in Queues
      /\ r.process \in ProcessType /\ r.count \in 0 .. MaxTries
      /\ <<>> \in Queues
      /\ r.inbox # <<>> => Tail(r.inbox) \in Queues
                           /\ Head(r.inbox) \in {"FILE_OK", "FILE_NOT_OK", "EOF"}
  BY DEF ProcessesInv, RcopiesSound, RcopyType
<1>a. ASSUME NEW state \in {"POLL", "RECV", "FILE_OKAY", "TRANSFER", "RECV_EOF", "DONE"},
             RcopyGoes(c, state)
      PROVE  rcopies' = [rcopies EXCEPT ![c] = [@ EXCEPT !.state = state,
                                                         !.inbox = r.inbox]]
  <2>1. [r EXCEPT !.state = state] = [r EXCEPT !.state = state, !.inbox = r.inbox]
    BY <1>0 DEF RcopyType
  <2>2. rcopies' = [rcopies EXCEPT ![c] = [r EXCEPT !.state = state]]
    BY <1>a DEF RcopyGoes
  <2> QED
    BY <2>1, <2>2
<1>1. CASE RcopySend(c)
  <2>1. [client |-> c, try |-> r.count] \in Requests
    BY <1>0 DEF Requests
  <2>2. requests' \in Seq(Requests)
    BY <1>0, <1>1, <2>1, SentQueue DEF RcopySend, MainSound
  <2>3. MainSound'
    BY <1>0, <1>1, <2>2 DEF RcopySend, MainSound, Watching, HasFree
  <2>4. RcopiesSound'
    BY <1>0, <1>1, <1>a, RcopyGoesOn DEF RcopySend
  <2> QED
    BY <1>0, <1>1, <2>3, <2>4, Untouched DEF RcopySend, ProcessesInv
<1>2. CASE RcopyPoll(c)
  <2>1. r.state \in {"POLL", "TRANSFER"} /\ Watching(r.process, "OWN")
    BY <1>0, <1>2 DEF RcopyPoll, RcopySound
  <2>2. NoHangup => r.inbox # <<>>
    BY <1>0, <1>2, <2>1, PollFindsDatagram DEF RcopyPoll, RcopyPolls
  <2>3. CASE r.state = "POLL" /\ RcopyGoes(c, "RECV")
    <3>1. RcopiesSound'
      BY <1>0, <1>a, <2>2, <2>3, RcopyGoesOn
    <3> QED
      BY <1>0, <1>2, <3>1, Untouched DEF RcopyPoll, ProcessesInv
  <2>4. CASE r.state = "TRANSFER" /\ RcopyGoes(c, "RECV_EOF")
    <3>1. RcopiesSound'
      BY <1>0, <1>a, <2>2, <2>4, RcopyGoesOn
    <3> QED
      BY <1>0, <1>2, <3>1, Untouched DEF RcopyPoll, ProcessesInv
  <2> QED
    BY <1>2, <2>3, <2>4 DEF RcopyPoll
<1>3. CASE RcopyTimeout(c) \/ RcopyCorrupted(c)
  <2>1. RcopiesSound'
    BY <1>0, <1>3, RetrySound DEF RcopyTimeout, RcopyCorrupted
  <2> QED
    BY <1>0, <1>3, <2>1, Untouched DEF RcopyTimeout, RcopyCorrupted, ProcessesInv
<1>4. CASE RcopyRecv(c)
  <2>1. RcopiesSound'
    <3>1. CASE Head(r.inbox) = "FILE_NOT_OK"
      <4>1. rcopies' = [rcopies EXCEPT ![c] = EndWithoutFile(@)]
        BY <1>4, <3>1 DEF RcopyRecv
      <4> QED
        BY <1>0, <4>1, EndSound
    <3>2. CASE Head(r.inbox) = "EOF"
      <4>1. rcopies' = [rcopies EXCEPT ![c] = [@ EXCEPT !.state = "DONE", !.inbox = <<>>]]
        BY <1>4, <3>2 DEF RcopyRecv
      <4> HIDE DEF r
      <4> QED
        BY <1>0, <4>1, RcopyGoesOn
    <3>3. CASE Head(r.inbox) = "FILE_OK"
      <4>1. rcopies' = [rcopies EXCEPT ![c] = [@ EXCEPT !.state = "FILE_OKAY",
                                                        !.inbox = Tail(r.inbox)]]
        <5> DEFINE x == [r EXCEPT !.state = "FILE_OKAY", !.inbox = Tail(r.inbox)]
        <5>1. rcopies' = [rcopies EXCEPT ![c] =
                CASE Head(r.inbox) = "FILE_NOT_OK" -> EndWithoutFile(r)
                  [] Head(r.inbox) = "EOF" -> [r EXCEPT !.state = "DONE", !.inbox = <<>>]
                  [] Head(r.inbox) = "FILE_OK" -> x]
          BY <1>4 DEF RcopyRecv
        <5> HIDE DEF x, r
        <5>2. rcopies' = [rcopies EXCEPT ![c] = x]
          BY <3>3, <5>1
        <5> QED
          BY <5>2 DEF x, r
      <4>2. r.state = "RECV" /\ Tail(r.inbox) \in Queues
        BY <1>0, <1>4 DEF RcopyRecv
      <4> QED
        BY <1>0, <4>1, <4>2, RcopyGoesOn
    <3> QED
      BY <1>0, <1>4, <3>1, <3>2, <3>3 DEF RcopyRecv
  <2> QED
    BY <1>0, <1>4, <2>1, Untouched DEF RcopyRecv, ProcessesInv
<1>5. CASE RcopyOpen(c)
  <2>1. CASE rcopies' = [rcopies EXCEPT ![c] = EndWithoutFile(@)]
    <3>1. RcopiesSound'
      BY <1>0, <2>1, EndSound
    <3> QED
      BY <1>0, <1>5, <3>1, Untouched DEF RcopyOpen, ProcessesInv
  <2>2. CASE rcopies' = [rcopies EXCEPT ![c].state = "TRANSFER",
                                        ![c].process = OpenFile(@)]
    <3> DEFINE p == OpenFile(r.process)
               x == [r EXCEPT !.state = "TRANSFER", !.process = p]
    <3>1. rcopies' = [rcopies EXCEPT ![c] = x]
      BY <2>2
    <3>2. Watching(r.process, "OWN") /\ HasFree(r.process) /\ r.count < MaxTries
      BY <1>0, <1>5 DEF RcopyOpen, RcopySound
    <3>3. p \in ProcessType /\ Watching(p, "OWN")
      BY <1>0, <3>2, FileOpened
    <3> HIDE DEF p
    <3>4. /\ x \in RcopyType /\ x.state = "TRANSFER" /\ x.process = p
          /\ x.count = r.count
      BY <1>0, <3>3 DEF RcopyType
    <3> HIDE DEF x
    <3>5. RcopySound(x)
      BY <3>2, <3>3, <3>4 DEF RcopySound
    <3>6. RcopiesSound'
      BY <1>0, <3>1, <3>5, OneRcopy
    <3> QED
      BY <1>0, <1>5, <3>6, Untouched DEF RcopyOpen, ProcessesInv
  <2> QED
    BY <1>5, <2>1, <2>2 DEF RcopyOpen
<1>6. CASE RcopyGivesUp(c)
  <2>1. RcopiesSound'
    BY <1>0, <1>6, <1>a, RcopyGoesOn DEF RcopyGivesUp
  <2> QED
    BY <1>0, <1>6, <2>1, Untouched DEF RcopyGivesUp, ProcessesInv
<1>7. CASE RcopyRecvEOF(c)
  <2>0. MainSound' /\ r.state = "RECV_EOF" /\ Tail(r.inbox) \in Queues
    BY <1>0, <1>7, Untouched DEF RcopyRecvEOF
  <2>1. RcopiesSound'
    <3>1. CASE rcopies' = [rcopies EXCEPT ![c].state = "DONE", ![c].inbox = <<>>]
      <4>1. rcopies' = [rcopies EXCEPT ![c] = [@ EXCEPT !.state = "DONE", !.inbox = <<>>]]
        BY <3>1
      <4> QED
        BY <1>0, <4>1, RcopyGoesOn
    <3>2. CASE rcopies' = [rcopies EXCEPT ![c].state = "TRANSFER", ![c].inbox = Tail(@)]
      <4>1. rcopies' = [rcopies EXCEPT ![c] = [@ EXCEPT !.state = "TRANSFER",
                                                        !.inbox = Tail(r.inbox)]]
        BY <3>2
      <4> QED
        BY <1>0, <2>0, <4>1, RcopyGoesOn
    <3> QED
      BY <1>7, <3>1, <3>2 DEF RcopyRecvEOF
  <2>2. ChildrenSound'
    <3>1. CASE UNCHANGED children
      BY <1>0, <3>1, Untouched
    <3>2. CASE ~UNCHANGED children
      <4>1. PICK k \in DOMAIN children :
              \E q \in Sent(children[k].inbox, "EOF_ACK") :
                children' = [children EXCEPT ![k].inbox = q]
        BY <1>7, <3>2 DEF RcopyRecvEOF
      <4>2. PICK q \in Sent(children[k].inbox, "EOF_ACK") :
              children' = [children EXCEPT ![k].inbox = q]
        BY <4>1
      <4> DEFINE x == [children[k] EXCEPT !.inbox = q]
      <4>3. ChildSound(children[k]) /\ children[k] \in ChildType
        BY <1>0 DEF ChildrenSound, ChildSound
      <4>4. q \in Seq({"EOF_ACK"}) /\ (children[k].inbox # <<>> => q # <<>>)
        BY <4>3, SentQueue DEF ChildType
      <4>5. /\ x \in ChildType /\ x.state = children[k].state /\ x.inbox = q
            /\ x.process = children[k].process /\ x.count = children[k].count
        BY <4>3, <4>4 DEF ChildType
      <4>6. children' = [children EXCEPT ![k] = x]
        BY <4>2
      <4> HIDE DEF x
      <4>7. ChildSound(x)
        BY <4>3, <4>4, <4>5 DEF ChildSound
      <4> QED
        BY <1>0, <4>6, <4>7, OneChild
    <3> QED
      BY <3>1, <3>2
  <2> QED
    BY <2>0, <2>1, <2>2 DEF ProcessesInv
<1>8. CASE RcopyExits(c)
  <2>1. rcopies' = [rcopies EXCEPT ![c] = [@ EXCEPT !.state = "DONE", !.inbox = <<>>]]
    BY <1>8 DEF RcopyExits
  <2>2. RcopiesSound'
    BY <1>0, <2>1, RcopyGoesOn
  <2> QED
    BY <1>0, <1>8, <2>2, Untouched DEF RcopyExits, ProcessesInv
<1> QED
  BY <1>1, <1>2, <1>3, <1>4, <1>5, <1>6, <1>7, <1>8 DEF RcopyStep

\* The invariant is one.
THEOREM ProcessesInvariant == Spec => []ProcessesInv
<1>1. Init => ProcessesInv
  BY ProcessesInit
<1>2. ProcessesInv /\ [Next]_vars => ProcessesInv'
  <2> SUFFICES ASSUME ProcessesInv, [Next]_vars
               PROVE  ProcessesInv'
    OBVIOUS
  <2>1. CASE MainStep
    BY <2>1, MainSteps
  <2>2. ASSUME NEW k \in 1 .. MaxProcesses, ChildStep(k)
        PROVE  ProcessesInv'
    BY <2>2, ChildSteps
  <2>3. ASSUME NEW c \in Clients, RcopyStep(c)
        PROVE  ProcessesInv'
    BY <2>3, RcopySteps
  <2>4. CASE Idle \/ UNCHANGED vars
    BY <2>4, Untouched DEF Idle, vars, ProcessesInv
  <2> QED
    BY <2>1, <2>2, <2>3, <2>4 DEF Next
<1> QED
  BY <1>1, <1>2, PTL DEF Spec

\* The records and queues of all processes keep their types, and no process
\* has more tries than it is given (rcopy.c:91, 131, server.c:335).
THEOREM ProcessesTypeCorrect == Spec => []TypeOK
BY ProcessesInvariant, ProcessesInvImplies, PTL

\* Every process polls its own open socket and no other (server.c:51-52).
THEOREM WatchesCorrect == Spec => []WatchesItsSocket
BY ProcessesInvariant, ProcessesInvImplies, PTL

\* No process gives poll() entries that its table does not have.
THEOREM PollSetCorrect == Spec => []PollSetInBounds
BY ProcessesInvariant, ProcessesInvImplies, PTL

\* With a standard input that is not hung up, nobody blocks in recvfrom after
\* pollCall; with one that is, the run hung_up shows otherwise.
THEOREM RecvCorrect ==
  ASSUME \A files \in Launches : files[0] # "HUNGUP"
  PROVE  Spec => []RecvHasDatagram
<1>1. NoHangup
  BY DEF NoHangup
<1>2. ProcessesInv => RecvHasDatagram
  BY <1>1, ProcessesInvImplies
<1> QED
  BY <1>2, ProcessesInvariant, PTL
=============================================================================

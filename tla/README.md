# remotecopy in TLA+

`src/project_3` copies a file from a server to the machine that runs `rcopy`,
over UDP, with a sliding window and selective reject.  `rcopy` names the file,
the window size and the buffer size in a FILENAME packet; the server forks a
child for it, which answers FILE_OK or FILE_NOT_OK and then streams the file;
`rcopy` acknowledges with RRs, asks for gaps with SREJs, buffers what arrives
ahead, and ends with an EOF_ACK for the server's EOF.  The error library
(`libcpe464`) between the programs and the sockets drops datagrams and inverts
bytes on purpose.  This directory models the protocol, checks it with TLC and
proves with TLAPS that it implements an abstract copy.  The same programs are
then modelled with their clocks, over a network that reorders or duplicates,
and as processes with descriptors, poll sets and seeds.

## 1. Inventory

| Component | State | Operations | Interacts by |
|---|---|---|---|
| rcopy (`rcopy.c`) | state of `enum State`, window, to-file, retry count | start, filename, file_okay, in_order, buffering, flush | datagrams to and from the child; descriptors in the poll set |
| server child (`server.c`) | state, window, position in the from-file, `count` | filename, window_open, window_closed, end_of_file, cleaning_up_with_RR, resend_data_packet | datagrams; forked by the main server with the FILENAME packet in hand |
| main server (`server.c` 23-62) | its socket, its children | receive, fork | FILENAME packets, one child for each copy that arrives; its children inherit its poll set |
| window (`window.c`) | slots, lower, current, upper, highest | make, add, get, remove, increment, update | called by both programs |
| packets (`pdu.c`, `both.h`) | none | createPDU, processPDU | called by both programs |
| checksum (`checksum.c`) | none | in_cksum | createPDU, processPDU, filename of rcopy |
| error library (`PacketManager.cpp`, `MsgEvents/`) | message counter, lists of errors, seed | sendto_Err, processEvents, run | between sendto and the socket |
| its settings (`SettingsManager.cpp`) | modes from the environment | parse, apply | fills the error lists; sets seed, rate and debug level at start, in `sendErr_init` and at fork |
| poll set (`pollLib.c`) | table of descriptors | setup, add, remove, pollCall | called by both programs, copied by fork |
| sockets (`networks.c`, `safeUtil.c`) | none | set-up, checked system calls | system |

What is hard here:

* **Loss and corruption in both directions**, with retries whose effect depends
  on what the other side has meanwhile done.  A lost SREJ is never repeated;
  a lost RR is made good by a later one; a lost EOF_ACK never.
* **One ring buffer, two protocols.**  `window.c` maps a sequence number to
  slot `n % window_size` and does not compare the number of what it finds
  there.  Whether `get_PDU` finds the right packet, or one at all, depends on
  how far the two windows are apart, thus on every RR and SREJ under way.
* **Answers out of step.**  rcopy sends RRs from three states, the server
  reads them in three others, and `resend_data_packet` has no answer for a
  packet that an RR has released.
* **Processes share more than they should.**  A child inherits its parent's
  socket, poll set and error lists, and is never waited for; the poll set asks
  about descriptors it does not hold.
* **A handshake with a short cut**: a first data packet counts as FILE_OK.
* **flush and buffering hand the buffer to and fro**; in_order assumes it empty.
* **Timers**: one second and ten tries on one side, ten seconds on the other;
  a corrupted datagram starts both anew.
* **rcopy answers whoever sent last.**  Each `recvfrom` overwrites
  `serverAddress`; with two children for one FILENAME, either is answered for
  the other's packets.
* **Settings are applied over and over**: by a constructor, by `sendErr_init`,
  at fork, and by `sendErr_init` again in the child.

What makes each part correct: rcopy writes a prefix of the from-file and says it
is complete only when it is; the server resends the packet it was asked for and
never needs one it has released; the windows stay within one window size of
each other; the buffer holds packets of the window only; the handshake ends as
its comment says.  An inverted byte never passes for a good packet; everybody
polls the socket it then receives from; each request gets a child of its own,
and every wait but the main server's comes to an end.  The list of hazards, each
at its line, is in `PROJECT.json`.

## 2. Modules

```
Pdu -- Window --+-- Server --+
  \             |            +-- Transfer -- TransferInvariant -- MCTransfer
   \- Network --+-- Rcopy  --+      |  |  \          |
                                    |  |   \         +-- ServerProofs -- RcopyProofs
                         FileCopy --+  |    \                  |             |   :
                                       |     \                 TransferProofs    :
                                       |      \                      |           :
                                       |       TimedTransfer -- TimedProofs      :
                                       |              +-------- MCTimed          :
                                       +-- ReorderedTransfer -- MCReordered      :
                                       +== TwoChildren -- MCTwo                  :
                                                  +------ TwoChildrenProofs =====+

Checksum --+-- ErrorLibrary -- MCErrorLibrary, ErrorLibraryProofs
           |
Settings --+-- Seeds -- MCSeeds, SeedsProofs

PollSet -- Processes -- MCProcesses, ProcessesProofs
```

(`==` is two instances.  `TransferProofs` also extends `ReorderedTransfer`, and
`MCReordered` extends `TransferInvariant`.)

| Module | Models |
|---|---|
| `Pdu` | packets; a chunk is what one `read()` of `buffer_size` bytes returns, a file a sequence of chunks |
| `Window` | `window.c`, operation by operation, on a record with the fields of `WindowArray` |
| `Network` | a queue of datagrams in each direction; drop and inversion by the error library |
| `Server` | the child of `server.c`, one action per branch of its handlers |
| `Rcopy` | `rcopy.c` likewise |
| `Transfer` | both and the network; the properties |
| `FileCopy` | the abstract specification: what the user of rcopy is promised |
| `TransferInvariant` | the inductive invariants: `IInv`, its part `CoreInv` that survives reordering, and `SideInv`, `BufferInv` for two children |
| `TimedTransfer` | `Transfer` with the seconds of every timer, faults that are counted, and fairness |
| `ReorderedTransfer` | `Transfer` with datagrams that may change places |
| `TwoChildren` | a FILENAME delivered twice: two instances of `Transfer` that share their rcopy |
| `Checksum` | packets as bytes: `createPDU`, `processPDU`, `in_cksum` |
| `ErrorLibrary` | the lists of events of `libcpe464` in one process, and what they do to a datagram |
| `Settings` | what the error library reads from its environment |
| `Seeds` | the seed, the error rate and the debug level in the server and in the children it forks |
| `PollSet` | `pollLib.c` on a record with its three static variables, and what `poll()` makes of the table |
| `Processes` | the main server, its children and several rcopies, with their descriptors and poll sets |
| `ServerProofs`, `RcopyProofs`, `TransferProofs`, `TimedProofs`, `TwoChildrenProofs`, `ErrorLibraryProofs`, `SeedsProofs`, `ProcessesProofs` | the proofs |

The three groups share no variables.  They meet in assumptions that one group
makes and another checks: `Transfer` takes a datagram to be intact or
recognizably `CORRUPT`, which `ErrorLibrary` checks and `ErrorLibraryProofs`
proves (`IntactAccepted`, `InvertedRejected`); `Transfer` lets
each program receive only its own datagrams, which `Processes` checks
(`WatchesItsSocket`, `RecvHasDatagram`).

How state maps to the code:

* `sstate` and `rstate` are the `state` of `process_client` and `processFile`.
  A handler that blocks in the middle is split there: `FILENAME_POLL` (rcopy's
  `filename` in `pollCall(ONE_SEC)`), `WINDOW_OPEN_POLL` (`window_open` between
  `send_data_packet` and the answer of `pollCall(0)`) and `EOF_WAIT`
  (`end_of_file` after `send_eof`).  Everything between two such points is one
  action: no other process sees the intermediate states, because nothing but
  datagrams is shared.  The loops of `flush` and `window_open` take one action
  per turn.
* `swin` and `rwin` are the two `WindowArray`s.  `make_window` runs when each
  is first needed, with fixed contents; the model starts with them made.
* `offset` is the position of the from-file's descriptor, `out` the contents of
  the to-file, both counted in chunks.  `scount` and `rcount` are the `count`s.
* `scause` and `rcause` record which `return DONE` ended a program.  They are
  history: no guard reads them.
* `CRASHED` is `resend_data_packet` going on with the -1 of `get_PDU`: what
  the program does then is undefined, so the model stops there and the
  properties say that it is not reached.
* A corrupted datagram is a packet `CORRUPT` and nothing else: the code looks at
  the checksum before anything it acts on.  `ErrorLibrary` justifies this.
* In `Transfer` a timeout may happen at any time, the queues being what is under
  way as much as what has arrived.  The model therefore has more behaviours than
  the timers allow, and what holds in it holds whatever the delays.
* In `TimedTransfer` `stimer` and `rtimer` are the seconds since either program
  last called `pollCall`; every step of a program sets its own back.  `Tick`
  lets a second pass, and only while both programs wait or have exited, no
  datagram is under way and no timeout is due: a datagram and a turn of a loop
  take no time compared with a second.  A timeout then happens exactly when it
  is due.  `faults` counts what the network has dropped or corrupted, up to
  `MaxFaults`, which then stands for any larger number.
* In `TwoChildren` `peer` says which child's address is in `serverAddress`.  Each
  child has queues of its own; a step of rcopy that receives takes the datagram of
  either child, sets `peer`, and sends what it sends to that child.
* `Retry` is the end of one turn of rcopy's handshake: another socket, so
  whatever was sent to or by the old one is lost, and with it the child that
  answered.  The main server forks another child for the next FILENAME packet.
  The orphan shares nothing with the new transfer and is not followed further.

In `ErrorLibrary`, `standard` and `chance` are `m_ErrorCase_Constant` and
`m_ErrorCase_Chance`, `drop` and `flip` the two entries of the environment,
`msgNo` is `m_MsgNo`.  A random event may be drawn for any message: `drand48()`
may return 0 whatever the error rate is.

In `Seeds`, `clock` is `time(NULL)`, `data` is `m_EnvData` (read once, never
changed), and `main` and `children[k]` are what the library keeps in each process:
`nextSeed` of `network-hooks.c`, seed, rate and debug level.  `forkMod` counts
`nextSeed` in the parent and seeds the child; `ChildInit` is the child's
own `sendErr_init`.  The two `time(NULL)` of one `sendErr_init` may differ.

In `Processes`, `main`, `children[k]` and `rcopies[c]` are one process each:
where in its loop it is, its table of open files (`files`), its copies of
`pollLib.c`'s static variables (`ps`), its socket, its retry count and what
waits in the socket's buffer.  `socket()` returns the lowest free descriptor.
`fork()` copies the whole record.  Transfers are those of an empty file: who
waits for whom does not depend on the data, which `Transfer` has.  A datagram
to a socket that its owner has closed vanishes.  A request is named by its
client and its try, as the code names it by the client's port.  `ChildExits` and
`RcopyExits` are the exits of `safeUtil.c` and `networks.c` when `socket`, `bind`,
`sendto` or a name lookup fails.
`POLL_SET_SIZE` is 10 in the code and 3 here, so that a table with three more
open files has to grow.

The assumptions on constants are in the modules that declare them:
`FileAssumption`, `WindowSizeAssumption` (at least 1; the code does not check,
see the hazards), `NULLAssumption`, `MaxTriesAssumption`, `MaxInFlightAssumption`,
`FieldsAssumption` (payloads of at most 1400 bytes, as `checkArgs` demands),
`Uint32Assumption`, `BoundsAssumption` (the message counter does not wrap),
`PollSetAssumption`, `ProcessesAssumption`, `SeedsAssumption` (the server starts
within the time modelled, and the numbers of the environment, the time and what is
counted up from it fit an int), `TimedAssumption` (the count of faults goes as far as the tries
and the ten seconds it is compared with).

## 3. Properties and runs

`Transfer` and the specifications built on it but `TimedTransfer`, `ErrorLibrary` and
`Seeds` are safety only: their `Spec` has **no fairness**.

`TimedSpec` has weak fairness of the child's steps, of rcopy's, of the turn of
the handshake and of `Tick`: the system schedules both processes, `poll()` with
a timeout returns, and time passes.  It has strong fairness of `ServerHears` and
`RcopyHears`, the receipt of an intact datagram: the error rate is "between 0 and
less than 1" (cpe464.h:82) and drawn anew for each message
(PacketManager.cpp:160-161), so that whoever is sent datagrams for ever gets
intact ones for ever.  Nothing else is asked of the network; any finite number of
datagrams may be lost, at any place.

`Processes` has weak fairness of each process's steps (`Fairness`).  No fairness
is asked of the network there: each send may be lost, and a fork may fail.  The
main server's wait has no timeout, so `MainPoll` is enabled only when something
has arrived.

Deadlock is checked in every run but `error_library` and `seeds`.  `Transfer` and
what is built on it stop when both programs have ended only; `Processes` when all
have ended and the main server waits for more clients or has exited (`Idle`).
A process that uses the error library may send no further message at any point,
and the model bounds how many it sends; `Seeds` bounds the clock and the
children, and the server may exit: there is no deadlock to look for in them.

| Run | Bounds | Shows |
|---|---|---|
| `transfer` | 4 chunks, window 3, 2 tries, 4 datagrams before a timer may resend | all safety properties, `IInv`, and that `Transfer` implements `FileCopy` |
| `timed` | 3 chunks, window 2, 10 tries, 10 seconds, any number of faults, 40 datagrams | who gives up on whom and when; both end; the copy of a file that fills the window completes |
| `reordered` | 3 chunks, window 2, 2 tries, 2 datagrams | what reordering cannot break |
| `two_children` | 3 chunks, window 2, 2 tries, 1 datagram | what a second child cannot break |
| `error_library` | 79 packets, 6 settings of the environment for drops and for inversions, 2 calls of `sendErr_init`, 3 messages | which datagrams come through, and that the checksum tells |
| `seeds` | 27 environments, 2 start times, 3 children, 4 seconds | whose setting wins, who uses its own, and that fork gives each child a seed of its own |
| `processes` | 1 client, 3 tries, 2 children, socket buffers of 2, 2 sets of open files, table of 3 | sockets and poll sets fit, everybody is served and ends |
| `reordered_response` | 3 chunks, window 2, 3 datagrams | a late FILE_OK is written into the file |
| `reordered_resend` | 3 chunks, window 2, 3 datagrams | a stale SREJ makes the server use -1 as a length |
| `two_lower` | 3 chunks, window 2 | an RR moves a window past what has been sent |
| `turns_off` | 2 clients, 1 child | children that have exited stop the main server |
| `hung_up` | 1 client, stdin hung up | `pollCall` reports a socket ready that is not |

Why the bounds are enough.  Four chunks through a window of three wrap the ring
buffer, so that a slot serves two numbers, and leave room for two gaps and a
packet above them; rcopy then goes IN_ORDER, BUFFERING, FLUSH, BUFFERING, FLUSH,
IN_ORDER.  Two tries reach every counter's limit with one reset before it.
`MaxInFlight` bounds only the timers: sends that answer a datagram or come from
`window_open` are never held back.  What this instance shows is proved for all
values of the constants (section 4), windows of one slot included.

`timed` has the limits of the code, ten tries and ten seconds.  Its 40 datagrams
hold no timer back: nothing is under way when one is due.  Three chunks
through a window of two close the window and open it again.  Ten counted faults
are as many as either limit; further ones happen and are not told apart.

The packets of `error_library` have sequence numbers and payload bytes at both
ends of their ranges, payloads of odd and of even length (`in_cksum` treats the
last byte of an odd packet apart), and one whose sum carries a second time in
`Fold`; each of their bytes is inverted.  Two calls of `sendErr_init` are those
of a child of the server.  The lists of the environment have a word that cuts them
short, a negative number, and name the second, the first and third, or no message
out of three.  `Uint32Size` is 65536 there, since TLC's own integers have 32 bits,
and one list has a number two above it: how many values a `uint32_t` has matters
only in that such numbers exist and that no message counter gets there.  `seeds`
has each of three variables unset, not a number, or one.

`processes` varies the descriptors: standard input closed, so that the socket is
descriptor 0, or open with two more files, so that the socket is the fourth and
the table must grow; a second try sets the table up anew.  The tries come from
sockets of their own, so to the server they are several clients: the child of the
first is still being served while the second is forked.  The third fork fails, the
server is gone, and rcopy must end without it.  Sockets and sends fail too.
`turns_off` has two clients.

`transfer` checks:

* `OutputIsPrefix`, `CompleteWhenAcked` - what the to-file is, and when.
* `ServerAnswers`, `PacketsGenuine` - the slot asked for is populated, and by
  the right packet.
* `WindowsAgree`, `AnswersInOrder` - the distance of the two windows, and why
  answers that are under way cannot spoil it.
* `BufferSound`, `NoEOFWhileBuffering` - rcopy's buffer, and the comment at
  rcopy.c:336 that says an EOF cannot come there.
* `ResponseComesFirst` - the FILE_OK with number 0 stays out of the to-file.
* `FilenameOutcome` - the handshake ends as the comment at rcopy.c:68 says, for a
  file of at least a window.  For a shorter one the comment is wrong: the child
  sends EOF without waiting for an RR, and when everything before it is lost,
  that EOF ends rcopy in the handshake, without the retries it has left.
* `ImplementsFileCopy` - the refinement, `written <- out` and
  `status <- CopyStatus`.

`timed` checks `GivesUpOnSilence` (the child gives up on an rcopy that still waits
only after ten faults), `TimesOutOnSilence` (rcopy likewise on the child),
`CopyCompletes` (with fewer than ten faults, wherever they strike, the copy of a
file of at least a window is completed unless a file fails; for a shorter one as
few as two faults can be enough to end it, see `FilenameOutcome`) and `BothEnd`.

`reordered` checks `OutputIsPrefixAfterFirst` and `ReleasedOnlyWritten`: every chunk but
the first is right and none is missing at EOF, and no packet is released before
rcopy has written it.  It also checks `CoreInv`, from which both are proved.
`two_children` checks `ReleasedOnlyWritten` of both children and `BufferStaysSound`.
`error_library` checks `IntactAccepted`, `InvertedRejected` (also when a child
has every random event twice) and `DropListDecides` (of a list whose numbers fit a
`uint32_t`).  `seeds` checks `EnvironmentWins` (the environment decides; where it is
silent, a process past `sendErr_init` has the program's rate and debug level and is
seeded from a time) and `ForkedSeedsDiffer` (before the child's own `sendErr_init`).
`processes` checks `RecvHasDatagram`, `WatchesItsSocket`, `PollSetInBounds`, `RequestsServed` and `EverybodyFinishes`.
`PollSetInBounds` holds although `maxFileDescriptor` is never set back, because
the socket reopened after a retry has the number of the one before.

The five `violation` runs are disagreements between the code and what it says of
itself.  The first three need the network to reorder or to duplicate datagrams,
which UDP allows and the programs do not defend against:

* data packet 0 overtakes FILE_OK, counts as FILE_OK and is dropped; FILE_OK
  then has the expected number and its one byte becomes the first chunk;
* an RR overtakes an older SREJ and the server resends a packet it has freed;
* FILENAME is delivered twice, rcopy sends one child an RR for what the other
  has sent, and `cleaning_up_with_RR` moves that child's lower past its current;
* nobody waits for the children, so that in the end `fork` fails and the main
  server, which "should never turn off", exits;
* entries of the poll set that are not in use ask about descriptor 0; when that
  is hung up (or closed, with a socket above it) `pollCall` returns 0, and its
  caller blocks in `recvfrom` without a timeout.

Four smaller disagreements have no run of their own, and no property states them
as correct:

* rcopy.c:68 says that `filename()` gives up after the last timeout or a bad file.
  Behind a file shorter than the window an EOF, after FILE_OK and all data were lost,
  ends it with tries left (`FilenameOutcome` and `CopyCompletes` have the condition).
* SettingsManager.h:18 offers a list of messages for every variable of an event, but
  a list of messages to invert makes the library invert none of them, a TODO at
  SettingsManager.cpp:240-243, and refuse the program's own setting besides.
* A number of a list is narrowed from `long` to `uint32_t` (SettingsManager.cpp:256):
  4294967298 in the list of drops drops message 2 (`DropListDecides` asks for numbers
  that fit).
* network-hooks.c:196 says that "any child forked will have a different seed value",
  which is so until the child calls `sendErr_init` (server.c:53) and is seeded from
  the time: children that do so in one second draw the same numbers
  (`ForkedSeedsDiffer` stops there, and `EnvironmentWins` says what comes after).

## 4. Proofs

All theorems hold for every file, window size, retry limit and `MaxInFlight`
allowed by the assumptions; those of `ProcessesProofs` for every number of
clients, tries, children and descriptors and every size of the table; those of
`ErrorLibraryProofs` for every packet that rcopy's limit on the buffer size
allows, every environment, and any number of messages and of calls of
`sendErr_init`; those of `SeedsProofs` for every environment, clock and number of
children.

* `ServerProofs`, `RcopyProofs`: each action of the two programs preserves
  `TypeOK`, `CoreInv` and `IInv`, one lemma per action, one step per part of the
  invariant it disturbs, after a lemma for each operation of the window.
* `IInv` is needed because none of the properties is inductive: that rcopy writes
  the right chunk depends on what its slots and the queue hold (`RcopyInv`,
  `ToClientInv`), which depends on what the server's slots held when it
  sent (`ServerInv`), which depends on the RRs and SREJs under way
  (`ToServerInv`).  `HandshakeInv` carries the time before the transfer.
* `IInv` is `CoreInv /\ OrderInv`.  `CoreInv` does not depend on the order in which
  datagrams arrive: every chunk after the first is right, an RR names at most rcopy's
  current, an SREJ less than the server's, and a packet under way is genuine, the
  response, or below rcopy's current (what the server makes of a late SREJ).
  `OrderInv` says what order adds: the response comes first, RRs ascend,
  no SREJ stands behind an RR that passes it, and so the server never crashes.
* The index arithmetic is in two lemmas: two numbers less than a window size
  apart have different slots, and every number has one.  All else about `%` is
  derived from them.
* `TransferProofs`: the network's steps, `Retry`, `InvCorrect`, then one theorem
  per property of the `transfer` run, and `TransferImplementsFileCopy`: initial
  states map to initial states and every step to `Write`, `Finish`, `Fail` or a
  stutter.  `FilenameCorrect` has an invariant of its own, `FilenameInv`, relative to
  `IInv`: until rcopy answers there is no packet resent for an SREJ, and an
  EOF means that the whole file fits into the first window.
* The same lemmas serve the network that reorders: no step of a program but
  those that restore the order needs `OrderInv` for `CoreInv`, and swapping two
  datagrams changes nothing that `CoreInv` says.  `CoreCorrect` gives
  `ReorderedOutputCorrect` and `ReleaseCorrect`; the runs `reordered_response` and
  `reordered_resend` show that the two halves of `OrderInv` are really lost.
* `TwoChildrenProofs`: with two children even `CoreInv` is false of either side,
  since rcopy may be ahead of one child because of the other.  `SidesInv` keeps of it,
  for each side, the counters (`SideInv`: lower is not past rcopy's current, and
  nothing under way is as far as rcopy's upper) and rcopy's buffer (`BufferInv`).  That
  a step of a child or of rcopy preserves them is proved once, in `ServerProofs` and
  `RcopyProofs`, and used by instantiating those modules for either side; what is
  left is that a step of one side does not disturb the other, for which it is
  enough that rcopy's current never falls.
* `TimedProofs`: `TimedImplementsTransfer` says that every run with timers is a run
  of `Transfer` (each step is one, or changes the time only), which carries all the
  theorems above over to it; `TimedTypeCorrect` that no timer passes its timeout,
  from `TimersInv`, which also has rcopy's timer at most at one second while
  that is the timeout.  `GivesUpCorrect` and `TimesOutCorrect` say who gives up on
  whom.  Neither property is inductive; `SilenceInv`, relative to `IInv`, counts what
  must have been lost for the programs to be where they are.  `CountInv`: each try
  of a waiting child has cost a fault, and the next will, unless an answer is due
  (an RR is under way, or a packet that rcopy answers at once; what the child
  resends is one).  A second passes only with nothing under way, hence with no
  answer due.  `SentInv`: in the handshake, where rcopy answers nothing, each packet of
  the child that is not under way is lost, and the child can time out once before
  rcopy takes another socket.  `FaultlessInv`: without a fault rcopy gets packet after
  packet and the child RR after RR, so that an answer is always due when the child
  begins to wait.  `TimeoutInv`: each second of rcopy's timer has cost a fault, the child
  having resent something in each.
* `ErrorLibraryProofs`: `FoldIsResidue` says that `Fold` yields the residue of the
  sum modulo 65535 for every sum below 2^32, with 65535 in place of 0.  That an
  inverted byte changes `WordSum` by its weight, and that the sum of a packet stays
  below the limit, is proved by induction over the bytes; `PacketReadBack` and
  `InvertedPacketRejected` follow for every packet.  `LibraryInv` says which events
  the two lists may hold, whatever has been called: nothing that inverts in the
  standard list, and the listed drop in it, with no random one in the other, when
  the environment lists messages.  `runMsgEvents` over such a
  list then does nothing but drop (`RunUntouched`, by induction over the list), and
  one random event inverts at most one byte.
* Induction: the library's induction theorems take an operator as a parameter and
  cannot be instantiated here.  `SetInduction`, which takes a set, is proved from the
  theorem that an injection of a finite set into itself is onto; `WordSum` and
  `runMsgEvents` are recursive functions, of which it is enough.
* `SeedsProofs`: `SeedsInv` adds to the properties that the seeds given out are
  below the parent's `nextSeed`, and that before `sendErr_init` nothing is forked.
  A seed taken from the clock stays a time that has been, because the clock only
  advances (`StillSeeded`).
* `ProcessesProofs`: `ProcessesInv` says of each process which descriptors its files
  and its table of `pollLib.c` have at the point where it is; that a child's
  socket gets the number its parent's had is a fact about the lowest free descriptor.
  `WatchesCorrect`, `PollSetCorrect` and `ProcessesTypeCorrect` follow, and
  `RecvCorrect` when no program is started with standard input hung up; the run
  `hung_up` shows that it needs that.

Only model-checked: the findings, and all liveness: `BothEnd`, `CopyCompletes`,
`RequestsServed` and `EverybodyFinishes`.  Liveness cannot be proved with the
installed provers.

## 5. Not modelled

* Duplicates of datagrams other than FILENAME.  A copy of an RR that comes late is
  like one that was reordered; copies of data packets and SREJs are open.
* More than two children for one request; children of earlier tries of the
  handshake, which talk to a closed port, are not followed in `Transfer`.
* A window size of 0, which `checkArgs` does not reject and which makes the child
  divide by zero: there is nothing to relate it to.
* `bindMod`, `socketMod` and `selectMod`: `networks.c` does not include cpe464.h, and
  `pollLib.c` uses `poll`, so that nothing calls them and the port that the
  environment can override has no effect.  The error library's stream functions,
  which nothing calls either.
* Delays: a datagram of `TimedTransfer` takes less than a second.  In `Transfer`
  it takes any time.
* How drand48 draws: `ErrorLibrary` lets any random event be drawn for any message,
  whatever the seed of `Seeds` is.
* `in_cksum` on big-endian machines, and on packets whose sum passes 2^32, which
  no `buffer_size` that rcopy accepts can make.
* Sequence numbers wrap at 2^31 packets; the models use naturals.
* What else wraps: the message counter at 2^32 messages, `nextSeed` in 2038, and a
  seed or a debug level of the environment that does not fit an int.  The numbers of
  a list are narrowed as the code does it (`parserLong2Uint32`).
* `clean_up` of both programs is never reached: the loops end when the state is
  DONE, and the system frees everything at exit.
* Failures of `malloc`.
* How names are resolved (`gethostbyname.c`), the TCP functions of `networks.c`, the
  demo programs: set-up and I/O.

## 6. Plan

1. Done: the core (`Transfer` and below) with its proofs; `Checksum` and
   `ErrorLibrary`, `Settings` and `Seeds`, `PollSet` and `Processes`, with theirs; time
   and liveness (`TimedTransfer`), with the proof of who gives up on whom; reordering,
   with the proof of what it cannot break; a duplicated FILENAME (`TwoChildren`),
   likewise.
2. Duplicated data packets, RRs and SREJs in `ReorderedTransfer`.

------------------------------ MODULE EventLoop -----------------------------
(***************************************************************************)
(* main.c: the epoll loop, its table of connections, and the descriptors    *)
(* and epoll registrations it must keep consistent with that table.         *)
(*                                                                          *)
(* The server is one thread: epoll_wait and the handling of one event are   *)
(* one action each, a run of EpollHttpWorker is a few: reading to EAGAIN,   *)
(* opening the file, the response, and sendfile, which lasts as long as the *)
(* client likes.                                                            *)
(* Peers connect, send, shut down and reset between any two of them.  The   *)
(* kernel (descriptor table, backlog, epoll's ready list) is modelled from  *)
(* the calls the code makes.                                                *)
(* EPOLLOUT and Conn->Writable decide nothing and are left out.             *)
(***************************************************************************)
EXTENDS Integers, FiniteSets, Sequences

CONSTANTS Peers,      \* the clients of the server
          Capacity,   \* SOMAXCONN, the size of TcpServer->Connections
          MaxFd,      \* bound: the largest descriptor the process may open
          BatchSize   \* MAX_EPOLL_EVENTS

ListenerIdx == 9999   \* the epoll data of the listening socket
NoIdx       == -1     \* not registered

ASSUME CapacityAssumption  == Capacity \in 1..ListenerIdx
ASSUME MaxFdAssumption     == MaxFd \in Nat /\ MaxFd >= 4
ASSUME BatchSizeAssumption == BatchSize \in Nat \ {0}

Slots == 0..(Capacity - 1)
Fds   == 0..MaxFd
Own   == {"free", "std", "listener", "epoll", "file"}   \* no client's socket
Files == Own \cup Peers

ASSUME PeersAssumption     == IsFiniteSet(Peers) /\ Peers \cap Own = {}

VARIABLES
  peer,      \* what each client did: away, up, fin (shut down), rst (reset)
  rx,        \* the clients whose socket holds bytes the server has not read
  backlog,   \* connections the kernel completed and accept has not returned
  fds,       \* the descriptor table of the process
  interest,  \* the epoll data each client's socket is registered with
  ready,     \* epoll's ready list: sockets with an edge not reported yet
  conns,     \* TcpServer->Connections
  Count,     \* VArray_Count(TcpServer->Connections)
  phase,     \* where main is in its loop
  batch      \* Epoll->Events from the current one on

kernelVars == <<fds, interest, ready, rx, backlog>>
tableVars  == <<conns, Count>>
vars == <<peer, kernelVars, tableVars, phase, batch>>

HasFd(p)  == \E f \in Fds : fds[f] = p
Queued(p) == \E i \in 1..Len(backlog) : backlog[i] = p
Exists(p) == HasFd(p) \/ Queued(p)
HungUp(p) == peer[p] \in {"fin", "rst"}

-----------------------------------------------------------------------------
(* Kernel calls.                                                            *)

FreeFds     == {f \in Fds : fds[f] = "free"}
LowestFd    == CHOOSE f \in FreeFds : \A g \in FreeFds : f <= g
Poke(p)     == IF interest[p] # NoIdx THEN ready \cup {p} ELSE ready

(* A socket leaves epoll with its only descriptor.                          *)
Release(fd) ==
  /\ fds' = [fds EXCEPT ![fd] = "free"]
  /\ interest' = [p \in Peers |-> IF fds[fd] = p THEN NoIdx ELSE interest[p]]
  /\ ready' = ready \ {fds[fd]}

Close_Dropped(fd) == UNCHANGED <<fds, interest, ready, rx>>         \* mutant

(* close: unread bytes are gone.                                            *)
Close(fd) == Release(fd) /\ rx' = rx \ {fds[fd]}

(* A new registration is reported at once: the socket is writable.          *)
VEpoll_AddFd(p, idx) ==
  /\ interest' = [interest EXCEPT ![p] = idx]
  /\ ready' = ready \cup {p}

(* What the kernel reports for one entry of the ready list, computed when   *)
(* epoll_wait returns it.                                                   *)
EventOf(f) ==
  IF f = "listener"
  THEN [file |-> f, idx |-> ListenerIdx, in |-> TRUE, hup |-> FALSE]
  ELSE [file |-> f, idx |-> interest[f], in |-> f \in rx \/ HungUp(f),
        hup |-> HungUp(f)]

-----------------------------------------------------------------------------
(* The clients.                                                             *)

Connect(p) ==
  /\ peer[p] = "away"
  /\ peer' = [peer EXCEPT ![p] = "up"]
  /\ backlog' = Append(backlog, p)
  /\ UNCHANGED <<fds, interest, ready, rx, tableVars, phase, batch>>

Send(p) ==
  /\ peer[p] = "up" /\ Exists(p)
  /\ rx' = rx \cup {p}
  /\ ready' = Poke(p)
  /\ UNCHANGED <<peer, fds, interest, backlog, tableVars, phase, batch>>

HangUp(p, how) ==
  /\ peer[p] \in (IF how = "rst" THEN {"up", "fin"} ELSE {"up"})
  /\ Exists(p)
  /\ peer' = [peer EXCEPT ![p] = how]
  /\ ready' = Poke(p)
  /\ UNCHANGED <<fds, interest, rx, backlog, tableVars, phase, batch>>

(* The server has closed the connection: the client may start again.        *)
Leave(p) ==
  /\ peer[p] # "away" /\ ~Exists(p)
  /\ \A i \in 1..Len(batch) : batch[i].file # p
  /\ peer' = [peer EXCEPT ![p] = "away"]
  /\ UNCHANGED <<kernelVars, tableVars, phase, batch>>

PeerStep(p) == Connect(p) \/ Send(p) \/ HangUp(p, "fin") \/ HangUp(p, "rst")
               \/ Leave(p)

-----------------------------------------------------------------------------
ListenerReady_OneEdge == Len(backlog) = 1      \* mutant: EPOLLIN | EPOLLET

(* The listening socket is level-triggered.                                 *)
ListenerReady == backlog # <<>>

(* epoll_wait: every ready file, in any order, or BatchSize of them.        *)
EpollWait ==
  LET all  == ready \cup {f \in {"listener"} : ListenerReady}
      n    == IF Cardinality(all) <= BatchSize THEN Cardinality(all) ELSE BatchSize
  IN
  /\ phase = "wait"
  /\ all # {}
  /\ \E order \in [1..n -> all] :
       /\ \A i, j \in 1..n : order[i] = order[j] => i = j
       /\ batch' = [i \in 1..n |-> EventOf(order[i])]
       /\ ready' = ready \ {order[i] : i \in 1..n}
  /\ phase' = "dispatch"
  /\ UNCHANGED <<peer, fds, interest, rx, backlog, tableVars>>

NextEvent ==
  /\ batch' = Tail(batch)
  /\ phase' = IF Len(batch) = 1 THEN "process" ELSE "dispatch"

MarksReadable_Always(e) == TRUE                \* mutant

MarksReadable(e) == e.in

(* An event of a connection.  RDHUP or HUP closes the slot's descriptor; IN *)
(* marks the slot readable, closed or not.                                  *)
HandleEvent ==
  /\ phase = "dispatch" /\ Head(batch).idx # ListenerIdx
  /\ LET e == Head(batch)
         c == conns[e.idx]
         closing == e.hup /\ ~c.Closed
     IN /\ conns' = [conns EXCEPT ![e.idx].Closed = c.Closed \/ closing,
                                  ![e.idx].Readable = c.Readable \/ MarksReadable(e)]
        /\ IF closing THEN Close(c.FileDescriptor)
                      ELSE UNCHANGED <<fds, interest, ready, rx>>
  /\ NextEvent
  /\ UNCHANGED <<peer, backlog, Count>>

Client(id, fd) ==
  [Id |-> id, FileDescriptor |-> fd, Readable |-> FALSE, Closed |-> FALSE]

ClosedSlots_Any == 0..(Count - 1)              \* mutant

ClosedSlots   == {i \in 0..(Count - 1) : conns[i].Closed}
FirstClosed   == CHOOSE i \in ClosedSlots : \A j \in ClosedSlots : i <= j

Place_PushFirst(p, fd) ==                      \* mutant: pushed, then registered
  LET id == IF ClosedSlots = {} THEN Count ELSE conns[FirstClosed].Id
  IN /\ Count # Capacity
     /\ conns' = [conns EXCEPT ![id] = Client(id, fd)]
     /\ Count' = IF ClosedSlots = {} THEN Count + 1 ELSE Count
     /\ VEpoll_AddFd(p, Count')

(* A slot is free beyond Count: the first closed one is reused under its    *)
(* own Id, or the new connection is pushed.                                 *)
Place(p, fd) ==
  LET id == IF ClosedSlots = {} THEN Count ELSE conns[FirstClosed].Id
      i  == IF ClosedSlots = {} THEN Count ELSE FirstClosed
  IN /\ Count # Capacity
     /\ conns' = [conns EXCEPT ![i] = Client(id, fd)]
     /\ Count' = IF ClosedSlots = {} THEN Count + 1 ELSE Count
     /\ VEpoll_AddFd(p, id)

PlaceFull_Counts(p, fd) ==                     \* mutant: counts a reused slot
  /\ Count = Capacity /\ ClosedSlots # {}
  /\ conns' = [conns EXCEPT ![FirstClosed] = Client(0, fd)]
  /\ VEpoll_AddFd(p, 0)
  /\ Count' = Count + 1

(* The table is full: Client.Id is still 0 when the slot is overwritten.    *)
PlaceFull(p, fd) ==
  /\ Count = Capacity /\ ClosedSlots # {}
  /\ conns' = [conns EXCEPT ![FirstClosed] = Client(0, fd)]
  /\ VEpoll_AddFd(p, 0)
  /\ UNCHANGED Count

Accept ==
  /\ phase = "dispatch" /\ Head(batch).idx = ListenerIdx
  /\ FreeFds # {}
  /\ backlog' = Tail(backlog)
  /\ Place(Head(backlog), LowestFd) \/ PlaceFull(Head(backlog), LowestFd)
  /\ fds' = [fds EXCEPT ![LowestFd] = Head(backlog)]
  /\ NextEvent
  /\ UNCHANGED <<peer, rx>>

(* No slot to reuse: a 503 and close on the descriptor just accepted.       *)
Refuse ==
  /\ phase = "dispatch" /\ Head(batch).idx = ListenerIdx
  /\ FreeFds # {}
  /\ Count = Capacity /\ ClosedSlots = {}
  /\ backlog' = Tail(backlog)
  /\ rx' = rx \ {Head(backlog)}
  /\ NextEvent
  /\ UNCHANGED <<peer, fds, interest, ready, tableVars>>

(* accept fails (EMFILE): the connection stays in the backlog.              *)
AcceptFails ==
  /\ phase = "dispatch" /\ Head(batch).idx = ListenerIdx
  /\ FreeFds = {}
  /\ NextEvent
  /\ UNCHANGED <<peer, kernelVars, tableVars>>

-----------------------------------------------------------------------------
(* ProcessEvents: the open, readable slots, lowest index first.             *)

Todo_SkipsFirst ==                             \* mutant
  {i \in 1..(Count - 1) : conns[i].Readable /\ ~conns[i].Closed}

Todo    == {i \in 0..(Count - 1) : conns[i].Readable /\ ~conns[i].Closed}
Current == CHOOSE i \in Todo : \A j \in Todo : i <= j
Socket  == fds[conns[Current].FileDescriptor]

Drained_Partly == rx                           \* mutant: one recv, no loop

Drained == rx \ {Socket}

(* EpollHttpWorker reads until EAGAIN.                                      *)
Serve ==
  /\ phase = "process" /\ Todo # {}
  /\ Socket \in rx /\ peer[Socket] = "up"
  /\ rx' = Drained
  /\ phase' = "respond"
  /\ UNCHANGED <<peer, fds, interest, ready, backlog, tableVars, batch>>

(* The worker has returned: line 506.                                       *)
Served == /\ conns' = [conns EXCEPT ![Current].Readable = FALSE]
          /\ phase' = "process"

(* VFile_Open of a path with UseSendfile takes a descriptor that is never   *)
(* closed, whether it is a file to send or a directory (403).               *)
OpenFile ==
  /\ phase = "respond" /\ FreeFds # {}
  /\ fds' = [fds EXCEPT ![LowestFd] = "file"]
  /\ phase' = "opened"
  /\ UNCHANGED <<peer, interest, ready, rx, backlog, tableVars, batch>>

(* The response is sent; a file follows it.                                 *)
Respond ==
  /\ phase \in {"respond", "opened"} /\ peer[Socket] # "rst"
  /\ \/ Served
     \/ phase = "opened" /\ phase' = "sendfile" /\ UNCHANGED conns
  /\ UNCHANGED <<peer, kernelVars, Count, batch>>

(* The client has taken the last byte of the file.                          *)
SendfileEnds ==
  /\ phase = "sendfile" /\ peer[Socket] # "rst"
  /\ Served
  /\ UNCHANGED <<peer, kernelVars, Count, batch>>

(* SIGPIPE, from send or from sendfile's retry on a connection that was     *)
(* reset, ends the process; so may the parser's write behind an array.      *)
Killed ==
  /\ \/ phase \in {"respond", "opened", "sendfile"} /\ peer[Socket] = "rst"
     \/ phase = "process" /\ Todo # {} /\ Socket \in rx
  /\ phase' = "dead"
  /\ UNCHANGED <<peer, kernelVars, tableVars, batch>>

(* The label cleanup: bad request, end of stream, reset, nothing to read, a *)
(* descriptor that is not a connection, or a send that fails.  Conn->Closed *)
(* is 1 when close(Conn->Closed) is called.                                 *)
CleanupFd == 1

CloseInCleanup(read) ==
  /\ IF fds[CleanupFd] # "free" THEN Release(CleanupFd)
                                ELSE UNCHANGED <<fds, interest, ready>>
  /\ rx' = rx \ ({fds[CleanupFd]} \cup read)

(* By then the worker may have read the connection's input, or not all.     *)
Cleanup ==
  /\ \/ phase = "process" /\ Todo # {}
     \/ phase \in {"respond", "opened"} /\ peer[Socket] = "rst"
  /\ \E read \in SUBSET {Socket} : CloseInCleanup(read)
  /\ conns' = [conns EXCEPT ![Current].Readable = FALSE, ![Current].Closed = TRUE]
  /\ phase' = "process"
  /\ UNCHANGED <<peer, backlog, Count, batch>>

ProcessDone ==
  /\ phase = "process" /\ Todo = {}
  /\ phase' = "wait"
  /\ UNCHANGED <<peer, kernelVars, tableVars, batch>>

-----------------------------------------------------------------------------
(* The descriptors after CreateTcpServer, TcpListen and VEpoll_Create.      *)
Init ==
  /\ peer = [p \in Peers |-> "away"]
  /\ rx = {} /\ backlog = <<>> /\ ready = {} /\ batch = <<>>
  /\ fds = [f \in Fds |-> CASE f \in 0..2 -> "std" [] f = 3 -> "listener"
                            [] f = 4 -> "epoll" [] OTHER -> "free"]
  /\ interest = [p \in Peers |-> NoIdx]
  /\ conns = [i \in Slots |-> Client(0, 0)]
  /\ Count = 0
  /\ phase = "wait"

ServerStep ==
  EpollWait \/ HandleEvent \/ Accept \/ Refuse \/ AcceptFails
  \/ Serve \/ OpenFile \/ Respond \/ Killed \/ Cleanup \/ ProcessDone

Next == ServerStep \/ SendfileEnds \/ \E p \in Peers : PeerStep(p)

Spec == Init /\ [][Next]_vars

(* The server thread runs; clients need do nothing, so a file being sent    *)
(* need not come to its end.                                                *)
FairSpec == Spec /\ WF_vars(ServerStep)

-----------------------------------------------------------------------------
(* Type correctness.                                                        *)
Connections == [Id : Slots, FileDescriptor : Fds, Readable : BOOLEAN,
                Closed : BOOLEAN]
Events == [file : Peers \cup {"listener"}, idx : Slots \cup {ListenerIdx},
           in : BOOLEAN, hup : BOOLEAN]

TypeOK ==
  /\ peer \in [Peers -> {"away", "up", "fin", "rst"}]
  /\ rx \subseteq Peers /\ ready \subseteq Peers
  /\ fds \in [Fds -> Files]
  /\ interest \in [Peers -> Slots \cup {NoIdx}]
  /\ conns \in [Slots -> Connections]
  /\ Count \in 0..Capacity
  /\ phase \in {"wait", "dispatch", "process", "respond", "opened",
                "sendfile", "dead"}
  /\ batch \in Seq(Events) /\ backlog \in Seq(Peers)

(* The regime in which the table is kept as the code intends: cleanup has   *)
(* not closed descriptor 1, and no slot was reused from a full table under  *)
(* another slot's Id.                                                       *)
Healthy == /\ fds[1] = "std"
           /\ \A i \in 0..(Count - 1) : conns[i].Id = i

SocketOf(i) == fds[conns[i].FileDescriptor]

(* The table, the descriptors and epoll agree: an open slot holds a live    *)
(* connection registered under that slot's index, and no open connection is *)
(* without its slot, so nothing leaks and no two slots share a descriptor.  *)
SlotsMatchDescriptors ==
  Healthy =>
    /\ \A i \in 0..(Count - 1) : ~conns[i].Closed =>
         SocketOf(i) \in Peers /\ interest[SocketOf(i)] = i
    /\ \A p \in Peers : HasFd(p) =>
         \E i \in 0..(Count - 1) : ~conns[i].Closed /\ SocketOf(i) = p

(* Slots are closed, and reused for a new connection, while events fetched  *)
(* earlier wait in the batch.  None of them hits a slot that has changed    *)
(* hands: a waiting event finds its own connection in the slot it names.    *)
EventsHitTheirConnection ==
  Healthy =>
    \A k \in 1..Len(batch) : batch[k].file \in Peers =>
      ~conns[batch[k].idx].Closed /\ SocketOf(batch[k].idx) = batch[k].file

(* Whatever happened before, epoll's data never leads outside the part of   *)
(* the table that was filled.                                               *)
EventsInBounds ==
  /\ \A k \in 1..Len(batch) : batch[k].idx # ListenerIdx => batch[k].idx < Count
  /\ \A p \in Peers : interest[p] < Count

(* The slot whose Readable is cleared without another look at its socket.   *)
Answering == IF phase \in {"respond", "opened", "sendfile"} THEN {Current} ELSE {}

(* Sockets are edge-triggered, so an edge that is dropped is a connection   *)
(* that hangs.  Unread bytes are always announced by an edge not reported   *)
(* yet, an event of the batch or the slot's Readable, but not by a Readable *)
(* that is about to be cleared; a hang-up by an edge or an event.           *)
Announced(p) == \/ p \in ready
                \/ \E k \in 1..Len(batch) : batch[k].file = p /\ batch[k].in

NoEdgeLost ==
  Healthy =>
    \A p \in Peers : HasFd(p) =>
      /\ p \in rx => \/ Announced(p)
                     \/ /\ interest[p] \notin Answering \cup {NoIdx}
                        /\ conns[interest[p]].Readable
      /\ HungUp(p) => \/ p \in ready
                      \/ \E k \in 1..Len(batch) : batch[k].file = p /\ batch[k].hup

(* EpollHttpWorker treats "nothing to read" as a dead connection (line      *)
(* 209).  It is never started on a live one that has nothing to read.       *)
ReadableMeansInput ==
  Healthy =>
    \A i \in Todo \ Answering : SocketOf(i) \in rx \/ HungUp(SocketOf(i))

(* Closing a connection whose peer has not hung up.                         *)
ClosesOnlyHungUp ==
  [][\A p \in Peers : phase = "dispatch" /\ HasFd(p) /\ ~HasFd(p)' => HungUp(p)]_vars

(* While the table is kept as intended, none is.                            *)
ClosesHungUpWhileHealthy ==
  [][\A p \in Peers : Healthy /\ phase = "dispatch" /\ HasFd(p) /\ ~HasFd(p)'
       => HungUp(p)]_vars

(* Epoll's data is the index of the connection's slot, full table or not.   *)
RegisteredUnderOwnSlot ==
  fds[1] = "std" =>
    \A i \in 0..(Count - 1) :
      ~conns[i].Closed => interest[SocketOf(i)] = i

(* Liveness.  One client that does not read the file it is being sent holds *)
(* up everybody, and one that resets can end the process: all of this is    *)
(* promised only while stalls end and the process lives.                    *)
StallsEnd == []<>(phase # "sendfile")
Dead      == phase = "dead"

(* A request that reached the server is read.                               *)
RequestsRead ==
  StallsEnd => \A p \in Peers : p \in rx /\ HasFd(p) ~> p \notin rx \/ ~Healthy \/ Dead

(* A connection whose client hung up is closed.                             *)
HangUpsClosed ==
  StallsEnd => \A p \in Peers : HungUp(p) /\ HasFd(p) ~> ~HasFd(p) \/ ~Healthy \/ Dead

(* A connection waiting in the backlog is accepted or refused, in a process *)
(* that may run out of descriptors as long as it gets some back each time.  *)
BacklogServed ==
  StallsEnd /\ []<>(FreeFds # {}) =>
    \A p \in Peers : Queued(p) ~> ~Queued(p) \/ Dead
=============================================================================

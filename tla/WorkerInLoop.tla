----------------------------- MODULE WorkerInLoop ---------------------------
(***************************************************************************)
(* EventLoop models a run of EpollHttpWorker by a few actions, HttpWorker   *)
(* call by call.  Here the steps of HttpWorker are related to those of      *)
(* EventLoop, on a table with one connection, accepted before.              *)
(***************************************************************************)
EXTENDS HttpWorker

Conn     == "connection"
ConnFd   == 5            \* its descriptor
MaxFiles == 3 * MaxRequests  \* no more runs than pieces of requests

VARIABLES
  files,      \* history: how many descriptors VFile_Open took for good
  released    \* history: the loop has closed ConnFd

loopVars == <<vars, files, released>>

Opens == pc = "send" /\ resp.target \in {"media", "mediaDir"}

InitInLoop == Init /\ files = 0 /\ released = FALSE
NextInLoop ==
  /\ Next
  /\ files' = IF pc = "respond" /\ Opens' THEN files + 1 ELSE files
  /\ released' = (released \/ (pc = "idle" /\ closed' # closed))

SpecInLoop     == InitInLoop /\ [][NextInLoop]_loopVars
FairSpecInLoop == SpecInLoop /\ WF_vars(WorkerStep)

-----------------------------------------------------------------------------
(* What the loop sees.  A run that has peeked something counts as unread    *)
(* input until it has seen EAGAIN; Readable is cleared when it ends.        *)
Unread == rx # <<>> \/ (pc \in {"peek", "discard"} /\ length > 0)

Table == [i \in {0} |-> [Id |-> 0, FileDescriptor |-> ConnFd,
                         Readable |-> pc # "idle" \/ released,
                         Closed |-> closed]]

Descriptors ==
  [f \in 0..(ConnFd + MaxFiles) |->
     CASE f \in {0, 1, 2}              -> IF f = 1 /\ closed /\ ~released THEN "free" ELSE "std"
       [] f = 3                        -> "listener"
       [] f = 4                        -> "epoll"
       [] f = ConnFd                   -> IF released THEN "free" ELSE Conn
       [] OTHER -> IF f <= ConnFd + files THEN "file" ELSE "free"]

Phase == CASE dead                       -> "dead"
           [] ~dead /\ pc = "sendfile"   -> "sendfile"
           [] ~dead /\ Opens             -> "opened"
           [] ~dead /\ ~Opens /\ pc \in {"respond", "send"} -> "respond"
           [] OTHER                      -> "process"

Peer     == [p \in {Conn} |-> peer]
Rx       == {p \in {Conn} : Unread}
Ready    == {p \in {Conn} : edge}
Interest == [p \in {Conn} |-> IF released THEN -1 ELSE 0]

Loop == INSTANCE EventLoop WITH
  Peers <- {Conn}, Capacity <- 1, MaxFd <- ConnFd + MaxFiles, BatchSize <- 1,
  peer <- Peer, rx <- Rx, ready <- Ready, backlog <- <<>>, fds <- Descriptors,
  interest <- Interest, conns <- Table, Count <- 1, phase <- Phase, batch <- <<>>

(* The same while the event of the connection is dispatched, after          *)
(* epoll_wait has taken it from the ready list.                             *)
Waiting == pc = "idle" /\ ~closed
Turn == INSTANCE EventLoop WITH
  Peers <- {Conn}, Capacity <- 1, MaxFd <- ConnFd + MaxFiles, BatchSize <- 1,
  peer <- Peer, rx <- Rx, ready <- {}, backlog <- <<>>, fds <- Descriptors,
  interest <- Interest, conns <- Table, Count <- 1,
  phase <- IF Waiting THEN "dispatch" ELSE "process",
  batch <- IF Waiting THEN <<Loop!EventOf(Conn)>> ELSE <<>>

(* Whatever EpollHttpWorker and its client do, call by call, is a step that *)
(* EventLoop has for it or none at all; and a run begins, or the connection *)
(* is closed instead, as HandleEvent says of the event that epoll reports   *)
(* in that state.  (Once the descriptor is closed there is no connection.)  *)
RunsAsInLoop ==
  [][released \/ Loop!Next \/ (edge /\ ~edge' /\ Turn!HandleEvent)]_(Loop!vars)
=============================================================================

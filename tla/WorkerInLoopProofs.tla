------------------------- MODULE WorkerInLoopProofs -------------------------
(***************************************************************************)
(* Every step of EpollHttpWorker and its client, call by call, is one that  *)
(* EventLoop has for it, for every set of scripts and manners: what the     *)
(* loop's model says in a few actions of a worker's run leaves nothing out. *)
(***************************************************************************)
EXTENDS WorkerInLoop, HttpWorkerProofs

-----------------------------------------------------------------------------
(* The runs that may still open a file: the one that has not answered yet,  *)
(* and one for each time the client's input may be announced.               *)
Announced == IF edge /\ peer = "up" THEN 1 ELSE 0
Reading   == IF pc \in {"peek", "discard", "respond"} THEN 1 ELSE 0
Turns     == Len(unsent) + Announced + Reading

FilesInv == files \in Nat /\ files + Turns <= MaxFiles

LoopInv == WorkerInv /\ FilesInv /\ released \in BOOLEAN

(* A run begins with input that was announced, and opens one file at most.  *)
LEMMA TurnsStep ==
  ASSUME WorkerInv, Next
  PROVE  /\ Turns \in Nat /\ Turns' \in Nat
         /\ Turns' <= Turns
         /\ pc = "respond" /\ pc' = "send" => Turns' < Turns
  <1>. USE DEF Running
  <1>1. /\ unsent \in Seq(Pieces) /\ unsent' \in Seq(Pieces)
        /\ Len(unsent) \in Nat /\ Len(unsent') \in Nat
    BY ClientStays DEF WorkerInv, ClientInv, TypeOK, Pieces, Parts
  <1> DEFINE Up  == edge /\ peer = "up"
             Run == pc \in {"peek", "discard", "respond"}
  <1>2. /\ Announced \in {0, 1} /\ Announced' \in {0, 1} /\ Reading \in {0, 1} /\ Reading' \in {0, 1}
        /\ Up => Announced = 1
        /\ ~Up' => Announced' = 0
        /\ Run => Reading = 1
        /\ ~Run' => Reading' = 0
    BY DEF Announced, Reading
  <1>3. /\ Turns = Len(unsent) + Announced + Reading
        /\ Turns' = Len(unsent') + Announced' + Reading'
    BY DEF Turns
  <1>4. CASE Send
    <2>1. PICK n \in 1..Len(unsent) : Arrive(n) /\ script' = script
      BY <1>4, SendArrives DEF WorkerInv
    <2>2. rx \in Seq(Pieces) /\ n \in 0..Len(unsent) /\ n >= 1
      BY <1>1 DEF WorkerInv, ClientInv, TypeOK, Pieces, Parts
    <2>3. Len(unsent') = Len(unsent) - n
      BY <1>1, <2>1, <2>2, Arrival
    <2>4. pc' = pc
      BY <1>4 DEF Send
    <2>5. Reading' = Reading /\ ~(pc = "respond" /\ pc' = "send")
      BY <2>4 DEF Reading
    <2>. HIDE DEF Up, Run
    <2>6. /\ Len(unsent) \in Nat /\ Len(unsent') \in Nat
          /\ Announced \in {0, 1} /\ Announced' \in {0, 1} /\ Reading \in {0, 1}
      BY <1>1, <1>2
    <2>7. Announced' <= Announced + n /\ Announced + n \in Nat
      BY <2>2, <2>6
    <2>8. Turns \in Nat /\ Turns' \in Nat
      BY <1>3, <2>5, <2>6
    <2>9. Turns' <= Turns
      BY <1>3, <2>2, <2>3, <2>5, <2>6, <2>7
    <2>. QED BY <2>5, <2>8, <2>9
  <1>5. CASE HangUp("fin") \/ HangUp("rst")
    <2>1. ~Up' /\ unsent' = unsent /\ pc' = pc
      BY <1>5 DEF HangUp
    <2>2. Reading' = Reading /\ ~(pc = "respond" /\ pc' = "send")
      BY <2>1 DEF Reading
    <2>. HIDE DEF Up, Run
    <2>. QED BY <1>1, <1>2, <1>3, <2>1, <2>2
  <1>6. CASE Start
    <2>1. Up /\ ~Up' /\ ~Run /\ unsent' = unsent /\ pc = "idle"
      BY <1>6 DEF Start, clientVars
    <2>2. Reading = 0
      BY <2>1 DEF Reading
    <2>. HIDE DEF Up, Run
    <2>. QED BY <1>1, <1>2, <1>3, <2>1, <2>2
  <1>7. CASE HangUpCloses
    <2>1. ~Up' /\ unsent' = unsent /\ pc' = pc
      BY <1>7 DEF HangUpCloses, clientVars
    <2>2. Reading' = Reading /\ ~(pc = "respond" /\ pc' = "send")
      BY <2>1 DEF Reading
    <2>. HIDE DEF Up, Run
    <2>. QED BY <1>1, <1>2, <1>3, <2>1, <2>2
  <1>8. CASE ~(Send \/ HangUp("fin") \/ HangUp("rst") \/ Start \/ HangUpCloses)
    <2>1. UNCHANGED <<unsent, peer, edge>>
      BY <1>8
      DEF Next, ClientStep, WorkerStep, PeekEnds, PeekEagain, PeekHead, PeekOldBytes,
          PeekPartial, Reject, Discard, DiscardTorn, DiscardFails, ParseOverruns, Build,
          SendResponse, SendEagain, SendFails, SendfileEnds, SendfileFails, Cleanup, Killed,
          clientVars
    <2>2. Run' => Run
      BY <1>8
      DEF Next, ClientStep, WorkerStep, PeekEnds, PeekEagain, PeekHead, PeekOldBytes,
          PeekPartial, Reject, Discard, DiscardTorn, DiscardFails, ParseOverruns, Build,
          SendResponse, SendEagain, Responded, SendFails, SendfileEnds, SendfileFails, Cleanup,
          Killed, localVars
    <2>3. Announced' = Announced /\ unsent' = unsent
      BY <2>1 DEF Announced
    <2>4. pc = "respond" /\ pc' = "send" => Run /\ ~Run'
      OBVIOUS
    <2>. HIDE DEF Up, Run
    <2>. QED BY <1>1, <1>2, <1>3, <2>2, <2>3, <2>4
  <1>. QED BY <1>4, <1>5, <1>6, <1>7, <1>8

(* No more files are opened than there are runs.                            *)
LEMMA FilesKept ==
  ASSUME LoopInv, NextInLoop
  PROVE  FilesInv' /\ released' \in BOOLEAN
  <1>1. released' \in BOOLEAN
    BY DEF NextInLoop, LoopInv
  <1>2. /\ Turns \in Nat /\ Turns' \in Nat /\ Turns' <= Turns
        /\ pc = "respond" /\ pc' = "send" => Turns' < Turns
    BY TurnsStep DEF LoopInv, NextInLoop
  <1>3. /\ files' = files \/ (files' = files + 1 /\ pc = "respond" /\ pc' = "send")
        /\ files \in Nat /\ files + Turns <= MaxFiles /\ MaxFiles \in Nat
    BY BoundsAssumption DEF NextInLoop, Opens, LoopInv, FilesInv, MaxFiles
  <1>. QED BY <1>1, <1>2, <1>3 DEF FilesInv

LEMMA LoopInit == InitInLoop => LoopInv
  <1> SUFFICES ASSUME InitInLoop PROVE LoopInv
    OBVIOUS
  <1>1. WorkerInv
    BY InvInit DEF InitInLoop
  <1>2. files = 0 /\ released = FALSE /\ pc = "idle" /\ edge = FALSE /\ Init
    BY DEF InitInLoop, Init
  <1>3. Len(unsent) \in Nat /\ Len(unsent) <= MaxFiles
    <2>1. unsent \in Seq(Pieces) /\ Len(unsent) <= 3 * Len(script)
      BY <1>2, FirstStream
    <2>2. script \in Scripts
      BY <1>2 DEF Init
    <2>3. Len(script) \in Nat /\ Len(script) <= MaxRequests /\ MaxRequests \in Nat
      BY <2>2, ScriptsAssumption, BoundsAssumption
    <2>. QED BY <2>1, <2>3 DEF MaxFiles
  <1>4. FilesInv
    <2>1. Announced = 0 /\ Reading = 0
      BY <1>2 DEF Announced, Reading
    <2>. QED BY <1>2, <1>3, <2>1 DEF FilesInv, Turns
  <1>5. released \in BOOLEAN
    BY <1>2
  <1>. QED BY <1>1, <1>4, <1>5 DEF LoopInv

LEMMA LoopNext == LoopInv /\ [NextInLoop]_loopVars => LoopInv'
  <1> SUFFICES ASSUME LoopInv, [NextInLoop]_loopVars PROVE LoopInv'
    OBVIOUS
  <1>1. CASE NextInLoop
    <2>1. WorkerInv'
      BY <1>1, InvNext DEF LoopInv, NextInLoop
    <2>. QED BY <1>1, <2>1, FilesKept DEF LoopInv
  <1>2. CASE UNCHANGED loopVars
    <2>1. WorkerInv'
      BY <1>2, InvNext DEF LoopInv, loopVars
    <2>2. FilesInv' /\ released' \in BOOLEAN
      BY <1>2 DEF LoopInv, FilesInv, Turns, Announced, Reading, loopVars, vars, clientVars
    <2>. QED BY <2>1, <2>2 DEF LoopInv
  <1>. QED BY <1>1, <1>2

-----------------------------------------------------------------------------
(* What the loop sees of a connection that it has not closed.               *)

(* The slot is the connection's, and the worker runs on it.                 *)
LEMMA SlotSeen ==
  ASSUME LoopInv, ~released
  PROVE  /\ Table \in [{0} -> [Id : {0}, FileDescriptor : {ConnFd}, Readable : BOOLEAN, Closed : BOOLEAN]]
         /\ Table[0].FileDescriptor = ConnFd /\ Table[0].Readable = (pc # "idle")
         /\ Table[0].Closed = closed /\ Descriptors[ConnFd] = Conn
         /\ Loop!Exists(Conn) /\ Interest[Conn] = 0 /\ Peer[Conn] = peer
  <1>1. closed \in BOOLEAN
    BY DEF LoopInv, WorkerInv, ClientInv, TypeOK
  <1>2. Table \in [{0} -> [Id : {0}, FileDescriptor : {ConnFd}, Readable : BOOLEAN, Closed : BOOLEAN]]
    BY <1>1 DEF Table
  <1>3. /\ Table[0].FileDescriptor = ConnFd /\ Table[0].Readable = (pc # "idle")
        /\ Table[0].Closed = closed
    BY DEF Table
  <1>4. ConnFd \in 0..(ConnFd + MaxFiles) /\ Descriptors[ConnFd] = Conn
    BY BoundsAssumption DEF Descriptors, ConnFd, MaxFiles, Conn
  <1>5. Loop!Exists(Conn)
    BY <1>4 DEF Loop!Exists, Loop!HasFd, Loop!Fds
  <1>. QED BY <1>2, <1>3, <1>4, <1>5 DEF Interest, Peer

LEMMA WorkerSeen ==
  ASSUME LoopInv, ~released, pc # "idle"
  PROVE  Loop!Todo = {0} /\ Loop!Current = 0 /\ Loop!Socket = Conn
  <1>1. Table[0].Readable /\ ~Table[0].Closed
    BY SlotSeen DEF LoopInv, WorkerInv, ClientInv
  <1>2. Loop!Todo = {0}
    BY <1>1 DEF Loop!Todo
  <1>3. Loop!Current = 0
    BY <1>2 DEF Loop!Current
  <1>. QED BY <1>2, <1>3, SlotSeen DEF Loop!Socket

(* The loop closes the connection's descriptor when it is idle, and the     *)
(* worker opens a file when it has read all.                                *)
LEMMA Steady ==
  ASSUME NextInLoop, ~released, pc # "idle" \/ closed' = closed
  PROVE  /\ ~released'
         /\ pc # "respond" \/ pc' # "send" => files' = files
  BY DEF NextInLoop, Opens

LEMMA KernelSeen ==
  ASSUME released' <=> released, files' = files, closed' <=> closed
  PROVE  Descriptors' = Descriptors /\ Interest' = Interest
  BY DEF Descriptors, Interest

LEMMA TableSeen ==
  ASSUME released' <=> released, pc' # "idle" <=> pc # "idle", closed' = closed
  PROVE  Table' = Table
  BY DEF Table

(* cleanup closes the descriptor Conn->Closed, which is 1 by then.          *)
LEMMA CleanupSeen ==
  ASSUME LoopInv, NextInLoop, ~released, pc # "idle", pc' = "idle", closed' = TRUE,
         UNCHANGED <<peer, edge, dead>>, ~dead, rx' # <<>> => Unread,
         pc = "send" => peer = "rst", pc # "respond", pc # "sendfile"
  PROVE  Loop!Cleanup
  <1>1. ~closed /\ closed \in BOOLEAN
    BY DEF LoopInv, WorkerInv, ClientInv, TypeOK
  <1>2. ~released' /\ files' = files
    BY Steady
  <1>3. 1 \in 0..(ConnFd + MaxFiles) /\ Descriptors[1] = "std"
    BY <1>1, BoundsAssumption DEF Descriptors, ConnFd, MaxFiles
  <1>4. Descriptors' = [Descriptors EXCEPT ![1] = "free"]
    <2> DEFINE D == 0..(ConnFd + MaxFiles)
    <2>1. ASSUME NEW f \in D
          PROVE  Descriptors'[f] = IF f = 1 THEN "free" ELSE Descriptors[f]
      <3>1. CASE f = 1
        <4>1. closed' /\ ~released'
          BY <1>2
        <4>. QED BY <3>1, <4>1 DEF Descriptors, ConnFd
      <3>2. CASE f # 1
        BY <1>1, <1>2, <3>2 DEF Descriptors
      <3>. QED BY <3>1, <3>2
    <2>2. Descriptors' = [f \in D |-> Descriptors'[f]]
      BY DEF Descriptors
    <2>3. Descriptors = [f \in D |-> Descriptors[f]]
      BY DEF Descriptors
    <2>. HIDE DEF D
    <2>. QED BY <2>1, <2>2, <2>3
  <1>5. Interest' = [p \in {Conn} |-> IF Descriptors[1] = p THEN -1 ELSE Interest[p]]
    BY <1>2, <1>3 DEF Interest, Conn
  <1>6. Ready' = Ready \ {Descriptors[1]}
    BY <1>3 DEF Ready, Conn
  <1>7. Rx' \subseteq Rx
    BY DEF Rx, Unread
  <1>8. Rx' = Rx \ ({Descriptors[1]} \cup (Rx \ Rx')) /\ (Rx \ Rx') \in SUBSET {Loop!Socket}
    BY <1>3, <1>7, WorkerSeen DEF Rx, Conn
  <1>9. Loop!CloseInCleanup(Rx \ Rx')
    <2>. HIDE DEF Rx, Ready, Interest, Descriptors
    <2>. QED BY <1>3, <1>4, <1>5, <1>6, <1>8 DEF Loop!CloseInCleanup, Loop!CleanupFd, Loop!Release, Loop!NoIdx
  <1>10. Table' = [Table EXCEPT ![0].Readable = FALSE, ![0].Closed = TRUE]
    BY <1>2 DEF Table
  <1>11. Phase' = "process" /\ Peer' = Peer
    BY DEF Phase, Opens, Peer
  <1>12. \/ Phase = "process" /\ Loop!Todo # {}
         \/ Phase \in {"respond", "opened"} /\ Peer[Loop!Socket] = "rst"
    <2>1. CASE pc = "send"
      BY <2>1, WorkerSeen, SlotSeen DEF Phase
    <2>2. CASE pc \in {"peek", "discard"}
      BY <2>2, WorkerSeen DEF Phase, Opens
    <2>3. pc \in {"idle", "peek", "discard", "respond", "send", "sendfile"}
      BY DEF LoopInv, WorkerInv, ClientInv, TypeOK
    <2>. QED BY <2>1, <2>2, <2>3
  <1>. QED BY <1>8, <1>9, <1>10, <1>11, <1>12, WorkerSeen DEF Loop!Cleanup

(* SIGPIPE, or the guard of the stack.                                      *)
LEMMA KilledSeen ==
  ASSUME LoopInv, NextInLoop, ~released, Killed, ~dead, Unread' <=> Unread,
         (pc \in {"send", "sendfile"} /\ peer = "rst") \/ (pc = "discard" /\ Unread)
  PROVE  Loop!Killed
  <1>1. ~released' /\ files' = files
    BY Steady DEF Killed
  <1>2. Descriptors' = Descriptors /\ Interest' = Interest
    BY <1>1, KernelSeen DEF Killed
  <1>3. Table' = Table
    BY <1>1, TableSeen DEF Killed
  <1>4. Peer' = Peer /\ Ready' = Ready /\ Rx' = Rx
    BY DEF Peer, Ready, Rx, Killed, clientVars
  <1>5. Phase' = "dead"
    BY DEF Phase, Killed
  <1>6. \/ Phase \in {"respond", "opened", "sendfile"} /\ Peer[Loop!Socket] = "rst"
        \/ Phase = "process" /\ Loop!Todo # {} /\ Loop!Socket \in Rx
    <2>1. CASE pc \in {"send", "sendfile"} /\ peer = "rst"
      BY <2>1, WorkerSeen, SlotSeen DEF Phase
    <2>2. CASE pc = "discard" /\ Unread
      BY <2>2, WorkerSeen DEF Phase, Opens, Rx
    <2>. QED BY <2>1, <2>2
  <1>. QED
    BY <1>2, <1>3, <1>4, <1>5, <1>6 DEF Loop!Killed, Loop!kernelVars, Loop!tableVars

(* Steps within a run that the loop does not tell apart.                    *)
LEMMA NothingSeen ==
  ASSUME LoopInv, NextInLoop, ~released, pc # "idle", pc' # "idle",
         UNCHANGED <<peer, edge, closed, files>>, Phase' = Phase, Unread' <=> Unread
  PROVE  UNCHANGED Loop!vars
  <1>1. ~released'
    BY Steady
  <1>2. Descriptors' = Descriptors /\ Interest' = Interest
    BY <1>1, KernelSeen
  <1>3. Table' = Table
    BY <1>1, TableSeen
  <1>4. Peer' = Peer /\ Ready' = Ready /\ Rx' = Rx
    BY DEF Peer, Ready, Rx
  <1>. QED BY <1>2, <1>3, <1>4 DEF Loop!vars, Loop!kernelVars, Loop!tableVars

-----------------------------------------------------------------------------
(* One lemma for each action: the step of the loop that it is.              *)

LEMMA SendSeen ==
  ASSUME LoopInv, NextInLoop, ~released, Send
  PROVE  Loop!Send(Conn)
  <1>1. ~released' /\ files' = files
    BY Steady DEF Send
  <1>2. Descriptors' = Descriptors /\ Interest' = Interest
    BY <1>1, KernelSeen DEF Send
  <1>3. Table' = Table
    BY <1>1, TableSeen DEF Send
  <1>4. Peer' = Peer /\ Peer[Conn] = "up"
    BY DEF Peer, Send
  <1>5. Phase' = Phase
    BY DEF Phase, Opens, Send, localVars
  <1>6. edge' = TRUE /\ rx' # <<>>
    <2>1. /\ rx \in Seq(Pieces) /\ unsent \in Seq(Pieces) /\ ClientInv
      BY DEF LoopInv, WorkerInv, ClientInv, TypeOK, Pieces, Parts
    <2>2. PICK n \in 1..Len(unsent) : Arrive(n) /\ script' = script
      BY <2>1, SendArrives
    <2>3. n \in 0..Len(unsent)
      OBVIOUS
    <2>4. rx' \in Seq(Pieces) /\ Len(rx') = Len(rx) + n /\ Len(rx) \in Nat
      BY <2>1, <2>2, <2>3, Arrival
    <2>5. Len(rx') # 0
      BY <2>4
    <2>. QED BY <2>2, <2>4, <2>5 DEF Arrive
  <1>7. Rx' = Rx \cup {Conn} /\ Ready' = Ready \cup {Conn}
    BY <1>6 DEF Rx, Ready, Unread
  <1>8. Interest[Conn] # -1 /\ Loop!Exists(Conn)
    BY SlotSeen
  <1>. QED
    BY <1>2, <1>3, <1>4, <1>5, <1>7, <1>8
    DEF Loop!Send, Loop!Poke, Loop!NoIdx, Loop!tableVars

LEMMA HangUpSeen ==
  ASSUME LoopInv, NextInLoop, ~released, NEW how \in {"fin", "rst"}, HangUp(how)
  PROVE  Loop!HangUp(Conn, how)
  <1>1. ~released' /\ files' = files
    BY Steady DEF HangUp
  <1>2. Descriptors' = Descriptors /\ Interest' = Interest
    BY <1>1, KernelSeen DEF HangUp
  <1>3. Table' = Table
    BY <1>1, TableSeen DEF HangUp
  <1>4. Peer' = [Peer EXCEPT ![Conn] = how]
    BY DEF Peer, HangUp
  <1>5. Peer[Conn] \in (IF how = "rst" THEN {"up", "fin"} ELSE {"up"})
    BY DEF Peer, HangUp
  <1>6. Phase' = Phase
    BY DEF Phase, Opens, HangUp, localVars
  <1>7. Rx' = Rx /\ Ready' = Ready \cup {Conn}
    BY DEF Rx, Ready, Unread, HangUp, localVars
  <1>8. Interest[Conn] # -1 /\ Loop!Exists(Conn)
    BY SlotSeen
  <1>. QED
    BY <1>2, <1>3, <1>4, <1>5, <1>6, <1>7, <1>8
    DEF Loop!HangUp, Loop!Poke, Loop!NoIdx, Loop!tableVars

(* The event of the connection is dispatched.                               *)
LEMMA Dispatched ==
  ASSUME Waiting, ~Waiting', Loop!EventOf(Conn).idx = 0, Peer' = Peer, NEW closing \in BOOLEAN,
         (Loop!EventOf(Conn).hup /\ ~Table[0].Closed) <=> closing,
         Table' = [Table EXCEPT ![0].Closed = Table[0].Closed \/ closing,
                                ![0].Readable = Table[0].Readable \/ Loop!EventOf(Conn).in],
         IF closing THEN Turn!Close(Table[0].FileDescriptor)
                    ELSE UNCHANGED <<Descriptors, Interest, {}, Rx>>
  PROVE  Turn!HandleEvent
  <1> DEFINE e == Loop!EventOf(Conn)
             shown == IF Waiting THEN <<e>> ELSE <<>>
             h == Head(shown)
             c == Table[h.idx]
  <1>1. /\ Head(shown) = e /\ Len(shown) = 1
        /\ shown' = Tail(shown) /\ shown' = <<>>
    OBVIOUS
  <1>2. (IF Waiting THEN "dispatch" ELSE "process") = "dispatch"
    OBVIOUS
  <1>. HIDE DEF e, shown
  <1>3. Turn!NextEvent
    BY <1>1 DEF Turn!NextEvent, e, shown
  <1>4. h = e /\ h.idx = 0
    BY <1>1 DEF e
  <1>5. (h.hup /\ ~c.Closed) <=> closing
    BY <1>4 DEF e
  <1>6. Table' = [Table EXCEPT ![h.idx].Closed = c.Closed \/ (h.hup /\ ~c.Closed),
                              ![h.idx].Readable = c.Readable \/ h.in]
    <2>1. (c.Closed \/ (h.hup /\ ~c.Closed)) = (Table[0].Closed \/ closing)
      BY <1>4, <1>5
    <2>. QED BY <1>4, <2>1, Zenon DEF e
  <1>7. IF h.hup /\ ~c.Closed THEN Turn!Close(c.FileDescriptor)
                              ELSE UNCHANGED <<Descriptors, Interest, {}, Rx>>
    BY <1>4, <1>5, Zenon
  <1>8. /\ (IF Waiting THEN "dispatch" ELSE "process") = "dispatch"
        /\ h.idx # Turn!ListenerIdx
        /\ Table' = [Table EXCEPT ![h.idx].Closed = c.Closed \/ (h.hup /\ ~c.Closed),
                                 ![h.idx].Readable = c.Readable \/ Turn!MarksReadable(h)]
        /\ IF h.hup /\ ~c.Closed THEN Turn!Close(c.FileDescriptor)
                                 ELSE UNCHANGED <<Descriptors, Interest, {}, Rx>>
        /\ Turn!NextEvent
        /\ UNCHANGED <<Peer, <<>>, 1>>
    <2>1. h.idx # Turn!ListenerIdx
      BY <1>4 DEF Turn!ListenerIdx
    <2>. HIDE DEF h, c
    <2>. QED BY <1>2, <1>3, <1>6, <1>7, <2>1 DEF Turn!MarksReadable
  <1>. QED BY <1>8, Zenon DEF Turn!HandleEvent, e, shown

(* A run begins.                                                            *)
LEMMA StartSeen ==
  ASSUME LoopInv, NextInLoop, ~released, Start
  PROVE  edge /\ ~edge' /\ Turn!HandleEvent
  <1>1. /\ pc = "idle" /\ ~closed /\ ~closed' /\ edge /\ ~edge' /\ peer = "up"
        /\ rx # <<>> /\ rx' = rx /\ peer' = peer /\ pc' = "peek" /\ closed' = closed
    BY DEF Start, Running, clientVars
  <1>2. ~released' /\ files' = files
    BY <1>1, Steady
  <1>3. Descriptors' = Descriptors /\ Interest' = Interest
    BY <1>1, <1>2, KernelSeen
  <1>4. Peer' = Peer /\ Rx' = Rx /\ Rx = {Conn}
    BY <1>1 DEF Peer, Rx, Unread
  <1>5. Waiting /\ ~Waiting'
    BY <1>1 DEF Waiting
  <1> DEFINE e == Loop!EventOf(Conn)
  <1>6. e.idx = 0 /\ ~e.hup /\ e.in
    <2>1. Conn \in Rx /\ ~Loop!HungUp(Conn) /\ Conn # "listener" /\ Interest[Conn] = 0
      BY <1>1, <1>4, SlotSeen DEF Loop!HungUp, Conn
    <2>. QED BY <2>1 DEF Loop!EventOf
  <1>7. Table' = [Table EXCEPT ![0].Closed = Table[0].Closed, ![0].Readable = TRUE]
    BY <1>1, <1>2 DEF Table
  <1>8. (Table[0].Closed \/ FALSE) = Table[0].Closed /\ (Table[0].Readable \/ e.in) = TRUE
    BY <1>6, SlotSeen
  <1>9. Table' = [Table EXCEPT ![0].Closed = Table[0].Closed \/ FALSE,
                              ![0].Readable = Table[0].Readable \/ e.in]
    BY <1>7, <1>8, Zenon
  <1>. HIDE DEF Waiting, Peer, Rx, Interest, Descriptors, Table
  <1>10. Turn!HandleEvent
    BY <1>3, <1>4, <1>5, <1>6, <1>9, Dispatched
  <1>. QED BY <1>1, <1>10

(* The loop closes the connection that hung up.                             *)
LEMMA HangUpClosesSeen ==
  ASSUME LoopInv, NextInLoop, ~released, HangUpCloses
  PROVE  edge /\ ~edge' /\ Turn!HandleEvent
  <1>1. /\ pc = "idle" /\ ~closed /\ closed' /\ edge /\ ~edge' /\ peer \in {"fin", "rst"}
        /\ rx' = <<>> /\ peer' = peer /\ pc' = "idle" /\ closed' = TRUE /\ closed = FALSE
    BY DEF HangUpCloses, Running, clientVars, LoopInv, WorkerInv, ClientInv, TypeOK
  <1>2. released' /\ files' = files
    BY <1>1 DEF NextInLoop
  <1>3. Peer' = Peer /\ Rx' = {} /\ Interest' = [p \in {Conn} |-> -1]
    BY <1>1, <1>2 DEF Peer, Rx, Unread, Interest
  <1>4. Waiting /\ ~Waiting'
    BY <1>1 DEF Waiting
  <1> DEFINE e == Loop!EventOf(Conn)
  <1>5. e.idx = 0 /\ e.hup /\ e.in
    <2>1. Loop!HungUp(Conn) /\ Conn # "listener" /\ Interest[Conn] = 0
      BY <1>1, SlotSeen DEF Loop!HungUp, Conn
    <2>. QED BY <2>1 DEF Loop!EventOf
  <1>6. Table' = [Table EXCEPT ![0].Closed = TRUE, ![0].Readable = TRUE]
    BY <1>1, <1>2 DEF Table
  <1>7. (Table[0].Closed \/ TRUE) = TRUE /\ (Table[0].Readable \/ e.in) = TRUE
    BY <1>5
  <1>8. Table' = [Table EXCEPT ![0].Closed = Table[0].Closed \/ TRUE,
                              ![0].Readable = Table[0].Readable \/ e.in]
    BY <1>6, <1>7, Zenon
  <1>9. Descriptors' = [Descriptors EXCEPT ![ConnFd] = "free"]
    <2> DEFINE D == 0..(ConnFd + MaxFiles)
    <2>1. ASSUME NEW f \in D
          PROVE  Descriptors'[f] = IF f = ConnFd THEN "free" ELSE Descriptors[f]
      <3>1. CASE f = ConnFd
        BY <1>2, <3>1 DEF Descriptors, ConnFd
      <3>2. CASE f # ConnFd
        BY <1>1, <1>2, <3>2 DEF Descriptors
      <3>. QED BY <3>1, <3>2
    <2>2. Descriptors' = [f \in D |-> Descriptors'[f]]
      BY DEF Descriptors
    <2>3. Descriptors = [f \in D |-> Descriptors[f]]
      BY DEF Descriptors
    <2>. HIDE DEF D
    <2>. QED BY <2>1, <2>2, <2>3
  <1>10. Table[0].FileDescriptor = ConnFd /\ ~Table[0].Closed /\ Descriptors[ConnFd] = Conn
    BY <1>1, SlotSeen
  <1>11. Rx \subseteq {Conn}
    BY DEF Rx
  <1>. HIDE DEF Waiting, Peer, Rx, Interest, Descriptors, Table
  <1>12. Turn!Close(ConnFd)
    <2>1. Interest' = [p \in {Conn} |-> IF Descriptors[ConnFd] = p THEN -1 ELSE Interest[p]]
      BY <1>3, <1>10
    <2>. QED BY <1>3, <1>9, <1>10, <1>11, <2>1 DEF Turn!Close, Turn!Release, Turn!NoIdx
  <1>13. Turn!HandleEvent
    BY <1>3, <1>4, <1>5, <1>8, <1>10, <1>12, Dispatched
  <1>. QED BY <1>1, <1>13

LEMMA PeekEndsSeen ==
  ASSUME LoopInv, NextInLoop, ~released, PeekEnds
  PROVE  Loop!Cleanup
  BY CleanupSeen DEF PeekEnds, Cleanup, Running, clientVars, Unread

(* Nothing was read: cleanup.  Otherwise the connection has been drained.   *)
LEMMA PeekEagainSeen ==
  ASSUME LoopInv, NextInLoop, ~released, PeekEagain
  PROVE  Loop!Cleanup \/ Loop!Serve
  <1>1. CASE length = 0
    BY <1>1, CleanupSeen DEF PeekEagain, Cleanup, Running, clientVars
  <1>2. CASE length # 0
    <2>1. /\ pc = "peek" /\ pc' = "respond" /\ rx = <<>> /\ rx' = <<>> /\ peer = "up"
          /\ peer' = peer /\ edge' = edge /\ closed' = closed /\ dead' = dead /\ ~dead
      BY <1>2 DEF PeekEagain, Running, clientVars
    <2>2. ~released' /\ files' = files
      BY <2>1, Steady
    <2>3. Descriptors' = Descriptors /\ Interest' = Interest
      BY <2>1, <2>2, KernelSeen
    <2>4. Table' = Table
      BY <2>1, <2>2, TableSeen
    <2>5. Peer' = Peer /\ Ready' = Ready
      BY <2>1 DEF Peer, Ready
    <2>6. length \in Nat
      BY DEF LoopInv, WorkerInv, ClientInv, TypeOK
    <2>7. Rx = {Conn} /\ Rx' = {}
      BY <1>2, <2>1, <2>6 DEF Rx, Unread
    <2>8. Phase = "process" /\ Phase' = "respond"
      BY <2>1 DEF Phase, Opens
    <2>9. Loop!Todo # {} /\ Loop!Socket = Conn /\ Peer[Conn] = "up"
      BY <2>1, WorkerSeen, SlotSeen
    <2>10. Loop!Drained = Rx \ {Conn}
      BY <2>9 DEF Loop!Drained
    <2>. QED
      BY <2>3, <2>4, <2>5, <2>7, <2>8, <2>9, <2>10 DEF Loop!Serve, Loop!tableVars
  <1>. QED BY <1>1, <1>2

LEMMA PeekHeadSeen ==
  ASSUME LoopInv, NextInLoop, ~released, PeekHead
  PROVE  UNCHANGED Loop!vars
  <1>1. /\ pc = "peek" /\ pc' = "discard" /\ rx' = rx /\ ~dead /\ dead' = dead
        /\ UNCHANGED <<peer, edge, closed>> /\ HeadEnds(rx) # {} /\ length' = Len(rx)
    BY DEF PeekHead, Running, clientVars
  <1>2. rx # <<>>
    BY <1>1 DEF HeadEnds
  <1>3. files' = files
    BY <1>1, Steady
  <1>4. Phase' = Phase /\ (Unread' <=> Unread)
    BY <1>1, <1>2 DEF Phase, Opens, Unread
  <1>. QED BY <1>1, <1>3, <1>4, NothingSeen

LEMMA PeekOldBytesSeen ==
  ASSUME LoopInv, NextInLoop, ~released, PeekOldBytes
  PROVE  UNCHANGED Loop!vars
  <1>1. /\ pc = "peek" /\ pc' = "discard" /\ rx' = rx /\ ~dead /\ dead' = dead
        /\ UNCHANGED <<peer, edge, closed>> /\ rx # <<>>
    BY DEF PeekOldBytes, Running
  <1>2. files' = files
    BY <1>1, Steady
  <1>3. Phase' = Phase /\ (Unread' <=> Unread)
    BY <1>1 DEF Phase, Opens, Unread
  <1>. QED BY <1>1, <1>2, <1>3, NothingSeen

LEMMA PeekPartialSeen ==
  ASSUME LoopInv, NextInLoop, ~released, PeekPartial
  PROVE  Loop!Cleanup \/ UNCHANGED Loop!vars
  <1>1. CASE OutOfTries
    BY <1>1, CleanupSeen DEF PeekPartial, Reject, Cleanup, Running, clientVars, Unread
  <1>2. CASE ~OutOfTries
    <2>1. /\ pc = "peek" /\ pc' = "peek" /\ rx' = rx /\ ~dead /\ dead' = dead
          /\ UNCHANGED <<peer, edge, closed>> /\ rx # <<>>
      BY <1>2 DEF PeekPartial, Running, clientVars
    <2>2. files' = files
      BY <2>1, Steady
    <2>3. Phase' = Phase /\ (Unread' <=> Unread)
      BY <2>1 DEF Phase, Opens, Unread
    <2>. QED BY <2>1, <2>2, <2>3, NothingSeen
  <1>. QED BY <1>1, <1>2

LEMMA DiscardSeen ==
  ASSUME LoopInv, NextInLoop, ~released, Discard \/ DiscardFails
  PROVE  Loop!Cleanup \/ UNCHANGED Loop!vars
  <1>1. pc = "discard" /\ ~dead /\ length > 0 /\ Unread
    BY DEF Discard, DiscardFails, Running, Unread, LoopInv, WorkerInv, ClientInv
  <1>2. CASE DiscardFails
    BY <1>1, <1>2, CleanupSeen DEF DiscardFails, Cleanup, clientVars
  <1>3. CASE Discard /\ ~ParseOk(rx)
    BY <1>1, <1>3, CleanupSeen DEF Discard, Reject, Cleanup, clientVars
  <1>4. CASE Discard /\ ParseOk(rx)
    <2>1. /\ pc' = "peek" /\ length' = length /\ dead' = dead
          /\ UNCHANGED <<peer, edge, closed>>
      BY <1>4 DEF Discard, clientVars
    <2>2. files' = files
      BY <1>1, <2>1, Steady
    <2>3. Phase' = Phase /\ (Unread' <=> Unread)
      BY <1>1, <2>1 DEF Phase, Opens, Unread
    <2>. QED BY <1>1, <2>1, <2>2, <2>3, NothingSeen
  <1>. QED BY <1>2, <1>3, <1>4

(* What is taken of a torn stream may be accepted, rejected or fatal.       *)
LEMMA DiscardTornSeen ==
  ASSUME LoopInv, NextInLoop, ~released, DiscardTorn
  PROVE  Loop!Cleanup \/ Loop!Killed \/ UNCHANGED Loop!vars
  <1>1. pc = "discard" /\ ~dead /\ length > 0 /\ Unread
    BY DEF DiscardTorn, Running, Unread, LoopInv, WorkerInv, ClientInv
  <1>2. CASE Reject
    BY <1>1, <1>2, CleanupSeen DEF Reject, Cleanup, clientVars
  <1>3. CASE Killed
    <2>1. Unread' <=> Unread
      BY <1>1, <1>3 DEF Unread, Killed, localVars
    <2>. QED BY <1>1, <1>3, <2>1, KilledSeen
  <1>4. CASE pc' = "peek" /\ UNCHANGED <<clientVars, edge, localVars, answers, closed, dead>>
    <2>1. length' = length /\ dead' = dead /\ UNCHANGED <<peer, edge, closed>>
      BY <1>4 DEF clientVars, localVars
    <2>2. files' = files
      BY <1>1, <2>1, Steady
    <2>3. Phase' = Phase /\ (Unread' <=> Unread)
      BY <1>1, <1>4, <2>1 DEF Phase, Opens, Unread
    <2>. QED BY <1>1, <1>4, <2>1, <2>2, <2>3, NothingSeen
  <1>. QED BY <1>2, <1>3, <1>4 DEF DiscardTorn

LEMMA ParseOverrunsSeen ==
  ASSUME LoopInv, NextInLoop, ~released, ParseOverruns
  PROVE  Loop!Killed
  <1>1. pc = "discard" /\ ~dead /\ length > 0 /\ Killed
    BY DEF ParseOverruns, Running, LoopInv, WorkerInv, ClientInv
  <1>2. Unread /\ Unread'
    BY <1>1 DEF Unread, Killed, localVars
  <1>. QED BY <1>1, <1>2, KilledSeen

LEMMA SendFailsSeen ==
  ASSUME LoopInv, NextInLoop, ~released, SendFails \/ SendfileFails
  PROVE  Loop!Cleanup \/ Loop!Killed
  <1>1. /\ pc \in {"send", "sendfile"} /\ ~dead /\ rx' = rx /\ peer = "rst"
        /\ Killed \/ (pc = "send" /\ Cleanup)
    BY DEF SendFails, SendfileFails, Running
  <1>2. CASE Killed
    <2>1. Unread' <=> Unread
      BY <1>1, <1>2 DEF Unread, Killed
    <2>. QED BY <1>1, <1>2, <2>1, KilledSeen
  <1>3. CASE pc = "send" /\ Cleanup
    BY <1>1, <1>3, CleanupSeen DEF Cleanup, clientVars, Unread
  <1>. QED BY <1>1, <1>2, <1>3

(* A file takes the lowest descriptor that is free, and there is one: fewer *)
(* files were opened than there may be runs.                                *)
LEMMA FileOpened ==
  ASSUME LoopInv, NextInLoop, ~released, ~released', files' = files + 1,
         pc = "respond", closed' <=> closed
  PROVE  /\ Loop!FreeFds # {} /\ Descriptors' = [Descriptors EXCEPT ![Loop!LowestFd] = "file"]
  <1> DEFINE D == 0..(ConnFd + MaxFiles)
             next == ConnFd + files + 1
  <1>1. ~closed /\ ~closed'
    BY DEF LoopInv, WorkerInv, ClientInv
  <1>2. Turns >= 1 /\ Turns \in Nat
    <2>1. Len(unsent) \in Nat
      BY DEF LoopInv, WorkerInv, ClientInv, TypeOK
    <2>2. Announced \in {0, 1} /\ Reading = 1
      BY DEF Announced, Reading
    <2>. QED BY <2>1, <2>2 DEF Turns
  <1>3. files \in Nat /\ files + Turns <= MaxFiles
    BY DEF LoopInv, FilesInv
  <1>4. MaxFiles \in Nat
    BY BoundsAssumption DEF MaxFiles
  <1>5. next \in D /\ files < MaxFiles
    BY <1>2, <1>3, <1>4 DEF ConnFd
  <1>6. \A f \in D : Descriptors[f] = "free" <=> f >= next
    BY <1>1, <1>3 DEF Descriptors, ConnFd, Conn
  <1>7. Loop!FreeFds = {f \in D : f >= next}
    BY <1>6 DEF Loop!FreeFds, Loop!Fds
  <1>8. next \in Loop!FreeFds /\ Loop!FreeFds \in SUBSET Nat
    BY <1>4, <1>5, <1>7 DEF ConnFd
  <1>9. Loop!LowestFd \in Loop!FreeFds /\ Loop!LowestFd <= next
    BY <1>8, LeastChosen DEF Loop!LowestFd
  <1>10. Loop!LowestFd = next
    <2>1. Loop!LowestFd \in Nat /\ Loop!LowestFd >= next /\ next \in Nat
      BY <1>3, <1>7, <1>8, <1>9 DEF ConnFd
    <2>. QED BY <1>9, <2>1
  <1>11. ASSUME NEW f \in D
         PROVE  Descriptors'[f] = IF f = next THEN "file" ELSE Descriptors[f]
    <2>1. CASE f = next
      BY <1>1, <1>3, <2>1 DEF Descriptors, ConnFd
    <2>2. CASE f # next
      BY <1>1, <1>3, <2>2 DEF Descriptors, ConnFd
    <2>. QED BY <2>1, <2>2
  <1>12. Descriptors' = [f \in D |-> Descriptors'[f]]
    BY DEF Descriptors
  <1>13. Descriptors = [f \in D |-> Descriptors[f]]
    BY DEF Descriptors
  <1>. HIDE DEF D, next
  <1>. QED BY <1>5, <1>8, <1>10, <1>11, <1>12, <1>13

LEMMA BuildSeen ==
  ASSUME LoopInv, NextInLoop, ~released, Build
  PROVE  Loop!OpenFile \/ UNCHANGED Loop!vars
  <1>1. /\ pc = "respond" /\ pc' = "send" /\ rx' = rx /\ ~dead /\ dead' = dead
        /\ UNCHANGED <<peer, edge, closed>>
    BY DEF Build, Running, clientVars
  <1>2. ~released'
    BY <1>1, Steady
  <1>3. (Unread' <=> Unread) /\ Phase = "respond"
    BY <1>1 DEF Unread, Phase, Opens
  <1>4. CASE Opens'
    <2>1. files' = files + 1
      BY <1>1, <1>4 DEF NextInLoop
    <2>2. Loop!FreeFds # {} /\ Descriptors' = [Descriptors EXCEPT ![Loop!LowestFd] = "file"]
      BY <1>1, <1>2, <2>1, FileOpened
    <2>3. Table' = Table
      BY <1>1, <1>2, TableSeen
    <2>4. Peer' = Peer /\ Ready' = Ready /\ Rx' = Rx /\ Interest' = Interest
      BY <1>1, <1>2, <1>3 DEF Peer, Ready, Rx, Interest
    <2>5. Phase' = "opened"
      BY <1>1, <1>4 DEF Phase, Opens
    <2>. QED BY <1>3, <2>2, <2>3, <2>4, <2>5 DEF Loop!OpenFile, Loop!tableVars
  <1>5. CASE ~Opens'
    <2>1. files' = files
      BY <1>5 DEF NextInLoop
    <2>2. Phase' = Phase
      BY <1>1, <1>3, <1>5 DEF Phase
    <2>. QED BY <1>1, <1>3, <2>1, <2>2, NothingSeen
  <1>. QED BY <1>4, <1>5

(* The worker returns, or sendfile begins.                                  *)
LEMMA ServedSeen ==
  ASSUME LoopInv, NextInLoop, ~released, ~dead, pc \in {"send", "sendfile"}, pc' = "idle",
         UNCHANGED <<peer, rx, edge, closed, dead>>
  PROVE  /\ Loop!Served /\ Descriptors' = Descriptors /\ Interest' = Interest
         /\ Peer' = Peer /\ Ready' = Ready /\ Rx' = Rx
  <1>1. ~released' /\ files' = files
    BY Steady
  <1>2. Descriptors' = Descriptors /\ Interest' = Interest
    BY <1>1, KernelSeen
  <1>3. Peer' = Peer /\ Ready' = Ready /\ Rx' = Rx
    BY DEF Peer, Ready, Rx, Unread
  <1>4. Table' = [Table EXCEPT ![0].Readable = FALSE]
    BY <1>1 DEF Table
  <1>5. Phase' = "process" /\ Loop!Current = 0
    BY WorkerSeen DEF Phase, Opens
  <1>. QED BY <1>2, <1>3, <1>4, <1>5 DEF Loop!Served

LEMMA RespondedSeen ==
  ASSUME LoopInv, NextInLoop, ~released, Running("send"), peer # "rst",
         NEW cut, Responded(cut), resp'.target = resp.target,
         UNCHANGED <<peer, rx, edge, closed, dead>>
  PROVE  Loop!Respond
  <1>1. pc = "send" /\ ~dead /\ Loop!Socket = Conn /\ Peer[Conn] = peer
    BY WorkerSeen, SlotSeen DEF Running
  <1>2. Phase \in {"respond", "opened"} /\ (resp.target = "media" => Phase = "opened")
    BY <1>1 DEF Phase, Opens
  <1>3. CASE resp.target # "media"
    <2>1. pc' = "idle"
      BY <1>3 DEF Responded
    <2>2. /\ Loop!Served /\ Descriptors' = Descriptors /\ Interest' = Interest
          /\ Peer' = Peer /\ Ready' = Ready /\ Rx' = Rx
      BY <1>1, <2>1, ServedSeen
    <2>. QED BY <1>1, <1>2, <2>2 DEF Loop!Respond, Loop!kernelVars
  <1>4. CASE resp.target = "media"
    <2>1. pc' = "sendfile"
      BY <1>4 DEF Responded
    <2>2. ~released' /\ files' = files
      BY <1>1, Steady
    <2>3. Descriptors' = Descriptors /\ Interest' = Interest
      BY <2>2, KernelSeen
    <2>4. Table' = Table
      BY <1>1, <2>1, <2>2, TableSeen
    <2>5. Peer' = Peer /\ Ready' = Ready /\ Rx' = Rx
      BY <1>1, <2>1 DEF Peer, Ready, Rx, Unread
    <2>6. Phase' = "sendfile"
      BY <1>1, <2>1 DEF Phase, Opens
    <2>. QED
      BY <1>1, <1>2, <1>4, <2>3, <2>4, <2>5, <2>6 DEF Loop!Respond, Loop!kernelVars
  <1>. QED BY <1>3, <1>4

LEMMA SendResponseSeen ==
  ASSUME LoopInv, NextInLoop, ~released, SendResponse
  PROVE  Loop!Respond \/ UNCHANGED Loop!vars
  <1>1. PICK n \in 1..(resp.len - resp.sent) :
          /\ resp' = [resp EXCEPT !.sent = @ + n]
          /\ IF resp.sent + n = resp.len THEN Responded(FALSE)
                                         ELSE UNCHANGED <<pc, answers>>
    BY DEF SendResponse
  <1>2. /\ Running("send") /\ peer # "rst" /\ UNCHANGED <<peer, rx, edge, closed, dead>>
    BY DEF SendResponse, clientVars
  <1>3. resp \in [target : Targets, len : Nat, sent : Nat]
    BY DEF LoopInv, WorkerInv, ClientInv, TypeOK
  <1>4. resp'.target = resp.target
    BY <1>1, <1>3
  <1>5. CASE resp.sent + n = resp.len
    BY <1>1, <1>2, <1>4, <1>5, RespondedSeen
  <1>6. CASE resp.sent + n # resp.len
    <2>1. pc = "send" /\ pc' = "send"
      BY <1>1, <1>2, <1>6 DEF Running
    <2>2. files' = files
      BY <2>1, Steady
    <2>3. Phase' = Phase /\ (Unread' <=> Unread)
      BY <1>2, <1>4, <2>1 DEF Phase, Opens, Unread
    <2>. QED BY <1>2, <2>1, <2>2, <2>3, NothingSeen
  <1>. QED BY <1>5, <1>6

LEMMA SendEagainSeen ==
  ASSUME LoopInv, NextInLoop, ~released, SendEagain
  PROVE  Loop!Respond
  <1>1. /\ Running("send") /\ peer # "rst" /\ UNCHANGED <<peer, rx, edge, closed, dead>>
        /\ Responded(TRUE) /\ resp'.target = resp.target
    BY DEF SendEagain, clientVars, localVars
  <1>. QED BY <1>1, RespondedSeen

LEMMA SendfileEndsSeen ==
  ASSUME LoopInv, NextInLoop, ~released, SendfileEnds
  PROVE  Loop!SendfileEnds
  <1>1. /\ pc = "sendfile" /\ pc' = "idle" /\ ~dead /\ peer # "rst"
        /\ UNCHANGED <<peer, rx, edge, closed, dead>>
    BY DEF SendfileEnds, Running, clientVars
  <1>2. Phase = "sendfile" /\ Peer[Loop!Socket] # "rst"
    BY <1>1, WorkerSeen, SlotSeen DEF Phase, Opens
  <1>3. /\ Loop!Served /\ Descriptors' = Descriptors /\ Interest' = Interest
        /\ Peer' = Peer /\ Ready' = Ready /\ Rx' = Rx
    BY <1>1, ServedSeen
  <1>. QED BY <1>2, <1>3 DEF Loop!SendfileEnds, Loop!kernelVars

-----------------------------------------------------------------------------
(* Every step of the worker and its client is a step of the loop, or none.  *)
LEMMA StepSeen ==
  ASSUME LoopInv, [NextInLoop]_loopVars
  PROVE  [released \/ Loop!Next \/ (edge /\ ~edge' /\ Turn!HandleEvent)]_(Loop!vars)
  <1>1. CASE UNCHANGED loopVars
    BY <1>1
    DEF loopVars, vars, clientVars, localVars, Loop!vars, Loop!kernelVars, Loop!tableVars,
        Peer, Rx, Ready, Interest, Descriptors, Table, Phase, Unread, Opens
  <1>2. CASE NextInLoop /\ ~released
    <2>. USE <1>2
    <2>1. CASE Send \/ HangUp("fin") \/ HangUp("rst")
      BY <2>1, SendSeen, HangUpSeen DEF Loop!Next, Loop!PeerStep
    <2>2. CASE Start \/ HangUpCloses
      BY <2>2, StartSeen, HangUpClosesSeen
    <2>3. CASE PeekEnds \/ PeekEagain \/ PeekHead \/ PeekOldBytes \/ PeekPartial
      BY <2>3, PeekEndsSeen, PeekEagainSeen, PeekHeadSeen, PeekOldBytesSeen, PeekPartialSeen
      DEF Loop!Next, Loop!ServerStep
    <2>4. CASE Discard \/ DiscardTorn \/ DiscardFails \/ ParseOverruns
      BY <2>4, DiscardSeen, DiscardTornSeen, ParseOverrunsSeen DEF Loop!Next, Loop!ServerStep
    <2>5. CASE Build
      BY <2>5, BuildSeen DEF Loop!Next, Loop!ServerStep
    <2>6. CASE SendResponse \/ SendEagain
      BY <2>6, SendResponseSeen, SendEagainSeen DEF Loop!Next, Loop!ServerStep
    <2>7. CASE SendFails \/ SendfileFails \/ SendfileEnds
      BY <2>7, SendFailsSeen, SendfileEndsSeen DEF Loop!Next, Loop!ServerStep
    <2>. QED
      BY <2>1, <2>2, <2>3, <2>4, <2>5, <2>6, <2>7 DEF NextInLoop, Next, ClientStep, WorkerStep
  <1>. QED BY <1>1, <1>2

(* EventLoop leaves out nothing that EpollHttpWorker and its client do:     *)
(* every run, call by call, is a run of the loop's model, for all scripts   *)
(* of any length and all manners.                                           *)
THEOREM WorkerRunsInLoop == SpecInLoop => RunsAsInLoop
  <1>1. SpecInLoop => []LoopInv
    BY LoopInit, LoopNext, PTL DEF SpecInLoop
  <1>2. LoopInv /\ [NextInLoop]_loopVars
          => [released \/ Loop!Next \/ (edge /\ ~edge' /\ Turn!HandleEvent)]_(Loop!vars)
    BY StepSeen
  <1>. QED BY <1>1, <1>2, PTL DEF SpecInLoop, RunsAsInLoop
=============================================================================

--------------------------- MODULE EventLoopProofs --------------------------
(***************************************************************************)
(* The safety of main.c's event loop, for every number of clients, every    *)
(* size of the connection table, every descriptor limit and every number of *)
(* events a call of epoll_wait returns.                                     *)
(***************************************************************************)
EXTENDS EventLoop, DataFacts, FiniteSetTheorems, SequenceTheorems

(* A socket has one descriptor or one place in the backlog, not both, and   *)
(* belongs to a client that is there.                                       *)
OneSocket ==
  /\ \A f, g \in Fds : fds[f] = fds[g] /\ fds[f] \in Peers => f = g
  /\ \A i, j \in 1..Len(backlog) : backlog[i] = backlog[j] => i = j
  /\ \A p \in Peers : Queued(p) => ~HasFd(p)
  /\ \A p \in Peers : Exists(p) => peer[p] # "away"

(* Epoll watches sockets that have a descriptor, under the index of a slot  *)
(* that is in use; a slot's Id is its index or, once it was overwritten in  *)
(* a full table, 0.                                                         *)
Registered ==
  /\ \A p \in Peers : interest[p] # NoIdx => HasFd(p)
  /\ \A p \in Peers : interest[p] < Count
  /\ \A p \in ready : interest[p] # NoIdx
  /\ \A i \in 0..(Count - 1) : conns[i].Id \in {0, i}

(* The events of a batch are of different files, one of them at most the    *)
(* listener's, for which a connection waits.                                *)
BatchInv ==
  /\ phase = "dispatch" <=> batch # <<>>
  /\ \A j, k \in 1..Len(batch) : batch[j].file = batch[k].file => j = k
  /\ \A k \in 1..Len(batch) :
       /\ batch[k].file = "listener" <=> batch[k].idx = ListenerIdx
       /\ batch[k].file = "listener" => backlog # <<>>
       /\ batch[k].idx # ListenerIdx => batch[k].idx < Count

(* A worker runs for a slot that is open and readable.                      *)
Working == phase \in {"respond", "opened", "sendfile"}

KernelInv == TypeOK /\ OneSocket /\ Registered /\ BatchInv /\ (Working => Todo # {})

-----------------------------------------------------------------------------
(* What the code chooses: the lowest free descriptor, the first closed slot *)
(* and the first slot to work on.                                           *)
USE CapacityAssumption, MaxFdAssumption, BatchSizeAssumption, PeersAssumption

(* accept and open return a free descriptor when there is one.              *)
LEMMA LowestFree ==
  ASSUME FreeFds # {}
  PROVE  LowestFd \in Fds /\ fds[LowestFd] = "free"
  <1>1. FreeFds \in SUBSET Nat
    BY DEF FreeFds, Fds
  <1>2. LowestFd \in FreeFds
    BY <1>1, LeastChosen DEF LowestFd
  <1>. QED BY <1>2 DEF FreeFds

(* The slot the acceptance code reuses is a closed one of the table.        *)
LEMMA FirstIsClosed ==
  ASSUME TypeOK, ClosedSlots # {}
  PROVE  FirstClosed \in 0..(Count - 1) /\ conns[FirstClosed].Closed
  <1>1. ClosedSlots \in SUBSET Nat
    BY DEF ClosedSlots, TypeOK
  <1>2. FirstClosed \in ClosedSlots
    BY <1>1, LeastChosen DEF FirstClosed
  <1>. QED BY <1>2 DEF ClosedSlots

(* The slot whose worker runs is open, readable and in the table.           *)
LEMMA CurrentIsOpen ==
  ASSUME TypeOK, Todo # {}
  PROVE  /\ Current \in 0..(Count - 1) /\ Current \in Slots
         /\ conns[Current].Readable /\ ~conns[Current].Closed
  <1>1. Todo \in SUBSET Nat
    BY DEF Todo, TypeOK
  <1>2. Current \in Todo
    BY <1>1, LeastChosen DEF Current
  <1>. QED BY <1>2 DEF Todo, TypeOK, Slots

(* An index of the table, spelled out.                                      *)
LEMMA Below ==
  ASSUME NEW n \in Int
  PROVE  \A j : j \in 0..(n - 1) <=> j \in Int /\ 0 <= j /\ j < n
  OBVIOUS

(* The slots the loop touches are those of the table.                       *)
LEMMA UsedAreSlots ==
  ASSUME TypeOK
  PROVE  \A i \in 0..(Count - 1) : i \in Slots /\ conns[i].FileDescriptor \in Fds
  BY DEF TypeOK, Slots, Connections

(* Closing a descriptor takes its socket, if it is one, out of epoll and    *)
(* touches no other.                                                        *)
LEMMA ReleaseEffect ==
  ASSUME TypeOK, OneSocket, Registered, NEW fd \in Fds, Release(fd)
  PROVE  /\ fds' \in [Fds -> Files] /\ fds'[fd] = "free"
         /\ \A f \in Fds : f # fd => fds'[f] = fds[f]
         /\ \A p \in Peers : HasFd(p)' <=> HasFd(p) /\ p # fds[fd]
         /\ interest' \in [Peers -> Slots \cup {NoIdx}]
         /\ \A p \in Peers : p # fds[fd] => interest'[p] = interest[p]
         /\ \A p \in Peers : p = fds[fd] => interest'[p] = NoIdx
         /\ ready' \subseteq ready
         /\ \A p \in ready : p # fds[fd] => p \in ready'
         /\ fds[fd] \notin ready'
  <1>1. fds' = [fds EXCEPT ![fd] = "free"] /\ fds' \in [Fds -> Files]
    BY DEF Release, TypeOK, Files, Own
  <1>2. "free" \notin Peers
    BY DEF Own
  <1>3. \A p \in Peers : HasFd(p)' <=> HasFd(p) /\ p # fds[fd]
    BY <1>1, <1>2 DEF HasFd, OneSocket, TypeOK
  <1>. QED BY <1>1, <1>3 DEF Release, TypeOK

(* Clearing Readable or setting Closed leaves every slot its Id.            *)
LEMMA SlotEdit ==
  ASSUME NEW cs \in [Slots -> Connections], NEW k, NEW i \in Slots
  PROVE  /\ [cs EXCEPT ![k].Readable = FALSE][i].Id = cs[i].Id
         /\ [cs EXCEPT ![k].Readable = FALSE, ![k].Closed = TRUE][i].Id = cs[i].Id
  <1>1. cs[i] \in Connections
    OBVIOUS
  <1>2. \A c \in Connections :
          /\ [c EXCEPT !.Readable = FALSE].Id = c.Id
          /\ [c EXCEPT !.Readable = FALSE] \in Connections
          /\ [c EXCEPT !.Closed = TRUE].Id = c.Id
    BY DEF Connections
  <1>. QED BY <1>1, <1>2

(* new is the table cs with c and x written into Closed and Readable of     *)
(* slot k, and nothing else changed.                                        *)
SlotMarked(new, cs, k, c, x) ==
  /\ new \in [Slots -> Connections]
  /\ new[k].Closed = c
  /\ new[k].Readable = x
  /\ \A i \in Slots : /\ new[i].Id = cs[i].Id
                      /\ new[i].FileDescriptor = cs[i].FileDescriptor
                      /\ i # k => new[i] = cs[i]

(* Writing Closed leaves a connection's other fields alone.                 *)
LEMMA ClosedField ==
  ASSUME NEW r \in Connections, NEW b \in BOOLEAN
  PROVE  /\ [r EXCEPT !.Closed = b] \in Connections
         /\ [r EXCEPT !.Closed = b].Closed = b
         /\ [r EXCEPT !.Closed = b].Readable = r.Readable
         /\ [r EXCEPT !.Closed = b].Id = r.Id
         /\ [r EXCEPT !.Closed = b].FileDescriptor = r.FileDescriptor
  BY DEF Connections

(* And so does writing Readable.                                            *)
LEMMA ReadableField ==
  ASSUME NEW r \in Connections, NEW b \in BOOLEAN
  PROVE  /\ [r EXCEPT !.Readable = b] \in Connections
         /\ [r EXCEPT !.Readable = b].Readable = b
         /\ [r EXCEPT !.Readable = b].Closed = r.Closed
         /\ [r EXCEPT !.Readable = b].Id = r.Id
         /\ [r EXCEPT !.Readable = b].FileDescriptor = r.FileDescriptor
  BY DEF Connections

(* Both orders of the two assignments mark the slot.                        *)
LEMMA MarkedSlot ==
  ASSUME NEW cs \in [Slots -> Connections], NEW k \in Slots,
         NEW c \in BOOLEAN, NEW x \in BOOLEAN
  PROVE  /\ SlotMarked([cs EXCEPT ![k].Closed = c, ![k].Readable = x], cs, k, c, x)
         /\ SlotMarked([cs EXCEPT ![k].Readable = x, ![k].Closed = c], cs, k, c, x)
  <1> DEFINE one == [[cs[k] EXCEPT !.Closed = c] EXCEPT !.Readable = x]
             two == [[cs[k] EXCEPT !.Readable = x] EXCEPT !.Closed = c]
             Marks(s) == /\ s \in Connections
                         /\ s.Closed = c
                         /\ s.Readable = x
                         /\ s.Id = cs[k].Id
                         /\ s.FileDescriptor = cs[k].FileDescriptor
  <1>1. cs[k] \in Connections
    OBVIOUS
  <1>2. Marks(one)
    <2> DEFINE r == [cs[k] EXCEPT !.Closed = c]
    <2>1. /\ r \in Connections /\ r.Closed = c
          /\ r.Id = cs[k].Id /\ r.FileDescriptor = cs[k].FileDescriptor
      BY <1>1, ClosedField
    <2>. HIDE DEF r
    <2>2. Marks([r EXCEPT !.Readable = x])
      BY <2>1, ReadableField
    <2>. QED BY <2>2 DEF r
  <1>3. Marks(two)
    <2> DEFINE r == [cs[k] EXCEPT !.Readable = x]
    <2>1. /\ r \in Connections /\ r.Readable = x
          /\ r.Id = cs[k].Id /\ r.FileDescriptor = cs[k].FileDescriptor
      BY <1>1, ReadableField
    <2>. HIDE DEF r
    <2>2. Marks([r EXCEPT !.Closed = c])
      BY <2>1, ClosedField
    <2>. QED BY <2>2 DEF r
  <1>4. [cs EXCEPT ![k].Closed = c, ![k].Readable = x] = [cs EXCEPT ![k] = one]
    OBVIOUS
  <1>5. [cs EXCEPT ![k].Readable = x, ![k].Closed = c] = [cs EXCEPT ![k] = two]
    OBVIOUS
  <1>6. ASSUME NEW s, Marks(s) PROVE SlotMarked([cs EXCEPT ![k] = s], cs, k, c, x)
    BY <1>6 DEF SlotMarked
  <1>. HIDE DEF one, two, Marks
  <1>. QED BY <1>2, <1>3, <1>4, <1>5, <1>6

(* A new connection gets one slot, which was free.                          *)
NewSlot(i, id, p, fd) ==
  /\ conns' = [conns EXCEPT ![i] = Client(id, fd)]
  /\ id \in {0, i}
  /\ \/ i = Count /\ Count' = Count + 1 /\ id = i
     \/ i < Count /\ Count' = Count /\ conns[i].Closed /\ (id = conns[i].Id \/ id = 0)
  /\ interest' = [interest EXCEPT ![p] = id]
  /\ ready' = ready \cup {p}

(* Placed on either path, a new connection gets one free slot.              *)
LEMMA PlaceEffect ==
  ASSUME TypeOK, Registered, NEW p \in Peers, NEW fd \in Fds,
         Place(p, fd) \/ PlaceFull(p, fd)
  PROVE  \E i \in Slots : \E id \in {0, i} : NewSlot(i, id, p, fd)
  <1>1. Count \in 0..Capacity /\ Capacity \in Nat /\ Capacity > 0
    BY DEF TypeOK
  <1>2. CASE Place(p, fd) /\ ClosedSlots = {}
    <2>1. Count \in Slots
      BY <1>1, <1>2 DEF Place, Slots
    <2>2. NewSlot(Count, Count, p, fd)
      BY <1>1, <1>2 DEF Place, NewSlot, VEpoll_AddFd
    <2>. QED BY <2>1, <2>2
  <1>3. CASE Place(p, fd) /\ ClosedSlots # {}
    <2>1. FirstClosed \in 0..(Count - 1) /\ conns[FirstClosed].Closed
      BY <1>3, FirstIsClosed
    <2>2. FirstClosed \in Slots /\ conns[FirstClosed].Id \in {0, FirstClosed}
      BY <1>1, <2>1 DEF Slots, Registered
    <2>3. /\ conns' = [conns EXCEPT ![FirstClosed] =
                              Client(conns[FirstClosed].Id, fd)]
          /\ Count' = Count
          /\ interest' = [interest EXCEPT ![p] = conns[FirstClosed].Id]
          /\ ready' = ready \cup {p}
      BY <1>3 DEF Place, VEpoll_AddFd
    <2>4. NewSlot(FirstClosed, conns[FirstClosed].Id, p, fd)
      BY <1>1, <2>1, <2>2, <2>3 DEF NewSlot
    <2>. QED BY <2>2, <2>4
  <1>4. CASE PlaceFull(p, fd)
    <2>1. FirstClosed \in 0..(Count - 1) /\ conns[FirstClosed].Closed
      BY <1>4, FirstIsClosed DEF PlaceFull
    <2>2. FirstClosed \in Slots
      BY <1>1, <2>1 DEF Slots
    <2>3. NewSlot(FirstClosed, 0, p, fd)
      BY <1>1, <1>4, <2>1 DEF PlaceFull, NewSlot, VEpoll_AddFd
    <2>. QED BY <2>2, <2>3
  <1>. QED BY <1>2, <1>3, <1>4

-----------------------------------------------------------------------------
(* KernelInv, action by action.                                             *)
LEMMA KernelInit == Init => KernelInv
  <1> SUFFICES ASSUME Init PROVE KernelInv
    OBVIOUS
  <1>1. TypeOK
    BY DEF Init, TypeOK, Files, Own, Fds, Slots, Client, Connections, NoIdx
  <1>2. OneSocket
    BY DEF Init, OneSocket, Fds, Own, Queued, HasFd, Exists
  <1>3. Registered
    BY DEF Init, Registered, NoIdx
  <1>4. BatchInv /\ ~Working
    BY DEF Init, BatchInv, Working
  <1>. QED BY <1>1, <1>2, <1>3, <1>4 DEF KernelInv

(* A client that connects keeps the invariant.                              *)
LEMMA KernelConnect ==
  ASSUME KernelInv, NEW p \in Peers, Connect(p)
  PROVE  KernelInv'
  <1>1. TypeOK'
    BY DEF KernelInv, TypeOK, Connect, tableVars
  <1>2. \A q \in Peers : Queued(q)' <=> Queued(q) \/ q = p
    BY DEF KernelInv, TypeOK, Connect, Queued
  <1>3. \A q \in Peers : HasFd(q)' <=> HasFd(q)
    BY DEF Connect, HasFd
  <1>4. OneSocket'
    BY <1>2, <1>3 DEF KernelInv, TypeOK, OneSocket, Connect, Exists, Queued
  <1>5. Registered'
    BY <1>3 DEF KernelInv, Registered, Connect, tableVars
  <1>6. BatchInv' /\ (Working => Todo # {})'
    <2>1. UNCHANGED <<conns, Count, phase, batch>> /\ backlog' # <<>>
      BY DEF Connect, tableVars, KernelInv, TypeOK
    <2>2. BatchInv'
      BY <2>1 DEF BatchInv, KernelInv
    <2>3. (Working => Todo # {})'
      BY <2>1 DEF Working, Todo, KernelInv
    <2>. QED BY <2>2, <2>3
  <1>. QED BY <1>1, <1>4, <1>5, <1>6 DEF KernelInv

(* So does one that sends, shuts down, resets or is forgotten.              *)
LEMMA KernelOfClient ==
  ASSUME KernelInv, NEW p \in Peers,
         Send(p) \/ HangUp(p, "fin") \/ HangUp(p, "rst") \/ Leave(p)
  PROVE  KernelInv'
  <1>1. TypeOK'
    BY DEF KernelInv, TypeOK, Send, HangUp, Leave, Poke, kernelVars, tableVars
  <1>2. OneSocket'
    <2>1. /\ fds' = fds /\ backlog' = backlog
          /\ \A q \in Peers : peer'[q] = "away" =>
               peer[q] = "away" \/ (q = p /\ ~Exists(p))
      BY DEF Send, HangUp, Leave, kernelVars, KernelInv, TypeOK
    <2>2. \A q \in Peers : (Queued(q)' <=> Queued(q)) /\ (HasFd(q)' <=> HasFd(q))
      BY <2>1 DEF Queued, HasFd
    <2>. QED BY <2>1, <2>2 DEF KernelInv, OneSocket, Exists
  <1>3. Registered'
    BY DEF KernelInv, Registered, Send, HangUp, Leave, Poke, HasFd, kernelVars, tableVars
  <1>4. BatchInv' /\ (Working => Todo # {})'
    BY DEF KernelInv, BatchInv, Send, HangUp, Leave, kernelVars, tableVars, Working, Todo
  <1>. QED BY <1>1, <1>2, <1>3, <1>4 DEF KernelInv

(* What epoll_wait returns: a non-empty batch of events of different files. *)
LEMMA WaitEffect ==
  ASSUME KernelInv, EpollWait
  PROVE  /\ batch' \in Seq(Events) /\ batch' # <<>>
         /\ \A k \in 1..Len(batch') :
              /\ batch'[k] = EventOf(batch'[k].file)
              /\ \/ batch'[k].file \in ready
                 \/ batch'[k].file = "listener" /\ backlog # <<>>
         /\ \A j, k \in 1..Len(batch') : batch'[j].file = batch'[k].file => j = k
         /\ ready' \subseteq ready
         /\ \A p \in ready : p \in ready' \/ \E k \in 1..Len(batch') : batch'[k].file = p
  <1> DEFINE all == ready \cup {f \in {"listener"} : ListenerReady}
             n == IF Cardinality(all) <= BatchSize THEN Cardinality(all) ELSE BatchSize
  <1>1. IsFiniteSet(all)
    <2>1. IsFiniteSet(ready)
      BY FS_Subset DEF KernelInv, TypeOK
    <2>2. IsFiniteSet({f \in {"listener"} : ListenerReady})
      BY FS_Singleton, FS_Subset
    <2>. QED BY <2>1, <2>2, FS_Union
  <1>2. all # {} /\ n \in Nat /\ n > 0
    <2>1. all # {}
      BY DEF EpollWait
    <2>2. Cardinality(all) \in Nat /\ Cardinality(all) # 0
      BY <1>1, <2>1, FS_CardinalityType, FS_EmptySet
    <2>. QED BY <2>1, <2>2
  <1>3. PICK order \in [1..n -> all] :
          /\ \A i, j \in 1..n : order[i] = order[j] => i = j
          /\ batch' = [i \in 1..n |-> EventOf(order[i])]
          /\ ready' = ready \ {order[i] : i \in 1..n}
    BY DEF EpollWait
  <1>. HIDE DEF n
  <1>4. \A f \in all : EventOf(f) \in Events /\ EventOf(f).file = f
    <2>1. ASSUME NEW f \in ready
          PROVE  /\ f \in Peers /\ f # "listener" /\ interest[f] \in Slots
                 /\ HungUp(f) \in BOOLEAN
      BY DEF KernelInv, TypeOK, Registered, Own, NoIdx, HungUp
    <2>2. \A f \in all : f = "listener" \/ f \in ready
      OBVIOUS
    <2>. QED BY <2>1, <2>2 DEF EventOf, Events
  <1>5. batch' \in Seq(Events) /\ Len(batch') = n
    BY <1>2, <1>3, <1>4
  <1>6. \A k \in 1..n : batch'[k] = EventOf(order[k]) /\ batch'[k].file = order[k]
    BY <1>3, <1>4
  <1>7. \A p \in ready : p \in ready' \/ \E k \in 1..n : batch'[k].file = p
    BY <1>3, <1>6
  <1>8. \A k \in 1..n : \/ batch'[k].file \in ready
                        \/ batch'[k].file = "listener" /\ backlog # <<>>
    <2>1. \A k \in 1..n : order[k] \in all
      BY <1>3
    <2>. QED BY <1>6, <2>1 DEF ListenerReady
  <1>9. \A j, k \in 1..n : batch'[j].file = batch'[k].file => j = k
    BY <1>3, <1>6
  <1>10. batch' # <<>>
    BY <1>2, <1>5
  <1>11. ready' \subseteq ready
    BY <1>3
  <1>12. \A k \in 1..n : batch'[k] = EventOf(batch'[k].file)
    BY <1>6
  <1>13. 1..Len(batch') = 1..n
    BY <1>5
  <1>. HIDE DEF all
  <1>14. /\ \A k \in 1..Len(batch') : batch'[k] = EventOf(batch'[k].file)
         /\ \A k \in 1..Len(batch') : \/ batch'[k].file \in ready
                                      \/ batch'[k].file = "listener" /\ backlog # <<>>
         /\ \A j, k \in 1..Len(batch') : batch'[j].file = batch'[k].file => j = k
         /\ \A p \in ready : p \in ready' \/ \E k \in 1..Len(batch') : batch'[k].file = p
    BY <1>7, <1>8, <1>9, <1>12, <1>13
  <1>. QED BY <1>5, <1>10, <1>11, <1>14

(* epoll_wait keeps the invariant.                                          *)
LEMMA KernelWait ==
  ASSUME KernelInv, EpollWait
  PROVE  KernelInv'
  <1>1. TypeOK'
    BY WaitEffect DEF KernelInv, TypeOK, EpollWait, tableVars
  <1>2. OneSocket'
    BY DEF KernelInv, OneSocket, EpollWait, Exists, Queued, HasFd
  <1>3. Registered'
    BY WaitEffect DEF KernelInv, Registered, EpollWait, HasFd, tableVars
  <1>4. BatchInv'
    <2>1. \A f \in ready : f # "listener" /\ interest[f] \in Slots
                           /\ interest[f] < Count /\ interest[f] # ListenerIdx
      BY DEF KernelInv, TypeOK, Registered, Own, Slots, NoIdx, ListenerIdx
    <2>2. \A k \in 1..Len(batch') :
            /\ batch'[k].file = "listener" <=> batch'[k].idx = ListenerIdx
            /\ batch'[k].file = "listener" => backlog # <<>>
            /\ batch'[k].idx # ListenerIdx => batch'[k].idx < Count
      <3> SUFFICES ASSUME NEW k \in 1..Len(batch')
                   PROVE  /\ batch'[k].file = "listener" <=> batch'[k].idx = ListenerIdx
                          /\ batch'[k].file = "listener" => backlog # <<>>
                          /\ batch'[k].idx # ListenerIdx => batch'[k].idx < Count
        OBVIOUS
      <3>1. batch'[k] = EventOf(batch'[k].file)
        BY WaitEffect
      <3>2. CASE batch'[k].file = "listener"
        <4>1. batch'[k].idx = ListenerIdx
          BY <3>1, <3>2 DEF EventOf
        <4>2. backlog # <<>>
          BY <2>1, <3>2, WaitEffect
        <4>. QED BY <3>2, <4>1, <4>2
      <3>3. CASE batch'[k].file # "listener"
        <4>1. batch'[k].file \in ready
          BY <3>3, WaitEffect
        <4>2. batch'[k].idx = interest[batch'[k].file]
          BY <3>1, <3>3 DEF EventOf
        <4>. QED BY <2>1, <3>3, <4>1, <4>2
      <3>. QED BY <3>2, <3>3
    <2>. QED BY <2>2, WaitEffect DEF BatchInv, EpollWait, tableVars
  <1>5. ~Working'
    BY DEF EpollWait, Working
  <1>. QED BY <1>1, <1>2, <1>3, <1>4, <1>5 DEF KernelInv

(* The first event leaves the batch.                                        *)
LEMMA NextEventEffect ==
  ASSUME TypeOK, BatchInv, phase = "dispatch", NextEvent
  PROVE  /\ 1 \in 1..Len(batch) /\ Head(batch) = batch[1] /\ batch[1] \in Events
         /\ batch' \in Seq(Events) /\ Len(batch') = Len(batch) - 1
         /\ \A k \in 1..Len(batch') : k + 1 \in 1..Len(batch) /\ batch'[k] = batch[k + 1]
         /\ \A k \in 1..Len(batch) : k # 1 => \E j \in 1..Len(batch') : batch'[j] = batch[k]
         /\ phase' \in {"dispatch", "process"}
         /\ phase' = "dispatch" <=> batch' # <<>>
  <1>1. batch \in Seq(Events) /\ batch # <<>> /\ Len(batch) \in Nat
    BY DEF TypeOK, BatchInv
  <1>2. Len(batch) > 0
    BY <1>1
  <1>3. batch' = Tail(batch)
    BY DEF NextEvent
  <1>4. batch' \in Seq(Events) /\ Len(batch') = Len(batch) - 1
    BY <1>1, <1>2, <1>3
  <1>5. \A k \in 1..Len(batch') : k + 1 \in 1..Len(batch) /\ batch'[k] = batch[k + 1]
    BY <1>1, <1>2, <1>3
  <1>6. ASSUME NEW k \in 1..Len(batch), k # 1
        PROVE  \E j \in 1..Len(batch') : batch'[j] = batch[k]
    <2>1. k - 1 \in 1..Len(batch') /\ batch'[k - 1] = batch[(k - 1) + 1]
      BY <1>1, <1>4, <1>5, <1>6
    <2>. QED BY <1>1, <2>1
  <1>7. batch' = <<>> <=> Len(batch) = 1
    <2>1. batch' = <<>> <=> Len(batch') = 0
      BY <1>4, EmptySeq
    <2>. QED BY <1>1, <1>4, <2>1
  <1>8. 1 \in 1..Len(batch) /\ Head(batch) = batch[1] /\ batch[1] \in Events
    BY <1>1, <1>2
  <1>9. phase' = IF Len(batch) = 1 THEN "process" ELSE "dispatch"
    BY DEF NextEvent
  <1>. QED BY <1>4, <1>5, <1>6, <1>7, <1>8, <1>9

(* The rest of the batch keeps its shape while the table does not shrink    *)
(* and connections wait for a listener event.                               *)
LEMMA BatchShrinks ==
  ASSUME TypeOK, TypeOK', BatchInv, phase = "dispatch", NextEvent, Count <= Count',
         backlog' = backlog \/ Head(batch).idx = ListenerIdx
  PROVE  BatchInv'
  <1>1. \A k \in 1..Len(batch') :
          /\ k + 1 \in 1..Len(batch) /\ batch'[k] = batch[k + 1]
          /\ k \in Nat /\ k + 1 # 1
    BY NextEventEffect
  <1>2. \A j, k \in 1..Len(batch') : batch'[j].file = batch'[k].file => j = k
    <2>1. \A j, k \in 1..Len(batch') : batch'[j].file = batch'[k].file => j + 1 = k + 1
      BY <1>1 DEF BatchInv
    <2>2. \A j, k \in 1..Len(batch') : j + 1 = k + 1 => j = k
      BY <1>1
    <2>. QED BY <2>1, <2>2
  <1>3. \A k \in 1..Len(batch') :
          /\ batch'[k].file = "listener" <=> batch'[k].idx = ListenerIdx
          /\ batch'[k].file = "listener" => backlog # <<>>
          /\ batch'[k].idx # ListenerIdx => batch'[k].idx < Count
    BY <1>1 DEF BatchInv
  <1>4. \A k \in 1..Len(batch') : batch'[k].idx # ListenerIdx => batch'[k].idx < Count'
    <2>1. \A k \in 1..Len(batch') : batch'[k] \in Events
      BY NextEventEffect, ElementOfSeq
    <2>2. \A k \in 1..Len(batch') : batch'[k].idx # ListenerIdx => batch'[k].idx \in Nat
      BY <2>1 DEF Events, Slots
    <2>3. Count \in Nat /\ Count' \in Nat
      BY DEF TypeOK
    <2>. QED BY <1>3, <2>2, <2>3
  <1>5. \A k \in 1..Len(batch') : batch'[k].file = "listener" => backlog' # <<>>
    <2>1. CASE Head(batch).idx = ListenerIdx
      <3>1. 1 \in 1..Len(batch) /\ batch[1].file = "listener"
        BY <2>1, NextEventEffect DEF BatchInv
      <3>. QED BY <1>1, <3>1 DEF BatchInv
    <2>2. CASE backlog' = backlog
      BY <1>3, <2>2
    <2>. QED BY <2>1, <2>2
  <1>6. phase' = "dispatch" <=> batch' # <<>>
    BY NextEventEffect
  <1>. QED BY <1>2, <1>3, <1>4, <1>5, <1>6 DEF BatchInv

(* An event of a connection names a slot in use.                            *)
LEMMA EventNamesSlot ==
  ASSUME TypeOK, BatchInv, phase = "dispatch", Head(batch).idx # ListenerIdx
  PROVE  /\ Head(batch) \in Events /\ Head(batch).idx \in Slots
         /\ Head(batch).idx \in 0..(Count - 1)
         /\ Head(batch) = batch[1] /\ 1 \in 1..Len(batch)
         /\ Head(batch).file \in Peers
  <1>1. batch \in Seq(Events) /\ batch # <<>>
    BY DEF TypeOK, BatchInv
  <1>2. Head(batch) \in Events /\ Head(batch) = batch[1] /\ 1 \in 1..Len(batch)
    BY <1>1
  <1>3. Head(batch).idx \in Slots /\ Head(batch).idx < Count /\ Head(batch).file # "listener"
    BY <1>2 DEF BatchInv, Events
  <1>. QED BY <1>2, <1>3 DEF Events, Slots, TypeOK

(* The slot after its event was handled.                                    *)
LEMMA HandledSlot ==
  ASSUME KernelInv, HandleEvent
  PROVE  SlotMarked(conns', conns, Head(batch).idx,
                    conns[Head(batch).idx].Closed \/ Head(batch).hup,
                    conns[Head(batch).idx].Readable \/ Head(batch).in)
  <1> DEFINE e == Head(batch)
             c == conns[e.idx]
             closed == c.Closed \/ (e.hup /\ ~c.Closed)
             readable == c.Readable \/ e.in
  <1>1. /\ conns \in [Slots -> Connections] /\ e \in Events /\ e.idx \in Slots
        /\ c \in Connections
    BY EventNamesSlot DEF KernelInv, TypeOK, HandleEvent
  <1>2. /\ e.hup \in BOOLEAN /\ e.in \in BOOLEAN
        /\ c.Closed \in BOOLEAN /\ c.Readable \in BOOLEAN
    BY <1>1 DEF Events, Connections
  <1>3. conns' = [conns EXCEPT ![e.idx].Closed = closed, ![e.idx].Readable = readable]
    BY DEF HandleEvent, MarksReadable
  <1>4. closed = (c.Closed \/ e.hup) /\ closed \in BOOLEAN /\ readable \in BOOLEAN
    BY <1>2
  <1>. HIDE DEF closed, readable, c, e
  <1>5. SlotMarked(conns', conns, e.idx, closed, readable)
    BY <1>1, <1>3, <1>4, MarkedSlot
  <1>6. SlotMarked(conns', conns, e.idx, c.Closed \/ e.hup, readable)
    BY <1>4, <1>5
  <1>. QED BY <1>6 DEF e, c, readable

(* So does the handling of a connection's event.                            *)
LEMMA KernelHandle ==
  ASSUME KernelInv, HandleEvent
  PROVE  KernelInv'
  <1> DEFINE e == Head(batch)
             c == conns[e.idx]
             closing == e.hup /\ ~c.Closed
             fd == c.FileDescriptor
  <1>1. /\ e \in Events /\ e.idx \in Slots /\ e.idx \in 0..(Count - 1)
        /\ c \in Connections /\ fd \in Fds
    BY EventNamesSlot DEF KernelInv, TypeOK, HandleEvent, Connections
  <1>2. conns' = [conns EXCEPT ![e.idx].Closed = c.Closed \/ closing,
                               ![e.idx].Readable = c.Readable \/ MarksReadable(e)]
    BY DEF HandleEvent
  <1>3. conns' \in [Slots -> Connections] /\ \A i \in Slots : conns'[i].Id = conns[i].Id
    BY <1>1, <1>2 DEF KernelInv, TypeOK, Connections, MarksReadable, Events
  <1>4. /\ peer' = peer /\ backlog' = backlog /\ Count' = Count
        /\ NextEvent /\ phase = "dispatch"
    BY DEF HandleEvent
  <1>5. /\ fds' \in [Fds -> Files] /\ interest' \in [Peers -> Slots \cup {NoIdx}]
        /\ ready' \subseteq ready /\ rx' \subseteq rx
        /\ \A f \in Fds : fds'[f] = fds[f] \/ fds'[f] = "free"
        /\ \A p \in Peers : HasFd(p)' => HasFd(p)
        /\ \A p \in Peers : interest'[p] # NoIdx => HasFd(p)'
        /\ \A p \in Peers : interest'[p] = interest[p] \/ interest'[p] = NoIdx
        /\ \A p \in ready' : interest'[p] # NoIdx
    <2>1. CASE closing
      <3>1. Release(fd) /\ rx' = rx \ {fds[fd]}
        BY <2>1 DEF HandleEvent, Close
      <3>2. /\ fds' \in [Fds -> Files] /\ fds'[fd] = "free"
            /\ \A f \in Fds : f # fd => fds'[f] = fds[f]
            /\ \A p \in Peers : HasFd(p)' <=> HasFd(p) /\ p # fds[fd]
            /\ interest' \in [Peers -> Slots \cup {NoIdx}]
            /\ \A p \in Peers : p # fds[fd] => interest'[p] = interest[p]
            /\ \A p \in Peers : p = fds[fd] => interest'[p] = NoIdx
            /\ ready' \subseteq ready /\ fds[fd] \notin ready'
        BY <1>1, <3>1, ReleaseEffect DEF KernelInv
      <3>. QED BY <3>1, <3>2 DEF KernelInv, TypeOK, Registered
    <2>2. CASE ~closing
      <3>1. UNCHANGED <<fds, interest, ready, rx>>
        BY <2>2 DEF HandleEvent
      <3>. QED BY <3>1 DEF KernelInv, TypeOK, Registered, HasFd
    <2>. QED BY <2>1, <2>2
  <1>6. TypeOK'
    BY <1>3, <1>4, <1>5, NextEventEffect DEF KernelInv, TypeOK
  <1>7. OneSocket'
    <2>1. "free" \notin Peers
      BY DEF Own
    <2>2. \A p \in Peers : Queued(p)' <=> Queued(p)
      BY <1>4 DEF Queued
    <2>. QED BY <1>4, <1>5, <2>1, <2>2 DEF KernelInv, OneSocket, Exists
  <1>8. Registered'
    <2>1. Count \in Nat /\ NoIdx < 0 /\ \A p \in Peers : interest[p] < Count
      BY DEF KernelInv, TypeOK, Registered, NoIdx
    <2>2. \A p \in Peers : interest'[p] < Count'
      BY <1>4, <1>5, <2>1 DEF NoIdx
    <2>. QED BY <1>3, <1>4, <1>5, <2>2, UsedAreSlots DEF KernelInv, Registered
  <1>9. BatchInv'
    BY <1>4, <1>6, BatchShrinks DEF KernelInv, TypeOK
  <1>10. ~Working'
    BY <1>4, NextEventEffect DEF KernelInv, Working
  <1>. QED BY <1>6, <1>7, <1>8, <1>9, <1>10 DEF KernelInv

(* A listener event finds a connection in the backlog.                      *)
LEMMA ListenerFindsOne ==
  ASSUME TypeOK, OneSocket, BatchInv, phase = "dispatch", Head(batch).idx = ListenerIdx
  PROVE  /\ backlog # <<>> /\ Head(backlog) \in Peers /\ Queued(Head(backlog))
         /\ Tail(backlog) \in Seq(Peers)
         /\ \A k \in 1..Len(Tail(backlog)) :
              k + 1 \in 1..Len(backlog) /\ Tail(backlog)[k] = backlog[k + 1]
         /\ \A p \in Peers : (\E k \in 1..Len(Tail(backlog)) : Tail(backlog)[k] = p)
                             <=> Queued(p) /\ p # Head(backlog)
  <1>1. batch \in Seq(Events) /\ batch # <<>>
    BY DEF TypeOK, BatchInv
  <1>2. 1 \in 1..Len(batch) /\ Head(batch) = batch[1]
    BY <1>1
  <1>3. backlog # <<>> /\ backlog \in Seq(Peers)
    BY <1>2 DEF BatchInv, TypeOK
  <1>4. /\ Len(backlog) \in Nat /\ 1 \in 1..Len(backlog) /\ Head(backlog) = backlog[1]
        /\ Tail(backlog) \in Seq(Peers) /\ Len(Tail(backlog)) = Len(backlog) - 1
    BY <1>3
  <1>5. \A k \in 1..Len(Tail(backlog)) :
          k + 1 \in 1..Len(backlog) /\ Tail(backlog)[k] = backlog[k + 1]
    BY <1>3, <1>4
  <1>6. ASSUME NEW p \in Peers
        PROVE  (\E k \in 1..Len(Tail(backlog)) : Tail(backlog)[k] = p)
               <=> Queued(p) /\ p # Head(backlog)
    <2>1. ASSUME NEW k \in 1..Len(Tail(backlog)), Tail(backlog)[k] = p
          PROVE  Queued(p) /\ p # Head(backlog)
      <3>1. k + 1 \in 1..Len(backlog) /\ backlog[k + 1] = p /\ k + 1 # 1
        BY <1>5, <2>1
      <3>. QED BY <1>4, <3>1 DEF OneSocket, Queued
    <2>2. ASSUME NEW k \in 1..Len(backlog), backlog[k] = p, p # Head(backlog)
          PROVE  \E j \in 1..Len(Tail(backlog)) : Tail(backlog)[j] = p
      <3>1. k - 1 \in 1..Len(Tail(backlog)) /\ (k - 1) + 1 = k
        BY <1>4, <2>2
      <3>2. Tail(backlog)[k - 1] = backlog[k]
        BY <1>5, <3>1
      <3>. QED BY <2>2, <3>1, <3>2
    <2>. QED BY <2>1, <2>2 DEF Queued
  <1>. QED BY <1>3, <1>4, <1>5, <1>6 DEF Queued

(* Accepting one connection leaves the others in the backlog once each.     *)
LEMMA BacklogDistinct ==
  ASSUME TypeOK, OneSocket, BatchInv, phase = "dispatch", Head(batch).idx = ListenerIdx,
         backlog' = Tail(backlog)
  PROVE  \A i, j \in 1..Len(backlog') : backlog'[i] = backlog'[j] => i = j
  <1>1. \A k \in 1..Len(backlog') :
          k \in Nat /\ k + 1 \in 1..Len(backlog) /\ backlog'[k] = backlog[k + 1]
    BY ListenerFindsOne
  <1>2. \A i, j \in 1..Len(backlog') : backlog'[i] = backlog'[j] => i + 1 = j + 1
    BY <1>1 DEF OneSocket
  <1>3. \A i, j \in 1..Len(backlog') : i + 1 = j + 1 => i = j
    BY <1>1
  <1>. QED BY <1>2, <1>3

(* Acceptance keeps the invariant.                                          *)
LEMMA KernelAccept ==
  ASSUME KernelInv, Accept
  PROVE  KernelInv'
  <1> DEFINE p == Head(backlog)
             fd == LowestFd
  <1>1. /\ phase = "dispatch" /\ Head(batch).idx = ListenerIdx /\ NextEvent
        /\ backlog' = Tail(backlog) /\ peer' = peer /\ rx' = rx
        /\ fds' = [fds EXCEPT ![fd] = p]
    BY DEF Accept
  <1>2. fd \in Fds /\ fds[fd] = "free" /\ "free" \notin Peers
    BY LowestFree DEF Accept, Own
  <1>3. /\ p \in Peers /\ Queued(p) /\ ~HasFd(p) /\ backlog' \in Seq(Peers)
        /\ \A q \in Peers : Queued(q)' <=> Queued(q) /\ q # p
    BY <1>1, ListenerFindsOne DEF KernelInv, OneSocket, Queued
  <1>4. PICK i \in Slots : \E id \in {0, i} : NewSlot(i, id, p, fd)
    BY <1>2, <1>3, PlaceEffect DEF Accept, KernelInv
  <1>5. PICK id \in {0, i} : NewSlot(i, id, p, fd)
    BY <1>4
  <1>6. /\ id \in Slots /\ i \in Nat /\ Count \in Nat /\ Count' \in 0..Capacity
        /\ Count' \in {Count, Count + 1} /\ i < Count' /\ id < Count'
        /\ Count' = Count + 1 => i = Count
        /\ Capacity \in Nat
    BY <1>5, UsedAreSlots DEF NewSlot, Slots, KernelInv, TypeOK
  <1>. HIDE DEF p, fd
  <1>7. conns' \in [Slots -> Connections]
    BY <1>2, <1>5, <1>6 DEF NewSlot, KernelInv, TypeOK, Client, Connections
  <1>8. TypeOK'
    <2>1. fds' \in [Fds -> Files]
      BY <1>1, <1>2, <1>3 DEF KernelInv, TypeOK, Files
    <2>2. interest' \in [Peers -> Slots \cup {NoIdx}] /\ ready' \subseteq Peers
      BY <1>3, <1>5, <1>6 DEF NewSlot, KernelInv, TypeOK
    <2>. QED BY <1>1, <1>3, <1>6, <1>7, <2>1, <2>2, NextEventEffect DEF KernelInv, TypeOK
  <1>9. \A q \in Peers : HasFd(q)' <=> HasFd(q) \/ q = p
    BY <1>1, <1>2, <1>3 DEF KernelInv, TypeOK, HasFd
  <1>10. OneSocket'
    <2>1. \A f, g \in Fds : fds'[f] = fds'[g] /\ fds'[f] \in Peers => f = g
      BY <1>1, <1>2, <1>3 DEF KernelInv, TypeOK, OneSocket, HasFd
    <2>2. \A k, j \in 1..Len(backlog') : backlog'[k] = backlog'[j] => k = j
      BY <1>1, BacklogDistinct DEF KernelInv
    <2>. QED BY <1>1, <1>3, <1>9, <2>1, <2>2 DEF KernelInv, OneSocket, Exists
  <1>11. Registered'
    <2>1. \A q \in Peers : interest'[q] = IF q = p THEN id ELSE interest[q]
      BY <1>3, <1>5 DEF NewSlot, KernelInv, TypeOK
    <2>2. \A q \in Peers : interest'[q] < Count'
      BY <1>6, <2>1 DEF KernelInv, Registered, TypeOK, Slots, NoIdx
    <2>3. \A q \in Peers : interest'[q] # NoIdx => HasFd(q)'
      BY <1>9, <2>1 DEF KernelInv, Registered
    <2>4. \A q \in ready' : interest'[q] # NoIdx
      BY <1>3, <1>5, <1>6, <2>1 DEF NewSlot, KernelInv, Registered, TypeOK, Slots, NoIdx
    <2>5. \A j \in 0..(Count' - 1) : conns'[j].Id \in {0, j}
      <3> SUFFICES ASSUME NEW j \in 0..(Count' - 1) PROVE conns'[j].Id \in {0, j}
        OBVIOUS
      <3>0. Count' \in Int /\ j \in Int /\ 0 <= j /\ j < Count'
        <4>1. Count' \in Int
          BY <1>6
        <4>. QED BY <4>1, Below
      <3>1. j \in Slots /\ conns'[j] = IF j = i THEN Client(id, fd) ELSE conns[j]
        <4>1. j \in Slots
          BY <1>6, <3>0 DEF Slots
        <4>2. conns' = [conns EXCEPT ![i] = Client(id, fd)] /\ conns \in [Slots -> Connections]
          BY <1>5 DEF NewSlot, KernelInv, TypeOK
        <4>. QED BY <4>1, <4>2
      <3>2. CASE j = i
        BY <3>1, <3>2 DEF Client
      <3>3. CASE j # i
        <4>1. j \in 0..(Count - 1)
          BY <1>6, <3>0, <3>3
        <4>. QED BY <3>1, <3>3, <4>1 DEF KernelInv, Registered
      <3>. QED BY <3>2, <3>3
    <2>. QED BY <2>2, <2>3, <2>4, <2>5 DEF Registered
  <1>12. BatchInv'
    BY <1>1, <1>6, <1>8, BatchShrinks DEF KernelInv
  <1>13. ~Working'
    BY <1>1, NextEventEffect DEF KernelInv, Working
  <1>. QED BY <1>8, <1>10, <1>11, <1>12, <1>13 DEF KernelInv

(* So does the refusal of a connection for want of a slot.                  *)
LEMMA KernelRefuse ==
  ASSUME KernelInv, Refuse
  PROVE  KernelInv'
  <1>1. /\ phase = "dispatch" /\ Head(batch).idx = ListenerIdx /\ NextEvent
        /\ backlog' = Tail(backlog) /\ rx' = rx \ {Head(backlog)}
        /\ UNCHANGED <<peer, fds, interest, ready, conns, Count>>
    BY DEF Refuse, tableVars
  <1>2. TypeOK'
    BY <1>1, ListenerFindsOne, NextEventEffect DEF KernelInv, TypeOK
  <1>3. OneSocket'
    <2>1. \A q \in Peers : Queued(q)' => Queued(q)
      BY <1>1, ListenerFindsOne DEF KernelInv, Queued
    <2>2. \A q \in Peers : HasFd(q)' <=> HasFd(q)
      BY <1>1 DEF HasFd
    <2>. QED BY <1>1, <2>1, <2>2, BacklogDistinct DEF KernelInv, OneSocket, Exists
  <1>4. Registered'
    BY <1>1 DEF KernelInv, Registered, HasFd
  <1>5. BatchInv'
    BY <1>1, <1>2, BatchShrinks DEF KernelInv, TypeOK
  <1>6. ~Working'
    BY <1>1, NextEventEffect DEF KernelInv, Working
  <1>. QED BY <1>2, <1>3, <1>4, <1>5, <1>6 DEF KernelInv

(* So does an accept that fails.                                            *)
LEMMA KernelAcceptFails ==
  ASSUME KernelInv, AcceptFails
  PROVE  KernelInv'
  <1>1. /\ phase = "dispatch" /\ Head(batch).idx = ListenerIdx /\ NextEvent
        /\ UNCHANGED <<peer, fds, interest, ready, rx, backlog, conns, Count>>
    BY DEF AcceptFails, tableVars, kernelVars
  <1>2. TypeOK'
    BY <1>1, NextEventEffect DEF KernelInv, TypeOK
  <1>3. OneSocket' /\ Registered'
    BY <1>1 DEF KernelInv, OneSocket, Registered, Exists, Queued, HasFd
  <1>4. BatchInv'
    BY <1>1, <1>2, BatchShrinks DEF KernelInv, TypeOK
  <1>5. ~Working'
    BY <1>1, NextEventEffect DEF KernelInv, Working
  <1>. QED BY <1>2, <1>3, <1>4, <1>5 DEF KernelInv

(* The worker is at work on a slot of its own: only Readable changes.       *)
LEMMA KernelWork ==
  ASSUME KernelInv, Serve \/ Respond \/ SendfileEnds \/ Killed \/ ProcessDone
  PROVE  KernelInv'
  <1>1. /\ UNCHANGED <<peer, fds, interest, ready, backlog, Count, batch>>
        /\ rx' \subseteq rx
        /\ phase # "dispatch" /\ phase' # "dispatch"
        /\ phase' \in {"process", "respond", "sendfile", "dead", "wait"}
    BY DEF Serve, Drained, Respond, Served, SendfileEnds, Killed, ProcessDone, kernelVars,
           tableVars
  <1>2. \/ conns' = conns
        \/ Todo # {} /\ conns' = [conns EXCEPT ![Current].Readable = FALSE]
    <2>1. CASE Serve \/ Killed \/ ProcessDone
      BY <2>1 DEF Serve, Killed, ProcessDone, tableVars
    <2>2. CASE Respond \/ SendfileEnds
      <3>1. Todo # {}
        BY <2>2 DEF KernelInv, Working, Respond, SendfileEnds
      <3>2. Served \/ conns' = conns
        BY <2>2 DEF Respond, SendfileEnds
      <3>. QED BY <3>1, <3>2 DEF Served
    <2>. QED BY <2>1, <2>2
  <1>3. conns' \in [Slots -> Connections] /\ \A i \in Slots : conns'[i].Id = conns[i].Id
    <2>1. conns \in [Slots -> Connections]
      BY DEF KernelInv, TypeOK
    <2>2. ASSUME Todo # {}, conns' = [conns EXCEPT ![Current].Readable = FALSE]
          PROVE  conns' \in [Slots -> Connections] /\ \A i \in Slots : conns'[i].Id = conns[i].Id
      <3>1. Current \in Slots
        BY <2>2, CurrentIsOpen DEF KernelInv
      <3>2. conns' = [conns EXCEPT ![Current] = [conns[Current] EXCEPT !.Readable = FALSE]]
        BY <2>2
      <3>3. /\ [conns[Current] EXCEPT !.Readable = FALSE] \in Connections
            /\ [conns[Current] EXCEPT !.Readable = FALSE].Id = conns[Current].Id
        <4>1. conns[Current] \in Connections
          BY <2>1, <3>1
        <4>2. \A c \in Connections : /\ [c EXCEPT !.Readable = FALSE] \in Connections
                                   /\ [c EXCEPT !.Readable = FALSE].Id = c.Id
          BY DEF Connections
        <4>. QED BY <4>1, <4>2
      <3>. HIDE DEF Current
      <3>. QED BY <2>1, <3>1, <3>2, <3>3
    <2>. QED BY <1>2, <2>1, <2>2
  <1>4. TypeOK'
    BY <1>1, <1>3 DEF KernelInv, TypeOK
  <1>5. OneSocket'
    BY <1>1 DEF KernelInv, OneSocket, Exists, Queued, HasFd
  <1>6. Registered'
    BY <1>1, <1>3, UsedAreSlots DEF KernelInv, Registered, HasFd
  <1>7. BatchInv'
    BY <1>1 DEF KernelInv, BatchInv
  <1>8. Working' => conns' = conns /\ Todo # {}
    BY DEF KernelInv, Working, Serve, Respond, Served, SendfileEnds, Killed, ProcessDone,
           kernelVars, tableVars
  <1>9. (Working => Todo # {})'
    BY <1>1, <1>8 DEF Todo
  <1>. QED BY <1>4, <1>5, <1>6, <1>7, <1>9 DEF KernelInv

(* A file opened by the worker takes a free descriptor and no more.         *)
LEMMA KernelOpenFile ==
  ASSUME KernelInv, OpenFile
  PROVE  KernelInv'
  <1>1. /\ fds' = [fds EXCEPT ![LowestFd] = "file"] /\ phase = "respond" /\ phase' = "opened"
        /\ UNCHANGED <<peer, interest, ready, rx, backlog, conns, Count, batch>>
    BY DEF OpenFile, tableVars
  <1>2. LowestFd \in Fds /\ fds[LowestFd] = "free"
    BY LowestFree DEF OpenFile
  <1>3. "free" \notin Peers /\ "file" \notin Peers
    BY DEF Own
  <1>4. TypeOK'
    BY <1>1, <1>2 DEF KernelInv, TypeOK, Files, Own
  <1>5. \A p \in Peers : HasFd(p)' <=> HasFd(p)
    BY <1>1, <1>2, <1>3 DEF KernelInv, TypeOK, HasFd
  <1>6. \A f, g \in Fds : fds'[f] = fds'[g] /\ fds'[f] \in Peers => f = g
    BY <1>1, <1>2, <1>3 DEF KernelInv, TypeOK, OneSocket
  <1>7. OneSocket'
    BY <1>1, <1>5, <1>6 DEF KernelInv, OneSocket, Exists, Queued
  <1>8. Registered' /\ BatchInv' /\ (Working => Todo # {})'
    BY <1>1, <1>5 DEF KernelInv, Registered, BatchInv, Working, Todo
  <1>. QED BY <1>4, <1>7, <1>8 DEF KernelInv

(* The cleanup path, whichever descriptor it closes, keeps the invariant.   *)
LEMMA KernelCleanup ==
  ASSUME KernelInv, Cleanup
  PROVE  KernelInv'
  <1>1. /\ UNCHANGED <<peer, backlog, Count, batch>>
        /\ phase # "dispatch" /\ phase' = "process" /\ Todo # {}
        /\ conns' = [conns EXCEPT ![Current].Readable = FALSE, ![Current].Closed = TRUE]
    BY DEF Cleanup, KernelInv, Working
  <1>2. PICK read \in SUBSET {Socket} : CloseInCleanup(read)
    BY DEF Cleanup
  <1>3. rx' \subseteq rx
    BY <1>2 DEF CloseInCleanup
  <1>4. conns' \in [Slots -> Connections] /\ \A i \in Slots : conns'[i].Id = conns[i].Id
    <2>1. conns \in [Slots -> Connections] /\ Current \in Slots
      BY <1>1, CurrentIsOpen DEF KernelInv, TypeOK
    <2>2. conns' = [conns EXCEPT ![Current].Readable = FALSE, ![Current].Closed = TRUE]
      BY DEF Cleanup
    <2>3. SlotMarked(conns', conns, Current, TRUE, FALSE)
      BY <2>1, <2>2, MarkedSlot
    <2>. QED BY <2>3 DEF SlotMarked
  <1>5. CleanupFd \in Fds /\ "free" \notin Peers
    BY DEF CleanupFd, Fds, Own
  <1>6. /\ fds' \in [Fds -> Files] /\ interest' \in [Peers -> Slots \cup {NoIdx}]
        /\ ready' \subseteq ready
        /\ \A f \in Fds : fds'[f] = fds[f] \/ fds'[f] = "free"
        /\ \A p \in Peers : HasFd(p)' => HasFd(p)
        /\ \A p \in Peers : interest'[p] # NoIdx => HasFd(p)'
        /\ \A p \in Peers : interest'[p] = interest[p] \/ interest'[p] = NoIdx
        /\ \A p \in ready' : interest'[p] # NoIdx
    <2>1. CASE fds[CleanupFd] # "free"
      <3>1. Release(CleanupFd)
        BY <1>2, <2>1 DEF CloseInCleanup
      <3>2. /\ fds' \in [Fds -> Files] /\ fds'[CleanupFd] = "free"
            /\ \A f \in Fds : f # CleanupFd => fds'[f] = fds[f]
            /\ \A p \in Peers : HasFd(p)' <=> HasFd(p) /\ p # fds[CleanupFd]
            /\ interest' \in [Peers -> Slots \cup {NoIdx}]
            /\ \A p \in Peers : p # fds[CleanupFd] => interest'[p] = interest[p]
            /\ \A p \in Peers : p = fds[CleanupFd] => interest'[p] = NoIdx
            /\ ready' \subseteq ready /\ fds[CleanupFd] \notin ready'
        BY <1>5, <3>1, ReleaseEffect DEF KernelInv
      <3>. QED BY <3>2 DEF KernelInv, TypeOK, Registered
    <2>2. CASE fds[CleanupFd] = "free"
      <3>1. UNCHANGED <<fds, interest, ready>>
        BY <1>2, <2>2 DEF CloseInCleanup
      <3>. QED BY <3>1 DEF KernelInv, TypeOK, Registered, HasFd
    <2>. QED BY <2>1, <2>2
  <1>7. TypeOK'
    BY <1>1, <1>3, <1>4, <1>6 DEF KernelInv, TypeOK
  <1>8. OneSocket'
    BY <1>1, <1>5, <1>6 DEF KernelInv, OneSocket, Exists, Queued
  <1>9. Registered'
    <2>1. Count \in Nat /\ NoIdx < 0
      BY DEF KernelInv, TypeOK, NoIdx
    <2>2. \A p \in Peers : interest'[p] < Count'
      BY <1>1, <1>6, <2>1 DEF KernelInv, Registered, NoIdx
    <2>. QED BY <1>1, <1>4, <1>6, <2>2, UsedAreSlots DEF KernelInv, Registered
  <1>10. BatchInv' /\ ~Working'
    BY <1>1 DEF KernelInv, BatchInv, Working
  <1>. QED BY <1>7, <1>8, <1>9, <1>10 DEF KernelInv

(* Every step keeps the invariant.                                          *)
LEMMA KernelNext == KernelInv /\ [Next]_vars => KernelInv'
  <1> SUFFICES ASSUME KernelInv, [Next]_vars PROVE KernelInv'
    OBVIOUS
  <1>1. CASE UNCHANGED vars
    BY <1>1 DEF vars, kernelVars, tableVars, KernelInv, TypeOK, OneSocket, Registered,
           BatchInv, Working, Todo, Exists, Queued, HasFd
  <1>2. CASE ServerStep
    BY <1>2, KernelWait, KernelHandle, KernelAccept, KernelRefuse, KernelAcceptFails,
       KernelWork, KernelOpenFile, KernelCleanup DEF ServerStep
  <1>3. CASE SendfileEnds
    BY <1>3, KernelWork
  <1>4. ASSUME NEW p \in Peers, PeerStep(p) PROVE KernelInv'
    BY <1>4, KernelConnect, KernelOfClient DEF PeerStep
  <1>. QED BY <1>1, <1>2, <1>3, <1>4 DEF Next

(* The invariant holds in every state.                                      *)
LEMMA KernelAlways == Spec => []KernelInv
  BY KernelInit, KernelNext, PTL DEF Spec

(* TypeOK: whatever the clients do and the loop frees, every descriptor,    *)
(* registration, slot and event has its type.                               *)
THEOREM LoopTypes == Spec => []TypeOK
  <1>1. KernelInv => TypeOK
    BY DEF KernelInv
  <1>. QED BY <1>1, KernelAlways, PTL

(* EventsInBounds: the index main takes out of an epoll event never leads   *)
(* outside the filled part of TcpServer->Connections, after whatever wrong  *)
(* closes and reuses.                                                       *)
THEOREM EventIndexInBounds == Spec => []EventsInBounds
  <1>1. KernelInv => EventsInBounds
    BY DEF KernelInv, EventsInBounds, BatchInv, Registered
  <1>. QED BY <1>1, KernelAlways, PTL

-----------------------------------------------------------------------------
(* What holds while the table is kept as the code intends, in the form the  *)
(* induction needs: an open connection's registration leads to its slot.    *)
SlotsOpen ==
  \A i \in 0..(Count - 1) : ~conns[i].Closed =>
    SocketOf(i) \in Peers /\ interest[SocketOf(i)] = i

OwnsSlot(p) == /\ interest[p] \in 0..(Count - 1)
               /\ ~conns[interest[p]].Closed
               /\ SocketOf(interest[p]) = p

SlotsOwned == \A p \in Peers : HasFd(p) => OwnsSlot(p)

EventsHit ==
  \A k \in 1..Len(batch) : batch[k].file \in Peers =>
    ~conns[batch[k].idx].Closed /\ SocketOf(batch[k].idx) = batch[k].file

EventsSay ==
  \A k \in 1..Len(batch) : batch[k].file \in Peers =>
    /\ batch[k].hup => HungUp(batch[k].file)
    /\ batch[k].in => HungUp(batch[k].file) \/ batch[k].file \in rx

InputKept ==
  \A p \in Peers : HasFd(p) /\ p \in rx =>
    Announced(p) \/ (interest[p] \notin Answering /\ conns[interest[p]].Readable)

HangUpAnnounced(p) ==
  p \in ready \/ \E k \in 1..Len(batch) : batch[k].file = p /\ batch[k].hup

HangUpKept == \A p \in Peers : HasFd(p) /\ HungUp(p) => HangUpAnnounced(p)

InputThere == \A i \in Todo \ Answering : SocketOf(i) \in rx \/ HungUp(SocketOf(i))

Intact == /\ SlotsOpen /\ SlotsOwned
          /\ EventsHit /\ EventsSay
          /\ InputKept /\ HangUpKept
          /\ InputThere

IntactInv == KernelInv /\ (Healthy => Intact)

(* The four properties about a healthy table follow.                        *)
LEMMA IntactSuffices ==
  ASSUME IntactInv
  PROVE  /\ SlotsMatchDescriptors /\ EventsHitTheirConnection
         /\ NoEdgeLost /\ ReadableMeansInput
  <1> SUFFICES ASSUME Healthy
               PROVE  /\ SlotsMatchDescriptors /\ EventsHitTheirConnection
                      /\ NoEdgeLost /\ ReadableMeansInput
    BY DEF SlotsMatchDescriptors, EventsHitTheirConnection, NoEdgeLost, ReadableMeansInput
  <1>1. Intact
    BY DEF IntactInv
  <1>2. SlotsMatchDescriptors
    BY <1>1 DEF Intact, SlotsMatchDescriptors, SlotsOpen, SlotsOwned, OwnsSlot
  <1>3. EventsHitTheirConnection
    BY <1>1 DEF Intact, EventsHitTheirConnection, EventsHit
  <1>4. NoEdgeLost
    <2>1. \A p \in Peers : HasFd(p) => interest[p] # NoIdx
      BY <1>1 DEF Intact, SlotsOwned, OwnsSlot, NoIdx
    <2>. QED BY <1>1, <2>1 DEF Intact, NoEdgeLost, InputKept, HangUpKept, HangUpAnnounced
  <1>5. ReadableMeansInput
    BY <1>1 DEF Intact, ReadableMeansInput, InputThere
  <1>. QED BY <1>2, <1>3, <1>4, <1>5

(* An open slot's descriptor is its client's.                               *)
LEMMA OpenSlotHasFd ==
  ASSUME TypeOK, NEW i \in 0..(Count - 1), SocketOf(i) \in Peers
  PROVE  HasFd(SocketOf(i))
  BY UsedAreSlots DEF HasFd, SocketOf

(* Slots stay in disorder once they are, and descriptor 1 stays closed.     *)
LEMMA HealthStays ==
  ASSUME KernelInv, [Next]_vars, Healthy'
  PROVE  Healthy
  <1>1. 1 \in Fds /\ "std" \notin Peers
    BY DEF Fds, Own
  <1>2. fds[1] = "std"
    <2> SUFFICES ASSUME fds'[1] = "std", fds' # fds PROVE fds[1] = "std"
      BY DEF Healthy
    <2>1. \E fd \in Fds : \/ fds' = [fds EXCEPT ![fd] = "free"]
                          \/ fds' = [fds EXCEPT ![fd] = "file"]
                          \/ \E p \in Peers : fds' = [fds EXCEPT ![fd] = p]
      <3>1. CASE HandleEvent
        <4>1. conns[Head(batch).idx].FileDescriptor \in Fds
          BY <3>1, EventNamesSlot, UsedAreSlots DEF KernelInv, HandleEvent
        <4>. QED BY <3>1, <4>1 DEF HandleEvent, Close, Release
      <3>2. CASE Accept
        BY <3>2, LowestFree, ListenerFindsOne DEF Accept, KernelInv
      <3>3. CASE OpenFile
        BY <3>3, LowestFree DEF OpenFile
      <3>4. CASE Cleanup
        <4>1. CleanupFd \in Fds
          BY DEF CleanupFd, Fds
        <4>. QED BY <3>4, <4>1 DEF Cleanup, CloseInCleanup, Release
      <3>. QED BY <3>1, <3>2, <3>3, <3>4
           DEF Next, ServerStep, PeerStep, vars, kernelVars, EpollWait, Refuse, AcceptFails,
               Serve, Respond, Killed, ProcessDone, SendfileEnds, Connect, Send, HangUp, Leave
    <2>. QED BY <1>1, <2>1 DEF KernelInv, TypeOK
  <1>3. ASSUME NEW i \in 0..(Count - 1) PROVE conns[i].Id = i
    <2>1. i \in Slots /\ conns[i].Id \in {0, i}
      BY UsedAreSlots DEF KernelInv, Registered
    <2>2. conns'[i].Id = conns[i].Id \/ (conns'[i].Id = 0 /\ Accept)
      <3>1. CASE HandleEvent
        BY <2>1, <3>1, HandledSlot DEF SlotMarked
      <3>2. CASE Accept
        <4>1. PICK j \in Slots : \E id \in {0, j} :
                NewSlot(j, id, Head(backlog), LowestFd)
          BY <3>2, LowestFree, ListenerFindsOne, PlaceEffect DEF Accept, KernelInv
        <4>2. PICK id \in {0, j} : NewSlot(j, id, Head(backlog), LowestFd)
          BY <4>1
        <4>. QED BY <2>1, <3>2, <4>2 DEF NewSlot, KernelInv, TypeOK, Client
      <3>3. CASE Respond \/ SendfileEnds \/ Cleanup
        <4>1. \/ conns' = conns
              \/ conns' = [conns EXCEPT ![Current].Readable = FALSE]
              \/ conns' = [conns EXCEPT ![Current].Readable = FALSE, ![Current].Closed = TRUE]
          BY <3>3 DEF Respond, SendfileEnds, Cleanup, Served
        <4>. HIDE DEF Current
        <4>2. /\ [conns EXCEPT ![Current].Readable = FALSE][i].Id = conns[i].Id
              /\ [conns EXCEPT ![Current].Readable = FALSE,
                               ![Current].Closed = TRUE][i].Id = conns[i].Id
          BY <2>1, SlotEdit DEF KernelInv, TypeOK
        <4>. QED BY <4>1, <4>2, Zenon
      <3>. QED BY <3>1, <3>2, <3>3
           DEF Next, ServerStep, PeerStep, vars, tableVars, EpollWait, Refuse, AcceptFails,
               Serve, OpenFile, Killed, ProcessDone, Connect, Send, HangUp, Leave
    <2>3. Count' \in Nat /\ Count <= Count'
      <3>1. CASE Accept
        <4>1. PICK j \in Slots : \E id \in {0, j} :
                NewSlot(j, id, Head(backlog), LowestFd)
          BY <3>1, LowestFree, ListenerFindsOne, PlaceEffect DEF Accept, KernelInv
        <4>. QED BY <4>1 DEF NewSlot, KernelInv, TypeOK
      <3>2. CASE ~Accept
        BY <3>2 DEF Next, ServerStep, PeerStep, vars, tableVars, EpollWait, Refuse,
           AcceptFails, Serve, OpenFile, Killed, ProcessDone, Connect, Send, HangUp, Leave,
           HandleEvent, Respond, SendfileEnds, Cleanup, KernelInv, TypeOK
      <3>. QED BY <3>1, <3>2
    <2>4. i \in 0..(Count' - 1)
      <3>1. Count' \in Int /\ i \in Int /\ 0 <= i /\ i < Count'
        BY <2>3 DEF KernelInv, TypeOK
      <3>. QED BY <3>1, Below
    <2>5. conns'[i].Id = i
      BY <2>4 DEF Healthy
    <2>. QED BY <2>1, <2>2, <2>5
  <1>. QED BY <1>2, <1>3 DEF Healthy

(* The clients: what they do to a socket that epoll watches makes an edge.  *)
LEMMA IntactClient ==
  ASSUME KernelInv, Intact, NEW p \in Peers, PeerStep(p)
  PROVE  Intact'
  <1>1. /\ UNCHANGED <<fds, interest, conns, Count, phase, batch>>
        /\ rx \subseteq rx' /\ ready \subseteq ready'
    BY DEF PeerStep, Connect, Send, HangUp, Leave, Poke, tableVars, kernelVars
  <1>2. SlotsOpen' /\ SlotsOwned' /\ EventsHit' /\ (Todo \ Answering)' = Todo \ Answering
    BY <1>1 DEF Intact, SlotsOpen, SlotsOwned, OwnsSlot, EventsHit, SocketOf, HasFd, Todo,
           Answering, Current
  <1>3. \A q \in Peers : HasFd(q)' <=> HasFd(q)
    BY <1>1 DEF HasFd
  <1>4. \A q \in Peers : HungUp(q) => HungUp(q)' \/ (Leave(p) /\ q = p)
    BY DEF PeerStep, Connect, Send, HangUp, Leave, HungUp, KernelInv, TypeOK
  <1>5. Leave(p) => ~HasFd(p) /\ \A k \in 1..Len(batch) : batch[k].file # p
    BY DEF Leave, Exists
  <1>6. EventsSay'
    BY <1>1, <1>4, <1>5 DEF Intact, EventsSay
  <1>7. InputKept'
    <2>1. \A q \in Peers : q \in rx' => q \in rx \/ (q = p /\ (HasFd(q) => q \in ready'))
      BY DEF PeerStep, Connect, Send, HangUp, Leave, Poke, kernelVars, Intact, SlotsOwned,
             OwnsSlot, NoIdx
    <2>. QED BY <1>1, <1>3, <2>1 DEF Intact, InputKept, Announced, Answering, Current, Todo
  <1>8. HangUpKept'
    <2>1. \A q \in Peers : HungUp(q)' => HungUp(q) \/ (q = p /\ (HasFd(q) => q \in ready'))
      BY DEF PeerStep, Connect, Send, HangUp, Leave, Poke, HungUp, Intact, SlotsOwned,
             OwnsSlot, NoIdx, KernelInv, TypeOK
    <2>. QED BY <1>1, <1>3, <2>1 DEF Intact, HangUpKept, HangUpAnnounced
  <1>9. InputThere'
    <2>1. \A i \in Todo : SocketOf(i) \in Peers /\ HasFd(SocketOf(i))
      BY OpenSlotHasFd DEF Todo, KernelInv, Intact, SlotsOpen
    <2>2. \A i \in Todo : SocketOf(i)' = SocketOf(i)
      BY <1>1 DEF SocketOf
    <2>. QED BY <1>1, <1>2, <1>4, <1>5, <2>1, <2>2 DEF Intact, InputThere
  <1>. QED BY <1>2, <1>6, <1>7, <1>8, <1>9 DEF Intact

(* A healthy table stays intact when events are fetched.                    *)
LEMMA IntactWait ==
  ASSUME KernelInv, Intact, EpollWait
  PROVE  Intact'
  <1>1. /\ UNCHANGED <<peer, fds, interest, rx, conns, Count>>
        /\ phase = "wait" /\ phase' = "dispatch" /\ batch = <<>>
    BY DEF EpollWait, tableVars, KernelInv, BatchInv
  <1>2. Answering = {} /\ Answering' = {} /\ Todo' = Todo
    BY <1>1 DEF Answering, Todo
  <1>3. SlotsOpen' /\ SlotsOwned'
    BY <1>1 DEF Intact, SlotsOpen, SlotsOwned, OwnsSlot, SocketOf, HasFd
  <1>4. InputThere'
    BY <1>1, <1>2 DEF Intact, InputThere, SocketOf, HungUp
  <1>5. ASSUME NEW k \in 1..Len(batch'), batch'[k].file \in Peers
        PROVE  /\ batch'[k].file \in ready
               /\ batch'[k].idx = interest[batch'[k].file]
               /\ batch'[k].in = (batch'[k].file \in rx \/ HungUp(batch'[k].file))
               /\ batch'[k].hup = HungUp(batch'[k].file)
    <2>1. batch'[k].file # "listener"
      BY <1>5 DEF Own
    <2>2. batch'[k] = EventOf(batch'[k].file)
      BY WaitEffect
    <2>3. batch'[k].file \in ready
      BY <2>1, WaitEffect
    <2>. QED BY <2>1, <2>2, <2>3 DEF EventOf
  <1>6. EventsHit'
    <2>1. \A q \in ready : q \in Peers /\ HasFd(q) /\ OwnsSlot(q)
      BY DEF KernelInv, TypeOK, Registered, Intact, SlotsOwned
    <2>. QED BY <1>1, <1>5, <2>1 DEF EventsHit, OwnsSlot, SocketOf
  <1>7. EventsSay'
    BY <1>1, <1>5 DEF EventsSay, HungUp
  <1>8. \A q \in Peers : q \in ready => q \in ready' \/ \E k \in 1..Len(batch') : batch'[k].file = q
    BY WaitEffect
  <1>9. InputKept'
    <2> SUFFICES ASSUME NEW q \in Peers, HasFd(q), q \in rx
                 PROVE  Announced(q)' \/ (interest[q] \notin Answering' /\ conns[interest[q]].Readable)
      BY <1>1 DEF InputKept, HasFd
    <2>1. q \in ready \/ conns[interest[q]].Readable
      BY <1>1 DEF Intact, InputKept, Announced
    <2>2. CASE q \in ready'
      BY <2>2 DEF Announced
    <2>3. CASE \E k \in 1..Len(batch') : batch'[k].file = q
      <3>1. PICK k \in 1..Len(batch') : batch'[k].file = q
        BY <2>3
      <3>2. batch'[k].in
        BY <1>5, <3>1
      <3>. QED BY <3>1, <3>2 DEF Announced
    <2>. QED BY <1>2, <1>8, <2>1, <2>2, <2>3
  <1>10. HangUpKept'
    <2> SUFFICES ASSUME NEW q \in Peers, HasFd(q), HungUp(q)
                 PROVE  HangUpAnnounced(q)'
      BY <1>1 DEF HangUpKept, HasFd, HungUp
    <2>1. q \in ready
      BY <1>1 DEF Intact, HangUpKept, HangUpAnnounced
    <2>. QED BY <1>5, <1>8, <2>1 DEF HangUpAnnounced
  <1>. QED BY <1>3, <1>4, <1>6, <1>7, <1>9, <1>10 DEF Intact

(* The rest of the batch, after its first event.                            *)
LEMMA RestOfBatch ==
  ASSUME KernelInv, phase = "dispatch", NextEvent
  PROVE  /\ \A k \in 1..Len(batch') :
              /\ \E j \in 1..Len(batch) : j # 1 /\ batch'[k] = batch[j]
              /\ batch'[k].file # batch[1].file
         /\ \A k \in 1..Len(batch) : batch[k].file # batch[1].file =>
              \E j \in 1..Len(batch') : batch'[j] = batch[k]
         /\ Answering = {} /\ Answering' = {}
  <1>1. ASSUME NEW k \in Nat, k \in 1..Len(batch')
        PROVE  /\ k + 1 \in 1..Len(batch) /\ k + 1 # 1 /\ batch'[k] = batch[k + 1]
               /\ batch'[k].file # batch[1].file
    <2>1. k + 1 \in 1..Len(batch) /\ k + 1 # 1 /\ batch'[k] = batch[k + 1] /\ 1 \in 1..Len(batch)
      BY <1>1, NextEventEffect DEF KernelInv
    <2>. QED BY <2>1 DEF KernelInv, BatchInv
  <1>2. \A k \in 1..Len(batch') : k \in Nat
    BY NextEventEffect DEF KernelInv
  <1>3. \A k \in 1..Len(batch) : batch[k].file # batch[1].file =>
          \E j \in 1..Len(batch') : batch'[j] = batch[k]
    BY NextEventEffect DEF KernelInv
  <1>4. Answering = {} /\ Answering' = {}
    BY NextEventEffect DEF KernelInv, Answering
  <1>. QED BY <1>1, <1>2, <1>3, <1>4

(* It stays intact when a connection's event is handled: the slot that is   *)
(* closed was the only one of its descriptor, and no other event leads to   *)
(* it.                                                                      *)
LEMMA IntactHandle ==
  ASSUME KernelInv, KernelInv', Intact, HandleEvent
  PROVE  Intact'
  <1>0. PICK e \in Events : e = Head(batch)
    BY EventNamesSlot DEF KernelInv, HandleEvent
  <1> DEFINE p == e.file
             s == e.idx
             closing == e.hup /\ ~conns[s].Closed
             fd == conns[s].FileDescriptor
  <1>1. /\ e = Head(batch) /\ e = batch[1] /\ 1 \in 1..Len(batch) /\ e \in Events /\ p \in Peers
        /\ s \in Slots /\ s \in 0..(Count - 1)
    BY <1>0, EventNamesSlot DEF KernelInv, HandleEvent
  <1>2. /\ phase = "dispatch" /\ NextEvent
        /\ UNCHANGED <<peer, backlog, Count>>
    BY DEF HandleEvent
  <1>3. ~conns[s].Closed /\ SocketOf(s) = p /\ interest[p] = s
    BY <1>1 DEF Intact, EventsHit, SlotsOpen
  <1>4. fd \in Fds /\ fds[fd] = p /\ HasFd(p)
    BY <1>1, <1>3, UsedAreSlots DEF SocketOf, HasFd, KernelInv
  <1>5. closing <=> e.hup
    BY <1>3
  <1>6. \A i \in Slots :
          /\ conns'[i].FileDescriptor = conns[i].FileDescriptor
          /\ i # s => conns'[i] = conns[i]
    BY <1>1, HandledSlot DEF SlotMarked
  <1>7. /\ conns'[s].Closed = e.hup
        /\ conns'[s].Readable = (conns[s].Readable \/ e.in)
    <2>1. e.hup \in BOOLEAN
      BY <1>1 DEF Events
    <2>. QED BY <1>1, <1>3, <2>1, HandledSlot DEF SlotMarked
  <1>8. /\ \A f \in Fds : fds[f] # p => fds'[f] = fds[f]
        /\ \A q \in Peers : q # p => interest'[q] = interest[q]
        /\ \A q \in Peers : q # p => (q \in ready' <=> q \in ready)
        /\ \A q \in Peers : q # p => (q \in rx' <=> q \in rx)
        /\ \A q \in Peers : HasFd(q)' <=> HasFd(q) /\ ~(e.hup /\ q = p)
        /\ ~e.hup => UNCHANGED <<fds, interest, ready, rx>>
    <2>1. CASE e.hup
      <3>1. Release(fd) /\ rx' = rx \ {p}
        BY <1>0, <1>4, <1>5, <2>1 DEF HandleEvent, Close
      <3>2. /\ \A f \in Fds : f # fd => fds'[f] = fds[f]
            /\ \A q \in Peers : HasFd(q)' <=> HasFd(q) /\ q # fds[fd]
            /\ \A q \in Peers : q # fds[fd] => interest'[q] = interest[q]
            /\ ready' \subseteq ready
            /\ \A q \in ready : q # fds[fd] => q \in ready'
        BY <1>4, <3>1, ReleaseEffect DEF KernelInv
      <3>. QED BY <1>4, <2>1, <3>1, <3>2
    <2>2. CASE ~e.hup
      <3>1. UNCHANGED <<fds, interest, ready, rx>>
        BY <1>0, <1>5, <2>2 DEF HandleEvent
      <3>. QED BY <2>2, <3>1 DEF HasFd
    <2>. QED BY <2>1, <2>2
  <1>. HIDE DEF p, s, closing, fd
  <1>9. /\ \A k \in 1..Len(batch') :
             /\ \E j \in 1..Len(batch) : batch'[k] = batch[j]
             /\ batch'[k].file # p
        /\ \A k \in 1..Len(batch) : batch[k].file # p =>
             \E j \in 1..Len(batch') : batch'[j] = batch[k]
        /\ Answering = {} /\ Answering' = {}
    BY <1>1, <1>2, RestOfBatch DEF p
  <1>10. ASSUME NEW i \in 0..(Count - 1), ~conns[i].Closed, i # s
         PROVE  /\ SocketOf(i) \in Peers /\ SocketOf(i) # p /\ interest[SocketOf(i)] = i
                /\ SocketOf(i)' = SocketOf(i) /\ conns'[i] = conns[i]
    <2>1. SocketOf(i) \in Peers /\ interest[SocketOf(i)] = i
      BY <1>10 DEF Intact, SlotsOpen
    <2>2. SocketOf(i) # p
      BY <1>3, <1>10, <2>1
    <2>3. i \in Slots /\ conns[i].FileDescriptor \in Fds
      BY UsedAreSlots DEF KernelInv
    <2>. QED BY <1>6, <1>8, <1>10, <2>1, <2>2, <2>3 DEF SocketOf
  <1>11. ~e.hup => SocketOf(s)' = p /\ interest'[p] = s
    BY <1>1, <1>3, <1>6, <1>8 DEF SocketOf
  <1>12. \A i \in 0..(Count - 1) : ~conns'[i].Closed => ~conns[i].Closed /\ (i = s => ~e.hup)
    BY <1>3, <1>6, <1>7, UsedAreSlots DEF KernelInv
  <1>13. SlotsOpen'
    BY <1>1, <1>2, <1>8, <1>10, <1>11, <1>12 DEF SlotsOpen
  <1>14. ASSUME NEW q \in Peers, q # p, HasFd(q)
         PROVE  /\ interest[q] \in 0..(Count - 1) /\ interest[q] # s
                /\ ~conns[interest[q]].Closed /\ SocketOf(interest[q]) = q
    BY <1>3, <1>14 DEF Intact, SlotsOwned, OwnsSlot
  <1>15. SlotsOwned'
    <2> SUFFICES ASSUME NEW q \in Peers, HasFd(q)' PROVE OwnsSlot(q)'
      BY DEF SlotsOwned
    <2>1. CASE q # p
      BY <1>2, <1>8, <1>10, <1>14, <2>1 DEF OwnsSlot
    <2>2. CASE q = p
      BY <1>1, <1>2, <1>7, <1>8, <1>11, <2>2 DEF OwnsSlot
    <2>. QED BY <2>1, <2>2
  <1>16. ASSUME NEW k \in 1..Len(batch), batch[k].file \in Peers, batch[k].file # p
         PROVE  /\ batch[k].idx \in 0..(Count - 1) /\ batch[k].idx # s
                /\ ~conns[batch[k].idx].Closed /\ SocketOf(batch[k].idx) = batch[k].file
    <2>1. ~conns[batch[k].idx].Closed /\ SocketOf(batch[k].idx) = batch[k].file
      BY <1>16 DEF Intact, EventsHit
    <2>2. batch[k] \in Events /\ batch[k].idx # ListenerIdx /\ batch[k].idx < Count
      BY <1>16, ElementOfSeq DEF KernelInv, TypeOK, BatchInv, Own
    <2>3. batch[k].idx \in 0..(Count - 1)
      BY <2>2 DEF Events, Slots, KernelInv, TypeOK
    <2>. QED BY <1>3, <1>16, <2>1, <2>3
  <1>17. EventsHit'
    <2> SUFFICES ASSUME NEW k, k \in 1..Len(batch'), batch'[k].file \in Peers
                 PROVE  /\ ~conns'[batch'[k].idx].Closed
                        /\ fds'[conns'[batch'[k].idx].FileDescriptor] = batch'[k].file
      BY DEF EventsHit, SocketOf
    <2>1. PICK j \in 1..Len(batch) : batch'[k] = batch[j] /\ batch[j].file # p
      BY <1>9
    <2>2. PICK x \in 0..(Count - 1) : x = batch[j].idx
      BY <1>16, <2>1
    <2>3. x # s /\ ~conns[x].Closed /\ SocketOf(x) = batch[j].file
      BY <1>16, <2>1, <2>2
    <2>4. conns'[x] = conns[x] /\ SocketOf(x)' = SocketOf(x)
      BY <1>10, <2>3
    <2>. QED BY <2>1, <2>2, <2>3, <2>4 DEF SocketOf
  <1>18. EventsSay'
    BY <1>2, <1>8, <1>9 DEF Intact, EventsSay, HungUp
  <1>19. InputKept'
    <2> SUFFICES ASSUME NEW q \in Peers, HasFd(q)', q \in rx'
                 PROVE  Announced(q)' \/ conns'[interest'[q]].Readable
      BY <1>9 DEF InputKept
    <2>1. CASE q # p
      <3>1. HasFd(q) /\ q \in rx /\ interest'[q] = interest[q]
            /\ conns'[interest[q]] = conns[interest[q]]
        BY <1>8, <1>10, <1>14, <2>1
      <3>2. Announced(q) \/ conns[interest[q]].Readable
        BY <3>1 DEF Intact, InputKept
      <3>. QED BY <1>8, <1>9, <2>1, <3>1, <3>2 DEF Announced
    <2>2. CASE q = p
      <3>1. ~e.hup /\ HasFd(q) /\ q \in rx /\ ready' = ready
        BY <1>8, <2>2
      <3>2. Announced(q) \/ conns[s].Readable
        BY <1>3, <2>2, <3>1 DEF Intact, InputKept
      <3>3. q \in ready \/ e.in \/ conns[s].Readable
        BY <1>1, <2>2, <3>2 DEF Announced, KernelInv, BatchInv, p
      <3>. QED BY <1>7, <1>11, <2>2, <3>1, <3>3 DEF Announced
    <2>. QED BY <2>1, <2>2
  <1>20. HangUpKept'
    <2> SUFFICES ASSUME NEW q \in Peers, HasFd(q)', HungUp(q) PROVE HangUpAnnounced(q)'
      BY <1>2 DEF HangUpKept, HungUp
    <2>1. HangUpAnnounced(q)
      BY <1>8 DEF Intact, HangUpKept
    <2>2. CASE q # p
      <3>1. CASE q \in ready
        BY <1>8, <2>2, <3>1 DEF HangUpAnnounced
      <3>2. CASE \E k \in 1..Len(batch) : batch[k].file = q /\ batch[k].hup
        <4>1. PICK k \in 1..Len(batch) : batch[k].file = q /\ batch[k].hup
          BY <3>2
        <4>2. PICK j \in 1..Len(batch') : batch'[j] = batch[k]
          BY <1>9, <2>2, <4>1
        <4>. QED BY <4>1, <4>2 DEF HangUpAnnounced
      <3>. QED BY <2>1, <3>1, <3>2 DEF HangUpAnnounced
    <2>3. CASE q = p
      <3>1. ~e.hup /\ ready' = ready
        BY <1>8, <2>3
      <3>2. q \in ready
        BY <1>1, <2>1, <2>3, <3>1 DEF HangUpAnnounced, KernelInv, BatchInv, p
      <3>. QED BY <3>1, <3>2 DEF HangUpAnnounced
    <2>. QED BY <2>2, <2>3
  <1>21. InputThere'
    <2> SUFFICES ASSUME NEW i \in 0..(Count - 1), conns'[i].Readable, ~conns'[i].Closed
                 PROVE  SocketOf(i)' \in rx' \/ HungUp(SocketOf(i))'
      BY <1>2 DEF InputThere, Todo
    <2>1. CASE i # s
      <3>1. /\ SocketOf(i) \in Peers /\ SocketOf(i) # p
            /\ SocketOf(i)' = SocketOf(i) /\ conns'[i] = conns[i] /\ ~conns[i].Closed
        BY <1>10, <1>12, <2>1
      <3>2. SocketOf(i) \in rx \/ HungUp(SocketOf(i))
        BY <1>9, <3>1 DEF Intact, InputThere, Todo
      <3>. QED BY <1>2, <1>8, <3>1, <3>2 DEF HungUp
    <2>2. CASE i = s
      <3>1. ~e.hup /\ SocketOf(s)' = p /\ rx' = rx
        BY <1>8, <1>11, <1>12, <2>2
      <3>2. CASE conns[s].Readable
        <4>1. p \in rx \/ HungUp(p)
          BY <1>1, <1>3, <1>9, <3>2 DEF Intact, InputThere, Todo
        <4>. QED BY <1>2, <2>2, <3>1, <4>1 DEF HungUp
      <3>3. CASE e.in
        <4>1. p \in rx \/ HungUp(p)
          BY <1>1, <3>3 DEF Intact, EventsSay, p
        <4>. QED BY <1>2, <2>2, <3>1, <4>1 DEF HungUp
      <3>. QED BY <1>7, <2>2, <3>2, <3>3
    <2>. QED BY <2>1, <2>2
  <1>. QED BY <1>13, <1>15, <1>17, <1>18, <1>19, <1>20, <1>21 DEF Intact

(* It stays intact when a connection is accepted into a new slot or a       *)
(* closed one, unless the slot's Id is lost.                                *)
LEMMA IntactAccept ==
  ASSUME KernelInv, KernelInv', Intact, Healthy', Accept
  PROVE  Intact'
  <1>1. /\ phase = "dispatch" /\ Head(batch).idx = ListenerIdx /\ NextEvent
        /\ peer' = peer /\ rx' = rx
    BY DEF Accept
  <1>2. PICK fd \in Fds : fd = LowestFd /\ fds[fd] = "free" /\ "free" \notin Peers
    BY LowestFree DEF Accept, Own
  <1>3. PICK p \in Peers : p = Head(backlog) /\ Queued(p) /\ ~HasFd(p)
    BY <1>1, ListenerFindsOne DEF KernelInv, OneSocket
  <1>4. fds' = [fds EXCEPT ![fd] = p]
    BY <1>2, <1>3 DEF Accept
  <1>5. PICK i \in Slots : \E id \in {0, i} : NewSlot(i, id, p, fd)
    BY <1>2, <1>3, PlaceEffect DEF Accept, KernelInv
  <1>6. PICK id \in {0, i} : NewSlot(i, id, p, fd)
    BY <1>5
  <1>7. /\ i \in Nat /\ Count \in Nat /\ Count' \in Nat /\ Count <= Count' /\ i < Count'
        /\ \A j \in Int : j < Count' /\ j # i => j < Count
        /\ i < Count => conns[i].Closed
    <2>1. i \in Nat /\ Count \in Nat
      BY DEF Slots, KernelInv, TypeOK
    <2>2. \/ i = Count /\ Count' = Count + 1
          \/ i < Count /\ Count' = Count /\ conns[i].Closed
      BY <1>6 DEF NewSlot
    <2>. QED BY <2>1, <2>2
  <1>8. \A j : j \in 0..(Count' - 1) <=> j \in Int /\ 0 <= j /\ j < Count'
    BY <1>7, Below
  <1>9. conns'[i] = Client(id, fd) /\ \A j \in Slots : j # i => conns'[j] = conns[j]
    BY <1>6 DEF NewSlot, KernelInv, TypeOK
  <1>10. id = i
    <2>1. conns'[i].Id = i
      BY <1>7, <1>8 DEF Healthy
    <2>. QED BY <1>9, <2>1 DEF Client
  <1>11. /\ \A q \in Peers : interest'[q] = IF q = p THEN i ELSE interest[q]
         /\ ready' = ready \cup {p}
    BY <1>6, <1>10 DEF NewSlot, KernelInv, TypeOK
  <1>12. /\ \A f \in Fds : f # fd => fds'[f] = fds[f]
         /\ fds'[fd] = p
         /\ \A q \in Peers : HasFd(q)' <=> HasFd(q) \/ q = p
    BY <1>2, <1>3, <1>4 DEF KernelInv, TypeOK, HasFd
  <1>13. ASSUME NEW j \in 0..(Count - 1), ~conns[j].Closed
         PROVE  /\ j # i /\ conns'[j] = conns[j] /\ SocketOf(j)' = SocketOf(j)
                /\ SocketOf(j) \in Peers /\ SocketOf(j) # p /\ interest[SocketOf(j)] = j
    <2>1. j # i /\ j \in Slots /\ conns[j].FileDescriptor \in Fds
      BY <1>7, <1>13, UsedAreSlots DEF KernelInv
    <2>2. SocketOf(j) \in Peers /\ interest[SocketOf(j)] = j
      BY <1>13 DEF Intact, SlotsOpen
    <2>3. SocketOf(j) # p
      BY <1>3, <2>2, OpenSlotHasFd DEF KernelInv
    <2>. QED BY <1>2, <1>9, <1>12, <2>1, <2>2, <2>3 DEF SocketOf
  <1>14. SocketOf(i)' = p /\ ~conns'[i].Closed /\ ~conns'[i].Readable
    BY <1>9, <1>12 DEF SocketOf, Client
  <1>15. \A j \in 0..(Count' - 1) : j = i \/ j \in 0..(Count - 1)
    <2> SUFFICES ASSUME NEW j, j \in 0..(Count' - 1) PROVE j = i \/ j \in 0..(Count - 1)
      BY Zenon
    <2>1. j \in Int /\ 0 <= j /\ j < Count'
      BY <1>8, Zenon
    <2>. QED BY <1>7, <2>1
  <1>16. \A j \in 0..(Count - 1) : j # i => conns'[j] = conns[j]
    BY <1>9, UsedAreSlots DEF KernelInv
  <1>17. SlotsOpen'
    BY <1>11, <1>13, <1>14, <1>15, <1>16 DEF SlotsOpen
  <1>18. SlotsOwned'
    <2> SUFFICES ASSUME NEW q \in Peers, HasFd(q)' PROVE OwnsSlot(q)'
      BY DEF SlotsOwned
    <2>1. CASE q = p
      BY <1>7, <1>8, <1>11, <1>14, <2>1 DEF OwnsSlot
    <2>2. CASE q # p
      <3>1. /\ interest[q] \in 0..(Count - 1) /\ ~conns[interest[q]].Closed
            /\ SocketOf(interest[q]) = q
        BY <1>12, <2>2 DEF Intact, SlotsOwned, OwnsSlot
      <3>2. PICK j \in 0..(Count - 1) : j = interest[q] /\ j = interest'[q]
        BY <1>11, <2>2, <3>1
      <3>3. ~conns'[j].Closed /\ SocketOf(j)' = q
        BY <1>13, <3>1, <3>2
      <3>4. j \in 0..(Count' - 1)
        <4>1. j \in Int /\ 0 <= j /\ j < Count'
          BY <1>7
        <4>. QED BY <1>8, <4>1, Zenon
      <3>. QED BY <3>2, <3>3, <3>4 DEF OwnsSlot, SocketOf
    <2>. QED BY <2>1, <2>2
  <1>19. /\ \A k \in 1..Len(batch') : \E j \in 1..Len(batch) : batch'[k] = batch[j]
         /\ \A k \in 1..Len(batch) : batch[k].file \in Peers =>
              \E j \in 1..Len(batch') : batch'[j] = batch[k]
         /\ Answering = {} /\ Answering' = {}
    <2>1. batch[1].file \notin Peers
      BY <1>1, NextEventEffect DEF KernelInv, BatchInv, Own
    <2>. QED BY <1>1, <2>1, RestOfBatch DEF KernelInv
  <1>20. EventsHit'
    <2> SUFFICES ASSUME NEW k, k \in 1..Len(batch'), batch'[k].file \in Peers
                 PROVE  /\ ~conns'[batch'[k].idx].Closed
                        /\ fds'[conns'[batch'[k].idx].FileDescriptor] = batch'[k].file
      BY DEF EventsHit, SocketOf
    <2>1. PICK j \in 1..Len(batch) : batch'[k] = batch[j]
      BY <1>19
    <2>2. ~conns[batch[j].idx].Closed /\ SocketOf(batch[j].idx) = batch[j].file
      BY <2>1 DEF Intact, EventsHit
    <2>3. batch[j] \in Events /\ batch[j].idx # ListenerIdx /\ batch[j].idx < Count
      BY <2>1, ElementOfSeq DEF KernelInv, TypeOK, BatchInv, Own
    <2>4. PICK x \in 0..(Count - 1) : x = batch[j].idx
      BY <2>3 DEF Events, Slots, KernelInv, TypeOK
    <2>5. conns'[x] = conns[x] /\ SocketOf(x)' = SocketOf(x)
      BY <1>13, <2>2, <2>4
    <2>. QED BY <2>1, <2>2, <2>4, <2>5 DEF SocketOf
  <1>21. EventsSay'
    BY <1>1, <1>19 DEF Intact, EventsSay, HungUp
  <1>22. InputKept'
    <2> SUFFICES ASSUME NEW q \in Peers, HasFd(q)', q \in rx
                 PROVE  Announced(q)' \/ conns'[interest'[q]].Readable
      BY <1>1, <1>19 DEF InputKept
    <2>1. CASE q = p
      BY <1>11, <2>1 DEF Announced
    <2>2. CASE q # p
      <3>1. /\ interest[q] \in 0..(Count - 1) /\ ~conns[interest[q]].Closed
            /\ interest'[q] = interest[q]
        BY <1>11, <1>12, <2>2 DEF Intact, SlotsOwned, OwnsSlot
      <3>2. Announced(q) \/ conns[interest[q]].Readable
        BY <1>12, <2>2 DEF Intact, InputKept
      <3>3. conns'[interest[q]] = conns[interest[q]]
        BY <1>13, <3>1
      <3>. QED BY <1>11, <1>19, <3>1, <3>2, <3>3 DEF Announced
    <2>. QED BY <2>1, <2>2
  <1>23. HangUpKept'
    <2> SUFFICES ASSUME NEW q \in Peers, HasFd(q)', HungUp(q) PROVE HangUpAnnounced(q)'
      BY <1>1 DEF HangUpKept, HungUp
    <2>1. CASE q = p
      BY <1>11, <2>1 DEF HangUpAnnounced
    <2>2. CASE q # p
      BY <1>11, <1>12, <1>19, <2>2 DEF Intact, HangUpKept, HangUpAnnounced
    <2>. QED BY <2>1, <2>2
  <1>24. InputThere'
    <2> SUFFICES ASSUME NEW j, j \in 0..(Count' - 1), conns'[j].Readable, ~conns'[j].Closed
                 PROVE  (SocketOf(j) \in rx \/ HungUp(SocketOf(j)))'
      BY DEF InputThere, Todo
    <2>1. j # i /\ j \in 0..(Count - 1)
      BY <1>14, <1>15
    <2>2. conns'[j] = conns[j] /\ ~conns[j].Closed /\ conns[j].Readable
      BY <1>16, <2>1
    <2>3. SocketOf(j) \in rx \/ HungUp(SocketOf(j))
      BY <1>19, <2>1, <2>2 DEF Intact, InputThere, Todo
    <2>. QED BY <1>1, <1>13, <2>1, <2>2, <2>3 DEF HungUp
  <1>. QED BY <1>17, <1>18, <1>20, <1>21, <1>22, <1>23, <1>24 DEF Intact

(* It stays intact when a connection is refused or accept fails.            *)
LEMMA IntactTurnedAway ==
  ASSUME KernelInv, Intact, Refuse \/ AcceptFails
  PROVE  Intact'
  <1>1. /\ phase = "dispatch" /\ Head(batch).idx = ListenerIdx /\ NextEvent
        /\ UNCHANGED <<peer, fds, interest, ready, conns, Count>>
    BY DEF Refuse, AcceptFails, kernelVars, tableVars
  <1>2. \A q \in Peers : HasFd(q) => (q \in rx' <=> q \in rx)
    BY <1>1, ListenerFindsOne DEF Refuse, AcceptFails, kernelVars, KernelInv, OneSocket
  <1>3. /\ \A k \in 1..Len(batch') : \E j \in 1..Len(batch) : batch'[k] = batch[j]
        /\ \A k \in 1..Len(batch) : batch[k].file \in Peers =>
             \E j \in 1..Len(batch') : batch'[j] = batch[k]
        /\ Answering = {} /\ Answering' = {}
    <2>1. batch[1].file \notin Peers
      BY <1>1, NextEventEffect DEF KernelInv, BatchInv, Own
    <2>. QED BY <1>1, <2>1, RestOfBatch DEF KernelInv
  <1>4. SlotsOpen' /\ SlotsOwned'
    BY <1>1 DEF Intact, SlotsOpen, SlotsOwned, OwnsSlot, SocketOf, HasFd
  <1>5. EventsHit'
    BY <1>1, <1>3 DEF Intact, EventsHit, SocketOf
  <1>6. EventsSay'
    <2>1. \A k \in 1..Len(batch) : batch[k].file \in Peers => HasFd(batch[k].file)
      <3> SUFFICES ASSUME NEW k \in 1..Len(batch), batch[k].file \in Peers
                   PROVE  HasFd(batch[k].file)
        OBVIOUS
      <3>1. batch[k] \in Events /\ batch[k].idx # ListenerIdx /\ batch[k].idx < Count
        BY ElementOfSeq DEF KernelInv, TypeOK, BatchInv, Own
      <3>2. batch[k].idx \in 0..(Count - 1)
        BY <3>1 DEF Events, Slots, KernelInv, TypeOK
      <3>. QED BY <3>2, OpenSlotHasFd DEF Intact, EventsHit, KernelInv
    <2>. QED BY <1>1, <1>2, <1>3, <2>1 DEF Intact, EventsSay, HungUp
  <1>7. InputKept' /\ HangUpKept'
    BY <1>1, <1>2, <1>3 DEF Intact, InputKept, HangUpKept, HangUpAnnounced, Announced,
       HasFd, HungUp
  <1>8. InputThere'
    <2>1. \A i \in Todo : SocketOf(i) \in Peers /\ HasFd(SocketOf(i))
      BY OpenSlotHasFd DEF Todo, KernelInv, Intact, SlotsOpen
    <2>. QED BY <1>1, <1>2, <1>3, <2>1 DEF Intact, InputThere, Todo, SocketOf, HungUp
  <1>. QED BY <1>4, <1>5, <1>6, <1>7, <1>8 DEF Intact

(* ProcessEvents: a step that only ends the work on the current slot.       *)
LEMMA IntactWorkDone ==
  ASSUME KernelInv, Intact, Todo # {}, Served, phase # "dispatch",
         Working, UNCHANGED <<peer, kernelVars, Count, batch>>
  PROVE  Intact'
  <1>1. PICK c \in 0..(Count - 1) : c = Current /\ c \in Slots /\ conns[c].Readable /\ ~conns[c].Closed
    BY CurrentIsOpen DEF KernelInv
  <1>2. /\ conns' = [conns EXCEPT ![c].Readable = FALSE]
        /\ Answering = {c} /\ Answering' = {} /\ batch = <<>> /\ batch' = <<>>
        /\ UNCHANGED <<peer, fds, interest, ready, rx, Count>>
    BY <1>1 DEF Served, Answering, Working, kernelVars, KernelInv, BatchInv
  <1>3. \A i \in Slots : /\ conns'[i].FileDescriptor = conns[i].FileDescriptor
                         /\ conns'[i].Closed = conns[i].Closed
                         /\ i # c => conns'[i] = conns[i]
    BY <1>1, <1>2 DEF KernelInv, TypeOK, Connections
  <1>4. conns'[c].Readable = FALSE
    BY <1>1, <1>2 DEF KernelInv, TypeOK, Connections
  <1>5. \A i \in 0..(Count - 1) : SocketOf(i)' = SocketOf(i) /\ conns'[i].Closed = conns[i].Closed
    BY <1>2, <1>3, UsedAreSlots DEF SocketOf, KernelInv
  <1>6. SlotsOpen'
    BY <1>2, <1>5 DEF Intact, SlotsOpen, SocketOf
  <1>7. SlotsOwned'
    BY <1>2, <1>5 DEF Intact, SlotsOwned, OwnsSlot, HasFd, SocketOf
  <1>8. EventsHit' /\ EventsSay'
    BY <1>2 DEF EventsHit, EventsSay
  <1>9. InputKept'
    <2> SUFFICES ASSUME NEW q \in Peers, HasFd(q), q \in rx
                 PROVE  Announced(q)' \/ conns'[interest[q]].Readable
      BY <1>2 DEF InputKept, HasFd
    <2>1. Announced(q) \/ (interest[q] # c /\ conns[interest[q]].Readable)
      BY <1>2 DEF Intact, InputKept
    <2>2. interest[q] \in 0..(Count - 1)
      BY DEF Intact, SlotsOwned, OwnsSlot
    <2>. QED BY <1>2, <1>3, <2>1, <2>2, UsedAreSlots DEF Announced, KernelInv
  <1>10. HangUpKept'
    BY <1>2 DEF Intact, HangUpKept, HangUpAnnounced, HasFd, HungUp
  <1>11. InputThere'
    <2> SUFFICES ASSUME NEW i \in 0..(Count - 1), conns'[i].Readable, ~conns'[i].Closed
                 PROVE  (SocketOf(i) \in rx \/ HungUp(SocketOf(i)))'
      BY <1>2 DEF InputThere, Todo
    <2>1. i # c /\ i \in Slots
      BY <1>4, UsedAreSlots DEF KernelInv
    <2>2. conns'[i] = conns[i]
      BY <1>3, <2>1
    <2>3. SocketOf(i) \in rx \/ HungUp(SocketOf(i))
      BY <1>2, <2>1, <2>2 DEF Intact, InputThere, Todo
    <2>. QED BY <1>2, <1>5, <2>3 DEF HungUp
  <1>. QED BY <1>6, <1>7, <1>8, <1>9, <1>10, <1>11 DEF Intact

(* Reading a connection to EAGAIN empties its own socket.                   *)
LEMMA IntactServe ==
  ASSUME KernelInv, Intact, Serve
  PROVE  Intact'
  <1>1. PICK c \in 0..(Count - 1) : c = Current /\ ~conns[c].Closed /\ SocketOf(c) = Socket
    BY CurrentIsOpen DEF Serve, KernelInv, Socket, SocketOf
  <1>2. /\ UNCHANGED <<peer, fds, interest, ready, conns, Count>>
        /\ rx' = rx \ {SocketOf(c)} /\ batch = <<>> /\ batch' = <<>>
        /\ Todo' = Todo /\ Answering = {} /\ Answering' = {c}
    BY <1>1 DEF Serve, Drained, tableVars, KernelInv, BatchInv, Answering, Current, Todo
  <1>3. SlotsOpen' /\ SlotsOwned' /\ EventsHit' /\ EventsSay'
    BY <1>2 DEF Intact, SlotsOpen, SlotsOwned, OwnsSlot, SocketOf, HasFd, EventsHit, EventsSay
  <1>4. InputKept'
    <2> SUFFICES ASSUME NEW q \in Peers, HasFd(q), q \in rx, q # SocketOf(c)
                 PROVE  Announced(q)' \/ (interest[q] # c /\ conns[interest[q]].Readable)
      BY <1>2 DEF InputKept, HasFd
    <2>1. interest[q] # c
      BY DEF Intact, SlotsOwned, OwnsSlot
    <2>. QED BY <1>2, <2>1 DEF Intact, InputKept, Announced
  <1>5. HangUpKept'
    BY <1>2 DEF Intact, HangUpKept, HangUpAnnounced, HasFd, HungUp
  <1>6. InputThere'
    <2> SUFFICES ASSUME NEW i \in Todo, i # c
                 PROVE  SocketOf(i) \in rx \ {SocketOf(c)} \/ HungUp(SocketOf(i))
      BY <1>2 DEF InputThere, SocketOf, HungUp
    <2>1. SocketOf(i) # SocketOf(c)
      BY <1>1 DEF Todo, Intact, SlotsOpen
    <2>. QED BY <1>2, <2>1 DEF Intact, InputThere
  <1>. QED BY <1>3, <1>4, <1>5, <1>6 DEF Intact

(* It stays intact when the worker opens a file.                            *)
LEMMA IntactOpenFile ==
  ASSUME KernelInv, Intact, OpenFile
  PROVE  Intact'
  <1>1. /\ fds' = [fds EXCEPT ![LowestFd] = "file"] /\ phase = "respond" /\ phase' = "opened"
        /\ UNCHANGED <<peer, interest, ready, rx, conns, Count, batch>>
    BY DEF OpenFile, tableVars
  <1>2. LowestFd \in Fds /\ fds[LowestFd] = "free" /\ "free" \notin Peers /\ "file" \notin Peers
    BY LowestFree DEF OpenFile, Own
  <1>3. Todo' = Todo /\ Answering' = Answering /\ batch = <<>>
    BY <1>1 DEF Todo, Answering, Current, KernelInv, BatchInv
  <1>4. \A f \in Fds : fds[f] # "free" => fds'[f] = fds[f]
    BY <1>1, <1>2 DEF KernelInv, TypeOK
  <1>5. \A i \in 0..(Count - 1) : ~conns[i].Closed =>
          SocketOf(i) \in Peers /\ SocketOf(i)' = SocketOf(i)
    <2>1. \A i \in 0..(Count - 1) : ~conns[i].Closed => fds[conns[i].FileDescriptor] # "free"
      BY <1>2 DEF Intact, SlotsOpen, SocketOf
    <2>. QED BY <1>1, <1>4, <2>1, UsedAreSlots DEF Intact, SlotsOpen, SocketOf, KernelInv
  <1>6. \A q \in Peers : HasFd(q)' <=> HasFd(q)
    BY <1>1, <1>2 DEF KernelInv, TypeOK, HasFd
  <1>7. SlotsOpen'
    BY <1>1, <1>5 DEF Intact, SlotsOpen
  <1>8. SlotsOwned'
    BY <1>1, <1>5, <1>6 DEF Intact, SlotsOwned, OwnsSlot
  <1>9. EventsHit' /\ EventsSay'
    BY <1>1, <1>3 DEF EventsHit, EventsSay
  <1>10. InputKept' /\ HangUpKept'
    BY <1>1, <1>3, <1>6 DEF Intact, InputKept, HangUpKept, Announced, HangUpAnnounced, HungUp
  <1>11. InputThere'
    BY <1>1, <1>3, <1>5 DEF Intact, InputThere, Todo, HungUp
  <1>. QED BY <1>7, <1>8, <1>9, <1>10, <1>11 DEF Intact

(* The process ends, or main goes back to epoll_wait.                       *)
LEMMA IntactStops ==
  ASSUME KernelInv, Intact, Killed \/ ProcessDone
  PROVE  Intact'
  <1>1. /\ UNCHANGED <<peer, fds, interest, ready, rx, conns, Count, batch>>
        /\ batch = <<>> /\ phase' \in {"dead", "wait"}
    BY DEF Killed, ProcessDone, kernelVars, tableVars, KernelInv, BatchInv
  <1>2. Answering' = {} /\ Todo' = Todo
    BY <1>1 DEF Answering, Todo
  <1>3. SlotsOpen' /\ SlotsOwned' /\ EventsHit' /\ EventsSay'
    BY <1>1 DEF Intact, SlotsOpen, SlotsOwned, OwnsSlot, SocketOf, HasFd, EventsHit, EventsSay
  <1>4. InputKept' /\ HangUpKept'
    BY <1>1, <1>2 DEF Intact, InputKept, HangUpKept, Announced, HangUpAnnounced, HasFd, HungUp
  <1>5. InputThere'
    <2>1. Answering # {} => Answering = {Current} /\ HungUp(SocketOf(Current))
      BY DEF Killed, ProcessDone, Answering, Socket, SocketOf, HungUp
    <2>. QED BY <1>1, <1>2, <2>1 DEF Intact, InputThere, SocketOf, HungUp
  <1>. QED BY <1>3, <1>4, <1>5 DEF Intact

(* It stays intact when the worker sends its response or file.              *)
LEMMA IntactRespond ==
  ASSUME KernelInv, Intact, Respond \/ SendfileEnds
  PROVE  Intact'
  <1>1. /\ Working /\ Todo # {} /\ phase # "dispatch"
        /\ UNCHANGED <<peer, kernelVars, Count, batch>>
    BY DEF Respond, SendfileEnds, Working, KernelInv
  <1>2. CASE Served
    BY <1>1, <1>2, IntactWorkDone
  <1>3. CASE phase = "opened" /\ phase' = "sendfile" /\ UNCHANGED conns
    <2>1. UNCHANGED <<peer, fds, interest, ready, rx, conns, Count, batch>>
      BY <1>1, <1>3 DEF kernelVars
    <2>2. Todo' = Todo /\ Answering' = Answering
      BY <1>3, <2>1 DEF Todo, Answering, Current
    <2>. QED BY <2>1, <2>2
         DEF Intact, SlotsOpen, SlotsOwned, OwnsSlot, SocketOf, HasFd, EventsHit, EventsSay,
             InputKept, HangUpKept, Announced, HangUpAnnounced, HungUp, InputThere
  <1>. QED BY <1>2, <1>3 DEF Respond, SendfileEnds

(* The label cleanup closes descriptor 1: the first time, that is stdout.   *)
LEMMA CleanupIsUnhealthy ==
  ASSUME KernelInv, Healthy, Cleanup
  PROVE  ~Healthy'
  <1>1. fds[CleanupFd] = "std" /\ CleanupFd \in Fds /\ CleanupFd = 1
    BY DEF Healthy, CleanupFd, Fds
  <1>2. fds' = [fds EXCEPT ![CleanupFd] = "free"]
    BY <1>1 DEF Cleanup, CloseInCleanup, Release
  <1>. QED BY <1>1, <1>2 DEF Healthy, KernelInv, TypeOK

(* The table is intact at the start.                                        *)
LEMMA IntactInit == Init => IntactInv
  BY KernelInit DEF Init, IntactInv, Intact, SlotsOpen, SlotsOwned, HasFd, Fds, Own, EventsHit,
     EventsSay, InputKept, HangUpKept, InputThere, Todo

(* Every step keeps it intact or makes it unhealthy for good.               *)
LEMMA IntactNext == IntactInv /\ [Next]_vars => IntactInv'
  <1> SUFFICES ASSUME IntactInv, [Next]_vars PROVE IntactInv'
    OBVIOUS
  <1>1. KernelInv /\ KernelInv'
    BY KernelNext DEF IntactInv
  <1> SUFFICES ASSUME Healthy' PROVE Intact'
    BY <1>1 DEF IntactInv
  <1>2. Healthy /\ Intact
    BY <1>1, HealthStays DEF IntactInv
  <1>3. CASE UNCHANGED vars
    <2>1. UNCHANGED <<peer, fds, interest, ready, rx, conns, Count, phase, batch>>
      BY <1>3 DEF vars, kernelVars, tableVars
    <2>2. Todo' = Todo /\ Answering' = Answering
      BY <2>1 DEF Todo, Answering, Current
    <2>. QED BY <1>2, <2>1, <2>2
         DEF Intact, SlotsOpen, SlotsOwned, OwnsSlot, SocketOf, HasFd, EventsHit, EventsSay,
             InputKept, HangUpKept, Announced, HangUpAnnounced, HungUp, InputThere
  <1>4. CASE ServerStep
    BY <1>1, <1>2, <1>4, IntactWait, IntactHandle, IntactAccept, IntactTurnedAway, IntactServe,
       IntactOpenFile, IntactRespond, IntactStops, CleanupIsUnhealthy DEF ServerStep
  <1>5. CASE SendfileEnds
    BY <1>1, <1>2, <1>5, IntactRespond
  <1>6. ASSUME NEW p \in Peers, PeerStep(p) PROVE Intact'
    BY <1>1, <1>2, <1>6, IntactClient
  <1>. QED BY <1>3, <1>4, <1>5, <1>6 DEF Next

(* While it is healthy the table is intact.                                 *)
LEMMA IntactAlways == Spec => []IntactInv
  BY IntactInit, IntactNext, PTL DEF Spec

(* SlotsMatchDescriptors: TcpServer->Connections, the descriptor table and  *)
(* epoll's data agree after every close, reuse and accept.                  *)
THEOREM TableMatches == Spec => []SlotsMatchDescriptors
  <1>1. IntactInv => SlotsMatchDescriptors
    BY IntactSuffices
  <1>. QED BY <1>1, IntactAlways, PTL

(* EventsHitTheirConnection: a slot closed and reused while main works      *)
(* through Epoll->Events never takes an event of its earlier connection.    *)
THEOREM NoStaleEvent == Spec => []EventsHitTheirConnection
  <1>1. IntactInv => EventsHitTheirConnection
    BY IntactSuffices
  <1>. QED BY <1>1, IntactAlways, PTL

(* NoEdgeLost: with edge-triggered sockets, unread input and hang-ups stay  *)
(* announced until the worker reads them or the loop closes the connection. *)
THEOREM EdgesKept == Spec => []NoEdgeLost
  <1>1. IntactInv => NoEdgeLost
    BY IntactSuffices
  <1>. QED BY <1>1, IntactAlways, PTL

(* ReadableMeansInput: EpollHttpWorker is not started on a live connection  *)
(* that has nothing to read, which it would take for a dead one.            *)
THEOREM WorkHasInput == Spec => []ReadableMeansInput
  <1>1. IntactInv => ReadableMeansInput
    BY IntactSuffices
  <1>. QED BY <1>1, IntactAlways, PTL

(* ClosesHungUpWhileHealthy: the loop's close in the dispatch of a batch    *)
(* hits no connection whose client is still there.                          *)
THEOREM LoopClosesHungUp == Spec => ClosesHungUpWhileHealthy
  <1>1. ASSUME IntactInv, [Next]_vars, NEW p \in Peers,
               Healthy, phase = "dispatch", HasFd(p), ~HasFd(p)'
        PROVE  HungUp(p)
    <2>1. KernelInv /\ Intact
      BY <1>1 DEF IntactInv
    <2>2. fds' # fds
      BY <1>1 DEF HasFd
    <2>3. CASE HandleEvent
      <3>1. /\ Head(batch) = batch[1] /\ 1 \in 1..Len(batch) /\ Head(batch).file \in Peers
            /\ Head(batch).idx \in 0..(Count - 1)
        BY <2>1, <2>3, EventNamesSlot DEF KernelInv, HandleEvent
      <3>2. SocketOf(Head(batch).idx) = Head(batch).file
        BY <2>1, <3>1 DEF Intact, EventsHit
      <3>3. Head(batch).hup /\ Release(conns[Head(batch).idx].FileDescriptor)
        BY <2>2, <2>3 DEF HandleEvent, Close
      <3>4. conns[Head(batch).idx].FileDescriptor \in Fds
        BY <2>1, <3>1, UsedAreSlots DEF KernelInv
      <3>5. p = Head(batch).file
        BY <1>1, <2>1, <3>2, <3>3, <3>4, ReleaseEffect DEF KernelInv, SocketOf
      <3>. QED BY <2>1, <3>1, <3>3, <3>5 DEF Intact, EventsSay
    <2>4. CASE Accept
      <3>1. LowestFd \in Fds /\ fds[LowestFd] = "free" /\ "free" \notin Peers
        BY <2>4, LowestFree DEF Accept, Own
      <3>. QED BY <1>1, <2>1, <2>4, <3>1 DEF Accept, HasFd, KernelInv, TypeOK
    <2>5. HandleEvent \/ Accept
      BY <1>1, <2>2
         DEF Next, ServerStep, PeerStep, vars, kernelVars, EpollWait, Refuse, AcceptFails,
             Serve, OpenFile, Respond, Killed, Cleanup, ProcessDone, SendfileEnds, Connect,
             Send, HangUp, Leave
    <2>. QED BY <2>3, <2>4, <2>5
  <1>2. IntactInv /\ [Next]_vars =>
          [\A p \in Peers : Healthy /\ phase = "dispatch" /\ HasFd(p) /\ ~HasFd(p)'
             => HungUp(p)]_vars
    BY <1>1
  <1>. QED BY <1>2, IntactAlways, PTL DEF Spec, ClosesHungUpWhileHealthy
=============================================================================

----------------------------- MODULE HttpWorker -----------------------------
(***************************************************************************)
(* EpollHttpWorker of main.c on one connection, with the client sending,    *)
(* shutting down and resetting between any two of its system calls.         *)
(*                                                                          *)
(* The byte stream is a sequence of pieces: the first part of a request's   *)
(* head, the rest of it up to "\r\n\r\n", and its body.  VHttpRequest_Parse *)
(* is reduced to its answer: a well-formed head alone is accepted, anything *)
(* else is not.  What is unread fits in the 4092 bytes of one MSG_PEEK, and *)
(* bodies hold no line ends.                                                *)
(*                                                                          *)
(* The comparison that looks for the end of a head goes on behind           *)
(* StringPool's Length, where older heads of the run have left their bytes. *)
(* When those complete a head that has only begun to arrive, the stream is  *)
(* torn: from there on its pieces do not say what heads the worker finds,   *)
(* the model lets it find any, and what it answers is not kept.             *)
(*                                                                          *)
(* Responses are built in ResponseMalloced, a buffer all connections share, *)
(* and are as long as strlen finds them.  Of its bytes the model keeps      *)
(* which are not NUL, in units: a status line with headers is one, a body   *)
(* in the same buffer another.                                              *)
(***************************************************************************)
EXTENDS Integers, Sequences, FiniteSets

CONSTANTS Scripts,      \* what a client may send: sequences of requests
          Manners,      \* how a client may behave: sets of the two below
          MaxRequests,  \* bound: the length of a script
          MaxBefore     \* bound: the responses, of any connections, before

(* "serial": it waits for an answer before its next request.  "whole": each *)
(* request reaches the socket in one piece.                                 *)
AllManners == {"serial", "whole"}

(* A request: is its head well-formed, has it a body, and what is there     *)
(* under its path: a file answered from memory, one answered with sendfile, *)
(* a directory whose name asks for sendfile, or nothing.                    *)
Targets == {"text", "media", "mediaDir", "missing"}
Request == [valid : BOOLEAN, body : BOOLEAN, target : Targets]

MaxTries == 5  \* peeks that may find no end of head

ASSUME BoundsAssumption  == MaxRequests \in Nat /\ MaxBefore \in Nat
ASSUME ScriptsAssumption == \A s \in Scripts : s \in Seq(Request) /\ Len(s) <= MaxRequests
ASSUME MannersAssumption == Manners \subseteq SUBSET AllManners

VARIABLES
  script,      \* the requests of this client
  manner,      \* how it behaves
  unsent,      \* the pieces the client has still to send
  peer,        \* up, fin or rst
  torn,        \* the end of a head was found in old bytes behind Length
  rx,          \* the pieces in the socket's receive buffer
  edge,        \* epoll has something new to report about the socket
  pc,          \* where the worker is
  tries,       \* Tries
  length,      \* StringPool->Length, in pieces
  size,        \* RequestSize, in pieces
  url,         \* the requests whose paths make up Request.Url
  resp,        \* the response in ResponseMalloced
  answers,     \* the responses sent while the stream was not torn
  closed,      \* Conn->Closed
  dead         \* the process was killed by SIGPIPE

clientVars == <<script, manner, unsent, peer, torn>>
localVars  == <<tries, length, size, url, resp>>
vars == <<clientVars, rx, edge, pc, localVars, answers, closed, dead>>

Piece(i, part) == [req |-> i, part |-> part]
PiecesOf(r, i) == <<Piece(i, "head"), Piece(i, "end")>>
                    \o (IF r.body THEN <<Piece(i, "body")>> ELSE <<>>)

-----------------------------------------------------------------------------
(* The client.                                                              *)

(* A serial client starts request i once it has i - 1 complete answers.     *)
MayStart(i) ==
  "serial" \in manner => /\ Len(answers) = i - 1 /\ pc # "sendfile"
                         /\ \A k \in 1..Len(answers) : ~answers[k].cut

Arrive(n) ==
  /\ rx' = rx \o SubSeq(unsent, 1, n)
  /\ unsent' = SubSeq(unsent, n + 1, Len(unsent))
  /\ edge' = TRUE

Send ==
  /\ peer = "up" /\ unsent # <<>>
  /\ Head(unsent).part = "head" => MayStart(Head(unsent).req)
  /\ IF "whole" \in manner
     THEN LET i == Head(unsent).req IN Arrive(Len(PiecesOf(script[i], i)))
     ELSE Arrive(1)
  /\ UNCHANGED <<script, manner, peer, torn, pc, localVars, answers, closed, dead>>

HangUp(how) ==
  /\ peer \in (IF how = "rst" THEN {"up", "fin"} ELSE {"up"})
  /\ peer' = how
  /\ edge' = TRUE
  /\ UNCHANGED <<script, manner, unsent, torn, rx, pc, localVars, answers, closed, dead>>

-----------------------------------------------------------------------------
(* The worker.                                                              *)

Running(at) == pc = at /\ ~dead

(* Variant of OutOfTries: the count is looked at before it is increased.    *)
OutOfTries_Late == tries = MaxTries
OutOfTries == tries + 1 = MaxTries

(* Variant of Start: Request is not a local that starts empty.              *)
Start_KeepsUrl ==
  /\ Running("idle") /\ edge /\ ~closed
  /\ rx # <<>> /\ peer = "up"
  /\ edge' = FALSE
  /\ pc' = "peek"
  /\ tries' = 0 /\ length' = 0 /\ size' = 0
  /\ UNCHANGED <<clientVars, rx, url, resp, answers, closed, dead>>

(* The event loop runs the worker on an open slot that epoll reported       *)
(* readable; epoll drops a notification whose input has been read since.    *)
Start ==
  /\ Running("idle") /\ edge /\ ~closed
  /\ rx # <<>> /\ peer = "up"
  /\ edge' = FALSE
  /\ pc' = "peek"
  /\ tries' = 0 /\ length' = 0 /\ size' = 0 /\ url' = <<>>
  /\ UNCHANGED <<clientVars, rx, resp, answers, closed, dead>>

(* An event that tells of a hang-up: the loop closes the connection and     *)
(* runs no worker, whatever is still unread.                                *)
HangUpCloses ==
  /\ Running("idle") /\ edge /\ ~closed
  /\ peer # "up"
  /\ edge' = FALSE /\ rx' = <<>> /\ closed' = TRUE
  /\ UNCHANGED <<clientVars, pc, localVars, answers, dead>>

(* cleanup: close(Conn->Closed) leaves this connection's descriptor open.   *)
Cleanup ==
  /\ pc' = "idle" /\ closed' = TRUE
  /\ UNCHANGED <<clientVars, edge, localVars, dead>>

Killed ==
  /\ dead' = TRUE
  /\ UNCHANGED <<clientVars, edge, pc, localVars, answers, closed>>

Answer(status, cut) ==
  answers' = IF torn THEN answers
             ELSE Append(answers, [status |-> status, url |-> url, cut |-> cut])

(* 400, sent once with MSG_NOSIGNAL, and cleanup.                           *)
Reject == Cleanup /\ Answer(400, FALSE)

(* recv(MSG_PEEK) fails: the peer reset the connection, or shut it down and *)
(* everything was read.  After a reset recv may still return what came      *)
(* before it.                                                               *)
PeekEnds ==
  /\ Running("peek")
  /\ peer = "rst" \/ (peer = "fin" /\ rx = <<>>)
  /\ Cleanup
  /\ UNCHANGED <<rx, answers>>

(* Variant of PeekEagain: EAGAIN taken for the end of the connection.       *)
PeekEagain_Quits ==
  /\ Running("peek")
  /\ peer = "up" /\ rx = <<>>
  /\ UNCHANGED <<rx, answers>>
  /\ Cleanup

(* EAGAIN leaves the loop; if nothing was ever read, for cleanup.           *)
PeekEagain ==
  /\ Running("peek")
  /\ peer = "up" /\ rx = <<>>
  /\ UNCHANGED <<rx, answers>>
  /\ IF length = 0
     THEN Cleanup
     ELSE pc' = "respond" /\ UNCHANGED <<clientVars, edge, localVars, closed, dead>>

HeadEnds(s) == {k \in 1..Len(s) : s[k].part = "end"}

(* VString_FindSubstring, within Length: the place just behind the first    *)
(* "\r\n\r\n".                                                              *)
FindHeadEnd(s) == CHOOSE k \in HeadEnds(s) : \A j \in HeadEnds(s) : k <= j

(* Variant of RequestSize: without the four bytes that were searched for.   *)
RequestSize_NoBlankLine(s) == FindHeadEnd(s) - 1
RequestSize(s) == FindHeadEnd(s)

PeekHead ==
  /\ Running("peek") /\ ~torn
  /\ HeadEnds(rx) # {}
  /\ length' = Len(rx)
  /\ size' = RequestSize(rx)
  /\ pc' = "discard"
  /\ UNCHANGED <<clientVars, rx, edge, tries, url, resp, answers, closed, dead>>

(* No end within Length, but heads of this run behind it; and a head whose  *)
(* last bytes up to Length may be the first ones of "\r\n\r\n".             *)
OldBytesFit == HeadEnds(rx) = {} /\ url # <<>> /\ rx[Len(rx)].part = "head"

(* VString_FindSubstring runs on behind Length.                             *)
PeekOldBytes ==
  /\ Running("peek") /\ rx # <<>>
  /\ torn \/ OldBytesFit
  /\ torn' = TRUE
  /\ length' = Len(rx)
  /\ size' \in (IF torn THEN 1..Len(rx) ELSE {}) \cup {Len(rx) + 1}
  /\ pc' = "discard"
  /\ UNCHANGED <<script, manner, unsent, peer, rx, edge, tries, url, resp, answers, closed,
                 dead>>

(* No end of head in the buffer: peek again at once, 400 the fifth time.    *)
PeekPartial ==
  /\ Running("peek")
  /\ rx # <<>> /\ (torn \/ HeadEnds(rx) = {})
  /\ UNCHANGED rx
  /\ IF OutOfTries
     THEN Reject
     ELSE /\ tries' = tries + 1 /\ length' = Len(rx) /\ size' = 0
          /\ UNCHANGED <<clientVars, edge, pc, url, resp, answers, closed, dead>>

(* VHttpRequest_Parse's verdict: it splits the whole peeked buffer, and     *)
(* goes by what comes before the first end of head.                         *)
ParseOk(s) ==
  /\ s[1].part = "head"
  /\ FindHeadEnd(s) = 2
  /\ script[s[1].req].valid

(* Variant of Discard: respond at once, without reading on to EAGAIN.       *)
Discard_OneRequest ==
  /\ Running("discard") /\ ~torn
  /\ rx' = SubSeq(rx, size + 1, Len(rx))
  /\ IF ParseOk(rx)
     THEN /\ url' = <<rx[1].req>> \o url
          /\ pc' = "respond"
          /\ UNCHANGED <<clientVars, edge, tries, length, size, resp, answers, closed, dead>>
     ELSE Reject

(* recv of the head, then the parse.  A parsed path is written in front of  *)
(* those already in Request.Url.  Request.ContentLength is 0 for every      *)
(* request, so a body stays in the socket.                                  *)
Discard ==
  /\ Running("discard") /\ ~torn
  /\ rx' = SubSeq(rx, size + 1, Len(rx))
  /\ IF ParseOk(rx)
     THEN /\ url' = <<rx[1].req>> \o url
          /\ pc' = "peek"
          /\ UNCHANGED <<clientVars, edge, tries, length, size, resp, answers, closed, dead>>
     ELSE Reject

(* The same on a torn stream: of the last piece perhaps a part is left in   *)
(* the socket, and whatever was taken may be parsed as a head, rejected, or *)
(* have no colon where the parser needs one.  Whose paths Request.Url then  *)
(* holds is not kept either.                                                *)
DiscardTorn ==
  /\ Running("discard") /\ torn
  /\ \E n \in {size - 1, size} \cap 0..Len(rx) : rx' = SubSeq(rx, n + 1, Len(rx))
  /\ \/ /\ pc' = "peek"
        /\ UNCHANGED <<clientVars, edge, localVars, answers, closed, dead>>
     \/ Reject
     \/ Killed

DiscardFails ==
  /\ Running("discard") /\ peer = "rst"
  /\ Cleanup
  /\ UNCHANGED <<rx, answers>>

(* Two ends of head in the peeked buffer: VString_SplitBySubstring fills    *)
(* both elements of Split and writes the rest behind them.  The write goes  *)
(* unnoticed (Discard) or hits a guard of the stack.                        *)
ParseOverruns ==
  /\ Running("discard") /\ ~torn
  /\ Cardinality(HeadEnds(SubSeq(rx, 1, length))) = 2
  /\ rx' = SubSeq(rx, size + 1, Len(rx))
  /\ Killed

(* What is at FilePath; several paths run together lead anywhere, and so    *)
(* may what is parsed of a torn stream.                                     *)
TargetsOfUrl == IF Len(url) = 1 /\ ~torn THEN {script[url[1]].target} ELSE Targets

StatusOf(t) == CASE t \in {"text", "media"} -> 200
                 [] t = "mediaDir" -> 403
                 [] t = "missing" -> 404

LengthOf(t) == IF t \in {"text", "mediaDir"} THEN 2 ELSE 1
Lengths     == {LengthOf(t) : t \in Targets}

(* Variant of Written: the format is copied without its last byte.          *)
Written_NoNul(bytes, n) == bytes \cup 1..n

(* snprintf and strncat, sprintf, strncpy: n bytes and a NUL; what lies     *)
(* behind it stays.  bytes are the places that do not hold NUL.             *)
Written(bytes, n) == (bytes \ {n + 1}) \cup 1..n

Strlen(bytes) == CHOOSE n \in 0..Cardinality(bytes) :
                   1..n \subseteq bytes /\ n + 1 \notin bytes

(* The end of a response of n bytes: as much of the buffer is cleared as    *)
(* the response before it was long.                                         *)
Cleared(b, n) ==
  [bytes |-> Written(b.bytes, n) \ 1..(IF b.last = 0 THEN n ELSE b.last),
   last  |-> n]

(* What ResponseMalloced and LastResponseLength may hold after MaxBefore    *)
(* responses of any connections: whole ones, ones that ended in cleanup     *)
(* with nothing cleared, and 400s, which clear themselves.                  *)
LeftBehind ==
  LET Left[k \in 0..MaxBefore] ==
        IF k = 0 THEN {[bytes |-> {}, last |-> 0]}
        ELSE Left[k - 1] \cup
             UNION {{Cleared(b, n), [b EXCEPT !.bytes = Written(@, n)],
                     [b EXCEPT !.bytes = Written(@, 1) \ {1}]} :
                    b \in Left[k - 1], n \in Lengths}
  IN  Left[MaxBefore]

(* The response is built, whatever the buffer holds.                        *)
Build ==
  /\ Running("respond")
  /\ \E t \in TargetsOfUrl, b \in LeftBehind :
       resp' = [target |-> t, len |-> Strlen(Written(b.bytes, LengthOf(t))),
                sent |-> 0]
  /\ pc' = "send"
  /\ UNCHANGED <<clientVars, rx, edge, tries, length, size, url, answers, closed, dead>>

(* The loop around send is left, done or not.                               *)
Responded(cut) ==
  /\ Answer(StatusOf(resp.target), cut)
  /\ pc' = IF resp.target = "media" THEN "sendfile" ELSE "idle"

(* send takes n bytes.                                                      *)
SendResponse ==
  /\ Running("send") /\ peer # "rst"
  /\ \E n \in 1..(resp.len - resp.sent) :
       /\ resp' = [resp EXCEPT !.sent = @ + n]
       /\ IF resp.sent + n = resp.len THEN Responded(FALSE)
                                      ELSE UNCHANGED <<pc, answers>>
  /\ UNCHANGED <<clientVars, rx, edge, tries, length, size, url, closed, dead>>

(* EAGAIN, the send buffer is full: the rest of the response is dropped and *)
(* the worker goes on as if it had been sent.                               *)
SendEagain ==
  /\ Running("send") /\ peer # "rst"
  /\ Responded(TRUE)
  /\ UNCHANGED <<clientVars, rx, edge, localVars, closed, dead>>

(* send, without MSG_NOSIGNAL, on a connection that was reset.              *)
SendFails ==
  /\ Running("send") /\ peer = "rst"
  /\ UNCHANGED <<rx, answers>>
  /\ Cleanup \/ Killed

(* sendfile has sent the last byte of the file; until the client makes room *)
(* for it the loop spins.                                                   *)
SendfileEnds ==
  /\ Running("sendfile") /\ peer # "rst"
  /\ pc' = "idle"
  /\ UNCHANGED <<clientVars, rx, edge, localVars, answers, closed, dead>>

(* sendfile's errors are not looked at: it is called until SIGPIPE.         *)
SendfileFails ==
  /\ Running("sendfile") /\ peer = "rst"
  /\ Killed
  /\ UNCHANGED rx

Init ==
  /\ script \in Scripts /\ manner \in Manners
  /\ unsent = LET All[n \in 0..Len(script)] ==
                    IF n = 0 THEN <<>> ELSE All[n - 1] \o PiecesOf(script[n], n)
              IN  All[Len(script)]
  /\ peer = "up" /\ torn = FALSE /\ rx = <<>> /\ edge = FALSE
  /\ pc = "idle" /\ tries = 0 /\ length = 0 /\ size = 0 /\ url = <<>>
  /\ resp = [target |-> "missing", len |-> 0, sent |-> 0]
  /\ answers = <<>> /\ closed = FALSE /\ dead = FALSE

ClientStep == Send \/ HangUp("fin") \/ HangUp("rst")

WorkerStep ==
  \/ Start \/ HangUpCloses \/ PeekEnds \/ PeekEagain \/ PeekHead \/ PeekOldBytes
  \/ PeekPartial \/ Discard \/ DiscardTorn \/ DiscardFails \/ ParseOverruns \/ Build
  \/ SendResponse \/ SendEagain \/ SendFails \/ SendfileFails

Next == ClientStep \/ WorkerStep \/ SendfileEnds

Spec == Init /\ [][Next]_vars

(* The server thread runs and its system calls return; a client need not    *)
(* read the file it is being sent.                                          *)
FairSpec == Spec /\ WF_vars(WorkerStep)

-----------------------------------------------------------------------------
(* Type correctness.  RequestSize is more than Length only where the end of *)
(* a head was found behind it.                                              *)
TypeOK ==
  /\ script \in Scripts /\ manner \in Manners
  /\ {unsent, rx} \subseteq
       Seq([req : 1..Len(script), part : {"head", "end", "body"}])
  /\ peer \in {"up", "fin", "rst"}
  /\ pc \in {"idle", "peek", "discard", "respond", "send", "sendfile"}
  /\ tries \in 0..(MaxTries - 1)
  /\ length \in Nat /\ size \in 0..(IF torn THEN length + 1 ELSE length)
  /\ url \in Seq(1..Len(script))
  /\ resp \in [target : Targets, len : Nat, sent : Nat] /\ resp.sent <= resp.len
  /\ answers \in Seq([status : {200, 400, 403, 404}, url : Seq(1..Len(script)),
                      cut : BOOLEAN])
  /\ {torn, edge, closed, dead} \subseteq BOOLEAN

(* Once the worker has left its read loop for good, whatever it has not     *)
(* read will be announced: with EPOLLET, input that came before the last    *)
(* recv and was left in the socket would never be.                          *)
UnreadIsAnnounced ==
  ~closed /\ ~dead /\ pc \in {"respond", "send", "sendfile", "idle"} /\ rx # <<>> => edge

(* The response that is sent is the one that was built: no byte that an     *)
(* earlier response, perhaps of another connection, left in the buffer      *)
(* follows it, although strlen decides how much is sent and the clearing    *)
(* takes the length of the response before.                                 *)
ResponsesIntact ==
  pc \in {"send", "sendfile"} => resp.len = LengthOf(resp.target)

(* No request is answered twice, and none before all its head was sent:     *)
(* every answer but a 400 stands for requests of its own.  Excepted: the    *)
(* answers of a connection once old bytes have been taken for the end of a  *)
(* head; such a head is parsed and answered before all of it was sent.      *)
AnsweredOnce ==
  ~torn =>
  LET Answers == {k \in 1..Len(answers) : answers[k].status # 400}
      Reqs(k) == {answers[k].url[n] : n \in 1..Len(answers[k].url)}
  IN  /\ \A k \in Answers : Reqs(k) # {}
      /\ \A k \in Answers : \A j \in Answers \ {k} : Reqs(k) \cap Reqs(j) = {}
      /\ \A k \in Answers, n \in 1..Len(unsent) :
           unsent[n].part = "end" => unsent[n].req \notin Reqs(k)

(* A client that waits for its answers gets, for each request, the answer   *)
(* to that request: the worker takes nothing over from its last run.        *)
AnswersMatch ==
  "serial" \in manner =>
    \A k \in 1..Len(answers) : answers[k].status # 400 =>
      answers[k].url = <<k>> /\ answers[k].status = StatusOf(script[k].target)

Rejected == \E k \in 1..Len(answers) : answers[k].status = 400
Plain(r) == r.valid /\ ~r.body

(* A client whose requests are all well-formed, have no body and arrive in  *)
(* one piece never gets a 400.                                              *)
WellFormedNotRejected ==
  "whole" \in manner /\ (\A i \in 1..Len(script) : Plain(script[i])) => ~Rejected

(* The body of a parsed request that reached the socket with its head is    *)
(* not left there to be taken for the next request's head.  main.c:189      *)
(* says "if have a body, get it with RECV".                                 *)
BodyTaken ==
  pc = "peek" =>
    \A n \in 1..Len(rx), i \in 1..Len(url) : rx[n] # Piece(url[i], "body")

(* Every request of a client that waits for its answers is answered, unless *)
(* it shuts down or resets the connection; after a 400 nothing more is.     *)
Sent(i) == i <= Len(script) /\ \A n \in 1..Len(unsent) : unsent[n].req # i
EveryRequestAnswered ==
  \A i \in 1..MaxRequests :
    "serial" \in manner /\ Sent(i)
      ~> Len(answers) >= i \/ Rejected \/ peer # "up"
=============================================================================

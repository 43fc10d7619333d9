----------------------------- MODULE HttpRequest ----------------------------
(***************************************************************************)
(* http_request.c, and the part of EpollHttpWorker that leads from peeked   *)
(* bytes to a file: find the end of the head, take it out of the socket,    *)
(* parse it into Request, and at the end build FilePath and look up its     *)
(* MIME type.                                                               *)
(*                                                                          *)
(* Texts are sequences of tokens: a word that the parser only compares or   *)
(* copies is one token, whatever it looks at is a token of its own.         *)
(***************************************************************************)
EXTENDS VString

CONSTANTS Streams,    \* what a client may send: sequences of heads
          TextSize,   \* INIT_TEXT_SIZE
          PoolSize,   \* the capacity of StringPool: 4092
          MaxLines    \* the size of RequestLines: 64

COLON == ":"
PCT   == "%"
PLUS  == "+"
DOT   == "."

CRLF   == <<CR, LF>>
CRLF2  == CRLF \o CRLF

(* A head as the client means it: the words of the request line and the     *)
(* headers.  A path is a sequence of items: how it is spelt, what it means. *)
Plain(t)        == [raw |-> <<t>>, means |-> <<t>>]
Escaped(h, l, t) == [raw |-> <<PCT, h, l>>, means |-> <<t>>]

RawPath(path)  == FlattenSeq([n \in DOMAIN path |-> path[n].raw])
Meaning(path)  == FlattenSeq([n \in DOMAIN path |-> path[n].means])

HeaderLine(hd) == hd.key \o (IF hd.colon THEN <<COLON>> ELSE <<>>) \o hd.value
RawHeader(hd)  == HeaderLine(hd) \o CRLF

Words(h) == [n \in DOMAIN h.words |-> IF n = 2 THEN RawPath(h.words[2]) ELSE h.words[n]]

RequestLine(h) ==
  FlattenSeq([n \in DOMAIN h.words |-> (IF n = 1 THEN <<>> ELSE <<SP>>) \o Words(h)[n]])

RawHeaders(h) == FlattenSeq([n \in DOMAIN h.headers |-> RawHeader(h.headers[n])])

Raw(h) == ((RequestLine(h) \o CRLF) \o RawHeaders(h)) \o CRLF

RawAll(hs) == FlattenSeq([n \in DOMAIN hs |-> Raw(hs[n])])

(* The lines of a head are not empty and hold no line ends.                 *)
IsLine(t) == t \in Seq(STRING \ {CR, LF}) /\ t # <<>>

IsHead(h) == /\ IsLine(RequestLine(h)) /\ h.headers \in Seq(Range(h.headers))
             /\ \A n \in DOMAIN h.headers : IsLine(HeaderLine(h.headers[n]))

ASSUME RequestAssumption ==
  TextSize \in Nat \ {0} /\ PoolSize \in Nat \ {0} /\ MaxLines \in Nat \ {0}

ASSUME StreamsAssumption ==
  \A hs \in Streams : hs \in Seq(Range(hs)) /\ \A n \in DOMAIN hs : IsHead(hs[n])

VARIABLES
  heads,     \* the heads of this client
  unsent,    \* their tokens that have not reached the socket
  rx,        \* the socket's receive buffer
  pool,      \* StringPool
  size,      \* RequestSize
  request,   \* Request
  parsed,    \* how many heads VHttpRequest_Parse has accepted
  path,      \* FilePath, once it is built
  pc,        \* read, parse, built; bad (400); undefined behaviour: something is
             \* read that is not there (undefined), or written (clobbered)
  straddled  \* history: the end of a head was found behind StringPool's Length

requestVars == <<heads, unsent, rx, pool, size, request, parsed, path, pc, straddled>>

-----------------------------------------------------------------------------
(* VHttpRequest_GetMethodFromString compares prefixes, and not with OPTIONS. *)
Methods  == {"GET", "HEAD", "POST", "PUT", "DELETE", "TRACE", "CONNECT", "PATCH"}
Prefixed == [GETS |-> "GET", PUTS |-> "PUT"]      \* words with such a prefix

MethodOf(word) == CASE word \in Methods          -> word
                    [] word \in DOMAIN Prefixed  -> Prefixed[word]
                    [] OTHER                     -> "ERROR"

HexDigits == {"2", "0", "E"}
Decoded(h, l) == CASE <<h, l>> = <<"0", "0">> -> NUL
                   [] <<h, l>> = <<"2", "0">> -> SP
                   [] <<h, l>> = <<"2", "E">> -> DOT
                   [] OTHER -> "x"

DecodeUrl_NoSkip(url) ==                      \* mutant: Idx += 2 forgotten
  [i \in DOMAIN url |->
     IF url[i] = PCT /\ i + 2 <= Len(url) /\ {url[i + 1], url[i + 2]} \subseteq HexDigits
     THEN Decoded(url[i + 1], url[i + 2]) ELSE url[i]]

(* What VHttpRequest_DecodeUrl inserts.  A plus sign falls through to the   *)
(* default case, and is inserted after the space that stands for it.        *)
DecodeUrl(url) ==
  LET From[i \in 1..(Len(url) + 1)] ==
        IF i > Len(url) THEN <<>>
        ELSE IF /\ url[i] = PCT /\ i + 2 <= Len(url)
                /\ {url[i + 1], url[i + 2]} \subseteq HexDigits
        THEN <<Decoded(url[i + 1], url[i + 2])>> \o From[i + 3]
        ELSE (IF url[i] = PLUS THEN <<SP, PLUS>> ELSE <<url[i]>>) \o From[i + 1]
  IN  From[1]

(* ... one by one, from the beginning of Request.Url on.                    *)
InsertUrl(url, chars) ==
  FoldLeft(LAMBDA u, n : VString_Insert(u, n - 1, chars[n]), url, [n \in DOMAIN chars |-> n])

ColonOf_Last(data, line) == VString_FindLastCharOccurence(data, line, COLON)   \* mutant
ColonOf(data, line)      == VString_FindFirstCharOccurence(data, line, COLON)

(* One header line.  Value reaches one token too far, to the CR, which Trim *)
(* cuts off again; the NUL that ends it goes into StringPool.  The NUL that *)
(* ends the key goes one byte behind CKey.                                  *)
ParseHeader(a, line) ==
  LET idx   == ColonOf(a.data, line)
      value == View(line.at + idx + 1, line.len - idx)
      trim  == VString_Trim(a.data, value)
      key   == TextOf(a.data, View(line.at, idx))
      text  == SubSeq(trim.Data, value.at, value.at + trim.Length - 1)
  IN  IF a.verdict # "ok" THEN a
      ELSE IF idx = -1 THEN [a EXCEPT !.verdict = "undefined"]
      ELSE IF idx = 0  THEN [a EXCEPT !.verdict = "bad"]
      ELSE IF Solid(a.data, value) = {}
      THEN [a EXCEPT !.verdict = "undefined", !.clobbers = TRUE]
      ELSE [verdict  |-> "ok",
            clobbers |-> TRUE,
            data     |-> [trim.Data EXCEPT ![value.at + trim.Length] = NUL],
            headers  |-> (key :> text) @@ a.headers]

(* The request line.  Views that were not filled are not initialised.       *)
LineVerdict(data, words) ==
  LET Word(n) == TextOf(data, words[n])
  IN  IF Len(words) > 3 THEN "bad"
      ELSE IF MethodOf(data[words[1].at]) = "ERROR" THEN "bad"
      ELSE IF Len(words) < 3 THEN "undefined"
      ELSE IF Word(3) \in {<<"HTTP/1.1">>, <<"HTTP">>, <<>>} THEN "ok"
      ELSE "bad"

HeaderLines_All(lines) == lines               \* mutant: from I = 0 on
HeaderLines(lines)     == Tail(lines)

ParseHeaders(start, lines) ==
  LET After[n \in 0..Len(lines)] ==
        IF n = 0 THEN start ELSE ParseHeader(After[n - 1], lines[n])
  IN  After[Len(lines)]

(* What comes of a head of length bytes once its headers are parsed (hs)    *)
(* and its request line is split into words.                                *)
Outcome(req, length, hs, words) ==
  LET Word(n) == TextOf(hs.data, words.views[n])
      method  == MethodOf(hs.data[words.views[1].at])
      verdict == IF hs.verdict # "ok" THEN hs.verdict ELSE LineVerdict(hs.data, words.views)
  IN  [verdict  |-> verdict,
       clobbers |-> hs.clobbers \/ (hs.verdict = "ok" /\ words.overrun),
       data     |-> hs.data,
       request  |-> IF verdict # "ok" THEN req
                    ELSE [Method    |-> method,
                          StrMethod |-> VString_CopyCString(req.StrMethod, <<method>>),
                          Url       |-> InsertUrl(req.Url, DecodeUrl(Word(2))),
                          Headers   |-> hs.headers,
                          Length    |-> length]]

(* VHttpRequest_Parse: what becomes of StringPool's data and of Request,    *)
(* the verdict, and whether something is stored behind the end of an array. *)
Parse(data, req) ==
  LET split == VString_SplitBySubstring(data, Whole(pool), CRLF2, 2)
      head  == split.views[1]
      lines == VString_SplitBySubstring(data, head, CRLF, MaxLines)
      hs    == ParseHeaders([verdict |-> "ok", clobbers |-> split.overrun \/ lines.overrun,
                             data |-> data, headers |-> req.Headers],
                            HeaderLines(lines.views))
  IN  Outcome(req, head.len + 4, hs,
              VString_SplitBySubstring(hs.data, lines.views[1], <<SP>>, 3))

-----------------------------------------------------------------------------
(* The client sends its heads in at most two segments.                      *)
Arrive(n) ==
  /\ n \in 1..Len(unsent)
  /\ n = Len(unsent) \/ unsent = RawAll(heads)
  /\ rx' = rx \o SubSeq(unsent, 1, n)
  /\ unsent' = SubSeq(unsent, n + 1, Len(unsent))
  /\ UNCHANGED <<heads, pool, size, request, parsed, path, pc, straddled>>

(* What may lie behind StringPool's allocation, as far as a comparison with *)
(* the end of a head goes.                                                  *)
Behind == [1..3 -> {CR, LF, Junk}]

(* recv(MSG_PEEK) over what the last one left, as much as the pool takes.   *)
(* A head without its end is peeked again (how often, HttpWorker counts).   *)
Peek ==
  /\ pc = "read" /\ rx # <<>>
  /\ \E behind \in Behind :
       LET p == [Data   |-> [i \in DOMAIN pool.Data |-> IF i <= Len(rx) THEN rx[i]
                                                        ELSE pool.Data[i]],
                 Length |-> Min({Len(rx), PoolSize})]
       IN  /\ pool' = p
           /\ size' = VString_FindSubstring(p, behind, CRLF2)
           /\ straddled' = (straddled \/ size' > p.Length)
  /\ pc' = IF size' > 0 THEN "parse" ELSE "read"
  /\ UNCHANGED <<heads, unsent, rx, request, parsed, path>>

ParseHead ==
  /\ pc = "parse"
  /\ rx' = SubSeq(rx, size + 1, Len(rx))
  /\ LET r == Parse(pool.Data, request)
     IN  \/ /\ r.verdict = "ok"
            /\ pool' = [pool EXCEPT !.Data = r.data] /\ request' = r.request
            /\ parsed' = parsed + 1 /\ pc' = "read"
         \/ /\ r.verdict \in {"bad", "undefined"} /\ pc' = r.verdict
            /\ UNCHANGED <<pool, request, parsed>>
         \/ r.clobbers /\ pc' = "clobbered" /\ UNCHANGED <<pool, request, parsed>>
  /\ UNCHANGED <<heads, unsent, size, path, straddled>>

AppRoot == <<"/home/victor">>

FilePath_Copied == VString_Copy(VString_Concat(VString_Init(TextSize), AppRoot),
                                Text(request.Url))               \* mutant
FilePath == VString_Concat(VString_Concat(VString_Init(TextSize), AppRoot),
                           Text(request.Url))

(* What open and strrchr see: everything before the first NUL, if there is  *)
(* one before bytes nobody has written.                                     *)
CString(s) ==
  LET stops == {i \in DOMAIN s.Data : s.Data[i] \in {NUL, Junk}}
  IN  IF stops = {} \/ s.Data[Min(stops)] = Junk THEN <<Junk>>
      ELSE SubSeq(s.Data, 1, Min(stops) - 1)

(* GetMimeType's table, by UseSendfile.                                     *)
SendfileTypes == {"pdf", "svg", "png", "jpg", "jpeg", "gif", "webp", "ico", "mp4", "mp3",
                  "wav", "woff", "woff2", "ttf", "otf", "zip", "tar", "gz"}

UseSendfile(cpath) ==
  LET dots == {i \in DOMAIN cpath : cpath[i] = DOT}
  IN  dots # {} /\ \E t \in SendfileTypes : SubSeq(cpath, Max(dots) + 1, Len(cpath)) = <<t>>

(* EAGAIN: everything that has arrived was read.                            *)
BuildPath ==
  /\ pc = "read" /\ rx = <<>> /\ pool.Length > 0
  /\ path' = [name |-> CString(FilePath), sendfile |-> UseSendfile(CString(FilePath))]
  /\ pool' = [Zeroed(pool) EXCEPT !.Length = 0]
  /\ pc' = "built"
  /\ UNCHANGED <<heads, unsent, rx, size, request, parsed, straddled>>

RequestInit ==
  /\ heads \in Streams
  /\ unsent = RawAll(heads)
  /\ rx = <<>> /\ pool = VString_Init(PoolSize) /\ size = 0
  /\ request = [Method |-> "ERROR", StrMethod |-> VString_Init(TextSize),
                Url |-> VString_Init(TextSize), Headers |-> <<>>, Length |-> 0]
  /\ parsed = 0 /\ pc = "read" /\ straddled = FALSE
  /\ path = [name |-> <<>>, sendfile |-> FALSE]

RequestNext == (\E n \in 1..Len(unsent) : Arrive(n)) \/ Peek \/ ParseHead \/ BuildPath

RequestSpec == RequestInit /\ [][RequestNext]_requestVars

-----------------------------------------------------------------------------
(* What a client may expect.                                                *)
Usable(hd) == hd.colon /\ hd.key # <<>> /\ hd.text # <<>>

WellFormed(h) ==
  /\ Len(h.headers) < MaxLines
  /\ Len(h.words) = 3 /\ h.words[1][1] \in Methods /\ h.words[3] = <<"HTTP/1.1">>
  /\ \A n \in DOMAIN h.headers : Usable(h.headers[n])

PathOf(h) == IF Len(h.words) < 2 THEN <<>> ELSE h.words[2]

NoPlus == \A n \in DOMAIN heads : PLUS \notin Range(Meaning(PathOf(heads[n])))

(* The next n heads of the run are whole among the peeked bytes.            *)
Peeked(n) ==
  /\ parsed + n <= Len(heads)
  /\ Len(RawAll(SubSeq(heads, parsed + 1, parsed + n))) <= pool.Length

(* Heads are taken out of the socket one by one and whole: between two of   *)
(* them the stream stands at the beginning of the next, and the parser's    *)
(* Request.Length is what main took.  The comparison that runs on behind    *)
(* Length can break this only after a head of the same run left its bytes   *)
(* there, or when the pool is full but for less than three bytes, and it    *)
(* goes on behind the allocation.                                           *)
HeadsTakenExactly ==
  /\ straddled => parsed > 0 \/ pool.Length + 3 > PoolSize
  /\ pc = "read" /\ ~straddled =>
       /\ rx \o unsent = RawAll(SubSeq(heads, parsed + 1, Len(heads)))
       /\ parsed > 0 /\ size > 0 => request.Length = size

HeadersUpTo(n) ==
  LET all == FlattenSeq([m \in 1..n |-> heads[m].headers])
      keys == {all[m].key : m \in DOMAIN all}
  IN  [k \in keys |-> all[Max({m \in DOMAIN all : all[m].key = k})].text]

(* A well-formed head (of MaxLines lines at most) that is found in the pool *)
(* is accepted, in whatever segments it arrives, with its method and its    *)
(* headers: trimmed, the last of a name counting, those of earlier heads of *)
(* the run still there.  No head is accepted without a method the parser    *)
(* knows.                                                                   *)
WellFormedParsed ==
  ~straddled =>
    /\ parsed > 0 => request.Method \in Methods
    /\ pc = "bad" => ~WellFormed(heads[parsed + 1])
    /\ parsed > 0 /\ WellFormed(heads[parsed]) => request.Method = heads[parsed].words[1][1]
    /\ (\A n \in 1..parsed : WellFormed(heads[n])) => request.Headers = HeadersUpTo(parsed)

(* Parsing reads what is not there only for a header without a colon or     *)
(* without a value, and a request line of one or two words.  It writes      *)
(* behind an array only for a header with a name (CKey), a head of one line *)
(* more than RequestLines takes, a request line of four words, and exactly  *)
(* two whole heads in the buffer (Split).                                   *)
ParseDefined ==
  LET h == heads[parsed + 1]
  IN  ~straddled =>
        /\ pc = "undefined" =>
             \/ \E n \in DOMAIN h.headers : ~h.headers[n].colon \/ h.headers[n].text = <<>>
             \/ Len(h.words) \in {1, 2}
        /\ pc = "clobbered" =>
             \/ \E n \in DOMAIN h.headers : h.headers[n].colon /\ h.headers[n].key # <<>>
             \/ Len(h.headers) = MaxLines
             \/ Len(h.words) = 4
             \/ Peeked(2) /\ ~Peeked(3)

Paths(n) == FlattenSeq([m \in 1..n |-> Meaning(PathOf(heads[n + 1 - m]))])

(* Request.Url is the path as the client means it, in front of the paths of *)
(* the heads parsed before it, through every growth of the string; and      *)
(* whatever the path, it stays within the string's capacity.                *)
UrlDecoded ==
  /\ request.Url.Length <= Capacity(request.Url)
  /\ ~straddled /\ NoPlus => Text(request.Url) = Paths(parsed)

(* What of a text comes before its first NUL.                               *)
BeforeNUL(t) ==
  LET stops == {i \in DOMAIN t : t[i] = NUL}
  IN  IF stops = {} THEN t ELSE SubSeq(t, 1, Min(stops) - 1)

(* FilePath, as open and strrchr see it, is that path under AppRoot, up to  *)
(* the first NUL that a client escaped in it, as long as the string need    *)
(* not grow or there is one; and sendfile is chosen by the extension of the *)
(* last component of what they see.                                         *)
PathExact ==
  LET all == AppRoot \o Paths(parsed)
      p   == BeforeNUL(all)
      n   == Len(p)
  IN  pc = "built" /\ ~straddled /\ NoPlus /\ (Len(all) < TextSize \/ p # all) =>
        /\ path.name = p
        /\ path.sendfile <=> n > 1 /\ p[n - 1] = DOT /\ p[n] \in SendfileTypes
=============================================================================

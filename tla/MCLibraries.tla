------------------------------ MODULE MCLibraries ---------------------------
(***************************************************************************)
(* The sequential parts, which share no state: a behaviour exercises one of *)
(* them, the HTTP parser on heads of every shape, a string or an array.     *)
(***************************************************************************)
EXTENDS VStringCalls, VArray, HttpRequest

VARIABLE subject    \* which of them

Slash  == Plain("/")
Dot    == Plain(DOT)
DotEsc == Escaped("2", "E", DOT)
SpEsc  == Escaped("2", "0", SP)
NulEsc == Escaped("0", "0", NUL)

SomePaths == {<<Slash>>, <<Slash, Plain("a"), Dot, Plain("png")>>,
              <<Slash, DotEsc, Plain("png")>>, <<Slash, SpEsc, Dot, Plain("txt")>>,
              <<Slash, Dot, Plain("png"), Slash, Plain("a")>>, <<Slash, Plain(PCT), Plain("2")>>,
              <<Slash, Plain(PLUS)>>, <<Slash, Plain("a"), NulEsc, Dot, Plain("png")>>}

Header(k, t) == [key |-> <<k>>, colon |-> TRUE, value |-> <<SP>> \o t, text |-> t]
Tight(k, t)  == [key |-> <<k>>, colon |-> TRUE, value |-> t \o <<SP, SP>>, text |-> t]
NoValue(k)   == [key |-> <<k>>, colon |-> TRUE, value |-> <<SP>>, text |-> <<>>]
Nameless     == [key |-> <<>>, colon |-> TRUE, value |-> <<"v">>, text |-> <<"v">>]
Colonless    == [key |-> <<"k">>, colon |-> FALSE, value |-> <<>>, text |-> <<>>]

(* Heads of as many lines as RequestLines takes (the request line and two   *)
(* headers), of one more and of two more, and of fewer.                     *)
SomeHeaders ==
  {<<>>, <<Header("k", <<"v">>), Tight("Host", <<"v">>), Header("l", <<"v">>)>>,
   <<Header("k", <<"v">>), Header("Host", <<"v">>), Header("l", <<"v">>), Header("m", <<"v">>)>>,
   <<Header("Host", <<"v", COLON, "w">>)>>, <<Header("k", <<"v">>), Tight("k", <<"w">>)>>,
   <<Tight("k", <<"v", SP, "w">>), Header("Host", <<"v">>)>>,
   <<NoValue("k")>>, <<Nameless>>, <<Colonless>>, <<Header("k", <<"v">>), NoValue("Host")>>}

Get(p, hs) == [words |-> <<<<"GET">>, p, <<"HTTP/1.1">>>>, headers |-> hs]

Lines == {<<<<m>>, <<Slash>>, <<v>>>> : m \in {"GET", "PUT", "GETS", "OPTIONS"},
                                        v \in {"HTTP/1.1", "HTTP", "HTTP/1.0"}}
         \cup {<<<<"GET">>>>, <<<<"GET">>, <<Slash>>>>, <<<<"OPTIONS">>, <<Slash>>>>, <<<<"GET">>, <<Slash>>, <<>>>>,
               <<<<"GET">>, <<Slash>>, <<"HTTP">>, <<"HTTP">>>>,
               <<<<"GET">>, <<Slash>>, <<"HTTP/1.1">>, <<"x">>, <<"x">>>>}

Singles == {<<Get(p, hs)>> : p \in SomePaths, hs \in SomeHeaders}
             \cup {<<[words |-> w, headers |-> <<>>]>> : w \in Lines}

Short   == {Get(<<Slash>>, <<>>), Get(<<Slash, SpEsc>>, <<Header("k", <<"v">>)>>),
            [words |-> <<<<"PUT">>, <<Slash, Plain("a")>>, <<"HTTP/1.1">>>>,
             headers |-> <<Header("k", <<"w">>)>>]}
Runs    == Singles \cup {<<g, h>> : g, h \in Short} \cup {<<g, g, g>> : g \in Short}

AllStreams == Runs \cup {<<>>}

Init == /\ subject \in {"parser", "string", "array"}
        /\ CallsInit /\ RequestInit /\ ArrayInit
        /\ (subject = "parser") = (heads # <<>>)
        /\ subject # "array" => array = VArray_Init(1, FALSE)

Next == /\ \/ subject = "parser" /\ RequestNext /\ UNCHANGED <<callVars, arrayVars>>
           \/ subject = "string" /\ CallsNext /\ UNCHANGED <<requestVars, arrayVars>>
           \/ subject = "array" /\ ArrayNext /\ UNCHANGED <<callVars, requestVars>>
        /\ UNCHANGED subject

Spec == Init /\ [][Next]_<<callVars, arrayVars, requestVars, subject>>
=============================================================================

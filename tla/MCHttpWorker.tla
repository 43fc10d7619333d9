---------------------------- MODULE MCHttpWorker ----------------------------
(* EpollHttpWorker with clients that send two or three requests.            *)
EXTENDS WorkerInLoop

Get(t)    == [valid |-> TRUE, body |-> FALSE, target |-> t]
Malformed == [valid |-> FALSE, body |-> FALSE, target |-> "text"]
Post      == [valid |-> TRUE, body |-> TRUE, target |-> "text"]

(* Pairs of requests without a body that begin with any of them, some       *)
(* triples, some bodies.                                                    *)
Heads       == {Get(t) : t \in Targets} \cup {Malformed}
Pairs       == {<<a, b>> : a \in Heads, b \in {Get("text"), Get("media"), Malformed}}
Triples     == {<<Get("text"), b, Get("media")>> : b \in {Get("media"), Malformed}}
BodyPairs   == {<<a, b>> : a, b \in {Get("text"), Post}}
AllScripts  == Pairs \cup Triples \cup BodyPairs

(* The politest client, and clients of every kind.                          *)
Polite      == {AllManners}
AnyManner   == SUBSET AllManners
=============================================================================

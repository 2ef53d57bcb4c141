------------------------------- MODULE Relay -------------------------------
(***************************************************************************)
(* The client-to-upstream half of a proxied connection (relay.rs): every    *)
(* request head on it is parsed and stamped, the body behind it is passed   *)
(* on by its framing, and an upgrade passes on the rest.  The client may    *)
(* send anything, in pieces of any size, for ever.  A stream is a sequence  *)
(* of units: a head (the sequence of its fields), a chunk size, other data, *)
(* and Eol, which ends a head or a line; lengths count units.  The other    *)
(* half of the connection is copied as it comes.                            *)
(***************************************************************************)
EXTENDS Naturals, Sequences

CONSTANTS
    HeadsSent,  \* heads the client sends: sequences of "cl0", "cl1", "clbad": Content-
                \* Length; "te": chunked; "up": Upgrade; "proto": a forwarding header; "other"
    MaxHeaderUnits,  \* MAX_HEADER_BYTES
    MaxRead     \* units a read returns at most

HeadFields == {"cl0", "cl1", "clbad", "te", "up", "proto", "other"}
ASSUME RelayAssumption ==
    HeadsSent \subseteq Seq(HeadFields) /\ MaxHeaderUnits \in Nat /\ MaxRead \in Nat

HeadUnit(h) == <<"head", h>>
Eol == <<"eol">>
Zero == <<"0">>
One == <<"1">>
Units == {HeadUnit(h) : h \in HeadsSent} \cup {Eol, Zero, One, <<"data">>}
IsHead(u) == u[1] = "head"

VARIABLES
    buf,    \* read from the client and not passed on yet
    work,   \* where forward_requests is, and how much it still has to pass on
    client, \* what the client means by its next unit
    server, \* what the upstream takes its next unit for
    wrong   \* has the upstream taken a head for one that is not stamped?

relayVars == <<buf, work, client, server, wrong>>

-----------------------------------------------------------------------------
(* The ends of the connection: the framing of RFC 9112, read one unit at a    *)
(* time and never looking ahead.                                             *)

\* What a head announces, from the set of its fields.
Announced(h) ==
    LET fields == {h[i] : i \in DOMAIN h}
    IN  IF "te" \notin fields /\ "clbad" \in fields THEN "junk"
        ELSE IF "up" \in fields THEN "opaque"
        ELSE IF "te" \in fields THEN "size"
        ELSE IF "cl1" \in fields THEN "data" ELSE "start"

ReadTo(part) == [part |-> part, then |-> part]
ReadUnit(end, u) ==
    CASE end.part = "start" -> IF u[1] \in {"head", "stamped"}
                               THEN [part |-> u[1], then |-> Announced(u[2])]
                               ELSE IF u = Eol THEN end ELSE ReadTo("junk")
      [] end.part \in {"head", "stamped"} -> ReadTo(IF u = Eol THEN end.then ELSE "junk")
      [] end.part = "data"    -> ReadTo("start")
      [] end.part = "size"    -> ReadTo(IF u = Zero THEN "last" ELSE IF u = One THEN "sized" ELSE "junk")
      [] end.part = "last"    -> ReadTo(IF u = Eol THEN "blank" ELSE "junk")
      [] end.part = "sized"   -> ReadTo(IF u = Eol THEN "chunk" ELSE "junk")
      [] end.part = "chunk"   -> ReadTo("crlf")
      [] end.part = "crlf" -> ReadTo("size")
      [] end.part = "blank"   -> ReadTo(IF u = Eol THEN "start" ELSE "trailer")
      [] end.part = "trailer" -> ReadTo(IF u = Eol THEN "blank" ELSE "trailer")
      [] OTHER -> end \* junk, or opaque

ReadUnits(end, units) ==
    LET f[n \in 0..Len(units)] == IF n = 0 THEN end ELSE ReadUnit(f[n - 1], units[n])
    IN  f[Len(units)]

\* The upstream reads what is passed on.
ToUpstream(units) ==
    /\ server' = ReadUnits(server, units)
    /\ wrong' = (wrong \/ \E n \in DOMAIN units :
                   LET end == ReadUnits(server, SubSeq(units, 1, n - 1))
                   IN  end.part = "head" \/ (units[n][1] = "stamped" /\ end.part # "start"))

Going(pc) == [pc |-> pc, left |-> 0]
\* forward_fixed: pass on so much and then go on with pc.
PassThen(n, pc) == [pc |-> pc, left |-> n]
Remainder(s, n) == SubSeq(s, n + 1, Len(s))

\* The proxy has read a whole head, and maybe more.
RelayInit ==
    /\ \E h \in HeadsSent : \E more \in {<<>>} \cup {<<u>> : u \in Units} :
         buf = <<HeadUnit(h), Eol>> \o more
    /\ work = Going("head")
    /\ client = ReadUnits(ReadTo("start"), buf) /\ server = ReadTo("start") /\ wrong = FALSE

-----------------------------------------------------------------------------
(* parse_head.                                                               *)

\* Mutant: the last of the framing fields wins.
LastWins(body, field) ==
    IF body = "bad" \/ field = "clbad" THEN "bad"
    ELSE IF field = "te" THEN "chunked" ELSE IF field \in {"cl0", "cl1"} THEN field ELSE body
\* The framing that a field leaves: after chunked no length is looked at.
BodyAfter(body, field) ==
    CASE body = "bad" -> "bad"
      [] body # "bad" /\ field = "te" -> "chunked"
      [] body \notin {"bad", "chunked"} /\ field \in {"cl0", "cl1"} -> field
      [] body \notin {"bad", "chunked"} /\ field = "clbad" -> "bad"
      [] OTHER -> body
BodyOf(h) ==
    LET f[n \in 0..Len(h)] == IF n = 0 THEN "cl0" ELSE BodyAfter(f[n - 1], h[n])
    IN  f[Len(h)]
Upgrades(h) == \E i \in DOMAIN h : h[i] = "up"

\* The rewritten head: what the proxy says of how the client came replaces what
\* the client claims.
Stamp(u) == <<"stamped", [i \in DOMAIN u[2] |-> IF u[2][i] = "proto" THEN "other" ELSE u[2][i]]>>

\* The parser skips empty lines before a head.
EmptyLines == CHOOSE n \in 0..Len(buf) : /\ \A i \in 1..n : buf[i] = Eol
                                         /\ n < Len(buf) => buf[n + 1] # Eol
Parsed == Remainder(buf, EmptyLines)
\* A head that is not complete yet, and one that cannot become one.
Partial == Parsed = <<>> \/ (Len(Parsed) = 1 /\ IsHead(Parsed[1]))
Malformed == ~Partial /\ ~(/\ IsHead(Parsed[1]) /\ Parsed[2] = Eol
                           /\ BodyOf(Parsed[1][2]) # "bad")

-----------------------------------------------------------------------------
(* forward_requests, forward_fixed, forward_chunked, read_line.              *)

PassBody(body) == IF body = "chunked" THEN Going("line")
                  ELSE IF body = "cl1" THEN PassThen(1, "head") ELSE Going("head")

ForwardHead ==
    /\ work = Going("head") /\ ~Partial /\ ~Malformed
    /\ LET h == Parsed[1][2]
       IN  IF Upgrades(h)
           THEN /\ ToUpstream(<<Stamp(Parsed[1])>> \o Remainder(Parsed, 1)) /\ buf' = <<>>
                /\ work' = Going("splice")
           ELSE /\ ToUpstream(<<Stamp(Parsed[1]), Eol>>) /\ buf' = Remainder(Parsed, 2)
                /\ work' = PassBody(BodyOf(h))
    /\ UNCHANGED client

\* What is there, but no more than is left of the body.
PassOn ==
    /\ work.left > 0 /\ buf # <<>>
    /\ LET take == IF Len(buf) < work.left THEN Len(buf) ELSE work.left
       IN  /\ ToUpstream(SubSeq(buf, 1, take)) /\ buf' = Remainder(buf, take)
           /\ work' = [work EXCEPT !.left = @ - take]
    /\ UNCHANGED client

HasLine == \E i \in DOMAIN buf : buf[i] = Eol
LineLength == CHOOSE i \in 0..(Len(buf) - 1) :
                buf[i + 1] = Eol /\ \A j \in 1..i : buf[j] # Eol

\* The upstream sees the end of the stream; the client's rest is dropped.
Bail == work' = Going("ended") /\ UNCHANGED <<buf, client, server, wrong>>

\* A line with a size: its data and the end of that belong to the chunk; the
\* line of the last one is followed by trailers.
ForwardChunk ==
    /\ work = Going("line") /\ HasLine
    /\ IF LineLength = 1 /\ buf[1] \in {Zero, One}
       THEN /\ work' = IF buf[1] = Zero THEN PassThen(2, "trailers") ELSE PassThen(4, "line")
            /\ UNCHANGED <<buf, client, server, wrong>>
       ELSE Bail
\* Lines up to an empty one.
ForwardTrailer ==
    /\ work = Going("trailers") /\ HasLine
    /\ work' = PassThen(LineLength + 1, IF LineLength = 0 THEN "head" ELSE "trailers")
    /\ UNCHANGED <<buf, client, server, wrong>>

\* An upgraded connection: copy until the end.
Splice ==
    /\ work = Going("splice") /\ buf # <<>>
    /\ ToUpstream(buf) /\ buf' = <<>>
    /\ UNCHANGED <<work, client>>

Waiting == work.left = 0 /\ (\/ work.pc = "head" /\ Partial
                             \/ work.pc \in {"line", "trailers"} /\ ~HasLine)
BailOut ==
    /\ \/ work = Going("head") /\ Malformed
       \/ Waiting /\ Len(buf) >= MaxHeaderUnits
    /\ Bail

\* Nothing can be done with what is buffered.
Starved == \/ Waiting /\ Len(buf) < MaxHeaderUnits
           \/ buf = <<>> /\ (work.left > 0 \/ work.pc = "splice")

ReadMore ==
    /\ Starved
    /\ \E n \in 1..MaxRead : \E piece \in [1..n -> Units] :
         buf' = buf \o piece /\ client' = ReadUnits(client, piece)
    /\ UNCHANGED <<work, server, wrong>>

\* The client closes: a fragment of a head is passed on as it is, an unfinished
\* body is an error.
ReadEnd ==
    /\ Starved
    /\ work' = Going("ended")
    /\ IF work = Going("head") THEN ToUpstream(buf) /\ buf' = <<>>
       ELSE UNCHANGED <<buf, server, wrong>>
    /\ UNCHANGED client

RelayNext ==
    \/ ForwardHead \/ PassOn \/ ForwardChunk \/ ForwardTrailer \/ Splice
    \/ BailOut \/ ReadMore \/ ReadEnd
RelaySpec == RelayInit /\ [][RelayNext]_relayVars

-----------------------------------------------------------------------------
\* The upstream takes everything for what the client meant by it, with exactly
\* the request heads stamped: one in a body, in a trailer or behind an upgrade
\* is data, none of a kept connection is missed, and nothing is lost or held
\* back ("Injecting into the first request only would be worse than nothing").
\* An upstream that is passed junk is passed it unparsed only behind an upgrade.
EndsAgree ==
    /\ ~wrong /\ server.part # "junk"
    /\ work.pc # "ended" => ReadUnits(server, buf) = client
=============================================================================

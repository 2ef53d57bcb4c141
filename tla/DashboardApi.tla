--------------------------- MODULE DashboardApi ----------------------------
(***************************************************************************)
(* The dashboard's HTTP server (dashboard.rs): a request read in pieces, the *)
(* checks it passes, the route it takes, and what it asks of the daemon.     *)
(* The daemon's answers are those of the other modules; here they are yes   *)
(* or no.  Lengths are counted in units of what one read may return.        *)
(***************************************************************************)
EXTENDS Naturals, Sequences, FiniteSets, TLC

CONSTANTS
    Pages,      \* connections to the dashboard
    Calls,      \* the requests that clients send
    MaxHead,    \* MAX_HEADER_BYTES
    MaxBody,    \* MAX_BODY_BYTES
    MaxPiece,   \* the most that one read returns
    AuthOn      \* --dashboard-auth
ASSUME ApiAssumption ==
    /\ MaxPiece \in Nat \ {0} /\ AuthOn \in BOOLEAN
    /\ \A call \in Calls : {call.head, call.declared} \subseteq Nat

VARIABLES
    pages, \* of each connection: where it is, what it sent, what was read of it
    kept   \* of each collection of the daemon, what is in it
apiVars == <<pages, kept>>

\* Routes with a body, routes that name a thing in their path, and GETs.
Puts == "up" :> "running" @@ "static" :> "rules" @@ "set key" :> "keys" @@ "set block" :> "blocks"
        @@ "credentials" :> "logins" @@ "up one" :> "running" @@ "start" :> "containers"
Takes == "down" :> "running" @@ "forget" :> "known" @@ "down one" :> "running"
           @@ "unstatic" :> "rules" @@ "unset key" :> "keys" @@ "unset block" :> "blocks"
WithBody == {"up", "down", "forget", "static", "set key", "set block", "credentials"}
Assets == {"index.html", "style.css", "app.js"}
Reads == {"status", "entries", "tlds", "certs", "resources", "history", "services", "logs", "secrets", "config"}
Mutating(route) == route \in DOMAIN Puts \cup DOMAIN Takes \cup {"restart"}
Collections == {Puts[r] : r \in DOMAIN Puts} \cup {Takes[r] : r \in DOMAIN Takes}

\* A call: the version and headers it carries, its length, what it names, if
\* its head parses and if the body it declares is the JSON its route asks for.
NoCall == [route |-> "none"]
Waiting == [pc |-> "accept", call |-> NoCall, ends |-> 0, got |-> 0, did |-> <<>>, answer |-> "none"]
ApiInit == pages = [p \in Pages |-> Waiting] /\ kept = [c \in Collections |-> {}]

-----------------------------------------------------------------------------
\* run, and the client's side: it sends its call whole, or goes after a part
\* of it, or sends more than the call.
Accept(p, call, ends) ==
    /\ pages[p].pc = "accept"
    /\ pages' = [pages EXCEPT ![p] = [Waiting EXCEPT !.pc = "head", !.call = call, !.ends = ends]]
    /\ UNCHANGED kept

\* read_http_request: reads until the head is there, and then the body that
\* Content-Length declares; what comes after it is cut off.
Sized(call) == call.head + call.declared
Failed(p) == pages' = [pages EXCEPT ![p].pc = "over"]
Pieces(page) == {n \in 1..MaxPiece : page.got + n <= page.ends}
ReadMore(p, page) ==
    IF page.got = page.ends THEN Failed(p)  \* closed, or silent until HEADER_READ_TIMEOUT
    ELSE \E n \in Pieces(page) : pages' = [pages EXCEPT ![p].got = @ + n]
ReadHead(p) ==
    LET page == pages[p]
    IN /\ page.pc = "head"
       /\ IF page.got > 0 /\ ~page.call.parses THEN Failed(p)
          ELSE IF page.got >= page.call.head
          THEN IF page.call.declared > MaxBody THEN Failed(p) ELSE pages' = [pages EXCEPT ![p].pc = "body"]
          ELSE IF page.got >= MaxHead THEN Failed(p) ELSE ReadMore(p, page)
       /\ UNCHANGED kept
ReadBody(p) ==
    LET page == pages[p]
    IN /\ page.pc = "body"
       /\ IF page.got < Sized(page.call) THEN ReadMore(p, page)
          ELSE pages' = [pages EXCEPT ![p].pc = "check", ![p].got = Sized(page.call)]
       /\ UNCHANGED kept

-----------------------------------------------------------------------------
\* host_is_local, origin_is_local and authorize; an Authorization that is a
\* bearer is the one that counts, and the query's token only without it.
HostIsLocal(call) == call.host \in {"127.0.0.1", "localhost", "::1", "portman.localhost"}
OriginIsLocal(call) == call.origin = "own"
Presented(call) == IF call.bearer # "none" THEN call.bearer ELSE call.query
Authorize(call) == call.route \in Assets \/ ~AuthOn \/ Presented(call) = "token"
Refusal(call) ==
    IF call.version # 1 THEN "505"
    ELSE IF ~HostIsLocal(call) THEN "403"
    ELSE IF Mutating(call.route) /\ call.origin # "none" /\ ~OriginIsLocal(call) THEN "403"
    ELSE IF ~Authorize(call) THEN "401" ELSE "none"
Reply(p, answer) == pages' = [pages EXCEPT ![p].pc = "over", ![p].answer = answer]

\* handle_connection after the read: the checks, the route, and its body.
Complete(page) == page.got >= Sized(page.call)
Check(p) ==
    LET call == pages[p].call
    IN /\ pages[p].pc = "check"
       /\ IF Refusal(call) # "none" THEN Reply(p, Refusal(call))
          ELSE IF call.route \in Assets \cup Reads THEN Reply(p, "200")
          ELSE IF ~Mutating(call.route) THEN Reply(p, "404")
          ELSE IF call.route \in WithBody /\ ~(call.sound /\ Complete(pages[p])) THEN Reply(p, "invalid")
          ELSE pages' = [pages EXCEPT ![p].pc = "dispatch"]
       /\ UNCHANGED kept

\* handlers::dispatch, which does what it is asked or answers an error.
Apply(route, names) ==
    IF route \in DOMAIN Puts THEN [kept EXCEPT ![Puts[route]] = @ \cup names]
    ELSE [kept EXCEPT ![Takes[route]] = @ \ names]
Ask(p, route, done, then) ==
    /\ pages' = [pages EXCEPT ![p].pc = IF done THEN then ELSE "over", ![p].did = Append(@, <<route, done>>),
                              ![p].answer = IF ~done THEN "error" ELSE IF then = "over" THEN "200" ELSE @]
    /\ kept' = IF done THEN Apply(route, pages[p].call.names) ELSE kept
Forward(p) ==
    LET route == pages[p].call.route
    IN /\ pages[p].pc = "dispatch"
       /\ \E done \in BOOLEAN :
            IF route = "restart" THEN Ask(p, "down one", done, "again") ELSE Ask(p, route, done, "over")
\* A restart goes on to its up whatever has become of its client.
UpAgain(p) ==
    /\ pages[p].pc = "again"
    /\ \E done \in BOOLEAN : Ask(p, "up one", done, "over")

ApiNext ==
    \E p \in Pages :
        \/ \E call \in Calls : \E ends \in 0..Sized(call) + 1 : Accept(p, call, ends)
        \/ ReadHead(p) \/ ReadBody(p) \/ Check(p) \/ Forward(p) \/ UpAgain(p)
ApiSpec == ApiInit /\ [][ApiNext]_apiVars

-----------------------------------------------------------------------------
\* However a request comes in pieces, it is judged whole: nothing is asked of
\* the daemon for a call that was cut short, comes from another site or lacks
\* the token, and a sound one is never called invalid; a restart that answers
\* success has gone down and come up again (read_http_request, handle_connection).
CallsJustified ==
    \A p \in Pages :
        LET page == pages[p]
            call == page.call
        IN /\ page.did # <<>> =>
                /\ page.ends >= Sized(call) /\ HostIsLocal(call)
                /\ call.origin \in {"none", "own"} /\ (AuthOn => Presented(call) = "token")
           /\ page.answer = "invalid" => ~call.sound
           /\ page.answer = "200" /\ call.route = "restart" =>
                page.did = <<<<"down one", TRUE>>, <<"up one", TRUE>>>>
=============================================================================

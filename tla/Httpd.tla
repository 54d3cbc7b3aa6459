-------------------------------- MODULE Httpd --------------------------------
(****************************************************************************)
(* httpd.c: the event loop and the request handler of the server's only     *)
(* thread, with the connection objects of Connection and the output buffer  *)
(* of Output, against clients that connect, send, stall and hang up when    *)
(* they please.                                                             *)
(*                                                                          *)
(* The thread's steps that wait for a client or read the clock are steps of *)
(* their own; what lies between two of them is one step, for nothing else   *)
(* touches the server's memory.  rawlog_get_record and rawlog_parse_all are *)
(* in Rawlog; here they are their possible results.                         *)
(****************************************************************************)
EXTENDS Connection, Output

CONSTANTS
    Clients,    \* clients (each may connect again and again)
    NoClient,
    Requests,   \* the requests they send
    Inbuf,      \* INBUF_SIZE, in pieces of a request
    Period,     \* seconds between two refreshes: 3
    Start,      \* wall clock when the server starts; bound: it is not set back further
    MaxClock,   \* bound: last value of the wall clock
    MaxPieces   \* bound: pieces of one sample

(* line: a GET line with HTTP/1.1 that is neither too short nor too long;   *)
(* edge: its location has exactly URL_LEN bytes and no terminator.          *)
(* args: of showsamp, bad when timestamp or lables is missing; of template, *)
(* none when type is missing, bad when it is unknown.                       *)
(* pieces: how many pieces end with the blank line.                         *)
Request ==
    [line : {"good", "edge", "bad"},
     route : {"page", "template", "showsamp", "unknown"},
     args : {"good", "bad", "none"},
     encoding : {"absent", "none", "deflate", "other"},
     labels : {"good", "bad"},
     pieces : 1 .. Inbuf + 1]

ASSUME ClientsAssumption  == NoClient \notin Clients
ASSUME RequestsAssumption == Inbuf \in Nat \ {0} /\ Requests \subseteq Request
ASSUME ClockAssumption    == /\ Period \in Nat /\ MaxClock \in Nat
                             /\ Start \in 0 .. MaxClock /\ MaxPieces \in Nat

VARIABLES
    client,     \* client -> what it has done so far
    queue,      \* type -> clients in the listener's backlog, oldest first
    turn,       \* the listener epoll reported last
    clock,      \* wall clock, in seconds
    pc,         \* where the thread is
    who,        \* the client of the connection being served
    req,        \* what it asks
    inbytes,    \* pieces of it in inbuf
    wire,       \* messages written to the connection
    update,     \* static update of httpd_update_cache
    lastpass    \* clock when the loop's last refresh began

clientVars == <<client, queue>>
servVars   == <<turn, who, req, inbytes, wire>>
passVars   == <<update, lastpass>>
vars       == <<connVars, defop, clientVars, servVars, passVars, clock, pc>>

NoReq == [line |-> "none"]
Away  == [at |-> "away", type |-> "none", req |-> NoReq, sent |-> 0,
          shut |-> FALSE, hand |-> "none"]

ClientType ==
    [at : {"away", "queued", "served", "dropped"}, type : Types \cup {"none"},
     req : Requests \cup {NoReq}, sent : Nat, shut : BOOLEAN,
     hand : {"none", "pending", "good", "bad"}]

(* A piece of a sample, and a message: a status line, headers and body, of  *)
(* which the client may get a part only.                                    *)
Piece   == [by : Clients \cup {NoClient}, part : {"error", "open", "label", "close"}]
Message == [status : {200, 404}, encoding : Encodings, body : Seq(Piece),
            intact : BOOLEAN]

Init ==
    /\ ConnInit /\ OutputInit
    /\ client = [c \in Clients |-> Away]
    /\ queue = [t \in Types |-> <<>>]
    /\ turn = "none"
    /\ clock = Start
    /\ pc = "wait"
    /\ who = NoClient /\ req = NoReq /\ inbytes = 0 /\ wire = <<>>
    /\ update = 0 /\ lastpass = 0      \* main's own pass does not count

----------------------------------------------------------------------------
(* The clients and the clock.                                               *)

serverVars == <<connVars, defop, servVars, passVars, pc>>

Connect(c, t, q) ==
    /\ client[c] = Away
    /\ client' = [client EXCEPT ![c] =
            [Away EXCEPT !.at = "queued", !.type = t, !.req = q,
                         !.hand = IF t = "tls" THEN "pending" ELSE "none"]]
    /\ queue' = [queue EXCEPT ![t] = Append(@, c)]
    /\ UNCHANGED <<serverVars, clock>>

Handshake(c, h) ==
    /\ client[c].hand = "pending" /\ ~client[c].shut
    /\ client' = [client EXCEPT ![c].hand = h]
    /\ UNCHANGED <<queue, serverVars, clock>>

Send(c) ==
    /\ client[c].at # "away" /\ ~client[c].shut
    /\ client[c].hand \in {"none", "good"}
    /\ client[c].sent < client[c].req.pieces
    /\ client' = [client EXCEPT ![c].sent = @ + 1]
    /\ UNCHANGED <<queue, serverVars, clock>>

HangUp(c) ==
    /\ client[c].at # "away" /\ ~client[c].shut
    /\ client' = [client EXCEPT ![c].shut = TRUE]
    /\ UNCHANGED <<queue, serverVars, clock>>

Tick ==
    /\ clock < MaxClock
    /\ clock' = clock + 1
    /\ UNCHANGED <<clientVars, serverVars>>

(* time() is the wall clock, which may be set back.                         *)
SetBack(t) ==
    /\ t < clock
    /\ clock' = t
    /\ UNCHANGED <<clientVars, serverVars>>

----------------------------------------------------------------------------
(* The event loop.                                                          *)

(* Mutant: the TLS listener waits until the other one is idle.              *)
ReportedTcpFirst(t) ==
    /\ queue[t] # <<>>
    /\ t = "tls" => \A u \in Types : queue[u] = <<>> \/ u = t

(* epoll_wait reports one listener; one that was reported goes behind the   *)
(* others that are ready.                                                   *)
Reported(t) ==
    /\ queue[t] # <<>>
    /\ t = turn => \A u \in Types : queue[u] = <<>> \/ u = t

Forget(c) == client' = [client EXCEPT ![c] = Away]

(* The end of an iteration: free(conn).                                     *)
FreeConn ==
    /\ pc' = "wait"
    /\ conn' = NoConn
    /\ who' = NoClient /\ req' = NoReq /\ inbytes' = 0 /\ wire' = <<>>

Polled(t) == pc = "wait" /\ Reported(t) /\ turn' = t

(* accept takes the oldest client and leaves it at the given place.         *)
Take(t, at) ==
    /\ queue' = [queue EXCEPT ![t] = Tail(@)]
    /\ who' = Head(queue[t])
    /\ client' = [client EXCEPT ![Head(queue[t])].at = at]
    /\ UNCHANGED <<defop, req, inbytes, wire, passVars, clock>>

Accept(t) ==
    /\ Polled(t)
    /\ Take(t, "served")
    /\ \E d \in Fds : conn_accept(t, d)
    /\ pc' = IF t = "tls" THEN "ssl" ELSE "read"

(* accept fails for want of a descriptor or of memory: the client stays in  *)
(* the backlog and is reported again.                                       *)
AcceptFails(t) ==
    /\ Polled(t)
    /\ UNCHANGED <<connVars, defop, pc, clientVars, who, req, inbytes, wire,
                   passVars, clock>>

(* accept fails with the error of a connection that its client gave up.     *)
AcceptAborted(t) ==
    /\ Polled(t)
    /\ client[Head(queue[t])].shut
    /\ queue' = [queue EXCEPT ![t] = Tail(@)]
    /\ Forget(Head(queue[t]))
    /\ UNCHANGED <<connVars, defop, pc, who, req, inbytes, wire, passVars, clock>>

(* SSL_new fails, or there is no context: conn_accept fails with a          *)
(* descriptor in the connection.                                            *)
SslNewFails(t) ==
    /\ Polled(t)
    /\ Take(t, "dropped")
    /\ \E d \in Fds : conn_accept_bare(t, d)
    /\ pc' = "drop"

(* SSL_accept waits for the client, however long it takes.  When it fails,  *)
(* its -errno may be 0 and pass for success.                                *)
HandshakeOver(c) == client[c].hand # "pending" \/ client[c].shut

SslAccept ==
    /\ pc = "ssl"
    /\ HandshakeOver(who)
    /\ IF client[who].hand = "good"
       THEN conn' = [conn EXCEPT !.ssl = "up"]     /\ pc' = "read"
       ELSE conn' = [conn EXCEPT !.ssl = "broken"] /\ pc' \in {"read", "drop"}
    /\ UNCHANGED <<fds, ssls, defop, clientVars, servVars, passVars, clock>>

(* conn_accept failed: conn_close and free, without a refresh.              *)
Drop ==
    /\ pc = "drop"
    /\ Release
    /\ Forget(who)
    /\ FreeConn
    /\ UNCHANGED <<defop, queue, turn, passVars, clock>>

----------------------------------------------------------------------------
(* httpd_handle_request: the read loop.                                     *)

(* 100 ms are over, or poll or read failed.                                 *)
ReadGivesUp ==
    /\ pc = "read"
    /\ pc' = "close"
    /\ UNCHANGED <<connVars, defop, clientVars, servVars, passVars, clock>>

(* Mutant: the read is not limited to what is left of the buffer.           *)
ArrivedAll(c) == client[c].sent

(* What one read takes: all that has arrived and fits.                      *)
Arrived(c) == IF client[c].sent > Inbuf THEN Inbuf ELSE client[c].sent

(* strstr runs over the end of a buffer that is full, so that it may find   *)
(* a blank line which is not in it.                                         *)
MayEnd(n, q) == n >= q.pieces \/ n = Inbuf

Read ==
    /\ pc = "read"
    /\ Usable(conn)
    /\ Arrived(who) > inbytes
    /\ inbytes' = Arrived(who)
    /\ req' = client[who].req
    /\ \/ MayEnd(inbytes', req') /\ pc' = "process"
       \/ inbytes' < req'.pieces /\ inbytes' = Inbuf /\ pc' = "close"
       \/ inbytes' < req'.pieces /\ inbytes' < Inbuf /\ pc' = "read"
    /\ UNCHANGED <<connVars, defop, clientVars, turn, who, wire, passVars, clock>>

----------------------------------------------------------------------------
(* The responses.                                                           *)

Msg(status, encoding, body) ==
    [status |-> status, encoding |-> encoding, body |-> body, intact |-> TRUE]

(* A write sends the message, a part of it, or nothing (the client is gone, *)
(* or does not read for five seconds).  The result is ignored.              *)
Written(w, m) ==
    {w} \cup IF Usable(conn)
             THEN { Append(w, m), Append(w, [m EXCEPT !.intact = FALSE]) }
             ELSE {}

(* http_response_200: write and close.                                      *)
http_response_200(w, m) ==
    /\ wire' \in Written(w, m)
    /\ conn_close
    /\ Forget(who)
    /\ pc' = "close"

(* The text responses and the static pages are not encoded.                 *)
RespondText ==
    /\ http_response_200(wire, Msg(200, "none", <<>>))
    /\ UNCHANGED <<queue, turn, who, req, inbytes, passVars, clock>>

Process == pc = "process" /\ req.line # "bad"

Refuse ==
    /\ pc = "process" /\ req.line = "bad"
    /\ pc' = "close"
    /\ UNCHANGED <<connVars, defop, clientVars, servVars, passVars, clock>>

(* An unknown location or template, or one of URL_LEN bytes.                *)
IsNotFound(q) ==
    \/ q.line = "edge"
    \/ q.route = "unknown"
    \/ q.route = "template" /\ q.args = "bad"

NotFound ==
    /\ Process
    /\ IsNotFound(req)
    /\ wire' \in Written(wire, Msg(404, "none", <<>>))
    /\ pc' = "close"
    /\ UNCHANGED <<connVars, defop, clientVars, turn, who, req, inbytes,
                   passVars, clock>>

(* ping, help, the pages, scripts and templates.                            *)
Page ==
    /\ Process
    /\ \/ req.route = "page"
       \/ req.route = "template" /\ req.args = "good"
    /\ RespondText
    /\ UNCHANGED defop

(* http_get_template without a type.                                        *)
Mute ==
    /\ Process
    /\ req.route = "template" /\ req.args = "none"
    /\ pc' = "close"
    /\ UNCHANGED <<connVars, defop, clientVars, servVars, passVars, clock>>

----------------------------------------------------------------------------
(* http_showsamp                                                            *)

MissingArgument ==
    /\ Process
    /\ req.route = "showsamp" /\ req.args # "good"
    /\ RespondText
    /\ UNCHANGED defop

(* Mutant: a request that names no encoding does not reset it.              *)
ChosenEncodingOrOld(q) ==
    CASE q.encoding = "none"                                    -> "none"
      [] q.encoding = "absent" /\ defop.encoding # "unset" -> defop.encoding
      [] OTHER                                                   -> "deflate"

(* The encoding to use: deflate unless the request says none.               *)
ChosenEncoding(q) == IF q.encoding = "none" THEN "none" ELSE "deflate"

BadEncoding ==
    /\ Process
    /\ req.route = "showsamp" /\ req.args = "good" /\ req.encoding = "other"
    /\ defop' = [defop EXCEPT !.encoding = ChosenEncoding(req)]
    /\ RespondText

Showsamp ==
    /\ Process
    /\ req.route = "showsamp" /\ req.args = "good" /\ req.encoding # "other"
    /\ defop' = [defop EXCEPT !.encoding = ChosenEncoding(req)]
    /\ \/ RespondText                     \* no sample
       \/ /\ pc' \in {"json", "close"}    \* a sample, or an error read as 0
          /\ UNCHANGED <<connVars, clientVars, servVars, passVars, clock>>

----------------------------------------------------------------------------
(* jsonout                                                                  *)

Emit(part, n) == defop' = output_buf(defop, [by |-> who, part |-> part], n)

otherVars == <<connVars, clientVars, servVars, passVars, clock>>

(* jsondef meets a label it does not know: the message is all there is.     *)
JsonError(n) ==
    /\ pc = "json" /\ req.labels = "bad"
    /\ Emit("error", n)
    /\ pc' = "done"
    /\ UNCHANGED otherVars

JsonOpen(n) ==
    /\ pc = "json" /\ req.labels = "good"
    /\ Emit("open", n)
    /\ pc' = "labels"
    /\ UNCHANGED otherVars

JsonLabel(n) ==
    /\ pc = "labels"
    /\ Len(defop.buf) < MaxPieces
    /\ Emit("label", n)
    /\ UNCHANGED <<pc, otherVars>>

JsonClose(n) ==
    /\ pc = "labels"
    /\ Emit("close", n)
    /\ pc' = "done"
    /\ UNCHANGED otherVars

(* output_samp_done: http_show_samp_done, then empty the buffer.  compress  *)
(* fails when the result is longer than its input, and the response to that *)
(* is not the last one.                                                     *)
SampleMsg(op) == Msg(200, op.encoding, op.buf)

SampDonePlain ==
    /\ pc = "done" /\ defop.encoding = "none"
    /\ http_response_200(wire, SampleMsg(defop))
    /\ defop' = Emptied(defop)
    /\ UNCHANGED <<queue, turn, who, req, inbytes, passVars, clock>>

SampDoneDeflate ==
    /\ pc = "done" /\ defop.encoding # "none"
    /\ http_response_200(wire, SampleMsg(defop))
    /\ defop' = Emptied(defop)
    /\ UNCHANGED <<queue, turn, who, req, inbytes, passVars, clock>>

SampDoneCompressFails ==
    /\ pc = "done" /\ defop.encoding # "none"
    /\ \E w \in Written(wire, Msg(404, "none", <<>>)) :
          http_response_200(w, [SampleMsg(defop) EXCEPT !.intact = FALSE])
    /\ defop' = Emptied(defop)
    /\ UNCHANGED <<queue, turn, who, req, inbytes, passVars, clock>>

----------------------------------------------------------------------------
(* The end of httpd_handle_request, and httpd_update_cache.                 *)

CloseConn ==
    /\ pc = "close"
    /\ conn_close
    /\ IF conn.fd # NoFd THEN Forget(who) ELSE UNCHANGED client
    /\ pc' = "update"
    /\ UNCHANGED <<defop, queue, servVars, passVars, clock>>

TooSoon(now) == now - update < Period

Throttle ==
    /\ pc = "update"
    /\ TooSoon(clock)
    /\ FreeConn
    /\ UNCHANGED <<fds, ssls, defop, clientVars, turn, passVars, clock>>

PassBegins ==
    /\ pc = "update"
    /\ ~TooSoon(clock)
    /\ lastpass' = clock
    /\ pc' = "pass"
    /\ UNCHANGED <<connVars, defop, clientVars, servVars, update, clock>>

(* Mutant: the next refresh is counted from the end of this one.            *)
PassEndsLate ==
    /\ pc = "pass"
    /\ update' = clock
    /\ FreeConn
    /\ UNCHANGED <<fds, ssls, defop, clientVars, turn, lastpass, clock>>

(* update gets the time read before the pass, whatever the pass returned.   *)
PassEnds ==
    /\ pc = "pass"
    /\ update' = lastpass
    /\ FreeConn
    /\ UNCHANGED <<fds, ssls, defop, clientVars, turn, lastpass, clock>>

----------------------------------------------------------------------------
Environment ==
    \/ \E c \in Clients, t \in Types, q \in Requests : Connect(c, t, q)
    \/ \E c \in Clients, h \in {"good", "bad"} : Handshake(c, h)
    \/ \E c \in Clients : Send(c) \/ HangUp(c)
    \/ Tick
    \/ \E t \in Start .. MaxClock : SetBack(t)

Server ==
    \/ \E t \in Types : Accept(t) \/ AcceptFails(t) \/ AcceptAborted(t) \/ SslNewFails(t)
    \/ SslAccept \/ Drop
    \/ ReadGivesUp \/ Read
    \/ Refuse \/ NotFound \/ Page \/ Mute
    \/ MissingArgument \/ BadEncoding \/ Showsamp
    \/ \E n \in Sizes : JsonError(n) \/ JsonOpen(n) \/ JsonLabel(n) \/ JsonClose(n)
    \/ SampDonePlain \/ SampDoneDeflate \/ SampDoneCompressFails
    \/ CloseConn \/ Throttle \/ PassBegins \/ PassEnds

Next == Environment \/ Server

(* The thread goes on when it can, and accept does not fail for ever on a   *)
(* listener: the server holds no connection while it waits, so that what it *)
(* lacks is held by others for a while.  Nothing is assumed of the clients. *)
Fairness == WF_vars(Server) /\ \A t \in Types : SF_vars(Accept(t))

Spec == Init /\ [][Next]_vars /\ Fairness
----------------------------------------------------------------------------
(* Properties                                                               *)

ClientsOK ==
    /\ client \in [Clients -> ClientType]
    /\ queue \in [Types -> Seq(Clients)]
    /\ clock \in 0 .. MaxClock

DefopOK ==
    defop \in [size : Nat, offset : Nat, buf : Seq(Piece), encoding : Encodings]

ServerOK ==
    /\ conn \in ConnType /\ fds \subseteq Fds /\ ssls \in Int
    /\ turn \in Types \cup {"none"}
    /\ pc \in {"wait", "ssl", "drop", "read", "process", "json", "labels", "done",
               "close", "update", "pass"}
    /\ who \in Clients \cup {NoClient}
    /\ req \in Requests \cup {NoReq}
    /\ inbytes \in 0 .. Inbuf
    /\ wire \in Seq(Message)
    /\ update \in Nat /\ lastpass \in Nat

(* The variables have the types of the C variables they stand for, and the  *)
(* read loop never counts more input than inbuf holds.                      *)
HttpdTypeOK == ClientsOK /\ DefopOK /\ ServerOK

(* What the connection object refers to is what the process has open: the   *)
(* descriptor in it is open (so that the second conn_close of a request     *)
(* never closes one twice, or one that is not its own), and nothing is open *)
(* that it does not refer to.  In particular, whenever the server waits for *)
(* the next client, every descriptor and SSL object has been released, on   *)
(* each of the paths that end a connection.                                 *)
ConnOwnsAll ==
    /\ fds = {conn.fd} \ {NoFd}
    /\ ssls = IF conn.ssl = "none" THEN 0 ELSE 1
    /\ pc = "wait" => conn = NoConn

(* One sample, from its opening to its closing brace, or one error message. *)
OneSample(b) ==
    \/ Len(b) = 1 /\ b[1].part = "error"
    \/ /\ Len(b) >= 2
       /\ \A k \in DOMAIN b : b[k].part =
             IF k = 1 THEN "open" ELSE IF k = Len(b) THEN "close" ELSE "label"

(* All requests share defop, yet a client gets the one sample printed for   *)
(* it, nothing an earlier request left in the buffer, in the encoding that  *)
(* it asked for and not the one an earlier request set.                     *)
BodyIsOwn ==
    \A i \in DOMAIN wire : wire[i].body # <<>> =>
        /\ OneSample(wire[i].body)
        /\ \A k \in DOMAIN wire[i].body : wire[i].body[k].by = who
        /\ wire[i].encoding = IF req.encoding = "none" THEN "none" ELSE "deflate"

(* A request that ends starts a refresh exactly when the last one began     *)
(* three seconds ago or more, however long that one took.                   *)
RefreshPaced ==
    [][(pc = "update" /\ pc' # pc) =>
            (pc' = "pass" <=> clock - lastpass >= Period)]_vars

(* As long as no TLS handshake hangs, a client in a backlog that does not   *)
(* hang up is accepted and handed to the handshake or the read loop,        *)
(* whatever goes wrong for the others: they send nothing or hang up, accept *)
(* fails and has to be tried again, SSL_new fails for them, or they connect *)
(* again all the time to the other listener.                                *)
Served ==
    []<>(pc # "ssl") =>
        \A c \in Clients :
            [](client[c].at # "dropped") =>
                (client[c].at = "queued" ~> client[c].at = "served" \/ client[c].shut)

(* A connection carries one response: "provide a HTTP 1.1 service".         *)
OneStatusLine == Len(wire) <= 1
=============================================================================

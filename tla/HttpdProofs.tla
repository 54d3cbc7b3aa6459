----------------------------- MODULE HttpdProofs -----------------------------
(****************************************************************************)
(* Theorems about Httpd, for any clients, requests, sizes and bounds.       *)
(****************************************************************************)
EXTENDS Httpd, TLAPS

----------------------------------------------------------------------------
(* Types                                                                    *)

(* While the server is not waiting it has a client.                         *)
Serving == pc # "wait" => who \in Clients

HttpdTypeInv == HttpdTypeOK /\ Serving

(* A message that is cut off is a message.                                  *)
LEMMA CutType ==
    ASSUME NEW m \in Message
    PROVE  [m EXCEPT !.intact = FALSE] \in Message
  BY DEF Message

(* A write leaves a sequence of messages.                                   *)
LEMMA WrittenType ==
    ASSUME NEW w \in Seq(Message), NEW m \in Message
    PROVE  Written(w, m) \subseteq Seq(Message)
<1>1. [m EXCEPT !.intact = FALSE] \in Message
  BY CutType, Zenon
<1>2. QED
  BY <1>1 DEF Written

LEMMA MsgType ==
    ASSUME NEW s \in {200, 404}, NEW e \in Encodings, NEW b \in Seq(Piece)
    PROVE  /\ Msg(s, e, b) \in Message
           /\ [Msg(s, e, b) EXCEPT !.intact = FALSE] \in Message
  BY DEF Msg, Message

LEMMA EmptyMsgType == Msg(200, "none", <<>>) \in Message /\ Msg(404, "none", <<>>) \in Message
<1>1. <<>> \in Seq(Piece) /\ "none" \in Encodings
  BY DEF Encodings
<1>2. QED
  BY <1>1 DEF Msg, Message

LEMMA NotFoundType ==
    ASSUME ServerOK PROVE Written(wire, Msg(404, "none", <<>>)) \subseteq Seq(Message)
  BY WrittenType, EmptyMsgType DEF ServerOK

(* The steps that free or forget.                                           *)
LEMMA AwayType == Away \in ClientType
  BY DEF Away, ClientType

LEMMA ForgetType ==
    ASSUME client \in [Clients -> ClientType], NEW c, Forget(c)
    PROVE  client' \in [Clients -> ClientType]
  BY AwayType DEF Forget

LEMMA CloseType ==
    ASSUME ServerOK, conn_close
    PROVE  /\ conn' \in ConnType /\ fds' \subseteq Fds /\ ssls' \in Int
<1>1. conn \in ConnType /\ fds \subseteq Fds /\ ssls \in Int
  BY DEF ServerOK
<1>2. conn' \in ConnType
  BY <1>1 DEF conn_close, Released, ConnType
<1>3. fds' \subseteq Fds /\ ssls' \in Int
  BY <1>1 DEF conn_close, Release
<1>4. QED
  BY <1>2, <1>3

(* A print appends a piece to the buffer.                                   *)
LEMMA EmitType ==
    ASSUME DefopOK, who \in Clients \cup {NoClient}, NEW n \in Sizes,
           NEW part \in {"error", "open", "label", "close"}, Emit(part, n)
    PROVE  DefopOK'
<1>1. n \in Nat
  BY SizesAssumption
<1>2. [by |-> who, part |-> part] \in Piece
  BY DEF Piece
<1>3. GrownFor(Allocated(defop.size), defop.offset, n) \in Nat
  BY <1>1, SizesAssumption DEF DefopOK, GrownFor, Allocated
<1>4. Append(defop.buf, [by |-> who, part |-> part]) \in Seq(Piece)
  BY <1>2 DEF DefopOK
<1>5. defop.offset + n \in Nat
  BY <1>1 DEF DefopOK
<1>6. QED
  BY <1>3, <1>4, <1>5 DEF DefopOK, Emit, output_buf

LEMMA HttpdInitType == Init => HttpdTypeInv
<1> SUFFICES ASSUME Init PROVE HttpdTypeInv
  OBVIOUS
<1>1. ClientsOK
  BY AwayType, ClockAssumption DEF Init, ClientsOK
<1>2. DefopOK
  BY DEF Init, OutputInit, DefopOK, Encodings
<1>3. ServerOK
  BY RequestsAssumption DEF Init, ConnInit, NoConn, NoFd, ConnType, ServerOK
<1>4. Serving
  BY DEF Init, Serving
<1>5. QED
  BY <1>1, <1>2, <1>3, <1>4 DEF HttpdTypeInv, HttpdTypeOK

LEMMA EnvironmentType == HttpdTypeInv /\ Environment => HttpdTypeInv'
<1> SUFFICES ASSUME HttpdTypeInv, Environment PROVE HttpdTypeInv'
  OBVIOUS
<1> USE DEF HttpdTypeInv, HttpdTypeOK
<1>1. UNCHANGED serverVars
  BY DEF Environment, Connect, Handshake, Send, HangUp, Tick, SetBack
<1>2. DefopOK' /\ ServerOK' /\ Serving'
  BY <1>1 DEF serverVars, connVars, servVars, passVars, DefopOK, ServerOK, Serving
<1>3. ASSUME NEW c \in Clients, NEW t \in Types, NEW q \in Requests, Connect(c, t, q)
      PROVE  ClientsOK'
  <2>1. [Away EXCEPT !.at = "queued", !.type = t, !.req = q,
                     !.hand = IF t = "tls" THEN "pending" ELSE "none"] \in ClientType
    BY DEF Away, ClientType
  <2>2. QED
    BY <1>3, <2>1 DEF ClientsOK, Connect
<1>4. ASSUME NEW c \in Clients, NEW h \in {"good", "bad"}, Handshake(c, h)
      PROVE  ClientsOK'
  <2>1. [client[c] EXCEPT !.hand = h] \in ClientType
    BY DEF ClientsOK, ClientType
  <2>2. QED
    BY <1>4, <2>1 DEF ClientsOK, Handshake
<1>5. ASSUME NEW c \in Clients, Send(c) PROVE ClientsOK'
  <2>1. client[c] \in ClientType
    BY DEF ClientsOK
  <2>2. [client[c] EXCEPT !.sent = @ + 1] \in ClientType
    BY <2>1 DEF ClientType
  <2>3. QED
    BY <1>5, <2>2 DEF ClientsOK, Send
<1>6. ASSUME NEW c \in Clients, HangUp(c) PROVE ClientsOK'
  <2>1. [client[c] EXCEPT !.shut = TRUE] \in ClientType
    BY DEF ClientsOK, ClientType
  <2>2. QED
    BY <1>6, <2>1 DEF ClientsOK, HangUp
<1>7. ASSUME Tick PROVE ClientsOK'
  BY <1>7, ClockAssumption DEF Tick, clientVars, ClientsOK
<1>8. ASSUME NEW t \in Start .. MaxClock, SetBack(t) PROVE ClientsOK'
  <2>1. t \in 0 .. MaxClock
    BY ClockAssumption
  <2>2. QED
    BY <1>8, <2>1 DEF SetBack, clientVars, ClientsOK
<1>9. ClientsOK'
  BY <1>3, <1>4, <1>5, <1>6, <1>7, <1>8 DEF Environment
<1>10. QED
  BY <1>2, <1>9

(* The steps of the event loop: accept, handshake, read.                    *)
Arrive == \/ \E t \in Types : Accept(t) \/ AcceptFails(t) \/ AcceptAborted(t) \/ SslNewFails(t)
          \/ SslAccept \/ Drop \/ ReadGivesUp \/ Read

(* accept makes the oldest client of a backlog the one that is served.      *)
LEMMA TakeType ==
    ASSUME ClientsOK, NEW t \in Types, Polled(t), NEW at \in {"served", "dropped"}, Take(t, at)
    PROVE  /\ client' \in [Clients -> ClientType]
           /\ queue' \in [Types -> Seq(Clients)]
           /\ who' \in Clients
<1>1. Head(queue[t]) \in Clients /\ Tail(queue[t]) \in Seq(Clients)
  BY DEF Polled, Reported, ClientsOK
<1>2. [client[Head(queue[t])] EXCEPT !.at = at] \in ClientType
  BY <1>1 DEF ClientsOK, ClientType
<1>3. QED
  BY <1>1, <1>2 DEF Take, ClientsOK

(* The connection it fills is a connection, with an SSL object or without.  *)
LEMMA AcceptedType ==
    ASSUME ServerOK, NEW t \in Types, NEW d \in Fds, conn_accept(t, d) \/ conn_accept_bare(t, d)
    PROVE  conn' \in ConnType /\ fds' \subseteq Fds /\ ssls' \in Int
  BY DEF conn_accept, conn_accept_bare, LowestFree, ConnType, ServerOK

(* The end of an iteration leaves values of the right types.                *)
LEMMA FreeConnType ==
    ASSUME FreeConn
    PROVE  /\ conn' \in ConnType /\ pc' = "wait" /\ who' \in Clients \cup {NoClient}
           /\ req' \in Requests \cup {NoReq} /\ inbytes' \in 0 .. Inbuf /\ wire' \in Seq(Message)
<1>1. NoConn \in ConnType
  BY DEF NoConn, NoFd, ConnType
<1>2. <<>> \in Seq(Message) /\ 0 \in 0 .. Inbuf
  BY RequestsAssumption
<1>3. QED
  BY <1>1, <1>2 DEF FreeConn

LEMMA ArriveType == HttpdTypeInv /\ Arrive => HttpdTypeInv'
<1> SUFFICES ASSUME HttpdTypeInv, Arrive PROVE HttpdTypeInv'
  OBVIOUS
<1> USE DEF HttpdTypeInv, HttpdTypeOK
<1>1. ASSUME NEW t \in Types, NEW at \in {"served", "dropped"}, NEW d \in Fds,
             Polled(t), Take(t, at), conn_accept(t, d) \/ conn_accept_bare(t, d),
             pc' \in {"ssl", "read", "drop"}
      PROVE  HttpdTypeInv'
  <2>1. client' \in [Clients -> ClientType] /\ queue' \in [Types -> Seq(Clients)] /\ who' \in Clients
    BY <1>1, TakeType
  <2>2. conn' \in ConnType /\ fds' \subseteq Fds /\ ssls' \in Int
    BY <1>1, AcceptedType
  <2>3. turn' = t /\ UNCHANGED <<defop, req, inbytes, wire, passVars, clock>>
    BY <1>1 DEF Polled, Take
  <2>4. ClientsOK' /\ DefopOK'
    BY <2>1, <2>3 DEF ClientsOK, DefopOK
  <2>5. ServerOK' /\ Serving'
    BY <1>1, <2>1, <2>2, <2>3 DEF ServerOK, Serving, passVars
  <2>6. QED
    BY <2>4, <2>5
<1>2. ASSUME NEW t \in Types, Accept(t) \/ SslNewFails(t) PROVE HttpdTypeInv'
  <2>1. CASE Accept(t)
    BY <1>1, <2>1 DEF Accept
  <2>2. CASE SslNewFails(t)
    BY <1>1, <2>2 DEF SslNewFails
  <2>3. QED
    BY <1>2, <2>1, <2>2
<1>3. ASSUME NEW t \in Types, AcceptFails(t) \/ AcceptAborted(t) PROVE HttpdTypeInv'
  <2>1. ClientsOK'
    <3>1. CASE AcceptFails(t)
      BY <3>1 DEF AcceptFails, clientVars, ClientsOK
    <3>2. CASE AcceptAborted(t)
      <4>1. Tail(queue[t]) \in Seq(Clients)
        BY <3>2 DEF AcceptAborted, Polled, Reported, ClientsOK
      <4>2. QED
        BY <3>2, <4>1, ForgetType DEF AcceptAborted, ClientsOK
    <3>3. QED
      BY <1>3, <3>1, <3>2
  <2>2. QED
    BY <1>3, <2>1 DEF AcceptFails, AcceptAborted, Polled, ServerOK, DefopOK, Serving,
                      connVars, passVars
<1>4. CASE SslAccept
  <2>1. who \in Clients
    BY <1>4 DEF SslAccept, Serving
  <2>2. conn' \in ConnType
    BY <1>4 DEF SslAccept, ConnType, ServerOK
  <2>3. QED
    BY <1>4, <2>1, <2>2 DEF SslAccept, ClientsOK, ServerOK, DefopOK, Serving, clientVars,
                            servVars, passVars
<1>5. CASE Drop
  <2>1. fds' \subseteq Fds /\ ssls' \in Int
    BY <1>5 DEF Drop, Release, ServerOK
  <2>2. ClientsOK'
    BY <1>5, ForgetType DEF Drop, ClientsOK
  <2>3. FreeConn /\ UNCHANGED <<defop, turn, passVars>>
    BY <1>5 DEF Drop
  <2>4. QED
    BY <2>1, <2>2, <2>3, FreeConnType DEF ServerOK, DefopOK, Serving, passVars
<1>6. CASE ReadGivesUp
  BY <1>6 DEF ReadGivesUp, ClientsOK, ServerOK, DefopOK, Serving, connVars,
              clientVars, servVars, passVars
<1>7. CASE Read
  <2>1. who \in Clients
    BY <1>7 DEF Read, Serving
  <2>2. Arrived(who) \in 0 .. Inbuf /\ client[who].req \in Requests \cup {NoReq}
    BY <2>1, RequestsAssumption DEF Arrived, ClientsOK, ClientType
  <2>3. QED
    BY <1>7, <2>1, <2>2 DEF Read, ClientsOK, ServerOK, DefopOK, Serving, connVars,
                            clientVars, passVars
<1>8. QED
  BY <1>2, <1>3, <1>4, <1>5, <1>6, <1>7 DEF Arrive

(* The dispatcher.                                                          *)
Dispatch == Refuse \/ NotFound \/ Page \/ Mute \/ MissingArgument \/ BadEncoding \/ Showsamp

LEMMA RespondTextType ==
    ASSUME HttpdTypeInv, RespondText, who \in Clients PROVE ClientsOK' /\ ServerOK' /\ Serving'
<1>1. wire' \in Seq(Message)
  BY WrittenType, EmptyMsgType
  DEF RespondText, http_response_200, HttpdTypeInv, HttpdTypeOK, ServerOK
<1>2. conn' \in ConnType /\ fds' \subseteq Fds /\ ssls' \in Int
  BY CloseType DEF RespondText, http_response_200, HttpdTypeInv, HttpdTypeOK
<1>3. ClientsOK'
  BY ForgetType DEF RespondText, http_response_200, HttpdTypeInv, HttpdTypeOK, ClientsOK
<1>4. QED
  BY <1>1, <1>2, <1>3
  DEF RespondText, http_response_200, HttpdTypeInv, HttpdTypeOK, ServerOK, Serving, passVars

LEMMA DispatchType == HttpdTypeInv /\ Dispatch => HttpdTypeInv'
<1> SUFFICES ASSUME HttpdTypeInv, Dispatch PROVE HttpdTypeInv'
  OBVIOUS
<1>1. who \in Clients
  BY DEF HttpdTypeInv, Serving, Dispatch, Process, Refuse, NotFound, Page, Mute,
         MissingArgument, BadEncoding, Showsamp
<1>2. CASE Refuse \/ Mute
  BY <1>1, <1>2 DEF Refuse, Mute, HttpdTypeInv, HttpdTypeOK, ClientsOK, ServerOK, DefopOK,
              Serving, connVars, clientVars, servVars, passVars
<1>3. CASE NotFound
  <2>1. wire' \in Seq(Message)
    BY <1>3, NotFoundType DEF NotFound, HttpdTypeInv, HttpdTypeOK
  <2>2. QED
    BY <1>1, <1>3, <2>1 DEF NotFound, HttpdTypeInv, HttpdTypeOK, ClientsOK, ServerOK,
              DefopOK, Serving, connVars, clientVars, passVars
<1>4. CASE Page \/ MissingArgument
  BY <1>1, <1>4, RespondTextType
  DEF Page, MissingArgument, HttpdTypeInv, HttpdTypeOK, DefopOK
<1>5. CASE BadEncoding \/ Showsamp
  <2>1. DefopOK'
    BY <1>5 DEF BadEncoding, Showsamp, ChosenEncoding, HttpdTypeInv, HttpdTypeOK,
                DefopOK, Encodings
  <2>2. CASE RespondText
    BY <1>1, <2>1, <2>2, RespondTextType DEF HttpdTypeInv, HttpdTypeOK
  <2>3. CASE Showsamp /\ ~RespondText
    BY <1>1, <2>1, <2>3 DEF Showsamp, HttpdTypeInv, HttpdTypeOK, ClientsOK, ServerOK,
              Serving, connVars, clientVars, servVars, passVars
  <2>4. QED
    BY <1>5, <2>2, <2>3 DEF BadEncoding
<1>6. QED
  BY <1>2, <1>3, <1>4, <1>5 DEF Dispatch

(* jsonout and output_samp_done.                                            *)
Sample == \/ \E n \in Sizes : JsonError(n) \/ JsonOpen(n) \/ JsonLabel(n) \/ JsonClose(n)
          \/ SampDonePlain \/ SampDoneDeflate \/ SampDoneCompressFails

LEMMA SampleType == HttpdTypeInv /\ Sample => HttpdTypeInv'
<1> SUFFICES ASSUME HttpdTypeInv, Sample PROVE HttpdTypeInv'
  OBVIOUS
<1> USE DEF HttpdTypeInv, HttpdTypeOK
<1>1. who \in Clients
  BY DEF Serving, Sample, JsonError, JsonOpen, JsonLabel, JsonClose,
         SampDonePlain, SampDoneDeflate, SampDoneCompressFails
<1>2. ASSUME NEW n \in Sizes, JsonError(n) \/ JsonOpen(n) \/ JsonLabel(n) \/ JsonClose(n)
      PROVE  HttpdTypeInv'
  <2>1. DefopOK'
    BY <1>1, <1>2, EmitType DEF JsonError, JsonOpen, JsonLabel, JsonClose
  <2>2. UNCHANGED otherVars /\ pc' \in {"labels", "done"}
    BY <1>2 DEF JsonError, JsonOpen, JsonLabel, JsonClose
  <2>3. QED
    BY <1>1, <2>1, <2>2 DEF otherVars, ClientsOK, ServerOK, Serving, connVars,
                            clientVars, servVars, passVars
<1>3. ASSUME SampDonePlain \/ SampDoneDeflate \/ SampDoneCompressFails
      PROVE  HttpdTypeInv'
  <2>1. SampleMsg(defop) \in Message /\ [SampleMsg(defop) EXCEPT !.intact = FALSE] \in Message
    BY MsgType DEF SampleMsg, DefopOK
  <2>2. Written(wire, Msg(404, "none", <<>>)) \subseteq Seq(Message)
    BY NotFoundType
  <2>3. PICK w \in Seq(Message), m \in Message : http_response_200(w, m)
    <3>1. CASE SampDonePlain \/ SampDoneDeflate
      BY <2>1, <3>1 DEF SampDonePlain, SampDoneDeflate, ServerOK
    <3>2. CASE SampDoneCompressFails
      BY <2>1, <2>2, <3>2 DEF SampDoneCompressFails
    <3>3. QED
      BY <1>3, <3>1, <3>2
  <2>4. wire' \in Seq(Message)
    BY <2>3, WrittenType DEF http_response_200
  <2>5. conn' \in ConnType /\ fds' \subseteq Fds /\ ssls' \in Int
    BY <2>3, CloseType DEF http_response_200
  <2>6. client' \in [Clients -> ClientType]
    BY <2>3, ForgetType DEF http_response_200, ClientsOK
  <2>7. /\ defop' = Emptied(defop)
        /\ UNCHANGED <<queue, turn, who, req, inbytes, passVars, clock>>
    BY <1>3 DEF SampDonePlain, SampDoneDeflate, SampDoneCompressFails
  <2>8. DefopOK'
    <3>1. <<>> \in Seq(Piece)
      OBVIOUS
    <3>2. QED
      BY <2>7, <3>1 DEF DefopOK, Emptied
  <2>9. QED
    BY <1>1, <2>3, <2>4, <2>5, <2>6, <2>7, <2>8
    DEF http_response_200, ClientsOK, ServerOK, Serving, passVars
<1>4. QED
  BY <1>2, <1>3 DEF Sample

Conclude == CloseConn \/ Throttle \/ PassBegins \/ PassEnds

LEMMA ConcludeType == HttpdTypeInv /\ Conclude => HttpdTypeInv'
<1> SUFFICES ASSUME HttpdTypeInv, Conclude PROVE HttpdTypeInv'
  OBVIOUS
<1> USE DEF HttpdTypeInv, HttpdTypeOK
<1>1. CASE CloseConn
  <2>1. conn' \in ConnType /\ fds' \subseteq Fds /\ ssls' \in Int
    BY <1>1, CloseType DEF CloseConn
  <2>2. client' \in [Clients -> ClientType]
    BY <1>1, ForgetType DEF CloseConn, ClientsOK
  <2>3. QED
    BY <1>1, <2>1, <2>2 DEF CloseConn, ClientsOK, ServerOK, DefopOK, Serving,
                            servVars, passVars
<1>2. CASE Throttle \/ PassEnds
  <2>3. FreeConn /\ UNCHANGED <<fds, ssls, defop, clientVars, turn, lastpass, clock>>
        /\ update' \in Nat
    BY <1>2 DEF Throttle, PassEnds, passVars, ServerOK
  <2>4. QED
    BY <2>3, FreeConnType DEF ClientsOK, ServerOK, DefopOK, Serving, clientVars
<1>3. CASE PassBegins
  BY <1>3 DEF PassBegins, ClientsOK, ServerOK, DefopOK, Serving, connVars,
              clientVars, servVars
<1>4. QED
  BY <1>1, <1>2, <1>3 DEF Conclude

LEMMA ServerSteps == Server <=> Arrive \/ Dispatch \/ Sample \/ Conclude
  BY DEF Server, Arrive, Dispatch, Sample, Conclude

LEMMA HttpdNextType == HttpdTypeInv /\ [Next]_vars => HttpdTypeInv'
<1> SUFFICES ASSUME HttpdTypeInv, [Next]_vars PROVE HttpdTypeInv'
  OBVIOUS
<1>1. CASE UNCHANGED vars
  BY <1>1 DEF vars, connVars, clientVars, servVars, passVars, HttpdTypeInv,
              HttpdTypeOK, ClientsOK, DefopOK, ServerOK, Serving
<1>2. CASE Next
  BY <1>2, ServerSteps, EnvironmentType, ArriveType, DispatchType, SampleType,
     ConcludeType DEF Next
<1>3. QED
  BY <1>1, <1>2

(* Types are kept, and the read loop of httpd_handle_request never counts   *)
(* more input than inbuf holds, for any requests and any buffer size.       *)
THEOREM HttpdTypeCorrect == Spec => []HttpdTypeOK
<1>1. HttpdTypeInv => HttpdTypeOK
  BY DEF HttpdTypeInv
<1>2. QED
  BY <1>1, HttpdInitType, HttpdNextType, PTL DEF Spec

----------------------------------------------------------------------------
(* Descriptors and SSL objects                                              *)

(* From CloseConn on the connection has nothing left, and during SSL_accept *)
(* it has an SSL object.                                                    *)
Holds ==
    /\ pc = "ssl" => conn.ssl # "none"
    /\ pc \in {"update", "pass"} => conn.fd = NoFd /\ conn.ssl = "none"

OwnInv == HttpdTypeInv /\ ConnOwnsAll /\ Holds

(* conn_close releases everything, the first time and the second.           *)
LEMMA CloseReleases ==
    ASSUME OwnInv, conn_close
    PROVE  fds' = {} /\ ssls' = 0 /\ conn'.fd = NoFd /\ conn'.ssl = "none"
<1>1. conn \in ConnType
  BY DEF OwnInv, HttpdTypeInv, HttpdTypeOK, ServerOK
<1>2. fds' = {} /\ ssls' = 0
  BY DEF OwnInv, ConnOwnsAll, conn_close, Release
<1>3. conn'.fd = NoFd /\ conn'.ssl = "none"
  BY <1>1 DEF conn_close, Released, ConnType
<1>4. QED
  BY <1>2, <1>3

LEMMA KeptOwns ==
    ASSUME OwnInv, UNCHANGED connVars,
           pc' = pc \/ pc' \notin {"wait", "ssl", "update", "pass"}
    PROVE  ConnOwnsAll' /\ Holds'
  BY DEF OwnInv, ConnOwnsAll, Holds, connVars

LEMMA ArriveOwns == OwnInv /\ Arrive => ConnOwnsAll' /\ Holds'
<1> SUFFICES ASSUME OwnInv, Arrive PROVE ConnOwnsAll' /\ Holds'
  OBVIOUS
<1>0. conn \in ConnType
  BY DEF OwnInv, HttpdTypeInv, HttpdTypeOK, ServerOK
<1>1. ASSUME NEW t \in Types, Accept(t) \/ SslNewFails(t) PROVE ConnOwnsAll' /\ Holds'
  <2>1. fds = {} /\ ssls = 0
    BY <1>1 DEF OwnInv, ConnOwnsAll, Accept, SslNewFails, Polled, NoConn
  <2>2. PICK d \in Fds : \/ conn_accept(t, d) /\ pc' \in {"ssl", "read"} /\ (pc' = "ssl" => t = "tls")
                         \/ conn_accept_bare(t, d) /\ pc' = "drop"
    BY <1>1 DEF Accept, SslNewFails
  <2>3. d # NoFd
    BY FdsAssumption DEF NoFd
  <2>4. QED
    BY <2>1, <2>2, <2>3 DEF conn_accept, conn_accept_bare, ConnOwnsAll, Holds
<1>2. ASSUME NEW t \in Types, AcceptFails(t) \/ AcceptAborted(t) PROVE ConnOwnsAll' /\ Holds'
  BY <1>2, KeptOwns DEF AcceptFails, AcceptAborted
<1>3. CASE SslAccept
  <2>1. PICK v \in {"up", "broken"} : conn' = [conn EXCEPT !.ssl = v]
    BY <1>3 DEF SslAccept
  <2>2. UNCHANGED <<fds, ssls>> /\ pc' \in {"read", "drop"}
    BY <1>3 DEF SslAccept
  <2>3. conn'.fd = conn.fd /\ conn'.ssl # "none" /\ conn.ssl # "none"
    BY <1>0, <1>3, <2>1 DEF ConnType, OwnInv, Holds, SslAccept
  <2>4. QED
    BY <2>2, <2>3 DEF OwnInv, ConnOwnsAll, Holds
<1>4. CASE Drop
  BY <1>4 DEF Drop, OwnInv, ConnOwnsAll, Holds, FreeConn, Release, NoConn
<1>5. CASE ReadGivesUp \/ Read
  BY <1>5, KeptOwns DEF ReadGivesUp, Read
<1>6. QED
  BY <1>1, <1>2, <1>3, <1>4, <1>5 DEF Arrive

LEMMA ServeOwns == OwnInv /\ (Dispatch \/ Sample) => ConnOwnsAll' /\ Holds'
<1> SUFFICES ASSUME OwnInv, Dispatch \/ Sample PROVE ConnOwnsAll' /\ Holds'
  OBVIOUS
<1>1. CASE conn_close /\ pc' = "close"
  <2>1. fds' = {} /\ ssls' = 0 /\ conn'.fd = NoFd /\ conn'.ssl = "none"
    BY <1>1, CloseReleases
  <2>2. QED
    BY <1>1, <2>1 DEF ConnOwnsAll, Holds
<1>2. CASE UNCHANGED connVars /\ pc' \in {"close", "json", "labels", "done"}
  BY <1>2, KeptOwns
<1>3. QED
  <2>1. CASE Dispatch
    BY <1>1, <1>2, <2>1 DEF Dispatch, Refuse, NotFound, Page, Mute, MissingArgument,
       BadEncoding, Showsamp, RespondText, http_response_200
  <2>2. CASE Sample
    BY <1>1, <1>2, <2>2 DEF Sample, JsonError, JsonOpen, JsonLabel, JsonClose, otherVars,
       SampDonePlain, SampDoneDeflate, SampDoneCompressFails, http_response_200
  <2>3. QED
    BY <2>1, <2>2

LEMMA ConcludeOwns == OwnInv /\ Conclude => ConnOwnsAll' /\ Holds'
<1> SUFFICES ASSUME OwnInv, Conclude PROVE ConnOwnsAll' /\ Holds'
  OBVIOUS
<1>1. CASE CloseConn
  <2>1. fds' = {} /\ ssls' = 0 /\ conn'.fd = NoFd /\ conn'.ssl = "none"
    BY <1>1, CloseReleases DEF CloseConn
  <2>2. pc' = "update"
    BY <1>1 DEF CloseConn
  <2>3. QED
    BY <2>1, <2>2 DEF ConnOwnsAll, Holds
<1>2. CASE Throttle \/ PassEnds
  <2>1. fds = {} /\ ssls = 0
    BY <1>2 DEF OwnInv, ConnOwnsAll, Holds, Throttle, PassEnds
  <2>2. FreeConn /\ UNCHANGED <<fds, ssls>>
    BY <1>2 DEF Throttle, PassEnds
  <2>3. QED
    BY <2>1, <2>2 DEF ConnOwnsAll, Holds, FreeConn, NoConn
<1>3. CASE PassBegins
  BY <1>3 DEF PassBegins, OwnInv, ConnOwnsAll, Holds, connVars
<1>4. QED
  BY <1>1, <1>2, <1>3 DEF Conclude

(* On every path that ends a connection (a failed SSL_new or handshake, a   *)
(* timeout, a refused or a served request) conn_close releases the          *)
(* descriptor and the SSL object exactly once: none is leaked, none is      *)
(* closed twice.                                                            *)
THEOREM NothingLeaks == Spec => []ConnOwnsAll
<1>1. Init => OwnInv
  <2>1. Init => ConnOwnsAll /\ Holds
    BY DEF Init, ConnInit, NoConn, NoFd, ConnOwnsAll, Holds
  <2>2. QED
    BY <2>1, HttpdInitType DEF OwnInv
<1>2. OwnInv /\ [Next]_vars => OwnInv'
  <2> SUFFICES ASSUME OwnInv, [Next]_vars PROVE OwnInv'
    OBVIOUS
  <2>1. HttpdTypeInv'
    BY HttpdNextType DEF OwnInv
  <2>2. CASE Environment \/ UNCHANGED vars
    <3>1. UNCHANGED connVars /\ pc' = pc
      BY <2>2 DEF Environment, Connect, Handshake, Send, HangUp, Tick, SetBack, serverVars, vars
    <3>2. QED
      BY <2>1, <3>1, KeptOwns DEF OwnInv
  <2>3. CASE Server
    BY <2>1, <2>3, ServerSteps, ArriveOwns, ServeOwns, ConcludeOwns DEF OwnInv
  <2>4. QED
    BY <2>2, <2>3 DEF Next
<1>3. OwnInv => ConnOwnsAll
  BY DEF OwnInv
<1>4. QED
  BY <1>1, <1>2, <1>3, PTL DEF Spec

----------------------------------------------------------------------------
(* The output buffer                                                        *)

(* Once allocated, the buffer is never smaller than OUTBUF_DEF_SIZE: this   *)
(* is why doubling it once makes room for any one piece.                    *)
BufInv ==
    /\ HttpdTypeInv
    /\ BufferFits
    /\ defop.size = 0 \/ defop.size >= OutbufDefSize

LEMMA EmitFits ==
    ASSUME BufInv, NEW n \in Sizes, NEW part, Emit(part, n)
    PROVE  BufferFits' /\ (defop'.size = 0 \/ defop'.size >= OutbufDefSize)
<1> DEFINE old == Allocated(defop.size)
           new == GrownFor(old, defop.offset, n)
<1>1. /\ n \in Nat /\ n <= OutbufDefSize /\ OutbufDefSize \in Nat
      /\ defop.size \in Nat /\ defop.offset \in Nat
      /\ defop.offset <= defop.size
      /\ defop.size = 0 \/ defop.size >= OutbufDefSize
  BY SizesAssumption DEF BufInv, BufferFits, HttpdTypeInv, HttpdTypeOK, DefopOK
<1>2. old \in Nat /\ old >= OutbufDefSize /\ defop.offset <= old
  BY <1>1 DEF Allocated
<1>3. new \in Nat /\ new >= OutbufDefSize /\ defop.offset + n <= new
  BY <1>1, <1>2 DEF GrownFor
<1>4. defop'.size = new /\ defop'.offset = defop.offset + n
  BY DEF Emit, output_buf, BufInv, HttpdTypeInv, HttpdTypeOK, DefopOK
<1>5. QED
  BY <1>3, <1>4 DEF BufferFits

LEMMA KeptFits ==
    ASSUME BufInv,
           \/ defop' = defop
           \/ defop' = Emptied(defop)
           \/ \E e \in Encodings : defop' = [defop EXCEPT !.encoding = e]
    PROVE  BufferFits' /\ (defop'.size = 0 \/ defop'.size >= OutbufDefSize)
<1>1. DefopOK
  BY DEF BufInv, HttpdTypeInv, HttpdTypeOK
<1>2. defop'.size = defop.size /\ (defop'.offset = defop.offset \/ defop'.offset = 0)
  BY <1>1 DEF DefopOK, Emptied
<1>3. QED
  BY <1>1, <1>2 DEF BufInv, BufferFits, DefopOK

(* Which steps touch defop, and how.                                        *)
LEMMA DefopSteps ==
    ASSUME [Next]_vars
    PROVE  \/ defop' = defop
           \/ defop' = Emptied(defop)
           \/ \E e \in Encodings : defop' = [defop EXCEPT !.encoding = e]
           \/ \E n \in Sizes : \E part \in {"error", "open", "label", "close"} : Emit(part, n)
<1>1. CASE Environment \/ UNCHANGED vars
  BY <1>1 DEF Environment, Connect, Handshake, Send, HangUp, Tick, SetBack, serverVars, vars
<1>2. CASE Arrive \/ Conclude
  BY <1>2 DEF Arrive, Accept, AcceptFails, AcceptAborted, SslNewFails, Take, SslAccept,
              Drop, ReadGivesUp, Read, Conclude, CloseConn, Throttle, PassBegins, PassEnds
<1>3. CASE Dispatch
  <2>1. ChosenEncoding(req) \in Encodings
    BY DEF ChosenEncoding, Encodings
  <2>2. QED
    BY <1>3, <2>1 DEF Dispatch, Refuse, NotFound, Page, Mute, MissingArgument,
                      BadEncoding, Showsamp
<1>4. CASE Sample
  BY <1>4 DEF Sample, JsonError, JsonOpen, JsonLabel, JsonClose, SampDonePlain,
              SampDoneDeflate, SampDoneCompressFails
<1>5. QED
  BY <1>1, <1>2, <1>3, <1>4, ServerSteps DEF Next

(* "auto grow if not enough" (output.h): output_buf never copies a piece    *)
(* beyond the buffer it has just grown, for any sequence of pieces none of  *)
(* which is longer than OUTBUF_DEF_SIZE.                                    *)
THEOREM BufferAlwaysFits == Spec => []BufferFits
<1>1. Init => BufInv
  BY HttpdInitType DEF Init, OutputInit, BufInv, BufferFits
<1>2. BufInv /\ [Next]_vars => BufInv'
  <2> SUFFICES ASSUME BufInv, [Next]_vars PROVE BufInv'
    OBVIOUS
  <2>1. HttpdTypeInv'
    BY HttpdNextType DEF BufInv
  <2>2. BufferFits' /\ (defop'.size = 0 \/ defop'.size >= OutbufDefSize)
    BY DefopSteps, KeptFits, EmitFits
  <2>3. QED
    BY <2>1, <2>2 DEF BufInv
<1>3. BufInv => BufferFits
  BY DEF BufInv
<1>4. QED
  BY <1>1, <1>2, <1>3, PTL DEF Spec

----------------------------------------------------------------------------
(* The paced refresh                                                        *)

PaceInv == HttpdTypeInv /\ (pc # "pass" => update = lastpass)

LEMMA OtherStepsPace ==
    ASSUME [Next]_vars, ~Conclude
    PROVE  UNCHANGED passVars /\ (pc \in {"update", "pass"} => pc' = pc) /\ (pc' = "pass" => pc = "pass")
<1>1. CASE Environment \/ UNCHANGED vars
  BY <1>1 DEF Environment, Connect, Handshake, Send, HangUp, Tick, SetBack, serverVars, vars
<1>2. CASE Arrive
  BY <1>2 DEF Arrive, Accept, AcceptFails, AcceptAborted, SslNewFails, Polled, Take, SslAccept,
              Drop, ReadGivesUp, Read, FreeConn
<1>3. CASE Dispatch
  BY <1>3 DEF Dispatch, Process, Refuse, NotFound, Page, Mute, MissingArgument,
              BadEncoding, Showsamp, RespondText, http_response_200
<1>4. CASE Sample
  BY <1>4 DEF Sample, JsonError, JsonOpen, JsonLabel, JsonClose, otherVars,
              SampDonePlain, SampDoneDeflate, SampDoneCompressFails, http_response_200
<1>5. QED
  BY <1>1, <1>2, <1>3, <1>4, ServerSteps DEF Next

(* httpd_update_cache lets a request start a refresh exactly when the last  *)
(* one began at least Period seconds ago, however long that one took.       *)
THEOREM RefreshIsPaced == Spec => RefreshPaced
<1>1. Init => PaceInv
  BY HttpdInitType DEF Init, PaceInv
<1>2. PaceInv /\ [Next]_vars => PaceInv'
  <2> SUFFICES ASSUME PaceInv, [Next]_vars PROVE PaceInv'
    OBVIOUS
  <2>1. HttpdTypeInv'
    BY HttpdNextType DEF PaceInv
  <2>2. CASE ~Conclude
    BY <2>1, <2>2, OtherStepsPace DEF PaceInv, passVars
  <2>3. CASE Conclude
    BY <2>1, <2>3 DEF PaceInv, passVars, Conclude, CloseConn, Throttle, PassBegins,
                      PassEnds, FreeConn
  <2>4. QED
    BY <2>2, <2>3
<1>3. PaceInv /\ [Next]_vars =>
        [(pc = "update" /\ pc' # pc) =>
            (pc' = "pass" <=> clock - lastpass >= Period)]_vars
  <2> SUFFICES ASSUME PaceInv, [Next]_vars, pc = "update", pc' # pc
               PROVE  pc' = "pass" <=> clock - lastpass >= Period
    OBVIOUS
  <2>1. Conclude
    BY OtherStepsPace
  <2>2. update = lastpass /\ clock \in Nat /\ lastpass \in Nat /\ Period \in Nat
    BY ClockAssumption DEF PaceInv, HttpdTypeInv, HttpdTypeOK, ClientsOK, ServerOK
  <2>3. CASE Throttle
    BY <2>2, <2>3 DEF Throttle, TooSoon, FreeConn
  <2>4. CASE PassBegins
    BY <2>2, <2>4 DEF PassBegins, TooSoon
  <2>5. QED
    BY <2>1, <2>3, <2>4 DEF Conclude, CloseConn, PassEnds
<1>4. QED
  BY <1>1, <1>2, <1>3, PTL DEF Spec, RefreshPaced

----------------------------------------------------------------------------
(* What the clients get                                                     *)

Wanted(q) == IF q.encoding = "none" THEN "none" ELSE "deflate"

ByClient(b, c) == \A k \in DOMAIN b : b[k].by = c

OwnMsg(m, c, q) ==
    m.body # <<>> => OneSample(m.body) /\ ByClient(m.body, c) /\ m.encoding = Wanted(q)

OwnWire(w, c, q) == \A i \in DOMAIN w : OwnMsg(w[i], c, q)

(* A sample that is not closed yet.                                         *)
Opened(b) ==
    /\ b # <<>>
    /\ \A k \in DOMAIN b : b[k].part = IF k = 1 THEN "open" ELSE "label"

(* The buffer is empty except while a sample is printed, and then it holds  *)
(* what has been printed for this client, in the encoding it asked for.     *)
Printing ==
    /\ pc \notin {"labels", "done"} => defop.buf = <<>>
    /\ pc \in {"json", "labels", "done"} => defop.encoding = Wanted(req)
    /\ pc = "labels" => Opened(defop.buf) /\ ByClient(defop.buf, who)
    /\ pc = "done" => OneSample(defop.buf) /\ ByClient(defop.buf, who)

BodyInv ==
    /\ HttpdTypeInv
    /\ OwnWire(wire, who, req)
    /\ pc \notin {"close", "update", "pass"} => wire = <<>>
    /\ Printing

LEMMA WrittenOwn ==
    ASSUME NEW c, NEW q, NEW w \in Seq(Message), OwnWire(w, c, q),
           NEW m \in Message, OwnMsg(m, c, q), NEW v \in Written(w, m)
    PROVE  OwnWire(v, c, q)
<1> DEFINE n == [m EXCEPT !.intact = FALSE]
<1>1. n \in Message /\ n.body = m.body /\ n.encoding = m.encoding
  <2>1. n \in Message
    BY CutType, Zenon
  <2>2. n.body = m.body
    BY DEF Message
  <2>3. n.encoding = m.encoding
    BY DEF Message
  <2> QED BY <2>1, <2>2, <2>3, Zenon
<1>2. OwnMsg(n, c, q)
  BY <1>1 DEF OwnMsg
<1>3. ASSUME NEW x \in Message, OwnMsg(x, c, q) PROVE OwnWire(Append(w, x), c, q)
  BY <1>3 DEF OwnWire
<1>4. v \in {w, Append(w, m), Append(w, n)}
  BY DEF Written
<1>5. QED
  BY <1>1, <1>2, <1>3, <1>4

LEMMA EmptyMsgOwn ==
    ASSUME NEW s \in {200, 404}, NEW c, NEW q PROVE OwnMsg(Msg(s, "none", <<>>), c, q)
  BY DEF OwnMsg, Msg

(* Steps that write nothing and print nothing.                              *)
LEMMA KeptBody ==
    ASSUME BodyInv, UNCHANGED <<defop, who, req, wire>>,
           \/ pc' = pc
           \/ pc' \in {"close", "update", "pass"} /\ pc \notin {"labels", "done"}
    PROVE  OwnWire(wire', who', req') /\ Printing'
           /\ (pc' \notin {"close", "update", "pass"} => wire' = <<>>)
  BY DEF BodyInv, Printing

(* Steps before the request is known, and the end of an iteration: nothing  *)
(* is written or printed.                                                   *)
LEMMA BlankBody ==
    ASSUME BodyInv, wire' = <<>>, defop' = defop,
           pc \notin {"labels", "done"},
           pc' \in {"wait", "ssl", "drop", "read", "process", "close"}
    PROVE  OwnWire(wire', who', req') /\ Printing'
           /\ (pc' \notin {"close", "update", "pass"} => wire' = <<>>)
  BY DEF BodyInv, Printing, OwnWire

(* A response: pc goes to close.                                            *)
LEMMA ResponseBody ==
    ASSUME BodyInv, pc' = "close", OwnWire(wire', who, req), UNCHANGED <<who, req>>,
           defop'.buf = <<>>
    PROVE  OwnWire(wire', who', req') /\ Printing'
           /\ (pc' \notin {"close", "update", "pass"} => wire' = <<>>)
  BY DEF Printing

LEMMA ArriveBody ==
    ASSUME BodyInv, Arrive
    PROVE  OwnWire(wire', who', req') /\ Printing'
           /\ (pc' \notin {"close", "update", "pass"} => wire' = <<>>)
<1>1. /\ pc \in {"wait", "ssl", "drop", "read"}
      /\ pc' \in {"wait", "ssl", "drop", "read", "process", "close"}
      /\ defop' = defop /\ (wire' = wire \/ wire' = <<>>)
  BY DEF Arrive, Accept, AcceptFails, AcceptAborted, SslNewFails, Polled, Take, SslAccept, Drop,
         ReadGivesUp, Read, FreeConn, servVars
<1>2. wire' = <<>>
  BY <1>1 DEF BodyInv
<1>3. QED
  BY <1>1, <1>2, BlankBody

LEMMA DispatchBody ==
    ASSUME BodyInv, Dispatch
    PROVE  OwnWire(wire', who', req') /\ Printing'
           /\ (pc' \notin {"close", "update", "pass"} => wire' = <<>>)
<1>1. pc = "process" /\ UNCHANGED <<who, req>> /\ wire = <<>> /\ defop.buf = <<>>
  BY DEF Dispatch, Process, Refuse, NotFound, Page, Mute, MissingArgument, BadEncoding,
         Showsamp, RespondText, servVars, BodyInv, Printing
<1>2. wire \in Seq(Message) /\ defop \in
        [size : Nat, offset : Nat, buf : Seq(Piece), encoding : Encodings]
  BY DEF BodyInv, HttpdTypeInv, HttpdTypeOK, ServerOK, DefopOK
<1>3. OwnWire(wire, who, req)
  BY DEF BodyInv
<1>4. defop'.buf = <<>>
  BY <1>1, <1>2 DEF Dispatch, Refuse, NotFound, Page, Mute, MissingArgument, BadEncoding,
         Showsamp
<1>5. CASE Refuse \/ Mute
  BY <1>1, <1>5, KeptBody DEF Refuse, Mute, servVars
<1>6. CASE NotFound
  <2>1. wire' \in Written(wire, Msg(404, "none", <<>>)) /\ pc' = "close"
    BY <1>6 DEF NotFound
  <2>2. OwnWire(wire', who, req)
    BY <1>2, <1>3, <2>1, WrittenOwn, EmptyMsgOwn, EmptyMsgType
  <2>3. QED
    BY <1>1, <1>4, <2>1, <2>2, ResponseBody
<1>7. CASE RespondText
  <2>1. wire' \in Written(wire, Msg(200, "none", <<>>)) /\ pc' = "close"
    BY <1>7 DEF RespondText, http_response_200
  <2>2. OwnWire(wire', who, req)
    BY <1>2, <1>3, <2>1, WrittenOwn, EmptyMsgOwn, EmptyMsgType
  <2>3. QED
    BY <1>1, <1>4, <2>1, <2>2, ResponseBody
<1>8. CASE Showsamp /\ ~RespondText
  <2>1. pc' \in {"json", "close"} /\ wire' = wire /\ defop'.encoding = Wanted(req)
    BY <1>2, <1>8 DEF Showsamp, servVars, ChosenEncoding, Wanted
  <2>2. QED
    BY <1>1, <1>4, <2>1 DEF Printing, OwnWire
<1>9. QED
  BY <1>5, <1>6, <1>7, <1>8 DEF Dispatch, Page, MissingArgument, BadEncoding

LEMMA JsonBody ==
    ASSUME BodyInv, NEW n \in Sizes,
           JsonError(n) \/ JsonOpen(n) \/ JsonLabel(n) \/ JsonClose(n)
    PROVE  OwnWire(wire', who', req') /\ Printing'
           /\ (pc' \notin {"close", "update", "pass"} => wire' = <<>>)
<1>1. UNCHANGED <<who, req, wire>> /\ wire = <<>> /\ pc \in {"json", "labels"}
      /\ defop.encoding = Wanted(req)
  BY DEF JsonError, JsonOpen, JsonLabel, JsonClose, otherVars, servVars, BodyInv, Printing
<1>2. defop \in [size : Nat, offset : Nat, buf : Seq(Piece), encoding : Encodings]
      /\ who \in Clients \cup {NoClient}
  BY DEF BodyInv, HttpdTypeInv, HttpdTypeOK, ServerOK, DefopOK
<1>3. ASSUME NEW part \in {"error", "open", "label", "close"}, Emit(part, n)
      PROVE  /\ defop'.buf = Append(defop.buf, [by |-> who, part |-> part])
             /\ defop'.encoding = defop.encoding
  BY <1>2, <1>3 DEF Emit, output_buf
<1>4. OwnWire(wire', who', req')
  BY <1>1 DEF OwnWire
<1>5. CASE JsonError(n) \/ JsonOpen(n)
  <2>1. PICK part \in {"error", "open"} :
          Emit(part, n) /\ pc' = IF part = "error" THEN "done" ELSE "labels"
    BY <1>5 DEF JsonError, JsonOpen
  <2>2. defop.buf = <<>>
    BY <1>5 DEF JsonError, JsonOpen, BodyInv, Printing
  <2>3. defop'.buf = <<[by |-> who, part |-> part]>> /\ defop'.encoding = defop.encoding
    BY <1>3, <2>1, <2>2
  <2>4. ByClient(defop'.buf, who) /\ (part = "error" => OneSample(defop'.buf))
        /\ (part = "open" => Opened(defop'.buf))
    BY <2>3 DEF ByClient, OneSample, Opened
  <2>5. QED
    BY <1>1, <1>4, <2>1, <2>3, <2>4 DEF Printing
<1>6. CASE JsonLabel(n) \/ JsonClose(n)
  <2>1. PICK part \in {"label", "close"} :
          Emit(part, n) /\ pc' = IF part = "close" THEN "done" ELSE "labels"
    BY <1>6 DEF JsonLabel, JsonClose
  <2>2. Opened(defop.buf) /\ ByClient(defop.buf, who) /\ defop.buf \in Seq(Piece)
    BY <1>2, <1>6 DEF JsonLabel, JsonClose, BodyInv, Printing
  <2>3. defop'.buf = Append(defop.buf, [by |-> who, part |-> part])
        /\ defop'.encoding = defop.encoding
    BY <1>3, <2>1
  <2>4. ByClient(defop'.buf, who)
    BY <2>2, <2>3 DEF ByClient
  <2>5. part = "label" => Opened(defop'.buf)
    BY <2>2, <2>3 DEF Opened
  <2>6. part = "close" => OneSample(defop'.buf)
    BY <2>2, <2>3 DEF Opened, OneSample
  <2>7. QED
    BY <1>1, <1>4, <2>1, <2>3, <2>4, <2>5, <2>6 DEF Printing
<1>7. QED
  BY <1>5, <1>6

LEMMA SampDoneBody ==
    ASSUME BodyInv, SampDonePlain \/ SampDoneDeflate \/ SampDoneCompressFails
    PROVE  OwnWire(wire', who', req') /\ Printing'
           /\ (pc' \notin {"close", "update", "pass"} => wire' = <<>>)
<1>1. /\ pc = "done" /\ UNCHANGED <<who, req>> /\ defop' = Emptied(defop)
      /\ OwnWire(wire, who, req)
  BY DEF SampDonePlain, SampDoneDeflate, SampDoneCompressFails, BodyInv
<1>2. wire \in Seq(Message) /\ ServerOK /\ defop \in
        [size : Nat, offset : Nat, buf : Seq(Piece), encoding : Encodings]
  BY DEF BodyInv, HttpdTypeInv, HttpdTypeOK, ServerOK, DefopOK
<1> DEFINE m == SampleMsg(defop)
           x == [m EXCEPT !.intact = FALSE]
<1>3. m \in Message /\ x \in Message
  BY <1>2, MsgType DEF SampleMsg
<1>4. m.body = defop.buf /\ m.encoding = defop.encoding
  BY DEF SampleMsg, Msg
<1>5. x.body = m.body /\ x.encoding = m.encoding
  BY <1>3 DEF Message
<1>6. OwnMsg(m, who, req) /\ OwnMsg(x, who, req)
  BY <1>1, <1>4, <1>5 DEF BodyInv, Printing, OwnMsg
<1>7. PICK w \in Seq(Message), y \in {m, x} :
        OwnWire(w, who, req) /\ wire' \in Written(w, y) /\ pc' = "close"
  <2>1. CASE SampDonePlain \/ SampDoneDeflate
    BY <1>1, <1>2, <2>1 DEF SampDonePlain, SampDoneDeflate, http_response_200
  <2>2. CASE SampDoneCompressFails
    <3>1. PICK w \in Written(wire, Msg(404, "none", <<>>)) : http_response_200(w, x)
      BY <2>2 DEF SampDoneCompressFails
    <3>2. w \in Seq(Message) /\ OwnWire(w, who, req)
      BY <1>1, <1>2, <3>1, NotFoundType, WrittenOwn, EmptyMsgOwn, EmptyMsgType
    <3>3. QED
      BY <3>1, <3>2 DEF http_response_200
  <2>3. QED
    BY <2>1, <2>2
<1>8. OwnWire(wire', who, req)
  BY <1>3, <1>6, <1>7, WrittenOwn
<1>9. defop'.buf = <<>>
  BY <1>1, <1>2 DEF Emptied
<1>10. QED
  BY <1>1, <1>7, <1>8, <1>9, ResponseBody

LEMMA ConcludeBody ==
    ASSUME BodyInv, Conclude
    PROVE  OwnWire(wire', who', req') /\ Printing'
           /\ (pc' \notin {"close", "update", "pass"} => wire' = <<>>)
<1>1. CASE CloseConn \/ PassBegins
  BY <1>1, KeptBody DEF CloseConn, PassBegins, servVars
<1>2. CASE Throttle \/ PassEnds
  BY <1>2, BlankBody DEF Throttle, PassEnds, FreeConn
<1>3. QED
  BY <1>1, <1>2 DEF Conclude

(* Although all requests print into one buffer and share one encoding, a    *)
(* client gets one sample, printed for it from its first brace to its last, *)
(* in the encoding it asked for, whatever the requests before it were and   *)
(* however they ended.                                                      *)
THEOREM BodiesStayOwn == Spec => []BodyIsOwn
<1>1. Init => BodyInv
  BY HttpdInitType DEF Init, OutputInit, BodyInv, OwnWire, Printing
<1>2. BodyInv /\ [Next]_vars => BodyInv'
  <2> SUFFICES ASSUME BodyInv, [Next]_vars PROVE BodyInv'
    OBVIOUS
  <2>1. HttpdTypeInv'
    BY HttpdNextType DEF BodyInv
  <2>2. OwnWire(wire', who', req') /\ Printing'
        /\ (pc' \notin {"close", "update", "pass"} => wire' = <<>>)
    <3>1. CASE Environment \/ UNCHANGED vars
      <4>1. UNCHANGED <<defop, who, req, wire, pc>>
        BY <3>1 DEF Environment, Connect, Handshake, Send, HangUp, Tick, SetBack, serverVars,
                    servVars, vars
      <4>2. QED
        BY <4>1, KeptBody
    <3>2. CASE Server
      BY <3>2, ServerSteps, ArriveBody, DispatchBody, JsonBody, SampDoneBody,
         ConcludeBody DEF Sample
    <3>3. QED
      BY <3>1, <3>2 DEF Next
  <2>3. QED
    BY <2>1, <2>2 DEF BodyInv
<1>3. BodyInv => BodyIsOwn
  BY DEF BodyInv, BodyIsOwn, OwnWire, OwnMsg, ByClient, Wanted
<1>4. QED
  BY <1>1, <1>2, <1>3, PTL DEF Spec
=============================================================================

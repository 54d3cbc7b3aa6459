------------------------------- MODULE Startup -------------------------------
(****************************************************************************)
(* How the server comes up: main, httpd and the part of httpd_routine       *)
(* before the event loop (httpd.c), the registry of connection types and    *)
(* listen_to_port (connection.c), and what socket.c and tls.c add to them.  *)
(*                                                                          *)
(* Nothing else runs yet.  What makes it branch is the command line, the    *)
(* build, and every system call that may fail, each with its own way out.   *)
(****************************************************************************)
EXTENDS Integers, Sequences, SequencesExt, FiniteSetsExt

CONSTANTS
    Fds,        \* descriptors the process may get
    MaxAddrs    \* bound: addresses a bind address resolves to

ASSUME FdsAssumption   == Fds \subseteq Nat /\ IsFiniteSet(Fds)
ASSUME AddrsAssumption == MaxAddrs \in Nat \ {0}

CONN_TYPE_MAX == 8
Types == {"tcp", "tls"}
NoFd  == -1
None  == [type |-> "none", fd |-> NoFd]

VARIABLES
    config,     \* what the command line asks for, and the build
    conn_types, \* the registry: types in the order of their slots
    tls_ctx,    \* is there an SSL context?
    listeners,  \* slot -> connection object, or None
    fds,        \* open descriptors
    epollfd,
    watched,    \* descriptors in the epoll set
    slot,       \* i of the loop over the listeners
    left,       \* addresses not tried yet
    sockfd,     \* local of listen_to_port
    pc

startVars == <<conn_types, tls_ctx, listeners>>
loopVars  == <<slot, left, sockfd>>
fdVars    == <<fds, epollfd, watched>>
vars      == <<config, startVars, loopVars, fdVars, pc>>

(* port, tls_port: is it positive?  USE_TLS: was the server built with it?  *)
(* keys: do the certificate, key and CA files make a context?               *)
Config == [port : BOOLEAN, tls_port : BOOLEAN, USE_TLS : BOOLEAN, keys : BOOLEAN]

Slots == 1 .. CONN_TYPE_MAX

Init ==
    /\ config \in Config
    /\ conn_types = <<>> /\ tls_ctx = FALSE
    /\ listeners = [i \in Slots |-> None]
    /\ fds = {} /\ epollfd = NoFd /\ watched = {}
    /\ slot = 1 /\ left = 0 /\ sockfd = NoFd
    /\ pc = "parse"

(* The process ends: the kernel closes what is open.                        *)
Ends(how) ==
    /\ pc' = how
    /\ fds' = {} /\ epollfd' = NoFd /\ watched' = {}

(* exit, or return from main.                                               *)
Exit == Ends("exited")

(* The first pass over the log directory; without one there is no server.   *)
ParseLogs ==
    /\ pc = "parse"
    /\ \/ pc' = "register" /\ UNCHANGED fdVars
       \/ Exit
    /\ UNCHANGED <<config, startVars, loopVars>>

----------------------------------------------------------------------------
(* The registry                                                             *)

(* Take the first empty slot, unless the name is there or no slot is left.  *)
conntype_register(slots, t) ==
    IF t \in Range(slots) \/ Len(slots) = CONN_TYPE_MAX THEN slots
    ELSE Append(slots, t)

conntype_initialize ==
    /\ pc = "register"
    /\ LET tcp == conntype_register(<<>>, "tcp")
       IN  conn_types' = IF config.USE_TLS THEN conntype_register(tcp, "tls") ELSE tcp
    /\ pc' = "tcp"
    /\ UNCHANGED <<config, tls_ctx, listeners, loopVars, fdVars>>

get_conntype_index_by_name(slots, t) ==
    IF t \in Range(slots) THEN CHOOSE i \in DOMAIN slots : slots[i] = t ELSE -1

(* conn_create, for a listener.                                             *)
Created(t) == [listeners EXCEPT ![get_conntype_index_by_name(conn_types, t)] =
                                    [type |-> t, fd |-> NoFd]]

HasType(t) == get_conntype_index_by_name(conn_types, t) >= 0

CreateTcp ==
    /\ pc = "tcp"
    /\ listeners' = IF config.port /\ HasType("tcp") THEN Created("tcp") ELSE listeners
    /\ IF config.port /\ ~HasType("tcp") THEN Exit
                                         ELSE pc' = "tls" /\ UNCHANGED fdVars
    /\ UNCHANGED <<config, conn_types, tls_ctx, loopVars>>

(* A failed tls_configure returns -errno.  What failed in OpenSSL need not  *)
(* have set errno: when that is 0 the failure passes for success, and the   *)
(* listener has no context for its handshakes.                              *)
CreateTls ==
    /\ pc = "tls"
    /\ \/ /\ ~config.tls_port
          /\ pc' = "epoll"
          /\ UNCHANGED <<tls_ctx, listeners, fdVars>>
       \/ /\ config.tls_port /\ ~HasType("tls")
          /\ Exit
          /\ UNCHANGED <<tls_ctx, listeners>>
       \/ /\ config.tls_port /\ HasType("tls")
          /\ tls_ctx' = config.keys
          /\ listeners' = Created("tls")
          /\ pc' = "epoll"
          /\ UNCHANGED fdVars
       \/ /\ config.tls_port /\ HasType("tls")
          /\ ~config.keys
          /\ Exit
          /\ UNCHANGED <<tls_ctx, listeners>>
    /\ UNCHANGED <<config, conn_types, loopVars>>

----------------------------------------------------------------------------
(* httpd_routine: one descriptor per listener, all of them in one epoll set *)

(* The call returns fd: the lowest descriptor that is free.                 *)
NewFd(fd) == fd \notin fds /\ \A other \in Fds \ fds : fd <= other

(* Becoming a daemon (httpd) changes nothing here: stdin, stdout and stderr *)
(* are not among Fds.                                                       *)
EpollCreate ==
    /\ pc = "epoll"
    /\ \/ /\ \E fd \in Fds : NewFd(fd) /\ epollfd' = fd /\ fds' = fds \cup {fd}
          /\ pc' = "slot"
          /\ UNCHANGED watched
       \/ Exit
    /\ UNCHANGED <<config, startVars, loopVars>>

EmptySlot ==
    /\ pc = "slot" /\ slot \in Slots
    /\ listeners[slot] = None
    /\ slot' = slot + 1
    /\ UNCHANGED <<config, startVars, left, sockfd, fdVars, pc>>

(* getaddrinfo.  When it fails res has no value, and is freed none the      *)
(* less: the process dies of it, or reports that it cannot listen.          *)
Resolve ==
    /\ pc = "slot" /\ slot \in Slots
    /\ listeners[slot] # None
    /\ \/ /\ left' \in 1 .. MaxAddrs
          /\ pc' = "socket"
          /\ UNCHANGED fdVars
       \/ /\ Exit \/ Ends("crashed")
          /\ UNCHANGED left
    /\ UNCHANGED <<config, startVars, slot, sockfd>>

(* Mutant: the list of addresses is followed past its end.                  *)
SocketPastEnd ==
    /\ pc = "socket" /\ left >= 0
    /\ left' = left - 1
    /\ \/ /\ \E fd \in Fds : NewFd(fd) /\ sockfd' = fd /\ fds' = fds \cup {fd}
          /\ pc' = "bind"
       \/ UNCHANGED <<sockfd, fds, pc>>
    /\ UNCHANGED <<config, startVars, slot, epollfd, watched>>

Socket ==
    /\ pc = "socket" /\ left > 0
    /\ left' = left - 1
    /\ \/ /\ \E fd \in Fds : NewFd(fd) /\ sockfd' = fd /\ fds' = fds \cup {fd}
          /\ pc' = "bind"
       \/ UNCHANGED <<sockfd, fds, pc>>          \* no socket: the next address
    /\ UNCHANGED <<config, startVars, slot, epollfd, watched>>

NoAddress ==
    /\ pc = "socket" /\ left = 0
    /\ Exit
    /\ UNCHANGED <<config, startVars, loopVars>>

(* Mutant: a socket that cannot be bound is forgotten.                      *)
BindFailsOpen ==
    /\ pc = "bind"
    /\ sockfd' = NoFd
    /\ pc' = "socket"
    /\ UNCHANGED <<config, startVars, slot, left, fds, epollfd, watched>>

(* bind or listen fails: close, and try the next address.                   *)
BindFails ==
    /\ pc = "bind"
    /\ fds' = fds \ {sockfd}
    /\ sockfd' = NoFd
    /\ pc' = "socket"
    /\ UNCHANGED <<config, startVars, slot, left, epollfd, watched>>

(* setsockopt fails: no other address is tried.                             *)
OptionFails ==
    /\ pc = "bind"
    /\ Exit
    /\ UNCHANGED <<config, startVars, loopVars>>

Listen ==
    /\ pc = "bind"
    /\ listeners' = [listeners EXCEPT ![slot].fd = sockfd]
    /\ sockfd' = NoFd /\ left' = 0
    /\ pc' = "watch"
    /\ UNCHANGED <<config, conn_types, tls_ctx, slot, fdVars>>

EpollAdd ==
    /\ pc = "watch"
    /\ \/ /\ watched' = watched \cup {listeners[slot].fd}
          /\ slot' = slot + 1
          /\ pc' = "slot"
          /\ UNCHANGED <<fds, epollfd>>
       \/ Exit /\ UNCHANGED slot
    /\ UNCHANGED <<config, startVars, left, sockfd>>

Ready ==
    /\ pc = "slot" /\ slot = CONN_TYPE_MAX + 1
    /\ IF watched = {} THEN Exit ELSE pc' = "serving" /\ UNCHANGED fdVars
    /\ UNCHANGED <<config, startVars, loopVars>>

Next ==
    \/ ParseLogs \/ conntype_initialize \/ CreateTcp \/ CreateTls
    \/ EpollCreate \/ EmptySlot \/ Resolve
    \/ Socket \/ NoAddress \/ BindFails \/ OptionFails \/ Listen
    \/ EpollAdd \/ Ready

Spec == Init /\ [][Next]_vars
----------------------------------------------------------------------------
(* Properties                                                               *)

(* The variables have the types of the C variables they stand for; slots    *)
(* index the arrays of CONN_TYPE_MAX entries.                               *)
StartupTypeOK ==
    /\ config \in Config
    /\ conn_types \in Seq(Types) /\ Len(conn_types) <= CONN_TYPE_MAX
    /\ tls_ctx \in BOOLEAN
    /\ listeners \in [Slots -> [type : Types, fd : Fds \cup {NoFd}] \cup {None}]
    /\ fds \subseteq Fds /\ watched \subseteq Fds
    /\ epollfd \in Fds \cup {NoFd} /\ sockfd \in Fds \cup {NoFd}
    /\ slot \in 1 .. CONN_TYPE_MAX + 1 /\ left \in 0 .. MaxAddrs
    /\ pc \in {"parse", "register", "tcp", "tls", "epoll", "slot", "socket", "bind",
               "watch", "serving", "exited", "crashed"}

Enabled      == { t \in Types : IF t = "tcp" THEN config.port ELSE config.tls_port }
ListeningFds == { listeners[i].fd : i \in Slots } \ {NoFd}

(* A server that says it is ready listens for every type the command line   *)
(* asks for and for no other, each on a descriptor of its own that epoll    *)
(* watches, and has nothing else open: no socket of an address that could   *)
(* not be used is left behind.  It listens for something.                   *)
ListensExactly ==
    pc = "serving" =>
        /\ Enabled # {}
        /\ \A t \in Enabled : \E i \in DOMAIN conn_types :
              conn_types[i] = t /\ listeners[i].type = t /\ listeners[i].fd \in fds
        /\ \A i \in Slots : listeners[i] # None => listeners[i].type \in Enabled
        /\ \A i, j \in Slots : (i # j /\ listeners[i] # None) => listeners[i].fd # listeners[j].fd
        /\ watched = ListeningFds
        /\ fds = watched \cup {epollfd} /\ epollfd \notin watched
=============================================================================

---------------------------- MODULE StartupProofs ----------------------------
(****************************************************************************)
(* A server that says it is ready listens exactly where it was asked to,    *)
(* with nothing else open, for any set of descriptors the system hands out  *)
(* and however many addresses each bind address has.                        *)
(****************************************************************************)
EXTENDS Startup, SequenceTheorems, TLAPS

Registry == IF config.USE_TLS THEN <<"tcp", "tls">> ELSE <<"tcp">>

Looping == {"slot", "socket", "bind", "watch", "serving"}

(* The slots whose type the command line asks for and the build has.        *)
Asked(i) ==
    \/ i = 1 /\ config.port
    \/ i = 2 /\ config.tls_port /\ config.USE_TLS

(* Registration comes first, and gives each type the slot that httpd later  *)
(* looks up by the type's name.                                             *)
RegistryInv == pc \in Looping \cup {"tcp", "tls", "epoll"} => conn_types = Registry

(* Until a type is created its slot is empty; from then on the slots in use *)
(* are those of the command line.                                           *)
CreatedInv ==
    /\ pc \in {"parse", "register", "tcp"} => \A i \in Slots : listeners[i] = None
    /\ pc = "tls" => \A i \in Slots : listeners[i] =
          IF i = 1 /\ config.port THEN [type |-> "tcp", fd |-> NoFd] ELSE None
    /\ pc \in Looping \cup {"epoll"} =>
          /\ config.tls_port => config.USE_TLS
          /\ \A i \in Slots : listeners[i] # None <=> Asked(i)
          /\ \A i \in Slots : Asked(i) => listeners[i].type = Registry[i]

(* No descriptor before the loop over the slots.                            *)
NothingOpen ==
    pc \in {"parse", "register", "tcp", "tls", "epoll"} =>
        /\ fds = {} /\ watched = {} /\ slot = 1
        /\ \A i \in Slots : listeners[i].fd = NoFd

(* In the loop: the slots before this one have a watched descriptor each,   *)
(* the slots after it have none, and what is open is what is watched, the   *)
(* epoll set itself and the one socket in hand.                             *)
InHand == IF pc = "bind" THEN {sockfd}
          ELSE IF pc = "watch" THEN {listeners[slot].fd} ELSE {}

LoopInv ==
    pc \in Looping =>
        /\ epollfd \in Fds /\ epollfd \notin watched
        /\ InHand \subseteq Fds /\ InHand \cap (watched \cup {epollfd}) = {}
        /\ fds = watched \cup {epollfd} \cup InHand
        /\ \A i \in Slots : i < slot /\ listeners[i] # None => listeners[i].fd \in watched
        /\ \A w \in watched : \E i \in Slots : i < slot /\ listeners[i].fd = w
        /\ \A i \in Slots : i > slot \/ (i = slot /\ pc # "watch") => listeners[i].fd = NoFd
        /\ \A i, j \in Slots : i < slot /\ j < slot /\ i # j /\ listeners[i] # None
              => listeners[i].fd # listeners[j].fd
        /\ pc \in {"socket", "bind", "watch"} => slot \in Slots /\ listeners[slot] # None
        /\ pc = "serving" => slot = CONN_TYPE_MAX + 1 /\ watched # {}

StartInv == StartupTypeOK /\ RegistryInv /\ CreatedInv /\ NothingOpen /\ LoopInv

----------------------------------------------------------------------------
(* The registry.                                                            *)

(* What Append adds.                                                        *)
LEMMA AppendsLast ==
    ASSUME NEW S, NEW s \in Seq(S), NEW e \in S
    PROVE  /\ Append(s, e) \in Seq(S) /\ Len(Append(s, e)) = Len(s) + 1
           /\ \A i \in 1 .. Len(s) : Append(s, e)[i] = s[i]
           /\ Append(s, e)[Len(s) + 1] = e
  OBVIOUS

(* Two types fit in the slots and have names of their own: conntype_register *)
(* puts them into slots 1 and 2 (0 and 1 of the C array).                   *)
LEMMA Registers ==
    LET tcp == conntype_register(<<>>, "tcp")
    IN  /\ tcp = <<"tcp">>
        /\ conntype_register(tcp, "tls") = <<"tcp", "tls">>
  <1>1. "tcp" \notin Range(<<>>)
    BY DEF Range
  <1>2. conntype_register(<<>>, "tcp") = <<"tcp">>
    BY <1>1 DEF conntype_register, CONN_TYPE_MAX
  <1>3. "tls" \notin Range(<<"tcp">>)
    BY DEF Range
  <1>4. Len(<<"tcp">>) # 8 /\ Append(<<"tcp">>, "tls") = <<"tcp", "tls">>
    <2> DEFINE s == <<"tcp">>
               t == <<"tcp", "tls">>
    <2>1. s \in Seq(Types) /\ Len(s) = 1 /\ s[1] = "tcp"
      BY DEF Types
    <2>2. t \in Seq(Types) /\ Len(t) = 2 /\ t[1] = "tcp" /\ t[2] = "tls"
      BY DEF Types
    <2> HIDE DEF s, t
    <2>0. "tls" \in Types
      BY DEF Types
    <2>3. /\ Append(s, "tls") \in Seq(Types) /\ Len(Append(s, "tls")) = 2
          /\ Append(s, "tls")[1] = "tcp" /\ Append(s, "tls")[2] = "tls"
      <3> DEFINE e == "tls"
                 a == Append(s, e)
      <3>1. e \in Types
        BY <2>0
      <3> HIDE DEF e
      <3>2. /\ a \in Seq(Types) /\ Len(a) = Len(s) + 1 /\ a[Len(s) + 1] = e
            /\ \A i \in 1 .. Len(s) : a[i] = s[i]
        BY <2>1, <3>1, AppendsLast
      <3> HIDE DEF a
      <3>3. a \in Seq(Types) /\ Len(a) = 2 /\ a[1] = "tcp" /\ a[2] = e
        BY <2>1, <3>2
      <3> QED BY <3>3 DEF a, e
    <2>4. \A i \in 1 .. 2 : Append(s, "tls")[i] = t[i]
      BY <2>2, <2>3
    <2>5. Append(s, "tls") = t
      BY <2>2, <2>3, <2>4, SeqEqual
    <2> QED BY <2>1, <2>5 DEF s, t
  <1>5. conntype_register(<<"tcp">>, "tls") = <<"tcp", "tls">>
    BY <1>3, <1>4, Zenon DEF conntype_register, CONN_TYPE_MAX
  <1> QED BY <1>2, <1>5

(* get_conntype_index_by_name finds a registered type where it was put.     *)
LEMMA Indexes ==
    ASSUME config \in Config
    PROVE  /\ get_conntype_index_by_name(Registry, "tcp") = 1
           /\ config.USE_TLS => get_conntype_index_by_name(Registry, "tls") = 2
           /\ ~config.USE_TLS => get_conntype_index_by_name(Registry, "tls") = -1
  <1> DEFINE Two == <<"tcp", "tls">>
             One == <<"tcp">>
  <1>1. /\ DOMAIN Two = {1, 2} /\ Two[1] = "tcp" /\ Two[2] = "tls"
        /\ DOMAIN One = {1} /\ One[1] = "tcp"
    OBVIOUS
  <1>2. Range(Two) = {"tcp", "tls"} /\ Range(One) = {"tcp"}
    BY <1>1 DEF Range
  <1>3. Registry = IF config.USE_TLS THEN Two ELSE One
    BY DEF Registry
  <1> HIDE DEF Two, One
  <1>4. (CHOOSE i \in DOMAIN Two : Two[i] = "tcp") = 1
    BY <1>1
  <1>5. (CHOOSE i \in DOMAIN Two : Two[i] = "tls") = 2
    BY <1>1
  <1>6. (CHOOSE i \in DOMAIN One : One[i] = "tcp") = 1
    BY <1>1
  <1>7. config.USE_TLS \in BOOLEAN
    BY DEF Config
  <1>8. CASE config.USE_TLS
    BY <1>2, <1>3, <1>4, <1>5, <1>8 DEF get_conntype_index_by_name
  <1>9. CASE ~config.USE_TLS
    BY <1>2, <1>3, <1>6, <1>9 DEF get_conntype_index_by_name
  <1> QED BY <1>8, <1>9

(* What conn_create does to the slots.                                      *)
LEMMA HasTypes ==
    ASSUME config \in Config, conn_types = Registry
    PROVE  /\ HasType("tcp")
           /\ HasType("tls") <=> config.USE_TLS
           /\ Created("tcp") = [listeners EXCEPT ![1] = [type |-> "tcp", fd |-> NoFd]]
           /\ config.USE_TLS =>
                Created("tls") = [listeners EXCEPT ![2] = [type |-> "tls", fd |-> NoFd]]
  <1>0. get_conntype_index_by_name(conn_types, "tcp") = 1
    BY Indexes
  <1>a. HasType("tcp")
    BY <1>0 DEF HasType
  <1>1. HasType("tcp") /\ Created("tcp") = [listeners EXCEPT ![1] = [type |-> "tcp", fd |-> NoFd]]
    BY <1>0, <1>a DEF Created
  <1>2. CASE config.USE_TLS
    <2>1. get_conntype_index_by_name(conn_types, "tls") = 2
      BY <1>2, Indexes
    <2>2. HasType("tls")
      BY <2>1 DEF HasType
    <2>3. Created("tls") = [listeners EXCEPT ![2] = [type |-> "tls", fd |-> NoFd]]
      BY <2>1 DEF Created
    <2> QED BY <1>1, <1>2, <2>2, <2>3
  <1>3. CASE ~config.USE_TLS
    <2>1. get_conntype_index_by_name(conn_types, "tls") = -1
      BY <1>3, Indexes
    <2>2. ~HasType("tls")
      BY <2>1 DEF HasType
    <2> QED BY <1>1, <1>3, <2>2
  <1> QED BY <1>2, <1>3

(* The registry's shape, which is all the proofs below use.                 *)
LEMMA RegistryFacts ==
    ASSUME config \in Config
    PROVE  /\ Registry \in Seq(Types) /\ Len(Registry) <= CONN_TYPE_MAX
           /\ Registry[1] = "tcp" /\ 1 \in DOMAIN Registry
           /\ config.USE_TLS => Registry[2] = "tls" /\ 2 \in DOMAIN Registry
  <1> DEFINE Two == <<"tcp", "tls">>
             One == <<"tcp">>
  <1>1. /\ Two \in Seq(Types) /\ Len(Two) = 2 /\ DOMAIN Two = {1, 2}
        /\ Two[1] = "tcp" /\ Two[2] = "tls"
    BY DEF Types
  <1>2. One \in Seq(Types) /\ Len(One) = 1 /\ DOMAIN One = {1} /\ One[1] = "tcp"
    BY DEF Types
  <1>3. Registry = IF config.USE_TLS THEN Two ELSE One
    BY DEF Registry
  <1> HIDE DEF Two, One
  <1>4. CASE config.USE_TLS
    <2>1. Registry = Two
      BY <1>3, <1>4
    <2> QED BY <1>1, <2>1 DEF CONN_TYPE_MAX
  <1>5. CASE ~config.USE_TLS
    <2>1. Registry = One
      BY <1>3, <1>5
    <2> QED BY <1>2, <1>5, <2>1 DEF CONN_TYPE_MAX
  <1> QED BY <1>4, <1>5

----------------------------------------------------------------------------
LEMMA StartInvInit == Init => StartInv
  <1> SUFFICES ASSUME Init PROVE StartInv
    OBVIOUS
  <1>0. conn_types \in Seq(Types) /\ Len(conn_types) <= CONN_TYPE_MAX
    BY DEF Init, CONN_TYPE_MAX
  <1>a. config \in Config /\ tls_ctx \in BOOLEAN
    BY Zenon DEF Init
  <1>b. listeners \in [Slots -> [type : Types, fd : Fds \cup {NoFd}] \cup {None}]
    BY DEF Init
  <1>c. slot \in 1 .. CONN_TYPE_MAX + 1 /\ left \in 0 .. MaxAddrs
    BY AddrsAssumption DEF Init, CONN_TYPE_MAX
  <1>1. StartupTypeOK
    BY <1>0, <1>a, <1>b, <1>c, Zenon DEF Init, StartupTypeOK
  <1>2. RegistryInv /\ CreatedInv /\ NothingOpen /\ LoopInv
    BY DEF Init, RegistryInv, CreatedInv, NothingOpen, LoopInv, Looping, None
  <1> QED BY <1>1, <1>2 DEF StartInv

(* Whatever ends the process leaves nothing to say but the types.           *)
LEMMA EndsKeeps ==
    ASSUME StartInv, NEW how \in {"exited", "crashed"}, Ends(how),
           UNCHANGED <<config, conn_types>>,
           tls_ctx' \in BOOLEAN,
           listeners' \in [Slots -> [type : Types, fd : Fds \cup {NoFd}] \cup {None}],
           UNCHANGED slot, left' \in 0 .. MaxAddrs, sockfd' \in Fds \cup {NoFd}
    PROVE  StartInv'
  <1>1. StartupTypeOK'
    BY DEF StartInv, StartupTypeOK, Ends
  <1>2. RegistryInv' /\ CreatedInv' /\ NothingOpen' /\ LoopInv'
    BY DEF Ends, RegistryInv, CreatedInv, NothingOpen, LoopInv, Looping
  <1> QED BY <1>1, <1>2 DEF StartInv

----------------------------------------------------------------------------
(* Before the loop: registering and creating.                               *)
LEMMA ParseLogsKeeps ==
    ASSUME StartInv, ParseLogs
    PROVE  StartInv'
  <1>1. CASE Exit
    BY <1>1, EndsKeeps DEF ParseLogs, Exit, startVars, loopVars, StartInv, StartupTypeOK
  <1>2. CASE pc' = "register" /\ UNCHANGED fdVars
    <2>1. StartupTypeOK'
      BY <1>2, Zenon DEF ParseLogs, StartInv, StartupTypeOK, startVars, loopVars, fdVars
    <2>2. RegistryInv' /\ CreatedInv' /\ NothingOpen' /\ LoopInv'
      BY <1>2 DEF ParseLogs, StartInv, RegistryInv, CreatedInv, NothingOpen, LoopInv,
                  startVars, loopVars, fdVars, Looping
    <2> QED BY <2>1, <2>2 DEF StartInv
  <1> QED BY <1>1, <1>2 DEF ParseLogs

LEMMA RegisterKeeps ==
    ASSUME StartInv, conntype_initialize
    PROVE  StartInv'
  <1>1. conn_types' = Registry /\ Registry' = Registry /\ config' = config /\ config \in Config
    BY Registers DEF conntype_initialize, Registry, StartInv, StartupTypeOK
  <1>2. StartupTypeOK'
    <2>1. conn_types' \in Seq(Types) /\ Len(conn_types') <= CONN_TYPE_MAX
      BY <1>1, RegistryFacts
    <2> QED BY <2>1, Zenon DEF conntype_initialize, StartInv, StartupTypeOK, loopVars, fdVars
  <1>3. RegistryInv'
    BY <1>1 DEF RegistryInv
  <1>4. CreatedInv' /\ NothingOpen' /\ LoopInv'
    BY DEF conntype_initialize, StartInv, CreatedInv, NothingOpen, LoopInv, loopVars, fdVars, Looping
  <1> QED BY <1>2, <1>3, <1>4 DEF StartInv

LEMMA CreateTcpKeeps ==
    ASSUME StartInv, CreateTcp
    PROVE  StartInv'
  <1>1. conn_types = Registry /\ config \in Config /\ config' = config /\ conn_types' = conn_types
    BY DEF CreateTcp, StartInv, StartupTypeOK, RegistryInv
  <1>2. HasType("tcp")
    BY <1>1, HasTypes
  <1>3. pc' = "tls" /\ UNCHANGED fdVars /\ pc = "tcp"
    BY <1>2 DEF CreateTcp
  <1>4. /\ listeners' \in [Slots -> [type : Types, fd : Fds \cup {NoFd}] \cup {None}]
        /\ \A i \in Slots : listeners'[i] =
             IF i = 1 /\ config.port THEN [type |-> "tcp", fd |-> NoFd] ELSE None
    <2>1. listeners \in [Slots -> [type : Types, fd : Fds \cup {NoFd}] \cup {None}]
      BY DEF StartInv, StartupTypeOK
    <2>2. \A i \in Slots : listeners[i] = None
      BY <1>3 DEF StartInv, CreatedInv
    <2>3. 1 \in Slots /\ [type |-> "tcp", fd |-> NoFd] \in [type : Types, fd : Fds \cup {NoFd}]
      BY DEF Slots, CONN_TYPE_MAX, Types
    <2>4. CASE config.port
      <3>1. listeners' = [listeners EXCEPT ![1] = [type |-> "tcp", fd |-> NoFd]]
        BY <1>1, <1>2, <2>4, HasTypes DEF CreateTcp
      <3> QED BY <2>1, <2>2, <2>3, <2>4, <3>1
    <2>5. CASE ~config.port
      <3>1. listeners' = listeners
        BY <2>5 DEF CreateTcp
      <3> QED BY <2>1, <2>2, <2>5, <3>1
    <2> QED BY <2>4, <2>5
  <1>5. StartupTypeOK'
    BY <1>1, <1>3, <1>4, Zenon DEF CreateTcp, StartInv, StartupTypeOK, loopVars, fdVars
  <1>6. RegistryInv'
    BY <1>1 DEF RegistryInv, Registry
  <1>7. CreatedInv' /\ NothingOpen' /\ LoopInv'
    BY <1>1, <1>3, <1>4
       DEF CreateTcp, StartInv, CreatedInv, NothingOpen, LoopInv, loopVars, fdVars, Looping, None
  <1> QED BY <1>5, <1>6, <1>7 DEF StartInv

LEMMA CreateTlsKeeps ==
    ASSUME StartInv, CreateTls
    PROVE  StartInv'
  <1>1. /\ conn_types = Registry /\ config \in Config /\ config' = config /\ pc = "tls"
        /\ conn_types' = conn_types /\ tls_ctx \in BOOLEAN /\ UNCHANGED loopVars
        /\ listeners \in [Slots -> [type : Types, fd : Fds \cup {NoFd}] \cup {None}]
    BY DEF CreateTls, StartInv, StartupTypeOK, RegistryInv
  <1>2. \A i \in Slots : listeners[i] =
            IF i = 1 /\ config.port THEN [type |-> "tcp", fd |-> NoFd] ELSE None
    BY <1>1 DEF StartInv, CreatedInv
  <1>3. CASE Exit /\ UNCHANGED <<tls_ctx, listeners>>
    BY <1>1, <1>3, EndsKeeps DEF Exit, loopVars, StartInv, StartupTypeOK
  <1>4. ASSUME pc' = "epoll", UNCHANGED fdVars, tls_ctx' \in BOOLEAN,
               config.tls_port => config.USE_TLS,
               listeners' \in [Slots -> [type : Types, fd : Fds \cup {NoFd}] \cup {None}],
               \A i \in Slots : listeners'[i].fd = NoFd,
               \A i \in Slots : listeners'[i] # None <=> Asked(i),
               \A i \in Slots : Asked(i) => listeners'[i].type = Registry[i]
        PROVE  StartInv'
    <2>1. StartupTypeOK'
      BY <1>1, <1>4, Zenon DEF StartInv, StartupTypeOK, loopVars, fdVars
    <2>2. RegistryInv'
      BY <1>1 DEF RegistryInv, Registry
    <2>3. CreatedInv'
      BY <1>1, <1>4 DEF CreatedInv, Registry, Asked, Looping
    <2>4. NothingOpen' /\ LoopInv'
      BY <1>1, <1>4 DEF StartInv, NothingOpen, LoopInv, loopVars, fdVars, Looping
    <2> QED BY <2>1, <2>2, <2>3, <2>4 DEF StartInv
  <1>5. CASE ~config.tls_port /\ pc' = "epoll" /\ UNCHANGED <<tls_ctx, listeners, fdVars>>
    <2>1. \A i \in Slots : listeners[i].fd = NoFd
      BY <1>2 DEF None
    <2>2. \A i \in Slots : listeners[i] # None <=> Asked(i)
      BY <1>2, <1>5 DEF None, Asked
    <2>3. \A i \in Slots : Asked(i) => listeners[i].type = Registry[i]
      BY <1>1, <1>2, <1>5, RegistryFacts DEF Asked
    <2> QED BY <1>1, <1>4, <1>5, <2>1, <2>2, <2>3
  <1>6. CASE /\ config.tls_port /\ HasType("tls")
             /\ tls_ctx' = config.keys /\ listeners' = Created("tls")
             /\ pc' = "epoll" /\ UNCHANGED fdVars
    <2>1. config.USE_TLS /\ listeners' = [listeners EXCEPT ![2] = [type |-> "tls", fd |-> NoFd]]
      BY <1>1, <1>6, HasTypes
    <2>2. 2 \in Slots /\ 1 \in Slots
          /\ [type |-> "tls", fd |-> NoFd] \in [type : Types, fd : Fds \cup {NoFd}]
      BY DEF Slots, CONN_TYPE_MAX, Types
    <2>3. /\ listeners' \in [Slots -> [type : Types, fd : Fds \cup {NoFd}] \cup {None}]
          /\ listeners'[2] = [type |-> "tls", fd |-> NoFd]
          /\ \A i \in Slots \ {2} : listeners'[i] = listeners[i]
      BY <1>1, <2>1, <2>2
    <2>4. \A i \in Slots : listeners'[i].fd = NoFd
      BY <1>2, <2>3 DEF None
    <2>5. \A i \in Slots : listeners'[i] # None <=> Asked(i)
      <3> SUFFICES ASSUME NEW i \in Slots PROVE listeners'[i] # None <=> Asked(i)
        OBVIOUS
      <3>1. CASE i = 2
        BY <1>6, <2>1, <2>3, <3>1 DEF None, Asked
      <3>2. CASE i # 2
        BY <1>2, <2>3, <3>2 DEF None, Asked
      <3> QED BY <3>1, <3>2
    <2>6. \A i \in Slots : Asked(i) => listeners'[i].type = Registry[i]
      BY <1>1, <1>2, <2>1, <2>3, RegistryFacts DEF Asked
    <2>7. tls_ctx' \in BOOLEAN
      BY <1>1, <1>6 DEF Config
    <2> QED BY <1>4, <1>6, <2>1, <2>3, <2>4, <2>5, <2>6, <2>7
  <1> QED BY <1>3, <1>5, <1>6 DEF CreateTls

----------------------------------------------------------------------------
(* The loop over the slots.                                                 *)

(* What the loop leaves alone: the registry, and which slots are in use.    *)
LEMMA LoopFrame ==
    ASSUME StartInv, pc \in Looping \cup {"epoll"}, pc' \in Looping,
           UNCHANGED <<config, conn_types>>,
           \A i \in Slots : /\ listeners'[i] # None <=> listeners[i] # None
                            /\ listeners'[i].type = listeners[i].type
    PROVE  RegistryInv' /\ CreatedInv' /\ NothingOpen'
  <1>1. RegistryInv'
    BY DEF StartInv, RegistryInv, Registry
  <1>2. CreatedInv'
    BY DEF StartInv, CreatedInv, Looping, Asked, Registry
  <1>3. NothingOpen'
    BY DEF NothingOpen, Looping
  <1> QED BY <1>1, <1>2, <1>3

LEMMA EpollCreateKeeps ==
    ASSUME StartInv, EpollCreate
    PROVE  StartInv'
  <1>1. pc = "epoll" /\ UNCHANGED <<config, startVars, loopVars>>
    BY DEF EpollCreate
  <1>2. CASE Exit
    BY <1>1, <1>2, EndsKeeps DEF Exit, startVars, loopVars, StartInv, StartupTypeOK
  <1>3. ASSUME NEW fd \in Fds, NewFd(fd), epollfd' = fd, fds' = fds \cup {fd},
               pc' = "slot", UNCHANGED watched
        PROVE  StartInv'
    <2>1. StartupTypeOK'
      BY <1>1, <1>3, Zenon DEF StartInv, StartupTypeOK, startVars, loopVars
    <2>2. RegistryInv' /\ CreatedInv' /\ NothingOpen'
      BY <1>1, <1>3, LoopFrame DEF Looping, startVars
    <2>3. fds = {} /\ watched = {} /\ slot = 1 /\ \A i \in Slots : listeners[i].fd = NoFd
      BY <1>1 DEF StartInv, NothingOpen
    <2>4. LoopInv'
      BY <1>1, <1>3, <2>3 DEF LoopInv, InHand, Looping, startVars, loopVars, Slots, CONN_TYPE_MAX
    <2> QED BY <2>1, <2>2, <2>4 DEF StartInv
  <1> QED BY <1>2, <1>3 DEF EpollCreate

LEMMA EmptySlotKeeps ==
    ASSUME StartInv, EmptySlot
    PROVE  StartInv'
  <1>1. /\ pc = "slot" /\ pc' = pc /\ slot \in Slots /\ listeners[slot] = None /\ slot' = slot + 1
        /\ UNCHANGED <<config, startVars, left, sockfd, fdVars, pc>>
    BY DEF EmptySlot
  <1>0. slot \in Int /\ slot' \in 1 .. CONN_TYPE_MAX + 1
    BY <1>1 DEF Slots, CONN_TYPE_MAX
  <1>2. StartupTypeOK'
    BY <1>0, <1>1, Zenon DEF StartInv, StartupTypeOK, startVars, fdVars
  <1>3. RegistryInv' /\ CreatedInv' /\ NothingOpen'
    BY <1>1, LoopFrame DEF Looping, startVars
  <1>4. LoopInv'
    <2>1. \A i \in Slots : i \in Int
      BY DEF Slots
    <2>2. \A i \in Slots : (i < slot' <=> i < slot \/ i = slot)
                           /\ (i > slot' \/ i = slot' => i > slot)
      BY <1>0, <1>1, <2>1
    <2>3. listeners[slot].fd = NoFd
      BY <1>1 DEF None
    <2>4. \A i \in Slots : i < slot /\ listeners[i] # None => listeners[i].fd # NoFd
      BY <1>1, FdsAssumption DEF StartInv, StartupTypeOK, LoopInv, Looping, NoFd
    <2>5. \A i, j \in Slots : i < slot' /\ j < slot' /\ i # j /\ listeners[i] # None
            => listeners[i].fd # listeners[j].fd
      BY <1>1, <2>2, <2>3, <2>4 DEF StartInv, LoopInv, Looping
    <2>6. UNCHANGED <<fds, epollfd, watched, listeners, sockfd, pc>> /\ InHand' = {} /\ InHand = {}
      BY <1>1 DEF startVars, fdVars, InHand
    <2> QED BY <1>1, <2>2, <2>5, <2>6 DEF StartInv, LoopInv, Looping
  <1> QED BY <1>2, <1>3, <1>4 DEF StartInv

LEMMA ResolveKeeps ==
    ASSUME StartInv, Resolve
    PROVE  StartInv'
  <1>1. /\ pc = "slot" /\ slot \in Slots /\ listeners[slot] # None
        /\ UNCHANGED <<config, startVars, slot, sockfd>>
    BY DEF Resolve
  <1>2. CASE (Exit \/ Ends("crashed")) /\ UNCHANGED left
    BY <1>1, <1>2, EndsKeeps DEF Exit, startVars, StartInv, StartupTypeOK
  <1>3. CASE left' \in 1 .. MaxAddrs /\ pc' = "socket" /\ UNCHANGED fdVars
    <2>0. left' \in 0 .. MaxAddrs
      BY <1>3, AddrsAssumption
    <2>1. StartupTypeOK'
      BY <1>1, <1>3, <2>0, Zenon DEF StartInv, StartupTypeOK, startVars, fdVars
    <2>2. RegistryInv' /\ CreatedInv' /\ NothingOpen'
      BY <1>1, <1>3, LoopFrame DEF Looping, startVars
    <2>3. LoopInv'
      BY <1>1, <1>3 DEF StartInv, LoopInv, InHand, Looping, startVars, fdVars
    <2> QED BY <2>1, <2>2, <2>3 DEF StartInv
  <1> QED BY <1>2, <1>3 DEF Resolve

LEMMA SocketKeeps ==
    ASSUME StartInv, Socket
    PROVE  StartInv'
  <1>1. /\ pc = "socket" /\ left > 0 /\ left' = left - 1
        /\ UNCHANGED <<config, startVars, slot, epollfd, watched>>
    BY DEF Socket
  <1>2. left' \in 0 .. MaxAddrs
    BY <1>1, AddrsAssumption DEF StartInv, StartupTypeOK
  <1>3. CASE UNCHANGED <<sockfd, fds, pc>>
    <2>1. StartupTypeOK'
      BY <1>1, <1>2, <1>3, Zenon DEF StartInv, StartupTypeOK, startVars
    <2>2. RegistryInv' /\ CreatedInv' /\ NothingOpen'
      BY <1>1, <1>3, LoopFrame DEF Looping, startVars
    <2>3. LoopInv'
      BY <1>1, <1>3 DEF StartInv, LoopInv, InHand, Looping, startVars
    <2> QED BY <2>1, <2>2, <2>3 DEF StartInv
  <1>4. ASSUME NEW fd \in Fds, NewFd(fd), sockfd' = fd, fds' = fds \cup {fd}, pc' = "bind"
        PROVE  StartInv'
    <2>1. StartupTypeOK'
      BY <1>1, <1>2, <1>4, Zenon DEF StartInv, StartupTypeOK, startVars
    <2>2. RegistryInv' /\ CreatedInv' /\ NothingOpen'
      BY <1>1, <1>4, LoopFrame DEF Looping, startVars
    <2>3. fd \notin watched \cup {epollfd}
      BY <1>1, <1>4 DEF StartInv, LoopInv, Looping, NewFd
    <2>4. LoopInv'
      BY <1>1, <1>4, <2>3 DEF StartInv, LoopInv, InHand, Looping, startVars
    <2> QED BY <2>1, <2>2, <2>4 DEF StartInv
  <1> QED BY <1>3, <1>4 DEF Socket

LEMMA BindFailsKeeps ==
    ASSUME StartInv, BindFails
    PROVE  StartInv'
  <1>1. /\ pc = "bind" /\ pc' = "socket" /\ fds' = fds \ {sockfd} /\ sockfd' = NoFd
        /\ UNCHANGED <<config, startVars, slot, left, epollfd, watched>>
    BY DEF BindFails
  <1>2. StartupTypeOK'
    BY <1>1, Zenon DEF StartInv, StartupTypeOK, startVars
  <1>3. RegistryInv' /\ CreatedInv' /\ NothingOpen'
    BY <1>1, LoopFrame DEF Looping, startVars
  <1>4. LoopInv'
    BY <1>1 DEF StartInv, LoopInv, InHand, Looping, startVars
  <1> QED BY <1>2, <1>3, <1>4 DEF StartInv

LEMMA ListenKeeps ==
    ASSUME StartInv, Listen
    PROVE  StartInv'
  <1>1. /\ pc = "bind" /\ pc' = "watch" /\ sockfd' = NoFd /\ left' = 0
        /\ listeners' = [listeners EXCEPT ![slot].fd = sockfd]
        /\ UNCHANGED <<config, conn_types, tls_ctx, slot, fdVars>>
    BY DEF Listen
  <1>2. /\ listeners \in [Slots -> [type : Types, fd : Fds \cup {NoFd}] \cup {None}]
        /\ slot \in Slots /\ listeners[slot] # None /\ sockfd \in Fds
    BY <1>1 DEF StartInv, StartupTypeOK, LoopInv, InHand, Looping
  <1>0. slot \in Int /\ \A i \in Slots : i \in Int
    BY <1>2 DEF Slots
  <1>3. listeners[slot] \in [type : Types, fd : Fds \cup {NoFd}]
    BY <1>2
  <1>4. /\ listeners'[slot] = [listeners[slot] EXCEPT !.fd = sockfd]
        /\ \A i \in Slots \ {slot} : listeners'[i] = listeners[i]
        /\ listeners'[slot] \in [type : Types, fd : Fds \cup {NoFd}]
        /\ listeners' \in [Slots -> [type : Types, fd : Fds \cup {NoFd}] \cup {None}]
    <2> DEFINE T == [type : Types, fd : Fds \cup {NoFd}]
               l == [listeners[slot] EXCEPT !.fd = sockfd]
    <2>1. l \in T
      BY <1>2, <1>3
    <2>2. listeners' = [listeners EXCEPT ![slot] = l]
      BY <1>1
    <2> HIDE DEF l, T
    <2>3. /\ listeners'[slot] = l /\ \A i \in Slots \ {slot} : listeners'[i] = listeners[i]
          /\ listeners' \in [Slots -> T \cup {None}]
      <3>1. listeners \in [Slots -> T \cup {None}]
        BY <1>2 DEF T
      <3> QED BY <1>2, <2>1, <2>2, <3>1
    <2> QED BY <2>1, <2>3 DEF l, T
  <1>5. listeners'[slot].type = listeners[slot].type /\ listeners'[slot].fd = sockfd
    BY <1>3, <1>4
  <1>6. listeners'[slot] # None
    BY <1>2, <1>5, FdsAssumption DEF None, NoFd
  <1>7. StartupTypeOK'
    <2>1. left' \in 0 .. MaxAddrs
      BY <1>1, AddrsAssumption
    <2> QED BY <1>1, <1>4, <2>1, Zenon DEF StartInv, StartupTypeOK, fdVars
  <1>8. RegistryInv' /\ CreatedInv' /\ NothingOpen'
    BY <1>1, <1>2, <1>4, <1>5, <1>6, LoopFrame DEF Looping
  <1>9. LoopInv'
    BY <1>0, <1>1, <1>2, <1>4, <1>5, <1>6 DEF StartInv, LoopInv, InHand, Looping, fdVars
  <1> QED BY <1>7, <1>8, <1>9 DEF StartInv

LEMMA EpollAddKeeps ==
    ASSUME StartInv, EpollAdd
    PROVE  StartInv'
  <1>1. pc = "watch" /\ UNCHANGED <<config, startVars, left, sockfd>>
    BY DEF EpollAdd
  <1>2. CASE Exit /\ UNCHANGED slot
    BY <1>1, <1>2, EndsKeeps DEF Exit, startVars, StartInv, StartupTypeOK
  <1>3. CASE /\ watched' = watched \cup {listeners[slot].fd}
             /\ slot' = slot + 1 /\ pc' = "slot" /\ UNCHANGED <<fds, epollfd>>
    <2>1. slot \in Slots /\ listeners[slot] # None /\ listeners[slot].fd \in Fds
      BY <1>1 DEF StartInv, LoopInv, InHand, Looping
    <2>2. slot \in Int /\ slot' \in 1 .. CONN_TYPE_MAX + 1 /\ \A i \in Slots : i \in Int
      BY <1>3, <2>1 DEF Slots, CONN_TYPE_MAX
    <2>3. StartupTypeOK'
      BY <1>1, <1>3, <2>1, <2>2, Zenon DEF StartInv, StartupTypeOK, startVars
    <2>4. RegistryInv' /\ CreatedInv' /\ NothingOpen'
      BY <1>1, <1>3, LoopFrame DEF Looping, startVars
    <2> DEFINE fd == listeners[slot].fd
    <2>5. /\ fd \notin watched /\ fd # epollfd /\ epollfd \in Fds /\ epollfd \notin watched
          /\ fds = watched \cup {epollfd} \cup {fd}
          /\ \A i \in Slots : i < slot /\ listeners[i] # None => listeners[i].fd \in watched
          /\ \A w \in watched : \E i \in Slots : i < slot /\ listeners[i].fd = w
          /\ \A i \in Slots : i > slot => listeners[i].fd = NoFd
          /\ \A i, j \in Slots : i < slot /\ j < slot /\ i # j /\ listeners[i] # None
                => listeners[i].fd # listeners[j].fd
      BY <1>1 DEF StartInv, LoopInv, InHand, Looping
    <2>6. \A i \in Slots : i < slot => listeners[i].fd # fd
      <3>1. \A i \in Slots : i < slot /\ listeners[i] = None => listeners[i].fd # fd
        BY <2>1, FdsAssumption DEF None, NoFd
      <3> QED BY <2>5, <3>1
    <2>7. LoopInv'
      <3> HIDE DEF fd
      <3>0. pc' = "slot" /\ watched' = watched \cup {fd} /\ listeners' = listeners
        BY <1>1, <1>3 DEF startVars, fd
      <3>1. \A i \in Slots : i < slot' => i < slot \/ i = slot
        BY <1>3, <2>2
      <3>2. \A i \in Slots : i < slot \/ i = slot => i < slot'
        BY <1>3, <2>2
      <3>3. \A i \in Slots : i < slot' /\ listeners[i] # None => listeners[i].fd \in watched'
        BY <2>5, <3>0, <3>1 DEF fd
      <3>4. \A w \in watched' : \E i \in Slots : i < slot' /\ listeners[i].fd = w
        <4>1. \A w \in watched : \E i \in Slots : i < slot' /\ listeners[i].fd = w
          BY <2>5, <3>2
        <4>2. slot < slot' /\ listeners[slot].fd = fd
          BY <2>1, <3>2 DEF fd
        <4> QED BY <2>1, <3>0, <4>1, <4>2
      <3>5. \A i \in Slots : i > slot' \/ i = slot' => listeners[i].fd = NoFd
        BY <1>3, <2>2, <2>5
      <3>6. \A i, j \in Slots : i < slot' /\ j < slot' /\ i # j /\ listeners[i] # None
              => listeners[i].fd # listeners[j].fd
        BY <2>5, <2>6, <3>1 DEF fd
      <3> QED BY <1>3, <2>5, <3>0, <3>3, <3>4, <3>5, <3>6 DEF LoopInv, InHand
    <2> QED BY <2>3, <2>4, <2>7 DEF StartInv
  <1> QED BY <1>2, <1>3 DEF EpollAdd

LEMMA ReadyKeeps ==
    ASSUME StartInv, Ready
    PROVE  StartInv'
  <1>1. /\ pc = "slot" /\ slot = CONN_TYPE_MAX + 1
        /\ UNCHANGED <<config, startVars, loopVars>>
    BY DEF Ready
  <1>2. CASE Exit
    BY <1>1, <1>2, EndsKeeps DEF Exit, startVars, loopVars, StartInv, StartupTypeOK
  <1>3. CASE watched # {} /\ pc' = "serving" /\ UNCHANGED fdVars
    <2>1. StartupTypeOK'
      BY <1>1, <1>3, Zenon DEF StartInv, StartupTypeOK, startVars, loopVars, fdVars
    <2>2. RegistryInv' /\ CreatedInv' /\ NothingOpen'
      BY <1>1, <1>3, LoopFrame DEF Looping, startVars
    <2>3. LoopInv'
      BY <1>1, <1>3 DEF StartInv, LoopInv, InHand, Looping, startVars, loopVars, fdVars
    <2> QED BY <2>1, <2>2, <2>3 DEF StartInv
  <1> QED BY <1>2, <1>3 DEF Ready

----------------------------------------------------------------------------
LEMMA StartInvInductive == StartInv /\ [Next]_vars => StartInv'
  <1> SUFFICES ASSUME StartInv, [Next]_vars PROVE StartInv'
    OBVIOUS
  <1>1. CASE UNCHANGED vars
    <2>1. UNCHANGED <<config, conn_types, tls_ctx, listeners, slot, left, sockfd,
                      fds, epollfd, watched, pc>>
      BY <1>1 DEF vars, startVars, loopVars, fdVars
    <2>2. StartupTypeOK'
      BY <2>1, Zenon DEF StartInv, StartupTypeOK
    <2>3. RegistryInv' /\ CreatedInv' /\ NothingOpen' /\ LoopInv'
      BY <2>1 DEF StartInv, RegistryInv, CreatedInv, NothingOpen, LoopInv, InHand, Registry, Asked
    <2> QED BY <2>2, <2>3 DEF StartInv
  <1>2. CASE ParseLogs
    BY <1>2, ParseLogsKeeps
  <1>3. CASE conntype_initialize
    BY <1>3, RegisterKeeps
  <1>4. CASE CreateTcp
    BY <1>4, CreateTcpKeeps
  <1>5. CASE CreateTls
    BY <1>5, CreateTlsKeeps
  <1>6. CASE EpollCreate
    BY <1>6, EpollCreateKeeps
  <1>7. CASE EmptySlot
    BY <1>7, EmptySlotKeeps
  <1>8. CASE Resolve
    BY <1>8, ResolveKeeps
  <1>9. CASE Socket
    BY <1>9, SocketKeeps
  <1>10. CASE NoAddress \/ OptionFails
    BY <1>10, EndsKeeps DEF NoAddress, OptionFails, Exit, startVars, loopVars, StartInv, StartupTypeOK
  <1>11. CASE BindFails
    BY <1>11, BindFailsKeeps
  <1>12. CASE Listen
    BY <1>12, ListenKeeps
  <1>13. CASE EpollAdd
    BY <1>13, EpollAddKeeps
  <1>14. CASE Ready
    BY <1>14, ReadyKeeps
  <1> QED BY <1>1, <1>2, <1>3, <1>4, <1>5, <1>6, <1>7, <1>8, <1>9, <1>10, <1>11, <1>12,
             <1>13, <1>14 DEF Next

LEMMA StartInvHolds == Spec => []StartInv
  BY StartInvInit, StartInvInductive, PTL DEF Spec

(* The variables keep the types of the C variables; the loop over the slots *)
(* never indexes the array of listeners past CONN_TYPE_MAX.                 *)
THEOREM StartupTyped == Spec => []StartupTypeOK
  <1>1. StartInv => StartupTypeOK
    BY DEF StartInv
  <1> QED BY <1>1, StartInvHolds, PTL

(* In every state the invariant allows, a server that is ready listens      *)
(* exactly where it was asked to.                                           *)
LEMMA ReadyListens ==
    ASSUME StartInv
    PROVE  ListensExactly
  <1> SUFFICES ASSUME pc = "serving" PROVE ListensExactly!2
    BY DEF ListensExactly
  <1>1. /\ config \in Config /\ conn_types = Registry
        /\ config.tls_port => config.USE_TLS
        /\ \A i \in Slots : listeners[i] # None <=> Asked(i)
        /\ \A i \in Slots : Asked(i) => listeners[i].type = Registry[i]
    BY DEF StartInv, StartupTypeOK, RegistryInv, CreatedInv, Looping
  <1>2. /\ slot = CONN_TYPE_MAX + 1 /\ watched # {} /\ epollfd \notin watched
        /\ fds = watched \cup {epollfd}
        /\ \A i \in Slots : i < slot /\ listeners[i] # None => listeners[i].fd \in watched
        /\ \A w \in watched : \E i \in Slots : listeners[i].fd = w
        /\ \A i, j \in Slots : i < slot /\ j < slot /\ i # j /\ listeners[i] # None
              => listeners[i].fd # listeners[j].fd
    BY DEF StartInv, LoopInv, InHand, Looping
  <1>3. \A i \in Slots : i < slot
    BY <1>2 DEF Slots, CONN_TYPE_MAX
  <1>4. \A i \in Slots : listeners[i].fd = NoFd => listeners[i] = None
    BY <1>2, <1>3, FdsAssumption DEF StartInv, StartupTypeOK, NoFd
  <1>5. \A i \in Slots : listeners[i] = None => listeners[i].fd = NoFd
    BY DEF None
  <1>6. NoFd \notin watched
    BY FdsAssumption DEF StartInv, StartupTypeOK, NoFd
  <1>7. 1 \in Slots /\ 2 \in Slots
    BY DEF Slots, CONN_TYPE_MAX
  <1>8. \A i \in Slots : Asked(i) => Registry[i] \in Enabled
    BY <1>1, RegistryFacts DEF Asked, Enabled, Types
  <1>9. Enabled # {}
    <2>1. PICK w \in watched : TRUE
      BY <1>2
    <2>2. PICK i \in Slots : listeners[i].fd = w
      BY <1>2
    <2>3. listeners[i] # None
      BY <1>5, <1>6, <2>1, <2>2
    <2> QED BY <1>1, <1>8, <2>3
  <1>10. \A t \in Enabled : \E i \in DOMAIN conn_types :
            conn_types[i] = t /\ listeners[i].type = t /\ listeners[i].fd \in fds
    <2> SUFFICES ASSUME NEW t \in Enabled
                 PROVE  \E i \in DOMAIN conn_types :
                          conn_types[i] = t /\ listeners[i].type = t /\ listeners[i].fd \in fds
      OBVIOUS
    <2>1. CASE t = "tcp"
      <3>1. Asked(1)
        BY <2>1 DEF Enabled, Asked
      <3>2. listeners[1].fd \in fds /\ listeners[1].type = Registry[1]
        BY <1>1, <1>2, <1>3, <1>7, <3>1
      <3> QED BY <1>1, <2>1, <3>2, RegistryFacts
    <2>2. CASE t = "tls"
      <3>1. Asked(2) /\ config.USE_TLS
        BY <1>1, <2>2 DEF Enabled, Asked
      <3>2. listeners[2].fd \in fds /\ listeners[2].type = Registry[2]
        BY <1>1, <1>2, <1>3, <1>7, <3>1
      <3> QED BY <1>1, <2>2, <3>1, <3>2, RegistryFacts
    <2> QED BY <2>1, <2>2 DEF Enabled, Types
  <1>11. \A i \in Slots : listeners[i] # None => listeners[i].type \in Enabled
    BY <1>1, <1>8
  <1>12. \A i, j \in Slots : (i # j /\ listeners[i] # None) => listeners[i].fd # listeners[j].fd
    BY <1>2, <1>3
  <1>13. watched = ListeningFds
    BY <1>2, <1>3, <1>5, <1>6 DEF ListeningFds
  <1> QED BY <1>2, <1>9, <1>10, <1>11, <1>12, <1>13

(* A server that says it is ready listens for every type the command line   *)
(* asks for and no other, each on its own watched descriptor, and has       *)
(* nothing else open, whichever calls of main, httpd_routine and            *)
(* listen_to_port failed on the way.                                        *)
THEOREM ReadyListensExactly == Spec => []ListensExactly
  BY ReadyListens, StartInvHolds, PTL
=============================================================================

------------------------------ MODULE Connection ------------------------------
(****************************************************************************)
(* connection.h with its two implementations, socket.c and tls.c: what the  *)
(* server's one connection object owns (a descriptor, an SSL object) and    *)
(* how the operations of its type acquire, use and release them.            *)
(****************************************************************************)
EXTENDS Integers, FiniteSets

CONSTANTS
    Types,      \* connection types with a listener, of "tcp" and "tls"
    Fds         \* descriptors the process may hold for connections

ASSUME TypesAssumption == Types \subseteq {"tcp", "tls"}
ASSUME FdsAssumption   == Fds \subseteq Nat

VARIABLES
    conn,       \* the connection object: [type, fd, ssl], or NoConn
    fds,        \* descriptors the kernel has open for this process
    ssls        \* SSL objects allocated and not freed

connVars == <<conn, fds, ssls>>

NoFd   == -1
NoConn == [type |-> "none", fd |-> NoFd, ssl |-> "none"]

(* ssl: none (a null pointer), new (before the handshake), up, or broken    *)
(* (the handshake failed).                                                  *)
ConnType == [type : Types \cup {"none"}, fd : Fds \cup {NoFd},
             ssl : {"none", "new", "up", "broken"}]

ConnInit == conn = NoConn /\ fds = {} /\ ssls = 0

(* accept returns the lowest free descriptor.                               *)
LowestFree(d) == d \in Fds \ fds /\ \A e \in Fds \ fds : d <= e

(* conn_create, then accept: a TLS connection goes on with SSL_new.         *)
conn_accept(t, d) ==
    /\ LowestFree(d)
    /\ fds' = fds \cup {d}
    /\ conn' = [type |-> t, fd |-> d, ssl |-> IF t = "tls" THEN "new" ELSE "none"]
    /\ ssls' = IF t = "tls" THEN ssls + 1 ELSE ssls

(* The same, when there is no SSL_CTX or SSL_new fails.                     *)
conn_accept_bare(t, d) ==
    /\ t = "tls"
    /\ LowestFree(d)
    /\ fds' = fds \cup {d}
    /\ conn' = [type |-> t, fd |-> d, ssl |-> "none"]
    /\ ssls' = ssls

(* Mutant: the descriptor stays in the closed connection.                   *)
ReleasedSslOnly(c) == [c EXCEPT !.ssl = "none"]

(* The object conn_close leaves: nothing to release a second time.          *)
Released(c) == [c EXCEPT !.fd = NoFd, !.ssl = "none"]

(* conn_close: free the SSL object if there is one, close the descriptor    *)
(* unless it is -1.                                                         *)
Release ==
    /\ fds' = fds \ {conn.fd}
    /\ ssls' = IF conn.ssl = "none" THEN ssls ELSE ssls - 1

conn_close == Release /\ conn' = Released(conn)

(* conn_read and conn_write return at once when there is nothing to use.    *)
Usable(c) == c.fd # NoFd /\ (c.type = "tls" => c.ssl = "up")
=============================================================================

---------------------------- MODULE SktcpServer ----------------------------
(***************************************************************************)
(* The TCP server of sktcpserver.c: connections are accepted and read by   *)
(* handlers that an event loop calls, and the program sends to a client    *)
(* through a handle, the address of its context.                           *)
(*                                                                         *)
(* One thread runs the loop and makes all calls, also from the connect and *)
(* receive callbacks, so a handler is one step.  (tcp->lock is not taken   *)
(* by the handlers: calls from another thread would race with them.)  The  *)
(* disconnect callback calls nothing of the server.  The loop calls one    *)
(* handler at a time, for a descriptor that is registered.                 *)
(*                                                                         *)
(* Descriptors and addresses are used again once they are closed and       *)
(* freed.  A connection has a number of its own, which is also what the    *)
(* program stores as its pri_data.                                         *)
(***************************************************************************)
EXTENDS Integers, FiniteSets

CONSTANTS Fd,       \* descriptors for connections; accept fails without one
          Handle,   \* addresses malloc may return for a context
          MaxConn,  \* bound: connections made in a behaviour
          None      \* no context

ASSUME ConnAssumption == MaxConn \in Nat /\ None \notin Handle /\ -1 \notin Fd

VARIABLES
  status,       \* "down", "up", "failed" (init), or "crashed" by a bad access
  rxbuffer,     \* the receive buffer is allocated
  accepting,    \* the listening descriptor is open and registered
  conn,         \* the connection behind each descriptor, 0 when closed
  watch,        \* the context whose recv_watcher is registered for it, or None
  client_list,  \* tcp->client_list
  heap,         \* contexts allocated
  ctx,          \* what each context holds: channel_fd and pri_data
  informed,     \* connections the program takes to be up, from the callbacks
  nextConn      \* number of the next connection

loopVars == <<conn, watch, client_list, heap, ctx, informed>>
vars == <<status, rxbuffer, accepting, loopVars, nextConn>>

Conn == 1..MaxConn
Closed == {f \in Fd : conn[f] = 0}
Blank == [fd |-> -1, pri |-> 0]

Init ==
  /\ status = "down"
  /\ rxbuffer = FALSE
  /\ accepting = FALSE
  /\ conn = [f \in Fd |-> 0]
  /\ watch = [f \in Fd |-> None]
  /\ client_list = {}
  /\ heap = {}
  /\ ctx = [h \in Handle |-> Blank]
  /\ informed = {}
  /\ nextConn = 1

(* The buffer, then the listening socket; neither failure undoes what came *)
(* before it.  The result of uev_io_init is not looked at.                 *)
sktcpserver_init ==
  /\ status = "down"
  /\ \/ status' = "failed" /\ rxbuffer' = FALSE /\ accepting' = FALSE
     \/ status' = "failed" /\ rxbuffer' = TRUE /\ accepting' = FALSE
     \/ status' = "up" /\ rxbuffer' = TRUE /\ accepting' \in BOOLEAN
  /\ client_list' = {}
  /\ UNCHANGED <<conn, watch, heap, ctx, informed, nextConn>>

(* Slip, for the mutation runs: the program is not told.                   *)
client_disconnect_silent(gone) ==
  LET fds == {ctx[h].fd : h \in gone} IN
  /\ conn' = [f \in Fd |-> IF f \in fds THEN 0 ELSE conn[f]]
  /\ watch' = [f \in Fd |-> IF f \in fds THEN None ELSE watch[f]]
  /\ ctx' = [h \in Handle |-> IF h \in gone THEN [ctx[h] EXCEPT !.fd = -1] ELSE ctx[h]]
  /\ client_list' = client_list \ gone
  /\ heap' = heap \ gone
  /\ UNCHANGED informed

(* client_disconnect, for each of the contexts given: the callback, the    *)
(* watcher, the descriptor, the list node and the memory.                  *)
client_disconnect(gone) ==
  LET fds == {ctx[h].fd : h \in gone} IN
  /\ informed' = informed \ {ctx[h].pri : h \in gone}
  /\ conn' = [f \in Fd |-> IF f \in fds THEN 0 ELSE conn[f]]
  /\ watch' = [f \in Fd |-> IF f \in fds THEN None ELSE watch[f]]
  /\ ctx' = [h \in Handle |-> IF h \in gone THEN [ctx[h] EXCEPT !.fd = -1] ELSE ctx[h]]
  /\ client_list' = client_list \ gone
  /\ heap' = heap \ gone

(* Slip: the context is registered before the program is asked.            *)
Refused_registered(h, new_fd) ==
  /\ conn' = [conn EXCEPT ![new_fd] = nextConn]
  /\ watch' = [watch EXCEPT ![new_fd] = h]
  /\ UNCHANGED <<client_list, heap, ctx, informed>>

(* client_connect_cb returns other than 0: the context is freed again and  *)
(* the handler returns, with the connection still open.                    *)
Refused(h, new_fd) ==
  /\ conn' = [conn EXCEPT ![new_fd] = nextConn]
  /\ UNCHANGED <<watch, client_list, heap, ctx, informed>>

(* client_connect_cb returns 0, or there is none.  The result of           *)
(* uev_io_init is not looked at.                                           *)
Established(h, new_fd) ==
  /\ conn' = [conn EXCEPT ![new_fd] = nextConn]
  /\ informed' = informed \union {nextConn}
  /\ heap' = heap \union {h}
  /\ ctx' = [ctx EXCEPT ![h] = [fd |-> new_fd, pri |-> nextConn]]
  /\ client_list' = client_list \union {h}
  /\ watch' \in {watch, [watch EXCEPT ![new_fd] = h]}

(* A connection comes in.                                                  *)
tcp_conn_handler ==
  /\ status = "up" /\ accepting /\ nextConn \in Conn
  /\ nextConn' = nextConn + 1
  /\ \/ UNCHANGED loopVars           \* accept fails, or malloc: closed at once
     \/ \E new_fd \in Closed, h \in Handle \ heap :
          Refused(h, new_fd) \/ Established(h, new_fd)
  /\ UNCHANGED <<status, rxbuffer, accepting>>

(* A registered descriptor is readable: recv reports the end of the        *)
(* connection or an error.  (With data, or EAGAIN, no state changes.)      *)
client_receive_data_handler(fd) ==
  /\ status = "up" /\ watch[fd] # None
  /\ client_disconnect({watch[fd]})
  /\ UNCHANGED <<status, rxbuffer, accepting, nextConn>>

(* Sending changes the state only if select or send fails.  client_log     *)
(* then reads the context that client_disconnect has freed.                *)
sktcpserver_send(h) ==
  /\ status = "up" /\ h \in client_list
  /\ client_disconnect({h})
  /\ status' \in {"up", "crashed"}
  /\ UNCHANGED <<rxbuffer, accepting, nextConn>>

(* Slip: the clients are left to themselves.                               *)
sktcpserver_fini_listener ==
  /\ status = "up"
  /\ status' = "down"
  /\ rxbuffer' = FALSE
  /\ accepting' = FALSE
  /\ UNCHANGED <<loopVars, nextConn>>

sktcpserver_fini ==
  /\ status = "up"
  /\ client_disconnect(client_list)
  /\ status' = "down"
  /\ rxbuffer' = FALSE
  /\ accepting' = FALSE
  /\ UNCHANGED nextConn

Next ==
  \/ sktcpserver_init
  \/ tcp_conn_handler
  \/ \E fd \in Fd : client_receive_data_handler(fd)
  \/ \E h \in Handle : sktcpserver_send(h)
  \/ sktcpserver_fini

Spec == Init /\ [][Next]_vars
-----------------------------------------------------------------------------
(* The event loop calls client_receive_data_handler only with a context    *)
(* that is allocated and belongs to the very descriptor that is readable,  *)
(* although addresses and descriptors are used again.                      *)
WatchersLive ==
  \A fd \in Fd : watch[fd] # None =>
    watch[fd] \in heap /\ ctx[watch[fd]].fd = fd /\ conn[fd] # 0

(* A handle leads to the connection it was given for: the descriptor of    *)
(* each listed context is that of the connection the program was told of,  *)
(* and those are all the connections it takes to be up.  So every          *)
(* connection it accepted ends with one disconnect callback.               *)
HandlesRight ==
  /\ heap = client_list
  /\ \A h \in client_list : conn[ctx[h].fd] = ctx[h].pri
  /\ informed = {ctx[h].pri : h \in client_list}

(* sktcpserver_fini leaves no context, no registration and no connection   *)
(* the program still counts on.                                            *)
FiniCleans ==
  status = "down" => /\ heap = {} /\ informed = {} /\ ~rxbuffer
                     /\ \A fd \in Fd : watch[fd] = None

(* Every open connection is one the program has accepted: when             *)
(* client_connect_cb returns other than 0 the server "disconnects the      *)
(* client" (sktcpserver.c:107).                                            *)
RefusedIsClosed ==
  \A fd \in Fd : conn[fd] # 0 => conn[fd] \in informed
=============================================================================

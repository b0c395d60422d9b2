------------------------- MODULE SktcpServerProofs -------------------------
(***************************************************************************)
(* The handlers of sktcpserver.c get live contexts, handles lead to their  *)
(* own connections and sktcpserver_fini cleans up, for every number of     *)
(* descriptors, addresses and connections.                                 *)
(***************************************************************************)
EXTENDS SktcpServer, TLAPS

Shape ==
  /\ conn \in [Fd -> Nat]
  /\ watch \in [Fd -> Handle \union {None}]
  /\ client_list \subseteq Handle
  /\ ctx \in [Handle -> [fd : Fd \union {-1}, pri : Nat]]
  /\ nextConn \in Nat \ {0}

(* Connection numbers are used once: an open descriptor has one that no    *)
(* other descriptor has and that no later connection will get.             *)
NumbersUnique ==
  /\ \A f \in Fd : conn[f] < nextConn
  /\ \A f, g \in Fd : conn[f] = conn[g] /\ conn[f] # 0 => f = g

(* Each listed context has an open descriptor, and one of its own.         *)
ContextsApart ==
  /\ \A h \in client_list : ctx[h].fd \in Fd /\ conn[ctx[h].fd] # 0
  /\ \A h, g \in client_list : ctx[h].fd = ctx[g].fd => h = g

Inv ==
  /\ Shape
  /\ NumbersUnique
  /\ ContextsApart
  /\ WatchersLive
  /\ HandlesRight
  /\ FiniCleans

(* client_disconnect of any of the listed contexts: what it leaves is      *)
(* right, whether one connection ends or all of them do.                   *)
LEMMA DisconnectKeeps ==
  ASSUME Inv, NEW gone \in SUBSET client_list, client_disconnect(gone),
         nextConn' = nextConn
  PROVE  Shape' /\ NumbersUnique' /\ ContextsApart' /\ WatchersLive' /\ HandlesRight'
<1> DEFINE fds == {ctx[h].fd : h \in gone}
<1>0. Shape /\ NumbersUnique /\ ContextsApart /\ WatchersLive /\ HandlesRight
  BY DEF Inv
<1>1. /\ informed' = informed \ {ctx[h].pri : h \in gone}
      /\ conn' = [f \in Fd |-> IF f \in fds THEN 0 ELSE conn[f]]
      /\ watch' = [f \in Fd |-> IF f \in fds THEN None ELSE watch[f]]
      /\ ctx' = [h \in Handle |-> IF h \in gone THEN [ctx[h] EXCEPT !.fd = -1] ELSE ctx[h]]
      /\ client_list' = client_list \ gone
      /\ heap' = heap \ gone
  BY DEF client_disconnect
<1>2. Shape'
  BY <1>0, <1>1 DEF Shape
<1>3. NumbersUnique'
  BY <1>0, <1>1 DEF NumbersUnique, Shape
<1>4. \A h \in client_list' : h \in client_list /\ ctx'[h] = ctx[h] /\ ctx[h].fd \notin fds
  BY <1>0, <1>1 DEF ContextsApart, Shape
<1>5. ContextsApart'
  BY <1>0, <1>1, <1>4 DEF ContextsApart
<1>6. WatchersLive'
  <2> SUFFICES ASSUME NEW f \in Fd, watch'[f] # None
               PROVE  watch'[f] \in heap' /\ ctx'[watch'[f]].fd = f /\ conn'[f] # 0
    BY DEF WatchersLive
  <2>1. f \notin fds /\ watch'[f] = watch[f] /\ conn'[f] = conn[f]
    BY <1>1
  <2>2. watch[f] \in heap /\ ctx[watch[f]].fd = f /\ conn[f] # 0
    BY <1>0, <2>1 DEF WatchersLive
  <2>3. watch[f] \notin gone
    BY <2>1, <2>2
  <2>4. watch[f] \in Handle
    BY <1>0, <2>2 DEF HandlesRight, Shape
  <2> QED  BY <1>1, <2>1, <2>2, <2>3, <2>4
<1>7. HandlesRight'
  <2>1. heap' = client_list'
    BY <1>0, <1>1 DEF HandlesRight
  <2>2. \A h \in client_list' : conn'[ctx'[h].fd] = ctx'[h].pri
    BY <1>0, <1>1, <1>4 DEF HandlesRight, ContextsApart
  <2>3. \A h \in client_list', g \in gone : ctx[h].pri # ctx[g].pri
    <3> SUFFICES ASSUME NEW h \in client_list', NEW g \in gone, ctx[h].pri = ctx[g].pri
                 PROVE  FALSE
      OBVIOUS
    <3>1. conn[ctx[h].fd] = conn[ctx[g].fd] /\ conn[ctx[g].fd] # 0
      BY <1>0, <1>4 DEF HandlesRight, ContextsApart
    <3>2. ctx[h].fd = ctx[g].fd
      BY <1>0, <1>4, <3>1 DEF NumbersUnique, ContextsApart
    <3> QED  BY <1>4, <3>2
  <2>4. informed' = {ctx[h].pri : h \in client_list'}
    BY <1>0, <1>1, <2>3 DEF HandlesRight
  <2>5. informed' = {ctx'[h].pri : h \in client_list'}
    BY <1>4, <2>4
  <2> QED  BY <2>1, <2>2, <2>5 DEF HandlesRight
<1> QED  BY <1>2, <1>3, <1>5, <1>6, <1>7

(* A new connection, refused or established.                               *)
LEMMA ConnectKeeps ==
  ASSUME Inv, tcp_conn_handler
  PROVE  Inv'
<1>0. /\ Shape /\ NumbersUnique /\ ContextsApart /\ WatchersLive /\ HandlesRight
      /\ nextConn' = nextConn + 1 /\ status' = status /\ status = "up"
  BY DEF Inv, tcp_conn_handler
<1>1. FiniCleans'
  BY <1>0 DEF FiniCleans
<1>2. CASE UNCHANGED loopVars
  <2>1. Shape' /\ NumbersUnique'
    BY <1>0, <1>2 DEF loopVars, Shape, NumbersUnique
  <2>2. ContextsApart' /\ WatchersLive' /\ HandlesRight'
    BY <1>0, <1>2 DEF loopVars, ContextsApart, WatchersLive, HandlesRight
  <2> QED  BY <1>1, <2>1, <2>2 DEF Inv
<1>3. ASSUME NEW new_fd \in Closed, NEW h \in Handle \ heap, Refused(h, new_fd)
      PROVE  Inv'
  <2>0. /\ new_fd \in Fd /\ conn[new_fd] = 0
        /\ conn' = [conn EXCEPT ![new_fd] = nextConn]
        /\ UNCHANGED <<watch, client_list, heap, ctx, informed>>
    BY <1>3 DEF Refused, Closed
  <2>1. Shape' /\ NumbersUnique'
    BY <1>0, <2>0 DEF Shape, NumbersUnique
  <2>2. ContextsApart'
    BY <1>0, <2>0 DEF Shape, ContextsApart
  <2>3. WatchersLive'
    BY <1>0, <2>0 DEF Shape, WatchersLive
  <2>4. HandlesRight'
    BY <1>0, <2>0 DEF Shape, HandlesRight, ContextsApart
  <2> QED  BY <1>1, <2>1, <2>2, <2>3, <2>4 DEF Inv
<1>4. ASSUME NEW new_fd \in Closed, NEW h \in Handle \ heap, Established(h, new_fd)
      PROVE  Inv'
  <2>0. /\ new_fd \in Fd /\ conn[new_fd] = 0 /\ h \in Handle /\ h \notin heap
        /\ h \notin client_list
        /\ conn' = [conn EXCEPT ![new_fd] = nextConn]
        /\ informed' = informed \union {nextConn}
        /\ heap' = heap \union {h}
        /\ ctx' = [ctx EXCEPT ![h] = [fd |-> new_fd, pri |-> nextConn]]
        /\ client_list' = client_list \union {h}
        /\ watch' \in {watch, [watch EXCEPT ![new_fd] = h]}
    BY <1>0, <1>4 DEF Established, Closed, HandlesRight
  <2>1. Shape'
    BY <1>0, <2>0 DEF Shape
  <2>2. NumbersUnique'
    BY <1>0, <2>0 DEF Shape, NumbersUnique
  <2>3. /\ ctx'[h].fd = new_fd /\ ctx'[h].pri = nextConn
        /\ \A g \in client_list : ctx'[g] = ctx[g] /\ ctx[g].fd # new_fd /\ ctx[g].fd \in Fd
    BY <1>0, <2>0 DEF Shape, ContextsApart
  <2>4. ContextsApart'
    BY <1>0, <2>0, <2>3 DEF Shape, ContextsApart
  <2>5. WatchersLive'
    <3> SUFFICES ASSUME NEW f \in Fd, watch'[f] # None
                 PROVE  watch'[f] \in heap' /\ ctx'[watch'[f]].fd = f /\ conn'[f] # 0
      BY DEF WatchersLive
    <3>1. CASE f = new_fd
      <4>1. watch[new_fd] = None
        BY <1>0, <2>0 DEF WatchersLive
      <4>2. watch'[f] = h
        BY <1>0, <2>0, <3>1, <4>1 DEF Shape
      <4> QED  BY <1>0, <2>0, <2>3, <3>1, <4>2 DEF Shape
    <3>2. CASE f # new_fd
      <4>1. watch'[f] = watch[f] /\ conn'[f] = conn[f]
        BY <1>0, <2>0, <3>2 DEF Shape
      <4>2. watch[f] \in heap /\ ctx[watch[f]].fd = f /\ conn[f] # 0
        BY <1>0, <4>1 DEF WatchersLive
      <4>3. watch[f] \in client_list
        BY <1>0, <4>2 DEF HandlesRight
      <4> QED  BY <2>0, <2>3, <4>1, <4>2, <4>3
    <3> QED  BY <3>1, <3>2
  <2>6. HandlesRight'
    <3>1. heap' = client_list'
      BY <1>0, <2>0 DEF HandlesRight
    <3>2. \A g \in client_list' : conn'[ctx'[g].fd] = ctx'[g].pri
      BY <1>0, <2>0, <2>3 DEF HandlesRight, Shape
    <3>3. informed' = {ctx'[g].pri : g \in client_list'}
      <4>1. informed = {ctx[g].pri : g \in client_list}
        BY <1>0 DEF HandlesRight
      <4>2. {ctx'[g].pri : g \in client_list'}
              = {ctx'[g].pri : g \in client_list} \union {ctx'[h].pri}
        BY <2>0
      <4>3. {ctx'[g].pri : g \in client_list} = {ctx[g].pri : g \in client_list}
        BY <2>3
      <4> QED  BY <2>0, <2>3, <4>1, <4>2, <4>3
    <3> QED  BY <3>1, <3>2, <3>3 DEF HandlesRight
  <2> QED  BY <1>1, <2>1, <2>2, <2>4, <2>5, <2>6 DEF Inv
<1> QED  BY <1>2, <1>3, <1>4 DEF tcp_conn_handler

(* Whatever connects, disconnects, fails and starts anew, in whatever      *)
(* order descriptors and addresses come back: the event loop calls the     *)
(* receive handler with a live context of the readable descriptor, every   *)
(* handle leads to its own connection and every accepted one ends with one *)
(* callback, and sktcpserver_fini leaves nothing behind.                   *)
LEMMA ServerSafe == Spec => [](WatchersLive /\ HandlesRight /\ FiniCleans)
<1>1. Init => Inv
  BY ConnAssumption
  DEF Init, Inv, Shape, NumbersUnique, ContextsApart, WatchersLive, HandlesRight,
      FiniCleans, Blank
<1>2. Inv /\ [Next]_vars => Inv'
  <2> SUFFICES ASSUME Inv, [Next]_vars PROVE Inv'
    OBVIOUS
  <2>0. /\ Shape /\ NumbersUnique /\ ContextsApart /\ WatchersLive /\ HandlesRight
        /\ FiniCleans
    BY DEF Inv
  <2>1. CASE sktcpserver_init
    <3>1. client_list = {} /\ heap = {} /\ informed = {} /\ status' \in {"up", "failed"}
      BY <2>0, <2>1 DEF sktcpserver_init, FiniCleans, HandlesRight
    <3>2. UNCHANGED <<conn, watch, client_list, heap, ctx, informed, nextConn>>
      BY <2>1, <3>1 DEF sktcpserver_init
    <3>3. Shape' /\ NumbersUnique' /\ ContextsApart' /\ WatchersLive' /\ HandlesRight'
      BY <2>0, <3>2 DEF Shape, NumbersUnique, ContextsApart, WatchersLive, HandlesRight
    <3> QED  BY <3>1, <3>3 DEF Inv, FiniCleans
  <2>2. CASE tcp_conn_handler
    BY <2>2, ConnectKeeps
  <2>3. ASSUME NEW fd \in Fd, client_receive_data_handler(fd) PROVE Inv'
    <3>1. {watch[fd]} \in SUBSET client_list
      BY <2>0, <2>3 DEF client_receive_data_handler, WatchersLive, HandlesRight
    <3>2. Shape' /\ NumbersUnique' /\ ContextsApart' /\ WatchersLive' /\ HandlesRight'
      BY <2>3, <3>1, DisconnectKeeps DEF client_receive_data_handler
    <3> QED  BY <2>3, <3>2 DEF Inv, FiniCleans, client_receive_data_handler
  <2>4. ASSUME NEW h \in Handle, sktcpserver_send(h) PROVE Inv'
    <3>1. {h} \in SUBSET client_list
      BY <2>4 DEF sktcpserver_send
    <3>2. Shape' /\ NumbersUnique' /\ ContextsApart' /\ WatchersLive' /\ HandlesRight'
      BY <2>4, <3>1, DisconnectKeeps DEF sktcpserver_send
    <3> QED  BY <2>4, <3>2 DEF Inv, FiniCleans, sktcpserver_send
  <2>5. CASE sktcpserver_fini
    <3>1. Shape' /\ NumbersUnique' /\ ContextsApart' /\ WatchersLive' /\ HandlesRight'
      BY <2>5, DisconnectKeeps DEF sktcpserver_fini
    <3>2. client_list' = {} /\ ~rxbuffer'
      BY <2>5 DEF sktcpserver_fini, client_disconnect
    <3>3. heap' = {} /\ informed' = {}
      BY <3>1, <3>2 DEF HandlesRight
    <3>4. \A fd \in Fd : watch'[fd] = None
      BY <3>1, <3>3 DEF WatchersLive
    <3> QED  BY <3>1, <3>2, <3>3, <3>4 DEF Inv, FiniCleans
  <2>6. CASE UNCHANGED vars
    BY <2>0, <2>6
    DEF vars, loopVars, Inv, Shape, NumbersUnique, ContextsApart, WatchersLive,
        HandlesRight, FiniCleans
  <2> QED  BY <2>1, <2>2, <2>3, <2>4, <2>5, <2>6 DEF Next
<1>3. Inv => WatchersLive /\ HandlesRight /\ FiniCleans
  BY DEF Inv
<1> QED  BY <1>1, <1>2, <1>3, PTL DEF Spec

(* The event loop of the server never calls the receive handler with a     *)
(* context that has been freed or that belongs to another descriptor,      *)
(* whatever connects, disconnects and fails, in any order.                 *)
THEOREM ServerWatchers == Spec => []WatchersLive
BY ServerSafe, PTL

(* A handle leads to its own connection, also after its address and its    *)
(* descriptor were used again, and every connection that was accepted ends *)
(* with one callback.                                                      *)
THEOREM ServerHandles == Spec => []HandlesRight
BY ServerSafe, PTL

(* sktcpserver_fini leaves no client, no context, no watcher and no        *)
(* buffer.                                                                 *)
THEOREM ServerFini == Spec => []FiniCleans
BY ServerSafe, PTL
=============================================================================

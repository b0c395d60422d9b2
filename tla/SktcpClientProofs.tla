------------------------- MODULE SktcpClientProofs -------------------------
(***************************************************************************)
(* sktcpclient.c is connected only with an open socket of its own, and     *)
(* closes nobody else's descriptor, for every number of threads and        *)
(* descriptors.                                                            *)
(***************************************************************************)
EXTENDS SktcpClient, TLAPS

Connecting == [at : {"connecting"}, fd : Fd]

Shape ==
  /\ fd \in Fd
  /\ owner \in [Fd -> {"free", "client", "other"}]
  /\ user \in [User -> {Idle} \union Connecting]

(* Between the two parts of sktcpclient_connect the thread holds tcp->lock *)
(* and has a socket: nobody can close it before tcp->fd says so.           *)
ConnectingIsOpen ==
  \A u \in User : user[u].at = "connecting" =>
    lock = u /\ owner[user[u].fd] = "client"

Inv == Shape /\ ConnectingIsOpen /\ ConnectedIsOpen

(* Nobody is between the two parts while the lock is free.                 *)
LEMMA FreeLock ==
  ASSUME Inv, lock = None, NEW u \in User
  PROVE  user[u].at # "connecting"
BY FdAssumption DEF Inv, ConnectingIsOpen

(* sktcpclient_disconnect and the handler's disconnect, with the lock.     *)
LEMMA DisconnectSafe ==
  ASSUME Inv, lock = None, Disconnect, UNCHANGED <<fd, wfd, lock, user>>
  PROVE  /\ Inv'
         /\ \A f \in Fd : owner[f] = "other" => owner'[f] = "other"
<1>1. CASE state = "CONNECTED"
  <2>1. owner' = [owner EXCEPT ![fd] = "free"] /\ state' = "DISCONNECTED"
    BY <1>1 DEF Disconnect, CloseFd
  <2>2. owner[fd] = "client"
    BY <1>1 DEF Inv, ConnectedIsOpen
  <2>3. Shape'
    BY <2>1 DEF Inv, Shape
  <2>4. ConnectingIsOpen'
    BY FreeLock DEF ConnectingIsOpen
  <2>5. ConnectedIsOpen'
    BY <2>1 DEF ConnectedIsOpen
  <2>6. \A f \in Fd : owner[f] = "other" => owner'[f] = "other"
    BY <2>1, <2>2 DEF Inv, Shape
  <2> QED  BY <2>3, <2>4, <2>5, <2>6 DEF Inv
<1>2. CASE state # "CONNECTED"
  BY <1>2 DEF Disconnect, Inv, Shape, ConnectingIsOpen, ConnectedIsOpen
<1> QED  BY <1>1, <1>2

(* One step of the program: the invariant, and whose descriptors it closes.*)
LEMMA StepSafe ==
  ASSUME Inv, [Next]_vars
  PROVE  /\ Inv'
         /\ \A f \in Fd : owner[f] = "other" /\ owner'[f] # "other" => OtherCloses(f)
<1>0. Shape /\ ConnectingIsOpen /\ ConnectedIsOpen
  BY DEF Inv
<1> DEFINE Closes == \A f \in Fd : owner[f] = "other" /\ owner'[f] # "other" => OtherCloses(f)
<1>1. ASSUME NEW u \in User, sktcpclient_connect(u) PROVE Inv' /\ Closes
  <2>0. user[u] = Idle /\ lock = None /\ UNCHANGED <<state, fd, dead, loop>>
    BY <1>1 DEF sktcpclient_connect
  <2>1. CASE UNCHANGED <<wfd, watch, owner, user>>
    <3>1. Shape' /\ ConnectedIsOpen'
      BY <1>0, <2>0, <2>1 DEF Shape, ConnectedIsOpen
    <3>2. ConnectingIsOpen'
      BY <2>0, <2>1, FreeLock DEF ConnectingIsOpen
    <3> QED  BY <2>1, <3>1, <3>2 DEF Inv
  <2>2. ASSUME NEW new \in Free,
               owner' = [owner EXCEPT ![new] = "client"],
               \/ UNCHANGED user
               \/ lock' = u /\ Goto(u, [at |-> "connecting", fd |-> new])
        PROVE  Inv' /\ Closes
    <3>1. new \in Fd /\ owner[new] = "free"
      BY <2>2 DEF Free
    <3>2. Closes
      BY <1>0, <2>2, <3>1 DEF Shape
    <3>3. ConnectedIsOpen'
      BY <1>0, <2>0, <2>2, <3>1 DEF Shape, ConnectedIsOpen
    <3>4. CASE UNCHANGED user
      <4>1. Shape'
        BY <1>0, <2>0, <2>2, <3>1, <3>4 DEF Shape
      <4>2. ConnectingIsOpen'
        BY <2>0, <3>4, FreeLock DEF ConnectingIsOpen
      <4> QED  BY <3>2, <3>3, <4>1, <4>2 DEF Inv
    <3>5. CASE lock' = u /\ Goto(u, [at |-> "connecting", fd |-> new])
      <4>1. user' = [user EXCEPT ![u] = [at |-> "connecting", fd |-> new]]
        BY <3>5 DEF Goto
      <4>2. Shape'
        BY <1>0, <2>0, <2>2, <3>1, <4>1 DEF Shape, Connecting
      <4>3. ASSUME NEW v \in User, user'[v].at = "connecting"
            PROVE  lock' = v /\ owner'[user'[v].fd] = "client"
        <5>1. CASE v = u
          BY <1>0, <2>2, <3>1, <3>5, <4>1, <5>1 DEF Shape
        <5>2. CASE v # u
          BY <1>0, <2>0, <4>1, <4>3, <5>2, FreeLock DEF Shape
        <5> QED  BY <5>1, <5>2
      <4> QED  BY <3>2, <3>3, <4>2, <4>3 DEF Inv, ConnectingIsOpen
    <3> QED  BY <2>2, <3>4, <3>5
  <2> QED  BY <1>1, <2>1, <2>2 DEF sktcpclient_connect
<1>2. ASSUME NEW u \in User, sktcpclient_connect_end(u) PROVE Inv' /\ Closes
  <2>1. /\ user[u].at = "connecting" /\ fd' = user[u].fd /\ lock' = None
        /\ user' = [user EXCEPT ![u] = Idle] /\ owner' = owner
    BY <1>2 DEF sktcpclient_connect_end, Goto
  <2>2. lock = u /\ owner[user[u].fd] = "client"
    BY <1>0, <2>1 DEF ConnectingIsOpen
  <2>3. user[u] \in Connecting
    BY <1>0, <2>1 DEF Shape, Idle
  <2>4. Shape'
    BY <1>0, <2>1, <2>3 DEF Shape, Connecting
  <2>5. ConnectedIsOpen'
    BY <2>1, <2>2 DEF ConnectedIsOpen
  <2>6. \A v \in User : user'[v].at # "connecting"
    BY <1>0, <2>1, <2>2 DEF Shape, ConnectingIsOpen, Idle
  <2> QED  BY <2>1, <2>4, <2>5, <2>6 DEF Inv, ConnectingIsOpen
<1>3. ASSUME NEW u \in User, sktcpclient_disconnect(u) PROVE Inv' /\ Closes
  BY <1>3, DisconnectSafe DEF sktcpclient_disconnect
<1>4. CASE fd_read_event_handler_end
  BY <1>4, DisconnectSafe DEF fd_read_event_handler_end
<1>5. CASE UNCHANGED <<state, fd, owner, lock, user>>
  BY <1>0, <1>5 DEF Inv, Shape, ConnectingIsOpen, ConnectedIsOpen
<1>6. ASSUME NEW f \in Fd, OtherOpens(f) PROVE Inv' /\ Closes
  <2>1. f \in Free /\ owner' = [owner EXCEPT ![f] = "other"] /\ UNCHANGED <<state, fd, lock, user>>
    BY <1>6 DEF OtherOpens
  <2>2. owner[f] = "free"
    BY <2>1 DEF Free
  <2>3. Shape' /\ ConnectedIsOpen' /\ Closes
    BY <1>0, <2>1, <2>2 DEF Shape, ConnectedIsOpen
  <2>4. ConnectingIsOpen'
    BY <1>0, <2>1, <2>2 DEF Shape, ConnectingIsOpen
  <2> QED  BY <2>3, <2>4 DEF Inv
<1>7. ASSUME NEW f \in Fd, OtherCloses(f) PROVE Inv' /\ Closes
  <2>1. owner[f] = "other" /\ owner' = [owner EXCEPT ![f] = "free"]
        /\ UNCHANGED <<state, fd, lock, user>>
    BY <1>7 DEF OtherCloses
  <2>2. Shape' /\ ConnectedIsOpen'
    BY <1>0, <2>1 DEF Shape, ConnectedIsOpen
  <2>3. Closes
    BY <1>0, <1>7, <2>1 DEF Shape
  <2>4. ConnectingIsOpen'
    BY <1>0, <2>1 DEF Shape, ConnectingIsOpen
  <2> QED  BY <2>2, <2>3, <2>4 DEF Inv
<1>8. Next => \/ \E u \in User : \/ sktcpclient_connect(u)
                                 \/ sktcpclient_connect_end(u)
                                 \/ sktcpclient_disconnect(u)
              \/ fd_read_event_handler_end
              \/ UNCHANGED <<state, fd, owner, lock, user>>
              \/ \E f \in Fd : OtherOpens(f) \/ OtherCloses(f)
  BY DEF Next, LoopStep, sktcpclient_recv_stop, sktcpclient_recv_start, uev_run,
         fd_read_event_handler, fd_read_event_handler_unblocks, PeerCloses
<1> QED  BY <1>1, <1>2, <1>3, <1>4, <1>5, <1>6, <1>7, <1>8 DEF vars

LEMMA InitSafe == Init => Inv
BY FdAssumption DEF Init, Inv, Shape, ConnectingIsOpen, ConnectedIsOpen, Idle, Fd

(* As long as the state says CONNECTED there is an open socket, however    *)
(* connects, disconnects and the event loop's handler interleave and       *)
(* whichever descriptors the rest of the program opens and closes.         *)
THEOREM ClientConnected == Spec => []ConnectedIsOpen
<1>1. Inv /\ [Next]_vars => Inv'
  BY StepSafe
<1>2. Inv => ConnectedIsOpen
  BY DEF Inv
<1> QED  BY <1>1, <1>2, InitSafe, PTL DEF Spec

(* No step of the client closes a descriptor of the rest of the program,   *)
(* not even the second of two disconnects that are under way at once.      *)
THEOREM ClientClosesOwn == Spec => ClosesOwn
<1>1. Inv /\ [Next]_vars => Inv'
  BY StepSafe
<1>2. Inv /\ [Next]_vars =>
        [\A f \in Fd : owner[f] = "other" /\ owner'[f] # "other" => OtherCloses(f)]_vars
  BY StepSafe
<1> QED  BY <1>1, <1>2, InitSafe, PTL DEF Spec, ClosesOwn
=============================================================================

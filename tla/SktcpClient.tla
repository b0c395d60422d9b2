---------------------------- MODULE SktcpClient ----------------------------
(***************************************************************************)
(* The TCP client of sktcpclient.c.  Any thread may connect, disconnect,   *)
(* send, and pause or resume receiving; another thread runs the event loop *)
(* and in it fd_read_event_handler, which reads tcp->fd without the lock.  *)
(*                                                                         *)
(* Descriptors are numbers that the whole program shares: the rest of it   *)
(* opens and closes its own, and a closed number comes back with the next  *)
(* open.  0 is the standard input, and what memset leaves in tcp->fd.      *)
(***************************************************************************)
EXTENDS Integers, FiniteSets

CONSTANTS User,   \* threads that use the client
          MaxFd,  \* bound: highest descriptor
          None    \* nobody

ASSUME FdAssumption == MaxFd \in Nat \ {0} /\ None \notin User

VARIABLES
  state,  \* tcp->state
  fd,     \* tcp->fd
  wfd,    \* the descriptor in tcp->uev_watcher, -1 before the first connect
  watch,  \* descriptors registered with the event loop for that watcher
  owner,  \* of each descriptor: "free", "client" or "other"
  dead,   \* descriptors of connections that the peer has closed, and whose
          \* data has been read
  lock,   \* tcp->lock: who holds it, or None
  user,   \* what each thread is doing
  loop    \* where the event loop is: "idle", "read", "blocked" in a read, or
          \* "disconnect"

vars == <<state, fd, wfd, watch, owner, dead, lock, user, loop>>

Fd == 0..MaxFd
Idle == [at |-> "idle"]
Goto(u, place) == user' = [user EXCEPT ![u] = place]
Free == {f \in Fd : owner[f] = "free"}

Init ==
  /\ state = "DISCONNECTED"
  /\ fd = 0
  /\ wfd = -1
  /\ watch = {}
  /\ owner = [f \in Fd |-> IF f = 0 THEN "other" ELSE "free"]
  /\ dead = {}
  /\ lock = None
  /\ user = [u \in User |-> Idle]
  /\ loop = "idle"

(* err_exit.                                                               *)
connect_error(u) == lock' = None

(* sktcpclient_connect up to uev_io_init.  If connect or fcntl fails, or   *)
(* uev_io_init, the socket stays open.  The watcher is registered before   *)
(* tcp->fd is set.                                                         *)
sktcpclient_connect(u) ==
  /\ user[u] = Idle /\ lock = None
  /\ \/ /\ connect_error(u)                        \* socket fails
        /\ UNCHANGED <<wfd, watch, owner, user>>
     \/ \E new \in Free :
          /\ owner' = [owner EXCEPT ![new] = "client"]
          /\ \/ /\ connect_error(u)
                /\ wfd' \in {wfd, new}             \* connect fails; uev_io_init
                /\ UNCHANGED <<watch, user>>
             \/ /\ lock' = u
                /\ wfd' = new
                /\ watch' = watch \union {new}
                /\ Goto(u, [at |-> "connecting", fd |-> new])
  /\ UNCHANGED <<state, fd, dead, loop>>

(* The rest of it.                                                         *)
sktcpclient_connect_end(u) ==
  /\ user[u].at = "connecting"
  /\ fd' = user[u].fd
  /\ state' = "CONNECTED"
  /\ lock' = None
  /\ Goto(u, Idle)
  /\ UNCHANGED <<wfd, watch, owner, dead, loop>>

(* uev_io_stop, and close of tcp->fd, which also ends its registration.    *)
CloseFd ==
  /\ watch' = watch \ {wfd, fd}
  /\ owner' = [owner EXCEPT ![fd] = "free"]
  /\ dead' = dead \ {fd}

(* Slips: the state is not asked about; the state is not changed.          *)
Disconnect_anyway ==
  /\ CloseFd
  /\ state' = "DISCONNECTED"
Disconnect_unnoted ==
  /\ state = "CONNECTED"
  /\ CloseFd
  /\ UNCHANGED state

(* The body of sktcpclient_disconnect, under the lock.                     *)
Disconnect ==
  \/ /\ state = "CONNECTED"
     /\ CloseFd
     /\ state' = "DISCONNECTED"
  \/ /\ state # "CONNECTED"
     /\ UNCHANGED <<watch, owner, dead, state>>

(* Called by a user, or by sktcpclient_fini.                               *)
sktcpclient_disconnect(u) ==
  /\ user[u] = Idle /\ lock = None
  /\ Disconnect
  /\ UNCHANGED <<fd, wfd, lock, user, loop>>

sktcpclient_recv_stop(u) ==
  /\ user[u] = Idle
  /\ watch' = watch \ {wfd}
  /\ UNCHANGED <<state, fd, wfd, owner, dead, lock, user, loop>>

(* uev_io_start registers whatever descriptor the number now stands for.   *)
sktcpclient_recv_start(u) ==
  /\ user[u] = Idle /\ wfd \in Fd \ Free
  /\ watch' = watch \union {wfd}
  /\ UNCHANGED <<state, fd, wfd, owner, dead, lock, user, loop>>

(* The event loop calls the handler.                                       *)
uev_run(f) ==
  /\ loop = "idle" /\ f \in watch
  /\ loop' = "read"
  /\ UNCHANGED <<state, fd, wfd, watch, owner, dead, lock, user>>

(* Slip: the end of the connection is taken for an empty read.             *)
AfterRead_ignored == {"idle"}

(* What read(tcp->fd) makes the handler do.  A dead connection ends; a     *)
(* live one may deliver data, nothing (EAGAIN) or an error; a closed one   *)
(* is an error.  Before tcp->fd has been set, or when its connection is    *)
(* closed, it may be a descriptor of somebody else, the standard input to  *)
(* begin with: that one need not be O_NONBLOCK, and the read may block.    *)
AfterRead ==
  IF fd \in dead \/ fd \in Free THEN {"disconnect"}
  ELSE {"idle", "disconnect"} \union (IF owner[fd] = "other" THEN {"blocked"} ELSE {})

fd_read_event_handler ==
  /\ loop = "read"
  /\ loop' \in AfterRead
  /\ UNCHANGED <<state, fd, wfd, watch, owner, dead, lock, user>>

(* Data, an end or an error of that descriptor, which may never come.      *)
fd_read_event_handler_unblocks ==
  /\ loop = "blocked"
  /\ loop' \in {"idle", "disconnect"}
  /\ UNCHANGED <<state, fd, wfd, watch, owner, dead, lock, user>>

fd_read_event_handler_end ==
  /\ loop = "disconnect" /\ lock = None
  /\ Disconnect
  /\ loop' = "idle"
  /\ UNCHANGED <<fd, wfd, lock, user>>

(* The peer closes a connection.                                           *)
PeerCloses(f) ==
  /\ owner[f] = "client" /\ f \notin dead
  /\ dead' = dead \union {f}
  /\ UNCHANGED <<state, fd, wfd, watch, owner, lock, user, loop>>

(* The rest of the program opens and closes descriptors.                   *)
OtherOpens(f) ==
  /\ f \in Free
  /\ owner' = [owner EXCEPT ![f] = "other"]
  /\ UNCHANGED <<state, fd, wfd, watch, dead, lock, user, loop>>

OtherCloses(f) ==
  /\ owner[f] = "other" /\ f # 0
  /\ owner' = [owner EXCEPT ![f] = "free"]
  /\ watch' = watch \ {f}
  /\ UNCHANGED <<state, fd, wfd, dead, lock, user, loop>>

LoopStep ==
  \/ \E f \in Fd : uev_run(f)
  \/ fd_read_event_handler
  \/ fd_read_event_handler_end

Next ==
  \/ \E u \in User :
       \/ sktcpclient_connect(u)
       \/ sktcpclient_connect_end(u)
       \/ sktcpclient_disconnect(u)
       \/ sktcpclient_recv_stop(u)
       \/ sktcpclient_recv_start(u)
  \/ LoopStep
  \/ fd_read_event_handler_unblocks
  \/ \E f \in Fd : PeerCloses(f) \/ OtherOpens(f) \/ OtherCloses(f)

(* A thread that can run does run; nobody is obliged to make a call, or to *)
(* end a read of a descriptor that is not the client's.                    *)
Fairness ==
  /\ \A u \in User : WF_vars(sktcpclient_connect_end(u))
  /\ WF_vars(LoopStep)

Spec == Init /\ [][Next]_vars /\ Fairness
-----------------------------------------------------------------------------
(* The client never closes a descriptor of the rest of the program: a      *)
(* disconnect by a user and one by the handler may both be under way, and  *)
(* the number may be in use again when the second gets the lock.           *)
ClosesOwn ==
  [][\A f \in Fd : owner[f] = "other" /\ owner'[f] # "other" => OtherCloses(f)]_vars

(* As long as the state says so there is an open socket to send on.        *)
ConnectedIsOpen == state = "CONNECTED" => owner[fd] = "client"

(* A connection that the peer has closed does not stay connected, as long  *)
(* as receiving is not paused: the handler disconnects it, unless the      *)
(* event loop blocks for ever in a read that it began before tcp->fd was   *)
(* this connection.                                                        *)
EndIsNoticed ==
  \/ []<>(~(state = "CONNECTED" /\ fd \in dead /\ fd \in watch))
  \/ <>[](loop = "blocked")
=============================================================================

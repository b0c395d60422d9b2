------------------------------ MODULE Mailbox ------------------------------
(***************************************************************************)
(* What activity.h promises of activity objects, without threads, locks    *)
(* or an event loop: messages are accepted only while an object is on, are *)
(* handled one at a time in the order of acceptance, and switching off     *)
(* first closes the mailbox and is complete only when it is empty.         *)
(* Activity.tla is checked to implement this specification.                *)
(***************************************************************************)
EXTENDS Integers, Sequences

CONSTANTS Act,     \* the activity objects
          Msg      \* identities of messages

VARIABLES status,  \* of each object: "off", "on" or "closing"
          box      \* messages accepted and not yet handled, oldest first

vars == <<status, box>>

Init ==
  /\ status = [a \in Act |-> "off"]
  /\ box = [a \in Act |-> <<>>]

Start(a) ==
  /\ status[a] = "off"
  /\ status' = [status EXCEPT ![a] = "on"]
  /\ UNCHANGED box

Accept(a, m) ==
  /\ status[a] = "on"
  /\ box' = [box EXCEPT ![a] = Append(@, m)]
  /\ UNCHANGED status

(* A closing mailbox is still emptied.                                     *)
Handle(a) ==
  /\ status[a] # "off"
  /\ box[a] # <<>>
  /\ box' = [box EXCEPT ![a] = Tail(@)]
  /\ UNCHANGED status

Close(a) ==
  /\ status[a] = "on"
  /\ status' = [status EXCEPT ![a] = "closing"]
  /\ UNCHANGED box

Finish(a) ==
  /\ status[a] = "closing"
  /\ box[a] = <<>>
  /\ status' = [status EXCEPT ![a] = "off"]
  /\ UNCHANGED box

Next == \E a \in Act :
  Start(a) \/ (\E m \in Msg : Accept(a, m)) \/ Handle(a) \/ Close(a) \/ Finish(a)

Spec == Init /\ [][Next]_vars
=============================================================================

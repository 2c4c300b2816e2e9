------------------------------ MODULE Register ------------------------------
(***************************************************************************)
(* What a save promises: the file always holds the contents of one whole   *)
(* save, and changes from one to the next in a single step, whoever else   *)
(* saves, and wherever a process dies or the power fails.  It does not     *)
(* promise that a save is there after a loss of power: what is, is the     *)
(* whole contents of the last save that has reached the disk.              *)
(***************************************************************************)

CONSTANTS Writers, Contents, NoContents

VARIABLES
  content,   \* what a reader of the file gets
  durable,   \* what a loss of power leaves of it
  request    \* request[w]: what w is about to save, or NoContents

vars == <<content, durable, request>>

Idle == [w \in Writers |-> NoContents]

Init ==
  /\ content \in Contents
  /\ durable = content
  /\ request = Idle

Save(w, c) ==
  /\ request[w] = NoContents
  /\ request' = [request EXCEPT ![w] = c]
  /\ UNCHANGED <<content, durable>>

Publish(w) ==
  /\ request[w] # NoContents
  /\ content' = request[w]
  /\ request' = [request EXCEPT ![w] = NoContents]
  /\ UNCHANGED durable

(* An error, or the death of the writer's process: the old contents stay.  *)
Forget(W) ==
  /\ request' = [w \in Writers |-> IF w \in W THEN NoContents ELSE request[w]]
  /\ UNCHANGED <<content, durable>>

(* The last save reaches the disk, some time after it has returned.        *)
Settle ==
  /\ durable' = content
  /\ UNCHANGED <<content, request>>

PowerFails ==
  /\ content' = durable
  /\ request' = Idle
  /\ UNCHANGED durable

Next ==
  \/ \E w \in Writers, c \in Contents : Save(w, c)
  \/ \E w \in Writers : Publish(w)
  \/ \E W \in SUBSET Writers : Forget(W)
  \/ Settle
  \/ PowerFails

Spec == Init /\ [][Next]_vars
=============================================================================

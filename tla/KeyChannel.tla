------------------------------ MODULE KeyChannel ------------------------------
(***************************************************************************)
(* What the path of a key press from the gamepad to the game promises,     *)
(* whatever machines it goes through: a queue that may lose bytes anywhere *)
(* but neither reorders, duplicates nor alters them.  A byte is a record   *)
(* of its code and its rank among the bytes sent.                          *)
(***************************************************************************)
EXTENDS Integers, Sequences, SequencesExt

CONSTANTS Codes,   \* the codes a byte can carry
          MaxSent  \* bound: bytes sent in a behaviour

VARIABLES sent,    \* bytes sent so far
          queue,   \* bytes on their way, oldest first
          got      \* the last byte the game took

kvars == <<sent, queue, got>>

Init == sent = 0 /\ queue = <<>> /\ got = [code |-> 0, id |-> 0]

Send ==
  /\ sent < MaxSent
  /\ sent' = sent + 1
  /\ \E c \in Codes : queue' = Append(queue, [code |-> c, id |-> sent + 1])
  /\ UNCHANGED got

Lose ==
  /\ \E i \in DOMAIN queue : queue' = RemoveAt(queue, i)
  /\ UNCHANGED <<sent, got>>

Deliver ==
  /\ queue # <<>>
  /\ got' = Head(queue)
  /\ queue' = Tail(queue)
  /\ UNCHANGED sent

Next == Send \/ Lose \/ Deliver

Spec == Init /\ [][Next]_kvars
==============================================================================

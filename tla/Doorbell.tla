------------------------------ MODULE Doorbell ------------------------------
(***************************************************************************)
(* What a doorbell mailbox promises its receivers, whatever carries it:    *)
(* every receive answers a ring, no ring is lost, and rings of the same    *)
(* channel that nobody has received yet may merge into one.                *)
(***************************************************************************)
EXTENDS Naturals

CONSTANT Channels

VARIABLES
  rung,     \* rung[c]: how often the remote side rang channel c
  heard,    \* heard[c]: how many receives of channel c returned
  due       \* due[c]: how many receives are still owed to channel c

dvars == <<rung, heard, due>>

Init ==
  /\ rung = [c \in Channels |-> 0]
  /\ heard = [c \in Channels |-> 0]
  /\ due = [c \in Channels |-> 0]

\* A ring adds a receive, or merges with one that is already owed.
Ring(c) ==
  /\ rung' = [rung EXCEPT ![c] = @ + 1]
  /\ \/ due' = [due EXCEPT ![c] = @ + 1]
     \/ due[c] > 0 /\ UNCHANGED due
  /\ UNCHANGED heard

\* Two owed receives of a channel become one, never none.
Merge(c) ==
  /\ due[c] > 1
  /\ due' = [due EXCEPT ![c] = @ - 1]
  /\ UNCHANGED <<rung, heard>>

Receive(c) ==
  /\ due[c] > 0
  /\ due' = [due EXCEPT ![c] = @ - 1]
  /\ heard' = [heard EXCEPT ![c] = @ + 1]
  /\ UNCHANGED rung

Next == \E c \in Channels : Ring(c) \/ Merge(c) \/ Receive(c)

Spec == Init /\ [][Next]_dvars
=============================================================================

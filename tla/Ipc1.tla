-------------------------------- MODULE Ipc1 --------------------------------
(***************************************************************************)
(* One direction of one sub-channel of IPC1: `send`, `send_async` and      *)
(* `try_recv` (src/embassy-aspeed/src/ipc1.rs).                            *)
(*                                                                         *)
(* Sender and receiver are two processors.  The payload of a message       *)
(* identifier lies in memory that both see word by word.  The driver is    *)
(* the sender of its TX half and the receiver of its RX half; the peer is  *)
(* taken to keep to the same protocol.                                     *)
(***************************************************************************)
EXTENDS Naturals, FiniteSetsExt

CONSTANTS
  Ids,      \* the message identifiers, natural numbers
  NumWords, \* the words of a payload
  MaxSends, \* bound: the messages that are sent
  NoId      \* no identifier

\* What the modules that use this one assume of the constants.
Ipc1Assumption ==
  /\ Ids \subseteq Nat /\ NoId \notin Ids
  /\ NumWords \in Nat \ {0} /\ MaxSends \in Nat

VARIABLES
  pending, \* STATUS: identifiers triggered and not acknowledged
  slot,    \* slot[i]: the payload area of i, each word as the number of its message
  sending, \* the sender: where it stands, for which identifier and message
  taking,  \* the receiver: where it stands, for which identifier
  buffer,  \* the words the receiver has read
  lastSent, lastTaken, \* history: the last message triggered and received, for each identifier
  forced   \* history: identifiers whose slot was written after a timeout

ipc1Vars == <<pending, slot, sending, taking, buffer, lastSent, lastTaken, forced>>

Msgs == 0 .. MaxSends
Payload == [1 .. NumWords -> Msgs]

TypeOK ==
  /\ pending \subseteq Ids
  /\ slot \in [Ids -> Payload]
  /\ sending \in [at : {"idle", "wait", "write"}, id : Ids \cup {NoId}, no : Msgs, word : 0 .. NumWords]
  /\ taking \in [at : {"idle", "read", "ack"}, id : Ids \cup {NoId}, word : 0 .. NumWords]
  /\ buffer \in Payload
  /\ lastSent \in [Ids -> Msgs] /\ lastTaken \in [Ids -> Msgs]
  /\ forced \subseteq Ids

\* Ipc1::new has cleared STATUS.
Init ==
  /\ pending = {} /\ slot = [i \in Ids |-> [w \in 1 .. NumWords |-> 0]]
  /\ sending = [at |-> "idle", id |-> NoId, no |-> 0, word |-> 0]
  /\ taking = [at |-> "idle", id |-> NoId, word |-> 0]
  /\ buffer = [w \in 1 .. NumWords |-> 0]
  /\ lastSent = [i \in Ids |-> 0] /\ lastTaken = [i \in Ids |-> 0] /\ forced = {}

-----------------------------------------------------------------------------

Send(i) ==
  /\ sending.at = "idle" /\ sending.no < MaxSends
  /\ sending' = [at |-> "wait", id |-> i, no |-> sending.no + 1, word |-> 0]
  /\ UNCHANGED <<pending, slot, taking, buffer, lastSent, lastTaken, forced>>

\* Mutant: the wait for the acknowledgement is left out.
SeenAnyway ==
  /\ sending.at = "wait"
  /\ sending' = [sending EXCEPT !.at = "write"]
  /\ UNCHANGED <<pending, slot, taking, buffer, lastSent, lastTaken, forced>>

\* The message before it has been acknowledged.
Seen ==
  /\ sending.at = "wait" /\ sending.id \notin pending
  /\ sending' = [sending EXCEPT !.at = "write"]
  /\ UNCHANGED <<pending, slot, taking, buffer, lastSent, lastTaken, forced>>

\* send_async: after five seconds the message before it is overwritten.
GiveUp ==
  /\ sending.at = "wait" /\ sending.id \in pending
  /\ sending' = [sending EXCEPT !.at = "write"]
  /\ forced' = forced \cup {sending.id}
  /\ UNCHANGED <<pending, slot, taking, buffer, lastSent, lastTaken>>

\* A send_async is dropped while it waits.
Drop ==
  /\ sending.at = "wait"
  /\ sending' = [sending EXCEPT !.at = "idle"]
  /\ UNCHANGED <<pending, slot, taking, buffer, lastSent, lastTaken, forced>>

WriteWord ==
  /\ sending.at = "write" /\ sending.word < NumWords
  /\ sending' = [sending EXCEPT !.word = @ + 1]
  /\ slot' = [slot EXCEPT ![sending.id][sending.word + 1] = sending.no]
  /\ UNCHANGED <<pending, taking, buffer, lastSent, lastTaken, forced>>

\* Mutant: the trigger is written before the last word.
TriggerEarly ==
  /\ sending.at = "write" /\ sending.word = NumWords - 1
  /\ pending' = pending \cup {sending.id}
  /\ lastSent' = [lastSent EXCEPT ![sending.id] = sending.no]
  /\ sending' = [sending EXCEPT !.at = "idle"]
  /\ UNCHANGED <<slot, taking, buffer, lastTaken, forced>>

Trigger ==
  /\ sending.at = "write" /\ sending.word = NumWords
  /\ pending' = pending \cup {sending.id}
  /\ lastSent' = [lastSent EXCEPT ![sending.id] = sending.no]
  /\ sending' = [sending EXCEPT !.at = "idle"]
  /\ UNCHANGED <<slot, taking, buffer, lastTaken, forced>>

\* try_recv takes the lowest identifier that is pending.
TryRecv ==
  /\ taking.at = "idle" /\ pending # {}
  /\ taking' = [at |-> "read", id |-> Min(pending), word |-> 0]
  /\ UNCHANGED <<pending, slot, sending, buffer, lastSent, lastTaken, forced>>

ReadWord ==
  /\ taking.at = "read" /\ taking.word < NumWords
  /\ taking' = [taking EXCEPT !.word = @ + 1]
  /\ buffer' = [buffer EXCEPT ![taking.word + 1] = slot[taking.id][taking.word + 1]]
  /\ UNCHANGED <<pending, slot, sending, lastSent, lastTaken, forced>>

\* Mutant: every identifier that was pending is acknowledged.
AckAll ==
  /\ taking.at = "read" /\ taking.word = NumWords
  /\ pending' = {}
  /\ lastTaken' = [lastTaken EXCEPT ![taking.id] = buffer[1]]
  /\ taking' = [taking EXCEPT !.at = "idle"]
  /\ UNCHANGED <<slot, sending, buffer, lastSent, forced>>

Ack ==
  /\ taking.at = "read" /\ taking.word = NumWords
  /\ pending' = pending \ {taking.id}
  /\ lastTaken' = [lastTaken EXCEPT ![taking.id] = buffer[1]]
  /\ taking' = [taking EXCEPT !.at = "idle"]
  /\ UNCHANGED <<slot, sending, buffer, lastSent, forced>>

Next ==
  \/ \E i \in Ids : Send(i)
  \/ Seen \/ GiveUp \/ Drop \/ WriteWord \/ Trigger \/ TryRecv \/ ReadWord \/ Ack

Spec == Init /\ [][Next]_ipc1Vars

-----------------------------------------------------------------------------
(* Properties.                                                             *)

\* Unless a send gave up waiting, the receiver reads one message whole, the
\* last that was sent, and what is acknowledged has been received: the sender
\* loses none by writing over it.
Delivered ==
  \A i \in Ids \ forced :
     /\ taking.at = "read" /\ taking.id = i =>
          \A w \in 1 .. taking.word : buffer[w] = lastSent[i]
     /\ i \notin pending => lastTaken[i] = lastSent[i]
=============================================================================

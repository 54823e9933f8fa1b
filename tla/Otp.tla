--------------------------------- MODULE Otp --------------------------------
(***************************************************************************)
(* The OTP controller: reading and programming of words by copyable        *)
(* handles, synchronously and not (src/embassy-aspeed/src/otp.rs).         *)
(*                                                                         *)
(* A command takes the address, the data and the ECC mode that the         *)
(* registers hold when it is written.  The asynchronous operations await   *)
(* its end; another handle may write the registers meanwhile.              *)
(***************************************************************************)
EXTENDS Naturals

CONSTANTS
  Handles,   \* copies of Otp, each used by a task of its own
  EccOf,     \* EccOf[t]: the ecc_enabled of the handle of t
  Words,     \* the addresses
  MaxBatch,  \* bound: words of one read_words
  NoCmd      \* no handle, no command

\* What the modules that use this one assume of the constants.
OtpAssumption ==
  /\ EccOf \in [Handles -> BOOLEAN]
  /\ Words \subseteq Nat /\ MaxBatch \in Nat \ {0}
  /\ NoCmd \notin Handles \cup Words

VARIABLES
  busy,   \* the command under way: whose, what, where, in which ECC mode
  failed, \* CMD_STS of the last command
  rdata,  \* RDATA: the read command whose word it holds
  ocall,  \* ocall[t]: the operation of t: what, where, and how many words are left
  opc,    \* opc[t]: where the operation of t stands
  word,   \* word[t]: the command whose word the read of t returns
  sole    \* history: sole[t] is whether the controller was idle when the command
          \* of t was written and no other command was written since

otpVars == <<busy, failed, rdata, ocall, opc, word, sole>>

Kinds == {"read", "program", "none"}
Commands == [of : Handles \cup {NoCmd}, kind : Kinds, addr : Words \cup {NoCmd}, ecc : BOOLEAN]
Idle == [of |-> NoCmd, kind |-> "none", addr |-> NoCmd, ecc |-> FALSE]
NoCall == [kind |-> "none", addr |-> NoCmd, left |-> 0]

TypeOK ==
  /\ busy \in Commands /\ rdata \in Commands /\ failed \in BOOLEAN
  /\ ocall \in [Handles -> [kind : Kinds, addr : Words \cup {NoCmd}, left : 0..MaxBatch]]
  /\ opc \in [Handles -> {"idle", "issue", "wait", "done", "error"}]
  /\ word \in [Handles -> Commands] /\ sole \in [Handles -> BOOLEAN]

\* Otp::new has written the key and read the strap that holds the ECC mode.
Init ==
  /\ busy = Idle /\ failed = FALSE /\ rdata = Idle
  /\ ocall = [t \in Handles |-> NoCall]
  /\ opc = [t \in Handles |-> "idle"]
  /\ word = [t \in Handles |-> Idle] /\ sole = [t \in Handles |-> FALSE]

-----------------------------------------------------------------------------

\* The command under way ends.
Complete(bad) ==
  /\ busy # Idle
  /\ failed' = bad /\ busy' = Idle
  /\ rdata' = IF busy.kind = "read" /\ ~bad THEN busy ELSE rdata
  /\ UNCHANGED <<ocall, opc, word, sole>>

Goto(t, l) == opc' = [opc EXCEPT ![t] = l]

Begin(t, kind, a, n) ==
  /\ opc[t] = "idle"
  /\ ocall' = [ocall EXCEPT ![t] = [kind |-> kind, addr |-> a, left |-> n]]
  /\ Goto(t, "issue")
  /\ UNCHANGED <<busy, failed, rdata, word, sole>>

\* A program_words of an odd number of words, or of more than eight.
BadLength(t) ==
  /\ opc[t] = "idle"
  /\ Goto(t, "error")
  /\ UNCHANGED <<busy, failed, rdata, ocall, word, sole>>

Command(t) == [of |-> t, kind |-> ocall[t].kind, addr |-> ocall[t].addr, ecc |-> EccOf[t]]

\* Mutant: the ECC mode is left as the handle before has set it.
IssueNoEcc(t) ==
  /\ opc[t] = "issue"
  /\ \/ \E e \in {EccOf[u] : u \in Handles} : busy' = [Command(t) EXCEPT !.ecc = e]
     \/ busy # Idle /\ UNCHANGED busy
  /\ sole' = [u \in Handles |-> u = t /\ busy = Idle]
  /\ Goto(t, "wait")
  /\ UNCHANGED <<failed, rdata, ocall, word>>

\* ECC mode, address, data and command are written without an await.  A
\* controller that is busy takes the command or ignores it.
Issue(t) ==
  /\ opc[t] = "issue"
  /\ \/ busy' = Command(t)
     \/ busy # Idle /\ UNCHANGED busy
  /\ sole' = [u \in Handles |-> u = t /\ busy = Idle]
  /\ Goto(t, "wait")
  /\ UNCHANGED <<failed, rdata, ocall, word>>

\* Mutant: the word is read although the command has not ended.
FinishEarly(t) ==
  /\ opc[t] = "wait"
  /\ Goto(t, IF failed THEN "error" ELSE "done")
  /\ word' = IF ocall[t].kind = "read" /\ ~failed THEN [word EXCEPT ![t] = rdata] ELSE word
  /\ UNCHANGED <<busy, failed, rdata, ocall, sole>>

\* wait_complete saw the controller idle; a read takes the word.
Finish(t) ==
  /\ opc[t] = "wait" /\ busy = Idle
  /\ Goto(t, IF failed THEN "error" ELSE "done")
  /\ word' = IF ocall[t].kind = "read" /\ ~failed THEN [word EXCEPT ![t] = rdata] ELSE word
  /\ UNCHANGED <<busy, failed, rdata, ocall, sole>>

\* The wait gives up; the command goes on.
Timeout(t) ==
  /\ opc[t] = "wait" /\ busy # Idle
  /\ Goto(t, "error")
  /\ UNCHANGED <<busy, failed, rdata, ocall, word, sole>>

\* A read_words whose last word is not yet read, and the address of its next word.
More(t) == opc[t] = "done" /\ ocall[t].left > 1 /\ ocall[t].addr + 1 \in Words

\* The next word of read_words, or the return; an error ends the operation.
Return(t) ==
  /\ opc[t] \in {"done", "error"}
  /\ IF More(t)
     THEN Goto(t, "issue") /\ ocall' = [ocall EXCEPT ![t].addr = @ + 1, ![t].left = @ - 1]
     ELSE Goto(t, "idle") /\ ocall' = [ocall EXCEPT ![t] = NoCall]
  /\ word' = [word EXCEPT ![t] = Idle] /\ sole' = [sole EXCEPT ![t] = FALSE]
  /\ UNCHANGED <<busy, failed, rdata>>

\* An asynchronous operation is dropped while it waits.
Cancel(t) ==
  /\ opc[t] = "wait"
  /\ Goto(t, "idle") /\ ocall' = [ocall EXCEPT ![t] = NoCall]
  /\ sole' = [sole EXCEPT ![t] = FALSE]
  /\ UNCHANGED <<busy, failed, rdata, word>>

Next ==
  \/ \E bad \in BOOLEAN : Complete(bad)
  \/ \E t \in Handles :
       \/ \E a \in Words : Begin(t, "program", a, 1) \/ \E n \in 1..MaxBatch : Begin(t, "read", a, n)
       \/ BadLength(t) \/ Issue(t) \/ Finish(t) \/ Timeout(t) \/ Return(t) \/ Cancel(t)

Spec == Init /\ [][Next]_otpVars

-----------------------------------------------------------------------------
(* Properties.                                                             *)

\* A read whose command met no other is given the word of its own address,
\* read in the ECC mode of its handle, whatever timed out or was dropped before.
OwnWord ==
  \A t \in Handles : opc[t] = "done" /\ ocall[t].kind = "read" /\ sole[t] =>
     word[t].addr = ocall[t].addr /\ word[t].ecc = EccOf[t]
=============================================================================

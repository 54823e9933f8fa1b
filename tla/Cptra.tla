-------------------------------- MODULE Cptra -------------------------------
(***************************************************************************)
(* Mailbox transactions with Caliptra: `mbox_lock`, `mbox_unlock`, the     *)
(* four `transaction*` functions and `drain_output*`                       *)
(* (src/embassy-aspeed/src/cptra.rs).                                      *)
(*                                                                         *)
(* One core runs the tasks; an asynchronous transaction gives it up while  *)
(* it waits for the answer.  Caliptra runs beside it: it answers a command *)
(* whenever it likes, or never, and takes the lock for itself when it is   *)
(* free.  The payload is left out; of a response only its size matters.    *)
(***************************************************************************)
EXTENDS Naturals

CONSTANTS
  Async,  \* tasks that use transaction_parts_async or transaction_bytes_parts_async
  Sync,   \* tasks that use transaction_parts or transaction_bytes_parts
  Bytes,  \* the tasks among them that use the bytes variant
  None,   \* no transaction
  Gone    \* a transaction that has returned or was dropped

Tasks == Async \cup Sync

ASSUME CptraAssumption ==
  /\ Async \cap Sync = {}
  /\ Bytes \subseteq Tasks
  /\ None \notin Tasks /\ Gone \notin Tasks /\ None # Gone

VARIABLES
  holder,  \* the lock: "free", "soc" (STS.SOC_LOCK is set) or "uc" (Caliptra)
  fsm,     \* STS.MBOX_FSM_PS
  status,  \* STS.STATUS
  big,     \* the response is longer than the caller's buffer
  pc,      \* pc[t]: where the transaction of t stands
  sts,     \* sts[t]: the status that poll_until returned to t, or None
  late,    \* late[t]: the time t is prepared to wait has passed
  cur,     \* the task being polled
  doing,   \* Caliptra works on a command
  tag,     \* history: whose are the command last written to the mailbox
           \* ("written"), the one Caliptra works on ("doing") and the one that
           \* the status answers ("answered")
  alone    \* history: tasks whose transaction no other transaction overlaps

mboxVars == <<holder, fsm, status, big, doing>>
taskVars == <<pc, sts, late, cur, tag>>
vars == <<mboxVars, taskVars, alone>>

Answers == {"DataReady", "CmdComplete", "CmdFailure"}
Steps   == {"idle", "lock", "fsm", "giveup", "exec", "wait", "timeout", "drain", "unlock"}

TypeOK ==
  /\ holder \in {"free", "soc", "uc"}
  /\ fsm \in {"Idle", "RdyForCmd", "ExecUc", "ExecSoc"}
  /\ status \in Answers \cup {"CmdBusy"}
  /\ big \in BOOLEAN
  /\ pc \in [Tasks -> Steps]
  /\ sts \in [Tasks -> Answers \cup {None}]
  /\ late \in [Tasks -> BOOLEAN]
  /\ cur \in Tasks \cup {None}
  /\ doing \in BOOLEAN
  /\ tag \in [{"written", "doing", "answered"} -> Tasks \cup {None, Gone}]
  /\ alone \subseteq Tasks

Init ==
  /\ holder = "free" /\ fsm = "Idle" /\ status = "CmdBusy" /\ big = FALSE
  /\ pc = [t \in Tasks |-> "idle"]
  /\ sts = [t \in Tasks |-> None]
  /\ late = [t \in Tasks |-> FALSE]
  /\ cur = None /\ alone = {}
  /\ doing = FALSE /\ tag = [x \in {"written", "doing", "answered"} |-> None]

-----------------------------------------------------------------------------
(* Caliptra.                                                               *)

\* Caliptra fetches a command.
UcFetch ==
  /\ fsm = "ExecUc" /\ ~doing /\ doing' = TRUE
  /\ tag' = [tag EXCEPT !["doing"] = tag["written"]]
  /\ UNCHANGED <<holder, fsm, status, big, pc, sts, late, cur, alone>>

\* Caliptra answers the command it fetched in the mailbox, whosever command the
\* mailbox now holds; without a command the mailbox takes no answer.
Answer ==
  /\ doing /\ doing' = FALSE
  /\ IF fsm = "ExecUc"
     THEN /\ fsm' = "ExecSoc"
          /\ status' \in Answers
          /\ big' \in IF status' = "DataReady" THEN BOOLEAN ELSE {FALSE}
          /\ tag' = [tag EXCEPT !["answered"] = tag["doing"]]
     ELSE UNCHANGED <<fsm, status, big, tag>>
  /\ UNCHANGED <<holder, pc, sts, late, cur, alone>>

UcLock ==
  /\ holder = "free" /\ holder' = "uc"
  /\ UNCHANGED <<fsm, status, big, doing, taskVars, alone>>

UcRelease ==
  /\ holder = "uc" /\ holder' = "free"
  /\ UNCHANGED <<fsm, status, big, doing, taskVars, alone>>

-----------------------------------------------------------------------------
(* mbox_lock and mbox_unlock.                                              *)

At(t, l) == cur = t /\ pc[t] = l
Goto(t, l) == pc' = [pc EXCEPT ![t] = l]

\* The transaction returns its result, forgets its locals and gives up the core;
\* whatever it left in the mailbox is nobody's from then on.
Return(t) ==
  /\ tag' = [x \in DOMAIN tag |-> IF tag[x] = t THEN Gone ELSE tag[x]]
  /\ Goto(t, "idle")
  /\ sts' = [sts EXCEPT ![t] = None]
  /\ late' = [late EXCEPT ![t] = FALSE]
  /\ cur' = None

\* mbox_lock: a lock the SoC holds already counts as taken.
Lock(t) ==
  /\ At(t, "lock")
  /\ \/ /\ holder = "soc"
        /\ Goto(t, "fsm")
        /\ UNCHANGED <<holder, fsm, sts, late, cur, tag>>
     \/ /\ holder = "free"
        /\ holder' = "soc" /\ fsm' = "RdyForCmd"
        /\ Goto(t, "fsm")
        /\ UNCHANGED <<sts, late, cur, tag>>
     \/ /\ holder = "uc"
        /\ Return(t)   \* Err(MboxBusy)
        /\ UNCHANGED <<holder, fsm>>
  /\ UNCHANGED <<status, big, doing, alone>>

\* EXEC is written 0: Caliptra gives up the command and the lock.
Release ==
  /\ holder' = "free" /\ fsm' = "Idle" /\ status' = "CmdBusy" /\ big' = FALSE
  /\ UNCHANGED doing

\* Mutant: a mailbox that waits for Caliptra is released like any other.
MboxUnlockBusy == IF holder = "soc" THEN Release ELSE UNCHANGED mboxVars

\* mbox_unlock: a mailbox that waits for Caliptra is left as it is.
MboxUnlock ==
  IF holder = "soc" /\ status # "CmdBusy" THEN Release ELSE UNCHANGED mboxVars

-----------------------------------------------------------------------------
(* A transaction.                                                          *)

Begin(t) ==
  /\ cur = None /\ pc[t] = "idle"
  /\ cur' = t
  /\ Goto(t, "lock")
  /\ alone' = IF \A u \in Tasks : pc[u] = "idle" THEN {t} ELSE {}
  /\ UNCHANGED <<mboxVars, sts, late, tag>>

\* Mutant: the state of the mailbox is not looked at.
FsmUnchecked(t) ==
  /\ At(t, "fsm")
  /\ Goto(t, "exec")
  /\ UNCHANGED <<mboxVars, sts, late, cur, tag, alone>>

Fsm(t) ==
  /\ At(t, "fsm")
  /\ Goto(t, IF fsm = "RdyForCmd" THEN "exec" ELSE "giveup")
  /\ UNCHANGED <<mboxVars, sts, late, cur, tag, alone>>

\* Mutant: NotReady is returned without mbox_unlock.
GiveUpLocked(t) ==
  /\ At(t, "giveup")
  /\ Return(t)
  /\ UNCHANGED <<mboxVars, alone>>

GiveUp(t) ==
  /\ At(t, "giveup")
  /\ MboxUnlock
  /\ Return(t)   \* Err(NotReady)
  /\ UNCHANGED alone

\* Mutant: a payload that is too long returns between the lock and EXEC.
ExecRefused(t) ==
  /\ At(t, "exec")
  /\ Return(t)
  /\ UNCHANGED <<mboxVars, alone>>

\* CMD, DLEN, DATAIN and EXEC are written.
Exec(t) ==
  /\ At(t, "exec")
  /\ fsm' = "ExecUc"
  /\ tag' = [tag EXCEPT !["written"] = t]
  /\ Goto(t, "wait")
  /\ UNCHANGED <<holder, status, big, doing, sts, late, cur, alone>>

\* The loops of poll_until, or the five seconds of poll_until_async, run out.
Expire(t) ==
  /\ pc[t] = "wait" /\ ~late[t]
  /\ late' = [late EXCEPT ![t] = TRUE]
  /\ UNCHANGED <<mboxVars, pc, sts, cur, tag, alone>>

\* Mutant: the deadline is not looked at.
WaitForever(t) ==
  /\ At(t, "wait")
  /\ \/ /\ status # "CmdBusy"
        /\ sts' = [sts EXCEPT ![t] = status]
        /\ Goto(t, "drain")
        /\ UNCHANGED cur
     \/ /\ status = "CmdBusy" /\ t \in Async
        /\ cur' = None
        /\ UNCHANGED <<pc, sts>>
  /\ UNCHANGED <<mboxVars, late, tag, alone>>

\* Mutant: a timeout goes on as an answer does.
WaitNoTimeout(t) ==
  /\ At(t, "wait")
  /\ \/ /\ status # "CmdBusy" \/ late[t]
        /\ sts' = [sts EXCEPT ![t] = status]
        /\ Goto(t, "drain")
        /\ UNCHANGED cur
     \/ /\ status = "CmdBusy" /\ ~late[t] /\ t \in Async
        /\ cur' = None
        /\ UNCHANGED <<pc, sts>>
  /\ UNCHANGED <<mboxVars, late, tag, alone>>

\* One look at STS: poll_until looks again at once, poll_until_async sleeps.
Wait(t) ==
  /\ At(t, "wait")
  /\ \/ /\ status # "CmdBusy"
        /\ sts' = [sts EXCEPT ![t] = status]
        /\ Goto(t, "drain")
        /\ UNCHANGED cur
     \/ /\ status = "CmdBusy" /\ late[t]
        /\ Goto(t, "timeout")
        /\ UNCHANGED <<sts, cur>>
     \/ /\ status = "CmdBusy" /\ ~late[t] /\ t \in Async
        /\ cur' = None
        /\ UNCHANGED <<pc, sts>>
  /\ UNCHANGED <<mboxVars, late, tag, alone>>

\* The timer of poll_until_async elapses and the task is polled.
Resume(t) ==
  /\ cur = None /\ pc[t] = "wait" /\ t \in Async
  /\ cur' = t
  /\ UNCHANGED <<mboxVars, pc, sts, late, tag, alone>>

\* The future of the transaction is dropped; the mailbox is left as it is.
Cancel(t) ==
  /\ cur = None /\ pc[t] = "wait" /\ t \in Async
  /\ Return(t)
  /\ UNCHANGED <<mboxVars, alone>>

Timeout(t) ==
  /\ At(t, "timeout")
  /\ MboxUnlock
  /\ Return(t)   \* Err(Timeout)
  /\ UNCHANGED alone

TooLong(t) == sts[t] = "DataReady" /\ big

\* drain_output: a response that does not fit is read and thrown away, and the
\* transaction returns with the lock held; drain_output_bytes releases it.
DrainTooLong(t) ==
  /\ At(t, "drain") /\ TooLong(t)
  /\ IF t \in Bytes THEN MboxUnlock ELSE UNCHANGED mboxVars
  /\ Return(t)   \* Err(InvalidLength)
  /\ UNCHANGED alone

Drain(t) ==
  /\ At(t, "drain") /\ ~TooLong(t)
  /\ Goto(t, "unlock")
  /\ UNCHANGED <<mboxVars, sts, late, cur, tag, alone>>

Unlock(t) ==
  /\ At(t, "unlock")
  /\ MboxUnlock
  /\ Return(t)   \* Err(CmdFailed) or the words read
  /\ UNCHANGED alone

Inside(t) ==
  \/ Lock(t) \/ Fsm(t) \/ GiveUp(t) \/ Exec(t) \/ Wait(t) \/ Timeout(t)
  \/ DrainTooLong(t) \/ Drain(t) \/ Unlock(t)

Next ==
  \/ UcFetch \/ Answer \/ UcLock \/ UcRelease
  \/ \E t \in Tasks : Begin(t) \/ Expire(t) \/ Resume(t) \/ Cancel(t) \/ Inside(t)

Spec == Init /\ [][Next]_vars

\* A poll runs on, time passes, and a task whose timer elapsed is polled in
\* turn.  Caliptra need not answer.
Fairness == \A t \in Tasks : WF_vars(Inside(t)) /\ WF_vars(Expire(t)) /\ SF_vars(Resume(t))

FairSpec == Spec /\ Fairness

-----------------------------------------------------------------------------
(* Properties.                                                             *)

\* A command is written only to a mailbox whose lock the SoC holds and that
\* has no other command: neither the lock that counts as taken again, nor one
\* that a timeout, a drop or a long response left behind, lets two commands mix.
OneCommand == \A t \in Tasks : pc[t] = "exec" => holder = "soc" /\ fsm = "RdyForCmd"

\* A transaction that no other overlaps reads the answer to its own command,
\* whatever commands, answers and locks earlier transactions that timed out,
\* were dropped or had a long response left in the mailbox.
OwnAnswer == \A t \in alone : pc[t] \in {"drain", "unlock"} => tag["answered"] = t

\* mbox_unlock does not release a mailbox whose status is CmdBusy, so a lock
\* left behind with no command would be held for good: whenever no transaction
\* runs, a lock the SoC holds belongs to a command that Caliptra was given.
NoBareLock == holder = "soc" /\ cur = None => fsm \in {"ExecUc", "ExecSoc"}

\* If transactions are tried again and again, a lock that an answered command
\* left behind is given back.
Recovers ==
  \A t \in Tasks :
    []<><<Begin(t)>>_vars =>
      ((holder = "soc" /\ status # "CmdBusy") ~> holder # "soc")

\* Every transaction returns or is dropped, even if Caliptra never answers.
Returns == \A t \in Tasks : pc[t] = "lock" ~> pc[t] = "idle"

\* What step 5 of the module's doc says, the response is drained before the
\* mailbox is unlocked: an unlock never takes the ready response of a
\* transaction that still waits for it.
DrainedFirst ==
  [][\A t \in Tasks :
       pc[t] = "wait" /\ tag["answered"] = t /\ status = "DataReady" => holder' = "soc"]_vars
=============================================================================

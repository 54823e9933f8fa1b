----------------------------- MODULE CptraProof -----------------------------
(***************************************************************************)
(* The mailbox of Caliptra is safe for any number of transactions.         *)
(*                                                                         *)
(* What each property says of one transaction rests on what the mailbox    *)
(* can look like whoever left it behind: mbox_unlock releases only an      *)
(* answered command, so Caliptra never works on one while the mailbox      *)
(* takes the next.                                                         *)
(***************************************************************************)
EXTENDS Cptra, TLAPS

\* A transaction between two awaits is the one that runs.
InsideIsCurrent == \A t \in Tasks : pc[t] \notin {"idle", "wait"} => cur = t

\* What lock, state machine and status have to do with each other.
Mailbox ==
  /\ holder = "soc" <=> fsm # "Idle"
  /\ status # "CmdBusy" <=> fsm = "ExecSoc"
  /\ fsm = "RdyForCmd" => cur # None /\ pc[cur] \in {"fsm", "exec"}

\* The mailbox as a transaction sees it once it has the lock.
Locked ==
  \A t \in Tasks :
     /\ pc[t] \in {"fsm", "giveup", "exec"} => holder = "soc"
     /\ pc[t] = "giveup" => fsm # "RdyForCmd"
     /\ pc[t] = "exec" => fsm = "RdyForCmd"

Control == InsideIsCurrent /\ Mailbox /\ Locked

\* Caliptra works only on the command that is in the mailbox.
OnePending == doing => fsm = "ExecUc" /\ tag["doing"] = tag["written"]

\* A transaction that no other overlaps has the mailbox to itself from EXEC on.
Own ==
  \A t \in alone :
     /\ pc[t] # "idle" => \A u \in Tasks : u # t => pc[u] = "idle"
     /\ pc[t] = "wait" => fsm \in {"ExecUc", "ExecSoc"}
     /\ pc[t] = "wait" /\ fsm = "ExecUc" => tag["written"] = t
     /\ pc[t] = "wait" /\ fsm = "ExecSoc" => tag["answered"] = t
     /\ pc[t] \in {"drain", "unlock"} => fsm = "ExecSoc"

IInv == TypeOK /\ Control /\ OnePending /\ Own /\ OwnAnswer

-----------------------------------------------------------------------------
LEMMA InitInv == Init => IInv
<1> SUFFICES ASSUME Init PROVE IInv
  OBVIOUS
<1> USE CptraAssumption DEF Init
<1>1. TypeOK
  BY DEF TypeOK, Answers, Steps
<1>2. Control
  BY DEF Control, InsideIsCurrent, Mailbox, Locked
<1>3. OnePending /\ Own /\ OwnAnswer
  BY DEF OnePending, Own, OwnAnswer
<1> QED  BY <1>1, <1>2, <1>3 DEF IInv

Tags == [{"written", "doing", "answered"} -> Tasks \cup {None, Gone}]

\* A history keeps its type when one command takes over the place of another.
LEMMA TagMoved ==
  ASSUME tag \in Tags, NEW x \in {"written", "doing", "answered"},
         NEW v \in Tasks \cup {None, Gone}
  PROVE  [tag EXCEPT ![x] = v] \in Tags
  BY DEF Tags

\* What a transaction that returns leaves behind is well typed.
LEMMA ReturnType ==
  ASSUME TypeOK, NEW t \in Tasks, Return(t)
  PROVE  /\ tag' \in Tags
         /\ pc' \in [Tasks -> Steps]
         /\ sts' \in [Tasks -> Answers \cup {None}]
         /\ late' \in [Tasks -> BOOLEAN]
         /\ cur' \in Tasks \cup {None}
<1>1. DOMAIN tag = {"written", "doing", "answered"}
  BY DEF TypeOK
<1>2. \A x \in DOMAIN tag : (IF tag[x] = t THEN Gone ELSE tag[x]) \in Tasks \cup {None, Gone}
  BY <1>1 DEF TypeOK
<1>3. tag' \in Tags
  BY <1>1, <1>2 DEF Return, Tags
<1>4. pc' \in [Tasks -> Steps]
  BY DEF TypeOK, Return, Goto, Steps
<1>5. sts' \in [Tasks -> Answers \cup {None}] /\ late' \in [Tasks -> BOOLEAN]
  BY DEF TypeOK, Return
<1>6. cur' \in Tasks \cup {None}
  BY DEF Return
<1> QED  BY <1>3, <1>4, <1>5, <1>6

\* Every step keeps the types.
LEMMA TypeStep == (TypeOK) /\ [Next]_vars => TypeOK'
<1> SUFFICES ASSUME TypeOK, [Next]_vars PROVE TypeOK'
  OBVIOUS
<1> USE CptraAssumption DEF TypeOK, Answers, Steps, Tasks, mboxVars, taskVars
<1>1. CASE UcFetch
  BY <1>1 DEF UcFetch
<1>2. CASE Answer
  <2>1. tag' \in Tags
    <3>1. tag \in Tags /\ tag["doing"] \in Tasks \cup {None, Gone}
      BY DEF Tags
    <3>2. tag' = tag \/ tag' = [tag EXCEPT !["answered"] = tag["doing"]]
      BY <1>2 DEF Answer
    <3> QED  BY <3>1, <3>2, TagMoved
  <2>2. fsm' \in {"Idle", "RdyForCmd", "ExecUc", "ExecSoc"} /\ status' \in Answers \cup {"CmdBusy"}
    BY <1>2 DEF Answer
  <2>3. big' \in BOOLEAN
    <3>1. CASE fsm = "ExecUc"
      BY <1>2, <3>1 DEF Answer
    <3>2. CASE fsm # "ExecUc"
      BY <1>2, <3>2 DEF Answer
    <3> QED  BY <3>1, <3>2
  <2>4. doing' \in BOOLEAN /\ UNCHANGED <<holder, pc, sts, late, cur, alone>>
    BY <1>2 DEF Answer
  <2> QED  BY <2>1, <2>2, <2>3, <2>4 DEF Tags
<1>3. CASE UcLock
  BY <1>3 DEF UcLock
<1>4. CASE UcRelease
  BY <1>4 DEF UcRelease
<1>5. ASSUME NEW t \in Tasks, Begin(t) PROVE TypeOK'
  BY <1>5 DEF Begin, Goto
<1>6. ASSUME NEW t \in Tasks, Expire(t) PROVE TypeOK'
  BY <1>6 DEF Expire
<1>7. ASSUME NEW t \in Tasks, Resume(t) PROVE TypeOK'
  BY <1>7 DEF Resume
<1>8. ASSUME NEW t \in Tasks, Cancel(t) PROVE TypeOK'
  BY <1>8, ReturnType DEF Cancel, Tags
<1>9. ASSUME NEW t \in Tasks, Lock(t) PROVE TypeOK'
  <2>1. CASE holder = "uc"
    BY <1>9, <2>1, ReturnType DEF Lock, Tags
  <2>2. CASE holder # "uc"
    BY <1>9, <2>2 DEF Lock, At, Goto
  <2> QED  BY <2>1, <2>2
<1>10. ASSUME NEW t \in Tasks, Fsm(t) PROVE TypeOK'
  BY <1>10 DEF Fsm, At, Goto
<1>11. ASSUME NEW t \in Tasks, GiveUp(t) PROVE TypeOK'
  BY <1>11, ReturnType DEF GiveUp, MboxUnlock, Release, Tags
<1>12. ASSUME NEW t \in Tasks, Exec(t) PROVE TypeOK'
  BY <1>12 DEF Exec, At, Goto
<1>13. ASSUME NEW t \in Tasks, Wait(t) PROVE TypeOK'
  BY <1>13 DEF Wait, At, Goto
<1>14. ASSUME NEW t \in Tasks, Timeout(t) PROVE TypeOK'
  BY <1>14, ReturnType DEF Timeout, MboxUnlock, Release, Tags
<1>15. ASSUME NEW t \in Tasks, DrainTooLong(t) PROVE TypeOK'
  BY <1>15, ReturnType DEF DrainTooLong, MboxUnlock, Release, Tags
<1>16. ASSUME NEW t \in Tasks, Drain(t) PROVE TypeOK'
  BY <1>16 DEF Drain, At, Goto, TooLong
<1>17. ASSUME NEW t \in Tasks, Unlock(t) PROVE TypeOK'
  BY <1>17, ReturnType DEF Unlock, MboxUnlock, Release, Tags
<1>18. CASE UNCHANGED vars
  BY <1>18 DEF vars
<1> QED
  BY <1>1, <1>2, <1>3, <1>4, <1>5, <1>6, <1>7, <1>8, <1>9, <1>10, <1>11, <1>12, <1>13,
     <1>14, <1>15, <1>16, <1>17, <1>18
  DEF Next, Inside

\* The lock, the state machine and the status move together.
LEMMA ControlStep == (TypeOK /\ Control) /\ [Next]_vars => Control'
<1> SUFFICES ASSUME TypeOK /\ Control, [Next]_vars PROVE Control'
  OBVIOUS
<1> USE CptraAssumption DEF TypeOK, Control, InsideIsCurrent, Mailbox, Locked, Answers, Steps,
        mboxVars, taskVars
<1>1. CASE UcFetch
  BY <1>1 DEF UcFetch
<1>2. CASE Answer
  BY <1>2 DEF Answer
<1>3. CASE UcLock
  BY <1>3 DEF UcLock
<1>4. CASE UcRelease
  BY <1>4 DEF UcRelease
<1>5. ASSUME NEW t \in Tasks, Begin(t) PROVE Control'
  BY <1>5 DEF Begin, Goto
<1>6. ASSUME NEW t \in Tasks, Expire(t) PROVE Control'
  BY <1>6 DEF Expire
<1>7. ASSUME NEW t \in Tasks, Resume(t) PROVE Control'
  BY <1>7 DEF Resume
<1>8. ASSUME NEW t \in Tasks, Cancel(t) PROVE Control'
  BY <1>8 DEF Cancel, Goto, Return
<1>9. ASSUME NEW t \in Tasks, Lock(t) PROVE Control'
  BY <1>9 DEF Lock, At, Goto, Return
<1>10. ASSUME NEW t \in Tasks, Fsm(t) PROVE Control'
  BY <1>10 DEF Fsm, At, Goto
<1>11. ASSUME NEW t \in Tasks, GiveUp(t) PROVE Control'
  BY <1>11 DEF GiveUp, At, Goto, Return, MboxUnlock, Release
<1>12. ASSUME NEW t \in Tasks, Exec(t) PROVE Control'
  BY <1>12 DEF Exec, At, Goto
<1>13. ASSUME NEW t \in Tasks, Wait(t) PROVE Control'
  BY <1>13 DEF Wait, At, Goto
<1>14. ASSUME NEW t \in Tasks, Timeout(t) PROVE Control'
  BY <1>14 DEF Timeout, At, Goto, Return, MboxUnlock, Release
<1>15. ASSUME NEW t \in Tasks, DrainTooLong(t) PROVE Control'
  BY <1>15 DEF DrainTooLong, At, Goto, Return, TooLong, MboxUnlock, Release
<1>16. ASSUME NEW t \in Tasks, Drain(t) PROVE Control'
  BY <1>16 DEF Drain, At, Goto, TooLong
<1>17. ASSUME NEW t \in Tasks, Unlock(t) PROVE Control'
  BY <1>17 DEF Unlock, At, Goto, Return, MboxUnlock, Release
<1>18. CASE UNCHANGED vars
  BY <1>18 DEF vars
<1> QED
  BY <1>1, <1>2, <1>3, <1>4, <1>5, <1>6, <1>7, <1>8, <1>9, <1>10, <1>11, <1>12, <1>13,
     <1>14, <1>15, <1>16, <1>17, <1>18
  DEF Next, Inside

\* A command that Caliptra works on is never released or overwritten.
LEMMA PendingStep == (TypeOK /\ Control /\ OnePending) /\ [Next]_vars => OnePending'
<1> SUFFICES ASSUME TypeOK /\ Control /\ OnePending, [Next]_vars PROVE OnePending'
  OBVIOUS
<1> USE CptraAssumption DEF TypeOK, Control, InsideIsCurrent, Mailbox, Locked, OnePending,
        Answers, Steps,
        mboxVars, taskVars
<1>1. CASE UcFetch
  BY <1>1 DEF UcFetch
<1>2. CASE Answer
  BY <1>2 DEF Answer
<1>3. CASE UcLock
  BY <1>3 DEF UcLock
<1>4. CASE UcRelease
  BY <1>4 DEF UcRelease
<1>5. ASSUME NEW t \in Tasks, Begin(t) PROVE OnePending'
  BY <1>5 DEF Begin, Goto
<1>6. ASSUME NEW t \in Tasks, Expire(t) PROVE OnePending'
  BY <1>6 DEF Expire
<1>7. ASSUME NEW t \in Tasks, Resume(t) PROVE OnePending'
  BY <1>7 DEF Resume
<1>8. ASSUME NEW t \in Tasks, Cancel(t) PROVE OnePending'
  BY <1>8 DEF Cancel, Goto, Return
<1>9. ASSUME NEW t \in Tasks, Lock(t) PROVE OnePending'
  BY <1>9 DEF Lock, At, Goto, Return
<1>10. ASSUME NEW t \in Tasks, Fsm(t) PROVE OnePending'
  BY <1>10 DEF Fsm, At, Goto
<1>11. ASSUME NEW t \in Tasks, GiveUp(t) PROVE OnePending'
  BY <1>11 DEF GiveUp, At, Goto, Return, MboxUnlock, Release
<1>12. ASSUME NEW t \in Tasks, Exec(t) PROVE OnePending'
  BY <1>12 DEF Exec, At, Goto
<1>13. ASSUME NEW t \in Tasks, Wait(t) PROVE OnePending'
  BY <1>13 DEF Wait, At, Goto
<1>14. ASSUME NEW t \in Tasks, Timeout(t) PROVE OnePending'
  BY <1>14 DEF Timeout, At, Goto, Return, MboxUnlock, Release
<1>15. ASSUME NEW t \in Tasks, DrainTooLong(t) PROVE OnePending'
  BY <1>15 DEF DrainTooLong, At, Goto, Return, TooLong, MboxUnlock, Release
<1>16. ASSUME NEW t \in Tasks, Drain(t) PROVE OnePending'
  BY <1>16 DEF Drain, At, Goto, TooLong
<1>17. ASSUME NEW t \in Tasks, Unlock(t) PROVE OnePending'
  BY <1>17 DEF Unlock, At, Goto, Return, MboxUnlock, Release
<1>18. CASE UNCHANGED vars
  BY <1>18 DEF vars
<1> QED
  BY <1>1, <1>2, <1>3, <1>4, <1>5, <1>6, <1>7, <1>8, <1>9, <1>10, <1>11, <1>12, <1>13,
     <1>14, <1>15, <1>16, <1>17, <1>18
  DEF Next, Inside

\* An answer that a lone transaction finds is the answer to its command.
LEMMA OwnStep ==
  (TypeOK /\ Control /\ OnePending /\ Own /\ OwnAnswer) /\ [Next]_vars => (Own /\ OwnAnswer)'
<1> SUFFICES ASSUME TypeOK /\ Control /\ OnePending /\ Own /\ OwnAnswer, [Next]_vars
             PROVE  (Own /\ OwnAnswer)'
  OBVIOUS
<1> USE CptraAssumption DEF TypeOK, Control, InsideIsCurrent, Mailbox, Locked, OnePending,
        Own, OwnAnswer, Answers, Steps, mboxVars, taskVars
<1>1. CASE UcFetch
  BY <1>1 DEF UcFetch
<1>2. CASE Answer
  <2>1. fsm = "ExecUc" /\ tag'["answered"] = tag["written"] /\ fsm' = "ExecSoc"
    BY <1>2 DEF Answer
  <2>2. UNCHANGED <<holder, pc, sts, late, cur, alone>>
    BY <1>2 DEF Answer
  <2> QED  BY <2>1, <2>2
<1>3. CASE UcLock
  BY <1>3 DEF UcLock
<1>4. CASE UcRelease
  BY <1>4 DEF UcRelease
<1>5. ASSUME NEW t \in Tasks, Begin(t) PROVE (Own /\ OwnAnswer)'
  BY <1>5 DEF Begin, Goto
<1>6. ASSUME NEW t \in Tasks, Expire(t) PROVE (Own /\ OwnAnswer)'
  BY <1>6 DEF Expire
<1>7. ASSUME NEW t \in Tasks, Resume(t) PROVE (Own /\ OwnAnswer)'
  BY <1>7 DEF Resume
<1>8. ASSUME NEW t \in Tasks, Cancel(t) PROVE (Own /\ OwnAnswer)'
  BY <1>8 DEF Cancel, Goto, Return
<1>9. ASSUME NEW t \in Tasks, Lock(t) PROVE (Own /\ OwnAnswer)'
  BY <1>9 DEF Lock, At, Goto, Return
<1>10. ASSUME NEW t \in Tasks, Fsm(t) PROVE (Own /\ OwnAnswer)'
  BY <1>10 DEF Fsm, At, Goto
<1>11. ASSUME NEW t \in Tasks, GiveUp(t) PROVE (Own /\ OwnAnswer)'
  BY <1>11 DEF GiveUp, At, Goto, Return, MboxUnlock, Release
<1>12. ASSUME NEW t \in Tasks, Exec(t) PROVE (Own /\ OwnAnswer)'
  BY <1>12 DEF Exec, At, Goto
<1>13. ASSUME NEW t \in Tasks, Wait(t) PROVE (Own /\ OwnAnswer)'
  BY <1>13 DEF Wait, At, Goto
<1>14. ASSUME NEW t \in Tasks, Timeout(t) PROVE (Own /\ OwnAnswer)'
  BY <1>14 DEF Timeout, At, Goto, Return, MboxUnlock, Release
<1>15. ASSUME NEW t \in Tasks, DrainTooLong(t) PROVE (Own /\ OwnAnswer)'
  BY <1>15 DEF DrainTooLong, At, Goto, Return, TooLong, MboxUnlock, Release
<1>16. ASSUME NEW t \in Tasks, Drain(t) PROVE (Own /\ OwnAnswer)'
  BY <1>16 DEF Drain, At, Goto, TooLong
<1>17. ASSUME NEW t \in Tasks, Unlock(t) PROVE (Own /\ OwnAnswer)'
  BY <1>17 DEF Unlock, At, Goto, Return, MboxUnlock, Release
<1>18. CASE UNCHANGED vars
  BY <1>18 DEF vars
<1> QED
  BY <1>1, <1>2, <1>3, <1>4, <1>5, <1>6, <1>7, <1>8, <1>9, <1>10, <1>11, <1>12, <1>13,
     <1>14, <1>15, <1>16, <1>17, <1>18
  DEF Next, Inside

LEMMA StepInv == IInv /\ [Next]_vars => IInv'
  BY TypeStep, ControlStep, PendingStep, OwnStep DEF IInv

\* IInv, and with it all it consists of, holds in every reachable state.
THEOREM Invariance == Spec => []IInv
  BY InitInv, StepInv, PTL DEF Spec

\* The mailbox, the futures and the histories keep their types: in particular
\* no state of the mailbox is met that MboxFsm does not name.
THEOREM TypeCorrect == Spec => []TypeOK
<1>1. IInv => TypeOK
  BY DEF IInv
<1> QED  BY <1>1, Invariance, PTL

\* A command is written only under the SoC's lock and to an empty mailbox,
\* whatever other transactions were begun, timed out or dropped.
THEOREM CommandsApart == Spec => []OneCommand
<1>1. IInv => OneCommand
  BY DEF IInv, Control, Locked, OneCommand
<1> QED  BY <1>1, Invariance, PTL

\* A transaction that no other overlaps never reads the answer to a command
\* that an earlier one abandoned.
THEOREM AnswersApart == Spec => []OwnAnswer
<1>1. IInv => OwnAnswer
  BY DEF IInv
<1> QED  BY <1>1, Invariance, PTL

\* No lock is left behind without a command whose answer will release it.
THEOREM LocksReleasable == Spec => []NoBareLock
<1>1. IInv => NoBareLock
  BY DEF IInv, TypeOK, Control, Mailbox, NoBareLock
<1> QED  BY <1>1, Invariance, PTL
=============================================================================

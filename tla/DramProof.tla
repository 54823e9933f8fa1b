----------------------------- MODULE DramProof -----------------------------
(***************************************************************************)
(* DRAM is used only when it was set up since the last reset, whatever     *)
(* earlier attempts did, for any number of attempts and mode registers.    *)
(*                                                                         *)
(* An attempt leaves nothing behind that the next could take for its own:  *)
(* the reset clears every done bit together with what the bit stands for.  *)
(* From there on each step of init adds one part, and no answer of the     *)
(* hardware removes one.                                                   *)
(***************************************************************************)
EXTENDS Dram, TLAPS

\* Where init stands once the controller is used, the mode registers are
\* written, DRAM is out of self-refresh, and so on back to the configuration.
Refreshing   == {"bist", "restore", "size", "lock", "done"}
Written      == {"refresh"} \cup Refreshing
Awake        == {"mrs", "mrdone"} \cup Written
Initialised  == {"selfref", "awake"} \cup Awake
Initialising == {"init"} \cup Initialised
Trained      == {"pie"} \cup Initialising
Configured   == {"load", "mail", "ack", "result"} \cup Trained

\* The masks are saved before the controller is set up, which is unlocked
\* meanwhile, and the flag comes last.
Lock ==
  /\ pc \in {"config"} \cup Configured => saved # "zero"
  /\ pc \in Configured \ {"done"} => ~protect
  /\ flag => pc = "done"

\* Each step adds its part.
Parts ==
  /\ pc \in Configured => {"config", "powered"} \subseteq hw
  /\ pc \in Configured \ Trained /\ pass = "2d" => ddr4 /\ "1d" \in hw
  /\ pc \in Trained => "1d" \in hw /\ (ddr4 => "2d" \in hw)
  /\ pc \in Initialising => "pie" \in hw
  /\ pc \in Initialised => "mission" \in hw
  /\ pc \in Awake => "awake" \in hw
  /\ pc \in Refreshing => "refresh" \in hw

\* A done bit stands for what the hardware did since the reset.
Bits ==
  /\ "init" \in status => "mission" \in hw
  /\ "selfref" \in status => "awake" \in hw

\* The mode registers written are those sent, and the one being sent.
Registers ==
  /\ pc \in {"config"} \cup (Configured \ Awake) => "mr" \notin busy \cup status /\ mrs = 0
  /\ pc \in {"mrs", "mrdone"} => ddr4 /\ sent < NumMrs
  /\ pc = "mrs" => "mr" \notin busy \cup status /\ mrs = sent
  /\ pc = "mrdone" => \/ "mr" \in busy /\ "mr" \notin status /\ mrs = sent
                      \/ "mr" \notin busy /\ "mr" \in status /\ mrs = sent + 1
  /\ pc \in Written => "mr" \notin busy /\ (ddr4 => mrs = NumMrs)

\* No size below the one tried next aliases.
Search ==
  /\ pc = "size" => \A i \in 3..sz - 1 : ~Aliases(i)
  /\ pc \in {"lock", "done"} => size = phys

IInv == TypeOK /\ Lock /\ Parts /\ Bits /\ Registers /\ NoneLeftOver /\ Search

-----------------------------------------------------------------------------
\* The types in three parts: the Booleans, the hardware, the PHY with init's
\* locals.
Flags ==
  /\ ddr4 \in BOOLEAN /\ protect \in BOOLEAN /\ flag \in BOOLEAN
  /\ failed \in BOOLEAN /\ passed \in BOOLEAN

Hardware ==
  /\ phys \in Sizes /\ wdt \in {"boot", "reset"} /\ size \in 0..5
  /\ hw \subseteq DramcParts \cup PhyParts /\ mrs \in 0..NumMrs
  /\ busy \subseteq DramcOps \cup {"mpll"} /\ status \subseteq DramcOps \cup {"mpll"}

Locals ==
  /\ training \in {"none", "1d", "2d"} /\ pass \in {"1d", "2d"}
  /\ mail \in Messages /\ msg \in Messages /\ msgs \in 0..MaxMsgs
  /\ saved \in {"zero", "boot", "reset"} /\ sz \in 3..6 /\ sent \in 0..NumMrs
  /\ pc \in Points /\ attempt \in 0..Attempts
  /\ err \in {"none", "PhyInitTimeout", "SelfRefTimeout", "BistFail", "NoPhyFirmware"}

LEMMA Types == TypeOK <=> Flags /\ Hardware /\ Locals
  BY DEF TypeOK, Flags, Hardware, Locals

LEMMA InitInv == DramAssumption /\ Init => IInv
<1> SUFFICES ASSUME DramAssumption, Init PROVE IInv
  OBVIOUS
<1> USE DEF DramAssumption, Init, Refreshing, Written, Awake, Initialised, Initialising, Trained,
        Configured
<1>1. Flags /\ Hardware
  <2>1. Flags
    BY DEF Flags
  <2>2. Hardware
    BY DEF Hardware
  <2> QED  BY <2>1, <2>2
<1>2. Locals
  <2>1. pc \in Points /\ mail \in Messages /\ msg \in Messages
    BY DEF Points, Messages
  <2> QED  BY <2>1 DEF Locals
<1>3. Lock /\ Parts /\ Bits
  BY DEF Lock, Parts, Bits
<1>4. Registers /\ NoneLeftOver /\ Search
  BY DEF Registers, NoneLeftOver, Search
<1> QED  BY <1>1, <1>2, <1>3, <1>4, Types DEF IInv

\* The size that the sweep ends with is the installed one.
LEMMA FirstAlias ==
  ASSUME phys \in 2..5
  PROVE  \A i \in 3..5 : Aliases(i) <=> phys < i
<1>1. Map1[4] = 68 /\ Map1[5] = 72 /\ Map1[6] = 80
  BY DEF Map1
<1>2. \A i \in 3..5 : i = 3 \/ i = 4 \/ i = 5
  OBVIOUS
<1>3. CASE phys = 2
  <2>1. 2 ^ phys = 4
    BY <1>3
  <2> QED  BY <1>1, <1>2, <1>3, <2>1 DEF Aliases
<1>4. CASE phys = 3
  <2>1. 2 ^ phys = 8
    BY <1>4
  <2> QED  BY <1>1, <1>2, <1>4, <2>1 DEF Aliases
<1>5. CASE phys = 4
  <2>1. 2 ^ phys = 16
    BY <1>5
  <2> QED  BY <1>1, <1>2, <1>5, <2>1 DEF Aliases
<1>6. CASE phys = 5
  <2>1. 2 ^ phys = 32
    BY <1>6
  <2> QED  BY <1>1, <1>2, <1>6, <2>1 DEF Aliases
<1> QED  BY <1>3, <1>4, <1>5, <1>6

LEMMA FlagsStep == DramAssumption /\ TypeOK /\ Lock /\ Registers /\ [Next]_vars => Flags'
<1> SUFFICES ASSUME DramAssumption, TypeOK, Lock, Registers, [Next]_vars PROVE Flags'
  OBVIOUS
<1> USE DEF DramAssumption, TypeOK, Flags, DramcParts, PhyParts, Messages, Points,
        hwVars, phyVars, regVars, locals, vars, At, Goto, DramcOps
<1>1. CASE Firmware
  BY <1>1 DEF Firmware
<1>2. CASE Mpll
  BY <1>2 DEF Mpll
<1>3. CASE Reset
  BY <1>3 DEF Reset
<1>4. CASE Config
  BY <1>4 DEF Config
<1>5. CASE Load
  BY <1>5 DEF Load
<1>6. CASE Mail
  BY <1>6 DEF Mail
<1>7. CASE MailTimeout
  BY <1>7 DEF MailTimeout, Retry
<1>8. CASE Ack
  BY <1>8 DEF Ack, Retry
<1>9. CASE Result
  BY <1>9 DEF Result, Retry
<1>10. CASE PhyInit
  BY <1>10 DEF PhyInit, Start
<1>11. CASE PhyInitPoll
  BY <1>11 DEF PhyInitPoll, Retry
<1>12. CASE SelfRef
  BY <1>12 DEF SelfRef, Start
<1>13. CASE SelfRefPoll
  BY <1>13 DEF SelfRefPoll, Retry
<1>14. CASE MrSend
  BY <1>14 DEF MrSend, Start
<1>15. CASE MrDone
  BY <1>15 DEF MrDone
<1>16. CASE Bist
  BY <1>16 DEF Bist, Set, Start
<1>17. CASE BistPoll
  BY <1>17 DEF BistPoll, Retry
<1>18. CASE Restore
  BY <1>18 DEF Restore
<1>19. CASE SizeDetect
  BY <1>19 DEF SizeDetect
<1>20. CASE Finish
  BY <1>20 DEF Finish
<1>21. CASE PhyMessage
  BY <1>21 DEF PhyMessage
<1>22. ASSUME NEW o \in DramcOps \cup {"mpll"}, Complete(o) PROVE Flags'
  BY <1>22 DEF Complete
<1>23. CASE UNCHANGED vars
  BY <1>23 DEF vars
<1> QED
  BY <1>1, <1>2, <1>3, <1>4, <1>5, <1>6, <1>7, <1>8, <1>9, <1>10, <1>11, <1>12, <1>13,
     <1>14, <1>15, <1>16, <1>17, <1>18, <1>19, <1>20, <1>21, <1>22, <1>23
  DEF Next, Step, Stopped

LEMMA HardwareStep == DramAssumption /\ TypeOK /\ Lock /\ Registers /\ [Next]_vars => Hardware'
<1> SUFFICES ASSUME DramAssumption, TypeOK, Lock, Registers, [Next]_vars PROVE Hardware'
  OBVIOUS
<1> USE DEF DramAssumption, TypeOK, Hardware, DramcParts, PhyParts, Messages, Points,
        hwVars, phyVars, regVars, locals, vars, At, Goto, DramcOps
<1>1. CASE Firmware
  BY <1>1 DEF Firmware
<1>2. CASE Mpll
  BY <1>2 DEF Mpll
<1>3. CASE Reset
  BY <1>3 DEF Reset
<1>4. CASE Config
  BY <1>4 DEF Config
<1>5. CASE Load
  BY <1>5 DEF Load
<1>6. CASE Mail
  BY <1>6 DEF Mail
<1>7. CASE MailTimeout
  BY <1>7 DEF MailTimeout, Retry
<1>8. CASE Ack
  BY <1>8 DEF Ack, Retry
<1>9. CASE Result
  BY <1>9 DEF Result, Retry
<1>10. CASE PhyInit
  BY <1>10 DEF PhyInit, Start
<1>11. CASE PhyInitPoll
  BY <1>11 DEF PhyInitPoll, Retry
<1>12. CASE SelfRef
  BY <1>12 DEF SelfRef, Start
<1>13. CASE SelfRefPoll
  BY <1>13 DEF SelfRefPoll, Retry
<1>14. CASE MrSend
  BY <1>14 DEF MrSend, Start
<1>15. CASE MrDone
  BY <1>15 DEF MrDone
<1>16. CASE Bist
  BY <1>16 DEF Bist, Set, Start
<1>17. CASE BistPoll
  BY <1>17 DEF BistPoll, Retry
<1>18. CASE Restore
  BY <1>18 DEF Restore, Lock, Refreshing, Written, Awake, Initialised, Initialising, Trained,
         Configured
<1>19. CASE SizeDetect
  BY <1>19 DEF SizeDetect
<1>20. CASE Finish
  BY <1>20 DEF Finish
<1>21. CASE PhyMessage
  BY <1>21 DEF PhyMessage
<1>22. ASSUME NEW o \in DramcOps \cup {"mpll"}, Complete(o) PROVE Hardware'
  BY <1>22 DEF Complete
<1>23. CASE UNCHANGED vars
  BY <1>23 DEF vars
<1> QED
  BY <1>1, <1>2, <1>3, <1>4, <1>5, <1>6, <1>7, <1>8, <1>9, <1>10, <1>11, <1>12, <1>13,
     <1>14, <1>15, <1>16, <1>17, <1>18, <1>19, <1>20, <1>21, <1>22, <1>23
  DEF Next, Step, Stopped

LEMMA LocalsStep == DramAssumption /\ TypeOK /\ Lock /\ Registers /\ [Next]_vars => Locals'
<1> SUFFICES ASSUME DramAssumption, TypeOK, Lock, Registers, [Next]_vars PROVE Locals'
  OBVIOUS
<1> USE DEF DramAssumption, TypeOK, Locals, DramcParts, PhyParts, Messages, Points,
        hwVars, phyVars, regVars, locals, vars, At, Goto, DramcOps
<1>1. CASE Firmware
  BY <1>1 DEF Firmware
<1>2. CASE Mpll
  BY <1>2 DEF Mpll
<1>3. CASE Reset
  BY <1>3 DEF Reset
<1>4. CASE Config
  BY <1>4 DEF Config
<1>5. CASE Load
  BY <1>5 DEF Load
<1>6. CASE Mail
  BY <1>6 DEF Mail
<1>7. CASE MailTimeout
  BY <1>7 DEF MailTimeout, Retry
<1>8. CASE Ack
  BY <1>8 DEF Ack, Retry
<1>9. CASE Result
  BY <1>9 DEF Result, Retry
<1>10. CASE PhyInit
  BY <1>10 DEF PhyInit, Start
<1>11. CASE PhyInitPoll
  BY <1>11 DEF PhyInitPoll, Retry
<1>12. CASE SelfRef
  BY <1>12 DEF SelfRef, Start
<1>13. CASE SelfRefPoll
  BY <1>13 DEF SelfRefPoll, Retry
<1>14. CASE MrSend
  BY <1>14 DEF MrSend, Start
<1>15. CASE MrDone
  BY <1>15 DEF MrDone, Registers
<1>16. CASE Bist
  BY <1>16 DEF Bist, Set, Start
<1>17. CASE BistPoll
  BY <1>17 DEF BistPoll, Retry
<1>18. CASE Restore
  BY <1>18 DEF Restore
<1>19. CASE SizeDetect
  BY <1>19 DEF SizeDetect
<1>20. CASE Finish
  BY <1>20 DEF Finish
<1>21. CASE PhyMessage
  BY <1>21 DEF PhyMessage
<1>22. ASSUME NEW o \in DramcOps \cup {"mpll"}, Complete(o) PROVE Locals'
  BY <1>22 DEF Complete
<1>23. CASE UNCHANGED vars
  BY <1>23 DEF vars
<1> QED
  BY <1>1, <1>2, <1>3, <1>4, <1>5, <1>6, <1>7, <1>8, <1>9, <1>10, <1>11, <1>12, <1>13,
     <1>14, <1>15, <1>16, <1>17, <1>18, <1>19, <1>20, <1>21, <1>22, <1>23
  DEF Next, Step, Stopped

\* Every step keeps the types.
LEMMA TypeStep == DramAssumption /\ TypeOK /\ Lock /\ Registers /\ [Next]_vars => TypeOK'
<1>1. DramAssumption /\ TypeOK /\ Lock /\ Registers /\ [Next]_vars => (Flags /\ Hardware /\ Locals)'
  BY FlagsStep, HardwareStep, LocalsStep
<1>2. (Flags /\ Hardware /\ Locals)' => TypeOK'
  BY DEF TypeOK, Flags, Hardware, Locals
<1> QED  BY <1>1, <1>2

\* The controller stays unlocked until it is set up.
LEMMA LockStep == (TypeOK /\ Lock) /\ [Next]_vars => Lock'
<1> SUFFICES ASSUME TypeOK /\ Lock, [Next]_vars PROVE Lock'
  OBVIOUS
<1> USE DEF TypeOK, Points, Lock, Refreshing, Written, Awake, Initialised, Initialising,
        Trained, Configured,
        hwVars, phyVars, regVars, locals, vars, At, Goto, DramcOps
<1>1. CASE Firmware
  BY <1>1 DEF Firmware
<1>2. CASE Mpll
  BY <1>2 DEF Mpll
<1>3. CASE Reset
  BY <1>3 DEF Reset
<1>4. CASE Config
  BY <1>4 DEF Config
<1>5. CASE Load
  BY <1>5 DEF Load
<1>6. CASE Mail
  BY <1>6 DEF Mail
<1>7. CASE MailTimeout
  BY <1>7 DEF MailTimeout, Retry
<1>8. CASE Ack
  BY <1>8 DEF Ack, Retry
<1>9. CASE Result
  BY <1>9 DEF Result, Retry
<1>10. CASE PhyInit
  BY <1>10 DEF PhyInit, Start
<1>11. CASE PhyInitPoll
  BY <1>11 DEF PhyInitPoll, Retry
<1>12. CASE SelfRef
  BY <1>12 DEF SelfRef, Start
<1>13. CASE SelfRefPoll
  BY <1>13 DEF SelfRefPoll, Retry
<1>14. CASE MrSend
  BY <1>14 DEF MrSend, Start
<1>15. CASE MrDone
  BY <1>15 DEF MrDone
<1>16. CASE Bist
  BY <1>16 DEF Bist, Set, Start
<1>17. CASE BistPoll
  BY <1>17 DEF BistPoll, Retry
<1>18. CASE Restore
  BY <1>18 DEF Restore
<1>19. CASE SizeDetect
  BY <1>19 DEF SizeDetect
<1>20. CASE Finish
  BY <1>20 DEF Finish
<1>21. CASE PhyMessage
  BY <1>21 DEF PhyMessage
<1>22. ASSUME NEW o \in DramcOps \cup {"mpll"}, Complete(o) PROVE Lock'
  BY <1>22 DEF Complete
<1>23. CASE UNCHANGED vars
  BY <1>23 DEF vars
<1> QED
  BY <1>1, <1>2, <1>3, <1>4, <1>5, <1>6, <1>7, <1>8, <1>9, <1>10, <1>11, <1>12, <1>13,
     <1>14, <1>15, <1>16, <1>17, <1>18, <1>19, <1>20, <1>21, <1>22, <1>23
  DEF Next, Step, Stopped

\* The parts of the current attempt accumulate, and the bits tell of no other.
LEMMA PartsStep == (TypeOK /\ Lock /\ Bits /\ Parts) /\ [Next]_vars => (Bits /\ Parts)'
<1> SUFFICES ASSUME TypeOK /\ Lock /\ Bits /\ Parts, [Next]_vars PROVE (Bits /\ Parts)'
  OBVIOUS
<1> USE DEF TypeOK, Points, Lock, Bits, Parts, PhyParts, DramcParts, Refreshing, Written,
       Awake, Initialised, Initialising,
        Trained, Configured,
        hwVars, phyVars, regVars, locals, vars, At, Goto, DramcOps
<1>1. CASE Firmware
  BY <1>1 DEF Firmware
<1>2. CASE Mpll
  BY <1>2 DEF Mpll
<1>3. CASE Reset
  BY <1>3 DEF Reset
<1>4. CASE Config
  BY <1>4 DEF Config
<1>5. CASE Load
  BY <1>5 DEF Load
<1>6. CASE Mail
  BY <1>6 DEF Mail
<1>7. CASE MailTimeout
  BY <1>7 DEF MailTimeout, Retry
<1>8. CASE Ack
  BY <1>8 DEF Ack, Retry
<1>9. CASE Result
  BY <1>9 DEF Result, Retry
<1>10. CASE PhyInit
  BY <1>10 DEF PhyInit, Start
<1>11. CASE PhyInitPoll
  BY <1>11 DEF PhyInitPoll, Retry
<1>12. CASE SelfRef
  BY <1>12 DEF SelfRef, Start
<1>13. CASE SelfRefPoll
  BY <1>13 DEF SelfRefPoll, Retry
<1>14. CASE MrSend
  BY <1>14 DEF MrSend, Start
<1>15. CASE MrDone
  BY <1>15 DEF MrDone
<1>16. CASE Bist
  BY <1>16 DEF Bist, Set, Start
<1>17. CASE BistPoll
  BY <1>17 DEF BistPoll, Retry
<1>18. CASE Restore
  BY <1>18 DEF Restore
<1>19. CASE SizeDetect
  BY <1>19 DEF SizeDetect
<1>20. CASE Finish
  BY <1>20 DEF Finish
<1>21. CASE PhyMessage
  BY <1>21 DEF PhyMessage
<1>22. ASSUME NEW o \in DramcOps \cup {"mpll"}, Complete(o) PROVE (Bits /\ Parts)'
  BY <1>22 DEF Complete
<1>23. CASE UNCHANGED vars
  BY <1>23 DEF vars
<1> QED
  BY <1>1, <1>2, <1>3, <1>4, <1>5, <1>6, <1>7, <1>8, <1>9, <1>10, <1>11, <1>12, <1>13,
     <1>14, <1>15, <1>16, <1>17, <1>18, <1>19, <1>20, <1>21, <1>22, <1>23
  DEF Next, Step, Stopped

\* One mode register after another is written.
LEMMA RegistersStep == DramAssumption /\ (TypeOK /\ Lock /\ Registers) /\ [Next]_vars => Registers'
<1> SUFFICES ASSUME DramAssumption, TypeOK /\ Lock /\ Registers, [Next]_vars PROVE Registers'
  OBVIOUS
<1> USE DEF DramAssumption, TypeOK, Points, Lock, Registers, Refreshing, Written, Awake,
       Initialised, Initialising,
        Trained, Configured,
        hwVars, phyVars, regVars, locals, vars, At, Goto, DramcOps
<1>1. CASE Firmware
  BY <1>1 DEF Firmware
<1>2. CASE Mpll
  BY <1>2 DEF Mpll
<1>3. CASE Reset
  BY <1>3 DEF Reset
<1>4. CASE Config
  BY <1>4 DEF Config
<1>5. CASE Load
  BY <1>5 DEF Load
<1>6. CASE Mail
  BY <1>6 DEF Mail
<1>7. CASE MailTimeout
  BY <1>7 DEF MailTimeout, Retry
<1>8. CASE Ack
  BY <1>8 DEF Ack, Retry
<1>9. CASE Result
  BY <1>9 DEF Result, Retry
<1>10. CASE PhyInit
  BY <1>10 DEF PhyInit, Start
<1>11. CASE PhyInitPoll
  BY <1>11 DEF PhyInitPoll, Retry
<1>12. CASE SelfRef
  BY <1>12 DEF SelfRef, Start
<1>13. CASE SelfRefPoll
  BY <1>13 DEF SelfRefPoll, Retry
<1>14. CASE MrSend
  BY <1>14 DEF MrSend, Start
<1>15. CASE MrDone
  BY <1>15 DEF MrDone
<1>16. CASE Bist
  BY <1>16 DEF Bist, Set, Start
<1>17. CASE BistPoll
  BY <1>17 DEF BistPoll, Retry
<1>18. CASE Restore
  BY <1>18 DEF Restore
<1>19. CASE SizeDetect
  BY <1>19 DEF SizeDetect
<1>20. CASE Finish
  BY <1>20 DEF Finish
<1>21. CASE PhyMessage
  BY <1>21 DEF PhyMessage
<1>22. ASSUME NEW o \in DramcOps \cup {"mpll"}, Complete(o) PROVE Registers'
  BY <1>22 DEF Complete
<1>23. CASE UNCHANGED vars
  BY <1>23 DEF vars
<1> QED
  BY <1>1, <1>2, <1>3, <1>4, <1>5, <1>6, <1>7, <1>8, <1>9, <1>10, <1>11, <1>12, <1>13,
     <1>14, <1>15, <1>16, <1>17, <1>18, <1>19, <1>20, <1>21, <1>22, <1>23
  DEF Next, Step, Stopped

\* Nothing is started before the PHY is trained.
LEMMA LeftOverStep == (TypeOK /\ NoneLeftOver) /\ [Next]_vars => NoneLeftOver'
<1> SUFFICES ASSUME TypeOK /\ NoneLeftOver, [Next]_vars PROVE NoneLeftOver'
  OBVIOUS
<1> USE DEF TypeOK, Points, NoneLeftOver,
        hwVars, phyVars, regVars, locals, vars, At, Goto, DramcOps
<1>1. CASE Firmware
  BY <1>1 DEF Firmware
<1>2. CASE Mpll
  BY <1>2 DEF Mpll
<1>3. CASE Reset
  BY <1>3 DEF Reset
<1>4. CASE Config
  BY <1>4 DEF Config
<1>5. CASE Load
  BY <1>5 DEF Load
<1>6. CASE Mail
  BY <1>6 DEF Mail
<1>7. CASE MailTimeout
  BY <1>7 DEF MailTimeout, Retry
<1>8. CASE Ack
  BY <1>8 DEF Ack, Retry
<1>9. CASE Result
  BY <1>9 DEF Result, Retry
<1>10. CASE PhyInit
  BY <1>10 DEF PhyInit, Start
<1>11. CASE PhyInitPoll
  BY <1>11 DEF PhyInitPoll, Retry
<1>12. CASE SelfRef
  BY <1>12 DEF SelfRef, Start
<1>13. CASE SelfRefPoll
  BY <1>13 DEF SelfRefPoll, Retry
<1>14. CASE MrSend
  BY <1>14 DEF MrSend, Start
<1>15. CASE MrDone
  BY <1>15 DEF MrDone
<1>16. CASE Bist
  BY <1>16 DEF Bist, Set, Start
<1>17. CASE BistPoll
  BY <1>17 DEF BistPoll, Retry
<1>18. CASE Restore
  BY <1>18 DEF Restore
<1>19. CASE SizeDetect
  BY <1>19 DEF SizeDetect
<1>20. CASE Finish
  BY <1>20 DEF Finish
<1>21. CASE PhyMessage
  BY <1>21 DEF PhyMessage
<1>22. ASSUME NEW o \in DramcOps \cup {"mpll"}, Complete(o) PROVE NoneLeftOver'
  BY <1>22 DEF Complete
<1>23. CASE UNCHANGED vars
  BY <1>23 DEF vars
<1> QED
  BY <1>1, <1>2, <1>3, <1>4, <1>5, <1>6, <1>7, <1>8, <1>9, <1>10, <1>11, <1>12, <1>13,
     <1>14, <1>15, <1>16, <1>17, <1>18, <1>19, <1>20, <1>21, <1>22, <1>23
  DEF Next, Step, Stopped

\* The sweep goes on exactly as long as no size aliases.
LEMMA SearchStep == DramAssumption /\ (TypeOK /\ Lock /\ Search) /\ [Next]_vars => Search'
<1> SUFFICES ASSUME DramAssumption, TypeOK /\ Lock /\ Search, [Next]_vars PROVE Search'
  OBVIOUS
<1> USE DEF DramAssumption, TypeOK, Points, Lock, Search, Refreshing, Written, Awake,
       Initialised, Initialising,
        Trained, Configured,
        hwVars, phyVars, regVars, locals, vars, At, Goto, DramcOps
<1>0. UNCHANGED phys => \A i : Aliases(i)' <=> Aliases(i)
  BY DEF Aliases
<1>1. CASE Firmware
  BY <1>1 DEF Firmware
<1>2. CASE Mpll
  BY <1>2 DEF Mpll
<1>3. CASE Reset
  BY <1>3 DEF Reset
<1>4. CASE Config
  BY <1>4 DEF Config
<1>5. CASE Load
  BY <1>5 DEF Load
<1>6. CASE Mail
  BY <1>6 DEF Mail
<1>7. CASE MailTimeout
  BY <1>7 DEF MailTimeout, Retry
<1>8. CASE Ack
  BY <1>8 DEF Ack, Retry
<1>9. CASE Result
  BY <1>9 DEF Result, Retry
<1>10. CASE PhyInit
  BY <1>10 DEF PhyInit, Start
<1>11. CASE PhyInitPoll
  BY <1>11 DEF PhyInitPoll, Retry
<1>12. CASE SelfRef
  BY <1>12 DEF SelfRef, Start
<1>13. CASE SelfRefPoll
  BY <1>13 DEF SelfRefPoll, Retry
<1>14. CASE MrSend
  BY <1>14 DEF MrSend, Start
<1>15. CASE MrDone
  BY <1>15 DEF MrDone
<1>16. CASE Bist
  BY <1>16 DEF Bist, Set, Start
<1>17. CASE BistPoll
  BY <1>17 DEF BistPoll, Retry
<1>18. CASE Restore
  BY <1>18 DEF Restore
<1>19. CASE SizeDetect
  <2>1. \A i \in 3..5 : Aliases(i) <=> phys < i
    BY FirstAlias
  <2>2. pc = "size" /\ ~protect /\ sz \in 3..6 /\ phys \in 2..5 /\ UNCHANGED phys
    BY <1>19 DEF SizeDetect
  <2>3. \A i \in 3..sz - 1 : ~Aliases(i) /\ i \in 3..5
    BY <2>2
  <2>4. sz - 1 <= phys
    BY <2>1, <2>2, <2>3
  <2>5. CASE sz < 6 /\ ~Aliases(sz)
    <3>1. pc' = "size" /\ sz' = sz + 1
      BY <1>19, <2>2, <2>5 DEF SizeDetect
    <3>2. \A i \in 3..sz : ~Aliases(i)'
      BY <2>2, <2>3, <2>5 DEF Aliases
    <3> QED  BY <2>2, <3>1, <3>2
  <2>6. CASE ~(sz < 6 /\ ~Aliases(sz))
    <3>1. pc' = "lock" /\ size' = sz - 1
      BY <1>19, <2>2, <2>6 DEF SizeDetect
    <3>2. phys <= sz - 1
      BY <2>1, <2>2, <2>6
    <3> QED  BY <2>2, <2>4, <3>1, <3>2
  <2> QED  BY <2>5, <2>6
<1>20. CASE Finish
  BY <1>20 DEF Finish
<1>21. CASE PhyMessage
  BY <1>0, <1>21 DEF PhyMessage
<1>22. ASSUME NEW o \in DramcOps \cup {"mpll"}, Complete(o) PROVE Search'
  BY <1>0, <1>22 DEF Complete
<1>23. CASE UNCHANGED vars
  BY <1>0, <1>23 DEF vars
<1> QED
  BY <1>1, <1>2, <1>3, <1>4, <1>5, <1>6, <1>7, <1>8, <1>9, <1>10, <1>11, <1>12, <1>13,
     <1>14, <1>15, <1>16, <1>17, <1>18, <1>19, <1>20, <1>21, <1>22, <1>23
  DEF Next, Step, Stopped

LEMMA StepInv == DramAssumption /\ IInv /\ [Next]_vars => IInv'
  BY TypeStep, LockStep, PartsStep, RegistersStep, LeftOverStep, SearchStep DEF IInv

\* IInv, and with it all it consists of, holds in every reachable state.
THEOREM Invariance == ASSUME DramAssumption PROVE Spec => []IInv
  BY InitInv, StepInv, PTL DEF Spec

\* What the controller, the PHY and init's locals hold keeps its type.
THEOREM TypeCorrect == ASSUME DramAssumption PROVE Spec => []TypeOK
<1>1. IInv => TypeOK
  BY DEF IInv
<1> QED  BY <1>1, Invariance, PTL

\* Whatever failed attempts left behind, init tests and hands over DRAM only
\* when every part was set up since the last reset, for any number of attempts
\* and of mode registers.
THEOREM UsedOnlyWhenUsable == ASSUME DramAssumption PROVE Spec => []UsableWhenUsed
<1>1. IInv => UsableWhenUsed
  BY DEF IInv, Parts, Registers, UsableWhenUsed, Usable, Refreshing, Written, Awake,
         Initialised,
         Initialising, Trained, Configured
<1> QED  BY <1>1, Invariance, PTL

\* The sweep of size_detect leaves the installed size in MAIN_CONF.
THEOREM SizeDetected == ASSUME DramAssumption PROVE Spec => []SizeRight
<1>1. IInv => SizeRight
  BY DEF IInv, Lock, Search, SizeRight
<1> QED  BY <1>1, Invariance, PTL

\* No operation of a failed attempt, nor its done bit, meets the next attempt.
THEOREM AttemptsApart == ASSUME DramAssumption PROVE Spec => []NoneLeftOver
<1>1. IInv => NoneLeftOver
  BY DEF IInv
<1> QED  BY <1>1, Invariance, PTL
=============================================================================

-------------------------------- MODULE Hace --------------------------------
(***************************************************************************)
(* The hash engine: `hash`, `hmac_sha256`, `run_hash`, `HashWaitFuture`    *)
(* and the interrupt handler (src/embassy-aspeed/src/hace.rs).             *)
(*                                                                         *)
(* There is one engine and one waker for all handles.  A wait ends when    *)
(* the engine is seen idle, whoever's operation it has finished.           *)
(***************************************************************************)
EXTENDS Naturals

CONSTANTS
  Hashers,  \* the tasks that hash
  NoOne     \* no task, a task whose hash is over

\* What the modules that use this one assume of the constants.
HaceAssumption == NoOne \notin Hashers

VARIABLES
  engine,    \* whose operation the engine executes (HASH_BUSY), or NoOne
  irqHace,   \* the interrupt is latched
  wakerHace, \* HACE_WAKER
  hpc,       \* hpc[t]: where the hash of t stands
  steps,     \* steps[t]: operations that are still to be started
  written,   \* history: written[t] is whether the engine finished the last one of t
  alone,     \* history: alone[t] is whether no other hash was under way since t began
  hready, hcur,  \* the run queue and the task being polled
  hisr       \* the handler runs

haceVars == <<engine, irqHace, wakerHace, hpc, steps, written, alone, hready, hcur, hisr>>

TypeOK ==
  /\ engine \in Hashers \cup {NoOne}
  /\ irqHace \in BOOLEAN /\ wakerHace \in Hashers \cup {NoOne}
  /\ hpc \in [Hashers -> {"idle", "start", "check", "register", "recheck", "pending", "over"}]
  /\ steps \in [Hashers -> 0..2]
  /\ written \in [Hashers -> BOOLEAN] /\ alone \in [Hashers -> BOOLEAN]
  /\ hready \subseteq Hashers /\ hcur \in Hashers \cup {NoOne}
  /\ hisr \in BOOLEAN

Init ==
  /\ engine = NoOne /\ irqHace = FALSE /\ wakerHace = NoOne
  /\ hpc = [t \in Hashers |-> "idle"] /\ steps = [t \in Hashers |-> 0]
  /\ written = [t \in Hashers |-> FALSE] /\ alone = [t \in Hashers |-> TRUE]
  /\ hready = Hashers /\ hcur = NoOne /\ hisr = FALSE

-----------------------------------------------------------------------------
(* The engine and the handler.                                             *)

\* An operation that was dropped runs to its end all the same.
Complete(dropped) ==
  /\ engine # NoOne
  /\ dropped = (hpc[engine] = "idle")
  /\ engine' = NoOne /\ irqHace' = TRUE
  /\ written' = [written EXCEPT ![engine] = ~dropped]
  /\ UNCHANGED <<wakerHace, hpc, steps, alone, hready, hcur, hisr>>

IsrEnter ==
  /\ ~hisr /\ irqHace
  /\ hisr' = TRUE
  /\ UNCHANGED <<engine, irqHace, wakerHace, hpc, steps, written, alone, hready, hcur>>

\* HACE clears the flags and wakes.
IsrWake ==
  /\ hisr
  /\ hisr' = FALSE /\ irqHace' = FALSE
  /\ hready' = hready \cup ({wakerHace} \ {NoOne})
  /\ UNCHANGED <<engine, wakerHace, hpc, steps, written, alone, hcur>>

-----------------------------------------------------------------------------
(* The tasks.                                                              *)

Running(t) == ~hisr /\ hcur = t
Goto(t, l) == hpc' = [hpc EXCEPT ![t] = l]

Poll(t) ==
  /\ ~hisr /\ hcur = NoOne /\ t \in hready
  /\ hcur' = t /\ hready' = hready \ {t}
  /\ IF hpc[t] = "pending" THEN Goto(t, "check") ELSE UNCHANGED hpc
  /\ UNCHANGED <<engine, irqHace, wakerHace, steps, written, alone, hisr>>

\* Another future of the task is woken, or its timeout.
OtherWake(t) ==
  /\ t \notin hready /\ hready' = hready \cup {t}
  /\ UNCHANGED <<engine, irqHace, wakerHace, hpc, steps, written, alone, hcur, hisr>>

\* A dropped hash is not taken back from the engine.
Cancel(t) ==
  /\ ~hisr /\ hcur = NoOne /\ t \in hready /\ hpc[t] = "pending"
  /\ hcur' = t /\ hready' = hready \ {t}
  /\ steps' = [steps EXCEPT ![t] = 0]
  /\ Goto(t, "idle")
  /\ UNCHANGED <<engine, irqHace, wakerHace, written, alone, hisr>>

Yield(t) ==
  /\ Running(t) /\ hpc[t] = "idle"
  /\ hcur' = NoOne
  /\ UNCHANGED <<engine, irqHace, wakerHace, hpc, steps, written, alone, hready, hisr>>

\* hash runs one operation, hmac_sha256 two: the key and the message.  Digest
\* buffers that are too small, too much data and a misaligned key return an
\* error before anything is touched.
Begin(t, n) ==
  /\ Running(t) /\ hpc[t] = "idle"
  /\ steps' = [steps EXCEPT ![t] = n]
  /\ alone' = [u \in Hashers |->
                 IF u = t THEN \A v \in Hashers \ {t} : hpc[v] = "idle" ELSE alone[u] /\ hpc[u] = "idle"]
  /\ Goto(t, "start")
  /\ UNCHANGED <<engine, irqHace, wakerHace, written, hready, hcur, hisr>>

Load(t) ==
  /\ engine' = t /\ irqHace' = FALSE
  /\ written' = [written EXCEPT ![t] = FALSE]
  /\ steps' = [steps EXCEPT ![t] = @ - 1]
  /\ Goto(t, "check")
  /\ UNCHANGED <<wakerHace, alone, hready, hcur, hisr>>

\* Mutant: the operation before may still be under way.
StartBusy(t) == Running(t) /\ hpc[t] = "start" /\ Load(t)

\* run_hash spins until the engine is idle, clears the flags and starts it.
Start(t) == Running(t) /\ hpc[t] = "start" /\ engine = NoOne /\ Load(t)

\* One look at HASH_BUSY.
Look(t, missed) ==
  \/ /\ engine = NoOne
     /\ irqHace' = FALSE
     /\ Goto(t, "over") /\ UNCHANGED hcur
  \/ /\ engine # NoOne
     /\ Goto(t, missed)
     /\ hcur' = IF missed = "pending" THEN NoOne ELSE hcur
     /\ UNCHANGED irqHace

Check(t) ==
  /\ Running(t) /\ hpc[t] = "check"
  /\ Look(t, "register")
  /\ UNCHANGED <<engine, wakerHace, steps, written, alone, hready, hisr>>

Register(t) ==
  /\ Running(t) /\ hpc[t] = "register"
  /\ wakerHace' = t
  /\ Goto(t, "recheck")
  /\ UNCHANGED <<engine, irqHace, steps, written, alone, hready, hcur, hisr>>

\* Mutant: the future does not look again once it has registered.
RecheckNothing(t) ==
  /\ Running(t) /\ hpc[t] = "recheck"
  /\ Goto(t, "pending") /\ hcur' = NoOne
  /\ UNCHANGED <<engine, irqHace, wakerHace, steps, written, alone, hready, hisr>>

Recheck(t) ==
  /\ Running(t) /\ hpc[t] = "recheck"
  /\ Look(t, "pending")
  /\ UNCHANGED <<engine, wakerHace, steps, written, alone, hready, hisr>>

\* The next operation of an HMAC, or the return.
Return(t) ==
  /\ Running(t) /\ hpc[t] = "over"
  /\ Goto(t, IF steps[t] > 0 THEN "start" ELSE "idle")
  /\ UNCHANGED <<engine, irqHace, wakerHace, steps, written, alone, hready, hcur, hisr>>

Next ==
  \/ \E dropped \in BOOLEAN : Complete(dropped)
  \/ IsrEnter \/ IsrWake
  \/ \E t \in Hashers :
       \/ Poll(t) \/ OtherWake(t) \/ Cancel(t) \/ Yield(t)
       \/ \E n \in 1..2 : Begin(t, n)
       \/ Start(t) \/ Check(t) \/ Register(t) \/ Recheck(t) \/ Return(t)

Spec == Init /\ [][Next]_haceVars

-----------------------------------------------------------------------------
(* Properties.                                                             *)

\* However hashes overlap and whatever was dropped before, a wait ends only
\* after the engine has written what its own operation was to write.
OwnDigest == \A t \in Hashers : hpc[t] = "over" => written[t]

\* A hash that met no other and has returned Pending while the engine is idle
\* has the interrupt still ahead of it or is in the run queue.
NoLostWakeup ==
  \A t \in Hashers : hpc[t] = "pending" /\ alone[t] /\ engine = NoOne => irqHace \/ hisr \/ t \in hready
=============================================================================

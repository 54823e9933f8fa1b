--------------------------------- MODULE Nor --------------------------------
(***************************************************************************)
(* A flash chip behind an SPI controller: `erase_sector`, `erase_block`,   *)
(* `write_page`, `reset_by_command` and `dma_read` of SpiBus               *)
(* (src/embassy-aspeed/src/spi.rs).                                        *)
(*                                                                         *)
(* Several tasks may have a bus instance for one chip.  A transfer in user *)
(* mode contains no await, so status, write enable and command follow each *)
(* other without another task between them; the waits for the chip do not. *)
(* The chip ignores what it is sent while it works, except a reset.        *)
(***************************************************************************)
EXTENDS Naturals

CONSTANTS
  Flashers, \* the tasks that erase, program and reset
  Readers,  \* the tasks that read by DMA
  Chip      \* none of them

\* What the modules that use this one assume of the constants.
NorAssumption == Chip \notin Flashers \cup Readers

VARIABLES
  wip,      \* whose command the chip executes, or Chip
  wel,      \* its write enable latch
  npc,      \* npc[t]: where the operation of t stands
  effect,   \* history: effect[t] is what became of the command of t
  calm,     \* history: calm[t] is whether no reset was sent since the operation of t began
  dma,      \* whose DMA transfer runs, or Chip
  dmaDone,  \* DMA_STATUS
  rpc,      \* rpc[t]: where the dma_read of t stands
  filled,   \* history: filled[t] is whether the transfer of t has ended
  quiet     \* history: quiet[t] is whether the engine was idle when the transfer of
            \* t was started and no other was started since

chipVars == <<wip, wel, npc, effect, calm>>
dmaVars == <<dma, dmaDone, rpc, filled, quiet>>
norVars == <<chipVars, dmaVars>>

TypeOK ==
  /\ wip \in Flashers \cup {Chip} /\ wel \in BOOLEAN
  /\ npc \in [Flashers -> {"idle", "before", "after", "reset", "settle", "over", "bad"}]
  /\ effect \in [Flashers -> {"none", "started", "whole"}]
  /\ calm \in [Flashers -> BOOLEAN]
  /\ dma \in Readers \cup {Chip} /\ dmaDone \in BOOLEAN
  /\ rpc \in [Readers -> {"idle", "start", "wait", "over", "bad"}]
  /\ filled \in [Readers -> BOOLEAN] /\ quiet \in [Readers -> BOOLEAN]

Init ==
  /\ wip = Chip /\ wel = FALSE
  /\ npc = [t \in Flashers |-> "idle"] /\ effect = [t \in Flashers |-> "none"]
  /\ calm = [t \in Flashers |-> TRUE]
  /\ dma = Chip /\ dmaDone = FALSE
  /\ rpc = [t \in Readers |-> "idle"] /\ filled = [t \in Readers |-> FALSE]
  /\ quiet = [t \in Readers |-> FALSE]

-----------------------------------------------------------------------------
(* The chip: erase, program and reset.                                     *)

\* The command is executed, and the latch falls.
ChipDone ==
  /\ wip # Chip
  /\ wip' = Chip /\ wel' = FALSE
  /\ effect' = [effect EXCEPT ![wip] = IF @ = "started" THEN "whole" ELSE @]
  /\ UNCHANGED <<npc, calm, dmaVars>>

Goto(t, l) == npc' = [npc EXCEPT ![t] = l]

\* An offset that is not aligned, a page that is crossed or data of a length
\* that does not fit is refused before anything is sent.
Begin(t, first) ==
  /\ npc[t] = "idle"
  /\ Goto(t, first)
  /\ effect' = [effect EXCEPT ![t] = "none"] /\ calm' = [calm EXCEPT ![t] = TRUE]
  /\ UNCHANGED <<wip, wel, dmaVars>>

\* write_enable and the command, to a chip in whatever state.
Send(t) ==
  /\ Goto(t, "after")
  /\ IF wip = Chip
     THEN wel' = TRUE /\ wip' = t /\ effect' = [effect EXCEPT ![t] = "started"]
     ELSE UNCHANGED <<wip, wel, effect>>
  /\ UNCHANGED <<calm, dmaVars>>

\* Mutant: the command is sent without waiting for the chip.
CommandAtOnce(t) == npc[t] = "before" /\ Send(t)

\* The chip is seen idle, and the command is sent without an await.
Command(t) == npc[t] = "before" /\ wip = Chip /\ Send(t)

\* Mutant: the end of the command is not awaited.
AfterAtOnce(t) ==
  /\ npc[t] = "after"
  /\ Goto(t, "over")
  /\ UNCHANGED <<wip, wel, effect, calm, dmaVars>>

\* The chip is seen idle after the command.
After(t) ==
  /\ npc[t] = "after" /\ wip = Chip
  /\ Goto(t, "over")
  /\ UNCHANGED <<wip, wel, effect, calm, dmaVars>>

\* reset_by_command does not wait for the chip: what it executes is cut short.
Reset(t) ==
  /\ npc[t] = "reset"
  /\ wip' = Chip /\ wel' = FALSE
  /\ calm' = [u \in Flashers |-> FALSE]
  /\ Goto(t, "settle")
  /\ UNCHANGED <<effect, dmaVars>>

\* WIP_POLL_US have passed, or the caller has its answer.
Return(t) ==
  /\ npc[t] \in {"settle", "over", "bad"}
  /\ Goto(t, "idle")
  /\ effect' = [effect EXCEPT ![t] = "none"]
  /\ UNCHANGED <<wip, wel, calm, dmaVars>>

\* An operation that awaits the chip is dropped; its command goes on.
Cancel(t) ==
  /\ npc[t] \in {"before", "after", "settle"}
  /\ Goto(t, "idle")
  /\ effect' = [effect EXCEPT ![t] = "none"]
  /\ UNCHANGED <<wip, wel, calm, dmaVars>>

-----------------------------------------------------------------------------
(* The DMA engine of the FMC.                                              *)

DmaEnd ==
  /\ dma # Chip
  /\ dma' = Chip /\ dmaDone' = TRUE
  /\ filled' = [filled EXCEPT ![dma] = (rpc[dma] = "wait")]
  /\ UNCHANGED <<chipVars, rpc, quiet>>

GotoR(t, l) == rpc' = [rpc EXCEPT ![t] = l]

BeginRead(t, first) ==
  /\ rpc[t] = "idle"
  /\ GotoR(t, first)
  /\ UNCHANGED <<chipVars, dma, dmaDone, filled, quiet>>

Launch(t) ==
  /\ rpc[t] = "start"
  /\ \/ dma' = t
     \/ dma # Chip /\ UNCHANGED dma
  /\ filled' = [filled EXCEPT ![t] = FALSE]
  /\ quiet' = [u \in Readers |-> u = t /\ dma = Chip]
  /\ GotoR(t, "wait")
  /\ UNCHANGED chipVars

\* Mutant: the done bit of an earlier transfer is left.
DmaStartUncleared(t) == Launch(t) /\ UNCHANGED dmaDone

\* The done bit is cleared and the transfer started.  An engine that is at
\* work takes the new transfer or ignores it.
DmaStart(t) == Launch(t) /\ dmaDone' = FALSE

\* The done bit is seen: the engine is stopped and the bit cleared.
DmaSeen(t) ==
  /\ rpc[t] = "wait" /\ dmaDone
  /\ dma' = Chip /\ dmaDone' = FALSE
  /\ GotoR(t, "over")
  /\ UNCHANGED <<chipVars, filled, quiet>>

\* ast2700_fmc_dma_read_sync gives up and stops the engine.
DmaTimeout(t) ==
  /\ rpc[t] = "wait" /\ ~dmaDone
  /\ dma' = Chip
  /\ GotoR(t, "bad")
  /\ UNCHANGED <<chipVars, dmaDone, filled, quiet>>

CancelRead(t) ==
  /\ rpc[t] = "wait"
  /\ GotoR(t, "idle") /\ quiet' = [quiet EXCEPT ![t] = FALSE]
  /\ UNCHANGED <<chipVars, dma, dmaDone, filled>>

ReturnRead(t) ==
  /\ rpc[t] \in {"over", "bad"}
  /\ GotoR(t, "idle") /\ quiet' = [quiet EXCEPT ![t] = FALSE]
  /\ UNCHANGED <<chipVars, dma, dmaDone, filled>>

Next ==
  \/ ChipDone \/ DmaEnd
  \/ \E t \in Flashers :
       \/ \E first \in {"before", "reset", "bad"} : Begin(t, first)
       \/ Command(t) \/ After(t) \/ Reset(t) \/ Return(t) \/ Cancel(t)
  \/ \E t \in Readers :
       \/ \E first \in {"start", "bad"} : BeginRead(t, first)
       \/ DmaStart(t) \/ DmaSeen(t) \/ DmaTimeout(t) \/ CancelRead(t) \/ ReturnRead(t)

Spec == Init /\ [][Next]_norVars

-----------------------------------------------------------------------------
(* Properties.                                                             *)

\* An erase or a page write that met no reset and returns Ok was executed to its
\* end, however many others overlap it or were dropped before it.
Performed == \A t \in Flashers : npc[t] = "over" /\ calm[t] => effect[t] = "whole"

\* A DMA read that met no other transfer and returns Ok has its data: the done
\* bit that an earlier transfer, dropped or given up, left is not taken for its own.
OwnData == \A t \in Readers : rpc[t] = "over" /\ quiet[t] => filled[t]
=============================================================================

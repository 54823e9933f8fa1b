-------------------------------- MODULE Emmc --------------------------------
(***************************************************************************)
(* The eMMC host (src/embassy-aspeed/src/emmc.rs): initialisation, which   *)
(* identifies the card, and copies, which read one block after another.    *)
(*                                                                         *)
(* `copy_async` takes &self: several tasks may copy, and one may start the *)
(* host anew, all through one set of registers.  A task sees a condition   *)
(* and acts on it without an await; between its waits others run, it may   *)
(* give up at a deadline, and it may be dropped.                           *)
(***************************************************************************)
EXTENDS Naturals, Sequences

CONSTANTS
  Copiers,  \* the tasks that copy
  Starter,  \* the task that calls init
  Bytes,    \* MMC_BLOCK_LEN
  MaxBytes, \* bound: the last byte that is copied, and the longest copy
  Tries,    \* how often identify sends CMD1
  NoBlock   \* no block, data that are not a block

EmmcAssumption == /\ {Bytes, MaxBytes, Tries} \subseteq Nat \ {0}
                  /\ Starter \notin Copiers

VARIABLES
  cmd,     \* the command under way: [by, idx], idx = 0 also after a reset; PRESENT_CMD_INHIBIT
  busy,    \* whether a command is under way
  dat,     \* the data lines: PRESENT_DAT_INHIBIT unless "free"
  block,   \* the block that the data lines carry or the buffer holds
  status,  \* SDHCI_INT_STATUS
  card,    \* the state of the card
  ocr,     \* the response to CMD1 says that the card is ready
  flags,   \* the response to CMD3 has its upper half set
  epc,     \* epc[t]: what t waits for
  step,    \* the command that identify sends, an index of Identify
  tries,   \* how often CMD1 was sent
  rca,     \* whether the starter uses the address that the card has
  src, left,  \* src[t], left[t]: offset and remaining
  scratch, \* scratch[t]: the block that its scratch buffer holds
  good     \* history: good[t] is whether each byte that t stored is the one asked for

hostVars == <<cmd, busy, dat, block, status, card, ocr, flags>>
copyVars == <<src, left, scratch, good>>
emmcVars == <<hostVars, epc, step, tries, rca, copyVars>>

Identify == <<0, 1, 2, 3, 7, 16>>
Blocks == 0..((2 * MaxBytes) \div Bytes)
Callers == Copiers \cup {Starter}

TypeOK ==
  /\ cmd \in [by : Callers, idx : {0, 1, 2, 3, 7, 16, 17}] /\ busy \in BOOLEAN
  /\ dat \in {"free", "asked", "loading", "full", "drained"} /\ block \in Blocks \cup {NoBlock}
  /\ status \subseteq {"cmd", "xfer", "buf", "error"}
  /\ card \in {"off", "idle", "ready", "ident", "stby", "tran", "sized"}
  /\ ocr \in BOOLEAN /\ flags \in BOOLEAN
  /\ epc \in [Callers -> {"idle", "reset", "inhibit", "cmd", "buf", "xfer", "over", "bad"}]
  /\ step \in 1..Len(Identify) /\ tries \in 0..Tries /\ rca \in BOOLEAN
  /\ src \in [Copiers -> 0..(2 * MaxBytes)] /\ left \in [Copiers -> 0..MaxBytes]
  /\ scratch \in [Copiers -> Blocks \cup {NoBlock}] /\ good \in [Copiers -> BOOLEAN]

Init ==
  /\ cmd = [by |-> Starter, idx |-> 0] /\ busy = FALSE
  /\ dat = "free" /\ block = NoBlock /\ status = {}
  /\ card = "off" /\ ocr = FALSE /\ flags = FALSE
  /\ epc = [t \in Callers |-> "idle"] /\ step = 1 /\ tries = 0 /\ rca = TRUE
  /\ src = [t \in Copiers |-> 0] /\ left = [t \in Copiers |-> 0]
  /\ scratch = [t \in Copiers |-> NoBlock] /\ good = [t \in Copiers |-> TRUE]

-----------------------------------------------------------------------------
(* The host controller and the card.                                       *)

\* What the card does with a command, and its state after it.
Accepts(idx) ==
  CASE idx = 0 -> card # "off"
    [] idx = 1 -> card = "idle"
    [] idx = 2 -> card = "ready"
    [] idx = 3 -> card = "ident"
    [] idx = 7 -> card = "stby" /\ rca
    [] idx = 16 -> card \in {"tran", "sized"}
    [] idx = 17 -> card = "sized"

After(idx) ==
  CASE idx = 0 -> {"idle"}
    [] idx = 1 -> {"idle", "ready"}
    [] idx = 2 -> {"ident"}
    [] idx = 3 -> {"stby"}
    [] idx = 7 -> {"tran"}
    [] OTHER -> {"sized"}

Respond ==
  /\ busy /\ Accepts(cmd.idx)
  /\ busy' = FALSE /\ status' = status \cup {"cmd"}
  /\ card' \in After(cmd.idx)
  /\ ocr' = IF cmd.idx = 1 THEN card' = "ready" ELSE ocr
  /\ flags' \in IF cmd.idx = 3 THEN BOOLEAN ELSE {flags}
  /\ dat' = IF dat = "asked" THEN "loading" ELSE dat
  /\ UNCHANGED <<cmd, block, epc, step, tries, rca, copyVars>>

\* No response, or one that is damaged.
Refuse ==
  /\ busy
  /\ busy' = FALSE /\ status' = status \cup {"error"}
  /\ dat' = IF dat = "asked" THEN "free" ELSE dat
  /\ UNCHANGED <<cmd, block, card, ocr, flags, epc, step, tries, rca, copyVars>>

Load ==
  /\ dat = "loading"
  /\ \/ dat' = "full" /\ status' = status \cup {"buf"}
     \/ dat' = "free" /\ status' = status \cup {"error"}
  /\ UNCHANGED <<cmd, busy, block, card, ocr, flags, epc, step, tries, rca, copyVars>>

Finish ==
  /\ dat = "drained"
  /\ dat' = "free" /\ status' = status \cup {"xfer"}
  /\ UNCHANGED <<cmd, busy, block, card, ocr, flags, epc, step, tries, rca, copyVars>>

-----------------------------------------------------------------------------
(* Waits that both use.                                                    *)

Goto(t, l) == epc' = [epc EXCEPT ![t] = l]

\* wait_int sees an error, clears what it saw and returns CommandFailed.
Failed(t) ==
  /\ epc[t] \in {"cmd", "buf", "xfer"} /\ "error" \in status
  /\ status' = {}
  /\ Goto(t, "bad")
  /\ UNCHANGED <<cmd, busy, dat, block, card, ocr, flags, step, tries, rca, copyVars>>

\* The deadline passes, or the loop ends: the command or transfer goes on.
Timeout(t) ==
  /\ epc[t] \in {"reset", "inhibit", "cmd", "buf", "xfer"}
  /\ Goto(t, "bad")
  /\ UNCHANGED <<hostVars, step, tries, rca, copyVars>>

\* A future is dropped at one of its waits.
Cancel(t) ==
  /\ epc[t] \in {"reset", "inhibit", "cmd", "buf", "xfer"}
  /\ Goto(t, "idle")
  /\ UNCHANGED <<hostVars, step, tries, rca, copyVars>>

Return(t) ==
  /\ epc[t] \in {"over", "bad"}
  /\ Goto(t, "idle")
  /\ UNCHANGED <<hostVars, step, tries, rca, copyVars>>

-----------------------------------------------------------------------------
(* init.                                                                   *)

\* The clocks run and the pins are set, and a controller answers; else
\* NoController.  Then reset_host starts a software reset.
Start(t) ==
  /\ \A u \in Callers : epc[u] = "idle"
  /\ Goto(t, "reset")
  /\ busy' = FALSE /\ dat' = "free" /\ status' = {} /\ block' = NoBlock
  /\ UNCHANGED <<cmd, card, ocr, flags, step, tries, rca, copyVars>>

\* The reset is over: status cleared, power and clock on, CMD0 is next.
PowerOn(t) ==
  /\ epc[t] = "reset"
  /\ Goto(t, "inhibit")
  /\ card' = IF card = "off" THEN "idle" ELSE card
  /\ status' = {} /\ step' = 1 /\ tries' = 0 /\ rca' = TRUE
  /\ UNCHANGED <<cmd, busy, dat, block, ocr, flags, copyVars>>

Send(t, idx) ==
  /\ cmd' = [by |-> t, idx |-> idx] /\ busy' = TRUE /\ status' = {}

\* cmd: the command line is free, the status is cleared and the command sent.
Command(t) ==
  /\ t = Starter /\ epc[t] = "inhibit" /\ ~busy
  /\ Send(t, Identify[step])
  /\ tries' = IF Identify[step] = 1 THEN tries + 1 ELSE tries
  /\ Goto(t, "cmd")
  /\ UNCHANGED <<dat, block, card, ocr, flags, step, rca, copyVars>>

\* The next command, CMD1 again while the card is not ready; 1000 of those
\* are a Timeout.
Advance(t) ==
  /\ rca' = IF Identify[step] = 3 THEN ~flags ELSE rca
  /\ \/ /\ Identify[step] = 1 /\ ~ocr
        /\ Goto(t, IF tries = Tries THEN "bad" ELSE "inhibit")
        /\ UNCHANGED step
     \/ /\ Identify[step] # 1 \/ ocr
        /\ IF step = Len(Identify)
           THEN Goto(t, "over") /\ UNCHANGED step
           ELSE Goto(t, "inhibit") /\ step' = step + 1
  /\ UNCHANGED <<cmd, busy, dat, block, card, ocr, flags, tries, copyVars>>

\* Mutant: a command that was sent is taken for done.
CompletedAtOnce(t) ==
  /\ t = Starter /\ epc[t] = "cmd"
  /\ status' = status \ {"cmd"}
  /\ Advance(t)

\* INT_CMD_COMPLETE is seen and cleared, and the response read.
Completed(t) ==
  /\ t = Starter /\ epc[t] = "cmd" /\ "error" \notin status /\ "cmd" \in status
  /\ status' = status \ {"cmd"}
  /\ Advance(t)

-----------------------------------------------------------------------------
(* copy.                                                                   *)

Copy(t, from, n) ==
  /\ epc[t] = "idle" /\ epc[Starter] = "idle" /\ card # "off"
  /\ src' = [src EXCEPT ![t] = from] /\ left' = [left EXCEPT ![t] = n]
  /\ good' = [good EXCEPT ![t] = TRUE] /\ scratch' = [scratch EXCEPT ![t] = NoBlock]
  /\ Goto(t, "inhibit")
  /\ UNCHANGED <<hostVars, step, tries, rca>>

\* CMD17 for the block of `offset`.  A host whose data lines are busy takes the
\* block or goes on with the one it has.
Read(t) ==
  /\ epc[t] = "inhibit" /\ ~busy
  /\ Send(t, 17)
  /\ \/ dat' = "asked" /\ block' = src[t] \div Bytes
     \/ dat # "free" /\ UNCHANGED <<dat, block>>
  /\ Goto(t, "cmd")
  /\ UNCHANGED <<card, ocr, flags, step, tries, rca, copyVars>>

\* Mutant: only the command line is waited for.
ReadBlockCmdOnly(t) == t \in Copiers /\ Read(t)

\* read_block waits for both lines.
ReadBlock(t) == t \in Copiers /\ dat = "free" /\ Read(t)

ReadSent(t) ==
  /\ t \in Copiers /\ epc[t] = "cmd" /\ "error" \notin status /\ "cmd" \in status
  /\ status' = status \ {"cmd"}
  /\ Goto(t, "buf")
  /\ UNCHANGED <<cmd, busy, dat, block, card, ocr, flags, step, tries, rca, copyVars>>

\* INT_BUF_READ_READY is seen and the buffer read.
Drain(t) ==
  /\ t \in Copiers /\ epc[t] = "buf" /\ "error" \notin status /\ "buf" \in status
  /\ status' = status \ {"buf"}
  /\ scratch' = [scratch EXCEPT ![t] = IF dat = "full" THEN block ELSE NoBlock]
  /\ dat' = IF dat = "full" THEN "drained" ELSE dat
  /\ Goto(t, "xfer")
  /\ UNCHANGED <<cmd, busy, block, card, ocr, flags, step, tries, rca, src, left, good>>

\* Mutant: a copy that starts inside a block takes a whole block.
PieceWhole(t) == IF left[t] < Bytes THEN left[t] ELSE Bytes

\* The number of bytes that are taken from a block.
Piece(t) == LET room == Bytes - (src[t] % Bytes) IN IF left[t] < room THEN left[t] ELSE room

\* INT_XFER_COMPLETE is seen, and the piece is stored: what lies past the end
\* of the block is not of it.
Store(t) ==
  /\ t \in Copiers /\ epc[t] = "xfer" /\ "error" \notin status /\ "xfer" \in status
  /\ status' = status \ {"xfer"}
  /\ LET n == Piece(t) IN
     /\ good' = [good EXCEPT ![t] = @ /\ scratch[t] = src[t] \div Bytes
                                      /\ (src[t] % Bytes) + n <= Bytes]
     /\ src' = [src EXCEPT ![t] = @ + n] /\ left' = [left EXCEPT ![t] = @ - n]
     /\ Goto(t, IF left[t] = n THEN "over" ELSE "inhibit")
  /\ UNCHANGED <<cmd, busy, dat, block, card, ocr, flags, step, tries, rca, scratch>>

Next ==
  \/ Respond \/ Refuse \/ Load \/ Finish
  \/ Start(Starter) \/ PowerOn(Starter) \/ Command(Starter) \/ Completed(Starter)
  \/ \E t \in Callers : Failed(t) \/ Timeout(t) \/ Cancel(t) \/ Return(t)
  \/ \E t \in Copiers :
       \/ \E from \in 0..(MaxBytes - 1), n \in 1..MaxBytes : Copy(t, from, n)
       \/ ReadBlock(t) \/ ReadSent(t) \/ Drain(t) \/ Store(t)

Spec == Init /\ [][Next]_emmcVars

-----------------------------------------------------------------------------
(* Properties.                                                             *)

\* A copy that returns Ok has stored the bytes it was asked for, whatever copies
\* were dropped or timed out before it, as long as there is one copier at a time.
CopiedRight == \A t \in Copiers : epc[t] = "over" => good[t] /\ left[t] = 0

\* An initialisation that returns Ok leaves a card that is selected and has its
\* block length.
Identified == epc[Starter] = "over" => card = "sized"
=============================================================================

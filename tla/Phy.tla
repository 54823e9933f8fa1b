--------------------------------- MODULE Phy --------------------------------
(***************************************************************************)
(* The DDR PHY under the DRAM bring-up (sdrammc.rs): its tables of writes  *)
(* (module PhyTables), and run_training_pass with the microcontroller that *)
(* trains the memory.  Module Dram takes a pass as one operation; here     *)
(* every write counts, because the bus to the PHY's memories and registers *)
(* belongs either to the host or to the microcontroller (MicroContMuxSel), *)
(* and the tables themselves hand it over.                                 *)
(***************************************************************************)
EXTENDS PhyTables, FiniteSets

CONSTANTS
  Attempts,  \* TRAINING_ATTEMPTS
  Words,     \* the words of an image; the first holds the message block
  MaxInfos,  \* bound: the messages of a run before the last
  ResetDrops \* a reset of the microcontroller withdraws its message

PhyAssumption == {Attempts, Words} \subseteq Nat \ {0} /\ MaxInfos \in Nat /\ ResetDrops \in BOOLEAN

VARIABLES
  ddr4,      \* the strap
  at, todo,  \* where the host stands, and the writes it makes first
  attempt, pass,
  mux,       \* 0xd0000: who owns the bus
  csr,       \* the registers that were written since the cold reset
  imem, dmem,  \* the memories of the microcontroller: word -> the pass it is of
  block,     \* the halves of the message block that differ from the image's
  mcu,       \* 0xd0099: "reset", "stall" or "run"
  fw, infos, \* the firmware: "work", "told", "taken" or "hung"; its messages so far
  mail, pending,  \* 0xd0032, and bit 0 of 0xd0004 inverted
  unread,    \* 0xd0031
  result,    \* the result in the message block
  verdict    \* the result that the host read

ramVars == <<csr, imem, dmem, block, result>>
mcuVars == <<mcu, fw, infos, mail, pending>>
hostVars == <<ddr4, at, todo, attempt, pass, verdict>>
phyVars == <<hostVars, mux, ramVars, mcuVars, unread>>

Passes == {"1d", "2d"}
Image(p) == [w \in 1..Words |-> p]
Junk == [w \in 1..Words |-> "junk"]

\* What the host writes: configuration, parameters of a pass, sequencer.
Config == IF ddr4 THEN PHY_CONFIG_DDR4 ELSE PHY_CONFIG_DDR5
Pie == IF ddr4 THEN PIE_DDR4 ELSE PIE_DDR5
MessageBlock(p) ==
  IF ~ddr4 THEN DMEM_MSG_DDR5_1D ELSE IF p = "1d" THEN DMEM_MSG_DDR4_1D ELSE DMEM_MSG_DDR4_2D

\* The byte of the block that the result is read from is zero.
Cleared(b) ==
  IF ddr4 THEN 10 \in DOMAIN b /\ b[10] % 256 = 0 ELSE 7 \in DOMAIN b /\ b[7] \div 256 = 0

Blob(to, p) == [w \in 1..Words |-> [to |-> to, val |-> p, word |-> w]]

\* Mutant: the parameters are written before the image that they are part of.
PrepareBlockFirst(p) ==
  <<Host>> \o Blob("imem", p) \o <<Mcu, Write("unread", TRUE), Host>>
  \o <<Head(MessageBlock(p))>> \o Blob("dmem", p)
  \o <<Mcu, Write("mcu", "reset"), Write("mcu", "stall"), Write("mcu", "run")>>

\* The instructions, then the data with the parameters over them, and the start.
Start == <<Write("mcu", "reset"), Write("mcu", "stall"), Write("mcu", "run")>>
Data(p) == Blob("dmem", p) \o (MessageBlock(p) \o Start)
Instructions(p) == Blob("imem", p) \o (<<Mcu, Write("unread", TRUE), Host>> \o Data(p))
Prepare(p) ==
  <<Host>> \o ((IF p = "1d" THEN <<Put(Master(\h60), 2)>> ELSE <<>>) \o Instructions(p))

\* Mutant: the result is read through a bus that the microcontroller owns.
FetchBlind == <<Write("mcu", "stall"), Put(Master(\h89), 0), Write("read", 0), Mcu>>

\* The microcontroller is stalled and the result read; the register is written
\* before the bus is the host's.
Fetch == <<Write("mcu", "stall"), Put(Master(\h89), 0), Host, Write("read", 0), Mcu>>

-----------------------------------------------------------------------------
TypeOK ==
  /\ ddr4 \in BOOLEAN /\ at \in {"idle", "config", "poll", "ack", "acked", "judge", "mission", "failed"}
  /\ attempt \in 0..Attempts /\ pass \in Passes
  /\ mux \in {"host", "mcu"} /\ (\A r \in DOMAIN csr : csr[r] \in 0..Code)
  /\ {imem, dmem} \subseteq [1..Words -> Passes \cup {"junk"}]
  /\ (\A h \in DOMAIN block : h < 1024 /\ block[h] < 65536) /\ mcu \in {"reset", "stall", "run"}
  /\ fw \in {"work", "told", "taken", "hung"} /\ infos \in 0..MaxInfos
  /\ mail \in {"none", "info", "done", "fail"} /\ pending \in BOOLEAN /\ unread \in BOOLEAN
  /\ {result, verdict} \subseteq {"none", "good", "bad", "junk"}

Init ==
  /\ ddr4 \in BOOLEAN /\ at = "idle" /\ todo = <<>> /\ attempt = 0 /\ pass = "1d"
  /\ mux = "mcu" /\ csr = <<>> /\ imem = Junk /\ dmem = Junk /\ block = <<>>
  /\ mcu = "stall" /\ fw = "hung" /\ infos = 0 /\ mail = "none" /\ pending = FALSE
  /\ unread = FALSE /\ result = "junk" /\ verdict = "none"

\* The cold reset of the PHY (MAIN_CTRL) and its configuration, in each attempt.
\* The reset gives the bus to the host; the memories keep what they hold.
Attempt ==
  /\ at \in {"idle", "failed"} /\ attempt < Attempts
  /\ attempt' = attempt + 1 /\ at' = "config" /\ pass' = "1d" /\ verdict' = "none"
  /\ mux' = "host" /\ csr' = <<>> /\ mcu' = "stall" /\ fw' = "hung" /\ infos' = 0
  /\ mail' = "none" /\ pending' = FALSE /\ unread' = TRUE
  /\ todo' = Config \o Prepare("1d")
  /\ UNCHANGED <<ddr4, imem, dmem, block, result>>

\* The memories and registers take a write only from the owner of the bus, and
\* show only it what they hold.
Owned == mux = "host"
Takes(x, w, to, new) == IF w.to = to /\ Owned THEN new ELSE x

WriteOne ==
  /\ todo # <<>> /\ todo' = Tail(todo)
  /\ LET w == Head(todo) IN
       /\ mux' = IF w.to = "mux" THEN w.val ELSE mux
       /\ unread' = IF w.to = "unread" THEN w.val ELSE unread
       /\ csr' = Takes(csr, w, "csr", Over([r \in w.val.regs |-> w.val.val], csr))
       /\ imem' = Takes(imem, w, "imem", [imem EXCEPT ![w.word] = w.val])
       /\ dmem' = Takes(dmem, w, "dmem", [dmem EXCEPT ![w.word] = w.val])
       /\ block' = IF Owned /\ w.to = "dmem" /\ w.word = 1 THEN <<>>
                   ELSE Takes(block, w, "block", Over(w.val, block))
       /\ result' = IF Owned /\ w.to = "block" /\ Cleared(w.val) THEN "none" ELSE result
       /\ verdict' = IF w.to # "read" THEN verdict ELSE IF Owned THEN result ELSE "junk"
       /\ mcu' = IF w.to = "mcu" THEN w.val ELSE mcu
       /\ IF w.to = "mcu" /\ w.val = "reset"
          THEN fw' = "work" /\ infos' = 0 /\ pending' = (pending /\ ~ResetDrops)
          ELSE UNCHANGED <<fw, infos, pending>>
  /\ at' = IF todo' = <<>> /\ at = "config" THEN "poll" ELSE at
  /\ UNCHANGED <<ddr4, attempt, pass, mail>>

-----------------------------------------------------------------------------
(* The firmware.                                                           *)

Runs == mcu = "run"

Tell(m) ==
  /\ Runs /\ fw = "work" /\ fw' = "told" /\ mail' = m /\ pending' = TRUE
  /\ IF m = "info" THEN infos < MaxInfos /\ infos' = infos + 1 ELSE UNCHANGED infos
  /\ IF m = "done" THEN result' \in {"good", "bad"} ELSE UNCHANGED result
  /\ UNCHANGED <<hostVars, mux, csr, imem, dmem, block, mcu, unread>>

\* It sees that its message was read, and later that the host is ready for more.
SeeRead ==
  /\ Runs /\ fw = "told" /\ ~unread /\ fw' = "taken" /\ pending' = FALSE
  /\ UNCHANGED <<hostVars, mux, ramVars, mcu, infos, mail, unread>>

SeeReady ==
  /\ Runs /\ fw = "taken" /\ unread /\ fw' = IF mail = "info" THEN "work" ELSE "hung"
  /\ UNCHANGED <<hostVars, mux, ramVars, mcu, infos, mail, pending, unread>>

Hang ==
  /\ Runs /\ fw' = "hung"
  /\ UNCHANGED <<hostVars, mux, ramVars, mcu, infos, mail, pending, unread>>

-----------------------------------------------------------------------------
(* The host while the firmware runs.                                       *)

At(x) == at = x /\ todo = <<>>

\* Mutant: every poll takes the message register for a message.
PollAnything ==
  /\ At("poll") /\ mail # "none"
  /\ at' = "ack" /\ unread' = FALSE /\ verdict' = "none"
  /\ UNCHANGED <<ddr4, todo, attempt, pass, mux, ramVars, mcuVars>>

\* A message is there: it is read and acknowledged.
Poll ==
  /\ At("poll") /\ pending
  /\ at' = "ack" /\ unread' = FALSE /\ verdict' = "none"
  /\ UNCHANGED <<ddr4, todo, attempt, pass, mux, ramVars, mcuVars>>

\* The firmware noticed, or a million reads have passed.
Ack ==
  /\ At("ack")
  /\ unread' = TRUE
  /\ at' = CASE mail = "info" -> "poll" [] mail = "done" -> "judge" [] OTHER -> "failed"
  /\ todo' = IF mail = "done" THEN Fetch ELSE todo
  /\ UNCHANGED <<ddr4, attempt, pass, verdict, mux, ramVars, mcuVars>>

\* The polls run out, whatever the firmware does meanwhile.
Timeout ==
  /\ At("poll") /\ at' = "failed"
  /\ UNCHANGED <<ddr4, todo, attempt, pass, verdict, mux, ramVars, mcuVars, unread>>

\* The verdict is judged: a second pass for DDR4, or the sequencer's code.
Judge ==
  /\ At("judge")
  /\ IF verdict # "good" THEN at' = "failed" /\ UNCHANGED <<todo, pass>>
     ELSE IF ddr4 /\ pass = "1d" THEN at' = "config" /\ todo' = Prepare("2d") /\ pass' = "2d"
     ELSE at' = "mission" /\ todo' = Pie /\ UNCHANGED pass
  /\ UNCHANGED <<ddr4, attempt, verdict, mux, ramVars, mcuVars, unread>>

Next ==
  \/ Attempt \/ WriteOne \/ Poll \/ Ack \/ Timeout \/ Judge
  \/ (\E m \in {"info", "done", "fail"} : Tell(m)) \/ SeeRead \/ SeeReady \/ Hang

Spec == Init /\ [][Next]_phyVars

-----------------------------------------------------------------------------
(* Properties.                                                             *)

\* What lane l of block b of a kind holds at an offset, if anything.
Holds(kind, b, l, reg) == {csr[r] : r \in Csr(kind, {b}, {l}, reg) \cap DOMAIN csr}

\* Both bytes of the data bus are set up alike, lane by lane.
BytesAlike == \A l \in 0..8, reg \in 0..255 : Holds(1, 0, l, reg) = Holds(1, 1, l, reg)

\* The access that the configuration opens is closed again.
Shut == \A r \in Everywhere(\h66) \cup Master(\hA6) : r \in DOMAIN csr /\ csr[r] = 0

\* The microcontroller runs only with the bus its own and with the image and the
\* parameters of the pass, whatever earlier passes and attempts left in its
\* memories, no old result among them, and on registers set up alike and shut.
RunsItsPass ==
  Runs => /\ mux = "mcu" /\ imem = Image(pass) /\ dmem = Image(pass)
          /\ block = MessageBlock(pass)[1].val
          /\ fw = "work" => result = "none"
          /\ BytesAlike /\ Shut

\* The instructions that the start vectors name were loaded.
VectorsLoaded ==
  \A v \in StartVectors \cap DOMAIN csr :
    \A r \in Instruction(csr[v]) : r \in DOMAIN csr /\ csr[r] = Code

\* The mode registers with the latencies, 0, 2 and 4, hold what the pass was
\* trained with once init writes its own (configure_mrs_ddr4).
MR0 == \h2150
MR2 == \h228
MR4 == 0
SameLatencies == block[\h2F] = MR0 /\ block[\h31] = MR2 /\ block[\h33] = MR4

\* The host goes on after a pass only with the result that the firmware of this
\* pass wrote, and to mission mode only with the sequencer's code loaded, its
\* vectors on it, and the memory trained for the latencies it is then given.
VerdictIsOwn ==
  /\ at = "judge" /\ todo = <<>> => mail = "done" /\ fw # "work" /\ verdict = result /\ block = MessageBlock(pass)[1].val
  /\ at = "mission" /\ todo = <<>> =>
       /\ result = "good" /\ BytesAlike /\ Shut
       /\ StartVectors \cap DOMAIN csr # {} /\ VectorsLoaded
       /\ ddr4 => pass = "2d" /\ SameLatencies
=============================================================================

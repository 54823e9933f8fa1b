------------------------------ MODULE Filters -------------------------------
(***************************************************************************)
(* The bus filters of the AST1060: the SPI monitor (spi_monitor.rs), which *)
(* blocks flash commands and writes to regions, and the SMBus filter       *)
(* (i2cfilter.rs), which blocks slave addresses.  Their calls are          *)
(* synchronous and their handlers touch no state of the calls, so that a   *)
(* call is one step; a register that is read and written back may be       *)
(* changed by the hardware in between.                                     *)
(***************************************************************************)
EXTENDS Naturals, FiniteSets

CONSTANTS
  Slots,      \* the slots of the command table
  Opcodes,
  Entries,    \* the number of entries of an address table
  Bits,       \* the regions of an entry
  Narrow,     \* 2^8, which `as u8` wraps at
  Unit,       \* the bytes of a region
  MaxSize,    \* bound: the sizes that are protected
  Buses,      \* the instances of the SMBus filter
  Addresses   \* the number of slave addresses, 2^7

FiltersAssumption == {Entries, Bits, Narrow, Unit, MaxSize, Addresses} \subseteq Nat \ {0}

Nothing == "nothing"
Events == {"cmd", "write", "read"}
Regions == 0..(Entries * Bits - 1)
Dirs == {0, 1}  \* write, read

VARIABLES
  pass,      \* ENGINE_CTRL: the passthrough bits and FILTER_EN, a set
  select,    \* the address table that is written
  table,     \* table["W"], table["R"]: the regions whose bit is set
  commands,  \* commands[s]: the opcode whose entry is valid, or Nothing
  pending,   \* IRQ_CTRL: the status of the events, cleared by writing 1
  size,      \* history: what protect_flash_region was last asked for, 0 otherwise
  word,      \* FilterTable: the bits of the default bitmap of each bus
  filter,    \* EN and CFG of each bus
  irqEn,     \* INT_EN of each bus
  mask,      \* GLOBAL_INT_EN
  granted    \* history: the addresses and directions that were allowed

engineVars == <<pass, select, table, commands, size>>
busVars == <<word, filter, irqEn, mask, granted>>
filtersVars == <<engineVars, pending, busVars>>

Init ==
  /\ pass = {} /\ select = "W" /\ table = [s \in {"W", "R"} |-> {}]
  /\ commands = [s \in Slots |-> Nothing] /\ size = 0
  /\ pending = {}
  /\ word = [b \in Buses |-> {}] /\ filter = [b \in Buses |-> FALSE]
  /\ irqEn = [b \in Buses |-> FALSE] /\ mask = {}
  /\ granted = [b \in Buses |-> {}]

-----------------------------------------------------------------------------
(* SPI monitor: passthrough and the tables.                                *)

SetPassthrough ==
  /\ \E bits \in SUBSET {"single", "multi"} : pass' = (pass \cap {"filter"}) \cup bits
  /\ UNCHANGED <<select, table, commands, size, pending, busVars>>

SetFilterEnable ==
  /\ pass' \in {pass \cup {"filter"}, pass \ {"filter"}}
  /\ UNCHANGED <<select, table, commands, size, pending, busVars>>

AllowCommand(s) ==
  /\ \E op \in Opcodes : commands' = [commands EXCEPT ![s] = op]
  /\ UNCHANGED <<pass, select, table, size, pending, busVars>>

BlockCommand(s) ==
  /\ commands' = [commands EXCEPT ![s] = Nothing]
  /\ UNCHANGED <<pass, select, table, size, pending, busVars>>

ClearCommandTable ==
  /\ commands' = [s \in Slots |-> Nothing]
  /\ UNCHANGED <<pass, select, table, size, pending, busVars>>

\* select_write_disable_table and select_read_enable_table.
SelectTable ==
  /\ select' \in {"W", "R"}
  /\ UNCHANGED <<pass, table, commands, size, pending, busVars>>

EntryOf(e) == (e * Bits)..(e * Bits + Bits - 1)

SetAddressTable(e) ==
  /\ \E bits \in {{}, EntryOf(e)} :
       table' = [table EXCEPT ![select] = (@ \ EntryOf(e)) \cup bits]
  /\ size' = IF select = "W" THEN 0 ELSE size
  /\ UNCHANGED <<pass, select, commands, pending, busVars>>

\* Mutant: the tail of the last, partial entry is forgotten.
CoveredNoTail(bytes) ==
  LET full == (((bytes + Unit - 1) \div Unit) \div Bits) % Narrow
  IN UNION {EntryOf(e) : e \in {x \in 0..(Entries - 1) : x < full}}

\* The regions that protect_flash_region sets: whole entries, whose number is
\* taken as u8, and a tail.
Covered(bytes) ==
  LET regions == (bytes + Unit - 1) \div Unit
      full == (regions \div Bits) % Narrow
      tail == regions % Bits
  IN (UNION {EntryOf(e) : e \in {x \in 0..(Entries - 1) : x < full}})
     \cup (IF full < Entries THEN (full * Bits)..(full * Bits + tail - 1) ELSE {})

\* The entries that it writes; bits beyond those stay.
Written(bytes) ==
  LET regions == (bytes + Unit - 1) \div Unit
      full == (regions \div Bits) % Narrow
  IN UNION {EntryOf(e) : e \in {x \in 0..(Entries - 1) : x < full \/ (x = full /\ regions % Bits # 0)}}

Protect(bytes) ==
  /\ select' = "W"
  /\ table' = [table EXCEPT !["W"] = (@ \ Written(bytes)) \cup Covered(bytes)]
  /\ size' = bytes
  /\ UNCHANGED <<pass, commands, pending, busVars>>

-----------------------------------------------------------------------------
(* SPI monitor: interrupts.                                                *)

Block ==
  /\ \E e \in Events \ pending : pending' = pending \cup {e}
  /\ UNCHANGED <<engineVars, busVars>>

\* clear_irq_status; and a read-modify-write of the other bits of IRQ_CTRL, by
\* set_irq_enable and set_push_pull, which writes back the status that it read
\* and so clears it too.
ModifyIrq ==
  /\ pending' = {}
  /\ UNCHANGED <<engineVars, busVars>>

-----------------------------------------------------------------------------
(* SMBus filter.                                                           *)

InitBus(b) ==
  /\ filter' = [filter EXCEPT ![b] = FALSE]
  /\ irqEn' = [irqEn EXCEPT ![b] = TRUE]
  /\ mask' = mask \cup {b}
  /\ UNCHANGED <<word, granted, engineVars, pending>>

Enable(b) ==
  /\ filter' \in {[filter EXCEPT ![b] = TRUE], [filter EXCEPT ![b] = FALSE]}
  /\ UNCHANGED <<word, irqEn, mask, granted, engineVars, pending>>

\* Mutant: the mask is written, not modified.
DisableAll(b) ==
  /\ filter' = [filter EXCEPT ![b] = FALSE]
  /\ irqEn' = [irqEn EXCEPT ![b] = FALSE]
  /\ mask' = {}
  /\ UNCHANGED <<word, granted, engineVars, pending>>

Disable(b) ==
  /\ filter' = [filter EXCEPT ![b] = FALSE]
  /\ irqEn' = [irqEn EXCEPT ![b] = FALSE]
  /\ mask' = mask \ {b}
  /\ UNCHANGED <<word, granted, engineVars, pending>>

\* PASS_ALL or pass_all, BLOCK_ALL or block_all.
Fill(b) ==
  /\ \/ /\ word' = [word EXCEPT ![b] = 0..(2 * Addresses - 1)]
        /\ granted' = [granted EXCEPT ![b] = (0..(Addresses - 1)) \X Dirs]
     \/ word' = [word EXCEPT ![b] = {}] /\ granted' = [granted EXCEPT ![b] = {}]
  /\ UNCHANGED <<filter, irqEn, mask, engineVars, pending>>

BitOf(addr, dir) == (addr % Addresses) * 2 + dir

\* What is not allowed keeps its bit.
AllowAddr(b, addr) ==
  /\ \E dirs \in SUBSET Dirs :
       /\ word' = [word EXCEPT ![b] = @ \cup {BitOf(addr, d) : d \in dirs}]
       /\ granted' = [granted EXCEPT ![b] = @ \cup ({addr} \X dirs)]
  /\ UNCHANGED <<filter, irqEn, mask, engineVars, pending>>

\* Mutant: only the write direction is blocked.
BlockAddrWrite(b, addr) ==
  /\ word' = [word EXCEPT ![b] = @ \ {BitOf(addr, 0)}]
  /\ granted' = [granted EXCEPT ![b] = @ \ ({addr} \X Dirs)]
  /\ UNCHANGED <<filter, irqEn, mask, engineVars, pending>>

BlockAddr(b, addr) ==
  /\ word' = [word EXCEPT ![b] = @ \ {BitOf(addr, d) : d \in Dirs}]
  /\ granted' = [granted EXCEPT ![b] = @ \ ({addr} \X Dirs)]
  /\ UNCHANGED <<filter, irqEn, mask, engineVars, pending>>

MonitorNext ==
  \/ SetPassthrough \/ SetFilterEnable \/ ClearCommandTable \/ SelectTable
  \/ \E s \in Slots : AllowCommand(s) \/ BlockCommand(s)
  \/ \E e \in 0..(Entries - 1) : SetAddressTable(e)
  \/ \E n \in 1..MaxSize : Protect(n)

BusNext ==
  \E b \in Buses : \/ InitBus(b) \/ Enable(b) \/ Disable(b) \/ Fill(b)
                   \/ \E addr \in 0..(Addresses - 1) : AllowAddr(b, addr) \/ BlockAddr(b, addr)

Next == MonitorNext \/ Block \/ ModifyIrq \/ BusNext
Spec == Init /\ [][Next]_filtersVars

-----------------------------------------------------------------------------
(* Properties.                                                             *)

TypeOK ==
  /\ pass \subseteq {"single", "multi", "filter"} /\ select \in {"W", "R"}
  /\ table \in [{"W", "R"} -> SUBSET Regions]
  /\ commands \in [Slots -> Opcodes \cup {Nothing}]
  /\ pending \subseteq Events /\ word \in [Buses -> SUBSET (0..(2 * Addresses - 1))]

\* After protect_flash_region the host can write no byte below the size that it
\* was given, as far as the table reaches.
Protected == \A r \in Regions : r * Unit < size => r \in table["W"]

\* A bus lets through what was allowed since it was last blocked and nothing
\* else, and its interrupt is in the global mask while it is enabled.
BusesFiltered ==
  /\ \A b \in Buses : /\ word[b] = {BitOf(p[1], p[2]) : p \in granted[b]}
                      /\ irqEn[b] <=> b \in mask
=============================================================================

------------------------------- MODULE PhyTables -------------------------------
(***************************************************************************)
(* The tables of writes to the DDR PHY (sdrammc.rs): its configuration,    *)
(* the message block of each training pass and the programs of its         *)
(* sequencers.  A table is a sequence of steps; a step writes one value to *)
(* a set of registers.  Registers that repeat over the blocks of the PHY   *)
(* are written as such a set: the two bytes of the data bus (each with the *)
(* lanes 0..8), the ten blocks of the address bus and the master block.    *)
(***************************************************************************)
EXTENDS Naturals, Sequences

Write(to, val) == [to |-> to, val |-> val, word |-> 0]
Put(regs, val) == Write("csr", [regs |-> regs, val |-> val])

\* The word address of a register: its kind of block, block, lane and offset.
Csr(kind, blocks, lanes, reg) ==
  {65536 * kind + 4096 * b + 256 * l + reg : b \in blocks, l \in lanes}

Master(reg) == Csr(2, {0}, {0}, reg)
Bytes(reg) == Csr(1, 0..1, {0}, reg)
Nibbles(reg) == Csr(1, 0..1, 0..1, reg)
Address(reg) == Csr(0, 0..9, {0}, reg)
Clock(reg) == Csr(0, {5}, {0}, reg)
Everywhere(reg) == Master(reg) \cup Bytes(reg) \cup Address(reg)

\* Mutant: the entries of the second byte are lost.
DelaysOneByte(reg) == Csr(1, {0}, 0..8, reg)
Delays(reg) == Csr(1, 0..1, 0..8, reg)

\* Registers of the master block and their values; registers in a row.
Masters(pairs) == [i \in DOMAIN pairs |-> Put(Master(pairs[i][1]), pairs[i][2])]
Row(first, vals) == [i \in DOMAIN vals |-> Put({first + i - 1}, vals[i])]

\* Words of a program, which the properties do not tell apart.
Code == 65536
Program(first, words) == Put(first..(first + words - 1), Code)

Host == Write("mux", "host")
Mcu == Write("mux", "mcu")

\* What f writes over what g holds.
Over(f, g) == [x \in DOMAIN f \cup DOMAIN g |-> IF x \in DOMAIN f THEN f[x] ELSE g[x]]

-----------------------------------------------------------------------------
(* The configuration for DDR4.                                             *)

Open4 == <<Put(Master(\hA6), 2), Put(Everywhere(\h66), 0)>>

Slew4 == <<Put(Everywhere(\h29), \hC4), Put(Nibbles(\h5F), 0),
           Put(Address(\h55) \ Clock(\h55), \h11E), Put(Clock(\h55), \h15A)>>

Pll4 == Masters(<< <<\h8C, \h372>>, <<\hC5, \h19>>, <<\hC7, \h61>>, <<\hCA, \h400F>>,
                   <<\hCC, \hD2>>, <<\h2E, 1>>, <<\h51, 0>>, <<\h24, 8>>, <<\h3A, 2>> >>)

Drive4 == <<Put(Nibbles(\h4D), 4), Put(Address(\h43), \hCFFF), Put(Nibbles(\h41), \h30C),
            Put(Nibbles(\h49), \hFFF), Put(Nibbles(\h4B), 0)>>

Receive4 ==
  Masters(<< <<\h18, 1>>, <<\h75, 2>>, <<\h50, \h82>>, <<8, \h320>>, <<\h88, 9>>,
             <<\hB2, \hF8>> >>)
  \o <<Put(Nibbles(\h43), \h2500), Put(Bytes(\h4C), \h1C), Put({\h42}, 0), Put({\h42}, 0)>>

Ratio4 ==
  Masters(<< <<\h19, 5>>, <<\hF0, \h5555>>, <<\hF1, \h5555>>, <<\hF2, \h5555>>,
             <<\hF3, \h5555>>, <<\hF4, \h5555>>, <<\hF5, \h5555>>, <<\hF6, \h5555>>,
             <<\hF7, \hF000>>, <<\h0B, \h64>>, <<\h0C, \hC8>>, <<\h0D, \h2BC>>,
             <<\h0E, \h2C>> >>)
  \o <<Put(Bytes(\h4A), \h500), Put(Master(\h25), 0), Put({\h90307}, 0),
       Put(Master(\h2D), 0), Put(Master(\h40), 0)>>

Gate4 == <<Put(Everywhere(\h66), 1)>>

Gated4 == <<Put(Master(\hEA), \h1080), Put({\hC0086}, 1), Put(Master(\h2B), \h9820),
            Put(Everywhere(\h2B) \ Master(\h2B), \h8020)>>

\* Mutant: the gates that the configuration opened stay open.
Ungate4Never == <<>>
Ungate4 == <<Put(Everywhere(\h66), 0)>>

Delays4 == <<Put(Delays(\h40), \h3F), Put(Delays(\h30), \h3F), Put(Delays(\h50), \h3F),
             Put(Delays(\h60), \h3F)>>

Close4 == <<Put(Master(\hFA), 1), Put(Master(\hA6), 0), Put({\h28}, \hC)>>

PHY_CONFIG_DDR4 ==
  Open4 \o Slew4 \o Pll4 \o Drive4 \o Receive4 \o Ratio4 \o Gate4 \o Gated4 \o Ungate4
  \o Delays4 \o Close4

-----------------------------------------------------------------------------
(* The configuration for DDR5.                                             *)

Open5 == <<Put(Master(\hA6), 2), Put(Everywhere(\h66), 0)>>

Slew5 == <<Put(Everywhere(\h29), \h58), Put({\h90301}, \h59), Put({\h90302}, \h58)>>

Edge5 == <<Put(Nibbles(\h5F), 0), Put(Address(\h55) \ Clock(\h55), \h1BE), Put(Clock(\h55), 0)>>

Pll5 == Masters(<< <<\h8C, \h300>>, <<\hC5, \h19>>, <<\hC7, \h21>>, <<\hCA, \h402F>>,
                   <<\hCC, \h17F>>, <<\h2E, 1>>, <<\h51, 0>>, <<\h24, \h88>>, <<\hA1, \h701>>,
                   <<\hA2, 0>>, <<\hFE, \hF5>>, <<\hFC, \hF5>>, <<\hFD, \hF5>>, <<\h3A, 2>> >>)

Drive5 == <<Put(Nibbles(\h4D), \h82), Put(Address(\h43), \hCFFF), Put(Nibbles(\h41), \h30C),
            Put(Nibbles(\h49), \h79E), Put(Nibbles(\h4B), 0)>>

Receive5 ==
  Masters(<< <<\h18, 1>>, <<\h75, \h10>>, <<\h50, \h82>>, <<8, \h320>>, <<\h88, 9>>,
             <<\hB2, \hF8>> >>)
  \o <<Put(Nibbles(\h43), \h2900), Put(Bytes(\h4C), \h1C)>>

Ratio5 ==
  Masters(<< <<\h19, 5>>, <<\hF0, 0>>, <<\hF1, 0>>, <<\hF2, \h4444>>, <<\hF3, \h8888>>,
             <<\hF4, \h5555>>, <<\hF5, 0>>, <<\hF6, 0>>, <<\hF7, \hF000>>, <<\h0B, \h64>>,
             <<\h0C, \hC8>>, <<\h0D, \h2BC>>, <<\h0E, \h2C>> >>)
  \o <<Put(Bytes(\h4A), \h500), Put(Master(\h25), 0)>>

\* The registers that the two channels of DDR5 have each.
Channel5(ch) ==
  LET at == \h20100 + ch * \h20 IN
    Row(at, <<\h80E, \h80E>>) \o Row(at + 4, <<\h80E>>) \o Row(at + 2, <<\h80C, \h80C>>)
    \o Row(at + 5, <<\h80E>>) \o Row(at + \hE, <<\h321>>)

Channels5 ==
  <<Put({\h2019A}, \h18)>> \o Row(\h400F5, <<\h1200, \h10>>) \o Channel5(1) \o Channel5(2)
  \o <<Put({\h90307}, 0), Put(Master(\h40), 1)>>

Gate5 == <<Put(Everywhere(\h66), 1)>>

Gated5 == <<Put(Master(\hEA), \h1080), Put({\hC0086}, 1), Put(Master(\h2B), \h9820),
            Put(Everywhere(\h2B) \ Master(\h2B), \h8020)>>

Ungate5 == <<Put(Everywhere(\h66), 0)>>

Delays5 == <<Put(Delays(\h40), \h3F), Put(Delays(\h30), \h3F), Put(Delays(\h50), \h3F),
             Put(Delays(\h60), \h3F)>>

Close5 == <<Put(Master(\hFA), 1), Put(Bytes(\hAA), 0), Put(Master(\hA6), 0),
            Put({\h28}, \hC), Put(Csr(0, {4}, {0}, \h28), 8), Put(Csr(0, 6..9, {0}, \h28), \hF)>>

PHY_CONFIG_DDR5 ==
  Open5 \o Slew5 \o Edge5 \o Pll5 \o Drive5 \o Receive5 \o Ratio5 \o Channels5 \o Gate5
  \o Gated5 \o Ungate5 \o Delays5 \o Close5

-----------------------------------------------------------------------------
(* The message blocks, by the 16-bit halves from 0x58000 on, low one first. *)

Zero(first, last) == [h \in first..last |-> 0]
Halves(first, vals) == [h \in first..(first + Len(vals) - 1) |-> vals[h - first + 1]]

Header4 ==
  Over(Halves(3, <<\hC80>>),
       Over(Halves(6, <<\h240, \h1000, 1>>), Over(Halves(12, <<\hC8>>), Halves(18, <<2>>))))

\* The mode registers 0 to 6 that the firmware trains with.
Modes4 == Halves(\h2F, <<\h2150, \h101, \h228, \h400, 0, \h500, \h104F>>)

Terms4 == [h \in \h43..\h6A |-> \hF0F]

Common4 == Over(Header4, Over(Modes4, Terms4))

\* Mutant: the write of the result's word is left out.
Block4Stale(first, fields) ==
  [h \in (first..511) \ {10, 11} |-> Over(fields, Over(Common4, Zero(first, 511)))[h]]

Block4(first, fields) == Over(fields, Over(Common4, Zero(first, 511)))

\* Mutant: the table is regenerated without its last entry.
DMEM_MSG_DDR4_1D_Cut ==
  <<Write("block", Block4(0, Over(Halves(0, <<\h100>>), Halves(11, <<\h31F>>))))>>

DMEM_MSG_DDR4_1D ==
  <<Write("block", Block4(0, Over(Halves(0, <<\h100>>), Halves(11, <<\h31F>>)))), Mcu>>

DMEM_MSG_DDR4_2D ==
  <<Write("block", Block4(2, Over(Halves(11, <<\h61>>), Halves(14, <<\h8020>>)))), Mcu>>

Header5 ==
  Over(Halves(0, <<\h100>>),
       Over(Halves(3, <<\hC80>>),
            Over(Halves(6, <<\h40, 0, \h827F, \hC8>>),
                 Over(Halves(11, <<\h102, 1, \h1000>>), Halves(18, <<\h110>>)))))

Modes(a, b, c) == <<a, 0, \h20, \h800, \h2D00, \hD62D, 0, 3, b, c, \h2C00, \h2C2C>>

\* Four ranks of each channel, 19 halves apart.
Ranks(first, modes) ==
  LET other(i) == Halves(first + 19 * i, Modes(\h408, 0, \h411)) IN
    Over(Halves(first, modes), Over(other(1), Over(other(2), other(3))))

Ranks5 == Over(Ranks(\h2F, Modes(\h8408, \h424, \h499)), Ranks(\hA5, Modes(\h408, 0, \h411)))

Lanes5 == Over(Halves(\hFE, <<\h60, \hA0>>), [h \in {\h100, \h180, \h200, \h280} |-> 1])

Levels5 == [h \in \h300..\h327 |-> \h1717]

Block5 == Over(Header5, Over(Ranks5, Over(Lanes5, Over(Levels5, Zero(0, \h3FF)))))

DMEM_MSG_DDR5_1D == <<Write("block", Block5), Mcu>>

-----------------------------------------------------------------------------
(* The programs of the sequencers.  An instruction of the PHY's init engine *)
(* has three words; the start vectors number the instructions.  The bus is *)
(* the host's while a program is loaded.                                   *)

Instruction(n) == (\h90029 + 3 * n)..(\h90029 + 3 * n + 2)
StartVectors == {\h90017, \h9001F, \h90026}

Enter4 == <<Put(Master(\hA6), 2), Program(\h90000, 6)>>

\* Mutant: the instructions are cut off before the one that a vector names.
Engine4Short == <<Program(\h90029, 168)>>
Engine4 == <<Program(\h90029, 207)>>

Vectors4 == <<Program(\h90006, 6), Put({\hD00E7}, \h400), Put({\h90017}, 0), Put({\h90026}, \h38)>>

Arm4 ==
  Row(\h9000C, <<0, \h173, \h60, \h6110, \h2152, \hDFBD, \hFFFF, \h6152>>)
  \o Masters(<< <<\h6D, 1>>, <<\hE8, \hFFF>>, <<\h89, 1>>, <<\h88, \h19>>, <<\hA6, 0>> >>)
  \o <<Put({\hC0080}, 0)>>

PIE_DDR4 == <<Host>> \o ((Enter4 \o Engine4 \o Vectors4 \o Arm4) \o <<Mcu>>)

Enter5 == <<Put(Master(\hA6), 2), Program(\h90000, 6)>>

\* The commands to the memory, of each channel.
CommandsA5 == <<Program(\h41000, 552)>>
CommandsB5 == <<Program(\h42000, 552)>>

Engine5 == <<Program(\h90029, 273)>>

Vectors5 ==
  <<Program(\h90006, 6), Put({\hD00E7}, \h400), Put({\h20240, \h20241}, \h4300),
    Put({\h20242, \h20243}, \h8944), Put({\h90017}, 0), Put({\h9001F}, \h36),
    Put({\h90026}, \h4D)>>

Flags5 ==
  Row(\h9000C, <<0, \h173, \h60, \h6110, \h2152, \hDFBD, \h8060, \h6152>>)

Arm5 ==
  Row(\h20010, <<0, 3>>)
  \o <<Put({\h20281}, 1), Put(Master(\h3B), 2), Put(Master(\h41), \h131F),
       Put({\h20131}, \hE), Put({\h20151}, \hF), Put({\h90306}, 2),
       Put({\h2012A, \h2014A}, 2), Put({\h20126, \h20146}, \h7FF),
       Put({\h20127, \h20147}, 1)>>
  \o Masters(<< <<\h89, 1>>, <<\h88, \h19>>, <<\hA6, 0>> >>)
  \o <<Put({\hC0080}, 0)>>

PIE_DDR5 ==
  <<Host>>
  \o ((Enter5 \o CommandsA5 \o CommandsB5 \o Engine5 \o Vectors5 \o Flags5 \o Arm5) \o <<Mcu>>)
=============================================================================

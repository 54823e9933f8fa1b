------------------------------- MODULE PhyProof ------------------------------
(***************************************************************************)
(* The DDR PHY as a part of the platform: for images of any size and any   *)
(* number of attempts, the microcontroller trains only what its pass was   *)
(* given, and the host believes only what the firmware of the pass said.   *)
(*                                                                         *)
(* The tables of writes are taken as a whole: which sets of registers they *)
(* write at all, and which writes come last.  The invariant says what is   *)
(* left to write: each program is a sequence of stages, and what a stage   *)
(* has done stays done in the next.                                        *)
(***************************************************************************)
EXTENDS MCPlatform, SequenceTheorems, TLAPS

-----------------------------------------------------------------------------
(* The tables of the DDR PHY.                                              *)

\* The registers that shut the access, and where lane l of the first byte of the
\* data bus holds the register at an offset; the second byte holds it 4096 further.
Gates == Ph!Everywhere(\h66) \cup Ph!Master(\hA6)
Lane(l, reg) == 65536 + 256 * l + reg

\* The registers that a sequencer starts with: its vectors and its instructions.
Boot == Ph!StartVectors \cup (\h90029..\h90139)

\* Sets of registers with the lanes of both bytes or of none, and of those the ones
\* that no sequencer starts with, and those that are no gates either.
Even == {R \in SUBSET Nat : \A l \in 0..8 : \A reg \in 0..255 :
                              Lane(l, reg) \in R <=> Lane(l, reg) + 4096 \in R}
Unstarted == {R \in Even : R \cap Boot = {}}
Plain == {R \in Unstarted : R \cap Gates = {}}

\* The values, and the writes of them to such sets.
Values == 0..65536
Writes(Rs) == {Ph!Put(R, v) : R \in Rs, v \in Values}

\* Sets of even sets are even.
LEMMA EvenSets ==
  ASSUME NEW R \in Even, NEW S \in Even
  PROVE  R \cup S \in Even /\ R \ S \in Even
  BY DEF Even

\* A register of the gates is one of these.
LEMMA GateNumbers ==
  ASSUME NEW r \in Gates
  PROVE  /\ r \in Nat /\ r < 131239
         /\ r = 131238 \/ r = 131174 \/ r \in {65638, 69734} \/ \E b \in 0..9 : r = 4096 * b + 102
  BY DEF Gates, Ph!Everywhere, Ph!Master, Ph!Bytes, Ph!Address, Ph!Csr

\* Registers outside the data bus are even by themselves.
LEMMA Singles ==
  ASSUME NEW R \in SUBSET Nat, \A r \in R : r < 65536 \/ r >= 73728
  PROVE  R \in Even
<1> SUFFICES ASSUME NEW l \in 0..8, NEW reg \in 0..255
             PROVE  Lane(l, reg) \notin R /\ Lane(l, reg) + 4096 \notin R
  BY DEF Even
<1>1. Lane(l, reg) \in 65536..67839
  BY DEF Lane
<1> QED  BY <1>1

\* So are the blocks of the address bus and the master block, and the lanes of the
\* data bus where both bytes are named.
LEMMA Blocks ==
  ASSUME NEW reg \in 0..255
  PROVE  /\ Ph!Master(reg) \in Even /\ Ph!Address(reg) \in Even /\ Ph!Clock(reg) \in Even
         /\ Ph!Bytes(reg) \in Even /\ Ph!Nibbles(reg) \in Even /\ Ph!Delays(reg) \in Even
         /\ Ph!Everywhere(reg) \in Even
<1>1. Ph!Master(reg) \in Even
  <2>1. Ph!Master(reg) = {131072 + reg}
    BY DEF Ph!Master, Ph!Csr
  <2> QED  BY <2>1, Singles
<1>2. \A B \in SUBSET (0..9) : Ph!Csr(0, B, {0}, reg) \in Even
  <2> SUFFICES ASSUME NEW B \in SUBSET (0..9) PROVE Ph!Csr(0, B, {0}, reg) \in Even
    OBVIOUS
  <2>1. \A r \in Ph!Csr(0, B, {0}, reg) : r \in Nat /\ r < 65536
    BY DEF Ph!Csr
  <2> QED  BY <2>1, Singles
<1>3. \A L \in SUBSET (0..8) : Ph!Csr(1, 0..1, L, reg) \in Even
  <2> SUFFICES ASSUME NEW L \in SUBSET (0..8) PROVE Ph!Csr(1, 0..1, L, reg) \in Even
    OBVIOUS
  <2> DEFINE R == Ph!Csr(1, 0..1, L, reg)
  <2>1. \A r : r \in R <=> \E b \in 0..1 : \E l \in L : r = 65536 + 4096 * b + 256 * l + reg
    BY DEF Ph!Csr
  <2>2. R \in SUBSET Nat
    BY <2>1
  <2> HIDE DEF R
  <2>3. ASSUME NEW l \in 0..8, NEW g \in 0..255
        PROVE  Lane(l, g) \in R <=> l \in L /\ g = reg
    BY <2>1 DEF Lane
  <2>4. ASSUME NEW l \in 0..8, NEW g \in 0..255
        PROVE  Lane(l, g) + 4096 \in R <=> l \in L /\ g = reg
    BY <2>1 DEF Lane
  <2>5. R \in Even
    BY <2>2, <2>3, <2>4 DEF Even
  <2> QED  BY <2>5 DEF R
<1>4. Ph!Address(reg) \in Even /\ Ph!Clock(reg) \in Even
  BY <1>2 DEF Ph!Address, Ph!Clock
<1>5. Ph!Bytes(reg) \in Even /\ Ph!Nibbles(reg) \in Even /\ Ph!Delays(reg) \in Even
  BY <1>3 DEF Ph!Bytes, Ph!Nibbles, Ph!Delays
<1>6. Ph!Everywhere(reg) \in Even
  BY <1>1, <1>4, <1>5, EvenSets DEF Ph!Everywhere
<1> QED  BY <1>1, <1>4, <1>5, <1>6

\* The offsets that are no gate's. Registers at these are no gates.
Offsets == (0..255) \ {102, 166}

LEMMA PlainBlocks ==
  ASSUME NEW reg \in Offsets
  PROVE  /\ Ph!Master(reg) \in Plain /\ Ph!Address(reg) \in Plain /\ Ph!Clock(reg) \in Plain
         /\ Ph!Bytes(reg) \in Plain /\ Ph!Nibbles(reg) \in Plain /\ Ph!Delays(reg) \in Plain
         /\ Ph!Everywhere(reg) \in Plain /\ Ph!Address(reg) \ Ph!Clock(reg) \in Plain
         /\ Ph!Everywhere(reg) \ Ph!Master(reg) \in Plain
<1> reg \in 0..255 /\ reg # 102 /\ reg # 166
  BY DEF Offsets
<1>1. \A r \in Gates : r % 256 \in {102, 166}
  BY GateNumbers
<1>2. \A r \in Boot : r > 131328
  BY DEF Boot, Ph!StartVectors
<1>3. Ph!Master(reg) = {131072 + reg} /\ (131072 + reg) % 256 = reg
  BY DEF Ph!Master, Ph!Csr
<1>4. \A r \in Ph!Address(reg) \cup Ph!Clock(reg) : r \in Nat /\ r % 256 = reg /\ r < 131328
  BY DEF Ph!Address, Ph!Clock, Ph!Csr
<1>5. \A r \in Ph!Bytes(reg) \cup Ph!Nibbles(reg) \cup Ph!Delays(reg) :
        r \in Nat /\ r % 256 = reg /\ r < 131328
  BY DEF Ph!Bytes, Ph!Nibbles, Ph!Delays, Ph!Csr
<1>6. ASSUME NEW R \in Even, \A r \in R : r \in Nat /\ r % 256 = reg /\ r < 131328
      PROVE  R \in Plain
  <2>1. ASSUME NEW r \in R PROVE r \notin Gates /\ r \notin Boot
    <3>1. r \in Nat /\ r % 256 = reg /\ r < 131328
      BY <1>6, <2>1
    <3>2. r \notin Boot
      BY <1>2, <3>1
    <3>3. r \notin Gates
      BY <1>1, <3>1
    <3> QED  BY <3>2, <3>3
  <2>2. R \cap Gates = {} /\ R \cap Boot = {}
    BY <2>1
  <2> QED  BY <1>6, <2>2 DEF Plain, Unstarted
<1>7. ASSUME NEW R \in {Ph!Master(reg), Ph!Address(reg), Ph!Clock(reg), Ph!Bytes(reg), Ph!Nibbles(reg),
                        Ph!Delays(reg)}
      PROVE  R \in Plain
  <2>1. R \in Even
    BY Blocks
  <2>2. \A r \in R : r \in Nat /\ r % 256 = reg /\ r < 131328
    BY <1>3, <1>4, <1>5
  <2> QED  BY <1>6, <2>1, <2>2
<1>8. Ph!Address(reg) \ Ph!Clock(reg) \in Plain
  <2>1. Ph!Address(reg) \ Ph!Clock(reg) \in Even
    BY Blocks, EvenSets
  <2> QED  BY <2>1, <1>4, <1>6
<1>9. Ph!Everywhere(reg) \in Plain /\ Ph!Everywhere(reg) \ Ph!Master(reg) \in Plain
  <2>1. \A r \in Ph!Everywhere(reg) : r \in Nat /\ r % 256 = reg /\ r < 131328
    BY <1>3, <1>4, <1>5 DEF Ph!Everywhere
  <2>2. Ph!Everywhere(reg) \in Even /\ Ph!Everywhere(reg) \ Ph!Master(reg) \in Even
    BY Blocks, EvenSets
  <2> QED  BY <1>6, <2>1, <2>2
<1> QED  BY <1>7, <1>8, <1>9

\* So are other registers, each by itself, and the memories of the sequencers.
LEMMA PlainSingles ==
  ASSUME NEW R \in SUBSET Nat, \A r \in R : r > 131238, R \cap Boot = {}
  PROVE  R \in Plain
<1>1. R \in Even
  BY Singles
<1>2. R \cap Gates = {}
  BY GateNumbers
<1> QED  BY <1>1, <1>2 DEF Plain, Unstarted

\* Two registers of the address bus that are written by themselves.
LEMMA PlainAddress == {\h28} \in Plain /\ {\h42} \in Plain
<1>1. {\h28} \in Even /\ {\h42} \in Even
  BY Singles
<1>2. \A r \in {\h28, \h42} : r \notin Gates /\ r \notin Boot
  BY GateNumbers DEF Boot, Ph!StartVectors
<1> QED  BY <1>1, <1>2 DEF Plain, Unstarted

\* Rows of registers, tables of the master block.
LEMMA PlainRows ==
  ASSUME NEW base \in Nat, NEW vals \in Seq(Values), base > 131238,
         \A v \in Boot : v < base \/ v >= base + Len(vals)
  PROVE  Ph!Row(base, vals) \in Seq(Writes(Plain)) /\ Len(Ph!Row(base, vals)) = Len(vals)
<1>0. DOMAIN vals = 1..Len(vals) /\ Len(vals) \in Nat
  BY LenProperties
<1>1. ASSUME NEW i \in 1..Len(vals) PROVE Ph!Put({base + i - 1}, vals[i]) \in Writes(Plain)
  <2> DEFINE r == base + i - 1
  <2>1. r \in Nat /\ r > 131238 /\ ~(r < base) /\ ~(r >= base + Len(vals))
    BY <1>0
  <2> HIDE DEF r
  <2>2. r \notin Boot
    BY <2>1
  <2>3. {r} \in Plain
    BY <2>1, <2>2, PlainSingles
  <2>4. vals[i] \in Values
    BY ElementOfSeq
  <2>5. Ph!Put({r}, vals[i]) \in Writes(Plain)
    BY <2>3, <2>4 DEF Writes
  <2> QED  BY <2>5 DEF r
<1> QED  BY <1>0, <1>1, IsASeq DEF Ph!Row

LEMMA PlainMasters ==
  ASSUME NEW pairs \in Seq(Offsets \X Values)
  PROVE  Ph!Masters(pairs) \in Seq(Writes(Plain)) /\ Len(Ph!Masters(pairs)) = Len(pairs)
<1>1. ASSUME NEW i \in 1..Len(pairs) PROVE Ph!Put(Ph!Master(pairs[i][1]), pairs[i][2]) \in Writes(Plain)
  <2>1. pairs[i] \in Offsets \X Values
    BY ElementOfSeq
  <2>2. Ph!Master(pairs[i][1]) \in Plain
    BY <2>1, PlainBlocks
  <2> QED  BY <2>1, <2>2 DEF Writes
<1>2. DOMAIN pairs = 1..Len(pairs) /\ Len(pairs) \in Nat
  BY LenProperties
<1> QED  BY <1>1, <1>2, IsASeq DEF Ph!Masters

\* A write of a value to such a set.
LEMMA PutPlain ==
  ASSUME NEW R \in Plain, NEW v \in Values
  PROVE  Ph!Put(R, v) \in Writes(Plain)
  BY DEF Writes

\* What a write is made of; a plain one leaves the gates and what a sequencer starts
\* with alone.
LEMMA PutParts ==
  ASSUME NEW R, NEW v
  PROVE  Ph!Put(R, v).to = "csr" /\ Ph!Put(R, v).val.regs = R /\ Ph!Put(R, v).val.val = v
  BY DEF Ph!Put, Ph!Write

LEMMA WriteParts ==
  ASSUME NEW Rs, NEW w \in Writes(Rs)
  PROVE  w.to = "csr" /\ w.val.regs \in Rs /\ w.val.val \in Values
  BY PutParts DEF Writes

LEMMA PlainApart ==
  ASSUME NEW w \in Writes(Plain), NEW r \in Gates \cup Boot
  PROVE  r \notin w.val.regs
<1>1. w.val.regs \in Plain
  BY WriteParts
<1> QED  BY <1>1 DEF Plain, Unstarted

\* Plain writes are writes that no sequencer starts with.
LEMMA PlainWrites == Writes(Plain) \subseteq Writes(Unstarted) /\ Writes(Unstarted) \subseteq Writes(Even)
  BY DEF Writes, Plain, Unstarted

\* The offsets and the values in the tables.
LEMMA OffsetsUsed ==
  /\ \h29 \in Offsets /\ \h5F \in Offsets /\ \h55 \in Offsets /\ \h8C \in Offsets
  /\ \hC5 \in Offsets /\ \hC7 \in Offsets /\ \hCA \in Offsets /\ \hCC \in Offsets
  /\ \h2E \in Offsets /\ \h51 \in Offsets /\ \h24 \in Offsets /\ \h3A \in Offsets
  /\ \h4D \in Offsets /\ \h43 \in Offsets /\ \h41 \in Offsets /\ \h49 \in Offsets
  /\ \h4B \in Offsets /\ \h4C \in Offsets /\ \h18 \in Offsets /\ \h75 \in Offsets
  /\ \h50 \in Offsets /\ 8 \in Offsets /\ \h88 \in Offsets /\ \hB2 \in Offsets /\ \h4A \in Offsets
  /\ \h25 \in Offsets /\ \h2D \in Offsets /\ \h40 \in Offsets /\ \h19 \in Offsets
  /\ \hF0 \in Offsets /\ \hF1 \in Offsets /\ \hF2 \in Offsets /\ \hF3 \in Offsets
  /\ \hF4 \in Offsets /\ \hF5 \in Offsets /\ \hF6 \in Offsets /\ \hF7 \in Offsets
  /\ \h0B \in Offsets /\ \h0C \in Offsets /\ \h0D \in Offsets /\ \h0E \in Offsets
  /\ \hEA \in Offsets /\ \h2B \in Offsets /\ \h30 \in Offsets /\ \h60 \in Offsets
  /\ \hA1 \in Offsets /\ \hA2 \in Offsets /\ \hFE \in Offsets /\ \hFC \in Offsets
  /\ \hFD \in Offsets /\ \hFA \in Offsets /\ \hAA \in Offsets /\ \h6D \in Offsets
  /\ \hE8 \in Offsets /\ \h89 \in Offsets /\ \h3B \in Offsets
  BY DEF Offsets

LEMMA ValuesUsed ==
  /\ \hC4 \in Values /\ 0 \in Values /\ \h11E \in Values /\ \h15A \in Values /\ \h372 \in Values
  /\ \h19 \in Values /\ \h61 \in Values /\ \h400F \in Values /\ \hD2 \in Values /\ 1 \in Values
  /\ 8 \in Values /\ 2 \in Values /\ 4 \in Values /\ \hCFFF \in Values /\ \h30C \in Values
  /\ \hFFF \in Values /\ \h2500 \in Values /\ \h1C \in Values /\ \h82 \in Values
  /\ \h320 \in Values /\ 9 \in Values /\ \hF8 \in Values /\ \h500 \in Values /\ 5 \in Values
  /\ \h5555 \in Values /\ \hF000 \in Values /\ \h64 \in Values /\ \hC8 \in Values
  /\ \h2BC \in Values /\ \h2C \in Values /\ \h1080 \in Values /\ \h9820 \in Values
  /\ \h8020 \in Values /\ \h3F \in Values /\ \h58 \in Values /\ \h59 \in Values
  /\ \h1BE \in Values /\ \h300 \in Values /\ \h21 \in Values /\ \h402F \in Values
  /\ \h17F \in Values /\ \h88 \in Values /\ \h701 \in Values /\ \hF5 \in Values
  /\ \h79E \in Values /\ \h2900 \in Values /\ \h10 \in Values /\ \h4444 \in Values
  /\ \h8888 \in Values /\ \hC \in Values /\ \h400 \in Values /\ \h38 \in Values
  /\ \h4300 \in Values /\ \h8944 \in Values /\ \h36 \in Values /\ \h4D \in Values
  /\ \h131F \in Values /\ \hE \in Values /\ \hF \in Values /\ \h7FF \in Values /\ \h18 \in Values
  /\ 65536 \in Values
<1>1. /\ \hC4 \in Values /\ 0 \in Values /\ \h11E \in Values /\ \h15A \in Values
      /\ \h372 \in Values /\ \h19 \in Values /\ \h61 \in Values /\ \h400F \in Values
      /\ \hD2 \in Values /\ 1 \in Values /\ 8 \in Values /\ 2 \in Values /\ 4 \in Values
      /\ \hCFFF \in Values /\ \h30C \in Values /\ \hFFF \in Values
  BY DEF Values
<1>2. /\ \h2500 \in Values /\ \h1C \in Values /\ \h82 \in Values /\ \h320 \in Values
      /\ 9 \in Values /\ \hF8 \in Values /\ \h500 \in Values /\ 5 \in Values /\ \h5555 \in Values
      /\ \hF000 \in Values /\ \h64 \in Values /\ \hC8 \in Values /\ \h2BC \in Values
      /\ \h2C \in Values /\ \h1080 \in Values /\ \h9820 \in Values
  BY DEF Values
<1>3. /\ \h8020 \in Values /\ \h3F \in Values /\ \h58 \in Values /\ \h59 \in Values
      /\ \h1BE \in Values /\ \h300 \in Values /\ \h21 \in Values /\ \h402F \in Values
      /\ \h17F \in Values /\ \h88 \in Values /\ \h701 \in Values /\ \hF5 \in Values
      /\ \h79E \in Values /\ \h2900 \in Values /\ \h10 \in Values /\ \h4444 \in Values
  BY DEF Values
<1>4. /\ \h8888 \in Values /\ \hC \in Values /\ \h400 \in Values /\ \h38 \in Values
      /\ \h4300 \in Values /\ \h8944 \in Values /\ \h36 \in Values /\ \h4D \in Values
      /\ \h131F \in Values /\ \hE \in Values /\ \hF \in Values /\ \h7FF \in Values
      /\ \h18 \in Values /\ 65536 \in Values
  BY DEF Values
<1> QED  BY <1>1, <1>2, <1>3, <1>4

\* The sets of registers in the tables: all but the gates and what a sequencer
\* starts with.
LEMMA SetsUsed ==
  /\ Ph!Everywhere(\h29) \in Plain /\ Ph!Nibbles(\h5F) \in Plain
  /\ Ph!Address(\h55) \ Ph!Clock(\h55) \in Plain /\ Ph!Clock(\h55) \in Plain
  /\ Ph!Nibbles(\h4D) \in Plain /\ Ph!Address(\h43) \in Plain /\ Ph!Nibbles(\h41) \in Plain
  /\ Ph!Nibbles(\h49) \in Plain /\ Ph!Nibbles(\h4B) \in Plain /\ Ph!Nibbles(\h43) \in Plain
  /\ Ph!Bytes(\h4C) \in Plain /\ Ph!Bytes(\h4A) \in Plain /\ Ph!Master(\h25) \in Plain
  /\ Ph!Master(\h2D) \in Plain /\ Ph!Master(\h40) \in Plain /\ Ph!Master(\hEA) \in Plain
  /\ Ph!Master(\h2B) \in Plain /\ Ph!Everywhere(\h2B) \ Ph!Master(\h2B) \in Plain
  /\ Ph!Delays(\h40) \in Plain /\ Ph!Delays(\h30) \in Plain /\ Ph!Delays(\h50) \in Plain
  /\ Ph!Delays(\h60) \in Plain /\ Ph!Master(\hFA) \in Plain /\ Ph!Bytes(\hAA) \in Plain
  /\ Ph!Master(\h3B) \in Plain /\ Ph!Master(\h41) \in Plain
<1>1. /\ Ph!Everywhere(\h29) \in Plain /\ Ph!Nibbles(\h5F) \in Plain
      /\ Ph!Address(\h55) \ Ph!Clock(\h55) \in Plain /\ Ph!Clock(\h55) \in Plain
      /\ Ph!Nibbles(\h4D) \in Plain /\ Ph!Address(\h43) \in Plain /\ Ph!Nibbles(\h41) \in Plain
  BY OffsetsUsed, PlainBlocks, Zenon
<1>2. /\ Ph!Nibbles(\h49) \in Plain /\ Ph!Nibbles(\h4B) \in Plain /\ Ph!Nibbles(\h43) \in Plain
      /\ Ph!Bytes(\h4C) \in Plain /\ Ph!Bytes(\h4A) \in Plain /\ Ph!Master(\h25) \in Plain
      /\ Ph!Master(\h2D) \in Plain /\ Ph!Master(\h40) \in Plain /\ Ph!Master(\hEA) \in Plain
  BY OffsetsUsed, PlainBlocks, Zenon
<1>3. /\ Ph!Master(\h2B) \in Plain /\ Ph!Everywhere(\h2B) \ Ph!Master(\h2B) \in Plain
      /\ Ph!Delays(\h40) \in Plain /\ Ph!Delays(\h30) \in Plain /\ Ph!Delays(\h50) \in Plain
      /\ Ph!Delays(\h60) \in Plain /\ Ph!Master(\hFA) \in Plain /\ Ph!Bytes(\hAA) \in Plain
      /\ Ph!Master(\h3B) \in Plain /\ Ph!Master(\h41) \in Plain
  BY OffsetsUsed, PlainBlocks, Zenon
<1> QED  BY <1>1, <1>2, <1>3

LEMMA NumbersUsed ==
  /\ {\h90307} \in Plain /\ {\hC0086} \in Plain /\ {\h90301} \in Plain /\ {\h90302} \in Plain
  /\ {\hC0080} \in Plain /\ {\hD00E7} \in Plain /\ {\h20240, \h20241} \in Plain
  /\ {\h20242, \h20243} \in Plain /\ {\h20281} \in Plain /\ {\h20131} \in Plain
  /\ {\h20151} \in Plain /\ {\h90306} \in Plain /\ {\h2012A, \h2014A} \in Plain
  /\ {\h20126, \h20146} \in Plain /\ {\h20127, \h20147} \in Plain /\ {\h2019A} \in Plain
<1>1. ASSUME NEW R \in SUBSET Nat, \A r \in R : r > 131238 /\ r # \h90017 /\ r # \h9001F /\ r # \h90026
                                          /\ ~(r \in \h90029..\h90139)
      PROVE  R \in Plain
  <2>1. R \cap Boot = {}
    BY <1>1 DEF Boot, Ph!StartVectors
  <2> QED  BY <1>1, <2>1, PlainSingles
<1> QED  BY <1>1

\* The parts of the configurations that leave the gates alone.
LEMMA PlainTables4 ==
  /\ Ph!Slew4 \in Seq(Writes(Plain)) /\ Ph!Pll4 \in Seq(Writes(Plain))
  /\ Ph!Drive4 \in Seq(Writes(Plain)) /\ Ph!Receive4 \in Seq(Writes(Plain))
  /\ Ph!Ratio4 \in Seq(Writes(Plain)) /\ Ph!Gated4 \in Seq(Writes(Plain))
  /\ Ph!Delays4 \in Seq(Writes(Plain))
<1> DEFINE W == Writes(Plain)
<1> HIDE DEF W
<1>1. \A R \in Plain, v \in Values : Ph!Put(R, v) \in W
  BY PutPlain DEF W
<1>2. \A pairs \in Seq(Offsets \X Values) : Ph!Masters(pairs) \in Seq(W)
  BY PlainMasters DEF W
<1>3. Ph!Slew4 \in Seq(W)
  BY <1>1, SetsUsed, ValuesUsed DEF Ph!Slew4
<1>4. Ph!Pll4 \in Seq(W)
  <2> DEFINE p == << <<\h8C, \h372>>, <<\hC5, \h19>>, <<\hC7, \h61>>, <<\hCA, \h400F>>, <<\hCC, \hD2>>,
                <<\h2E, 1>>, <<\h51, 0>>, <<\h24, 8>>, <<\h3A, 2>> >>
  <2>1. p \in Seq(Offsets \X Values)
    BY OffsetsUsed, ValuesUsed
  <2>2. Ph!Pll4 = Ph!Masters(p)
    BY DEF Ph!Pll4
  <2> HIDE DEF p
  <2> QED  BY <1>2, <2>1, <2>2
<1>5. Ph!Drive4 \in Seq(W)
  BY <1>1, SetsUsed, ValuesUsed DEF Ph!Drive4
<1>6. Ph!Receive4 \in Seq(W)
  <2> DEFINE p == << <<\h18, 1>>, <<\h75, 2>>, <<\h50, \h82>>, <<8, \h320>>, <<\h88, 9>>,
                <<\hB2, \hF8>> >>
           t == <<Ph!Put(Ph!Nibbles(\h43), \h2500), Ph!Put(Ph!Bytes(\h4C), \h1C),
                   Ph!Put({\h42}, 0), Ph!Put({\h42}, 0)>>
  <2>1. p \in Seq(Offsets \X Values)
    BY OffsetsUsed, ValuesUsed
  <2>2. t \in Seq(W)
    BY <1>1, SetsUsed, PlainAddress, ValuesUsed
  <2>3. Ph!Receive4 = Ph!Masters(p) \o t
    BY DEF Ph!Receive4
  <2> HIDE DEF p, t
  <2> QED  BY <1>2, <2>1, <2>2, <2>3, ConcatProperties
<1>7. Ph!Ratio4 \in Seq(W)
  <2> DEFINE p == << <<\h19, 5>>, <<\hF0, \h5555>>, <<\hF1, \h5555>>, <<\hF2, \h5555>>,
                <<\hF3, \h5555>>, <<\hF4, \h5555>>, <<\hF5, \h5555>>, <<\hF6, \h5555>>,
                <<\hF7, \hF000>>, <<\h0B, \h64>>, <<\h0C, \hC8>>, <<\h0D, \h2BC>>,
                <<\h0E, \h2C>> >>
           t == <<Ph!Put(Ph!Bytes(\h4A), \h500), Ph!Put(Ph!Master(\h25), 0), Ph!Put({\h90307}, 0),
                   Ph!Put(Ph!Master(\h2D), 0), Ph!Put(Ph!Master(\h40), 0)>>
  <2>1. p \in Seq(Offsets \X Values)
    BY OffsetsUsed, ValuesUsed
  <2>2. t \in Seq(W)
    BY <1>1, SetsUsed, NumbersUsed, ValuesUsed
  <2>3. Ph!Ratio4 = Ph!Masters(p) \o t
    BY DEF Ph!Ratio4
  <2> HIDE DEF p, t
  <2> QED  BY <1>2, <2>1, <2>2, <2>3, ConcatProperties
<1>8. Ph!Gated4 \in Seq(W)
  BY <1>1, SetsUsed, NumbersUsed, ValuesUsed DEF Ph!Gated4
<1>9. Ph!Delays4 \in Seq(W)
  BY <1>1, SetsUsed, ValuesUsed DEF Ph!Delays4
<1> QED  BY <1>3, <1>4, <1>5, <1>6, <1>7, <1>8, <1>9 DEF W

LEMMA PlainTables5 ==
  /\ Ph!Slew5 \in Seq(Writes(Plain)) /\ Ph!Edge5 \in Seq(Writes(Plain))
  /\ Ph!Pll5 \in Seq(Writes(Plain)) /\ Ph!Drive5 \in Seq(Writes(Plain))
  /\ Ph!Receive5 \in Seq(Writes(Plain)) /\ Ph!Ratio5 \in Seq(Writes(Plain))
  /\ Ph!Gated5 \in Seq(Writes(Plain)) /\ Ph!Delays5 \in Seq(Writes(Plain))
<1> DEFINE W == Writes(Plain)
<1> HIDE DEF W
<1>1. \A R \in Plain, v \in Values : Ph!Put(R, v) \in W
  BY PutPlain DEF W
<1>2. \A pairs \in Seq(Offsets \X Values) : Ph!Masters(pairs) \in Seq(W)
  BY PlainMasters DEF W
<1>3. Ph!Slew5 \in Seq(W)
  BY <1>1, SetsUsed, NumbersUsed, ValuesUsed DEF Ph!Slew5
<1>4. Ph!Edge5 \in Seq(W)
  BY <1>1, SetsUsed, ValuesUsed DEF Ph!Edge5
<1>5. Ph!Pll5 \in Seq(W)
  <2> DEFINE p == << <<\h8C, \h300>>, <<\hC5, \h19>>, <<\hC7, \h21>>, <<\hCA, \h402F>>, <<\hCC, \h17F>>,
                <<\h2E, 1>>, <<\h51, 0>>, <<\h24, \h88>>, <<\hA1, \h701>>, <<\hA2, 0>>,
                <<\hFE, \hF5>>, <<\hFC, \hF5>>, <<\hFD, \hF5>>, <<\h3A, 2>> >>
  <2>1. p \in Seq(Offsets \X Values)
    BY OffsetsUsed, ValuesUsed
  <2>2. Ph!Pll5 = Ph!Masters(p)
    BY DEF Ph!Pll5
  <2> HIDE DEF p
  <2> QED  BY <1>2, <2>1, <2>2
<1>6. Ph!Drive5 \in Seq(W)
  BY <1>1, SetsUsed, ValuesUsed DEF Ph!Drive5
<1>7. Ph!Receive5 \in Seq(W)
  <2> DEFINE p == << <<\h18, 1>>, <<\h75, \h10>>, <<\h50, \h82>>, <<8, \h320>>, <<\h88, 9>>,
                <<\hB2, \hF8>> >>
           t == <<Ph!Put(Ph!Nibbles(\h43), \h2900), Ph!Put(Ph!Bytes(\h4C), \h1C)>>
  <2>1. p \in Seq(Offsets \X Values)
    BY OffsetsUsed, ValuesUsed
  <2>2. t \in Seq(W)
    BY <1>1, SetsUsed, ValuesUsed
  <2>3. Ph!Receive5 = Ph!Masters(p) \o t
    BY DEF Ph!Receive5
  <2> HIDE DEF p, t
  <2> QED  BY <1>2, <2>1, <2>2, <2>3, ConcatProperties
<1>8. Ph!Ratio5 \in Seq(W)
  <2> DEFINE p == << <<\h19, 5>>, <<\hF0, 0>>, <<\hF1, 0>>, <<\hF2, \h4444>>, <<\hF3, \h8888>>,
                <<\hF4, \h5555>>, <<\hF5, 0>>, <<\hF6, 0>>, <<\hF7, \hF000>>, <<\h0B, \h64>>,
                <<\h0C, \hC8>>, <<\h0D, \h2BC>>, <<\h0E, \h2C>> >>
           t == <<Ph!Put(Ph!Bytes(\h4A), \h500), Ph!Put(Ph!Master(\h25), 0)>>
  <2>1. p \in Seq(Offsets \X Values)
    BY OffsetsUsed, ValuesUsed
  <2>2. t \in Seq(W)
    BY <1>1, SetsUsed, NumbersUsed, ValuesUsed
  <2>3. Ph!Ratio5 = Ph!Masters(p) \o t
    BY DEF Ph!Ratio5
  <2> HIDE DEF p, t
  <2> QED  BY <1>2, <2>1, <2>2, <2>3, ConcatProperties
<1>9. Ph!Gated5 \in Seq(W)
  BY <1>1, SetsUsed, NumbersUsed, ValuesUsed DEF Ph!Gated5
<1>10. Ph!Delays5 \in Seq(W)
  BY <1>1, SetsUsed, ValuesUsed DEF Ph!Delays5
<1> QED  BY <1>3, <1>4, <1>5, <1>6, <1>7, <1>8, <1>9, <1>10 DEF W

\* Rows of registers are plain if no sequencer starts with one of them.
LEMMA PlainRow ==
  ASSUME NEW base \in Nat, NEW vals \in Seq(Values), base > 131238,
         base + Len(vals) <= \h90017
  PROVE  Ph!Row(base, vals) \in Seq(Writes(Plain))
<1>1. \A v \in Boot : v < base \/ v >= base + Len(vals)
  <2>1. \A v \in Boot : v \in Nat /\ v >= \h90017 /\ v <= \h90139
    BY DEF Boot, Ph!StartVectors
  <2>2. Len(vals) \in Nat
    BY LenProperties
  <2> QED  BY <2>1, <2>2
<1> QED  BY <1>1, PlainRows

\* So are those of the two channels of DDR5.
LEMMA PlainChannels == Ph!Channels5 \in Seq(Writes(Plain))
<1> DEFINE W == Writes(Plain)
<1> HIDE DEF W
<1>1. \A R \in Plain, v \in Values : Ph!Put(R, v) \in W
  BY PutPlain DEF W
<1>2. \A base \in Nat : \A vals \in Seq(Values) :
        base > 131238 /\ base < 300000 /\ Len(vals) <= 2 => Ph!Row(base, vals) \in Seq(W)
  <2> TAKE base \in Nat
  <2> TAKE vals \in Seq(Values)
  <2> HAVE base > 131238 /\ base < 300000 /\ Len(vals) <= 2
  <2>1. base + Len(vals) <= \h90017
    OBVIOUS
  <2>2. Ph!Row(base, vals) \in Seq(Writes(Plain))
    BY <2>1, PlainRow
  <2> QED  BY <2>2 DEF W
<1>3. \h80E \in Values /\ \h80C \in Values /\ \h321 \in Values /\ \h1200 \in Values /\ \h10 \in Values
  BY DEF Values
<1>4. ASSUME NEW ch \in {1, 2} PROVE Ph!Channel5(ch) \in Seq(W)
  <2> DEFINE at == \h20100 + ch * \h20
  <2>1. at \in Nat /\ at > 131238 /\ at < 200000
    OBVIOUS
  <2>2. Ph!Channel5(ch) = Ph!Row(at, <<\h80E, \h80E>>) \o Ph!Row(at + 4, <<\h80E>>)
          \o Ph!Row(at + 2, <<\h80C, \h80C>>) \o Ph!Row(at + 5, <<\h80E>>) \o Ph!Row(at + \hE, <<\h321>>)
    BY DEF Ph!Channel5
  <2> HIDE DEF at
  <2>3. /\ <<\h80E, \h80E>> \in Seq(Values) /\ <<\h80C, \h80C>> \in Seq(Values)
        /\ <<\h80E>> \in Seq(Values) /\ <<\h321>> \in Seq(Values)
        /\ Len(<<\h80E, \h80E>>) = 2 /\ Len(<<\h80C, \h80C>>) = 2
        /\ Len(<<\h80E>>) = 1 /\ Len(<<\h321>>) = 1
    BY <1>3
  <2>4. /\ Ph!Row(at, <<\h80E, \h80E>>) \in Seq(W) /\ Ph!Row(at + 4, <<\h80E>>) \in Seq(W)
        /\ Ph!Row(at + 2, <<\h80C, \h80C>>) \in Seq(W) /\ Ph!Row(at + 5, <<\h80E>>) \in Seq(W)
        /\ Ph!Row(at + \hE, <<\h321>>) \in Seq(W)
    <3> HIDE DEF W
    <3>1. /\ at + 4 \in Nat /\ at + 4 > 131238 /\ at + 4 < 300000
          /\ at + 2 \in Nat /\ at + 2 > 131238 /\ at + 2 < 300000
          /\ at + 5 \in Nat /\ at + 5 > 131238 /\ at + 5 < 300000
          /\ at + \hE \in Nat /\ at + \hE > 131238 /\ at + \hE < 300000
          /\ at < 300000
      BY <2>1
    <3> DEFINE a == <<\h80E, \h80E>>
               b == <<\h80C, \h80C>>
               c == <<\h80E>>
               d == <<\h321>>
    <3>2. /\ a \in Seq(Values) /\ b \in Seq(Values) /\ c \in Seq(Values) /\ d \in Seq(Values)
          /\ Len(a) <= 2 /\ Len(b) <= 2 /\ Len(c) <= 2 /\ Len(d) <= 2
      BY <2>3
    <3> HIDE DEF a, b, c, d
    <3>3. Ph!Row(at, a) \in Seq(W)
      BY <1>2, <2>1, <3>1, <3>2
    <3>4. Ph!Row(at + 4, c) \in Seq(W)
      BY <1>2, <3>1, <3>2
    <3>5. Ph!Row(at + 2, b) \in Seq(W)
      BY <1>2, <3>1, <3>2
    <3>6. Ph!Row(at + 5, c) \in Seq(W)
      BY <1>2, <3>1, <3>2
    <3>7. Ph!Row(at + \hE, d) \in Seq(W)
      BY <1>2, <3>1, <3>2
    <3> QED  BY <3>3, <3>4, <3>5, <3>6, <3>7 DEF a, b, c, d
  <2> QED  BY <2>2, <2>4, ConcatProperties
<1>5. Ph!Row(\h400F5, <<\h1200, \h10>>) \in Seq(W)
  <2> DEFINE vals == <<\h1200, \h10>>
  <2>1. vals \in Seq(Values) /\ Len(vals) <= 2
    BY <1>3
  <2>2. \h400F5 \in Nat /\ \h400F5 > 131238 /\ \h400F5 < 300000
    OBVIOUS
  <2> HIDE DEF vals
  <2>3. Ph!Row(\h400F5, vals) \in Seq(W)
    BY <1>2, <2>1, <2>2
  <2> QED  BY <2>3 DEF vals
<1>6. /\ <<Ph!Put({\h2019A}, \h18)>> \in Seq(W)
      /\ <<Ph!Put({\h90307}, 0), Ph!Put(Ph!Master(\h40), 1)>> \in Seq(W)
  BY <1>1, SetsUsed, NumbersUsed, ValuesUsed
<1> QED  BY <1>4, <1>5, <1>6, ConcatProperties DEF Ph!Channels5, W

\* The flags of the sequencers.
LEMMA FlagValues ==
  /\ 0 \in Values /\ \h173 \in Values /\ \h60 \in Values /\ \h6110 \in Values
  /\ \h2152 \in Values /\ \hDFBD \in Values /\ \h6152 \in Values
  BY DEF Values

LEMMA EightFlags ==
  ASSUME NEW vals \in Seq(Values), Len(vals) <= 8
  PROVE  Ph!Row(\h9000C, vals) \in Seq(Writes(Plain))
<1>1. \A f \in Nat : f > 131238 /\ f <= \h9000C => Ph!Row(f, vals) \in Seq(Writes(Plain))
  <2> TAKE f \in Nat
  <2> HAVE f > 131238 /\ f <= \h9000C
  <2>1. f + Len(vals) <= \h90017
    OBVIOUS
  <2> QED  BY <2>1, PlainRow
<1>2. \h9000C \in Nat /\ \h9000C > 131238 /\ \h9000C <= \h9000C
  OBVIOUS
<1> QED  BY <1>1, <1>2

LEMMA PlainFlags ==
  ASSUME NEW x \in Values
  PROVE  Ph!Row(\h9000C, <<0, \h173, \h60, \h6110, \h2152, \hDFBD, x, \h6152>>) \in Seq(Writes(Plain))
<1> DEFINE vals == <<0, \h173, \h60, \h6110, \h2152, \hDFBD, x, \h6152>>
<1>1. vals \in Seq(Values) /\ Len(vals) <= 8
  BY FlagValues
<1> HIDE DEF vals
<1>2. Ph!Row(\h9000C, vals) \in Seq(Writes(Plain))
  BY <1>1, EightFlags
<1> QED  BY <1>2 DEF vals

\* A sequence of writes leaves a register alone or with v; one of its writes is of v
\* to the register, and what follows leaves it so.
Keeps(s, r, v) == \A i \in 1..Len(s) : r \in s[i].val.regs => s[i].val.val = v
Sets(s, r, v) ==
  \E i \in 1..Len(s) :
    /\ r \in s[i].val.regs /\ s[i].val.val = v
    /\ \A j \in 1..Len(s) : j > i /\ r \in s[j].val.regs => s[j].val.val = v

\* What follows decides, and what leaves it alone changes nothing.
LEMMA JoinSets ==
  ASSUME NEW S, NEW s \in Seq(S), NEW t \in Seq(S), NEW r, NEW v
  PROVE  /\ s \o t \in Seq(S)
         /\ Keeps(s, r, v) /\ Keeps(t, r, v) => Keeps(s \o t, r, v)
         /\ Sets(s, r, v) /\ Keeps(t, r, v) => Sets(s \o t, r, v)
         /\ Sets(t, r, v) => Sets(s \o t, r, v)
<1> DEFINE u == s \o t
           m == Len(s)
           n == Len(t)
<1>1. u \in Seq(S) /\ Len(u) = m + n /\ m \in Nat /\ n \in Nat
  BY ConcatProperties, LenProperties
<1>2. /\ \A i \in 1..m : u[i] = s[i] /\ i \in 1..(m + n)
      /\ \A i \in 1..n : u[m + i] = t[i] /\ m + i \in 1..(m + n)
      /\ \A i \in 1..(m + n) : i > m => u[i] = t[i - m] /\ i - m \in 1..n
      /\ \A i \in 1..(m + n) : i <= m => u[i] = s[i] /\ i \in 1..m
  <2>1. \A i \in 1..(m + n) : u[i] = IF i <= m THEN s[i] ELSE t[i - m]
    BY ConcatProperties
  <2> HIDE DEF u, m, n
  <2>2. \A i \in 1..n : (m + i) - m = i /\ ~(m + i <= m) /\ m + i \in 1..(m + n)
    BY <1>1
  <2>3. \A i \in 1..n : u[m + i] = t[i]
    BY <2>1, <2>2
  <2> QED  BY <1>1, <2>1, <2>2, <2>3
<1> HIDE DEF u, m, n
<1>3. Keeps(s, r, v) /\ Keeps(t, r, v) => Keeps(u, r, v)
  <2> SUFFICES ASSUME Keeps(s, r, v), Keeps(t, r, v), NEW k \in 1..(m + n), r \in u[k].val.regs
               PROVE  u[k].val.val = v
    BY <1>1 DEF Keeps
  <2>1. CASE k <= m
    <3>1. u[k] = s[k] /\ k \in 1..m
      BY <1>2, <2>1
    <3> QED  BY <3>1 DEF Keeps, m
  <2>2. CASE k > m
    <3>1. u[k] = t[k - m] /\ k - m \in 1..n
      BY <1>2, <2>2
    <3> QED  BY <3>1 DEF Keeps, n
  <2> QED  BY <1>1, <2>1, <2>2
<1>4. Sets(s, r, v) /\ Keeps(t, r, v) => Sets(u, r, v)
  <2> SUFFICES ASSUME Sets(s, r, v), Keeps(t, r, v) PROVE Sets(u, r, v)
    OBVIOUS
  <2>1. PICK i \in 1..m : /\ r \in s[i].val.regs /\ s[i].val.val = v
                          /\ \A j \in 1..m : j > i /\ r \in s[j].val.regs => s[j].val.val = v
    BY DEF Sets, m
  <2>2. \A j \in 1..n : r \in t[j].val.regs => t[j].val.val = v
    BY DEF Keeps, n
  <2>3. \A j \in 1..(m + n) : j > i /\ r \in u[j].val.regs => u[j].val.val = v
    BY <1>1, <1>2, <2>1, <2>2
  <2>4. i \in 1..(m + n) /\ u[i] = s[i]
    BY <1>2
  <2> QED  BY <1>1, <2>1, <2>3, <2>4 DEF Sets
<1>5. Sets(t, r, v) => Sets(u, r, v)
  <2> SUFFICES ASSUME Sets(t, r, v) PROVE Sets(u, r, v)
    OBVIOUS
  <2>1. PICK i \in 1..n : /\ r \in t[i].val.regs /\ t[i].val.val = v
                          /\ \A j \in 1..n : j > i /\ r \in t[j].val.regs => t[j].val.val = v
    BY DEF Sets, n
  <2>2. ASSUME NEW j \in 1..(m + n), j > m + i, r \in u[j].val.regs
        PROVE  u[j].val.val = v
    <3>1. u[j] = t[j - m] /\ j - m \in 1..n /\ j - m > i
      BY <1>1, <1>2, <2>2
    <3> QED  BY <2>1, <2>2, <3>1
  <2>3. m + i \in 1..(m + n) /\ u[m + i] = t[i]
    BY <1>2
  <2> QED  BY <1>1, <2>1, <2>2, <2>3 DEF Sets
<1> QED  BY <1>1, <1>3, <1>4, <1>5 DEF u

\* Plain writes leave the gates and what a sequencer starts with alone, others the latter.
LEMMA PlainKeeps ==
  /\ \A s \in Seq(Writes(Plain)) : \A r \in Gates \cup Boot : \A v : Keeps(s, r, v)
  /\ \A s \in Seq(Writes(Unstarted)) : \A r \in Boot : \A v : Keeps(s, r, v)
<1>1. ASSUME NEW s \in Seq(Writes(Plain)), NEW r \in Gates \cup Boot, NEW v PROVE Keeps(s, r, v)
  BY PlainApart, ElementOfSeq DEF Keeps
<1>2. ASSUME NEW s \in Seq(Writes(Unstarted)), NEW r \in Boot, NEW v PROVE Keeps(s, r, v)
  <2>1. \A i \in 1..Len(s) : s[i].val.regs \in Unstarted
    BY WriteParts, ElementOfSeq
  <2>2. \A R \in Unstarted : r \notin R
    BY DEF Unstarted
  <2> QED  BY <2>1, <2>2 DEF Keeps
<1> QED  BY <1>1, <1>2

\* A write to gates is one that no sequencer starts with.
LEMMA PutGates ==
  ASSUME NEW v \in Values
  PROVE  /\ Ph!Put(Ph!Everywhere(\h66), v) \in Writes(Unstarted)
         /\ Ph!Put(Ph!Master(\hA6), v) \in Writes(Unstarted)
<1>1. Ph!Everywhere(\h66) \in Even /\ Ph!Master(\hA6) \in Even
  BY Blocks
<1>2. \A r \in Boot : r > 131239
  BY DEF Boot, Ph!StartVectors
<1>3. Gates \cap Boot = {}
  BY GateNumbers, <1>2
<1>4. Ph!Everywhere(\h66) \in Unstarted /\ Ph!Master(\hA6) \in Unstarted
  BY <1>1, <1>3 DEF Unstarted, Gates
<1> QED  BY <1>4 DEF Writes

\* What opens the gates and shuts them again.
LEMMA GateTables ==
  /\ Ph!Open4 \in Seq(Writes(Unstarted)) /\ Ph!Open5 \in Seq(Writes(Unstarted))
  /\ Ph!Gate4 \in Seq(Writes(Unstarted)) /\ Ph!Gate5 \in Seq(Writes(Unstarted))
  /\ Ph!Ungate4 \in Seq(Writes(Unstarted)) /\ Ph!Ungate5 \in Seq(Writes(Unstarted))
  /\ \A g \in Ph!Everywhere(\h66) : Sets(Ph!Ungate4, g, 0) /\ Sets(Ph!Ungate5, g, 0)
<1>1. 0 \in Values /\ 1 \in Values /\ 2 \in Values
  BY ValuesUsed
<1>2. /\ Ph!Open4 \in Seq(Writes(Unstarted)) /\ Ph!Open5 \in Seq(Writes(Unstarted))
      /\ Ph!Gate4 \in Seq(Writes(Unstarted)) /\ Ph!Gate5 \in Seq(Writes(Unstarted))
      /\ Ph!Ungate4 \in Seq(Writes(Unstarted)) /\ Ph!Ungate5 \in Seq(Writes(Unstarted))
  BY <1>1, PutGates DEF Ph!Open4, Ph!Open5, Ph!Gate4, Ph!Gate5, Ph!Ungate4, Ph!Ungate5
<1>3. ASSUME NEW g \in Ph!Everywhere(\h66) PROVE Sets(<<Ph!Put(Ph!Everywhere(\h66), 0)>>, g, 0)
  BY <1>3 DEF Sets, Ph!Put, Ph!Write
<1> QED  BY <1>2, <1>3 DEF Ph!Ungate4, Ph!Ungate5

\* Two more sets of registers of the address bus.
LEMMA PlainPins == Ph!Csr(0, {4}, {0}, \h28) \in Plain /\ Ph!Csr(0, 6..9, {0}, \h28) \in Plain
<1>1. \A r \in Ph!Csr(0, {4}, {0}, \h28) \cup Ph!Csr(0, 6..9, {0}, \h28) :
        r \in Nat /\ r < 65536 /\ r % 256 = 40
  BY DEF Ph!Csr
<1>2. ASSUME NEW R \in {Ph!Csr(0, {4}, {0}, \h28), Ph!Csr(0, 6..9, {0}, \h28)} PROVE R \in Plain
  <2>1. R \in Even
    BY <1>1, Singles
  <2>2. \A r \in Boot : r \in Nat /\ r > 131239
    BY DEF Boot, Ph!StartVectors
  <2>3. \A r \in Gates : r % 256 \in {102, 166}
    BY GateNumbers
  <2>4. R \cap Boot = {} /\ R \cap Gates = {}
    BY <1>1, <2>2, <2>3
  <2> QED  BY <2>1, <2>4 DEF Plain, Unstarted
<1> QED  BY <1>2

\* The ends of the configurations shut the last gate.
LEMMA CloseTables ==
  /\ Ph!Close4 \in Seq(Writes(Unstarted)) /\ Ph!Close5 \in Seq(Writes(Unstarted))
  /\ \A g \in Gates : Keeps(Ph!Close4, g, 0) /\ Keeps(Ph!Close5, g, 0)
  /\ \A g \in Ph!Master(\hA6) : Sets(Ph!Close4, g, 0) /\ Sets(Ph!Close5, g, 0)
<1> DEFINE a == Ph!Put(Ph!Master(\hFA), 1)
           b == Ph!Put(Ph!Bytes(\hAA), 0)
           c == Ph!Put(Ph!Master(\hA6), 0)
           d == Ph!Put({\h28}, \hC)
           e == Ph!Put(Ph!Csr(0, {4}, {0}, \h28), 8)
           f == Ph!Put(Ph!Csr(0, 6..9, {0}, \h28), \hF)
<1>1. /\ a \in Writes(Plain) /\ b \in Writes(Plain) /\ d \in Writes(Plain)
      /\ e \in Writes(Plain) /\ f \in Writes(Plain)
  BY SetsUsed, PlainAddress, PlainPins, ValuesUsed, PutPlain
<1>2. c \in Writes(Unstarted) /\ c.val.regs = Ph!Master(\hA6) /\ c.val.val = 0
  <2>1. 0 \in Values
    BY ValuesUsed
  <2> QED  BY <2>1, PutGates, PutParts
<1>3. Ph!Close4 = <<a, c, d>> /\ Ph!Close5 = <<a, b, c, d, e, f>>
  BY DEF Ph!Close4, Ph!Close5
<1>4. \A w \in Writes(Plain) : \A g \in Gates : g \notin w.val.regs
  BY PlainApart
<1>5. \A g \in Ph!Master(\hA6) : g \in Gates
  BY DEF Gates
<1> HIDE DEF a, b, c, d, e, f
<1>6. Ph!Close4 \in Seq(Writes(Unstarted)) /\ Ph!Close5 \in Seq(Writes(Unstarted))
  BY <1>1, <1>2, <1>3, PlainWrites
<1>7. ASSUME NEW g \in Gates PROVE Keeps(<<a, c, d>>, g, 0) /\ Keeps(<<a, b, c, d, e, f>>, g, 0)
  BY <1>1, <1>2, <1>4 DEF Keeps
<1>8. ASSUME NEW g \in Ph!Master(\hA6)
      PROVE  Sets(<<a, c, d>>, g, 0) /\ Sets(<<a, b, c, d, e, f>>, g, 0)
  <2>1. <<a, c, d>>[2] = c /\ <<a, b, c, d, e, f>>[3] = c
    OBVIOUS
  <2> QED  BY <1>1, <1>2, <1>4, <1>5, <1>7, <2>1 DEF Sets, Keeps
<1> QED  BY <1>3, <1>6, <1>7, <1>8

\* Each configuration shuts all gates.
LEMMA ConfigTables ==
  ASSUME NEW s \in {Ph!PHY_CONFIG_DDR4, Ph!PHY_CONFIG_DDR5}
  PROVE  s \in Seq(Writes(Unstarted)) /\ \A g \in Gates : Sets(s, g, 0)
<1> DEFINE W == Writes(Unstarted)
<1>1. Seq(Writes(Plain)) \subseteq Seq(W)
  BY PlainWrites, SeqMonotonic
<1>2. ASSUME NEW x \in Seq(W), NEW u \in Seq(W), NEW d \in Seq(Writes(Plain)), NEW c \in Seq(W),
             \A g \in Ph!Everywhere(\h66) : Sets(u, g, 0), \A g \in Gates : Keeps(c, g, 0),
             \A g \in Ph!Master(\hA6) : Sets(c, g, 0)
      PROVE  ((x \o u) \o d) \o c \in Seq(W) /\ \A g \in Gates : Sets(((x \o u) \o d) \o c, g, 0)
  <2>1. d \in Seq(W)
    BY <1>1
  <2> HIDE DEF W
  <2>2. x \o u \in Seq(W) /\ (x \o u) \o d \in Seq(W) /\ ((x \o u) \o d) \o c \in Seq(W)
    BY <2>1, ConcatProperties
  <2>3. ASSUME NEW g \in Gates PROVE Sets(((x \o u) \o d) \o c, g, 0)
    <3>1. CASE g \in Ph!Master(\hA6)
      BY <1>2, <2>2, <3>1, JoinSets
    <3>2. CASE g \in Ph!Everywhere(\h66)
      <4>1. Sets(x \o u, g, 0)
        BY <1>2, <3>2, JoinSets
      <4>2. Keeps(d, g, 0)
        BY PlainKeeps
      <4>3. Sets((x \o u) \o d, g, 0)
        BY <2>1, <2>2, <4>1, <4>2, JoinSets
      <4> QED  BY <1>2, <2>2, <4>3, JoinSets
    <3> QED  BY <3>1, <3>2 DEF Gates
  <2> QED  BY <2>2, <2>3
<1> HIDE DEF W
<1>3. CASE s = Ph!PHY_CONFIG_DDR4
  <2> DEFINE x == Ph!Open4 \o Ph!Slew4 \o Ph!Pll4 \o Ph!Drive4 \o Ph!Receive4 \o Ph!Ratio4 \o Ph!Gate4
                  \o Ph!Gated4
  <2>1. x \in Seq(W)
    <3>1. /\ Ph!Open4 \in Seq(W) /\ Ph!Slew4 \in Seq(W) /\ Ph!Pll4 \in Seq(W) /\ Ph!Drive4 \in Seq(W)
          /\ Ph!Receive4 \in Seq(W) /\ Ph!Ratio4 \in Seq(W) /\ Ph!Gate4 \in Seq(W) /\ Ph!Gated4 \in Seq(W)
      BY <1>1, PlainTables4, GateTables DEF W
    <3> QED  BY <3>1
  <2>2. s = ((x \o Ph!Ungate4) \o Ph!Delays4) \o Ph!Close4
    BY <1>3 DEF Ph!PHY_CONFIG_DDR4
  <2> HIDE DEF x
  <2>3. /\ Ph!Ungate4 \in Seq(W) /\ Ph!Delays4 \in Seq(Writes(Plain)) /\ Ph!Close4 \in Seq(W)
        /\ \A g \in Ph!Everywhere(\h66) : Sets(Ph!Ungate4, g, 0)
        /\ \A g \in Gates : Keeps(Ph!Close4, g, 0)
        /\ \A g \in Ph!Master(\hA6) : Sets(Ph!Close4, g, 0)
    BY PlainTables4, GateTables, CloseTables DEF W
  <2> QED  BY <1>2, <2>1, <2>2, <2>3 DEF W
<1>4. CASE s = Ph!PHY_CONFIG_DDR5
  <2> DEFINE x == Ph!Open5 \o Ph!Slew5 \o Ph!Edge5 \o Ph!Pll5 \o Ph!Drive5 \o Ph!Receive5 \o Ph!Ratio5
                  \o Ph!Channels5 \o Ph!Gate5 \o Ph!Gated5
  <2>1. x \in Seq(W)
    <3>1. /\ Ph!Open5 \in Seq(W) /\ Ph!Slew5 \in Seq(W) /\ Ph!Edge5 \in Seq(W) /\ Ph!Pll5 \in Seq(W)
          /\ Ph!Drive5 \in Seq(W) /\ Ph!Receive5 \in Seq(W) /\ Ph!Ratio5 \in Seq(W)
          /\ Ph!Channels5 \in Seq(W) /\ Ph!Gate5 \in Seq(W) /\ Ph!Gated5 \in Seq(W)
      BY <1>1, PlainTables5, PlainChannels, GateTables DEF W
    <3> QED  BY <3>1
  <2>2. s = ((x \o Ph!Ungate5) \o Ph!Delays5) \o Ph!Close5
    BY <1>4 DEF Ph!PHY_CONFIG_DDR5
  <2> HIDE DEF x
  <2>3. /\ Ph!Ungate5 \in Seq(W) /\ Ph!Delays5 \in Seq(Writes(Plain)) /\ Ph!Close5 \in Seq(W)
        /\ \A g \in Ph!Everywhere(\h66) : Sets(Ph!Ungate5, g, 0)
        /\ \A g \in Gates : Keeps(Ph!Close5, g, 0)
        /\ \A g \in Ph!Master(\hA6) : Sets(Ph!Close5, g, 0)
    BY PlainTables5, GateTables, CloseTables DEF W
  <2> QED  BY <1>2, <2>1, <2>2, <2>3 DEF W
<1> QED  BY <1>3, <1>4 DEF W

\* Parts of the programs of the sequencers.
Armed(flag) == Ph!Row(\h9000C, <<0, \h173, \h60, \h6110, \h2152, \hDFBD, flag, \h6152>>)
Final == <<Ph!Put({\hC0080}, 0)>>
Numbers5 ==
  <<Ph!Put({\h20281}, 1), Ph!Put(Ph!Master(\h3B), 2), Ph!Put(Ph!Master(\h41), \h131F),
    Ph!Put({\h20131}, \hE), Ph!Put({\h20151}, \hF), Ph!Put({\h90306}, 2),
    Ph!Put({\h2012A, \h2014A}, 2), Ph!Put({\h20126, \h20146}, \h7FF),
    Ph!Put({\h20127, \h20147}, 1)>>

\* A table of the master block that ends by shutting the last gate.
Shutting(p, n) ==
  /\ n \in Nat /\ n > 0 /\ DOMAIN p = 1..n /\ p[n][1] = \hA6 /\ p[n][2] = 0
  /\ \A i \in 1..n : i < n => p[i][1] \in Offsets /\ p[i][2] \in Values

LEMMA ShutLast ==
  ASSUME NEW n, NEW p, Shutting(p, n)
  PROVE  /\ Ph!Masters(p) \in Seq(Writes(Unstarted))
         /\ \A g \in Gates : Keeps(Ph!Masters(p), g, 0)
         /\ \A g \in Ph!Master(\hA6) : Sets(Ph!Masters(p), g, 0)
<1> USE DEF Shutting
<1> DEFINE s == Ph!Masters(p)
<1>1. s = [i \in 1..n |-> Ph!Put(Ph!Master(p[i][1]), p[i][2])]
  BY DEF Ph!Masters
<1>2. ASSUME NEW i \in 1..n
      PROVE  /\ s[i] \in Writes(Unstarted)
             /\ \A g \in Gates : g \in s[i].val.regs => i = n
             /\ i = n => s[i].val.regs = Ph!Master(\hA6) /\ s[i].val.val = 0
  <2>1. CASE i < n
    <3> DEFINE reg == p[i][1]
           val == p[i][2]
    <3>0. reg \in Offsets /\ val \in Values /\ s[i] = Ph!Put(Ph!Master(reg), val)
      BY <1>1, <2>1
    <3> HIDE DEF reg, val
    <3>1. Ph!Master(reg) \in Plain
      BY <3>0, PlainBlocks
    <3>2. s[i] \in Writes(Plain)
      BY <3>0, <3>1, PutPlain
    <3>3. \A g \in Gates : g \notin s[i].val.regs
      BY <3>2, PlainApart
    <3> QED  BY <2>1, <3>2, <3>3, PlainWrites
  <2>2. CASE i = n
    <3>1. s[i] = Ph!Put(Ph!Master(\hA6), 0)
      BY <1>1, <2>2
    <3>2. 0 \in Values
      BY ValuesUsed
    <3> QED  BY <2>2, <3>1, <3>2, PutGates, PutParts
  <2> QED  BY <2>1, <2>2
<1>3. s \in Seq(Writes(Unstarted)) /\ Len(s) = n
  BY <1>1, <1>2, IsASeq
<1> HIDE DEF s
<1>4. ASSUME NEW g \in Gates PROVE Keeps(s, g, 0)
  BY <1>2, <1>3 DEF Keeps
<1>5. ASSUME NEW g \in Ph!Master(\hA6) PROVE Sets(s, g, 0)
  <2>1. n \in 1..n
    OBVIOUS
  <2>2. g \in s[n].val.regs /\ s[n].val.val = 0
    BY <1>2, <2>1
  <2> QED  BY <1>3, <2>1, <2>2 DEF Sets
<1> QED  BY <1>3, <1>4, <1>5 DEF s

\* Two registers of the master block that are written by themselves.
LEMMA PlainControl == {131088} \in Plain /\ {131089} \in Plain
<1>1. {131088} \in Even /\ {131089} \in Even
  BY Singles
<1>2. 131088 \notin Gates /\ 131089 \notin Gates
  BY GateNumbers
<1>3. 131088 \notin Boot /\ 131089 \notin Boot
  BY DEF Boot, Ph!StartVectors
<1> QED  BY <1>1, <1>2, <1>3 DEF Plain, Unstarted

\* Writes that no sequencer starts with, and that shut the last gate.
Shuts(s) ==
  /\ s \in Seq(Writes(Unstarted))
  /\ \A g \in Gates : Keeps(s, g, 0)
  /\ \A g \in Ph!Master(\hA6) : Sets(s, g, 0)

\* What the two programs begin with and what they end with.
LEMMA PieEnds ==
  /\ Ph!Enter4 \in Seq(Writes(Unstarted)) /\ Ph!Enter5 \in Seq(Writes(Unstarted)) /\ Ph!Flags5 \in Seq(Writes(Plain))
  /\ Shuts(Ph!Arm4) /\ Shuts(Ph!Arm5)
<1> DEFINE P == Writes(Plain)
           W == Writes(Unstarted)
<1> HIDE DEF P, W
<1>1. \A R \in Plain, v \in Values : Ph!Put(R, v) \in P
  BY PutPlain DEF P
<1>2. Seq(P) \subseteq Seq(W) /\ P \subseteq W
  BY PlainWrites, SeqMonotonic DEF P, W
<1>3. Ph!Enter4 \in Seq(W) /\ Ph!Enter5 \in Seq(W)
  <2>1. Ph!Put(Ph!Master(\hA6), 2) \in W
    BY PutGates, ValuesUsed DEF W
  <2>2. Ph!Program(\h90000, 6) \in W
    <3> DEFINE R == \h90000..(\h90000 + 6 - 1)
    <3>1. \A r \in R : r \in Nat /\ r > 131238 /\ r < \h90017
      OBVIOUS
    <3>2. Ph!Program(\h90000, 6) = Ph!Put(R, 65536)
      BY DEF Ph!Program, Ph!Code
    <3> HIDE DEF R
    <3>3. \A r \in Boot : r >= \h90017
      BY DEF Boot, Ph!StartVectors
    <3>4. R \cap Boot = {}
      BY <3>1, <3>3
    <3>5. R \in Plain
      BY <3>1, <3>4, PlainSingles
    <3>6. 65536 \in Values
      BY ValuesUsed
    <3> QED  BY <1>1, <1>2, <3>2, <3>5, <3>6
  <2> QED  BY <2>1, <2>2 DEF Ph!Enter4, Ph!Enter5
<1>4. Ph!Flags5 \in Seq(P)
  <2>1. \h8060 \in Values
    BY DEF Values
  <2> QED  BY <2>1, PlainFlags DEF Ph!Flags5, P
<1>5. ASSUME NEW b \in Seq(P), NEW m \in Seq(W), NEW e,
             \A g \in Gates : Keeps(m, g, 0), \A g \in Ph!Master(\hA6) : Sets(m, g, 0),
             e = b \o m \o Final
      PROVE  /\ e \in Seq(W)
             /\ \A g \in Gates : Keeps(e, g, 0)
             /\ \A g \in Ph!Master(\hA6) : Sets(e, g, 0)
  <2> DEFINE t == Final
  <2>1. t \in Seq(P)
    <3> DEFINE R == {\hC0080}
    <3>1. R \in Plain
      BY NumbersUsed
    <3>2. 0 \in Values
      BY ValuesUsed
    <3> HIDE DEF R
    <3>3. <<Ph!Put(R, 0)>> \in Seq(P)
      BY <1>1, <3>1, <3>2
    <3> QED  BY <3>3 DEF R, Final
  <2> HIDE DEF t
  <2>2. b \in Seq(W) /\ t \in Seq(W)
    BY <1>2, <2>1
  <2>3. b \o m \in Seq(W) /\ e = (b \o m) \o t /\ e \in Seq(W)
    BY <1>5, <2>2, ConcatProperties DEF t
  <2>4. \A g \in Gates : Keeps(b, g, 0) /\ Keeps(t, g, 0)
    BY <2>1, PlainKeeps DEF P
  <2>5. ASSUME NEW g \in Gates PROVE Keeps(e, g, 0)
    <3>1. Keeps(b \o m, g, 0)
      BY <1>5, <2>2, <2>4, JoinSets
    <3> QED  BY <2>2, <2>3, <2>4, <3>1, JoinSets
  <2>6. ASSUME NEW g \in Ph!Master(\hA6) PROVE Sets(e, g, 0)
    <3>1. Sets(b \o m, g, 0)
      BY <1>5, <2>2, JoinSets
    <3>2. Keeps(t, g, 0)
      BY <2>4 DEF Gates
    <3> QED  BY <2>2, <2>3, <3>1, <3>2, JoinSets
  <2> QED  BY <2>3, <2>5, <2>6
<1>6. ASSUME NEW e, e = Ph!Arm4
      PROVE  /\ e \in Seq(W) /\ \A g \in Gates : Keeps(e, g, 0)
             /\ \A g \in Ph!Master(\hA6) : Sets(e, g, 0)
  <2> DEFINE p == << <<\h6D, 1>>, <<\hE8, \hFFF>>, <<\h89, 1>>, <<\h88, \h19>>, <<\hA6, 0>> >>
             b == Armed(\hFFFF)
  <2>1. Shutting(p, 5)
    BY OffsetsUsed, ValuesUsed DEF Shutting
  <2>2. e = b \o Ph!Masters(p) \o Final
    BY <1>6 DEF Ph!Arm4, Armed, Final
  <2>3. b \in Seq(P)
    <3>1. \hFFFF \in Values
      BY DEF Values
    <3> QED  BY <3>1, PlainFlags DEF Armed, P
  <2> HIDE DEF p, b
  <2>4. /\ Ph!Masters(p) \in Seq(W) /\ \A g \in Gates : Keeps(Ph!Masters(p), g, 0)
        /\ \A g \in Ph!Master(\hA6) : Sets(Ph!Masters(p), g, 0)
    BY <2>1, ShutLast DEF W
  <2> QED  BY <1>5, <2>2, <2>3, <2>4
<1>7. ASSUME NEW e, e = Ph!Arm5
      PROVE  /\ e \in Seq(W) /\ \A g \in Gates : Keeps(e, g, 0)
             /\ \A g \in Ph!Master(\hA6) : Sets(e, g, 0)
  <2> DEFINE p == << <<\h89, 1>>, <<\h88, \h19>>, <<\hA6, 0>> >>
             b == Ph!Row(\h20010, <<0, 3>>) \o Numbers5
  <2>1. Shutting(p, 3)
    BY OffsetsUsed, ValuesUsed DEF Shutting
  <2>2. e = b \o Ph!Masters(p) \o Final
    BY <1>7 DEF Ph!Arm5, Numbers5, Final
  <2>3. b \in Seq(P)
    <3>1. Ph!Row(\h20010, <<0, 3>>) \in Seq(P)
      <4> DEFINE vals == <<0, 3>>
      <4>1. 0 \in Values /\ 3 \in Values
        BY DEF Values
      <4>2. DOMAIN vals = 1..2 /\ vals[1] \in Values /\ vals[2] \in Values
        BY <4>1
      <4>3. \h20010 + 1 - 1 = 131088 /\ \h20010 + 2 - 1 = 131089
        OBVIOUS
      <4> HIDE DEF vals
      <4>4. \A i \in 1..2 : Ph!Put({\h20010 + i - 1}, vals[i]) \in P
        BY <1>1, <4>2, <4>3, PlainControl
      <4>5. [i \in 1..2 |-> Ph!Put({\h20010 + i - 1}, vals[i])] \in Seq(P)
        BY <4>4, IsASeq
      <4>6. Ph!Row(\h20010, vals) \in Seq(P)
        BY <4>2, <4>5 DEF Ph!Row
      <4> QED  BY <4>6 DEF vals
    <3>2. Numbers5 \in Seq(P)
      BY <1>1, SetsUsed, NumbersUsed, ValuesUsed DEF Numbers5
    <3> QED  BY <3>1, <3>2, ConcatProperties
  <2> HIDE DEF p, b
  <2>4. /\ Ph!Masters(p) \in Seq(W) /\ \A g \in Gates : Keeps(Ph!Masters(p), g, 0)
        /\ \A g \in Ph!Master(\hA6) : Sets(Ph!Masters(p), g, 0)
    BY <2>1, ShutLast DEF W
  <2> QED  BY <1>5, <2>2, <2>3, <2>4
<1>8. Shuts(Ph!Arm4) /\ Shuts(Ph!Arm5)
  BY <1>6, <1>7 DEF Shuts, W
<1> QED  BY <1>3, <1>4, <1>8 DEF P, W

\* A program below the registers that a sequencer starts with.
LEMMA PlainProgram ==
  ASSUME NEW base \in Nat, NEW words \in Nat, base > 131238, base + words <= \h90017
  PROVE  Ph!Program(base, words) \in Writes(Plain)
<1> DEFINE R == base..(base + words - 1)
<1>1. \A r \in R : r \in Nat /\ r > 131238 /\ r < \h90017
  OBVIOUS
<1>2. Ph!Program(base, words) = Ph!Put(R, 65536)
  BY DEF Ph!Program, Ph!Code
<1> HIDE DEF R
<1>3. \A r \in Boot : r >= \h90017
  BY DEF Boot, Ph!StartVectors
<1>4. R \cap Boot = {}
  BY <1>1, <1>3
<1>5. R \in Plain
  BY <1>1, <1>4, PlainSingles
<1>6. 65536 \in Values
  BY ValuesUsed
<1> QED  BY <1>2, <1>5, <1>6, PutPlain

\* A write of a value to all registers of a set.
LEMMA PutSets ==
  ASSUME NEW R, NEW v, NEW r
  PROVE  /\ r \in R => Sets(<<Ph!Put(R, v)>>, r, v)
         /\ r \notin R => \A x : Keeps(<<Ph!Put(R, v)>>, r, x)
<1> DEFINE w == Ph!Put(R, v)
           s == <<w>>
<1>1. w.val.regs = R /\ w.val.val = v
  BY PutParts
<1> HIDE DEF w
<1>2. Len(s) = 1 /\ s[1] = w
  OBVIOUS
<1> HIDE DEF s
<1>3. r \in R => Sets(s, r, v)
  BY <1>1, <1>2 DEF Sets
<1>4. r \notin R => \A x : Keeps(s, r, x)
  BY <1>1, <1>2 DEF Keeps
<1> QED  BY <1>3, <1>4 DEF s, w

\* The instructions of the two programs.
LEMMA Engines ==
  ASSUME NEW words \in Nat, words <= 273
  PROVE  /\ <<Ph!Program(\h90029, words)>> \in Seq(Writes(Even))
         /\ \A r \in Gates \cup Ph!StartVectors : \A v : Keeps(<<Ph!Program(\h90029, words)>>, r, v)
         /\ \A r \in \h90029..(\h90029 + words - 1) : Sets(<<Ph!Program(\h90029, words)>>, r, 65536)
<1> DEFINE R == \h90029..(\h90029 + words - 1)
<1>1. R \in SUBSET Nat /\ \A r \in R : r >= \h90029
  OBVIOUS
<1>2. Ph!Program(\h90029, words) = Ph!Put(R, 65536)
  BY DEF Ph!Program, Ph!Code
<1> HIDE DEF R
<1>3. R \in Even
  BY <1>1, Singles
<1>4. 65536 \in Values
  BY ValuesUsed
<1>5. Ph!Put(R, 65536) \in Writes(Even)
  BY <1>3, <1>4 DEF Writes
<1>6. ASSUME NEW r \in Gates \cup Ph!StartVectors PROVE r \notin R
  <2>1. r \in Nat /\ r < \h90029
    BY GateNumbers DEF Ph!StartVectors
  <2> QED  BY <1>1, <2>1
<1>7. \A r \in Gates \cup Ph!StartVectors : \A v : Keeps(<<Ph!Put(R, 65536)>>, r, v)
  BY <1>6, PutSets
<1>8. \A r \in R : Sets(<<Ph!Put(R, 65536)>>, r, 65536)
  BY PutSets
<1> QED  BY <1>2, <1>5, <1>7, <1>8 DEF R

\* A write of a value to an even set.
LEMMA PutEven ==
  ASSUME NEW R \in Even, NEW v \in Values
  PROVE  /\ Ph!Put(R, v) \in Writes(Even)
         /\ Ph!Put(R, v).val.regs = R /\ Ph!Put(R, v).val.val = v
  BY PutParts DEF Writes

\* What the gates and the start vectors are not.
LEMMA GatesApart == \A g \in Ph!Everywhere(\h66) : g \notin Ph!Master(\hA6)
<1>1. ASSUME NEW g \in Ph!Everywhere(\h66) PROVE g % 256 = 102
  BY DEF Ph!Everywhere, Ph!Master, Ph!Bytes, Ph!Address, Ph!Csr
<1>2. ASSUME NEW g \in Ph!Master(\hA6) PROVE g % 256 = 166
  BY DEF Ph!Master, Ph!Csr
<1> QED  BY <1>1, <1>2

\* The start vectors, and what a program puts in the second, if any, and the third.
Vector1 == \h90017
Vector2 == \h9001F
Vector3 == \h90026
Second == \h36
Third(d) == IF d THEN \h38 ELSE \h4D

LEMMA VectorNumbers ==
  /\ Vector1 \in Boot /\ Vector2 \in Boot /\ Vector3 \in Boot
  /\ Vector1 \in Ph!StartVectors /\ Vector2 \in Ph!StartVectors /\ Vector3 \in Ph!StartVectors
  /\ Vector1 # Vector2 /\ Vector1 # Vector3 /\ Vector2 # Vector3
  /\ {Vector1} \in Even /\ {Vector2} \in Even /\ {Vector3} \in Even
  /\ Vector1 \notin Gates /\ Vector2 \notin Gates /\ Vector3 \notin Gates
<1>1. /\ Vector1 \in Boot /\ Vector2 \in Boot /\ Vector3 \in Boot
      /\ Vector1 \in Ph!StartVectors /\ Vector2 \in Ph!StartVectors /\ Vector3 \in Ph!StartVectors
  BY DEF Boot, Ph!StartVectors, Vector1, Vector2, Vector3
<1>2. Vector1 # Vector2 /\ Vector1 # Vector3 /\ Vector2 # Vector3
  BY DEF Vector1, Vector2, Vector3
<1>3. {Vector1} \in Even /\ {Vector2} \in Even /\ {Vector3} \in Even
  BY Singles DEF Vector1, Vector2, Vector3
<1>4. Vector1 \notin Gates /\ Vector2 \notin Gates /\ Vector3 \notin Gates
  BY GateNumbers DEF Vector1, Vector2, Vector3
<1> QED  BY <1>1, <1>2, <1>3, <1>4

\* The vectors of the program of DDR4.
LEMMA VectorsOf4 ==
  /\ Ph!Vectors4 \in Seq(Writes(Even))
  /\ \A r \in Gates \cup (Boot \ {Vector1, Vector3}) : \A v : Keeps(Ph!Vectors4, r, v)
  /\ Sets(Ph!Vectors4, Vector1, 0) /\ Sets(Ph!Vectors4, Vector3, Third(TRUE))
<1> DEFINE a == Ph!Program(\h90006, 6)
           R == {\hD00E7}
           b == Ph!Put(R, \h400)
           x == Vector1
           y == Vector3
           u == Third(TRUE)
           c == Ph!Put({x}, 0)
           d == Ph!Put({y}, u)
<1>1. a \in Writes(Plain)
  <2> DEFINE base == \h90006
  <2>1. base \in Nat /\ base > 131238 /\ base <= \h90006
    OBVIOUS
  <2> HIDE DEF base
  <2>2. Ph!Program(base, 6) \in Writes(Plain)
    <3>1. base + 6 <= \h90017
      BY <2>1
    <3> QED  BY <2>1, <3>1, PlainProgram
  <2> QED  BY <2>2 DEF base
<1>2. b \in Writes(Plain)
  <2>1. R \in Plain
    BY NumbersUsed
  <2>2. \h400 \in Values
    BY ValuesUsed
  <2> HIDE DEF R
  <2> QED  BY <2>1, <2>2, PutPlain
<1>3. x \in Boot /\ y \in Boot /\ x # y /\ {x} \in Even /\ {y} \in Even /\ x \notin Gates /\ y \notin Gates
  BY VectorNumbers
<1>4. 0 \in Values /\ u \in Values
  BY ValuesUsed DEF Third
<1>5. Ph!Vectors4 = <<a, b, c, d>>
  BY DEF Ph!Vectors4, Vector1, Vector3, Third
<1> HIDE DEF a, b, x, y, u
<1>6. /\ c \in Writes(Even) /\ c.val.regs = {x} /\ c.val.val = 0
      /\ d \in Writes(Even) /\ d.val.regs = {y} /\ d.val.val = u
  BY <1>3, <1>4, PutEven
<1> HIDE DEF c, d
<1>7. <<a, b, c, d>> \in Seq(Writes(Even))
  BY <1>1, <1>2, <1>6, PlainWrites
<1>8. \A r \in Gates \cup Boot : r \notin a.val.regs /\ r \notin b.val.regs
  BY <1>1, <1>2, PlainApart
<1>9. ASSUME NEW r \in Gates \cup (Boot \ {x, y}), NEW v PROVE Keeps(<<a, b, c, d>>, r, v)
  <2>1. r \notin a.val.regs /\ r \notin b.val.regs /\ r \notin c.val.regs /\ r \notin d.val.regs
    BY <1>3, <1>6, <1>8
  <2> QED  BY <2>1 DEF Keeps
<1>10. Sets(<<a, b, c, d>>, x, 0) /\ Sets(<<a, b, c, d>>, y, u)
  <2>1. Len(<<a, b, c, d>>) = 4 /\ <<a, b, c, d>>[1] = a /\ <<a, b, c, d>>[2] = b
        /\ <<a, b, c, d>>[3] = c /\ <<a, b, c, d>>[4] = d
    OBVIOUS
  <2>2. x \notin d.val.regs
    BY <1>3, <1>6
  <2> QED  BY <1>6, <2>1, <2>2 DEF Sets
<1> QED  BY <1>5, <1>7, <1>9, <1>10 DEF x, y, u

\* The vectors of the program of DDR5.
LEMMA VectorsOf5 ==
  /\ Ph!Vectors5 \in Seq(Writes(Even))
  /\ \A r \in Gates \cup (Boot \ {Vector1, Vector2, Vector3}) : \A v : Keeps(Ph!Vectors5, r, v)
  /\ Sets(Ph!Vectors5, Vector1, 0) /\ Sets(Ph!Vectors5, Vector2, Second)
  /\ Sets(Ph!Vectors5, Vector3, Third(FALSE))
<1> DEFINE a == Ph!Program(\h90006, 6)
           R == {\hD00E7}
           R1 == {\h20240, \h20241}
           R2 == {\h20242, \h20243}
           b == Ph!Put(R, \h400)
           e == Ph!Put(R1, \h4300)
           f == Ph!Put(R2, \h8944)
           x == Vector1
           y == Vector2
           z == Vector3
           u == Second
           t == Third(FALSE)
           c == Ph!Put({x}, 0)
           d == Ph!Put({y}, u)
           g == Ph!Put({z}, t)
           s == <<a, b, e, f, c, d, g>>
<1>1. a \in Writes(Plain)
  <2> DEFINE base == \h90006
  <2>1. base \in Nat /\ base > 131238 /\ base <= \h90006
    OBVIOUS
  <2> HIDE DEF base
  <2>2. Ph!Program(base, 6) \in Writes(Plain)
    <3>1. base + 6 <= \h90017
      BY <2>1
    <3> QED  BY <2>1, <3>1, PlainProgram
  <2> QED  BY <2>2 DEF base
<1>2. b \in Writes(Plain) /\ e \in Writes(Plain) /\ f \in Writes(Plain)
  <2>1. R \in Plain /\ R1 \in Plain /\ R2 \in Plain
    BY NumbersUsed
  <2>2. \h400 \in Values /\ \h4300 \in Values /\ \h8944 \in Values
    BY ValuesUsed
  <2> HIDE DEF R, R1, R2
  <2> QED  BY <2>1, <2>2, PutPlain
<1>3. /\ x \in Boot /\ y \in Boot /\ z \in Boot /\ x # y /\ x # z /\ y # z
      /\ {x} \in Even /\ {y} \in Even /\ {z} \in Even
      /\ x \notin Gates /\ y \notin Gates /\ z \notin Gates
  BY VectorNumbers
<1>4. 0 \in Values /\ u \in Values /\ t \in Values
  BY ValuesUsed DEF Second, Third
<1>5. Ph!Vectors5 = s
  BY DEF Ph!Vectors5, Vector1, Vector2, Vector3, Second, Third
<1> HIDE DEF a, b, e, f, x, y, z, u, t
<1>6. /\ c \in Writes(Even) /\ c.val.regs = {x} /\ c.val.val = 0
      /\ d \in Writes(Even) /\ d.val.regs = {y} /\ d.val.val = u
      /\ g \in Writes(Even) /\ g.val.regs = {z} /\ g.val.val = t
  BY <1>3, <1>4, PutEven
<1> HIDE DEF c, d, g
<1>7. s \in Seq(Writes(Even)) /\ Len(s) = 7
  BY <1>1, <1>2, <1>6, PlainWrites
<1>8. \A r \in Gates \cup Boot : /\ r \notin a.val.regs /\ r \notin b.val.regs
                                /\ r \notin e.val.regs /\ r \notin f.val.regs
  BY <1>1, <1>2, PlainApart
<1>9. /\ s[1] = a /\ s[2] = b /\ s[3] = e /\ s[4] = f /\ s[5] = c /\ s[6] = d /\ s[7] = g
  OBVIOUS
<1> HIDE DEF s
<1>10. \A i \in 1..7 : i = 1 \/ i = 2 \/ i = 3 \/ i = 4 \/ i = 5 \/ i = 6 \/ i = 7
  OBVIOUS
<1>11. ASSUME NEW r \in Gates \cup (Boot \ {x, y, z}), NEW v PROVE Keeps(s, r, v)
  <2>1. /\ r \notin a.val.regs /\ r \notin b.val.regs /\ r \notin e.val.regs /\ r \notin f.val.regs
        /\ r \notin c.val.regs /\ r \notin d.val.regs /\ r \notin g.val.regs
    BY <1>3, <1>6, <1>8
  <2> QED  BY <1>7, <1>9, <1>10, <2>1 DEF Keeps
<1>12. x \notin d.val.regs /\ x \notin g.val.regs /\ y \notin g.val.regs
  BY <1>3, <1>6
<1>13. Sets(s, x, 0)
  <2>1. \A j \in 1..7 : j > 5 => x \notin s[j].val.regs
    BY <1>9, <1>10, <1>12
  <2> QED  BY <1>6, <1>7, <1>9, <2>1 DEF Sets
<1>14. Sets(s, y, u)
  <2>1. \A j \in 1..7 : j > 6 => y \notin s[j].val.regs
    BY <1>9, <1>10, <1>12
  <2> QED  BY <1>6, <1>7, <1>9, <2>1 DEF Sets
<1>15. Sets(s, z, t)
  BY <1>6, <1>7, <1>9 DEF Sets
<1> QED  BY <1>5, <1>7, <1>11, <1>13, <1>14, <1>15 DEF x, y, z, u, t

\* What a program leaves the sequencer with: its vectors, the instructions, and the
\* gates as they were but for the one of the master block.
Instrs(d) == \h90029..(IF d THEN \h900F7 ELSE \h90139)
Loads(d, s) ==
  /\ \A g \in Ph!Everywhere(\h66) : Keeps(s, g, 0)
  /\ Sets(s, Vector1, 0) /\ Sets(s, Vector3, Third(d))
  /\ \A r \in Instrs(d) : Sets(s, r, 65536)
  /\ IF d THEN \A v : Keeps(s, Vector2, v) ELSE Sets(s, Vector2, Second)

\* What concerns neither.
Quiet(s) ==
  /\ \A r \in Boot : \A v : Keeps(s, r, v)
  /\ \A g \in Ph!Everywhere(\h66) : Keeps(s, g, 0)

\* The registers of a program are ones that a sequencer starts with.
LEMMA InstrsInBoot ==
  ASSUME NEW d \in BOOLEAN, NEW r \in Instrs(d)
  PROVE  r \in Boot /\ r \notin Ph!StartVectors /\ r # Vector1 /\ r # Vector2 /\ r # Vector3
<1>1. r \in \h90029..\h90139
  BY DEF Instrs
<1> QED  BY <1>1 DEF Boot, Ph!StartVectors, Vector1, Vector2, Vector3

LEMMA QuietAfter ==
  ASSUME NEW d \in BOOLEAN, NEW S, NEW s \in Seq(S), NEW t \in Seq(S), Loads(d, s), Quiet(t)
  PROVE  s \o t \in Seq(S) /\ Loads(d, s \o t)
<1>1. /\ \A r, v : Keeps(s, r, v) /\ Keeps(t, r, v) => Keeps(s \o t, r, v)
      /\ \A r, v : Sets(s, r, v) /\ Keeps(t, r, v) => Sets(s \o t, r, v)
      /\ s \o t \in Seq(S)
  BY JoinSets
<1> DEFINE u == s \o t
<1> HIDE DEF u
<1>2. /\ \A r, v : Keeps(s, r, v) /\ Keeps(t, r, v) => Keeps(u, r, v)
      /\ \A r, v : Sets(s, r, v) /\ Keeps(t, r, v) => Sets(u, r, v)
  BY <1>1 DEF u
<1>3. \A g \in Ph!Everywhere(\h66) : Keeps(u, g, 0)
  BY <1>2 DEF Loads, Quiet
<1>4. \A r \in Instrs(d) : Sets(u, r, 65536)
  BY <1>2, InstrsInBoot DEF Loads, Quiet
<1>5. Vector1 \in Boot /\ Vector2 \in Boot /\ Vector3 \in Boot
  BY VectorNumbers
<1>7. /\ Sets(u, Vector1, 0) /\ Sets(u, Vector3, Third(d))
      /\ IF d THEN \A v : Keeps(u, Vector2, v) ELSE Sets(u, Vector2, Second)
  BY <1>2, <1>5 DEF Loads, Quiet
<1>8. Loads(d, u)
  BY <1>3, <1>4, <1>7 DEF Loads
<1> QED  BY <1>1, <1>8 DEF u

LEMMA QuietBoth ==
  ASSUME NEW S, NEW s \in Seq(S), NEW t \in Seq(S), Quiet(s), Quiet(t)
  PROVE  s \o t \in Seq(S) /\ Quiet(s \o t)
<1>1. /\ \A r, v : Keeps(s, r, v) /\ Keeps(t, r, v) => Keeps(s \o t, r, v)
      /\ s \o t \in Seq(S)
  BY JoinSets
<1> QED  BY <1>1 DEF Quiet

\* Plain writes are quiet.
LEMMA PlainQuiet == \A s \in Seq(Writes(Plain)) : Quiet(s)
  BY PlainKeeps DEF Quiet, Gates

\* Three sequences of writes.
LEMMA JoinThree ==
  ASSUME NEW S, NEW e \in Seq(S), NEW n \in Seq(S), NEW b \in Seq(S)
  PROVE  /\ (e \o n) \o b \in Seq(S)
         /\ \A r, v : Keeps(e, r, v) /\ Keeps(n, r, v) /\ Keeps(b, r, v) => Keeps((e \o n) \o b, r, v)
         /\ \A r, v : Sets(n, r, v) /\ Keeps(b, r, v) => Sets((e \o n) \o b, r, v)
         /\ \A r, v : Sets(b, r, v) => Sets((e \o n) \o b, r, v)
<1> DEFINE m == e \o n
<1>1. /\ m \in Seq(S)
      /\ \A r, v : Keeps(e, r, v) /\ Keeps(n, r, v) => Keeps(m, r, v)
      /\ \A r, v : Sets(n, r, v) => Sets(m, r, v)
  BY JoinSets
<1> HIDE DEF m
<1>2. /\ m \o b \in Seq(S)
      /\ \A r, v : Keeps(m, r, v) /\ Keeps(b, r, v) => Keeps(m \o b, r, v)
      /\ \A r, v : Sets(m, r, v) /\ Keeps(b, r, v) => Sets(m \o b, r, v)
      /\ \A r, v : Sets(b, r, v) => Sets(m \o b, r, v)
  BY <1>1, JoinSets
<1> DEFINE u == m \o b
<1> HIDE DEF u
<1>3. /\ u \in Seq(S)
      /\ \A r, v : Keeps(m, r, v) /\ Keeps(b, r, v) => Keeps(u, r, v)
      /\ \A r, v : Sets(m, r, v) /\ Keeps(b, r, v) => Sets(u, r, v)
      /\ \A r, v : Sets(b, r, v) => Sets(u, r, v)
  BY <1>2 DEF u
<1>4. /\ u \in Seq(S)
      /\ \A r, v : Keeps(e, r, v) /\ Keeps(n, r, v) /\ Keeps(b, r, v) => Keeps(u, r, v)
      /\ \A r, v : Sets(n, r, v) /\ Keeps(b, r, v) => Sets(u, r, v)
      /\ \A r, v : Sets(b, r, v) => Sets(u, r, v)
  BY <1>1, <1>3
<1> QED  BY <1>4 DEF u, m

\* The instructions, then the vectors.
LEMMA LoadsJoined ==
  ASSUME NEW d \in BOOLEAN, NEW S, NEW e \in Seq(S), NEW n \in Seq(S), NEW b \in Seq(S), Quiet(e),
         \A r \in Gates \cup Ph!StartVectors : \A v : Keeps(n, r, v),
         \A r \in Instrs(d) : Sets(n, r, 65536) /\ \A v : Keeps(b, r, v),
         \A g \in Gates : Keeps(b, g, 0), Sets(b, Vector1, 0), Sets(b, Vector3, Third(d)),
         IF d THEN \A v : Keeps(b, Vector2, v) ELSE Sets(b, Vector2, Second)
  PROVE  (e \o n) \o b \in Seq(S) /\ Loads(d, (e \o n) \o b)
<1> DEFINE u == (e \o n) \o b
<1>1. u \in Seq(S)
  BY JoinThree
<1>2. /\ \A r, v : Keeps(e, r, v) /\ Keeps(n, r, v) /\ Keeps(b, r, v) => Keeps(u, r, v)
      /\ \A r, v : Sets(n, r, v) /\ Keeps(b, r, v) => Sets(u, r, v)
      /\ \A r, v : Sets(b, r, v) => Sets(u, r, v)
  BY JoinThree
<1> HIDE DEF u
<1>5. \A g \in Ph!Everywhere(\h66) : Keeps(u, g, 0)
  <2>1. \A g \in Ph!Everywhere(\h66) : g \in Gates
    BY DEF Gates
  <2> QED  BY <1>2, <2>1 DEF Quiet
<1>6. \A r \in Instrs(d) : Sets(u, r, 65536)
  BY <1>2
<1>7. d => \A v : Keeps(u, Vector2, v)
  <2>1. Vector2 \in Boot /\ Vector2 \in Ph!StartVectors
    BY VectorNumbers
  <2> QED  BY <1>2, <2>1 DEF Quiet
<1>8. Sets(u, Vector1, 0) /\ Sets(u, Vector3, Third(d)) /\ (~d => Sets(u, Vector2, Second))
  BY <1>2
<1>9. Loads(d, u)
  BY <1>5, <1>6, <1>7, <1>8 DEF Loads
<1> QED  BY <1>1, <1>9 DEF u

\* What the programs begin with is quiet, the commands and the end too.
LEMMA EnterQuiet == Quiet(Ph!Enter4) /\ Quiet(Ph!Enter5)
<1> DEFINE a == Ph!Put(Ph!Master(\hA6), 2)
           b == Ph!Program(\h90000, 6)
<1>1. Ph!Enter4 = <<a, b>> /\ Ph!Enter5 = <<a, b>>
  BY DEF Ph!Enter4, Ph!Enter5
<1>2. Ph!Enter4 \in Seq(Writes(Unstarted))
  BY PieEnds
<1>3. a.val.regs = Ph!Master(\hA6)
  BY PutParts
<1>4. b \in Writes(Plain)
  <2> DEFINE base == \h90000
  <2>1. base \in Nat /\ base > 131238 /\ base <= \h90000
    OBVIOUS
  <2> HIDE DEF base
  <2>2. Ph!Program(base, 6) \in Writes(Plain)
    <3>1. base + 6 <= \h90017
      BY <2>1
    <3> QED  BY <2>1, <3>1, PlainProgram
  <2> QED  BY <2>2 DEF base
<1> HIDE DEF a, b
<1>5. ASSUME NEW g \in Ph!Everywhere(\h66) PROVE Keeps(<<a, b>>, g, 0)
  <2>1. g \notin a.val.regs
    BY <1>3, GatesApart
  <2>2. g \notin b.val.regs
    BY <1>4, PlainApart DEF Gates
  <2> QED  BY <2>1, <2>2 DEF Keeps
<1>6. \A r \in Boot : \A v : Keeps(<<a, b>>, r, v)
  <2>1. <<a, b>> \in Seq(Writes(Unstarted))
    BY <1>1, <1>2
  <2> QED  BY <2>1, PlainKeeps
<1> QED  BY <1>1, <1>5, <1>6 DEF Quiet

LEMMA CommandsPlain ==
  Ph!CommandsA5 \in Seq(Writes(Plain)) /\ Ph!CommandsB5 \in Seq(Writes(Plain))
<1>1. ASSUME NEW base \in Nat, base > 131238, base <= \h42000
      PROVE  Ph!Program(base, 552) \in Writes(Plain)
  <2>1. base + 552 <= \h90017
    BY <1>1
  <2> QED  BY <1>1, <2>1, PlainProgram
<1> DEFINE a == \h41000
           b == \h42000
<1>2. a \in Nat /\ a > 131238 /\ a <= \h42000 /\ b \in Nat /\ b > 131238 /\ b <= \h42000
  OBVIOUS
<1>3. Ph!CommandsA5 = <<Ph!Program(a, 552)>> /\ Ph!CommandsB5 = <<Ph!Program(b, 552)>>
  BY DEF Ph!CommandsA5, Ph!CommandsB5
<1> HIDE DEF a, b
<1>4. Ph!Program(a, 552) \in Writes(Plain) /\ Ph!Program(b, 552) \in Writes(Plain)
  BY <1>1, <1>2
<1> DEFINE p == Ph!Program(a, 552)
           q == Ph!Program(b, 552)
<1> HIDE DEF p, q
<1>5. <<p>> \in Seq(Writes(Plain)) /\ <<q>> \in Seq(Writes(Plain))
  BY <1>4 DEF p, q
<1> QED  BY <1>3, <1>5 DEF p, q

\* The programs between the writes that take the bus and give it back.
Body(d) ==
  IF d THEN Ph!Enter4 \o Ph!Engine4 \o Ph!Vectors4 \o Ph!Arm4
  ELSE Ph!Enter5 \o Ph!CommandsA5 \o Ph!CommandsB5 \o Ph!Engine5 \o Ph!Vectors5 \o Ph!Flags5 \o Ph!Arm5
Programs(d, s) == Loads(d, s) /\ \A g \in Ph!Master(\hA6) : Sets(s, g, 0)

\* The end of a program shuts the gate.
LEMMA ArmAfter ==
  ASSUME NEW d \in BOOLEAN, NEW s \in Seq(Writes(Even)), Loads(d, s), NEW a \in {Ph!Arm4, Ph!Arm5}
  PROVE  s \o a \in Seq(Writes(Even)) /\ Programs(d, s \o a)
<1>0. Shuts(a)
  BY PieEnds
<1>1. /\ a \in Seq(Writes(Unstarted)) /\ \A g \in Gates : Keeps(a, g, 0)
      /\ \A g \in Ph!Master(\hA6) : Sets(a, g, 0)
  BY <1>0 DEF Shuts
<1>2. \A r \in Boot : \A v : Keeps(a, r, v)
  BY <1>1, PlainKeeps
<1>3. Quiet(a)
  BY <1>1, <1>2 DEF Quiet, Gates
<1>4. a \in Seq(Writes(Even))
  BY <1>1, PlainWrites, SeqMonotonic
<1>5. s \o a \in Seq(Writes(Even)) /\ Loads(d, s \o a)
  BY <1>3, <1>4, QuietAfter
<1>6. \A g \in Ph!Master(\hA6) : Sets(s \o a, g, 0)
  BY <1>1, <1>4, JoinSets
<1> QED  BY <1>5, <1>6 DEF Programs

\* The instructions and the vectors of the two.
Engine(d) == IF d THEN Ph!Engine4 ELSE Ph!Engine5
Vectors(d) == IF d THEN Ph!Vectors4 ELSE Ph!Vectors5

LEMMA EngineOf ==
  ASSUME NEW d \in BOOLEAN
  PROVE  /\ Engine(d) \in Seq(Writes(Even))
         /\ \A r \in Gates \cup Ph!StartVectors : \A v : Keeps(Engine(d), r, v)
         /\ \A r \in Instrs(d) : Sets(Engine(d), r, 65536)
<1> DEFINE n == IF d THEN 207 ELSE 273
           s == <<Ph!Program(\h90029, n)>>
<1>1. n \in Nat /\ n <= 273
  OBVIOUS
<1>2. Engine(d) = s
  BY DEF Engine, Ph!Engine4, Ph!Engine5
<1>3. Instrs(d) = \h90029..(\h90029 + n - 1)
  BY DEF Instrs
<1> HIDE DEF n
<1>4. /\ s \in Seq(Writes(Even))
      /\ \A r \in Gates \cup Ph!StartVectors : \A v : Keeps(s, r, v)
      /\ \A r \in \h90029..(\h90029 + n - 1) : Sets(s, r, 65536)
  BY <1>1, Engines
<1> HIDE DEF s
<1> QED  BY <1>2, <1>3, <1>4

LEMMA VectorsOf ==
  ASSUME NEW d \in BOOLEAN
  PROVE  /\ Vectors(d) \in Seq(Writes(Even))
         /\ \A r \in Instrs(d) : \A v : Keeps(Vectors(d), r, v)
         /\ \A g \in Gates : Keeps(Vectors(d), g, 0)
         /\ Sets(Vectors(d), Vector1, 0) /\ Sets(Vectors(d), Vector3, Third(d))
         /\ IF d THEN \A v : Keeps(Vectors(d), Vector2, v) ELSE Sets(Vectors(d), Vector2, Second)
<1>1. ASSUME NEW r \in Instrs(d)
      PROVE  r \in Boot \ {Vector1, Vector3} /\ r \in Boot \ {Vector1, Vector2, Vector3}
  BY InstrsInBoot
<1>2. Vector2 \in Boot \ {Vector1, Vector3}
  BY VectorNumbers
<1>3. CASE d
  BY <1>1, <1>2, <1>3, VectorsOf4 DEF Vectors, Third
<1>4. CASE ~d
  BY <1>1, <1>4, VectorsOf5 DEF Vectors, Third
<1> QED  BY <1>3, <1>4

LEMMA BodyRight ==
  ASSUME NEW d \in BOOLEAN
  PROVE  Body(d) \in Seq(Writes(Even)) /\ Programs(d, Body(d))
<1> DEFINE W == Writes(Even)
<1>0. Seq(Writes(Unstarted)) \subseteq Seq(W) /\ Seq(Writes(Plain)) \subseteq Seq(W)
  <2>1. Writes(Unstarted) \subseteq W /\ Writes(Plain) \subseteq W
    BY PlainWrites
  <2> QED  BY <2>1, SeqMonotonic
<1>1. /\ Engine(d) \in Seq(W)
      /\ \A r \in Gates \cup Ph!StartVectors : \A v : Keeps(Engine(d), r, v)
      /\ \A r \in Instrs(d) : Sets(Engine(d), r, 65536)
  BY EngineOf
<1>2. /\ Vectors(d) \in Seq(W)
      /\ \A r \in Instrs(d) : \A v : Keeps(Vectors(d), r, v)
      /\ \A g \in Gates : Keeps(Vectors(d), g, 0)
      /\ Sets(Vectors(d), Vector1, 0) /\ Sets(Vectors(d), Vector3, Third(d))
      /\ IF d THEN \A v : Keeps(Vectors(d), Vector2, v) ELSE Sets(Vectors(d), Vector2, Second)
  BY VectorsOf
<1>3. CASE d
  <2>1. Ph!Enter4 \in Seq(W) /\ Quiet(Ph!Enter4)
    BY <1>0, PieEnds, EnterQuiet
  <2> DEFINE s == (Ph!Enter4 \o Engine(d)) \o Vectors(d)
  <2>2. Body(d) = s \o Ph!Arm4
    BY <1>3 DEF Body, Engine, Vectors
  <2> HIDE DEF W
  <2>3. s \in Seq(W) /\ Loads(d, s)
    BY <1>1, <1>2, <2>1, LoadsJoined
  <2> HIDE DEF s
  <2> QED  BY <2>2, <2>3, ArmAfter DEF W
<1>4. CASE ~d
  <2>1. /\ Ph!Enter5 \in Seq(W) /\ Quiet(Ph!Enter5)
        /\ Ph!CommandsA5 \in Seq(W) /\ Quiet(Ph!CommandsA5)
        /\ Ph!CommandsB5 \in Seq(W) /\ Quiet(Ph!CommandsB5)
        /\ Ph!Flags5 \in Seq(W) /\ Quiet(Ph!Flags5)
    BY <1>0, PieEnds, EnterQuiet, CommandsPlain, PlainQuiet
  <2> DEFINE e == (Ph!Enter5 \o Ph!CommandsA5) \o Ph!CommandsB5
             s == (e \o Engine(d)) \o Vectors(d)
             t == s \o Ph!Flags5
  <2>2. Body(d) = t \o Ph!Arm5
    BY <1>4 DEF Body, Engine, Vectors
  <2> HIDE DEF W
  <2>3. e \in Seq(W) /\ Quiet(e)
    <3>1. Ph!Enter5 \o Ph!CommandsA5 \in Seq(W) /\ Quiet(Ph!Enter5 \o Ph!CommandsA5)
      BY <2>1, QuietBoth
    <3> QED  BY <2>1, <3>1, QuietBoth
  <2> HIDE DEF e
  <2>4. s \in Seq(W) /\ Loads(d, s)
    BY <1>1, <1>2, <2>3, LoadsJoined
  <2> HIDE DEF s
  <2>5. t \in Seq(W) /\ Loads(d, t)
    BY <2>1, <2>4, QuietAfter
  <2> HIDE DEF t
  <2> QED  BY <2>2, <2>5, ArmAfter DEF W
<1> QED  BY <1>3, <1>4

-----------------------------------------------------------------------------
(* The message blocks.                                                     *)

LEMMA OverAt ==
  ASSUME NEW f, NEW g, NEW x
  PROVE  /\ x \in DOMAIN Ph!Over(f, g) <=> x \in DOMAIN f \/ x \in DOMAIN g
         /\ x \in DOMAIN f => Ph!Over(f, g)[x] = f[x]
         /\ x \in DOMAIN g /\ x \notin DOMAIN f => Ph!Over(f, g)[x] = g[x]
  BY DEF Ph!Over

\* What the fields that both passes of DDR4 have leave alone, and the modes.
LEMMA HeaderOf4 == \A h \in DOMAIN Ph!Header4 : h \in 3..3 \/ h \in 6..8 \/ h \in 12..12 \/ h \in 18..18
<1> DEFINE a == <<\hC80>>
           b == <<\h240, \h1000, 1>>
           c == <<\hC8>>
           d == <<2>>
           fa == Ph!Halves(3, a)
           fb == Ph!Halves(6, b)
           fc == Ph!Halves(12, c)
           fd == Ph!Halves(18, d)
<1>1. Len(a) = 1 /\ Len(b) = 3 /\ Len(c) = 1 /\ Len(d) = 1
  OBVIOUS
<1>2. Ph!Header4 = Ph!Over(fa, Ph!Over(fb, Ph!Over(fc, fd)))
  BY DEF Ph!Header4
<1> HIDE DEF a, b, c, d
<1>3. /\ \A h : h \in DOMAIN fa <=> h \in 3..3
      /\ \A h : h \in DOMAIN fb <=> h \in 6..8
      /\ \A h : h \in DOMAIN fc <=> h \in 12..12
      /\ \A h : h \in DOMAIN fd <=> h \in 18..18
  <2>1. \A h : h \in DOMAIN fa <=> h \in 3..3
    BY <1>1 DEF Ph!Halves
  <2>2. \A h : h \in DOMAIN fb <=> h \in 6..8
    BY <1>1 DEF Ph!Halves
  <2>3. \A h : h \in DOMAIN fc <=> h \in 12..12
    BY <1>1 DEF Ph!Halves
  <2>4. \A h : h \in DOMAIN fd <=> h \in 18..18
    BY <1>1 DEF Ph!Halves
  <2> QED  BY <2>1, <2>2, <2>3, <2>4
<1> HIDE DEF fa, fb, fc, fd
<1>4. ASSUME NEW h \in DOMAIN Ph!Header4
      PROVE  h \in DOMAIN fa \/ h \in DOMAIN fb \/ h \in DOMAIN fc \/ h \in DOMAIN fd
  BY <1>2, OverAt
<1> QED  BY <1>3, <1>4

LEMMA ModesOf4 ==
  /\ \A h : h \in DOMAIN Ph!Modes4 <=> h \in 47..53
  /\ Ph!Modes4[47] = Ph!MR0 /\ Ph!Modes4[49] = Ph!MR2 /\ Ph!Modes4[51] = Ph!MR4
<1> DEFINE m == <<\h2150, \h101, \h228, \h400, 0, \h500, \h104F>>
<1>1. Len(m) = 7 /\ m[1] = Ph!MR0 /\ m[3] = Ph!MR2 /\ m[5] = Ph!MR4
  BY DEF Ph!MR0, Ph!MR2, Ph!MR4
<1>2. Ph!Modes4 = Ph!Halves(47, m)
  BY DEF Ph!Modes4
<1> HIDE DEF m
<1>3. Ph!Halves(47, m) = [h \in 47..53 |-> m[h - 47 + 1]]
  BY <1>1 DEF Ph!Halves
<1> QED  BY <1>1, <1>2, <1>3

LEMMA CommonOf4 ==
  /\ 10 \notin DOMAIN Ph!Common4
  /\ 47 \in DOMAIN Ph!Common4 /\ Ph!Common4[47] = Ph!MR0
  /\ 49 \in DOMAIN Ph!Common4 /\ Ph!Common4[49] = Ph!MR2
  /\ 51 \in DOMAIN Ph!Common4 /\ Ph!Common4[51] = Ph!MR4
<1> DEFINE n == Ph!Over(Ph!Modes4, Ph!Terms4)
<1>1. DOMAIN Ph!Terms4 = 67..106
  BY DEF Ph!Terms4
<1>2. Ph!Common4 = Ph!Over(Ph!Header4, n)
  BY DEF Ph!Common4
<1>3. 10 \notin DOMAIN n
  <2>1. 10 \notin DOMAIN Ph!Modes4 /\ 10 \notin DOMAIN Ph!Terms4
    BY <1>1, ModesOf4
  <2> QED  BY <2>1, OverAt
<1>4. /\ 47 \in DOMAIN n /\ n[47] = Ph!MR0
      /\ 49 \in DOMAIN n /\ n[49] = Ph!MR2
      /\ 51 \in DOMAIN n /\ n[51] = Ph!MR4
  <2>1. 47 \in DOMAIN Ph!Modes4 /\ 49 \in DOMAIN Ph!Modes4 /\ 51 \in DOMAIN Ph!Modes4
    BY ModesOf4
  <2> QED  BY <2>1, ModesOf4, OverAt
<1>5. /\ 47 \notin DOMAIN Ph!Header4 /\ 49 \notin DOMAIN Ph!Header4 /\ 51 \notin DOMAIN Ph!Header4
      /\ 10 \notin DOMAIN Ph!Header4
  BY HeaderOf4
<1> HIDE DEF n
<1> QED  BY <1>2, <1>3, <1>4, <1>5, OverAt

\* A block of DDR4 says no result and names these modes; that of DDR5 says none.
LEMMA BlockOf4 ==
  ASSUME NEW base \in 0..2, NEW fields, \A h \in DOMAIN fields : h \in {0, 11, 14},
         NEW b, b = Ph!Block4(base, fields)
  PROVE  /\ 10 \in DOMAIN b /\ b[10] = 0
         /\ b[47] = Ph!MR0 /\ b[49] = Ph!MR2 /\ b[51] = Ph!MR4
         /\ b = [h \in DOMAIN b |-> b[h]]
<1> DEFINE z == Ph!Zero(base, 511)
           c == Ph!Over(Ph!Common4, z)
<1>1. b = Ph!Over(fields, c)
  BY DEF Ph!Block4
<1>2. 10 \in DOMAIN z /\ z[10] = 0
  BY DEF Ph!Zero
<1> HIDE DEF z
<1>3. /\ 10 \in DOMAIN c /\ c[10] = 0
      /\ 47 \in DOMAIN c /\ c[47] = Ph!MR0
      /\ 49 \in DOMAIN c /\ c[49] = Ph!MR2
      /\ 51 \in DOMAIN c /\ c[51] = Ph!MR4
  BY <1>2, CommonOf4, OverAt
<1> HIDE DEF c
<1>4. 10 \notin DOMAIN fields /\ 47 \notin DOMAIN fields /\ 49 \notin DOMAIN fields /\ 51 \notin DOMAIN fields
  OBVIOUS
<1>5. /\ 10 \in DOMAIN b /\ b[10] = 0
      /\ b[47] = Ph!MR0 /\ b[49] = Ph!MR2 /\ b[51] = Ph!MR4
  BY <1>1, <1>3, <1>4, OverAt
<1>6. b = [h \in DOMAIN b |-> b[h]]
  BY <1>1 DEF Ph!Over
<1> QED  BY <1>5, <1>6

LEMMA BlockOf5 ==
  /\ 7 \in DOMAIN Ph!Block5 /\ Ph!Block5[7] = 0
  /\ Ph!Block5 = [h \in DOMAIN Ph!Block5 |-> Ph!Block5[h]]
<1> DEFINE a == <<\h100>>
           b == <<\hC80>>
           c == <<\h40, 0, \h827F, \hC8>>
           rest == Ph!Over(Ph!Halves(11, <<\h102, 1, \h1000>>), Ph!Halves(18, <<\h110>>))
           more == Ph!Over(Ph!Ranks5, Ph!Over(Ph!Lanes5, Ph!Over(Ph!Levels5, Ph!Zero(0, \h3FF))))
           fa == Ph!Halves(0, a)
           fb == Ph!Halves(3, b)
           fc == Ph!Halves(6, c)
<1>1. Len(a) = 1 /\ Len(b) = 1 /\ Len(c) = 4 /\ c[2] = 0
  OBVIOUS
<1>2. Ph!Block5 = Ph!Over(Ph!Header5, more) /\ Ph!Header5 = Ph!Over(fa, Ph!Over(fb, Ph!Over(fc, rest)))
  BY DEF Ph!Block5, Ph!Header5
<1> HIDE DEF a, b, c, rest, more
<1>3. 7 \notin DOMAIN fa /\ 7 \notin DOMAIN fb
  BY <1>1 DEF Ph!Halves
<1>4. 7 \in DOMAIN fc /\ fc[7] = 0
  <2>1. fc = [h \in 6..9 |-> c[h - 6 + 1]]
    BY <1>1 DEF Ph!Halves
  <2> QED  BY <1>1, <2>1
<1> HIDE DEF fa, fb, fc
<1>5. 7 \in DOMAIN Ph!Header5 /\ Ph!Header5[7] = 0
  BY <1>2, <1>3, <1>4, OverAt
<1>6. 7 \in DOMAIN Ph!Block5 /\ Ph!Block5[7] = 0
  BY <1>2, <1>5, OverAt
<1>7. Ph!Block5 = [h \in DOMAIN Ph!Block5 |-> Ph!Block5[h]]
  BY <1>2 DEF Ph!Over
<1> QED  BY <1>6, <1>7

\* The parameters of a pass, which are all of what a message block writes: they say no
\* result, and those of the second pass name the modes that init writes.
Params(p) == Ph!MessageBlock(p)[1].val

LEMMA ParamsRight ==
  ASSUME ddr4 \in BOOLEAN, NEW p \in Ph!Passes
  PROVE  /\ Ph!MessageBlock(p) = <<Ph!Write("block", Params(p)), Ph!Mcu>>
         /\ Ph!Cleared(Params(p))
         /\ Ph!Over(Params(p), <<>>) = Params(p)
         /\ ddr4 => /\ Params(p)[47] = Ph!MR0 /\ Params(p)[49] = Ph!MR2
                    /\ Params(p)[51] = Ph!MR4
<1> DEFINE b == Params(p)
<1>1. ASSUME NEW w PROVE Ph!Write("block", w).val = w
  BY DEF Ph!Write
<1>2. ASSUME NEW f, f = [h \in DOMAIN f |-> f[h]] PROVE Ph!Over(f, <<>>) = f
  <2>1. DOMAIN <<>> = {}
    OBVIOUS
  <2>2. Ph!Over(f, <<>>) = [h \in DOMAIN f |-> f[h]]
    BY <2>1 DEF Ph!Over
  <2> QED  BY <1>2, <2>2
<1>3. CASE ddr4
  <2>1. PICK base, fields :
           /\ base \in 0..2
           /\ \A h \in DOMAIN fields : h \in {0, 11, 14}
           /\ Ph!MessageBlock(p) = <<Ph!Write("block", Ph!Block4(base, fields)), Ph!Mcu>>
    <3>1. CASE p = "1d"
      <4> DEFINE x == <<\h100>>
                 y == <<\h31F>>
                 f == Ph!Over(Ph!Halves(0, x), Ph!Halves(11, y))
      <4>1. Len(x) = 1 /\ Len(y) = 1
        OBVIOUS
      <4>2. Ph!MessageBlock(p) = <<Ph!Write("block", Ph!Block4(0, f)), Ph!Mcu>>
        BY <1>3, <3>1 DEF Ph!MessageBlock, Ph!DMEM_MSG_DDR4_1D
      <4> HIDE DEF x, y
      <4>3. (\A h \in DOMAIN Ph!Halves(0, x) : h = 0) /\ \A h \in DOMAIN Ph!Halves(11, y) : h = 11
        BY <4>1 DEF Ph!Halves
      <4>4. \A h \in DOMAIN f : h \in {0, 11, 14}
        BY <4>3, OverAt
      <4> HIDE DEF f
      <4> QED  BY <4>2, <4>4
    <3>2. CASE p = "2d"
      <4> DEFINE x == <<\h61>>
                 y == <<\h8020>>
                 f == Ph!Over(Ph!Halves(11, x), Ph!Halves(14, y))
      <4>1. Len(x) = 1 /\ Len(y) = 1
        OBVIOUS
      <4>2. Ph!MessageBlock(p) = <<Ph!Write("block", Ph!Block4(2, f)), Ph!Mcu>>
        BY <1>3, <3>2 DEF Ph!MessageBlock, Ph!DMEM_MSG_DDR4_2D
      <4> HIDE DEF x, y
      <4>3. (\A h \in DOMAIN Ph!Halves(11, x) : h = 11) /\ \A h \in DOMAIN Ph!Halves(14, y) : h = 14
        BY <4>1 DEF Ph!Halves
      <4>4. \A h \in DOMAIN f : h \in {0, 11, 14}
        BY <4>3, OverAt
      <4> HIDE DEF f
      <4> QED  BY <4>2, <4>4
    <3> QED  BY <3>1, <3>2 DEF Ph!Passes
  <2>2. b = Ph!Block4(base, fields)
    BY <1>1, <2>1 DEF Params
  <2> HIDE DEF b
  <2>3. /\ 10 \in DOMAIN b /\ b[10] = 0
        /\ b[47] = Ph!MR0 /\ b[49] = Ph!MR2 /\ b[51] = Ph!MR4
        /\ b = [h \in DOMAIN b |-> b[h]]
    BY <2>1, <2>2, BlockOf4
  <2>4. Ph!Cleared(b)
    BY <1>3, <2>3 DEF Ph!Cleared
  <2>5. Ph!Over(b, <<>>) = b
    BY <1>2, <2>3
  <2> QED  BY <2>1, <2>2, <2>3, <2>4, <2>5 DEF b
<1>4. CASE ~ddr4
  <2>1. Ph!MessageBlock(p) = <<Ph!Write("block", Ph!Block5), Ph!Mcu>>
    BY <1>4 DEF Ph!MessageBlock, Ph!DMEM_MSG_DDR5_1D
  <2>2. b = Ph!Block5
    BY <1>1, <2>1 DEF Params
  <2> HIDE DEF b
  <2>3. Ph!Cleared(b)
    BY <1>4, <2>2, BlockOf5 DEF Ph!Cleared
  <2>4. Ph!Over(b, <<>>) = b
    BY <1>2, <2>2, BlockOf5
  <2> QED  BY <1>4, <2>1, <2>2, <2>3, <2>4 DEF b
<1> QED  BY <1>3, <1>4

-----------------------------------------------------------------------------
(* Writes in their order.                                                  *)

\* A sequence of something, and what is left of the words of an image after the first k.
Listed(s) == \E S : s \in Seq(S)
Rest(to, p, k) == [i \in 1..(ImageWords - k) |-> [to |-> to, val |-> p, word |-> k + i]]

LEMMA Lists ==
  /\ Listed(<<>>) /\ (\A a : Listed(<<a>>)) /\ (\A a, b : Listed(<<a, b>>)) /\ \A a, b, c : Listed(<<a, b, c>>)
  /\ \A s : Listed(s) => <<>> \o s = s /\ s \o <<>> = s
  /\ \A s, t : Listed(s) /\ Listed(t) => Listed(s \o t)
<1>1. Listed(<<>>)
  BY EmptySeq DEF Listed
<1>2. ASSUME NEW a PROVE Listed(<<a>>)
  <2>1. <<a>> \in Seq({a})
    OBVIOUS
  <2> QED  BY <2>1 DEF Listed
<1>3. ASSUME NEW a, NEW b PROVE Listed(<<a, b>>)
  <2>1. <<a, b>> \in Seq({a, b})
    OBVIOUS
  <2> QED  BY <2>1, Zenon DEF Listed
<1>4. ASSUME NEW a, NEW b, NEW c PROVE Listed(<<a, b, c>>)
  <2>1. <<a, b, c>> \in Seq({a, b, c})
    OBVIOUS
  <2> QED  BY <2>1, Zenon DEF Listed
<1>5. ASSUME NEW s, Listed(s) PROVE <<>> \o s = s /\ s \o <<>> = s
  BY <1>5, ConcatEmptySeq DEF Listed
<1>6. ASSUME NEW s, NEW t, Listed(s), Listed(t) PROVE Listed(s \o t)
  <2>1. PICK S, T : s \in Seq(S) /\ t \in Seq(T)
    BY <1>6 DEF Listed
  <2>2. s \in Seq(S \cup T) /\ t \in Seq(S \cup T)
    BY <2>1, SeqMonotonic
  <2>3. s \o t \in Seq(S \cup T)
    BY <2>2, ConcatProperties
  <2> QED  BY <2>3 DEF Listed
<1> QED  BY <1>1, <1>2, <1>3, <1>4, <1>5, <1>6

\* The first of what comes first is taken first.
LEMMA Consume ==
  ASSUME NEW s, NEW t, Listed(s), Listed(t), s # <<>>
  PROVE  s \o t # <<>> /\ Head(s \o t) = Head(s) /\ Tail(s \o t) = Tail(s) \o t /\ Listed(Tail(s))
<1>1. PICK S, T : s \in Seq(S) /\ t \in Seq(T)
  BY DEF Listed
<1> DEFINE U == S \cup T
<1>2. s \in Seq(U) /\ t \in Seq(U)
  BY <1>1, SeqMonotonic
<1> HIDE DEF U
<1> DEFINE u == s \o t
           m == Len(s)
           n == Len(t)
           e == Tail(s)
           f == Tail(u)
<1>3. m \in Nat \ {0} /\ n \in Nat
  BY <1>2, EmptySeq, LenProperties
<1>4. u \in Seq(U) /\ Len(u) = m + n /\ \A i \in 1..(m + n) : u[i] = IF i <= m THEN s[i] ELSE t[i - m]
  BY <1>2, ConcatProperties
<1>5. u # <<>>
  BY <1>3, <1>4, EmptySeq
<1>6. e \in Seq(U) /\ Len(e) = m - 1 /\ \A i \in 1..(m - 1) : e[i] = s[i + 1]
  BY <1>2, HeadTailProperties
<1>7. f \in Seq(U) /\ Len(f) = (m + n) - 1 /\ \A i \in 1..((m + n) - 1) : f[i] = u[i + 1]
  BY <1>4, <1>5, HeadTailProperties
<1>8. Head(u) = u[1] /\ Head(s) = s[1]
  BY DEF u
<1>9. e \o t \in Seq(U) /\ Len(e \o t) = (m - 1) + n
      /\ \A i \in 1..((m - 1) + n) : (e \o t)[i] = IF i <= m - 1 THEN e[i] ELSE t[i - (m - 1)]
  BY <1>2, <1>6, ConcatProperties
<1> HIDE DEF u, m, n, e, f
<1>10. Head(u) = Head(s)
  BY <1>3, <1>4, <1>8
<1>11. Len(f) = Len(e \o t) /\ Len(f) \in Nat
  BY <1>3, <1>7, <1>9
<1>12. ASSUME NEW i \in 1..((m + n) - 1) PROVE f[i] = (e \o t)[i]
  <2>1. i + 1 \in 1..(m + n) /\ i \in 1..((m - 1) + n)
    BY <1>3
  <2>2. CASE i <= m - 1
    <3>1. i + 1 <= m /\ i \in 1..(m - 1)
      BY <1>3, <2>2
    <3> QED  BY <1>4, <1>6, <1>7, <1>9, <2>1, <2>2, <3>1
  <2>3. CASE ~(i <= m - 1)
    <3>1. ~(i + 1 <= m) /\ (i + 1) - m = i - (m - 1)
      BY <1>3, <2>3
    <3> QED  BY <1>4, <1>7, <1>9, <2>1, <2>3, <3>1
  <2> QED  BY <2>2, <2>3
<1>13. f = e \o t
  <2>1. Len(f) = (m + n) - 1
    BY <1>7
  <2> QED  BY <1>7, <1>9, <1>11, <1>12, <2>1, SeqEqual
<1> QED  BY <1>5, <1>6, <1>10, <1>13 DEF Listed, u, e, f

LEMMA BlobRest ==
  ASSUME PartsAssumption, NEW to, NEW p
  PROVE  /\ Ph!Blob(to, p) = Rest(to, p, 0)
         /\ Rest(to, p, ImageWords) = <<>>
         /\ \A k \in 0..ImageWords :
              /\ Listed(Rest(to, p, k))
              /\ k # ImageWords => /\ Rest(to, p, k) # <<>> /\ k + 1 \in 0..ImageWords
                                   /\ Head(Rest(to, p, k)) = [to |-> to, val |-> p, word |-> k + 1]
                                   /\ Tail(Rest(to, p, k)) = Rest(to, p, k + 1)
<1>0. ImageWords \in Nat \ {0}
  BY DEF PartsAssumption, Ph!PhyAssumption
<1>1. Ph!Blob(to, p) = Rest(to, p, 0)
  BY <1>0 DEF Ph!Blob, Rest
<1>2. Rest(to, p, ImageWords) = <<>>
  BY <1>0 DEF Rest
<1> DEFINE w(i) == [to |-> to, val |-> p, word |-> i]
           S == {w(i) : i \in Nat}
<1>3. ASSUME NEW k \in 0..ImageWords
      PROVE  /\ Rest(to, p, k) \in Seq(S) /\ Len(Rest(to, p, k)) = ImageWords - k
             /\ \A i \in 1..(ImageWords - k) : Rest(to, p, k)[i] = w(k + i)
  <2>1. ImageWords - k \in Nat
    BY <1>0
  <2>2. \A i \in 1..(ImageWords - k) : w(k + i) \in S
    BY <1>0
  <2> HIDE DEF S, w
  <2>3. Rest(to, p, k) = [i \in 1..(ImageWords - k) |-> w(k + i)]
    BY DEF Rest, w
  <2>4. Rest(to, p, k) \in [1..(ImageWords - k) -> S]
    BY <2>2, <2>3
  <2> QED  BY <2>1, <2>3, <2>4, SeqDef, LenProperties
<1> HIDE DEF S, w
<1>4. ASSUME NEW k \in 0..ImageWords, k # ImageWords
      PROVE  /\ Rest(to, p, k) # <<>> /\ k + 1 \in 0..ImageWords
             /\ Head(Rest(to, p, k)) = w(k + 1)
             /\ Tail(Rest(to, p, k)) = Rest(to, p, k + 1)
  <2> DEFINE r == Rest(to, p, k)
             n == Rest(to, p, k + 1)
  <2>1. k + 1 \in 0..ImageWords /\ ImageWords - k \in Nat \ {0}
    BY <1>0, <1>4
  <2>2. r \in Seq(S) /\ Len(r) = ImageWords - k /\ \A i \in 1..(ImageWords - k) : r[i] = w(k + i)
    BY <1>3
  <2>3. n \in Seq(S) /\ Len(n) = ImageWords - (k + 1) /\ \A i \in 1..(ImageWords - (k + 1)) : n[i] = w((k + 1) + i)
    BY <1>3, <2>1
  <2> HIDE DEF r, n
  <2>4. r # <<>>
    BY <2>1, <2>2, EmptySeq
  <2>5. Head(r) = w(k + 1)
    BY <2>1, <2>2
  <2>6. Tail(r) \in Seq(S) /\ Len(Tail(r)) = Len(r) - 1 /\ \A i \in 1..Len(Tail(r)) : Tail(r)[i] = r[i + 1]
    BY <2>2, <2>4, HeadTailProperties
  <2>7. Len(Tail(r)) = Len(n)
    BY <1>0, <2>2, <2>3, <2>6
  <2>8. ASSUME NEW i \in 1..Len(n) PROVE Tail(r)[i] = n[i]
    <3>1. i + 1 \in 1..(ImageWords - k) /\ k + (i + 1) = (k + 1) + i
      BY <1>0, <2>3
    <3> QED  BY <2>2, <2>3, <2>6, <2>7, <3>1
  <2>9. Tail(r) = n
    BY <2>3, <2>6, <2>7, <2>8, SeqEqual
  <2> QED  BY <2>1, <2>4, <2>5, <2>9 DEF r, n
<1>5. \A k \in 0..ImageWords : Listed(Rest(to, p, k))
  BY <1>3 DEF Listed
<1> QED  BY <1>1, <1>2, <1>4, <1>5 DEF w

-----------------------------------------------------------------------------
(* The registers while a table is written.                                 *)

\* Both bytes hold the same; what a register will hold after the writes s; no
\* sequencer was given anything yet.
Alike(c) ==
  \A l \in 0..8, reg \in 0..255 :
    /\ Lane(l, reg) \in DOMAIN c <=> Lane(l, reg) + 4096 \in DOMAIN c
    /\ Lane(l, reg) \in DOMAIN c => c[Lane(l, reg)] = c[Lane(l, reg) + 4096]
Ends(c, s, r, v) == (r \in DOMAIN c /\ c[r] = v /\ Keeps(s, r, v)) \/ Sets(s, r, v)
Vacant(c) == \A r \in Boot : r \notin DOMAIN c
Closed(c) == \A g \in Gates : g \in DOMAIN c /\ c[g] = 0
Puts(c, w) == Ph!Over([r \in w.val.regs |-> w.val.val], c)

\* What a write makes of a register.
LEMMA PutsAt ==
  ASSUME NEW c, NEW w, NEW r
  PROVE  /\ r \in DOMAIN Puts(c, w) <=> r \in w.val.regs \/ r \in DOMAIN c
         /\ r \in w.val.regs => Puts(c, w)[r] = w.val.val
         /\ r \in DOMAIN c /\ r \notin w.val.regs => Puts(c, w)[r] = c[r]
<1> DEFINE f == [x \in w.val.regs |-> w.val.val]
<1>1. DOMAIN f = w.val.regs /\ (r \in w.val.regs => f[r] = w.val.val)
  OBVIOUS
<1> HIDE DEF f
<1>2. /\ r \in DOMAIN Ph!Over(f, c) <=> r \in DOMAIN f \/ r \in DOMAIN c
      /\ r \in DOMAIN f => Ph!Over(f, c)[r] = f[r]
      /\ r \in DOMAIN c /\ r \notin DOMAIN f => Ph!Over(f, c)[r] = c[r]
  BY OverAt
<1>3. Puts(c, w) = Ph!Over(f, c)
  BY DEF Puts, f
<1> QED  BY <1>1, <1>2, <1>3

\* The first write is made and the others are to come.
LEMMA EndsOn ==
  ASSUME NEW S, NEW s \in Seq(S), s # <<>>, NEW c, NEW r, NEW v, Ends(c, s, r, v)
  PROVE  Ends(Puts(c, Head(s)), Tail(s), r, v)
<1> DEFINE t == Tail(s)
           n == Len(s)
           w == Head(s)
           d == Puts(c, w)
<1>1. n \in Nat \ {0}
  BY EmptySeq
<1>2. t \in Seq(S) /\ Len(t) = n - 1 /\ \A i \in 1..Len(t) : t[i] = s[i + 1]
  BY HeadTailProperties
<1>3. w = s[1]
  OBVIOUS
<1>4. /\ r \in DOMAIN d <=> r \in w.val.regs \/ r \in DOMAIN c
      /\ r \in w.val.regs => d[r] = w.val.val
      /\ r \in DOMAIN c /\ r \notin w.val.regs => d[r] = c[r]
  BY PutsAt
<1> HIDE DEF t, n, w, d
<1>5. 1 \in 1..n /\ \A i \in 1..Len(t) : i + 1 \in 1..n /\ t[i] = s[i + 1]
  BY <1>1, <1>2
<1>6. CASE r \in DOMAIN c /\ c[r] = v /\ Keeps(s, r, v)
  <2>1. Keeps(t, r, v)
    BY <1>5, <1>6 DEF Keeps, n
  <2>2. r \in w.val.regs => w.val.val = v
    BY <1>3, <1>5, <1>6 DEF Keeps, n
  <2>3. r \in DOMAIN d /\ d[r] = v
    BY <1>4, <1>6, <2>2
  <2> QED  BY <2>1, <2>3 DEF Ends, d, w, t
<1>7. CASE Sets(s, r, v)
  <2>1. PICK i \in 1..n : /\ r \in s[i].val.regs /\ s[i].val.val = v
                          /\ \A j \in 1..n : j > i /\ r \in s[j].val.regs => s[j].val.val = v
    BY <1>7 DEF Sets, n
  <2>2. CASE i = 1
    <3>1. r \in DOMAIN d /\ d[r] = v
      BY <1>3, <1>4, <2>1, <2>2
    <3>2. ASSUME NEW j \in 1..Len(t), r \in t[j].val.regs PROVE t[j].val.val = v
      <4>1. j + 1 \in 1..n /\ t[j] = s[j + 1] /\ j + 1 > i
        BY <1>5, <2>2
      <4> QED  BY <2>1, <3>2, <4>1
    <3> QED  BY <3>1, <3>2 DEF Ends, Keeps, d, w, t
  <2>3. CASE i # 1
    <3>1. i - 1 \in 1..Len(t) /\ t[i - 1] = s[i]
      BY <1>1, <1>2, <2>3
    <3>2. ASSUME NEW j \in 1..Len(t), j > i - 1, r \in t[j].val.regs PROVE t[j].val.val = v
      <4>1. j + 1 \in 1..n /\ t[j] = s[j + 1] /\ j + 1 > i
        BY <1>1, <1>2, <3>2
      <4> QED  BY <2>1, <3>2, <4>1
    <3>3. Sets(t, r, v)
      BY <2>1, <3>1, <3>2 DEF Sets
    <3> QED  BY <3>3 DEF Ends, d, w, t
  <2> QED  BY <2>2, <2>3
<1> QED  BY <1>6, <1>7 DEF Ends

\* When all writes are made, the register holds it.
LEMMA EndsHold ==
  ASSUME NEW c, NEW r, NEW v, Ends(c, <<>>, r, v)
  PROVE  r \in DOMAIN c /\ c[r] = v
<1>1. Len(<<>>) = 0
  OBVIOUS
<1>2. ~Sets(<<>>, r, v)
  BY <1>1 DEF Sets
<1> QED  BY <1>2 DEF Ends

\* A write to an even set keeps both bytes alike; one that no sequencer starts with
\* gives none anything.
LEMMA AlikeKept ==
  ASSUME NEW c, Alike(c), NEW w \in Writes(Even)
  PROVE  Alike(Puts(c, w))
<1> DEFINE d == Puts(c, w)
<1>1. w.val.regs \in Even
  BY WriteParts
<1> SUFFICES ASSUME NEW l \in 0..8, NEW reg \in 0..255
             PROVE  /\ Lane(l, reg) \in DOMAIN d <=> Lane(l, reg) + 4096 \in DOMAIN d
                    /\ Lane(l, reg) \in DOMAIN d => d[Lane(l, reg)] = d[Lane(l, reg) + 4096]
  BY Zenon DEF Alike
<1> DEFINE x == Lane(l, reg)
           y == Lane(l, reg) + 4096
           R == w.val.regs
<1>2. x \in R <=> y \in R
  <2>1. \A T \in Even : Lane(l, reg) \in T <=> Lane(l, reg) + 4096 \in T
    BY DEF Even
  <2> QED  BY <1>1, <2>1
<1>3. /\ x \in DOMAIN c <=> y \in DOMAIN c
      /\ x \in DOMAIN c => c[x] = c[y]
  BY DEF Alike
<1>4. /\ x \in DOMAIN d <=> x \in R \/ x \in DOMAIN c
      /\ x \in R => d[x] = w.val.val
      /\ x \in DOMAIN c /\ x \notin R => d[x] = c[x]
  BY PutsAt
<1>5. /\ y \in DOMAIN d <=> y \in R \/ y \in DOMAIN c
      /\ y \in R => d[y] = w.val.val
      /\ y \in DOMAIN c /\ y \notin R => d[y] = c[y]
  BY PutsAt
<1> HIDE DEF x, y, R, d
<1>6. (x \in DOMAIN d <=> y \in DOMAIN d) /\ (x \in DOMAIN d => d[x] = d[y])
  BY <1>2, <1>3, <1>4, <1>5
<1> QED  BY <1>6 DEF x, y, d

LEMMA VacantKept ==
  ASSUME NEW c, Vacant(c), NEW w \in Writes(Unstarted)
  PROVE  Vacant(Puts(c, w))
<1>1. \A r \in Boot : r \notin w.val.regs
  BY WriteParts DEF Unstarted
<1> QED  BY <1>1, PutsAt DEF Vacant

LEMMA ClosedKept ==
  ASSUME NEW c, Closed(c), NEW w \in Writes(Plain)
  PROVE  Closed(Puts(c, w))
<1>1. \A r \in Gates : r \notin w.val.regs
  BY PlainApart
<1> QED  BY <1>1, PutsAt DEF Closed

\* Registers before any write.
LEMMA NoRegisters == Alike(<<>>) /\ Vacant(<<>>)
<1>1. DOMAIN <<>> = {}
  OBVIOUS
<1> QED  BY <1>1 DEF Alike, Vacant

\* What the properties say of them.
LEMMA ShutIsClosed == Closed(csr) => Ph!Shut
  BY DEF Closed, Gates, Ph!Shut

LEMMA AlikeBytes ==
  ASSUME Alike(csr) PROVE Ph!BytesAlike
<1> SUFFICES ASSUME NEW l \in 0..8, NEW reg \in 0..255
             PROVE  Ph!Holds(1, 0, l, reg) = Ph!Holds(1, 1, l, reg)
  BY DEF Ph!BytesAlike
<1>1. Ph!Csr(1, {0}, {l}, reg) = {Lane(l, reg)} /\ Ph!Csr(1, {1}, {l}, reg) = {Lane(l, reg) + 4096}
  BY DEF Ph!Csr, Lane
<1>2. /\ Lane(l, reg) \in DOMAIN csr <=> Lane(l, reg) + 4096 \in DOMAIN csr
      /\ Lane(l, reg) \in DOMAIN csr => csr[Lane(l, reg)] = csr[Lane(l, reg) + 4096]
  BY DEF Alike
<1> DEFINE x == Lane(l, reg)
           y == Lane(l, reg) + 4096
<1> HIDE DEF x, y
<1>3. Ph!Holds(1, 0, l, reg) = {csr[r] : r \in {x} \cap DOMAIN csr}
      /\ Ph!Holds(1, 1, l, reg) = {csr[r] : r \in {y} \cap DOMAIN csr}
  <2> DEFINE A == Ph!Csr(1, {0}, {l}, reg)
             B == Ph!Csr(1, {1}, {l}, reg)
  <2>1. Ph!Holds(1, 0, l, reg) = {csr[r] : r \in A \cap DOMAIN csr}
        /\ Ph!Holds(1, 1, l, reg) = {csr[r] : r \in B \cap DOMAIN csr}
    BY DEF Ph!Holds
  <2>2. A = {x} /\ B = {y}
    BY <1>1 DEF x, y
  <2> HIDE DEF A, B
  <2> QED  BY <2>1, <2>2
<1>4. x \in DOMAIN csr <=> y \in DOMAIN csr
  BY <1>2 DEF x, y
<1>5. x \in DOMAIN csr => csr[x] = csr[y]
  BY <1>2 DEF x, y
<1>6. \A z : {csr[r] : r \in {z} \cap DOMAIN csr} = IF z \in DOMAIN csr THEN {csr[z]} ELSE {}
  OBVIOUS
<1>7. {csr[r] : r \in {x} \cap DOMAIN csr} = {csr[r] : r \in {y} \cap DOMAIN csr}
  BY <1>4, <1>5, <1>6
<1> QED  BY <1>3, <1>7

\* What the registers will be once the rest s of a program is written.
Programmed(d, c, s) ==
  /\ \A g \in Gates : Ends(c, s, g, 0)
  /\ Ends(c, s, Vector1, 0) /\ Ends(c, s, Vector3, Third(d))
  /\ \A r \in Instrs(d) : Ends(c, s, r, 65536)
  /\ IF d THEN Vector2 \notin DOMAIN c /\ \A v : Keeps(s, Vector2, v) ELSE Ends(c, s, Vector2, Second)

\* Before it.
LEMMA ProgramAhead ==
  ASSUME NEW d \in BOOLEAN, NEW c, Vacant(c), Closed(c)
  PROVE  Programmed(d, c, Body(d))
<1> DEFINE s == Body(d)
<1>1. Loads(d, s) /\ \A g \in Ph!Master(\hA6) : Sets(s, g, 0)
  BY BodyRight DEF Programs
<1> HIDE DEF s
<1>2. ASSUME NEW g \in Gates PROVE Ends(c, s, g, 0)
  <2>1. CASE g \in Ph!Master(\hA6)
    BY <1>1, <2>1 DEF Ends
  <2>2. CASE g \in Ph!Everywhere(\h66)
    <3>1. Keeps(s, g, 0)
      BY <1>1, <2>2 DEF Loads
    <3>2. g \in DOMAIN c /\ c[g] = 0
      BY DEF Closed
    <3> QED  BY <3>1, <3>2 DEF Ends
  <2> QED  BY <2>1, <2>2 DEF Gates
<1>3. Ends(c, s, Vector1, 0) /\ Ends(c, s, Vector3, Third(d))
  BY <1>1 DEF Loads, Ends
<1>4. \A r \in Instrs(d) : Ends(c, s, r, 65536)
  BY <1>1 DEF Loads, Ends
<1>5. IF d THEN Vector2 \notin DOMAIN c /\ \A v : Keeps(s, Vector2, v) ELSE Ends(c, s, Vector2, Second)
  <2>1. CASE d
    <3>1. \A v : Keeps(s, Vector2, v)
      BY <1>1, <2>1 DEF Loads
    <3>2. Vector2 \notin DOMAIN c
      BY VectorNumbers DEF Vacant
    <3> QED  BY <2>1, <3>1, <3>2
  <2>2. CASE ~d
    <3>1. Sets(s, Vector2, Second)
      BY <1>1, <2>2 DEF Loads
    <3> QED  BY <2>2, <3>1 DEF Ends
  <2> QED  BY <2>1, <2>2
<1> QED  BY <1>2, <1>3, <1>4, <1>5 DEF Programmed, s

\* A write of it.
LEMMA ProgramOn ==
  ASSUME NEW d \in BOOLEAN, NEW S, NEW s \in Seq(S), s # <<>>, NEW c, Programmed(d, c, s)
  PROVE  Programmed(d, Puts(c, Head(s)), Tail(s))
<1> DEFINE k == Puts(c, Head(s))
           t == Tail(s)
<1>1. \A r, v : Ends(c, s, r, v) => Ends(k, t, r, v)
  BY EndsOn
<1>2. ASSUME d PROVE Vector2 \notin DOMAIN k /\ \A v : Keeps(t, Vector2, v)
  <2>0. Len(s) \in Nat \ {0}
    BY EmptySeq
  <2>1. Len(t) = Len(s) - 1 /\ \A i \in 1..Len(t) : t[i] = s[i + 1]
    BY HeadTailProperties
  <2>2. Vector2 \notin DOMAIN c /\ \A v : Keeps(s, Vector2, v)
    BY <1>2 DEF Programmed
  <2>3. Head(s) = s[1]
    OBVIOUS
  <2>4. Vector2 \in DOMAIN k <=> Vector2 \in Head(s).val.regs \/ Vector2 \in DOMAIN c
    BY PutsAt
  <2> HIDE DEF k, t
  <2>5. \A i \in 1..Len(t) : i + 1 \in 1..Len(s)
    BY <2>0, <2>1
  <2>6. ASSUME NEW v PROVE Keeps(t, Vector2, v)
    <3>1. Keeps(s, Vector2, v)
      BY <2>2
    <3> QED  BY <2>1, <2>5, <3>1 DEF Keeps
  <2>7. Vector2 \notin s[1].val.regs
    <3>1. 1 \in 1..Len(s)
      BY <2>0
    <3>2. Keeps(s, Vector2, 0) /\ Keeps(s, Vector2, 1)
      BY <2>2
    <3>3. Vector2 \in s[1].val.regs => s[1].val.val = 0 /\ s[1].val.val = 1
      BY <3>1, <3>2 DEF Keeps
    <3> QED  BY <3>3
  <2> QED  BY <2>2, <2>3, <2>4, <2>6, <2>7
<1> HIDE DEF k, t
<1> QED  BY <1>1, <1>2 DEF Programmed, k, t

\* The instructions that the vectors name are of the program.
LEMMA InstructionsIn ==
  ASSUME NEW d \in BOOLEAN
  PROVE  /\ Ph!Instruction(0) \subseteq Instrs(d) /\ Ph!Instruction(Third(d)) \subseteq Instrs(d)
         /\ ~d => Ph!Instruction(Second) \subseteq Instrs(d)
<1>1. Ph!Instruction(0) \subseteq Instrs(d)
  BY DEF Ph!Instruction, Instrs
<1>2. CASE d
  <2>1. Ph!Instruction(Third(d)) \subseteq Instrs(d)
    BY <1>2 DEF Ph!Instruction, Instrs, Third
  <2> QED  BY <1>1, <1>2, <2>1
<1>3. CASE ~d
  BY <1>1, <1>3 DEF Ph!Instruction, Instrs, Third, Second
<1> QED  BY <1>2, <1>3

\* After it: every vector that is there names instructions that are.
LEMMA ProgramThere ==
  ASSUME ddr4 \in BOOLEAN, Programmed(ddr4, csr, <<>>)
  PROVE  Ph!VectorsLoaded /\ Closed(csr) /\ Ph!StartVectors \cap DOMAIN csr # {}
<1>1. Closed(csr)
  BY EndsHold DEF Programmed, Closed
<1>2. /\ Vector1 \in DOMAIN csr /\ csr[Vector1] = 0
      /\ Vector3 \in DOMAIN csr /\ csr[Vector3] = Third(ddr4)
  BY EndsHold DEF Programmed
<1>3. \A r \in Instrs(ddr4) : r \in DOMAIN csr /\ csr[r] = 65536
  BY EndsHold DEF Programmed
<1>4. ASSUME NEW v \in Ph!StartVectors \cap DOMAIN csr PROVE csr[v] \in {0, Third(ddr4)} \/ (~ddr4 /\ csr[v] = Second)
  <2>1. v = Vector1 \/ v = Vector2 \/ v = Vector3
    BY DEF Ph!StartVectors, Vector1, Vector2, Vector3
  <2>2. v # Vector2 \/ (~ddr4 /\ csr[Vector2] = Second)
    <3>1. CASE ddr4
      BY <3>1 DEF Programmed
    <3>2. CASE ~ddr4
      <4>1. Ends(csr, <<>>, Vector2, Second)
        BY <3>2 DEF Programmed
      <4> QED  BY <3>2, <4>1, EndsHold
    <3> QED  BY <3>1, <3>2
  <2> QED  BY <1>2, <2>1, <2>2
<1>5. /\ Ph!Instruction(0) \subseteq Instrs(ddr4) /\ Ph!Instruction(Third(ddr4)) \subseteq Instrs(ddr4)
      /\ ~ddr4 => Ph!Instruction(Second) \subseteq Instrs(ddr4)
  BY InstructionsIn
<1>6. \A v \in Ph!StartVectors \cap DOMAIN csr : Ph!Instruction(csr[v]) \subseteq Instrs(ddr4)
  BY <1>4, <1>5
<1>7. Ph!VectorsLoaded
  BY <1>3, <1>6 DEF Ph!VectorsLoaded, Ph!Code
<1>8. Ph!StartVectors \cap DOMAIN csr # {}
  BY <1>2, VectorNumbers
<1> QED  BY <1>1, <1>7, <1>8

\* The program is what its body says, between the writes that take the bus and give it.
LEMMA PieParts == ddr4 \in BOOLEAN => Ph!Pie = <<Ph!Host>> \o (Body(ddr4) \o <<Ph!Mcu>>)
  BY DEF Ph!Pie, Ph!PIE_DDR4, Ph!PIE_DDR5, Body

\* What a write does, by what it is to.
LEMMA WriteDoes ==
  ASSUME Ph!WriteOne, NEW w, w = Head(phTodo)
  PROVE  /\ phTodo # <<>> /\ phTodo' = Tail(phTodo)
         /\ phAt' = (IF phTodo' = <<>> /\ phAt = "config" THEN "poll" ELSE phAt)
         /\ UNCHANGED <<ddr4, attempt, phPass, mail>>
         /\ w.to = "mux" => /\ mux' = w.val
                            /\ UNCHANGED <<csr, imem, dmem, block, result, verdict, mcu, phFw, infos, phPending, unread>>
         /\ w.to = "csr" => /\ csr' = IF mux = "host" THEN Puts(csr, w) ELSE csr
                            /\ UNCHANGED <<mux, imem, dmem, block, result, verdict, mcu, phFw, infos, phPending, unread>>
         /\ w.to = "imem" => /\ imem' = IF mux = "host" THEN [imem EXCEPT ![w.word] = w.val] ELSE imem
                             /\ UNCHANGED <<mux, csr, dmem, block, result, verdict, mcu, phFw, infos, phPending, unread>>
         /\ w.to = "dmem" => /\ dmem' = IF mux = "host" THEN [dmem EXCEPT ![w.word] = w.val] ELSE dmem
                             /\ block' = IF mux = "host" /\ w.word = 1 THEN <<>> ELSE block
                             /\ UNCHANGED <<mux, csr, imem, result, verdict, mcu, phFw, infos, phPending, unread>>
         /\ w.to = "block" => /\ block' = IF mux = "host" THEN Ph!Over(w.val, block) ELSE block
                              /\ result' = IF mux = "host" /\ Ph!Cleared(w.val) THEN "none" ELSE result
                              /\ UNCHANGED <<mux, csr, imem, dmem, verdict, mcu, phFw, infos, phPending, unread>>
         /\ w.to = "unread" => UNCHANGED <<mux, csr, imem, dmem, block, result, verdict, mcu, phFw, infos, phPending>>
         /\ w.to = "read" => /\ verdict' = IF mux = "host" THEN result ELSE "junk"
                             /\ UNCHANGED <<mux, csr, imem, dmem, block, result, mcu, phFw, infos, phPending, unread>>
         /\ w.to = "mcu" => /\ mcu' = w.val
                            /\ w.val # "reset" => UNCHANGED <<phFw, infos, phPending>>
                            /\ w.val = "reset" => phFw' = "work" /\ phPending' = FALSE
                            /\ UNCHANGED <<mux, csr, imem, dmem, block, result, verdict, unread>>
  BY DEF Ph!WriteOne, Ph!Takes, Ph!Owned, Puts

\* A sequence of something is not empty when a part of it is not.
LEMMA NotEmpty ==
  ASSUME NEW s, NEW t, Listed(s), Listed(t), t # <<>>
  PROVE  s \o t # <<>>
<1>1. CASE s = <<>>
  BY <1>1, Lists
<1>2. CASE s # <<>>
  BY <1>2, Consume
<1> QED  BY <1>1, <1>2

\* And something is left.
LEMMA Taken ==
  ASSUME NEW s, NEW t, Listed(s), Listed(t), s # <<>>, t # <<>>
  PROVE  Head(s \o t) = Head(s) /\ Tail(s \o t) = Tail(s) \o t /\ Tail(s) \o t # <<>>
<1>1. Head(s \o t) = Head(s) /\ Tail(s \o t) = Tail(s) \o t /\ Listed(Tail(s))
  BY Consume
<1>2. Tail(s) \o t # <<>>
  BY <1>1, NotEmpty
<1> QED  BY <1>1, <1>2

\* One, two or three writes before others, by name.
One(a, t) == <<a>> \o t
Two(a, b, t) == <<a, b>> \o t
Three(a, b, c, t) == <<a, b, c>> \o t

LEMMA Takes ==
  ASSUME NEW t, Listed(t), t # <<>>
  PROVE  /\ \A a : Head(One(a, t)) = a /\ Tail(One(a, t)) = t
         /\ \A a, b : Head(Two(a, b, t)) = a /\ Tail(Two(a, b, t)) = One(b, t)
         /\ \A a, b, c : Head(Three(a, b, c, t)) = a /\ Tail(Three(a, b, c, t)) = Two(b, c, t)
         /\ \A a : Listed(One(a, t)) /\ One(a, t) # <<>>
         /\ \A a, b : Listed(Two(a, b, t)) /\ Two(a, b, t) # <<>>
         /\ \A a, b, c : Listed(Three(a, b, c, t)) /\ Three(a, b, c, t) # <<>>
<1>1. ASSUME NEW a PROVE Head(One(a, t)) = a /\ Tail(One(a, t)) = t /\ Listed(One(a, t)) /\ One(a, t) # <<>>
  <2> DEFINE s == <<a>>
             r == <<>>
             u == One(a, t)
  <2>1. Listed(s)
    BY Lists
  <2>2. s # <<>> /\ Head(s) = a /\ Tail(s) = r
    OBVIOUS
  <2>3. u = s \o t
    BY Zenon DEF One
  <2>4. r \o t = t
    BY Lists
  <2> HIDE DEF s, r, u
  <2>5. /\ Head(s \o t) = Head(s) /\ Tail(s \o t) = Tail(s) \o t
        /\ s \o t # <<>> /\ Listed(s \o t)
    BY <2>1, <2>2, Taken, NotEmpty, Lists, Zenon
  <2>6. Head(u) = a /\ Tail(u) = r \o t /\ Listed(u) /\ u # <<>>
    BY <2>2, <2>3, <2>5, Zenon
  <2> QED  BY <2>4, <2>6, Zenon DEF u
<1>2. ASSUME NEW a, NEW b PROVE Head(Two(a, b, t)) = a /\ Tail(Two(a, b, t)) = One(b, t) /\ Listed(Two(a, b, t)) /\ Two(a, b, t) # <<>>
  <2> DEFINE s == <<a, b>>
             r == <<b>>
             u == Two(a, b, t)
  <2>1. Listed(s)
    BY Lists
  <2>2. s # <<>> /\ Head(s) = a /\ Tail(s) = r
    OBVIOUS
  <2>3. u = s \o t
    BY Zenon DEF Two
  <2>4. r \o t = One(b, t)
    BY Zenon DEF One
  <2> HIDE DEF s, r, u
  <2>5. /\ Head(s \o t) = Head(s) /\ Tail(s \o t) = Tail(s) \o t
        /\ s \o t # <<>> /\ Listed(s \o t)
    BY <2>1, <2>2, Taken, NotEmpty, Lists, Zenon
  <2>6. Head(u) = a /\ Tail(u) = r \o t /\ Listed(u) /\ u # <<>>
    BY <2>2, <2>3, <2>5, Zenon
  <2> QED  BY <2>4, <2>6, Zenon DEF u
<1>3. ASSUME NEW a, NEW b, NEW c PROVE Head(Three(a, b, c, t)) = a /\ Tail(Three(a, b, c, t)) = Two(b, c, t) /\ Listed(Three(a, b, c, t)) /\ Three(a, b, c, t) # <<>>
  <2> DEFINE s == <<a, b, c>>
             r == <<b, c>>
             u == Three(a, b, c, t)
  <2>1. Listed(s)
    BY Lists
  <2>2. s # <<>> /\ Head(s) = a /\ Tail(s) = r
    OBVIOUS
  <2>3. u = s \o t
    BY Zenon DEF Three
  <2>4. r \o t = Two(b, c, t)
    BY Zenon DEF Two
  <2> HIDE DEF s, r, u
  <2>5. /\ Head(s \o t) = Head(s) /\ Tail(s \o t) = Tail(s) \o t
        /\ s \o t # <<>> /\ Listed(s \o t)
    BY <2>1, <2>2, Taken, NotEmpty, Lists, Zenon
  <2>6. Head(u) = a /\ Tail(u) = r \o t /\ Listed(u) /\ u # <<>>
    BY <2>2, <2>3, <2>5, Zenon
  <2> QED  BY <2>4, <2>6, Zenon DEF u
<1> QED  BY <1>1, <1>2, <1>3

-----------------------------------------------------------------------------
(* Where the host stands.                                                  *)

Memory(m) == m = [w \in 1..ImageWords |-> m[w]]
Filled(m, p, k) == \A w \in 1..k : m[w] = p
Mark == Ph!Write("unread", TRUE)
Stall == [to |-> "mcu", val |-> "stall", word |-> 0]
Go == [to |-> "mcu", val |-> "run", word |-> 0]
Reset == [to |-> "mcu", val |-> "reset", word |-> 0]
Opening(p) == IF p = "1d" THEN <<Ph!Put(Ph!Master(\h60), 2)>> ELSE <<>>
AfterImage(p) == Three(Ph!Mcu, Mark, Ph!Host, Ph!Data(p))
AfterData(p) == Two(Ph!Write("block", Params(p)), Ph!Mcu, Ph!Start)

PhyBase == ddr4 \in BOOLEAN /\ phPass \in Ph!Passes /\ Memory(imem) /\ Memory(dmem)

\* The registers are as a pass needs them.
InOrder == Alike(csr) /\ Vacant(csr) /\ Closed(csr)

\* The rest of what is written before the microcontroller runs, and what was: the
\* start, before it the parameters, the data, and the instructions.
Starting ==
  \/ phTodo = One(Ph!Mcu, Ph!Start)
  \/ mux = "mcu" /\ phTodo = Ph!Start
  \/ mux = "mcu" /\ phFw = "work" /\ ~phPending /\ phTodo \in {<<Stall, Go>>, <<Go>>}
FillingData ==
  \/ phTodo = Two(Mark, Ph!Host, Ph!Data(phPass))
  \/ phTodo = One(Ph!Host, Ph!Data(phPass))
  \/ /\ mux = "host"
     /\ \E k \in 0..ImageWords :
          /\ phTodo = Rest("dmem", phPass, k) \o AfterData(phPass)
          /\ Filled(dmem, phPass, k) /\ (k > 0 => block = <<>>)
  \/ dmem = Ph!Image(phPass) /\ block = Params(phPass) /\ result = "none" /\ Starting
Filling ==
  \/ phTodo = Ph!Prepare(phPass)
  \/ mux = "host" /\ phTodo = Opening(phPass) \o Ph!Instructions(phPass)
  \/ /\ mux = "host"
     /\ \E k \in 0..ImageWords :
          phTodo = Rest("imem", phPass, k) \o AfterImage(phPass) /\ Filled(imem, phPass, k)
  \/ imem = Ph!Image(phPass) /\ FillingData

\* What the pass was given, and what the firmware says with it.
Given == imem = Ph!Image(phPass) /\ dmem = Ph!Image(phPass) /\ block = Params(phPass)
Says ==
  /\ phFw = "work" => result = "none"
  /\ phFw \in {"told", "taken"} /\ mail = "info" => result = "none"
  /\ phPending => phFw \in {"told", "hung"}
Awaits ==
  \/ phAt \in {"poll", "failed"} /\ phTodo = <<>>
  \/ phAt = "ack" /\ phTodo = <<>> /\ ~unread /\ phFw # "work"
  \/ phAt = "judge" /\ phTodo = Ph!Fetch /\ mail = "done" /\ phFw # "work"

\* The rest of what is written once the firmware is done.
Fetching == <<Ph!Put(Ph!Master(\h89), 0), Ph!Host, Ph!Write("read", 0), Ph!Mcu>>
Asking ==
  \/ mux = "mcu" /\ phTodo = Fetching
  \/ phTodo = <<Ph!Host, Ph!Write("read", 0), Ph!Mcu>>
  \/ mux = "host" /\ phTodo = <<Ph!Write("read", 0), Ph!Mcu>>
  \/ verdict = result /\ phTodo \in {<<Ph!Mcu>>, <<>>}
Programming ==
  \/ phTodo = Ph!Pie /\ InOrder
  \/ /\ mux = "host"
     /\ \E s \in Seq(Writes(Even)) : phTodo = s \o <<Ph!Mcu>> /\ Programmed(ddr4, csr, s)
  \/ phTodo = <<>> /\ Programmed(ddr4, csr, <<>>)

AtRest == phAt \in {"idle", "failed"} /\ phTodo = <<>> /\ mcu = "stall"
Configures ==
  /\ phAt = "config" /\ mcu = "stall" /\ phPass = "1d" /\ mux = "host" /\ Alike(csr) /\ Vacant(csr)
  /\ \E s \in Seq(Writes(Unstarted)) :
       phTodo = s \o Ph!Prepare("1d") /\ \A g \in Gates : Ends(csr, s, g, 0)
Fills == phAt = "config" /\ mcu # "run" /\ InOrder /\ Filling
Trains == mcu = "run" /\ mux = "mcu" /\ InOrder /\ Given /\ Says /\ Awaits
Asks ==
  /\ phAt = "judge" /\ mcu = "stall" /\ InOrder /\ block = Params(phPass)
  /\ mail = "done" /\ phFw # "work" /\ Asking
GoesOn ==
  /\ phAt = "mission" /\ mcu = "stall" /\ result = "good" /\ Alike(csr) /\ block = Params(phPass)
  /\ ddr4 => phPass = "2d"
  /\ Programming

PhyInv == PhyBase /\ (AtRest \/ Configures \/ Fills \/ Trains \/ Asks \/ GoesOn)

\* What the writes are made of.
LEMMA HeadsOf ==
  /\ Ph!Host.to = "mux" /\ Ph!Host.val = "host" /\ Ph!Mcu.to = "mux" /\ Ph!Mcu.val = "mcu"
  /\ Mark.to = "unread" /\ Ph!Write("read", 0).to = "read"
  /\ Stall.to = "mcu" /\ Stall.val = "stall" /\ Go.to = "mcu" /\ Go.val = "run"
  /\ Reset.to = "mcu" /\ Reset.val = "reset"
  /\ \A b : Ph!Write("block", b).to = "block" /\ Ph!Write("block", b).val = b
  /\ \A R, v : Ph!Put(R, v).to = "csr"
  /\ Ph!Start = <<Reset, Stall, Go>> /\ Ph!Fetch = <<Stall>> \o Fetching
  BY DEF Ph!Host, Ph!Mcu, Ph!Write, Ph!Put, Mark, Stall, Go, Reset, Ph!Start, Ph!Fetch, Fetching

\* What the host writes, in its parts.
LEMMA PrepareParts ==
  ASSUME PartsAssumption, ddr4 \in BOOLEAN, NEW p \in Ph!Passes
  PROVE  /\ Ph!Prepare(p) = One(Ph!Host, Opening(p) \o Ph!Instructions(p))
         /\ Ph!Instructions(p) = Rest("imem", p, 0) \o AfterImage(p)
         /\ AfterImage(p) = Three(Ph!Mcu, Mark, Ph!Host, Ph!Data(p))
         /\ Ph!Data(p) = Rest("dmem", p, 0) \o AfterData(p)
         /\ AfterData(p) = Two(Ph!Write("block", Params(p)), Ph!Mcu, Ph!Start)
         /\ Listed(Opening(p)) /\ Listed(Ph!Instructions(p)) /\ Listed(AfterImage(p)) /\ Listed(Ph!Data(p))
         /\ Listed(AfterData(p)) /\ Listed(Ph!Start) /\ Listed(Ph!Prepare(p))
         /\ Ph!Instructions(p) # <<>> /\ AfterImage(p) # <<>> /\ Ph!Data(p) # <<>> /\ AfterData(p) # <<>>
         /\ Ph!Start # <<>> /\ Ph!Prepare(p) # <<>>
<1>1. Ph!Prepare(p) = One(Ph!Host, Opening(p) \o Ph!Instructions(p))
  BY DEF Ph!Prepare, Opening, One
<1>2. Ph!Instructions(p) = Rest("imem", p, 0) \o AfterImage(p)
  BY BlobRest DEF Ph!Instructions, AfterImage, Mark, Three
<1>3. AfterImage(p) = Three(Ph!Mcu, Mark, Ph!Host, Ph!Data(p))
  BY DEF AfterImage
<1>4. Ph!Data(p) = Rest("dmem", p, 0) \o AfterData(p)
  BY BlobRest, ParamsRight DEF Ph!Data, AfterData, Two
<1>5. AfterData(p) = Two(Ph!Write("block", Params(p)), Ph!Mcu, Ph!Start)
  BY DEF AfterData
<1>6. Listed(Ph!Start) /\ Ph!Start # <<>>
  BY HeadsOf, Lists
<1>7. Listed(AfterData(p)) /\ AfterData(p) # <<>>
  BY <1>5, <1>6, Takes
<1>8. 0 \in 0..ImageWords
  BY DEF PartsAssumption, Ph!PhyAssumption
<1>9. Listed(Ph!Data(p)) /\ Ph!Data(p) # <<>>
  BY <1>4, <1>7, <1>8, BlobRest, Lists, NotEmpty
<1>10. Listed(AfterImage(p)) /\ AfterImage(p) # <<>>
  BY <1>3, <1>9, Takes
<1>11. Listed(Ph!Instructions(p)) /\ Ph!Instructions(p) # <<>>
  BY <1>2, <1>10, <1>8, BlobRest, Lists, NotEmpty
<1>12. Listed(Opening(p))
  BY Lists DEF Opening
<1>13. Listed(Ph!Prepare(p)) /\ Ph!Prepare(p) # <<>>
  <2>1. Listed(Opening(p) \o Ph!Instructions(p)) /\ Opening(p) \o Ph!Instructions(p) # <<>>
    BY <1>11, <1>12, Lists, NotEmpty
  <2> QED  BY <1>1, <2>1, Takes
<1> QED  BY <1>1, <1>2, <1>3, <1>4, <1>5, <1>6, <1>7, <1>9, <1>10, <1>11, <1>12, <1>13

\* Memories that are filled.
LEMMA Fill ==
  ASSUME PartsAssumption, NEW m, Memory(m), NEW p
  PROVE  /\ Filled(m, p, 0)
         /\ Filled(m, p, ImageWords) => m = Ph!Image(p)
         /\ \A k \in 0..ImageWords : k # ImageWords /\ Filled(m, p, k) => Filled([m EXCEPT ![k + 1] = p], p, k + 1)
         /\ \A i, v : Memory([m EXCEPT ![i] = v])
<1>0. ImageWords \in Nat \ {0}
  BY DEF PartsAssumption, Ph!PhyAssumption
<1>1. DOMAIN m = 1..ImageWords
  BY DEF Memory
<1>2. Filled(m, p, 0)
  BY DEF Filled
<1>3. Filled(m, p, ImageWords) => m = Ph!Image(p)
  BY DEF Filled, Memory, Ph!Image
<1>4. ASSUME NEW k \in 0..ImageWords, k # ImageWords, Filled(m, p, k) PROVE Filled([m EXCEPT ![k + 1] = p], p, k + 1)
  BY <1>0, <1>1, <1>4 DEF Filled
<1>5. ASSUME NEW i, NEW v PROVE Memory([m EXCEPT ![i] = v])
  BY <1>1 DEF Memory
<1> QED  BY <1>2, <1>3, <1>4, <1>5

\* The kinds of what is known stay what they are.
LEMMA BaseKept == PartsAssumption /\ PhyBase /\ [Ph!Next]_(Ph!phyVars) => PhyBase'
<1> SUFFICES ASSUME PartsAssumption, PhyBase, [Ph!Next]_(Ph!phyVars) PROVE PhyBase'
  OBVIOUS
<1>1. CASE Ph!WriteOne
  <2>1. ddr4' = ddr4 /\ phPass' = phPass
    BY <1>1 DEF Ph!WriteOne
  <2>2. /\ imem' = imem \/ \E i, v : imem' = [imem EXCEPT ![i] = v]
        /\ dmem' = dmem \/ \E i, v : dmem' = [dmem EXCEPT ![i] = v]
    BY <1>1 DEF Ph!WriteOne, Ph!Takes
  <2>3. Memory(imem') /\ Memory(dmem')
    BY <2>2, Fill DEF PhyBase
  <2> QED  BY <2>1, <2>3 DEF PhyBase, Memory
<1>2. CASE Ph!Attempt
  BY <1>2 DEF Ph!Attempt, PhyBase, Memory, Ph!Passes
<1>3. CASE Ph!Judge
  BY <1>3 DEF Ph!Judge, PhyBase, Memory, Ph!Passes, Ph!ramVars
<1>4. CASE UNCHANGED <<ddr4, phPass, imem, dmem>>
  BY <1>4 DEF PhyBase, Memory
<1>5. [Ph!Next]_(Ph!phyVars) => Ph!WriteOne \/ Ph!Attempt \/ Ph!Judge \/ UNCHANGED <<ddr4, phPass, imem, dmem>>
  BY DEF Ph!Next, Ph!Poll, Ph!Ack, Ph!Timeout, Ph!Tell, Ph!SeeRead, Ph!SeeReady, Ph!Hang, Ph!phyVars, Ph!hostVars,
         Ph!ramVars, Ph!mcuVars
<1> QED  BY <1>1, <1>2, <1>3, <1>4, <1>5

\* What is said of the registers holds while they stay.
LEMMA OrderStays ==
  csr' = csr => (Alike(csr)' <=> Alike(csr)) /\ (Vacant(csr)' <=> Vacant(csr)) /\ (Closed(csr)' <=> Closed(csr))
                /\ (InOrder' <=> InOrder)
<1> SUFFICES ASSUME csr' = csr
             PROVE  /\ (Alike(csr)' <=> Alike(csr)) /\ (Vacant(csr)' <=> Vacant(csr)) /\ (Closed(csr)' <=> Closed(csr))
                    /\ InOrder' <=> InOrder
  OBVIOUS
<1>1. Alike(csr)' <=> Alike(csr)
  BY DEF Alike, Lane
<1>2. Vacant(csr)' <=> Vacant(csr)
  BY DEF Vacant, Boot, Ph!StartVectors
<1>3. Closed(csr)' <=> Closed(csr)
  BY DEF Closed, Gates, Ph!Everywhere, Ph!Master, Ph!Bytes, Ph!Address, Ph!Csr
<1> QED  BY <1>1, <1>2, <1>3 DEF InOrder

\* It is said of the registers as they will be.
LEMMA PrimedOrder ==
  ASSUME NEW c, c = csr'
  PROVE  (Alike(c) <=> Alike(csr)') /\ (Vacant(c) <=> Vacant(csr)') /\ (Closed(c) <=> Closed(csr)')
<1>1. Alike(c) <=> Alike(csr)'
  BY DEF Alike, Lane
<1>2. Vacant(c) <=> Vacant(csr)'
  BY DEF Vacant, Boot, Ph!StartVectors
<1>3. Closed(c) <=> Closed(csr)'
  BY DEF Closed, Gates, Ph!Everywhere, Ph!Master, Ph!Bytes, Ph!Address, Ph!Csr
<1> QED  BY <1>1, <1>2, <1>3

\* What a pass is given names nothing that changes but the pass.
LEMMA PartsStay ==
  ASSUME UNCHANGED <<ddr4, phPass>>
  PROVE  /\ Params(phPass)' = Params(phPass) /\ Ph!Data(phPass)' = Ph!Data(phPass)
         /\ AfterData(phPass)' = AfterData(phPass) /\ AfterImage(phPass)' = AfterImage(phPass)
         /\ Ph!Image(phPass)' = Ph!Image(phPass) /\ Ph!Instructions(phPass)' = Ph!Instructions(phPass)
         /\ Opening(phPass)' = Opening(phPass)
  BY DEF Params, Ph!MessageBlock, Ph!Data, AfterData, AfterImage, Ph!Image, Ph!Instructions, Opening

\* The start is written, the bus given to the microcontroller before it.
LEMMA StartKept ==
  ASSUME PartsAssumption, PhyBase, Ph!WriteOne, phAt = "config", mcu # "run", InOrder, Given, result = "none",
         Starting
  PROVE  PhyInv'
<1> DEFINE w == Head(phTodo)
<1>0. PhyBase'
  BY BaseKept DEF Ph!Next
<1>1. /\ phTodo' = Tail(phTodo) /\ phPass' = phPass
      /\ phAt' = IF phTodo' = <<>> THEN "poll" ELSE "config"
  BY WriteDoes
<1>2. /\ w.to = "mux" => mux' = w.val /\ UNCHANGED <<csr, imem, dmem, block, result, mcu, phFw, phPending>>
      /\ w.to = "mcu" => /\ mcu' = w.val /\ UNCHANGED <<mux, csr, imem, dmem, block, result>>
                         /\ w.val # "reset" => UNCHANGED <<phFw, phPending>>
                         /\ w.val = "reset" => phFw' = "work" /\ phPending' = FALSE
  BY WriteDoes
<1> HIDE DEF w
<1>3. ASSUME UNCHANGED <<csr, imem, dmem, block, result>> PROVE InOrder' /\ Given' /\ result' = "none"
  <2>1. UNCHANGED <<ddr4, phPass>>
    BY WriteDoes
  <2>2. InOrder'
    BY <1>3, OrderStays
  <2>3. Given'
    BY <1>3, <2>1, PartsStay DEF Given
  <2> QED  BY <1>3, <2>2, <2>3
<1>4. CASE phTodo = One(Ph!Mcu, Ph!Start)
  <2>1. phTodo' = Ph!Start /\ w = Ph!Mcu /\ Ph!Start # <<>>
    <3>1. Listed(Ph!Start) /\ Ph!Start # <<>>
      BY PrepareParts DEF PhyBase
    <3> QED  BY <1>1, <1>4, <3>1, Takes DEF w
  <2>2. mux' = "mcu" /\ mcu' = mcu /\ phAt' = "config" /\ UNCHANGED <<csr, imem, dmem, block, result>>
    BY <1>1, <1>2, <2>1, HeadsOf
  <2>3. Starting'
    BY <2>1, <2>2 DEF Starting, Ph!Start
  <2>4. Fills'
    BY <1>3, <2>2, <2>3 DEF Fills, Filling, FillingData, Given
  <2> QED  BY <1>0, <2>4 DEF PhyInv
<1>5. CASE mux = "mcu" /\ phTodo = Ph!Start
  <2>1. phTodo' = <<Stall, Go>> /\ w = Reset
    BY <1>1, <1>5, HeadsOf DEF w
  <2>2. /\ mux' = "mcu" /\ mcu' = "reset" /\ phAt' = "config" /\ UNCHANGED <<csr, imem, dmem, block, result>>
        /\ phFw' = "work" /\ ~phPending'
    BY <1>1, <1>2, <1>5, <2>1, HeadsOf
  <2>3. Starting'
    BY <2>1, <2>2 DEF Starting, Stall, Go
  <2>4. Fills'
    BY <1>3, <2>2, <2>3 DEF Fills, Filling, FillingData, Given
  <2> QED  BY <1>0, <2>4 DEF PhyInv
<1>6. CASE mux = "mcu" /\ phFw = "work" /\ ~phPending /\ phTodo = <<Stall, Go>>
  <2>1. phTodo' = <<Go>> /\ w = Stall
    BY <1>1, <1>6 DEF w
  <2>2. /\ mux' = "mcu" /\ mcu' = "stall" /\ phAt' = "config" /\ UNCHANGED <<csr, imem, dmem, block, result>>
        /\ phFw' = "work" /\ ~phPending'
    BY <1>1, <1>2, <1>6, <2>1, HeadsOf
  <2>3. Starting'
    BY <2>1, <2>2 DEF Starting, Stall, Go
  <2>4. Fills'
    BY <1>3, <2>2, <2>3 DEF Fills, Filling, FillingData, Given
  <2> QED  BY <1>0, <2>4 DEF PhyInv
<1>7. CASE mux = "mcu" /\ phFw = "work" /\ ~phPending /\ phTodo = <<Go>>
  <2>1. phTodo' = <<>> /\ w = Go
    BY <1>1, <1>7 DEF w
  <2>2. /\ mux' = "mcu" /\ mcu' = "run" /\ phAt' = "poll" /\ UNCHANGED <<csr, imem, dmem, block, result>>
        /\ phFw' = "work" /\ ~phPending'
    BY <1>1, <1>2, <1>7, <2>1, HeadsOf
  <2>3. Awaits' /\ Says'
    BY <1>3, <2>1, <2>2 DEF Awaits, Says
  <2>4. Trains'
    BY <1>3, <2>2, <2>3 DEF Trains
  <2> QED  BY <1>0, <2>4 DEF PhyInv
<1> QED  BY <1>4, <1>5, <1>6, <1>7 DEF Starting

\* The data is written, and over its first word the parameters.
LEMMA DataKept ==
  ASSUME PartsAssumption, PhyBase, Ph!WriteOne, phAt = "config", mcu # "run", InOrder, imem = Ph!Image(phPass),
         FillingData
  PROVE  PhyInv'
<1> DEFINE w == Head(phTodo)
           p == phPass
<1>0. PhyBase' /\ ImageWords \in Nat \ {0}
  BY BaseKept DEF Ph!Next, PartsAssumption, Ph!PhyAssumption
<1>1. /\ phTodo' = Tail(phTodo) /\ phPass' = p
      /\ phAt' = IF phTodo' = <<>> THEN "poll" ELSE "config"
  BY WriteDoes
<1>2. /\ w.to = "mux" => mux' = w.val /\ UNCHANGED <<csr, imem, dmem, block, result, mcu>>
      /\ w.to = "unread" => UNCHANGED <<csr, imem, dmem, block, result, mcu>>
      /\ w.to = "dmem" => /\ dmem' = IF mux = "host" THEN [dmem EXCEPT ![w.word] = w.val] ELSE dmem
                          /\ block' = IF mux = "host" /\ w.word = 1 THEN <<>> ELSE block
                          /\ UNCHANGED <<mux, csr, imem, result, mcu>>
      /\ w.to = "block" => /\ block' = IF mux = "host" THEN Ph!Over(w.val, block) ELSE block
                           /\ result' = IF mux = "host" /\ Ph!Cleared(w.val) THEN "none" ELSE result
                           /\ UNCHANGED <<mux, csr, imem, dmem, mcu>>
  BY WriteDoes
<1>3. /\ Ph!Data(p) = Rest("dmem", p, 0) \o AfterData(p)
      /\ AfterData(p) = Two(Ph!Write("block", Params(p)), Ph!Mcu, Ph!Start)
      /\ Listed(Ph!Data(p)) /\ Listed(AfterData(p)) /\ Listed(Ph!Start)
      /\ Ph!Data(p) # <<>> /\ AfterData(p) # <<>> /\ Ph!Start # <<>>
  BY PrepareParts DEF PhyBase
<1>4. Params(p) = Params(p)' /\ Ph!Data(p)' = Ph!Data(p) /\ AfterData(p)' = AfterData(p)
  <2>1. UNCHANGED <<ddr4, phPass>>
    BY WriteDoes
  <2> QED  BY <2>1, PartsStay
<1>5. Ph!Cleared(Params(p)) /\ Ph!Over(Params(p), <<>>) = Params(p)
  BY ParamsRight DEF PhyBase
<1> HIDE DEF w
<1>6. ASSUME UNCHANGED <<csr, imem, mcu>>, phTodo' # <<>>, FillingData' PROVE PhyInv'
  <2>1. InOrder' /\ imem' = Ph!Image(phPass)' /\ mcu' # "run" /\ phAt' = "config"
    BY <1>1, <1>6, OrderStays DEF Ph!Image
  <2>2. Fills'
    BY <1>6, <2>1 DEF Fills, Filling
  <2> QED  BY <1>0, <2>2 DEF PhyInv
<1>7. CASE phTodo = Two(Mark, Ph!Host, Ph!Data(p))
  <2>1. phTodo' = One(Ph!Host, Ph!Data(p)) /\ w = Mark /\ phTodo' # <<>>
    <3>1. /\ Head(Two(Mark, Ph!Host, Ph!Data(p))) = Mark
          /\ Tail(Two(Mark, Ph!Host, Ph!Data(p))) = One(Ph!Host, Ph!Data(p)) /\ One(Ph!Host, Ph!Data(p)) # <<>>
      <4> DEFINE t == Ph!Data(p)
      <4>1. Listed(t) /\ t # <<>>
        BY <1>3
      <4> HIDE DEF t
      <4>2. /\ Head(Two(Mark, Ph!Host, t)) = Mark /\ Tail(Two(Mark, Ph!Host, t)) = One(Ph!Host, t)
            /\ One(Ph!Host, t) # <<>>
        BY <4>1, Takes
      <4> QED  BY <4>2 DEF t
    <3> QED  BY <1>1, <1>7, <3>1, Zenon DEF w
  <2>2. UNCHANGED <<csr, imem, mcu>>
    BY <1>2, <2>1, HeadsOf
  <2>3. FillingData'
    BY <1>1, <1>4, <2>1 DEF FillingData, Ph!Host
  <2> QED  BY <1>6, <2>1, <2>2, <2>3
<1>8. CASE phTodo = One(Ph!Host, Ph!Data(p))
  <2>1. phTodo' = Ph!Data(p) /\ w = Ph!Host /\ phTodo' # <<>>
    BY <1>1, <1>3, <1>8, Takes DEF w
  <2>2. UNCHANGED <<csr, imem, dmem, mcu>> /\ mux' = "host"
    BY <1>2, <2>1, HeadsOf
  <2>3. Filled(dmem', p, 0) /\ 0 \in 0..ImageWords /\ ~(0 > 0)
    BY <1>0 DEF Filled
  <2>4. phTodo' = Rest("dmem", p, 0) \o AfterData(p)
    BY <1>3, <2>1
  <2>5. FillingData'
    <3>1. phTodo' = Rest("dmem", phPass, 0)' \o AfterData(phPass)' /\ Filled(dmem, phPass, 0)'
      BY <1>1, <1>4, <2>3, <2>4 DEF Rest, Filled, AfterData
    <3> QED  BY <2>2, <2>3, <3>1 DEF FillingData
  <2> QED  BY <1>6, <2>1, <2>2, <2>5
<1>9. CASE mux = "host" /\ \E k \in 0..ImageWords :
             /\ phTodo = Rest("dmem", p, k) \o AfterData(p)
             /\ Filled(dmem, p, k) /\ (k > 0 => block = <<>>)
  <2>1. PICK k \in 0..ImageWords : /\ phTodo = Rest("dmem", p, k) \o AfterData(p)
                                   /\ Filled(dmem, p, k) /\ (k > 0 => block = <<>>)
    BY <1>9
  <2>2. CASE k # ImageWords
    <3> DEFINE s == Rest("dmem", p, k)
    <3>1. /\ Listed(s) /\ s # <<>> /\ k + 1 \in 0..ImageWords /\ k + 1 > 0
          /\ Head(s) = [to |-> "dmem", val |-> p, word |-> k + 1] /\ Tail(s) = Rest("dmem", p, k + 1)
      <4>1. k + 1 > 0
        BY <1>0
      <4> HIDE DEF p
      <4> QED  BY <2>2, <4>1, BlobRest, Zenon
    <3> HIDE DEF s
    <3>2. phTodo' = Tail(s) \o AfterData(p) /\ w = Head(s) /\ phTodo' # <<>>
      <4>1. phTodo = s \o AfterData(p)
        BY <2>1 DEF s
      <4>2. /\ Head(s \o AfterData(p)) = Head(s) /\ Tail(s \o AfterData(p)) = Tail(s) \o AfterData(p)
            /\ Tail(s) \o AfterData(p) # <<>>
        BY <1>3, <3>1, Taken
      <4> QED  BY <1>1, <4>1, <4>2, Zenon DEF w
    <3>3. w.to = "dmem" /\ w.val = p /\ w.word = k + 1
      BY <3>1, <3>2
    <3>4. /\ dmem' = [dmem EXCEPT ![k + 1] = p] /\ UNCHANGED <<mux, csr, imem, mcu>>
          /\ block' = IF k + 1 = 1 THEN <<>> ELSE block
      BY <1>2, <1>9, <3>3
    <3>5. block' = <<>>
      BY <2>1, <3>4
    <3>6. Filled(dmem', p, k + 1)
      BY <2>1, <2>2, <3>4, Fill DEF PhyBase
    <3>7. phTodo' = Rest("dmem", phPass, k + 1)' \o AfterData(phPass)' /\ Filled(dmem, phPass, k + 1)'
      BY <1>1, <1>4, <3>1, <3>2, <3>6 DEF Rest, Filled, AfterData
    <3>8. FillingData'
      BY <1>9, <3>1, <3>4, <3>5, <3>7 DEF FillingData
    <3> QED  BY <1>6, <3>2, <3>4, <3>8
  <2>3. CASE k = ImageWords
    <3>1. phTodo = Two(Ph!Write("block", Params(p)), Ph!Mcu, Ph!Start)
      BY <1>3, <2>1, <2>3, BlobRest, Lists
    <3>2. phTodo' = One(Ph!Mcu, Ph!Start) /\ w = Ph!Write("block", Params(p)) /\ phTodo' # <<>>
      <4> DEFINE a == Ph!Write("block", Params(p))
      <4>1. /\ Head(Two(a, Ph!Mcu, Ph!Start)) = a
            /\ Tail(Two(a, Ph!Mcu, Ph!Start)) = One(Ph!Mcu, Ph!Start) /\ One(Ph!Mcu, Ph!Start) # <<>>
        BY <1>3, Takes
      <4> QED  BY <1>1, <3>1, <4>1, Zenon DEF w
    <3>3. w.to = "block" /\ w.val = Params(p)
      BY <3>2, HeadsOf
    <3>4. block = <<>> /\ dmem = Ph!Image(p)
      BY <1>0, <2>1, <2>3, Fill DEF PhyBase
    <3>5. block' = Params(p) /\ result' = "none" /\ UNCHANGED <<csr, imem, dmem, mcu>>
      BY <1>2, <1>5, <1>9, <3>3, <3>4
    <3>6. Starting'
      BY <3>2 DEF Starting, Ph!Mcu, Ph!Start
    <3>7. dmem' = Ph!Image(phPass)' /\ block' = Params(phPass)'
      BY <1>1, <1>4, <3>4, <3>5 DEF Ph!Image, Params
    <3>8. FillingData'
      BY <3>5, <3>6, <3>7 DEF FillingData
    <3> QED  BY <1>6, <3>2, <3>5, <3>8
  <2> QED  BY <2>2, <2>3
<1>10. CASE dmem = Ph!Image(p) /\ block = Params(p) /\ result = "none" /\ Starting
  BY <1>10, StartKept DEF Given
<1> QED  BY <1>7, <1>8, <1>9, <1>10 DEF FillingData

\* The bus is taken, the instructions are written, and the firmware is let know.
LEMMA FillKept ==
  ASSUME PartsAssumption, PhyBase, Ph!WriteOne, phAt = "config", mcu # "run", InOrder, Filling
  PROVE  PhyInv'
<1> DEFINE w == Head(phTodo)
           p == phPass
<1>0. PhyBase' /\ ImageWords \in Nat \ {0}
  BY BaseKept DEF Ph!Next, PartsAssumption, Ph!PhyAssumption
<1>1. /\ phTodo' = Tail(phTodo) /\ UNCHANGED <<ddr4, phPass>>
      /\ phAt' = IF phTodo' = <<>> THEN "poll" ELSE "config"
  BY WriteDoes
<1>2. /\ w.to = "mux" => mux' = w.val /\ UNCHANGED <<csr, imem, dmem, block, result, mcu>>
      /\ w.to = "csr" => /\ csr' = IF mux = "host" THEN Puts(csr, w) ELSE csr
                         /\ UNCHANGED <<mux, imem, dmem, block, result, mcu>>
      /\ w.to = "imem" => /\ imem' = IF mux = "host" THEN [imem EXCEPT ![w.word] = w.val] ELSE imem
                          /\ UNCHANGED <<mux, csr, dmem, block, result, mcu>>
  BY WriteDoes
<1>3. /\ Ph!Prepare(p) = One(Ph!Host, Opening(p) \o Ph!Instructions(p))
      /\ Ph!Instructions(p) = Rest("imem", p, 0) \o AfterImage(p)
      /\ AfterImage(p) = Three(Ph!Mcu, Mark, Ph!Host, Ph!Data(p))
      /\ Listed(Opening(p)) /\ Listed(Ph!Instructions(p)) /\ Listed(AfterImage(p)) /\ Listed(Ph!Data(p))
      /\ Ph!Instructions(p) # <<>> /\ AfterImage(p) # <<>> /\ Ph!Data(p) # <<>>
  BY PrepareParts DEF PhyBase
<1>4. /\ Ph!Data(phPass)' = Ph!Data(p) /\ AfterImage(phPass)' = AfterImage(p) /\ Ph!Image(phPass)' = Ph!Image(p)
      /\ Ph!Instructions(phPass)' = Ph!Instructions(p) /\ Opening(phPass)' = Opening(p)
  BY <1>1, PartsStay
<1> HIDE DEF w
<1>5. ASSUME InOrder', mcu' = mcu, phTodo' # <<>>, Filling' PROVE PhyInv'
  <2>1. Fills'
    BY <1>1, <1>5 DEF Fills
  <2> QED  BY <1>0, <2>1 DEF PhyInv
<1>6. ASSUME mux' = "host", phTodo' = Ph!Instructions(p) PROVE Filling'
  <2>1. phTodo' = Rest("imem", phPass, 0)' \o AfterImage(phPass)' /\ Filled(imem, phPass, 0)'
    <3>1. phTodo' = Rest("imem", p, 0) \o AfterImage(p)
      BY <1>3, <1>6
    <3>2. Rest("imem", phPass, 0)' = Rest("imem", p, 0)
      BY <1>1 DEF Rest
    <3>3. Filled(imem, phPass, 0)'
      BY DEF Filled
    <3> QED  BY <1>4, <3>1, <3>2, <3>3
  <2>2. 0 \in 0..ImageWords
    BY <1>0
  <2> QED  BY <1>6, <2>1, <2>2 DEF Filling
<1>7. CASE phTodo = Ph!Prepare(p)
  <2> DEFINE t == Opening(p) \o Ph!Instructions(p)
  <2>1. Listed(t) /\ t # <<>>
    BY <1>3, Lists, NotEmpty
  <2>2. phTodo = One(Ph!Host, t)
    BY <1>3, <1>7
  <2> HIDE DEF t
  <2>3. phTodo' = t /\ w = Ph!Host /\ phTodo' # <<>>
    <3>1. Head(One(Ph!Host, t)) = Ph!Host /\ Tail(One(Ph!Host, t)) = t
      BY <2>1, Takes
    <3> QED  BY <1>1, <2>1, <2>2, <3>1, Zenon DEF w
  <2>4. mux' = "host" /\ csr' = csr /\ mcu' = mcu
    BY <1>2, <2>3, HeadsOf
  <2>5. InOrder'
    BY <2>4, OrderStays
  <2>6. phTodo' = Opening(phPass)' \o Ph!Instructions(phPass)'
    BY <1>4, <2>3 DEF t
  <2>7. Filling'
    BY <2>4, <2>6 DEF Filling
  <2> QED  BY <1>5, <2>3, <2>4, <2>5, <2>7
<1>8. ASSUME mux = "host", NEW k \in 0..ImageWords, phTodo = Rest("imem", p, k) \o AfterImage(p), Filled(imem, p, k)
      PROVE  PhyInv'
  <2>1. CASE k # ImageWords
    <3> DEFINE s == Rest("imem", p, k)
    <3>1. /\ Listed(s) /\ s # <<>> /\ k + 1 \in 0..ImageWords
          /\ Head(s) = [to |-> "imem", val |-> p, word |-> k + 1] /\ Tail(s) = Rest("imem", p, k + 1)
      <4> HIDE DEF p
      <4> QED  BY <2>1, BlobRest, Zenon
    <3> HIDE DEF s
    <3>2. phTodo' = Tail(s) \o AfterImage(p) /\ w = Head(s) /\ phTodo' # <<>>
      <4>1. phTodo = s \o AfterImage(p)
        BY <1>8 DEF s
      <4>2. /\ Head(s \o AfterImage(p)) = Head(s) /\ Tail(s \o AfterImage(p)) = Tail(s) \o AfterImage(p)
            /\ Tail(s) \o AfterImage(p) # <<>>
        <5> DEFINE t == AfterImage(p)
        <5>1. Listed(t) /\ t # <<>>
          BY <1>3
        <5> HIDE DEF t
        <5>2. Head(s \o t) = Head(s) /\ Tail(s \o t) = Tail(s) \o t /\ Tail(s) \o t # <<>>
          BY <3>1, <5>1, Taken
        <5> QED  BY <5>2 DEF t
      <4> QED  BY <1>1, <4>1, <4>2, Zenon DEF w
    <3>3. w.to = "imem" /\ w.val = p /\ w.word = k + 1
      BY <3>1, <3>2
    <3>4. imem' = [imem EXCEPT ![k + 1] = p] /\ UNCHANGED <<mux, csr, mcu>>
      BY <1>2, <1>8, <3>3
    <3>5. Filled(imem', p, k + 1)
      BY <1>8, <2>1, <3>4, Fill DEF PhyBase
    <3>6. phTodo' = Rest("imem", phPass, k + 1)' \o AfterImage(phPass)' /\ Filled(imem, phPass, k + 1)'
      BY <1>1, <1>4, <3>1, <3>2, <3>5 DEF Rest, Filled
    <3>7. Filling'
      BY <1>8, <3>1, <3>4, <3>6 DEF Filling
    <3>8. InOrder'
      BY <3>4, OrderStays
    <3> QED  BY <1>5, <3>2, <3>4, <3>7, <3>8
  <2>2. CASE k = ImageWords
    <3> DEFINE t == Ph!Data(p)
    <3>1. phTodo = Three(Ph!Mcu, Mark, Ph!Host, t)
      BY <1>3, <1>8, <2>2, BlobRest, Lists
    <3>2. Listed(t) /\ t # <<>>
      BY <1>3
    <3> HIDE DEF t
    <3>3. /\ Head(Three(Ph!Mcu, Mark, Ph!Host, t)) = Ph!Mcu
          /\ Tail(Three(Ph!Mcu, Mark, Ph!Host, t)) = Two(Mark, Ph!Host, t) /\ Two(Mark, Ph!Host, t) # <<>>
      BY <3>2, Takes
    <3>4. phTodo' = Two(Mark, Ph!Host, t) /\ w = Ph!Mcu /\ phTodo' # <<>>
      BY <1>1, <3>1, <3>3, Zenon DEF w
    <3>5. UNCHANGED <<csr, imem, mcu>>
      BY <1>2, <3>4, HeadsOf
    <3>6. imem' = Ph!Image(phPass)'
      BY <1>0, <1>4, <1>8, <2>2, <3>5, Fill DEF PhyBase
    <3>7. phTodo' = Two(Mark, Ph!Host, Ph!Data(phPass))'
      <4>1. phTodo' = Two(Mark, Ph!Host, Ph!Data(phPass)')
        BY <1>4, <3>4 DEF t
      <4> QED  BY <4>1 DEF Mark, Ph!Host, Two, Ph!Write
    <3>8. Filling'
      BY <3>6, <3>7 DEF Filling, FillingData
    <3>9. InOrder'
      BY <3>5, OrderStays
    <3> QED  BY <1>5, <3>4, <3>5, <3>8, <3>9
  <2> QED  BY <2>1, <2>2
<1>9. CASE mux = "host" /\ phTodo = Opening(p) \o Ph!Instructions(p)
  <2>1. CASE p = "1d"
    <3> DEFINE a == Ph!Put(Ph!Master(\h60), 2)
               t == Ph!Instructions(p)
    <3>1. phTodo = One(a, t)
      BY <1>9, <2>1 DEF Opening, One
    <3>2. a \in Writes(Plain)
      <4>1. Ph!Master(\h60) \in Plain
        BY PlainBlocks, OffsetsUsed
      <4> QED  BY <4>1, PutPlain, ValuesUsed
    <3>3. Listed(t) /\ t # <<>>
      BY <1>3
    <3> HIDE DEF t, a
    <3>4. Head(One(a, t)) = a /\ Tail(One(a, t)) = t
      BY <3>3, Takes
    <3>5. phTodo' = t /\ w = a /\ phTodo' # <<>>
      BY <1>1, <3>1, <3>3, <3>4, Zenon DEF w
    <3>6. csr' = Puts(csr, a) /\ mux' = mux /\ mcu' = mcu
      BY <1>2, <1>9, <3>2, <3>5, WriteParts
    <3>7. Alike(csr') /\ Vacant(csr') /\ Closed(csr')
      BY <3>2, <3>6, PlainWrites, AlikeKept, VacantKept, ClosedKept DEF InOrder
    <3>8. InOrder'
      <4>1. \A c : c = csr' => (Alike(c) <=> Alike(csr)') /\ (Vacant(c) <=> Vacant(csr)') /\ (Closed(c) <=> Closed(csr)')
        BY PrimedOrder
      <4> QED  BY <3>7, <4>1 DEF InOrder
    <3>9. Filling'
      BY <1>6, <1>9, <3>5, <3>6 DEF t
    <3> QED  BY <1>5, <3>5, <3>6, <3>8, <3>9
  <2>2. CASE p # "1d"
    <3>1. phTodo = Ph!Instructions(p)
      BY <1>3, <1>9, <2>2, Lists DEF Opening
    <3>2. phTodo = Rest("imem", p, 0) \o AfterImage(p) /\ Filled(imem, p, 0) /\ 0 \in 0..ImageWords
      BY <1>0, <1>3, <3>1 DEF Filled
    <3> QED  BY <1>8, <1>9, <3>2
  <2> QED  BY <2>1, <2>2
<1>10. CASE imem = Ph!Image(p) /\ FillingData
  BY <1>10, DataKept
<1> QED  BY <1>7, <1>8, <1>9, <1>10 DEF Filling

\* What is kept of the registers, as the registers will be.
LEMMA OrderAfter ==
  /\ \A c : c = csr' /\ Alike(c) => Alike(csr)'
  /\ \A c : c = csr' /\ Vacant(c) => Vacant(csr)'
  /\ \A c : c = csr' /\ Alike(c) /\ Vacant(c) /\ Closed(c) => InOrder'
  BY PrimedOrder DEF InOrder

\* The configuration is written.
LEMMA ConfigureKept ==
  ASSUME PartsAssumption, PhyBase, Ph!WriteOne, Configures
  PROVE  PhyInv'
<1> DEFINE w == Head(phTodo)
           t == Ph!Prepare("1d")
           c == Puts(csr, w)
<1>0. PhyBase'
  BY BaseKept DEF Ph!Next
<1>1. PICK s \in Seq(Writes(Unstarted)) : phTodo = s \o t /\ \A g \in Gates : Ends(csr, s, g, 0)
  BY DEF Configures
<1>2. phAt = "config" /\ mcu = "stall" /\ phPass = "1d" /\ mux = "host" /\ Alike(csr) /\ Vacant(csr)
  BY DEF Configures
<1>3. Listed(t) /\ t # <<>> /\ Listed(s)
  BY <1>2, PrepareParts DEF PhyBase, Ph!Passes, Listed
<1>4. t' = t
  <2>1. ddr4' = ddr4
    BY WriteDoes
  <2> QED  BY <2>1 DEF Ph!Prepare, Ph!Instructions, Ph!Data, Ph!MessageBlock
<1> HIDE DEF t
<1>5. CASE s = <<>>
  <2>1. phTodo = t
    BY <1>1, <1>3, <1>5, Lists
  <2>2. Closed(csr)
    BY <1>1, <1>5, EndsHold DEF Closed
  <2>3. InOrder /\ Filling
    BY <1>2, <2>1, <2>2 DEF InOrder, Filling, t
  <2> QED  BY <1>2, <2>3, FillKept
<1>6. CASE s # <<>>
  <2>1. Head(s \o t) = Head(s) /\ Tail(s \o t) = Tail(s) \o t /\ Tail(s) \o t # <<>>
    BY <1>3, <1>6, Taken
  <2>2. w = Head(s) /\ phTodo' = Tail(s) \o t /\ phTodo' # <<>>
    <3>1. phTodo' = Tail(phTodo)
      BY WriteDoes
    <3> QED  BY <1>1, <2>1, <3>1, Zenon
  <2>3. Head(s) \in Writes(Unstarted) /\ Tail(s) \in Seq(Writes(Unstarted))
    BY <1>6, HeadTailProperties
  <2>4. w \in Writes(Unstarted) /\ w \in Writes(Even) /\ w.to = "csr"
    BY <2>2, <2>3, PlainWrites, WriteParts
  <2>5. csr' = c /\ UNCHANGED <<mux, mcu, phPass>> /\ phAt' = "config"
    BY <1>2, <2>2, <2>4, WriteDoes
  <2>6. Alike(c) /\ Vacant(c)
    BY <1>2, <2>4, AlikeKept, VacantKept
  <2>7. \A g \in Gates : Ends(c, Tail(s), g, 0)
    BY <1>1, <1>6, <2>2, EndsOn
  <2>8. Alike(csr)' /\ Vacant(csr)'
    BY <2>5, <2>6, OrderAfter
  <2>9. \A g \in Gates : Ends(csr, Tail(s), g, 0)'
    <3>1. \A g \in Gates : Ends(csr', Tail(s), g, 0)
      BY <2>5, <2>7
    <3> QED  BY <3>1 DEF Ends, Keeps, Sets
  <2>10. Configures'
    <3>1. \E u \in Seq(Writes(Unstarted)) : phTodo' = u \o t' /\ \A g \in Gates : Ends(csr, u, g, 0)'
      BY <1>4, <2>2, <2>3, <2>9
    <3> QED  BY <1>2, <2>5, <2>8, <3>1 DEF Configures, t
  <2> QED  BY <1>0, <2>10 DEF PhyInv
<1> QED  BY <1>5, <1>6

\* The result is asked for: the firmware is stalled, the bus taken, the result read and
\* the bus given back.
LEMMA AskKept ==
  ASSUME PartsAssumption, PhyBase, Ph!WriteOne, Trains \/ Asks
  PROVE  PhyInv'
<1> DEFINE w == Head(phTodo)
<1>0. PhyBase'
  BY BaseKept DEF Ph!Next
<1>1. phTodo # <<>> /\ phTodo' = Tail(phTodo) /\ UNCHANGED <<ddr4, phPass, mail>>
      /\ (phAt = "judge" => phAt' = "judge")
  BY WriteDoes
<1>2. /\ w.to = "mux" => mux' = w.val /\ UNCHANGED <<csr, block, result, verdict, mcu, phFw>>
      /\ w.to = "csr" /\ mux = "mcu" => UNCHANGED <<csr, mux, block, result, verdict, mcu, phFw>>
      /\ w.to = "read" /\ mux = "host" => verdict' = result /\ UNCHANGED <<csr, mux, block, result, mcu, phFw>>
      /\ w.to = "mcu" /\ w.val # "reset" => mcu' = w.val /\ UNCHANGED <<csr, mux, block, result, verdict, phFw>>
  BY WriteDoes
<1>3. phAt = "judge" /\ InOrder /\ block = Params(phPass) /\ mail = "done" /\ phFw # "work"
  BY <1>1 DEF Trains, Asks, Awaits, Given
<1> HIDE DEF w
<1>4. ASSUME UNCHANGED <<csr, block, phFw>>, mcu' = "stall", Asking' PROVE PhyInv'
  <2>1. InOrder' /\ block' = Params(phPass)'
    BY <1>1, <1>3, <1>4, OrderStays, PartsStay
  <2>2. Asks'
    BY <1>1, <1>3, <1>4, <2>1 DEF Asks
  <2> QED  BY <1>0, <2>2 DEF PhyInv
<1>5. CASE Trains
  <2>1. mux = "mcu" /\ phTodo = Ph!Fetch
    BY <1>1, <1>5 DEF Trains, Awaits
  <2>2. phTodo' = Fetching /\ w = Stall
    BY <1>1, <2>1 DEF w, Ph!Fetch, Fetching, Stall, Ph!Write
  <2>3. mux' = "mcu" /\ mcu' = "stall" /\ UNCHANGED <<csr, block, phFw>>
    BY <1>2, <2>1, <2>2, HeadsOf
  <2>4. Asking'
    BY <2>2, <2>3 DEF Asking, Fetching
  <2> QED  BY <1>4, <2>3, <2>4
<1>6. CASE Asks /\ mux = "mcu" /\ phTodo = Fetching
  <2>1. phTodo' = <<Ph!Host, Ph!Write("read", 0), Ph!Mcu>> /\ w = Ph!Put(Ph!Master(\h89), 0)
    BY <1>1, <1>6 DEF w, Fetching
  <2>2. w.to = "csr"
    BY <2>1, HeadsOf
  <2>3. mcu' = "stall" /\ UNCHANGED <<csr, block, phFw>>
    BY <1>2, <1>6, <2>2 DEF Asks
  <2>4. Asking'
    BY <2>1 DEF Asking, Ph!Host, Ph!Mcu, Ph!Write
  <2> QED  BY <1>4, <2>3, <2>4
<1>7. CASE Asks /\ phTodo = <<Ph!Host, Ph!Write("read", 0), Ph!Mcu>>
  <2>1. phTodo' = <<Ph!Write("read", 0), Ph!Mcu>> /\ w = Ph!Host
    BY <1>1, <1>7 DEF w
  <2>2. mux' = "host" /\ mcu' = "stall" /\ UNCHANGED <<csr, block, phFw>>
    BY <1>2, <1>7, <2>1, HeadsOf DEF Asks
  <2>3. Asking'
    BY <2>1, <2>2 DEF Asking, Ph!Mcu, Ph!Write
  <2> QED  BY <1>4, <2>2, <2>3
<1>8. CASE Asks /\ mux = "host" /\ phTodo = <<Ph!Write("read", 0), Ph!Mcu>>
  <2>1. phTodo' = <<Ph!Mcu>> /\ w = Ph!Write("read", 0)
    BY <1>1, <1>8 DEF w
  <2>2. verdict' = result' /\ mcu' = "stall" /\ UNCHANGED <<csr, block, phFw>>
    BY <1>2, <1>8, <2>1, HeadsOf DEF Asks
  <2>3. Asking'
    BY <2>1, <2>2 DEF Asking, Ph!Mcu, Ph!Write
  <2> QED  BY <1>4, <2>2, <2>3
<1>9. CASE Asks /\ verdict = result /\ phTodo = <<Ph!Mcu>>
  <2>1. phTodo' = <<>> /\ w = Ph!Mcu
    BY <1>1, <1>9 DEF w
  <2>2. verdict' = result' /\ mcu' = "stall" /\ UNCHANGED <<csr, block, phFw>>
    BY <1>2, <1>9, <2>1, HeadsOf DEF Asks
  <2>3. Asking'
    BY <2>1, <2>2 DEF Asking
  <2> QED  BY <1>4, <2>2, <2>3
<1> QED  BY <1>1, <1>5, <1>6, <1>7, <1>8, <1>9 DEF Asks, Asking

\* The program of the sequencer is written.
LEMMA ProgramKept ==
  ASSUME PartsAssumption, PhyBase, Ph!WriteOne, GoesOn
  PROVE  PhyInv'
<1> DEFINE w == Head(phTodo)
           m == <<Ph!Mcu>>
<1>0. PhyBase' /\ ddr4 \in BOOLEAN /\ ddr4' = ddr4
  BY BaseKept, WriteDoes DEF Ph!Next, PhyBase
<1>1. phTodo # <<>> /\ phTodo' = Tail(phTodo) /\ UNCHANGED <<ddr4, phPass>>
      /\ (phAt = "mission" => phAt' = "mission")
  BY WriteDoes
<1>2. /\ w.to = "mux" => mux' = w.val /\ UNCHANGED <<csr, block, result, mcu>>
      /\ w.to = "csr" /\ mux = "host" => csr' = Puts(csr, w) /\ UNCHANGED <<mux, block, result, mcu>>
  BY WriteDoes
<1>3. /\ phAt = "mission" /\ mcu = "stall" /\ result = "good" /\ Alike(csr) /\ block = Params(phPass)
      /\ ddr4 => phPass = "2d"
  BY DEF GoesOn
<1> HIDE DEF w
<1>4. ASSUME UNCHANGED <<block, result, mcu>>, Alike(csr)', Programming' PROVE PhyInv'
  <2>1. block' = Params(phPass)'
    BY <1>1, <1>3, <1>4, PartsStay
  <2>2. GoesOn'
    BY <1>1, <1>3, <1>4, <2>1 DEF GoesOn
  <2> QED  BY <1>0, <2>2 DEF PhyInv
<1>5. Listed(m) /\ m # <<>> /\ m' = m
  BY Lists DEF Ph!Mcu, Ph!Write
<1>6. ASSUME NEW s \in Seq(Writes(Even)), mux' = "host", phTodo' = s \o m, Programmed(ddr4, csr', s) PROVE Programming'
  <2>1. Programmed(ddr4, csr, s)'
    BY <1>0, <1>6 DEF Programmed, Ends, Keeps, Sets, Gates, Ph!Everywhere, Ph!Master, Ph!Bytes, Ph!Address, Ph!Csr,
       Vector1, Vector2, Vector3, Third, Second, Instrs
  <2> QED  BY <1>6, <2>1 DEF Programming, Ph!Mcu, Ph!Write
<1>7. CASE phTodo = Ph!Pie /\ InOrder
  <2> DEFINE b == Body(ddr4)
             u == b \o m
  <2>1. phTodo = One(Ph!Host, u)
    BY <1>0, <1>7, PieParts DEF One
  <2>2. b \in Seq(Writes(Even)) /\ Programmed(ddr4, csr, b)
    BY <1>0, <1>7, BodyRight, ProgramAhead DEF InOrder
  <2> HIDE DEF b
  <2>3. Listed(u) /\ u # <<>>
    BY <1>5, <2>2, Lists, NotEmpty DEF Listed
  <2> HIDE DEF u
  <2>4. Head(One(Ph!Host, u)) = Ph!Host /\ Tail(One(Ph!Host, u)) = u
    BY <2>3, Takes
  <2>5. phTodo' = u /\ w = Ph!Host
    BY <1>1, <2>1, <2>4, Zenon DEF w
  <2>6. mux' = "host" /\ UNCHANGED <<csr, block, result, mcu>>
    BY <1>2, <2>5, HeadsOf
  <2>7. Alike(csr)'
    BY <1>3, <2>6, OrderStays
  <2>8. Programming'
    <3>1. phTodo' = b \o m /\ Programmed(ddr4, csr', b)
      BY <2>2, <2>5, <2>6 DEF u
    <3> QED  BY <1>6, <2>2, <2>6, <3>1
  <2> QED  BY <1>4, <2>6, <2>7, <2>8
<1>8. CASE mux = "host" /\ \E s \in Seq(Writes(Even)) : phTodo = s \o m /\ Programmed(ddr4, csr, s)
  <2>1. PICK s \in Seq(Writes(Even)) : phTodo = s \o m /\ Programmed(ddr4, csr, s)
    BY <1>8
  <2>2. CASE s # <<>>
    <3>1. Head(s \o m) = Head(s) /\ Tail(s \o m) = Tail(s) \o m
      BY <1>5, <2>2, Taken DEF Listed
    <3>2. w = Head(s) /\ phTodo' = Tail(s) \o m
      BY <1>1, <2>1, <3>1, Zenon DEF w
    <3>3. Head(s) \in Writes(Even) /\ Tail(s) \in Seq(Writes(Even))
      BY <2>2, HeadTailProperties
    <3>4. csr' = Puts(csr, Head(s)) /\ UNCHANGED <<mux, block, result, mcu>>
      BY <1>2, <1>8, <3>2, <3>3, WriteParts
    <3>5. Alike(csr)'
      BY <1>3, <3>3, <3>4, AlikeKept, OrderAfter
    <3>6. Programmed(ddr4, Puts(csr, Head(s)), Tail(s))
      BY <1>0, <2>1, <2>2, ProgramOn
    <3>7. Programming'
      BY <1>6, <1>8, <3>2, <3>3, <3>4, <3>6
    <3> QED  BY <1>4, <3>4, <3>5, <3>7
  <2>3. CASE s = <<>>
    <3>1. phTodo = m
      BY <1>5, <2>1, <2>3, Lists
    <3>2. phTodo' = <<>> /\ w = Ph!Mcu
      BY <1>1, <3>1 DEF w
    <3>3. UNCHANGED <<csr, block, result, mcu>>
      BY <1>2, <3>2, HeadsOf
    <3>4. Alike(csr)'
      BY <1>3, <3>3, OrderStays
    <3>5. Programmed(ddr4, csr', <<>>)
      BY <2>1, <2>3, <3>3
    <3>6. Programmed(ddr4, csr, <<>>)'
      BY <1>0, <3>5 DEF Programmed, Ends, Keeps, Sets, Gates, Ph!Everywhere, Ph!Master, Ph!Bytes, Ph!Address, Ph!Csr,
         Vector1, Vector2, Vector3, Third, Second, Instrs
    <3>7. Programming'
      BY <3>2, <3>6 DEF Programming
    <3> QED  BY <1>4, <3>3, <3>4, <3>7
  <2> QED  BY <2>2, <2>3
<1> QED  BY <1>1, <1>7, <1>8 DEF GoesOn, Programming

-----------------------------------------------------------------------------
(* What the firmware and the host do while a pass runs.                    *)

LEMMA FirmwareKept ==
  ASSUME PartsAssumption, PhyInv,
         (\E m \in {"info", "done", "fail"} : Ph!Tell(m)) \/ Ph!SeeRead \/ Ph!SeeReady \/ Ph!Hang
  PROVE  PhyInv'
<1>0. PhyBase'
  BY BaseKept DEF Ph!Next, PhyInv
<1>1. mcu = "run" /\ UNCHANGED <<ddr4, phAt, phTodo, phPass, verdict, mux, csr, imem, dmem, block, mcu, unread>>
  BY DEF Ph!Tell, Ph!SeeRead, Ph!SeeReady, Ph!Hang, Ph!Runs, Ph!hostVars, Ph!ramVars
<1>2. Trains
  BY <1>1 DEF PhyInv, AtRest, Configures, Fills, Asks, GoesOn
<1>3. InOrder' /\ Given'
  BY <1>1, <1>2, OrderStays, PartsStay DEF Trains, Given
<1>4. Says'
  BY <1>2 DEF Trains, Says, Ph!Tell, Ph!SeeRead, Ph!SeeReady, Ph!Hang, Ph!ramVars
<1>5. Awaits'
  <2>1. CASE phAt \in {"poll", "failed"}
    BY <1>1, <1>2, <2>1 DEF Trains, Awaits
  <2>2. CASE phAt = "ack"
    <3>1. phTodo = <<>> /\ ~unread /\ phFw # "work"
      BY <1>2, <2>2 DEF Trains, Awaits
    <3>2. phFw' # "work"
      BY <3>1 DEF Ph!Tell, Ph!SeeRead, Ph!SeeReady, Ph!Hang
    <3> QED  BY <1>1, <2>2, <3>1, <3>2 DEF Awaits
  <2>3. CASE phAt = "judge"
    <3>1. phTodo = Ph!Fetch /\ mail = "done" /\ phFw # "work"
      BY <1>2, <2>3 DEF Trains, Awaits
    <3>2. phFw' # "work" /\ mail' = "done"
      BY <3>1 DEF Ph!Tell, Ph!SeeRead, Ph!SeeReady, Ph!Hang
    <3>3. phTodo' = Ph!Fetch'
      BY <1>1, <3>1 DEF Ph!Fetch, Ph!Write, Ph!Put, Ph!Master, Ph!Csr, Ph!Host, Ph!Mcu
    <3> QED  BY <1>1, <2>3, <3>2, <3>3 DEF Awaits
  <2> QED  BY <1>2, <2>1, <2>2, <2>3 DEF Trains, Awaits
<1>6. Trains'
  BY <1>1, <1>2, <1>3, <1>4, <1>5 DEF Trains
<1> QED  BY <1>0, <1>6 DEF PhyInv

LEMMA AnswersKept ==
  ASSUME PartsAssumption, PhyInv, Ph!Poll \/ Ph!Ack \/ Ph!Timeout
  PROVE  PhyInv'
<1>0. PhyBase'
  BY BaseKept DEF Ph!Next, PhyInv
<1>1. /\ phAt \in {"poll", "ack"} /\ phTodo = <<>>
      /\ UNCHANGED <<ddr4, phPass, mux, csr, imem, dmem, block, result, mcu, phFw, mail, phPending>>
  BY DEF Ph!Poll, Ph!Ack, Ph!Timeout, Ph!At, Ph!ramVars, Ph!mcuVars
<1>2. Trains
  BY <1>1 DEF PhyInv, AtRest, Configures, Fills, Asks, GoesOn
<1>3. InOrder' /\ Given' /\ Says'
  BY <1>1, <1>2, OrderStays, PartsStay DEF Trains, Given, Says
<1>4. Awaits'
  <2>1. CASE Ph!Poll
    <3>1. phFw # "work"
      BY <1>2, <2>1 DEF Trains, Says, Ph!Poll
    <3> QED  BY <1>1, <2>1, <3>1 DEF Awaits, Ph!Poll
  <2>2. CASE Ph!Ack
    <3>1. phFw # "work" /\ phTodo = <<>>
      BY <1>1, <1>2, <2>2 DEF Trains, Awaits, Ph!Ack, Ph!At
    <3>2. CASE mail = "done"
      <4>1. phAt' = "judge" /\ phTodo' = Ph!Fetch /\ mail' = "done" /\ phFw' # "work"
        BY <1>1, <2>2, <3>1, <3>2 DEF Ph!Ack
      <4>2. Ph!Fetch' = Ph!Fetch
        BY DEF Ph!Fetch, Ph!Write, Ph!Put, Ph!Master, Ph!Csr, Ph!Host, Ph!Mcu
      <4> QED  BY <4>1, <4>2 DEF Awaits
    <3>3. CASE mail # "done"
      <4>1. phAt' \in {"poll", "failed"} /\ phTodo' = <<>>
        BY <2>2, <3>1, <3>3 DEF Ph!Ack
      <4> QED  BY <4>1 DEF Awaits
    <3> QED  BY <3>2, <3>3
  <2>3. CASE Ph!Timeout
    BY <1>1, <2>3 DEF Awaits, Ph!Timeout
  <2> QED  BY <2>1, <2>2, <2>3
<1>5. Trains'
  BY <1>1, <1>2, <1>3, <1>4 DEF Trains
<1> QED  BY <1>0, <1>5 DEF PhyInv

\* Where nothing is left to write, the result was read, or the program is loaded.
LEMMA NothingLeft ==
  ASSUME PartsAssumption, PhyInv, phTodo = <<>>
  PROVE  /\ phAt = "judge" => Asks /\ verdict = result
         /\ phAt = "mission" => GoesOn /\ Programmed(ddr4, csr, <<>>)
<1>1. Ph!Fetch # <<>> /\ Fetching # <<>>
  BY DEF Ph!Fetch, Fetching
<1>2. ASSUME phAt = "judge" PROVE Asks /\ verdict = result
  <2>1. Asks
    BY <1>1, <1>2 DEF PhyInv, AtRest, Configures, Fills, Trains, Awaits, GoesOn
  <2> QED  BY <1>1, <2>1 DEF Asks, Asking
<1>3. ASSUME phAt = "mission" PROVE GoesOn /\ Programmed(ddr4, csr, <<>>)
  <2>1. GoesOn /\ ddr4 \in BOOLEAN
    BY <1>3 DEF PhyInv, PhyBase, AtRest, Configures, Fills, Trains, Awaits, Asks
  <2> DEFINE m == <<Ph!Mcu>>
  <2>2. Listed(m) /\ m # <<>>
    BY Lists
  <2>3. \A s \in Seq(Writes(Even)) : s \o m # <<>>
    <3> HIDE DEF m
    <3>1. \A s \in Seq(Writes(Even)) : Listed(s)
      BY DEF Listed
    <3> QED  BY <2>2, <3>1, NotEmpty
  <2>4. Ph!Pie # <<>>
    <3> DEFINE t == Body(ddr4) \o m
    <3>1. Ph!Pie = One(Ph!Host, t)
      BY <2>1, PieParts DEF One
    <3>2. Listed(t) /\ t # <<>>
      <4>1. Body(ddr4) \in Seq(Writes(Even))
        BY <2>1, BodyRight
      <4> HIDE DEF m
      <4> QED  BY <2>2, <4>1, Lists, NotEmpty DEF Listed
    <3> HIDE DEF t
    <3> QED  BY <3>1, <3>2, Takes
  <2> QED  BY <2>1, <2>3, <2>4 DEF GoesOn, Programming
<1> QED  BY <1>2, <1>3

LEMMA JudgeKept ==
  ASSUME PartsAssumption, PhyInv, Ph!Judge
  PROVE  PhyInv'
<1>0. PhyBase' /\ PhyBase
  BY BaseKept DEF Ph!Next, PhyInv
<1>1. /\ phAt = "judge" /\ phTodo = <<>>
      /\ UNCHANGED <<ddr4, verdict, mux, csr, imem, dmem, block, result, mcu, phFw, mail>>
  BY DEF Ph!Judge, Ph!At, Ph!ramVars, Ph!mcuVars
<1>2. Asks /\ verdict = result
  BY <1>1, NothingLeft
<1>3. InOrder'
  BY <1>1, <1>2, OrderStays DEF Asks
<1>4. CASE verdict # "good"
  <2>1. AtRest'
    BY <1>1, <1>2, <1>4 DEF Ph!Judge, AtRest, Asks
  <2> QED  BY <1>0, <2>1 DEF PhyInv
<1>5. CASE verdict = "good" /\ ddr4 /\ phPass = "1d"
  <2>1. phAt' = "config" /\ phTodo' = Ph!Prepare("2d") /\ phPass' = "2d" /\ mcu' = "stall"
    BY <1>1, <1>2, <1>5 DEF Ph!Judge, Asks
  <2>2. phTodo' = Ph!Prepare(phPass)'
    BY <1>1, <2>1 DEF Ph!Prepare, Ph!Instructions, Ph!Data, Ph!MessageBlock
  <2>3. Fills'
    BY <1>3, <2>1, <2>2 DEF Fills, Filling
  <2> QED  BY <1>0, <2>3 DEF PhyInv
<1>6. CASE verdict = "good" /\ ~(ddr4 /\ phPass = "1d")
  <2>1. phAt' = "mission" /\ phTodo' = Ph!Pie /\ phPass' = phPass
    BY <1>6 DEF Ph!Judge
  <2>2. Ph!Pie' = Ph!Pie /\ block' = Params(phPass)'
    BY <1>1, <1>2, <2>1, PartsStay DEF Ph!Pie, Asks
  <2>3. Programming'
    BY <1>3, <2>1, <2>2 DEF Programming
  <2>4. ddr4' => phPass' = "2d"
    BY <1>0, <1>1, <1>6, <2>1 DEF PhyBase, Ph!Passes
  <2>5. GoesOn'
    BY <1>1, <1>2, <1>3, <1>6, <2>1, <2>2, <2>3, <2>4 DEF GoesOn, Asks, InOrder
  <2> QED  BY <1>0, <2>5 DEF PhyInv
<1> QED  BY <1>4, <1>5, <1>6

LEMMA AttemptKept ==
  ASSUME PartsAssumption, PhyInv, Ph!Attempt
  PROVE  PhyInv'
<1>0. PhyBase' /\ PhyBase
  BY BaseKept DEF Ph!Next, PhyInv
<1>1. /\ phAt' = "config" /\ phPass' = "1d" /\ mux' = "host" /\ csr' = <<>> /\ mcu' = "stall"
      /\ phTodo' = Ph!Config \o Ph!Prepare("1d") /\ ddr4' = ddr4
  BY DEF Ph!Attempt
<1>2. Alike(csr)' /\ Vacant(csr)'
  BY <1>1, NoRegisters, OrderAfter
<1>3. Ph!Config \in Seq(Writes(Unstarted)) /\ \A g \in Gates : Sets(Ph!Config, g, 0)
  BY ConfigTables DEF Ph!Config
<1>4. \A g \in Gates : Ends(csr, Ph!Config, g, 0)'
  BY <1>1, <1>3 DEF Ends, Sets, Keeps, Ph!Config
<1>5. Ph!Prepare("1d")' = Ph!Prepare("1d") /\ Ph!Config' = Ph!Config
  BY <1>1 DEF Ph!Prepare, Ph!Instructions, Ph!Data, Ph!MessageBlock, Ph!Config
<1>6. \E s \in Seq(Writes(Unstarted)) : phTodo' = s \o Ph!Prepare("1d")' /\ \A g \in Gates : Ends(csr, s, g, 0)'
  BY <1>1, <1>3, <1>4, <1>5
<1>7. Configures'
  BY <1>1, <1>2, <1>6 DEF Configures
<1> QED  BY <1>0, <1>7 DEF PhyInv

LEMMA PhyStarts == PartsAssumption /\ Ph!Init => PhyInv
<1> SUFFICES ASSUME PartsAssumption, Ph!Init PROVE PhyInv
  OBVIOUS
<1>1. AtRest /\ PhyBase
  BY DEF Ph!Init, AtRest, PhyBase, Memory, Ph!Junk, Ph!Passes
<1> QED  BY <1>1 DEF PhyInv

LEMMA PhyStutters == PhyInv /\ UNCHANGED Ph!phyVars => PhyInv'
<1> SUFFICES ASSUME PhyInv, UNCHANGED Ph!phyVars PROVE PhyInv'
  OBVIOUS
<1>1. UNCHANGED <<ddr4, phAt, phTodo, phPass, verdict, mux, csr, imem, dmem, block, result, mcu, phFw, mail, phPending, unread>>
  BY DEF Ph!phyVars, Ph!hostVars, Ph!ramVars, Ph!mcuVars
<1>2. /\ (Alike(csr)' <=> Alike(csr)) /\ (Vacant(csr)' <=> Vacant(csr)) /\ (InOrder' <=> InOrder)
      /\ Params(phPass)' = Params(phPass) /\ Ph!Data(phPass)' = Ph!Data(phPass)
      /\ AfterData(phPass)' = AfterData(phPass) /\ AfterImage(phPass)' = AfterImage(phPass)
      /\ Ph!Image(phPass)' = Ph!Image(phPass) /\ Ph!Instructions(phPass)' = Ph!Instructions(phPass)
      /\ Opening(phPass)' = Opening(phPass)
  BY <1>1, OrderStays, PartsStay
<1>3. Ph!Pie' = Ph!Pie /\ Ph!Prepare("1d")' = Ph!Prepare("1d") /\ Ph!Prepare(phPass)' = Ph!Prepare(phPass)
  BY <1>1 DEF Ph!Pie, Ph!Prepare, Ph!Instructions, Ph!Data, Ph!MessageBlock
<1>4. PhyBase' <=> PhyBase
  BY <1>1 DEF PhyBase, Memory
<1>5. AtRest' <=> AtRest
  BY <1>1 DEF AtRest
<1>6. Configures' <=> Configures
  BY <1>1, <1>2, <1>3 DEF Configures, Ends, Keeps, Sets
<1>7. Fills' <=> Fills
  BY <1>1, <1>2, <1>3 DEF Fills, Filling, FillingData, Starting, Filled
<1>8. Trains' <=> Trains
  BY <1>1, <1>2 DEF Trains, Given, Says, Awaits
<1>9. Asks' <=> Asks
  BY <1>1, <1>2 DEF Asks, Asking
<1>10. GoesOn' <=> GoesOn
  <2>1. ASSUME NEW s PROVE Programmed(ddr4, csr, s)' <=> Programmed(ddr4, csr, s)
    BY <1>1 DEF Programmed, Ends, Keeps, Sets, Gates, Ph!Everywhere, Ph!Master, Ph!Bytes, Ph!Address, Ph!Csr,
       Vector1, Vector2, Vector3, Third, Second, Instrs
  <2>2. Programming' <=> Programming
    BY <1>1, <1>2, <1>3, <2>1 DEF Programming
  <2> QED  BY <1>1, <1>2, <2>2 DEF GoesOn
<1> QED  BY <1>4, <1>5, <1>6, <1>7, <1>8, <1>9, <1>10 DEF PhyInv

LEMMA PhyKept == PartsAssumption /\ PhyInv /\ [Ph!Next]_(Ph!phyVars) => PhyInv'
<1> SUFFICES ASSUME PartsAssumption, PhyInv, [Ph!Next]_(Ph!phyVars) PROVE PhyInv'
  OBVIOUS
<1>1. CASE Ph!WriteOne
  <2>1. phTodo # <<>>
    BY <1>1, WriteDoes
  <2>2. PhyBase /\ (AtRest \/ Configures \/ Fills \/ Trains \/ Asks \/ GoesOn)
    BY DEF PhyInv
  <2>3. CASE Fills
    BY <1>1, <2>2, <2>3, FillKept DEF Fills
  <2> QED  BY <1>1, <2>1, <2>2, <2>3, ConfigureKept, AskKept, ProgramKept DEF AtRest
<1>2. CASE UNCHANGED Ph!phyVars
  BY <1>2, PhyStutters
<1> QED  BY <1>1, <1>2, AttemptKept, JudgeKept, AnswersKept, FirmwareKept DEF Ph!Next

LEMMA PhySettled == PartsAssumption /\ PhyInv => Ph!RunsItsPass /\ Ph!VerdictIsOwn
<1> SUFFICES ASSUME PartsAssumption, PhyInv PROVE Ph!RunsItsPass /\ Ph!VerdictIsOwn
  OBVIOUS
<1>1. Ph!RunsItsPass
  <2> SUFFICES ASSUME mcu = "run"
               PROVE  /\ mux = "mcu" /\ imem = Ph!Image(phPass) /\ dmem = Ph!Image(phPass)
                      /\ block = Ph!MessageBlock(phPass)[1].val
                      /\ phFw = "work" => result = "none"
                      /\ Ph!BytesAlike /\ Ph!Shut
    BY DEF Ph!RunsItsPass, Ph!Runs
  <2>1. Trains
    BY DEF PhyInv, AtRest, Configures, Fills, Asks, GoesOn
  <2>2. Ph!BytesAlike /\ Ph!Shut
    BY <2>1, AlikeBytes, ShutIsClosed DEF Trains, InOrder
  <2> QED  BY <2>1, <2>2 DEF Trains, Given, Says, Params
<1>2. ASSUME phAt = "judge", phTodo = <<>>
      PROVE  mail = "done" /\ phFw # "work" /\ verdict = result /\ block = Ph!MessageBlock(phPass)[1].val
  BY <1>2, NothingLeft DEF Asks, Params
<1>3. ASSUME phAt = "mission", phTodo = <<>>
      PROVE  /\ result = "good" /\ Ph!BytesAlike /\ Ph!Shut
             /\ Ph!StartVectors \cap DOMAIN csr # {} /\ Ph!VectorsLoaded
             /\ ddr4 => phPass = "2d" /\ Ph!SameLatencies
  <2>1. GoesOn /\ Programmed(ddr4, csr, <<>>) /\ ddr4 \in BOOLEAN /\ phPass \in Ph!Passes
    BY <1>3, NothingLeft DEF PhyInv, PhyBase
  <2>2. Ph!VectorsLoaded /\ Ph!Shut /\ Ph!StartVectors \cap DOMAIN csr # {}
    BY <2>1, ProgramThere, ShutIsClosed
  <2>3. result = "good" /\ Ph!BytesAlike /\ (ddr4 => phPass = "2d") /\ block = Params(phPass)
    BY <2>1, AlikeBytes DEF GoesOn
  <2>4. ASSUME ddr4 PROVE Ph!SameLatencies
    <3>1. Params(phPass)[47] = Ph!MR0 /\ Params(phPass)[49] = Ph!MR2 /\ Params(phPass)[51] = Ph!MR4
      BY <2>1, <2>4, ParamsRight
    <3> QED  BY <2>3, <3>1 DEF Ph!SameLatencies
  <2> QED  BY <2>2, <2>3, <2>4
<1>4. Ph!VerdictIsOwn
  BY <1>2, <1>3 DEF Ph!VerdictIsOwn
<1> QED  BY <1>1, <1>4

\* The microcontroller trains only what its pass was given, on registers that are in
\* order, and the host believes only what the firmware of the pass said of it, for any
\* size of the images and any number of attempts.
THEOREM PhyRight == Ph!Spec => [](Ph!RunsItsPass /\ Ph!VerdictIsOwn)
<1>1. Ph!Init => PhyInv
  BY PhyStarts, PartsAssumption
<1>2. PhyInv /\ [Ph!Next]_(Ph!phyVars) => PhyInv'
  BY PhyKept, PartsAssumption
<1>3. PhyInv => Ph!RunsItsPass /\ Ph!VerdictIsOwn
  BY PhySettled, PartsAssumption
<1> QED  BY <1>1, <1>2, <1>3, PTL DEF Ph!Spec
=============================================================================

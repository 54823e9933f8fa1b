----------------------------- MODULE BootImages -----------------------------
(***************************************************************************)
(* The images that a boot takes from the SPI flash (prebuilt.rs, flsh.rs,  *)
(* manifest.rs): the catalogue is parsed, prebuilt binaries are found in   *)
(* it, and the boot images are copied to DRAM.                             *)
(*                                                                         *)
(* A flash holds an ASTH header with the prebuilt binaries behind the FMC  *)
(* and a FLSH container at its own offset (A1), or only a container at the *)
(* start (A2).  Flash and DRAM are functions from addresses to what the    *)
(* tools put there: <<id, i>> is byte i of image id.                       *)
(***************************************************************************)
EXTENDS Integers, Sequences, SequencesExt

CONSTANTS
  Prebuilts,  \* the kinds of the prebuilt binaries, each a number from 1
  FirstSoc,   \* ID_SOC_IMAGES_BASE
  BootList,   \* the boot images: a sequence of [id, at]
  Sizes,      \* bound: the lengths of images
  FmcEnds,    \* bound: where the FMC ends
  Align,      \* the alignment of prebuilt binaries
  InfoSize    \* the length of a container's header and table of images

BootImagesAssumption == Prebuilts \cup {FirstSoc, Align, InfoSize} \subseteq Nat \ {0}

None == <<>>
Pad(n, a) == ((n + a - 1) \div a) * a
Bytes(id, n) == [i \in 1..n |-> <<id, i>>]
Zeros(n) == [i \in 1..n |-> None]
At(f, i) == IF i + 1 \in DOMAIN f THEN f[i + 1] ELSE None

VARIABLES
  hw,       \* silicon_rev: "A1" or "A2"
  images,   \* the images that the tools were given: a sequence of [id, len]
  fmc,      \* where the FMC ends
  asth,     \* the bytes from fmc on, that hold the prebuilt binaries, and their entries
  flsh,     \* the container: whether its magic is right, its table, its payload
  source,   \* the catalogue that parse chose
  kind,     \* the kind that is looked for
  cursor,   \* [n, offset]: the entry the walk is at
  slice,    \* what spi_slice returned
  dram,     \* the memory that images are loaded to
  turn,     \* the boot image that is copied
  loaded    \* LoadedImages: the sizes, 0 when not loaded

flashVars == <<hw, images, fmc, asth, flsh>>
bootVars == <<flashVars, source, kind, cursor, slice, dram, turn, loaded>>

-----------------------------------------------------------------------------
(* The tools that write the flash.                                         *)

\* gen-spi-image.py aligns the image before it appends an entry.
AsthImage(seq, from) ==
  FoldLeft(LAMBDA f, e : LET g == f \o Zeros(Pad(from + Len(f), Align) - from - Len(f))
                         IN g \o Bytes(e.id, e.len), <<>>, seq)

\* The writer that flsh.rs tests against pads each image to 4 bytes.
Payload(seq) == FoldLeft(LAMBDA f, e : f \o Bytes(e.id, e.len) \o Zeros(Pad(e.len, 4) - e.len), <<>>, seq)
Table(seq) == [i \in 1..Len(seq) |->
  [id |-> seq[i].id, size |-> Pad(seq[i].len, 4),
   offset |-> InfoSize + Len(Payload(SubSeq(seq, 1, i - 1)))]]

SocId(k) == FirstSoc + (IF k > 0 THEN k - 1 ELSE 0)
Lists(ids) == {<<>>} \cup {<<[id |-> i, len |-> n]>> : i \in ids, n \in Sizes}
              \cup {<<[id |-> i, len |-> n], [id |-> j, len |-> m]>> : i, j \in ids, n, m \in Sizes}
Container(ids) == {[good |-> g, table |-> Table(s), payload |-> Payload(s)] : g \in BOOLEAN, s \in Lists(ids)}
BootIds == {BootList[i].id : i \in 1..Len(BootList)}

Blank == [entries |-> <<>>, data |-> <<>>]
NotAsked == <<"none">>

Init ==
  /\ \/ /\ hw = "A1" /\ fmc \in FmcEnds
        /\ images \in Lists(Prebuilts)
        /\ asth = [entries |-> images, data |-> AsthImage(images, fmc)]
        /\ flsh \in Container(BootIds)
     \/ /\ hw = "A2" /\ fmc = 0 /\ asth = Blank
        /\ images \in Lists({SocId(k) : k \in Prebuilts} \cup BootIds)
        /\ \E g \in BOOLEAN : flsh = [good |-> g, table |-> Table(images), payload |-> Payload(images)]
  /\ source = "none" /\ kind = 0 /\ cursor = [n |-> 0, offset |-> 0] /\ slice = NotAsked
  /\ dram = [b \in BootIds |-> <<>>]
  /\ turn = 0 /\ loaded = [b \in BootIds |-> 0]

-----------------------------------------------------------------------------
(* The catalogue and the prebuilt binaries.                                *)

\* parse: the container of an A2, or else the ASTH header.  What is not an ASTH
\* header has no entries: the magic is not checked in a release build, and an
\* erased word is no kind.
Parse ==
  /\ source = "none"
  /\ source' = IF hw = "A2" /\ flsh.good THEN "flsh" ELSE "asth"
  /\ UNCHANGED <<flashVars, kind, cursor, slice, dram, turn, loaded>>

\* The index of the first descriptor of an identifier, or 0.
Find(seq, id) == SelectInSeq(seq, LAMBDA e : e.id = id)

\* spi_slice of the container: an image of size 0 is refused.
SliceFlsh(k) ==
  /\ source = "flsh" /\ kind = 0
  /\ LET i == Find(flsh.table, SocId(k)) IN
     slice' = IF i = 0 \/ flsh.table[i].size = 0 THEN None
              ELSE <<"flsh", flsh.table[i].offset, flsh.table[i].size>>
  /\ kind' = k
  /\ UNCHANGED <<flashVars, source, cursor, dram, turn, loaded>>

\* spi_slice of the ASTH header: the kind is in the table, or None.
SliceAsth(k) ==
  /\ source = "asth" /\ kind = 0
  /\ kind' = k
  /\ IF Find(asth.entries, k) = 0
     THEN slice' = None /\ UNCHANGED cursor
     ELSE cursor' = [n |-> 1, offset |-> fmc] /\ UNCHANGED slice
  /\ UNCHANGED <<flashVars, source, dram, turn, loaded>>

\* Mutant: prebuilt binaries lie end to end.
RoundedNot(n) == n

Rounded(n) == Pad(n, Align)

\* One turn of the walk: the offset is aligned before each entry.
Walk ==
  /\ cursor.n # 0
  /\ LET e == asth.entries[cursor.n]  start == Rounded(cursor.offset) IN
     IF e.id = kind
     THEN /\ slice' = <<"asth", start, asth.entries[Find(asth.entries, kind)].len>>
          /\ cursor' = [n |-> 0, offset |-> 0]
     ELSE /\ cursor' = [n |-> cursor.n + 1, offset |-> start + e.len]
          /\ UNCHANGED slice
  /\ UNCHANGED <<flashVars, source, kind, dram, turn, loaded>>

\* The caller has used the slice.
Again ==
  /\ slice # NotAsked
  /\ kind' = 0 /\ slice' = NotAsked
  /\ UNCHANGED <<flashVars, source, cursor, dram, turn, loaded>>

-----------------------------------------------------------------------------
(* load_boot_images.                                                       *)

LoadAll ==
  /\ turn = 0 /\ flsh.good
  /\ turn' = 1
  /\ UNCHANGED <<flashVars, source, kind, cursor, slice, dram, loaded>>

\* Mutant: it rounds down.
WordsDown(n) == (n - 1) \div 4

\* copy32 rounds the length up to words.
Words(n) == (n + 3) \div 4

\* load_image: an image that is absent or of size 0 is skipped; nothing bounds
\* the others by their windows, so an image that reaches into the next window is
\* overwritten there when that one is loaded.
LoadImage ==
  /\ turn \in 1..Len(BootList)
  /\ LET b == BootList[turn]  i == Find(flsh.table, b.id) IN
     IF i = 0 \/ flsh.table[i].size = 0 THEN UNCHANGED <<dram, loaded>>
     ELSE LET e == flsh.table[i] IN
          /\ dram' = [c \in BootIds |->
               LET d == CHOOSE x \in Range(BootList) : x.id = c
                   covered == b.at..(b.at + 4 * Words(e.size) - 1)
                   new(p) == At(flsh.payload, e.offset - InfoSize + p - b.at)
                   old == dram[c]
                   long == IF c = b.id THEN 4 * Words(e.size) ELSE Len(old)
               IN [p \in 1..long |-> IF d.at + p - 1 \in covered THEN new(d.at + p - 1)
                                     ELSE At(old, p - 1)]]
          /\ loaded' = [loaded EXCEPT ![b.id] = e.size]
  /\ turn' = turn + 1
  /\ UNCHANGED <<flashVars, source, kind, cursor, slice>>

Next ==
  \/ Parse \/ (\E k \in Prebuilts : SliceFlsh(k) \/ SliceAsth(k)) \/ Walk \/ Again
  \/ LoadAll \/ LoadImage

Spec == Init /\ [][Next]_bootVars

-----------------------------------------------------------------------------
(* Properties.                                                             *)

TypeOK ==
  /\ source \in {"none", "asth", "flsh"} /\ kind \in Prebuilts \cup {0}
  /\ cursor.n \in 0..Len(asth.entries) /\ cursor.offset \in Nat
  /\ turn \in 0..(Len(BootList) + 1) /\ loaded \in [BootIds -> Nat]

\* The first image of an identifier that the tools were given.
Given(id) == SelectSeq(images, LAMBDA e : e.id = id)
Written(s) == IF s[1] = "asth" THEN [i \in 1..s[3] |-> At(asth.data, s[2] - fmc + i - 1)]
              ELSE [i \in 1..s[3] |-> At(flsh.payload, s[2] - InfoSize + i - 1)]

\* spi_slice returns the bytes that the tools were given for the kind, padded in
\* a container, or None when there are none or the container is damaged.
SliceRight ==
  LET g == Given(IF source = "flsh" THEN SocId(kind) ELSE kind) IN
  CASE slice = NotAsked -> TRUE
    [] slice = None -> g = <<>> \/ (hw = "A2" /\ source = "asth")
    [] OTHER -> /\ g # <<>>
                /\ SubSeq(Written(slice), 1, g[1].len) = Bytes(g[1].id, g[1].len)

\* Where image n of the list lies in DRAM, by the size that was reported for it.
Window(n) == BootList[n].at..(BootList[n].at + 4 * Words(loaded[BootList[n].id]) - 1)

\* Nothing that is loaded after image n of the list reaches into it.  The loader
\* does not check it: the windows of the memory map are as far apart as their
\* images are assumed to be long.
Fits(n) == \A m \in (n + 1)..Len(BootList) : Window(n) \cap Window(m) = {}

\* After load_boot_images each image that it reports, and that Fits, is whole in
\* DRAM.
LoadedWhole ==
  turn > Len(BootList) =>
    \A n \in 1..Len(BootList) : LET b == BootList[n].id IN
      loaded[b] # 0 /\ Fits(n) =>
        \E k \in 1..loaded[b] : /\ Pad(k, 4) = loaded[b]
                                /\ \A i \in 1..k : At(dram[b], i - 1) = <<b, i>>
=============================================================================

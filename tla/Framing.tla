------------------------------- MODULE Framing ------------------------------
(***************************************************************************)
(* What the transactions of Cptra carry: the request as it is framed into  *)
(* DATAIN with its checksum, the response as it is read from DATAOUT, and  *)
(* what the typed commands make of it (cptra.rs).  Cptra has the order of  *)
(* the steps and the lock; here one caller issues commands one after the   *)
(* other.  Bytes are small numbers, a word is a sequence of four of them.  *)
(***************************************************************************)
EXTENDS Integers, Sequences, SequencesExt

CONSTANTS
  Modulus,   \* 2^32 in the code: the checksum wraps around
  Manifests, \* lengths of manifests and certificates that callers send
  MaxManifest,  \* MAX_AUTH_MANIFEST_SIZE and the other limits of requests
  MaxCert,   \* MAX_IDEVID_ECC384_CERT_SIZE
  CertRooms, \* lengths of cert_out
  Lengths,   \* bound: lengths of responses
  MaxCalls   \* bound

FramingAssumption ==
  /\ Manifests \cup CertRooms \cup Lengths \subseteq Nat
  /\ {MaxManifest, MaxCert, MaxCalls} \subseteq Nat /\ Modulus \in Nat \ {0, 1}

VARIABLES
  call,    \* the command under way, or Quiet
  step,    \* "idle", "sent", "answered"
  datain, dlen,  \* the words and the length of the request
  answer,  \* Caliptra's answer: its status and the bytes of its response
  ret,     \* what the last command returned
  calls

framingVars == <<call, step, datain, dlen, answer, ret, calls>>

\* A small number as four bytes, and the number that four bytes are (from_le_bytes).
Le(n) == <<n, 0, 0, 0>>
Number(w) == w[1] + 256 * (w[2] + 256 * (w[3] + 256 * w[4]))
Zero == Le(0)
IMAGE_AUTHORIZED == <<9, 9, 9, 9>>
IMAGE_NOT_AUTHORIZED == <<8, 8, 8, 8>>
Zeros(n) == [i \in 1..n |-> Zero]
Digest == [i \in 1..6 |-> 7]

Quiet == [kind |-> "none", parts |-> <<>>, room |-> 0]

\* The commands, each with the parts of its request and the room for its response:
\* words, or for the certificate the bytes of cert_out.
Calls ==
  {[kind |-> "info", parts |-> <<>>, room |-> 2]}
  \cup {[kind |-> "manifest", parts |-> <<Le(n), [i \in 1..n |-> i]>>, room |-> 2] : n \in Manifests}
  \cup {[kind |-> "authorize", parts |-> <<Le(1), Digest, Zero, Le(2)>>, room |-> 3]}
  \cup {[kind |-> "cert", parts |-> <<Le(n), Digest, Digest, [i \in 1..n |-> i]>>, room |-> r] :
          n \in Manifests, r \in CertRooms}

Last1(s) == s[Len(s)]
TooLong(c) == c.kind \in {"manifest", "cert"} /\ Len(Last1(c.parts)) > MaxManifest

-----------------------------------------------------------------------------
(* The request.                                                            *)

Cmd(c) == <<1, Len(c.parts), 3, 4>>

\* checksum: every byte is subtracted.
Checksum(start, bytes) == FoldLeft(LAMBDA v, b : (v - b) % Modulus, start, bytes)

\* Mutant: the command's own bytes are left out.
ComputeChecksumPayload(c) == Checksum(0, FlattenSeq(c.parts))

ComputeChecksum(c) == FoldLeft(Checksum, Checksum(0, Cmd(c)), c.parts)

\* The bytes of all parts run through one word, which is written when it is full
\* and, filled up with zeros, at the end.
Full == 4
Put(s, b) ==
  IF Len(s.word) + 1 = Full
  THEN [word |-> <<>>, out |-> Append(s.out, Append(s.word, b))]
  ELSE [s EXCEPT !.word = Append(s.word, b)]
Filled(w) == w \o [i \in 1..(Full - Len(w)) |-> 0]

\* Mutant: the bytes of the last word are forgotten unless they fill it.
WriteInputPartsFull(parts) ==
  FoldLeft(Put, [word |-> <<>>, out |-> <<>>], FlattenSeq(parts)).out

WriteInputParts(parts) ==
  LET s == FoldLeft(Put, [word |-> <<>>, out |-> <<>>], FlattenSeq(parts)) IN
    IF s.word = <<>> THEN s.out ELSE Append(s.out, Filled(s.word))

InputLen(c) == Len(FlattenSeq(c.parts))

-----------------------------------------------------------------------------
(* The response.                                                           *)

\* DATAOUT: the response in words, the bytes past its end anything.
DataOut(i) == [k \in 1..Full |->
                 IF 4 * (i - 1) + k <= Len(answer.bytes) THEN answer.bytes[4 * (i - 1) + k] ELSE 5]

Result(is, val) == [is |-> is, val |-> val]
Quick(is) == Result(is, <<>>)
InvalidLength == Quick("InvalidLength")

\* Mutant: a last word that is not whole counts.
DrainOutputUp(room) ==
  LET count == IF answer.status = "DataReady" THEN (Len(answer.bytes) + 3) \div 4 ELSE 0 IN
    IF count > room THEN InvalidLength
    ELSE Result("words", [i \in 1..room |-> IF i <= count THEN DataOut(i) ELSE Zero])

\* drain_output into a buffer of zeros: whole words only.
DrainOutput(room) ==
  LET count == IF answer.status = "DataReady" THEN Len(answer.bytes) \div 4 ELSE 0 IN
    IF count > room THEN InvalidLength
    ELSE Result("words", [i \in 1..room |-> IF i <= count THEN DataOut(i) ELSE Zero])

\* drain_output_bytes into response, a buffer of zeros.
Response == 12 + MaxCert
Got == IF answer.status = "DataReady" THEN Len(answer.bytes) ELSE 0
DrainOutputBytes ==
  [i \in 1..Response |-> IF i <= Got THEN DataOut((i + 3) \div 4)[((i - 1) % 4) + 1] ELSE 0]

FromRaw(w) ==
  IF w = IMAGE_AUTHORIZED THEN "Authorized" ELSE IF w = IMAGE_NOT_AUTHORIZED THEN "NotAuthorized" ELSE "Unknown"

\* Mutant: the certificate's length is compared with the caller's buffer only.
CertFitsRoom(size, room) == size <= room

CertFits(size, room) == size <= room /\ 12 + size <= Got

Cert(room) ==
  LET size == Number([k \in 1..4 |-> DrainOutputBytes[8 + k]]) IN
    IF Got >= 12 /\ CertFits(size, room)
    THEN Result("cert", SubSeq(DrainOutputBytes, 13, 12 + size)) ELSE InvalidLength

Verdict(words) == FromRaw(words[3])

-----------------------------------------------------------------------------
TypeOK ==
  /\ call \in Calls \cup {Quiet} /\ step \in {"idle", "sent", "answered"}
  /\ dlen \in Nat /\ calls \in 0..MaxCalls
  /\ \A i \in DOMAIN datain : Len(datain[i]) = 4 \/ i = 1
  /\ answer.status \in {"CmdBusy", "DataReady", "CmdComplete", "CmdFailure"}

Busy == [status |-> "CmdBusy", bytes |-> <<>>]

Init ==
  /\ call = Quiet /\ step = "idle" /\ datain = <<>> /\ dlen = 0
  /\ answer = Busy /\ ret = Quick("none") /\ calls = 0

Refuse(c) ==
  /\ step = "idle" /\ calls < MaxCalls /\ calls' = calls + 1 /\ TooLong(c)
  /\ ret' = InvalidLength
  /\ UNCHANGED <<call, step, datain, dlen, answer>>

\* The first word of DATAIN is the checksum, kept here as a number.
Send(c) ==
  /\ step = "idle" /\ calls < MaxCalls /\ calls' = calls + 1 /\ ~TooLong(c)
  /\ call' = c /\ step' = "sent" /\ ret' = Quick("none") /\ answer' = Busy
  /\ dlen' = 4 + InputLen(c)
  /\ datain' = <<<<ComputeChecksum(c)>>>> \o WriteInputParts(c.parts)

\* Any answer of Caliptra: its header, a verdict or a length, and more bytes.
Bytes(third, n) == SubSeq(<<1, 2, 3, 4, 0, 0, 0, 0>> \o third \o [i \in 1..n |-> 10 + i], 1, n)
Answers ==
  {[status |-> s, bytes |-> <<>>] : s \in {"CmdComplete", "CmdFailure"}}
  \cup {[status |-> "DataReady", bytes |-> Bytes(third, n)] :
          third \in {IMAGE_AUTHORIZED, IMAGE_NOT_AUTHORIZED} \cup {Le(k) : k \in CertRooms}, n \in Lengths}

Respond ==
  /\ step = "sent" /\ step' = "answered" /\ answer' \in Answers
  /\ UNCHANGED <<call, datain, dlen, ret, calls>>

\* The command returns; a failed one after its response has been drained.
Finish ==
  /\ step = "answered" /\ step' = "idle"
  /\ LET d == IF call.kind # "cert" THEN DrainOutput(call.room)
               ELSE IF Got > Response THEN InvalidLength ELSE Cert(call.room)
     IN ret' = IF answer.status = "CmdFailure" THEN Quick("CmdFailed")
               ELSE IF call.kind = "authorize" /\ d # InvalidLength THEN Quick(Verdict(d.val))
               ELSE d
  /\ UNCHANGED <<call, datain, dlen, answer, calls>>

Next == (\E c \in Calls : Refuse(c) \/ Send(c)) \/ Respond \/ Finish

Spec == Init /\ [][Next]_framingVars

-----------------------------------------------------------------------------
(* Properties.                                                             *)

\* Of the words in DATAIN the first dlen bytes are the checksum and then the
\* parts of the request, byte for byte and without a gap where one part ends
\* within a word; and with the checksum, command and parts sum up to nothing.
RequestWhole ==
  step = "sent" =>
    LET written == FlattenSeq(Tail(datain))
        payload == FlattenSeq(call.parts)
        sum(s) == FoldLeft(LAMBDA a, b : a + b, 0, s)
    IN /\ Len(written) \in (dlen - 4)..(dlen - 1)
       /\ SubSeq(written, 1, dlen - 4) = payload
       /\ (sum(Cmd(call)) + sum(payload) + datain[1][1]) % Modulus = 0

\* The bytes from m to n of the answer, -1 where it has none.
Slice(m, n) == [k \in 1..(n - m + 1) |-> IF m - 1 + k \in DOMAIN answer.bytes THEN answer.bytes[m - 1 + k] ELSE -1]

Said == step = "idle" /\ call.kind # "none" /\ answer.status # "CmdBusy" /\ ret.is \notin {"InvalidLength", "CmdFailed"}

\* An image counts as authorized, and a certificate is handed out, only on the
\* word of the response to this command: never on the zeros of a buffer that a
\* short response left, on bytes past its end or on an earlier answer.
OnItsWord ==
  Said =>
    /\ answer.status # "CmdFailure"
    /\ ret.is = "Authorized" =>
         answer.status = "DataReady" /\ Slice(9, 12) = IMAGE_AUTHORIZED
    /\ ret.is = "cert" =>
         /\ answer.status = "DataReady" /\ Number(Slice(9, 12)) = Len(ret.val) /\ Len(ret.val) <= call.room
         /\ ret.val = Slice(13, 12 + Len(ret.val))
    /\ ret.is = "words" => \A i \in DOMAIN ret.val :
         ret.val[i] \in {Zero, Slice(4 * i - 3, 4 * i)}
=============================================================================

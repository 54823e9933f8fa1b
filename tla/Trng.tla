-------------------------------- MODULE Trng --------------------------------
(***************************************************************************)
(* The random number generator of the AST1060 (trng.rs).  A handle is no   *)
(* more than an address: any number of tasks read words from one register, *)
(* each polling RNG_READY and sleeping in between.  A read takes the word: *)
(* the register is not ready again before it has a fresh one.              *)
(***************************************************************************)
EXTENDS Naturals

CONSTANTS
  Readers,   \* the tasks that read
  MaxPolls,  \* MAX_POLLS
  MaxLen,    \* bound: the length of a buffer, in bytes
  MaxWords   \* bound: the number of words that are generated

TrngAssumption == {MaxPolls, MaxLen, MaxWords} \subseteq Nat \ {0}

VARIABLES
  disabled,  \* RNG_DISABLE
  ready,     \* RNG_READY
  data,      \* DATA: the number of the word it holds
  rpc,       \* rpc[t]: "idle", "poll", "sleep", "spin", "ok" or "bad"
  polls,     \* polls[t]: the attempts left
  len, fill, \* len[t]: the length of buf; fill[t]: offset
  words,     \* history: words[t]: the words in buf
  handed     \* history: handed[w]: how often word w was handed out

trngVars == <<disabled, ready, data, rpc, polls, len, fill, words, handed>>

Init ==
  /\ disabled = TRUE /\ ready = FALSE /\ data = 0
  /\ rpc = [t \in Readers |-> "idle"] /\ polls = [t \in Readers |-> MaxPolls]
  /\ len = [t \in Readers |-> 0] /\ fill = [t \in Readers |-> 0]
  /\ words = [t \in Readers |-> {}]
  /\ handed = [w \in 0..MaxWords |-> 0]

\* read_word_blocking spins: no task runs before it returns.
Free(t) == \A u \in Readers \ {t} : rpc[u] # "spin"

Enable ==
  /\ \A u \in Readers : rpc[u] # "spin"
  /\ disabled' \in BOOLEAN
  /\ UNCHANGED <<ready, data, rpc, polls, len, fill, words, handed>>

Generate ==
  /\ ~disabled /\ ~ready /\ data < MaxWords
  /\ ready' = TRUE /\ data' = data + 1
  /\ UNCHANGED <<disabled, rpc, polls, len, fill, words, handed>>

\* fill_bytes with a buffer of n bytes, read_word with one of 4; blocking or not.
Begin(t, n, how) ==
  /\ Free(t) /\ rpc[t] = "idle" /\ (how = "spin" => n = 4)
  /\ rpc' = [rpc EXCEPT ![t] = IF n = 0 THEN "ok" ELSE how]
  /\ polls' = [polls EXCEPT ![t] = MaxPolls]
  /\ len' = [len EXCEPT ![t] = n] /\ fill' = [fill EXCEPT ![t] = 0]
  /\ words' = [words EXCEPT ![t] = {}]
  /\ UNCHANGED <<disabled, ready, data, handed>>

\* The last word is cut.
Chunk(t) == IF len[t] - fill[t] < 4 THEN len[t] - fill[t] ELSE 4

Store(t) ==
  /\ ready' = FALSE
  /\ handed' = [handed EXCEPT ![data] = @ + 1]
  /\ words' = [words EXCEPT ![t] = @ \cup {data}]
  /\ fill' = [fill EXCEPT ![t] = @ + Chunk(t)]
  /\ polls' = [polls EXCEPT ![t] = MaxPolls]
  /\ rpc' = [rpc EXCEPT ![t] = IF fill[t] + Chunk(t) >= len[t] THEN "ok" ELSE @]

\* Mutant: the word is read without regard to RNG_READY.
TakeStale(t) ==
  /\ Free(t) /\ rpc[t] \in {"poll", "spin"} /\ data > 0
  /\ Store(t)
  /\ UNCHANGED <<disabled, data, len>>

\* RNG_READY is seen and the word read, with no await in between.
Take(t) ==
  /\ Free(t) /\ rpc[t] \in {"poll", "spin"} /\ ready
  /\ Store(t)
  /\ UNCHANGED <<disabled, data, len>>

\* Not ready: sleep, or NotReady after the last attempt and its sleep.
Miss(t) ==
  /\ Free(t) /\ rpc[t] \in {"poll", "spin"} /\ ~ready
  /\ polls' = [polls EXCEPT ![t] = @ - 1]
  /\ rpc' = [rpc EXCEPT ![t] = IF rpc[t] = "poll" THEN "sleep"
                                 ELSE IF polls[t] = 1 THEN "bad" ELSE "spin"]
  /\ UNCHANGED <<disabled, ready, data, len, fill, words, handed>>

Wake(t) ==
  /\ Free(t) /\ rpc[t] = "sleep"
  /\ rpc' = [rpc EXCEPT ![t] = IF polls[t] = 0 THEN "bad" ELSE "poll"]
  /\ UNCHANGED <<disabled, ready, data, polls, len, fill, words, handed>>

\* The caller has the result, or the future is dropped.
Leave(t) ==
  /\ Free(t) /\ rpc[t] \in {"ok", "bad", "sleep"}
  /\ rpc' = [rpc EXCEPT ![t] = "idle"]
  /\ UNCHANGED <<disabled, ready, data, polls, len, fill, words, handed>>

Next ==
  \/ Enable \/ Generate
  \/ \E t \in Readers :
       \/ \E n \in 0..MaxLen, how \in {"poll", "spin"} : Begin(t, n, how)
       \/ Take(t) \/ Miss(t) \/ Wake(t) \/ Leave(t)

Spec == Init /\ [][Next]_trngVars

-----------------------------------------------------------------------------
(* Properties.                                                             *)

TypeOK ==
  /\ data \in 0..MaxWords /\ rpc \in [Readers -> {"idle", "poll", "sleep", "spin", "ok", "bad"}]
  /\ polls \in [Readers -> 0..MaxPolls] /\ fill \in [Readers -> 0..MaxLen]

\* No word is handed out twice, to one task or to two, and a buffer that is
\* returned is full.
FreshWords ==
  /\ \A w \in 0..MaxWords : handed[w] <= 1
  /\ \A t \in Readers : rpc[t] = "ok" => fill[t] = len[t]
=============================================================================

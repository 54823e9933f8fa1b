--------------------------------- MODULE Feed -------------------------------
(***************************************************************************)
(* Entropy for Caliptra (cptra.rs): wait_rdy_for_rt_with_trng, its         *)
(* asynchronous form and feed_trng answer the request bit in TRNG_STS with *)
(* a block of words and a done bit, while Caliptra reads and asks again at *)
(* its own pace.                                                           *)
(***************************************************************************)
EXTENDS Naturals, FiniteSets

CONSTANTS
  Words,       \* MAX_TRNG_WORDS
  MaxDraws,    \* bound: calls of entropy_fn
  MaxLoops,    \* max_loops, or the polls before the deadline
  RequestDrops \* the done bit withdraws the request; otherwise Caliptra does when it has read

FeedAssumption == {Words, MaxDraws, MaxLoops} \subseteq Nat \ {0} /\ RequestDrops \in BOOLEAN

VARIABLES
  at,        \* the host: "out", "look", "feed", "done"
  wait, loops,   \* the call is a wait, not feed_trng; the looks it has left
  draw, next,   \* the draw being written and its next word
  data, req, done,   \* TRNG_DATA (word -> draw) and the bits of TRNG_STS
  ready, fatal,      \* RDY_FOR_RT and a hardware error
  ret,
  uc, read,  \* Caliptra: "work", "ask", "read"; the words it has read, each with its draw
  blocks     \* history: the blocks it has taken

hostVars == <<at, wait, loops, draw, next, ret>>
ucVars == <<ready, fatal, uc, read, blocks>>
feedVars == <<hostVars, ucVars, data, req, done>>

TypeOK ==
  /\ at \in {"out", "look", "feed", "done"} /\ wait \in BOOLEAN /\ loops \in 0..MaxLoops /\ draw \in 0..MaxDraws
  /\ next \in 1..(Words + 1) /\ data \in [1..Words -> 0..MaxDraws] /\ {req, done, ready, fatal} \subseteq BOOLEAN
  /\ ret \in {"none", "ok", "fatal", "timeout", "idle", "fed"} /\ uc \in {"work", "ask", "read"}
  /\ Cardinality(read) <= Words

Init ==
  /\ at = "out" /\ wait = FALSE /\ loops = 0 /\ draw = 0 /\ next = 1 /\ ret = "none"
  /\ data = [w \in 1..Words |-> 0] /\ req = FALSE /\ done = FALSE /\ ready = FALSE /\ fatal = FALSE
  /\ uc = "work" /\ read = {} /\ blocks = {}

-----------------------------------------------------------------------------
(* The host.                                                               *)

Call ==
  /\ at = "out" /\ at' = "look" /\ wait' \in BOOLEAN /\ loops' = IF wait' THEN MaxLoops ELSE 1
  /\ ret' = "none"
  /\ UNCHANGED <<draw, next, ucVars, data, req, done>>

Return(r) == at' = "out" /\ ret' = r /\ loops' = 0

\* The end of a look: feed_trng returns, a wait looks again until its time is up.
Again(r) ==
  IF ~wait THEN Return(r)
  ELSE IF loops = 1 THEN Return("timeout")
  ELSE at' = "look" /\ loops' = loops - 1 /\ UNCHANGED ret

\* A wait ends with an error or when Caliptra is ready; feed_trng looks at neither.
Look ==
  /\ at = "look"
  /\ IF wait /\ fatal THEN Return("fatal") /\ UNCHANGED <<draw, next>>
     ELSE IF wait /\ ready THEN Return("ok") /\ UNCHANGED <<draw, next>>
     ELSE IF req
     THEN draw < MaxDraws /\ at' = "feed" /\ draw' = draw + 1 /\ next' = 1 /\ UNCHANGED <<loops, ret>>
     ELSE Again("idle") /\ UNCHANGED <<draw, next>>
  /\ UNCHANGED <<wait, ucVars, data, req, done>>

\* Mutant: the done bit is written before the last word.
WriteDoneFirst ==
  /\ at = "feed" /\ next <= Words
  /\ data' = [data EXCEPT ![next] = draw] /\ next' = next + 1
  /\ at' = IF next = Words THEN "done" ELSE at
  /\ done' = (done \/ next = 1) /\ req' = (req /\ (next # 1 \/ ~RequestDrops))
  /\ UNCHANGED <<wait, loops, draw, ret, ucVars>>

Write ==
  /\ at = "feed" /\ next <= Words
  /\ data' = [data EXCEPT ![next] = draw] /\ next' = next + 1
  /\ at' = IF next = Words THEN "done" ELSE at
  /\ UNCHANGED <<wait, loops, draw, ret, ucVars, req, done>>

Done ==
  /\ at = "done" /\ done' = TRUE /\ req' = (req /\ ~RequestDrops)
  /\ Again("fed")
  /\ UNCHANGED <<wait, draw, next, ucVars, data>>

-----------------------------------------------------------------------------
(* Caliptra.                                                               *)

Ask ==
  /\ uc = "work" /\ uc' = "ask" /\ req' = TRUE /\ done' = (done /\ ~RequestDrops)
  /\ UNCHANGED <<hostVars, data, ready, fatal, read, blocks>>

ReadWord ==
  /\ (uc = "ask" /\ done) \/ uc = "read"
  /\ uc' = "read"
  /\ \E w \in 1..Words : w = Cardinality(read) + 1 /\ read' = read \cup {<<w, data[w]>>}
  /\ UNCHANGED <<hostVars, data, req, done, ready, fatal, blocks>>

\* All read: the bits are cleared.
Taken ==
  /\ uc = "read" /\ Cardinality(read) = Words
  /\ uc' = "work" /\ read' = {} /\ blocks' = blocks \cup {read}
  /\ req' = FALSE /\ done' = FALSE
  /\ UNCHANGED <<hostVars, data, ready, fatal>>

Change ==
  /\ uc = "work" /\ \/ ready' = TRUE /\ UNCHANGED fatal
                    \/ fatal' = TRUE /\ UNCHANGED ready
  /\ UNCHANGED <<hostVars, data, req, done, uc, read, blocks>>

Next == Call \/ Look \/ Write \/ Done \/ Ask \/ ReadWord \/ Taken \/ Change

Spec == Init /\ [][Next]_feedVars

-----------------------------------------------------------------------------
\* Whatever Caliptra takes was drawn for it: no word is left of an earlier
\* request, none of a block that is only half written, and no two requests get
\* a word of one draw.
FreshEntropy ==
  /\ read \cap (UNION blocks) = {}
  /\ \A b \in blocks : \E d \in 1..draw : b = {<<w, d>> : w \in 1..Words}
=============================================================================

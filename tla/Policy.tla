-------------------------------- MODULE Policy ------------------------------
(***************************************************************************)
(* The access policy of the AST2700's reset and clock registers (scu.rs):  *)
(* lists of register bits become a code of three bits each, spread over    *)
(* three registers of two banks, and the registers are locked.             *)
(***************************************************************************)
EXTENDS Naturals, FiniteSets

CONSTANTS
  Ids,      \* the bits that lists name
  MaxIds,   \* the last bit of each of the four controllers
  Bank,     \* 32
  MaxLists  \* bound: how many lists name one bit

PolicyAssumption ==
  /\ Ids \cup MaxIds \subseteq Nat /\ Bank \in Nat \ {0} /\ MaxLists \in Nat
  /\ \A m \in MaxIds : m < 2 * Bank

VARIABLES
  maxId, lists,   \* the controller, and its list: group -> bits
  regs,    \* the policy registers: <<bank, register>> -> the bits set
  locked,
  second   \* the policy was applied again

policyVars == <<maxId, lists, regs, locked, second>>

\* PolicyGroup::mask: the registers that a group sets.
Mask ==
  [SecurePsp |-> {0}, Ssp |-> {1}, Psp |-> {0, 1}, Tsp |-> {2}, PspSsp |-> {0, 2},
   SspTsp |-> {1, 2}, BootMcu |-> {0, 1, 2}]
Groups == DOMAIN Mask

\* Mutant: the last bit of the controller counts as past its end.
ListedShort(l, g) == {id \in l[g] : id < maxId}

\* add_group: bits that the controller does not have are skipped.
Listed(l, g) == {id \in l[g] : id <= maxId}

Banks == 0..1
Places == Banks \X (0..2)
FromList(l) ==
  [p \in Places |-> {id % Bank : id \in {i \in UNION {Listed(l, g) : g \in {h \in Groups : p[2] \in Mask[h]}} :
                                          i \div Bank = p[1]}}]

\* Mutant: the controller of many clocks gets the registers of one bank.
TwoBanksNever == FALSE

TwoBanks == maxId >= Bank

TypeOK ==
  /\ maxId \in MaxIds /\ lists \in [Groups -> SUBSET Ids] /\ {locked, second} \subseteq BOOLEAN
  /\ regs \in [Places -> SUBSET (0..(Bank - 1))]

\* Two of the bits, each in some of the lists; the registers hold anything.
Init ==
  /\ maxId \in MaxIds
  /\ \E a, b \in Ids, ga, gb \in {g \in SUBSET Groups : Cardinality(g) <= MaxLists} :
       /\ a < b
       /\ lists = [g \in Groups |-> {id \in {a, b} : (id = a /\ g \in ga) \/ (id = b /\ g \in gb)}]
  /\ regs \in {[p \in Places |-> {}], [p \in Places |-> {0}]}
  /\ locked = FALSE /\ second = FALSE

Stored(l) == [p \in Places |-> IF p[1] = 0 \/ TwoBanks THEN FromList(l)[p] ELSE regs[p]]

\* apply_register_policy, for one controller.
Apply ==
  /\ ~locked /\ regs' = Stored(lists) /\ locked' = TRUE
  /\ UNCHANGED <<maxId, lists, second>>

\* Once more with empty lists, as apply_ibex_default_register_policy would: locked
\* registers do not change.
ApplyDefault ==
  /\ locked /\ ~second /\ second' = TRUE
  /\ UNCHANGED <<maxId, lists, regs, locked>>

Next == Apply \/ ApplyDefault

Spec == Init /\ [][Next]_policyVars

-----------------------------------------------------------------------------
Code(id) == {r \in 0..2 : id % Bank \in regs[<<id \div Bank, r>>]}

\* Once locked, every bit of the controller has the code of the list that names
\* it, none if no list does, and the codes together if several do; a bit past the
\* controller's end changes the code of no other, and what the registers held
\* before counts for nothing.
AsListed ==
  locked => \A id \in 0..maxId : Code(id) = UNION {Mask[g] : g \in {h \in Groups : id \in lists[h]}}
=============================================================================

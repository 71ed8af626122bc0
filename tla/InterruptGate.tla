----------------------------- MODULE InterruptGate -----------------------------
(***************************************************************************)
(* What the interrupt engine promises the rest of the driver: the enable   *)
(* mask is a gate.  Taking work from the card closes it, all of that work  *)
(* is settled behind the closed gate, and only then may it be opened       *)
(* again, to the mask user space asked for, less unknown sources.          *)
(***************************************************************************)
CONSTANTS
  Lines,    \* the interrupt sources
  Dubious   \* the sources the driver does not know

VARIABLES
  mask,   \* the sources that may interrupt now
  owed,   \* work taken from the card and not yet settled
  asked   \* the mask user space asked for

gate == <<mask, owed, asked>>

GateInit == mask \in SUBSET Lines /\ owed = {} /\ asked = {}

Ask(m) == owed = {} /\ mask' = m /\ asked' = m /\ owed' = {}

Take(W) ==
  /\ owed = {} /\ W \subseteq mask
  /\ owed' = W /\ mask' = {} /\ UNCHANGED asked

Settle == owed' \subseteq owed /\ UNCHANGED <<mask, asked>>

Reopen ==
  /\ owed = {} /\ mask = {}
  /\ mask' \in {asked, asked \ Dubious} /\ UNCHANGED <<owed, asked>>

\* The driver turns the card off, or a stray interrupt does.
Close == mask' = {} /\ owed' \subseteq owed /\ asked' \in {asked, {}}

GateNext ==
  \/ \E m \in SUBSET Lines : Ask(m)
  \/ \E W \in SUBSET Lines : Take(W)
  \/ Settle \/ Reopen \/ Close

GateSpec == GateInit /\ [][GateNext]_gate
===============================================================================

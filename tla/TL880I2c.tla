-------------------------------- MODULE TL880I2c --------------------------------
(***************************************************************************)
(* The chips on a MyHD card's I2C buses: the table of clients that the I2C *)
(* core's notifications keep, the index of the audio chip in it, commands  *)
(* sent to every client, and the writes to the audio chip                  *)
(* (driver/tl880i2c.c, driver/tl880msp.c).                                 *)
(*                                                                         *)
(* Buses are numbered from 0, as on a MyHD.  The I2C core is external: it  *)
(* notifies of each attachment and detachment once, one at a time.         *)
(***************************************************************************)
EXTENDS Integers, FiniteSets

CONSTANTS
  NBuses,  \* maxbus + 1
  Slots,   \* I2C_CLIENTS_MAX
  Chips    \* records with a name, a bus, a kind and whether at the decoder's address

Empty == [name |-> "none"]  \* what a slot without a client holds
Kinds == {"msp", "tvaudio", "tuner"}
ASSUME SlotsAssumption == Slots \in Nat \ {0} /\ NBuses \in Nat \ {0}
ASSUME ChipsAssumption ==
  /\ \A c \in Chips : c.bus \in 0..(NBuses - 1) /\ c.kind \in Kinds /\ c.at43 \in BOOLEAN
  /\ Empty \notin Chips

VARIABLES
  buses,     \* i2cbuses: "none", "up" or "closing" (tl880_deinit_i2c)
  slot,      \* i2c_clients of every bus
  attached,  \* chips the I2C core has attached
  mspClient, \* msp_i2cclient
  at,        \* tl880_call_i2c_clients: the slot it looks at next, or Idle
  called,    \* history: how often it has called each chip
  present,   \* history: chips attached since it began
  odd        \* history: the audio index was left to chance, see Attach and Detach

i2cVars == <<buses, slot, attached, mspClient, at, called, present, odd>>

Idle   == -1
Places == (0..(NBuses - 1)) \X (0..(Slots - 1))
Audio(c) == c.kind \in {"msp", "tvaudio"}

I2cTypeOK ==
  /\ buses \in {"none", "up", "closing"}
  /\ slot \in [Places -> Chips \cup {Empty}]
  /\ attached \subseteq Chips
  /\ mspClient \in -1..Slots
  /\ at \in -1..(NBuses * Slots)
  /\ called \in [Chips -> 0..(NBuses * Slots)]
  /\ present \subseteq Chips
  /\ odd \in {"no", "yes"}

I2cInit ==
  /\ buses = "none" /\ slot = [p \in Places |-> Empty] /\ attached = {} /\ mspClient = -1
  /\ at = Idle /\ called = [c \in Chips |-> 0] /\ present = {} /\ odd = "no"

-------------------------------------------------------------------------------
(* tl880_init_i2c, tl880_deinit_i2c and the core's notifications. *)

\* A probe: the struct is new (tl880_create_dev), and so is the table.
InitI2c ==
  /\ buses = "none"
  /\ buses' = "up"
  /\ slot' = [p \in Places |-> Empty] /\ mspClient' = -1 /\ odd' = "no"
  /\ UNCHANGED <<attached, at, called, present>>

\* i2c_del_adapter detaches what is attached, then the buses are freed.
DeinitBegins ==
  /\ buses = "up" /\ at = Idle
  /\ buses' = "closing"
  /\ UNCHANGED <<slot, attached, mspClient, at, called, present, odd>>

DeinitEnds ==
  /\ buses = "closing" /\ attached = {}
  /\ buses' = "none"
  /\ UNCHANGED <<slot, attached, mspClient, at, called, present, odd>>

\* Mutant: the second slot is taken whether it is free or not.
FirstFreeTakesSecond(b) == IF slot[<<b, 0>>] = Empty THEN 0 ELSE 1 % Slots

\* The first free slot of a bus, or Slots.
FirstFree(b) ==
  LET free == {k \in 0..(Slots - 1) : slot[<<b, k>>] = Empty}
  IN  IF free = {} THEN Slots ELSE CHOOSE k \in free : \A l \in free : k <= l

IndexAfterAttach(c, k) == IF Audio(c) THEN k ELSE mspClient

\* tl880_i2c_attach_inform.  A tuner at the decoder's address is turned away, which
\* detaches it at once.  A full table is only logged.
Attach(c) ==
  /\ buses = "up" /\ c \notin attached
  /\ LET k == FirstFree(c.bus)
     IN  /\ mspClient' = IndexAfterAttach(c, k)
         /\ IF c.kind = "tuner" /\ c.at43
              THEN UNCHANGED <<slot, attached>>
              ELSE /\ attached' = attached \cup {c}
                   /\ slot' = IF k < Slots THEN [slot EXCEPT ![<<c.bus, k>>] = c] ELSE slot
         /\ odd' = IF k = Slots \/ (Audio(c) /\ c.bus # 0) THEN "yes" ELSE odd
  /\ UNCHANGED <<buses, at, called, present>>

\* Mutant: the index stays when the audio chip goes.
IndexAfterDetachKeeps(c) == mspClient

IndexAfterDetach(c) == IF c.kind = "msp" THEN -1 ELSE mspClient

\* tl880_i2c_detach_inform: it clears the chip's slots, and the index only for an
\* MSP, although a TVAUDIO chip sets it too.
Detach(c) ==
  /\ c \in attached
  /\ attached' = attached \ {c}
  /\ slot' = [p \in Places |-> IF slot[p] = c THEN Empty ELSE slot[p]]
  /\ mspClient' = IndexAfterDetach(c)
  /\ present' = present \ {c}
  /\ odd' = IF c.kind = "tvaudio" THEN "yes" ELSE odd
  /\ UNCHANGED <<buses, at, called>>

-------------------------------------------------------------------------------
(* tl880_call_i2c_clients, one slot at a time: a client's command may sleep. *)

PlaceAt(n) == <<n \div Slots, n % Slots>>

CallBegins ==
  /\ buses = "up" /\ at = Idle
  /\ at' = 0 /\ called' = [c \in Chips |-> 0] /\ present' = attached
  /\ UNCHANGED <<buses, slot, attached, mspClient, odd>>

\* Mutant: the last slot of the last bus is not looked at.
CallEndShort == NBuses * Slots - 1

CallEnd == NBuses * Slots

CallSlot ==
  /\ at # Idle /\ at < CallEnd
  /\ LET c == slot[PlaceAt(at)]
     IN  called' = IF c = Empty THEN called ELSE [called EXCEPT ![c] = @ + 1]
  /\ at' = at + 1
  /\ UNCHANGED <<buses, slot, attached, mspClient, present, odd>>

CallEnds ==
  /\ at = CallEnd
  /\ at' = Idle
  /\ UNCHANGED <<buses, slot, attached, mspClient, called, present, odd>>

\* The client tl880_msp_write sends to: always looked for on bus msp_i2cbus, 0.
MspTarget == IF mspClient \in 0..(Slots - 1) THEN slot[<<0, mspClient>>] ELSE Empty

I2cNext ==
  \/ InitI2c \/ DeinitBegins \/ DeinitEnds
  \/ \E c \in Chips : Attach(c) \/ Detach(c)
  \/ CallBegins \/ CallSlot \/ CallEnds

I2cSpec == I2cInit /\ [][I2cNext]_i2cVars

-------------------------------------------------------------------------------
(* Properties. *)

\* The table holds attached chips only, each once and on its own bus, so no
\* pointer in it outlives its client, in whatever order chips come, are turned
\* away and go; and no chip is missing from it unless the table was full
\* (tl880_i2c_attach_inform 306-311, detach_inform 412-416).
TableIsSound ==
  /\ \A p \in Places :
       slot[p] # Empty =>
         /\ slot[p] \in attached /\ slot[p].bus = p[1]
         /\ \A q \in Places : slot[q] = slot[p] => q = p
  /\ odd = "no" => \A c \in attached : \E p \in Places : slot[p] = c

\* A write meant for the audio chip reaches an audio chip, unless a TVAUDIO chip has
\* gone, an audio chip sits on another bus, or the table was full (tl880_msp_write
\* 56, attach_inform 364, detach_inform 419-421).
WritesReachAudio ==
  odd = "no" /\ mspClient # -1 => MspTarget # Empty /\ Audio(MspTarget)

\* A command that ends has met each chip that was there all the time and has a slot once.
MetOnce ==
  at # Idle /\ at' = Idle =>
    \A c \in present : (\E p \in Places : slot[p] = c) => called[c] = 1

\* A command reaches every chip that was there all the time and has a slot exactly
\* once, whoever comes and goes meanwhile (tl880_call_i2c_clients 248-275).
EveryoneOnce == [][MetOnce]_i2cVars
===============================================================================

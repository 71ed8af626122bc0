------------------------------- MODULE TL880Gpio -------------------------------
(***************************************************************************)
(* The general-purpose pins of the card: I2C buses are bit-banged, GPIO    *)
(* lines set and the video port switched through the same two registers,   *)
(* each change a read, a change of some bits and a write without a lock    *)
(* (driver/tl880reg.c, tl880i2c.c, tl880gpio.c, tl880vip.c).               *)
(*                                                                         *)
(* A register is the set of its bits that are one.  The bus drivers and    *)
(* the ioctls are the actors; an ioctl runs under the big kernel lock and  *)
(* does not sleep, so User is one actor.                                   *)
(***************************************************************************)
EXTENDS Integers, Sequences

CONSTANTS
  Cards,  \* card types that detection can find and this module covers
  Lines,  \* GPIO lines that user space sets
  SMP     \* the actors run on several processors

ASSUME CardsAssumption   == Cards \subseteq {"MDP100", "MDP110", "MDP120", "WINTV", "HIPIX"}
ASSUME LinesAssumption   == Lines \subseteq 0..9
ASSUME GpioSMPAssumption == SMP \in BOOLEAN

VARIABLES
  card,  \* card_type
  reg,   \* registers 10194 ("dir", one drives the pin) and 10198 ("out")
  todo,  \* register writes an actor has still to do
  got,   \* the value it has read for the first of them, or None
  wire,  \* history: the level each bus asked of its wires last
  line   \* history: the state each GPIO line was set to last

gpioVars == <<card, reg, todo, got, wire, line>>

Pins == 0..27
Regs == {"dir", "out"}
None == {-1}  \* not a value of a register

Buses(c) ==
  CASE c = "MDP100" -> {0, 1} [] c = "MDP110" -> 0..2 [] c = "MDP120" -> {0}
    [] c = "WINTV" -> {3, 4} [] c = "HIPIX" -> {5}

Wires == {"scl", "sda"}
\* Mutant: the data pin of bus 0 is one too high.
PinOneTooHigh(b, w) ==
  IF w = "scl" THEN <<26, 18, 23, 3, 27, 26>>[b + 1] ELSE <<28, 17, 22, 1, 26, 27>>[b + 1]

Pin(b, w) ==
  IF w = "scl" THEN <<26, 18, 23, 3, 27, 26>>[b + 1] ELSE <<27, 17, 22, 1, 26, 27>>[b + 1]

User   == 6
Actors == 0..5 \cup {User}
Levels == {0, 1}

\* A write of bits: those of on become one, those of off zero.
Bits(r, on, off) == [reg |-> r, on |-> on, off |-> off]
Bit(r, pin, v)   == Bits(r, IF v = 1 THEN {pin} ELSE {}, IF v = 1 THEN {} ELSE {pin})

GpioTypeOK ==
  /\ card \in Cards
  /\ reg \in [Regs -> SUBSET Pins]
  /\ todo \in [Actors -> Seq([reg : Regs, on : SUBSET Pins, off : SUBSET Pins])]
  /\ DOMAIN got = Actors /\ \A a \in Actors : got[a] = None \/ got[a] \subseteq Pins
  /\ wire \in [(0..5) \X Wires -> Levels]
  /\ line \in [0..9 -> 0..3]

-------------------------------------------------------------------------------
(* What the operations write. *)

\* tl880_i2c_set_scl and tl880_i2c_set_sda: buses 0 and 2 pull a wire down or let
\* it go, the others drive it; the data wire of bus 1 is never made an output.
SetWire(b, w, v) ==
  CASE b \in {0, 2} -> <<Bit("out", Pin(b, w), 0), Bit("dir", Pin(b, w), 1 - v)>>
    [] b = 1 /\ w = "sda" -> <<Bit("out", Pin(b, w), v)>>
    [] OTHER -> <<Bit("dir", Pin(b, w), 1), Bit("out", Pin(b, w), v)>>

\* tl880_i2c_get_scl and tl880_i2c_get_sda let the wire go before they read it.
GetWire(b, w) ==
  IF b = 1 \/ (b = 3 /\ w = "sda") THEN <<>> ELSE <<Bit("dir", Pin(b, w), 0)>>

\* Lines 8 and 9 can be driven either way, or not at all.
Tristate(pin, s) ==
  IF s \in Levels THEN <<Bit("dir", pin, 1), Bit("out", pin, s)>> ELSE <<Bit("dir", pin, 0)>>

\* tl880_set_gpio.  On an MDP-120 the lines are the video decoder's (TL880Vpx),
\* on the WinTV-HD and the HiPix there are none.
SetGpio(c, l, s) ==
  LET v == s % 2 IN
  IF c \notin {"MDP100", "MDP110"} THEN <<>>
  ELSE CASE l = 0 -> <<Bit("out", 8, v)>>
         [] l = 2 -> <<Bit("out", 10, v)>>
         [] l = 3 -> IF s = 0 THEN <<Bit("out", 12, 1), Bit("out", 11, 0)>> ELSE <<Bit("out", 11, v)>>
         [] l = 4 -> IF s = 1 THEN <<Bit("out", 12, 1), Bit("out", 13, 1)>>
                     ELSE <<Bit("out", 11, 1 - v), Bit("out", 12, v), Bit("out", 13, v)>>
         [] l = 5 -> <<Bit("out", 13, v)>>
         [] l = 6 -> <<Bit("dir", 14, 1), Bit("out", 14, v)>>
         [] l = 8 -> Tristate(9, s)
         [] l = 9 -> Tristate(15, s)
         [] OTHER -> <<>>

\* Lines with a pin of their own; 3 to 5 share theirs, and 1 and 7 have none.
OwnLines == {0, 2, 6, 8, 9}

VipPins == 0..7 \cup 16..23

\* Mutant: the MDP-110's pins are not spared.
VipInKeepsNone(c) == Bits("dir", {}, VipPins)

\* Mode 0 and 1 make the video port an input; the MDP-110 keeps bus 1's pins.
VipIn(c) == Bits("dir", IF c = "MDP110" THEN 17..19 ELSE {}, VipPins)

\* tl880_set_vip.
SetVip(c, mode) ==
  CASE mode = 0 -> <<VipIn(c)>> \o SetGpio(c, 3, 1) \o SetGpio(c, 4, 1)
    [] mode = 1 -> <<VipIn(c)>> \o SetGpio(c, 3, 0)
    [] mode = 2 /\ c # "MDP110" -> SetGpio(c, 4, 0) \o <<Bits("dir", VipPins, {})>>
    [] OTHER -> <<>>

-------------------------------------------------------------------------------
(* The pins after tl880_init_dev, the buses at rest; pins that nothing has    *)
(* written are zero.                                                          *)

DirAfterInit(c) ==
  CASE c \in {"MDP100", "MDP120"} -> 8..15
    [] c = "MDP110" -> 8..15 \cup 17..19
    [] c = "WINTV"  -> 8..14
    [] c = "HIPIX"  -> ((8..14) \ {13}) \cup VipPins

OutAfterInit(c) ==
  CASE c = "MDP100" -> {8, 12, 14}
    [] c = "MDP110" -> {8, 12, 14, 17, 18, 19}
    [] c = "MDP120" -> {12, 17, 18, 19}
    [] c = "WINTV"  -> {4, 8, 11, 17, 18, 19}
    [] c = "HIPIX"  -> {10, 11, 17, 18, 19}

GpioInit ==
  /\ card \in Cards
  /\ reg = [r \in Regs |-> IF r = "dir" THEN DirAfterInit(card) ELSE OutAfterInit(card)]
  /\ todo = [a \in Actors |-> <<>>] /\ got = [a \in Actors |-> None]
  /\ wire = [x \in (0..5) \X Wires |-> 1]
  /\ line = [l \in 0..9 |-> 3]

Apply(value, w) == (value \ w.off) \cup w.on

\* On one processor an operation, which does not sleep, is not interrupted.
MayStart(a) == IF SMP THEN todo[a] = <<>> ELSE \A b \in Actors : todo[b] = <<>>

Begin(a, writes) == MayStart(a) /\ todo' = [todo EXCEPT ![a] = writes]

BusSets(b, w, v) ==
  /\ b \in Buses(card)
  /\ Begin(b, SetWire(b, w, v))
  /\ wire' = [wire EXCEPT ![<<b, w>>] = v]
  /\ UNCHANGED <<card, reg, got, line>>

BusGets(b, w) ==
  /\ b \in Buses(card)
  /\ Begin(b, GetWire(b, w))
  /\ wire' = IF GetWire(b, w) = <<>> THEN wire ELSE [wire EXCEPT ![<<b, w>>] = 1]
  /\ UNCHANGED <<card, reg, got, line>>

UserSetsLine(l, s) ==
  /\ Begin(User, SetGpio(card, l, s))
  /\ line' = IF l \in OwnLines /\ SetGpio(card, l, s) # <<>> THEN [line EXCEPT ![l] = s] ELSE line
  /\ UNCHANGED <<card, reg, got, wire>>

UserSetsVip(mode) ==
  /\ Begin(User, SetVip(card, mode))
  /\ UNCHANGED <<card, reg, got, wire, line>>

\* tl880_write_regbits: the read ...
RegRead(a) ==
  /\ todo[a] # <<>> /\ got[a] = None
  /\ got' = [got EXCEPT ![a] = reg[Head(todo[a]).reg]]
  /\ UNCHANGED <<card, reg, todo, wire, line>>

\* ... and the write.
RegWrite(a) ==
  /\ todo[a] # <<>> /\ got[a] # None
  /\ reg' = [reg EXCEPT ![Head(todo[a]).reg] = Apply(got[a], Head(todo[a]))]
  /\ got' = [got EXCEPT ![a] = None]
  /\ todo' = [todo EXCEPT ![a] = Tail(@)]
  /\ UNCHANGED <<card, wire, line>>

GpioNext ==
  \/ \E b \in 0..5, w \in Wires : BusGets(b, w) \/ \E v \in Levels : BusSets(b, w, v)
  \/ (\E l \in Lines, s \in 0..2 : UserSetsLine(l, s)) \/ (\E m \in 0..2 : UserSetsVip(m))
  \/ \E a \in Actors : RegRead(a) \/ RegWrite(a)

GpioSpec == GpioInit /\ [][GpioNext]_gpioVars

-------------------------------------------------------------------------------
(* Properties. *)

\* Buses whose pins the video port does not use: all but bus 2, bus 3, and bus 1
\* of the MDP-100.
Apart(c, b) == b \in {0, 4, 5} \/ (b = 1 /\ c = "MDP110")

Low(b, w) == Pin(b, w) \in reg["dir"] /\ Pin(b, w) \notin reg["out"]

\* On one processor a wire of these buses is where its bus left it, whatever the
\* other buses, the GPIO lines and the video port do in between
\* (tl880_i2c_set_scl 49-77, tl880_set_vip 22-66, tl880_set_gpio 191-273).
WiresKept ==
  ~SMP /\ (\A a \in Actors : todo[a] = <<>>) =>
    \A b \in Buses(card), w \in Wires :
      Apart(card, b) => (Low(b, w) <=> wire[<<b, w>>] = 0)

\* Likewise a GPIO line keeps the state it was set to, except the lines 3 to 5,
\* which share pins and which the video port sets too.
LinePin(l) == CASE l = 0 -> 8 [] l = 2 -> 10 [] l = 6 -> 14 [] l = 8 -> 9 [] l = 9 -> 15
LinesKept ==
  ~SMP /\ (\A a \in Actors : todo[a] = <<>>) =>
    \A l \in Lines \cap OwnLines :
      LET driven == LinePin(l) \in reg["dir"]
          high   == LinePin(l) \in reg["out"]
      IN  CASE line[l] = 3 -> TRUE
            [] line[l] = 2 /\ l \in {8, 9} -> ~driven
            [] OTHER -> driven /\ (high <=> line[l] = 1)

\* Neither disturbs the other.
PinsKept == WiresKept /\ LinesKept
===============================================================================

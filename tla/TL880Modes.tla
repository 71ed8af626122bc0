------------------------------- MODULE TL880Modes -------------------------------
(***************************************************************************)
(* The numbers of the display: sync timings, the aux scaler and the dot    *)
(* clock (driver/tl880dpc.c, driver/tl880modes.c, tl880fb/tl880fb.c,       *)
(* tools/dpc).  A timing is a row of the 29 fields the documentation calls *)
(* A to AA, in the order of the registers; a mode of the aux overlay is    *)
(* the width and the height it is scaled to.                               *)
(***************************************************************************)
EXTENDS Integers, Sequences

CONSTANT Sources  \* widths and heights of sources for which the scaler is checked

ASSUME SourcesAssumption == Sources \subseteq Nat

-------------------------------------------------------------------------------
(* Sync timings. *)

\* The bits of each field, register by register, as set_bits is called for them.
FieldWidths ==
  <<1, 1, 1, 1, 10, 11, 1, 1, 1, 1,  \* 10014: A to J
    9, 1, 1, 7, 9,                   \* 10018: K to O
    3, 8, 11, 4, 1,                  \* 1001c: P to T
    3, 8, 11, 4,                     \* 10020: U to X
    12, 1,                           \* 10028: BB, CC
    22, 1, 4>>                       \* 10024: Y, Z, AA
Progressive == 4
XRes        == 6
YRes        == 18
YRes2       == 23

\* tl880_set_mode: what is left of a row in the registers.
Packed(row) == [i \in 1..Len(FieldWidths) |-> row[i] % 2^FieldWidths[i]]

Off == [i \in 1..Len(FieldWidths) |-> 0]

TableMode ==
  <<0,1,1,1,540,1024,1,1,0,0, 31,0,0,127,160, 6,29,768,3,0, 0,0,0,0, 40,1, 5,1,4>>
FbSync1024x768p(h, v) ==
  <<0,1,1,1,540,1024,1,1,0,0, 25,h,v,127,160, 6,29,768,3,0, 0,0,0,0, 40,1, 5,1,4>>
Sync1024x768p(h, v) ==
  <<0,1,1,1,540,1024,1,1,0,0, 25,h,v,127,160, 6,29,768,3,0, 0,0,0,0, 40,1, 5,1,4>>
Sync720x480i(h, v) ==
  <<0,0,1,0,244,720,1,1,0,0, 15,h,v,63,56, 3,14,243,2,0, 4,13,243,3, 40,1, 5,1,4>>
Sync720x480p(h, v) ==
  <<0,0,1,1,244,720,1,1,0,0, 14,h,v,63,57, 6,30,483,6,0, 0,0,0,0, 40,1, 5,1,4>>
Sync1920x1080i(h, v) ==
  <<0,1,1,0,872,1920,1,1,0,0, 44,h,v,88,140, 5,15,540,2,0, 5,16,540,2, 40,1, 5,1,4>>

-------------------------------------------------------------------------------
(* The aux scaler. *)

FbAux1024x768p       == <<1024, 768>>
Aux1024x768p         == <<1024, 768>>
Aux720x480p          == <<720, 483>>
Aux720x480i          == <<720, 243>>
Aux1280x720p(full)   == <<1280, IF full THEN 720 ELSE 695>>
Aux1920x1080i(full)  == <<1920, IF full THEN 540 ELSE 520>>
Aux1440x1080i        == <<1440, 540>>

\* A scaler's register: two fields of 12 bits and one of 8.
Word12(t, m, s) == [top |-> t % 4096, mid |-> m % 4096, step |-> s % 256]

\* Mutant: the step is rounded to the nearest.
ScalerRounded(w, a) ==
  LET s == ((256 * a + w \div 2) \div w) % 256
  IN  Word12(s * w + 3840 * a, (s + 1) * w - 256 * a, s)

\* set_aux_horizontal_scaler and set_aux_vertical_scaler, for a source of a pixels or
\* lines that is scaled to w.
Scaler(w, a) ==
  LET s == ((256 * a) \div w) % 256
  IN  Word12(s * w + 3840 * a, (s + 1) * w - 256 * a, s)

Signed12(n) == IF n < 2048 THEN n ELSE n - 4096

\* What the register has to say: the step is the whole part of 256 * a / w, and the two
\* fields are the errors of that step and of the next one, the one for staying behind
\* and the one for running ahead.
Exact(w, a, f) ==
  LET q == (256 * a) \div w
  IN  /\ f.step = q % 256
      /\ Signed12(f.top) = q * w - 256 * a
      /\ Signed12(f.mid) = (q + 1) * w - 256 * a

\* When it does.  The step has eight bits; what is cut off it falls out of the errors
\* only if it makes a multiple of 4096.
Representable(w, a) == ((((256 * a) \div w) \div 256) * w) % 16 = 0

-------------------------------------------------------------------------------
(* The dot clock's register. *)

CalcPll(a, b, c) == (((a % 1024) * 256 + (b % 32)) * 16 + (c % 4)) * 16
UncalcPll(n)     == <<(n \div 65536) % 1024, (n \div 256) % 32, (n \div 16) % 4>>

\* tl880_set_dpc_clock: the register, and line 6.
DpcClock(xres, interlace) ==
  CASE xres = 1024           -> <<18160560, 1>>  \* 01151bb0
    [] xres = 1440           -> <<15079856, 1>>  \* 00e619b0
    [] xres \in {1280, 1920} -> <<623232, 0>>    \* 98280
    [] OTHER                 -> <<IF interlace THEN 393328 ELSE 393296, 1>>

-------------------------------------------------------------------------------
(* The tables as a whole. *)

Syncs == {<<Sync1024x768p(h, v), Aux1024x768p>> : h, v \in {0, 1}}
  \cup {<<FbSync1024x768p(h, v), FbAux1024x768p>> : h, v \in {0, 1}}
  \cup {<<Sync720x480i(h, v), Aux720x480i>> : h, v \in {0, 1}}
  \cup {<<Sync720x480p(h, v), Aux720x480p>> : h, v \in {0, 1}}
  \cup {<<Sync1920x1080i(h, v), Aux1920x1080i(TRUE)>> : h, v \in {0, 1}}
  \cup {<<TableMode, FbAux1024x768p>>}

AuxModes == {Aux1024x768p, Aux720x480p, Aux720x480i, Aux1440x1080i}
  \cup {Aux1280x720p(full) : full \in BOOLEAN} \cup {Aux1920x1080i(full) : full \in BOOLEAN}

\* No field of a timing is cut off, the second field has lines exactly when the mode
\* is interlaced, and the overlay fills the picture.
TimingsFit ==
  \A m \in Syncs :
    /\ Packed(m[1]) = m[1]
    /\ m[1][Progressive] = 1 <=> m[1][YRes2] = 0
    /\ m[2] = <<m[1][XRes], m[1][YRes]>>

\* The scaler's words are exact whenever they can be, and those that the documentation
\* notes for three resolutions come out.
ScalersFit ==
  /\ \A m \in AuxModes, a \in Sources :
       /\ Representable(m[1], a) <=> Exact(m[1], a, Scaler(m[1], a))
       /\ Representable(m[2], a) <=> Exact(m[2], a, Scaler(m[2], a))
  /\ Scaler(1024, 512) = Word12(0, 1024, 128)     \* 00040080
  /\ Scaler(800, 512) = Word12(3424, 128, 163)    \* d60080a3
  /\ Scaler(1360, 512) = Word12(3584, 848, 96)    \* e0035060

\* The two tools agree on the clock's fields.
ClocksFit ==
  \A a \in {0, 1, 511, 1023}, b \in {0, 1, 15, 31}, c \in 0..3 :
    UncalcPll(CalcPll(a, b, c)) = <<a, b, c>>
===============================================================================

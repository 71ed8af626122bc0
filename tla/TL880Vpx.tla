-------------------------------- MODULE TL880Vpx --------------------------------
(***************************************************************************)
(* The video decoder of an MDP-120 (driver/tl880vpx.c): the firmware       *)
(* ("FP") registers behind four I2C registers, what the probe writes to    *)
(* them, and tl880_set_gpio (driver/tl880gpio.c 274-347), whose lines are  *)
(* bits of FP register 0x154.                                              *)
(*                                                                         *)
(* An I2C transfer is atomic, the core locks the bus; an operation is      *)
(* several transfers under no lock.  A transfer may fail, and one that     *)
(* writes may then have reached the chip or not.  A value is the set of    *)
(* its bits that are one.                                                  *)
(***************************************************************************)
EXTENDS Integers, Sequences

CONSTANTS
  Callers,  \* processes in the driver after the probe: SETGPIO ioctls, ALSA
  VpxLines, \* lines they set
  MaxPolls, \* VPX_TIMEOUT_COUNT
  MaxOps,   \* bound on the operations after the probe
  MaxFails  \* bound on the transfers that fail and the commands the chip is slow on

ASSUME VpxAssumption ==
  /\ Callers # {} /\ VpxLines \subseteq 1..13
  /\ MaxPolls \in Nat \ {0} /\ {MaxOps, MaxFails} \subseteq Nat

VARIABLES
  stage,   \* what a caller does next
  op,      \* its operation, or Nothing
  val,     \* the value it has read
  polls,   \* times it has found the chip busy
  begun,   \* operations that have begun, first those of the probe
  fp,      \* FP registers
  latch,   \* the direction and register the chip was given last
  busy,    \* it has not yet accepted them
  dat,     \* its data register, for a read
  before,  \* history: fp when a caller's operation began
  spoiled, \* history: what has gone wrong since
  fails    \* transfers that have failed and commands the chip was slow on

vpxVars == <<stage, op, val, polls, begun, fp, latch, busy, dat, before, spoiled, fails>>

\* VPX_FP_OUTMUX, VPX_FP_SDT, VPX_FP_INSEL, VPX_FP_CONTRAST1, VPX_FP_PEAKING1.
FpRegs == {"outmux", "sdt", "insel", "contrast", "peaking"}
Stages == {"idle", "rdaddr", "rdpoll", "rddata", "wraddr", "wrpoll", "wrdata", "done"}
Woes   == {"addr", "poll", "status", "read", "write", "overlap"}

Twelve   == 0..11
ReadFail == 0..15           \* 0xffff
DataFail == (0..15) \ {10}  \* -EIO as a word, its bytes swapped: 0xfbff

Nothing == [reg |-> "none"]

\* An operation reads reg unless read is "no", keeps some of its bits, sets others
\* and writes it unless keeps is {-1}; "strict" gives up when the read fails.
Op(r, how, keeps, sets) == [reg |-> r, read |-> how, keep |-> keeps, on |-> sets]
NoWrite == {-1}

-------------------------------------------------------------------------------
(* The operations. *)

\* tl880_set_gpio: 2, 6 and 8 to 13 have a bit, the others only a read.
LineOp(l, s) ==
  IF l \notin {2, 6} \cup 8..13 THEN Op("outmux", "plain", NoWrite, {})
  ELSE LET bit == CASE l = 2 -> 2 [] l = 6 -> 6 [] OTHER -> <<1, 7, 0, 3, 4, 5>>[l - 7]
       IN  IF s = 0 THEN Op("outmux", "plain", (0..15) \ {bit}, {8, 9})
           ELSE Op("outmux", "plain", 0..15, {8, 9, bit})

\* tl880_vpx_set_video_standard.
VideoStandard(bits) == Op("sdt", "strict", 4..10, bits)

\* tl880_vpx_set_video_source(2, 4): luma from VIN2, chroma from CIN2, composite.
VideoSource ==
  <<Op("insel", "plain", 3..10, {0, 2}), Op("sdt", "plain", (0..10) \ {6}, {})>>

\* tl880_vpx_set_video_attribute of contrast 144, sharpness 128, coring 128 and
\* sharpness 180.
VideoAttributes ==
  <<Op("contrast", "plain", 6..11, {2, 5}), Op("peaking", "plain", {0, 1} \cup 5..11, {4}),
    Op("peaking", "plain", 2..11, {1}), Op("peaking", "plain", {0, 1} \cup 5..11, {2, 4})>>

\* tl880_vpx_init and tl880_vpx_config, without the registers that nothing reads back.
Config ==
  <<Op("outmux", "plain", 0..7, {8, 9}), Op("peaking", "no", {}, {8, 9}),
    Op("sdt", "no", {}, {0, 5}), VideoStandard({0, 1, 2})>> \o VideoSource \o VideoAttributes

\* The probe, in the order of tl880_init_myhd and tl880_init_dev.
ProbeOps ==
  <<LineOp(6, 1)>> \o Config
  \o <<LineOp(9, 0), LineOp(8, 0), LineOp(5, 0), Op("outmux", "no", {}, {0, 8, 9}),
       LineOp(9, 2), LineOp(8, 0)>>
  \o VideoSource

AllCallers == Callers \cup {"probe"}

VpxTypeOK ==
  /\ stage \in [AllCallers -> Stages]
  /\ DOMAIN op = AllCallers /\ \A c \in AllCallers : op[c] = Nothing <=> stage[c] = "idle"
  /\ val \in [AllCallers -> SUBSET (0..15)]
  /\ polls \in [AllCallers -> 0..(MaxPolls - 1)]
  /\ begun \in 0..(Len(ProbeOps) + MaxOps)
  /\ fp \in [FpRegs -> SUBSET Twelve]
  /\ latch.dir \in {"none", "rd", "wr"} /\ latch.reg \in FpRegs
  /\ busy \in {"no", "yes"} /\ dat \subseteq Twelve
  /\ DOMAIN before = AllCallers
  /\ \A c \in AllCallers : before[c] = <<>> \/ before[c] \in [FpRegs -> SUBSET Twelve]
  /\ spoiled \in [AllCallers -> SUBSET Woes]
  /\ fails \in 0..MaxFails

VpxInit ==
  /\ stage = [c \in AllCallers |-> "idle"] /\ op = [c \in AllCallers |-> Nothing]
  /\ val = [c \in AllCallers |-> {}] /\ polls = [c \in AllCallers |-> 0]
  /\ begun = 0
  /\ fp = [r \in FpRegs |-> IF r = "outmux" THEN {4} ELSE {6, 10}]
  /\ latch = [dir |-> "none", reg |-> "outmux"] /\ busy = "no" /\ dat = {}
  /\ before = [c \in AllCallers |-> <<>>]
  /\ spoiled = [c \in AllCallers |-> {}] /\ fails = 0

-------------------------------------------------------------------------------
(* The steps of an operation. *)

VpxBegin(c, o) ==
  LET others == {d \in AllCallers \ {c} : stage[d] # "idle"}
  IN  /\ stage[c] = "idle"
      /\ stage' = [stage EXCEPT ![c] = IF o.read = "no" THEN "wraddr" ELSE "rdaddr"]
      /\ op' = [op EXCEPT ![c] = o]
      /\ before' = [before EXCEPT ![c] = fp]
      /\ spoiled' = [d \in AllCallers |->
           IF d = c THEN (IF others = {} THEN {} ELSE {"overlap"})
           ELSE IF d \in others THEN spoiled[d] \cup {"overlap"} ELSE spoiled[d]]
      /\ UNCHANGED <<val, polls, fp, latch, busy, dat, fails>>

VpxProbeBegins ==
  /\ begun < Len(ProbeOps)
  /\ begun' = begun + 1
  /\ VpxBegin("probe", ProbeOps[begun + 1])

\* The card is found, and with it its lines, when the probe is done.
CallerBegins(c, l, s) ==
  /\ begun >= Len(ProbeOps) /\ stage["probe"] = "idle"
  /\ begun < Len(ProbeOps) + MaxOps
  /\ begun' = begun + 1
  /\ VpxBegin(c, LineOp(l, s))

Fails(c, woe) ==
  /\ fails < MaxFails
  /\ fails' = fails + 1
  /\ spoiled' = [spoiled EXCEPT ![c] = @ \cup {woe}]
Works == UNCHANGED <<fails, spoiled>>

\* After the read: on to the write, or the end.
AfterRead(c, failed) ==
  IF op[c].keep = NoWrite \/ (op[c].read = "strict" /\ failed) THEN "done" ELSE "wraddr"

\* Mutant: a failed write of the address is not noticed.
WriteAddrGoesOn(c) == "wrpoll"

\* tl880_vpx_write_fp returns when the address cannot be written.
WriteAddrFails(c) == "done"

\* The address goes to FPRD or FPWR; the chip has accepted it before the first poll,
\* or is slow.
SendAddr(c) ==
  /\ stage[c] \in {"rdaddr", "wraddr"}
  /\ LET dir   == IF stage[c] = "rdaddr" THEN "rd" ELSE "wr"
         taken == latch' = [dir |-> dir, reg |-> op[c].reg]
         quick == taken /\ busy' = "no" /\ dat' = IF dir = "rd" THEN fp[op[c].reg] ELSE dat
         slow  == taken /\ busy' = "yes" /\ UNCHANGED dat
     IN  \/ /\ \/ Works /\ quick
               \/ fails < MaxFails /\ fails' = fails + 1 /\ UNCHANGED spoiled /\ slow
            /\ stage' = [stage EXCEPT ![c] = IF dir = "rd" THEN "rdpoll" ELSE "wrpoll"]
            /\ UNCHANGED val
         \/ /\ Fails(c, "addr")
            /\ quick \/ slow \/ UNCHANGED <<latch, busy, dat>>
            /\ stage' = [stage EXCEPT ![c] = IF dir = "rd" THEN AfterRead(c, TRUE) ELSE WriteAddrFails(c)]
            /\ val' = IF dir = "rd" THEN [val EXCEPT ![c] = ReadFail] ELSE val
  /\ UNCHANGED <<op, polls, begun, fp, before>>

\* Mutant: the number of polls has no bound.
PolledForever(c) == FALSE

PolledEnough(c) == polls[c] + 1 = MaxPolls

\* Mutant: the busy bit is not the one that is looked at.
AcceptedAlways == TRUE

Accepted == busy = "no"

\* tl880_vpx_fp_status, one read of FPSTA.  One that fails returns -EIO, whose busy
\* bit is clear.
Poll(c) ==
  /\ stage[c] \in {"rdpoll", "wrpoll"}
  /\ LET reads == stage[c] = "rdpoll"
         ready == /\ stage' = [stage EXCEPT ![c] = IF reads THEN "rddata" ELSE "wrdata"]
                  /\ polls' = [polls EXCEPT ![c] = 0]
                  /\ UNCHANGED val
     IN  \/ Accepted /\ Works /\ ready
         \/ Fails(c, "status") /\ ready
         \/ /\ ~Accepted /\ PolledEnough(c)
            /\ polls' = [polls EXCEPT ![c] = 0]
            /\ stage' = [stage EXCEPT ![c] = IF reads THEN AfterRead(c, TRUE) ELSE "done"]
            /\ val' = IF reads THEN [val EXCEPT ![c] = ReadFail] ELSE val
            /\ spoiled' = [spoiled EXCEPT ![c] = @ \cup {"poll"}]
            /\ UNCHANGED fails
         \/ /\ ~Accepted /\ ~PolledEnough(c) /\ Works
            /\ polls' = [polls EXCEPT ![c] = @ + 1]
            /\ UNCHANGED <<stage, val>>
  /\ UNCHANGED <<op, begun, fp, latch, busy, dat, before>>

\* tl880_vpx_read_fp takes a failed read of FPDAT for data: -EIO is not (u16)-1.
ReadData(c) ==
  /\ stage[c] = "rddata"
  /\ \/ Works /\ val' = [val EXCEPT ![c] = dat]
     \/ Fails(c, "read") /\ val' = [val EXCEPT ![c] = DataFail]
  /\ stage' = [stage EXCEPT ![c] = AfterRead(c, FALSE)]
  /\ UNCHANGED <<op, polls, begun, fp, latch, busy, dat, before>>

\* The data goes to FPDAT.  The chip takes it when it was told to write; whether it
\* does while it is busy is not known.
WriteData(c) ==
  /\ stage[c] = "wrdata"
  /\ LET kept   == IF op[c].read = "no" THEN {} ELSE val[c] \cap op[c].keep
         stored == latch.dir = "wr" /\ fp' = [fp EXCEPT ![latch.reg] = (kept \cup op[c].on) \cap Twelve]
     IN  \/ Works /\ stored
         \/ Works /\ (latch.dir # "wr" \/ busy = "yes") /\ UNCHANGED fp
         \/ Fails(c, "write") /\ (stored \/ UNCHANGED fp)
  /\ stage' = [stage EXCEPT ![c] = "done"]
  /\ UNCHANGED <<op, val, polls, begun, latch, busy, dat, before>>

Return(c) ==
  /\ stage[c] = "done"
  /\ stage' = [stage EXCEPT ![c] = "idle"] /\ op' = [op EXCEPT ![c] = Nothing]
  /\ val' = [val EXCEPT ![c] = {}] /\ before' = [before EXCEPT ![c] = <<>>]
  /\ spoiled' = [spoiled EXCEPT ![c] = {}]
  /\ UNCHANGED <<polls, begun, fp, latch, busy, dat, fails>>

\* The chip, external, may accept what it was slow on; it may also never.
ChipAccepts ==
  /\ busy = "yes"
  /\ busy' = "no"
  /\ dat' = IF latch.dir = "rd" THEN fp[latch.reg] ELSE dat
  /\ UNCHANGED <<stage, op, val, polls, begun, fp, latch, before, spoiled, fails>>

VpxStep(c) == SendAddr(c) \/ Poll(c) \/ ReadData(c) \/ WriteData(c) \/ Return(c)

VpxNext ==
  \/ VpxProbeBegins
  \/ \E c \in Callers, l \in VpxLines, s \in {0, 1} : CallerBegins(c, l, s)
  \/ \E c \in AllCallers : VpxStep(c)
  \/ ChipAccepts

VpxSpec == VpxInit /\ [][VpxNext]_vpxVars

-------------------------------------------------------------------------------
(* Properties. *)

Wanted(c, r) ==
  IF op[c].keep = NoWrite \/ r # op[c].reg THEN before[c][r]
  ELSE ((IF op[c].read = "no" THEN {} ELSE before[c][r] \cap op[c].keep) \cup op[c].on)

\* Undisturbed and without a failure an operation changes its bits of its register
\* and no others, however long the chip takes (tl880_vpx_read_fp 120-146,
\* tl880_vpx_write_fp 148-176).
LandsExactly ==
  \A c \in AllCallers :
    stage[c] = "done" /\ spoiled[c] = {} => \A r \in FpRegs : fp[r] = Wanted(c, r)

\* Whatever fails, OUTMUX never loses the port mode of bits 8 and 9 to a value that
\* was meant for another register (tl880_vpx_write_fp 156-161, tl880gpio.c 341).
ModeKept ==
  [][(\A c \in AllCallers : "overlap" \notin spoiled[c]) /\ fp'["outmux"] # fp["outmux"] =>
       {8, 9} \subseteq fp'["outmux"]]_vpxVars

\* Bit 11 of OUTMUX stays zero.
ReservedStaysZero == 11 \notin fp["outmux"]

\* Every step brings an operation nearer to its end, though the chip may stay busy
\* for ever: no operation hangs (tl880_vpx_fp_status 97-117).
Left(st) ==
  CASE st = "rdaddr" -> 7 [] st = "rdpoll" -> 6 [] st = "rddata" -> 5 [] st = "wraddr" -> 4
    [] st = "wrpoll" -> 3 [] st = "wrdata" -> 2 [] st = "done" -> 1 [] st = "idle" -> 0
StepsLeft(c) == MaxPolls * Left(stage[c]) - polls[c]
NearerTheEnd ==
  [][\A c \in AllCallers : stage[c] # "idle" /\ VpxStep(c) =>
       StepsLeft(c)' \in 0..(StepsLeft(c) - 1)]_vpxVars
===============================================================================

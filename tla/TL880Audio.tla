------------------------------- MODULE TL880Audio -------------------------------
(***************************************************************************)
(* The audio unit (driver/tl880audio.c): its buffer in card memory and the *)
(* registers that point to it, the cross-fade matrix, and the two GPIO     *)
(* lines that select the sampling rate.  A probe (tl880_init_myhd,         *)
(* tl880_init_dev) and a removal (tl880_deinit_dev) are lists of steps, a  *)
(* call or a line each, with user space and the ALSA module in between.    *)
(***************************************************************************)
EXTENDS Integers, Sequences

CONSTANTS
  AudioCards,  \* card types the driver detects
  Modes,       \* audio modes; the tree asks for 1
  Bases,       \* addresses tl880_alloc_memory may return
  BufferLen    \* 0x7800

ASSUME ModesAssumption == Modes \subseteq {0, 1}
ASSUME BasesAssumption == Bases \subseteq Nat \ {0} /\ BufferLen \in Nat \ {0}

VARIABLES
  kind,        \* card_type
  life,        \* "in" from the probe to the removal, or "out"
  job,         \* steps still to do
  audio_mode,
  iau_base,
  iau_regs,    \* the mode whose three registers iau_iba_reg, _iea_ and _ira_ name
  iau,         \* those registers of either mode
  iec_buf,
  lent,        \* buffers the pool has given to the audio unit
  ctl,         \* register 3004
  mixer,       \* registers 305c to 307c, byte by byte; 1 is 0xc3
  level,       \* lines 8 and 9
  rate,        \* history: the rate asked for last, 0 when user space set a line
  mixed        \* history: who wrote the matrix last, "driver" or "user"

bufferVars == <<audio_mode, iau_base, iau_regs, iau, iec_buf, lent>>
audioVars  == <<kind, life, job, bufferVars, ctl, mixer, level, rate, mixed>>

Unset   == 2  \* the struct is new: iau_iba_reg and the others are 0
Zeros   == <<0, 0, 0>>
Unknown == 11025  \* stands for every rate that is not supported
Rates   == {22050, 32000, 44100, 48000, 64000, 72000, 88200, 96000}

\* What a step does: a call of a probe or a removal, or the setting of a line.
StepNames == {"tone off", "disable_apu", "init_ioc", "zero", "free", "kfree", "mode",
              "alloc", "kmalloc", "iau", "ntsc", "line"}
Steps     == [do : StepNames, line : {0, 8, 9}, to : 0..2, hz : Rates \cup {0}]

AudioTypeOK ==
  /\ kind \in AudioCards /\ life \in {"out", "in"}
  /\ job \in Seq(Steps)
  /\ audio_mode \in Modes \cup {0} /\ iau_base \in Bases \cup {0}
  /\ iau_regs \in {0, 1, Unset} /\ DOMAIN iau = {0, 1}
  /\ iec_buf \in {"null", "buf"} /\ lent \subseteq Bases
  /\ ctl \in {"off", "ntsc", "tone", "left on"}
  /\ mixer \in [0..8 -> [0..3 -> {0, 1}]]
  /\ level \in [{8, 9} -> 0..2]
  /\ rate \in Rates \cup {0} /\ mixed \in {"driver", "user"}

AudioInit ==
  /\ kind \in AudioCards /\ life = "out" /\ job = <<>>
  /\ audio_mode = 0 /\ iau_base = 0 /\ iau_regs = Unset
  /\ iau = [m \in {0, 1} |-> Zeros] /\ iec_buf = "null" /\ lent = {}
  /\ ctl = "off" /\ mixer = [r \in 0..8 |-> [i \in 0..3 |-> 0]]
  /\ level = [l \in {8, 9} |-> 0] /\ rate = 0 /\ mixed = "driver"

-------------------------------------------------------------------------------
(* The sampling rate. *)

\* A step: a call, or a line to set; the first line of a rate names it (hz).
Call(name)       == [do |-> name, line |-> 0, to |-> 0, hz |-> 0]
LineTo(l, s, hz) == [do |-> "line", line |-> l, to |-> s, hz |-> hz]

\* tl880_set_sampling_clock.
Clock(n) ==
  CASE n \in {0, 1} -> <<LineTo(9, 2, 48000), LineTo(8, 0, 0)>>
    [] n = 2        -> <<LineTo(9, 0, 44100), LineTo(8, 2, 0)>>
    [] n = 3        -> <<LineTo(9, 0, 32000), LineTo(8, 0, 0)>>

\* tl880_set_samplerate: what lines 8 and 9 are set to.
RatePair(r) ==
  CASE r = 22050 -> <<2, 2>> [] r = 32000 -> <<0, 0>> [] r = 44100 -> <<2, 0>>
    [] r = 48000 -> <<0, 2>> [] r = 64000 -> <<1, 0>> [] r = 72000 -> <<2, 1>>
    [] r = 88200 -> <<1, 1>> [] r = 96000 -> <<1, 2>>

\* Mutant: the two lines are exchanged.
SampleRateCrossed(r) == <<LineTo(8, RatePair(r)[2], r), LineTo(9, RatePair(r)[1], 0)>>

SampleRate(r) == <<LineTo(8, RatePair(r)[1], r), LineTo(9, RatePair(r)[2], 0)>>

\* A line of an MDP-100 or MDP-110 has three levels, one of the decoder two; the other
\* cards have no routine for it.
Driven(l, s) ==
  CASE kind = "MDP100" -> [level EXCEPT ![l] = s]
    [] kind = "MDP120" -> [level EXCEPT ![l] = IF s = 0 THEN 0 ELSE 1]
    [] OTHER           -> level

-------------------------------------------------------------------------------
(* The matrix: register 3 * a + i holds, for outputs 2a and 2a + 1, the gains   *)
(* of inputs 2i and 2i + 1 in its bytes 0, 1 and 2, 3.                          *)

\* tl880_audio_set_crossfade of output 2a + b.
Crossfade(m, a, b, gains) ==
  IF a \notin 0..2 \/ b \notin 0..1 THEN m
  ELSE [r \in 0..8 |->
         IF r \div 3 # a THEN m[r]
         ELSE [i \in 0..3 |-> IF i \div 2 = b THEN gains[2 * (r % 3) + (i % 2) + 1] ELSE m[r][i]]]

Unit(k) == [i \in 1..6 |-> IF i = k THEN 1 ELSE 0]

\* The six calls of tl880_apu_start_ioc.
StartIocMatrix(m) ==
  LET c(x, a, b) == Crossfade(x, a, b, Unit(2 * a + b + 1))
  IN  c(c(c(c(c(c(m, 0, 0), 0, 1), 1, 0), 1, 1), 2, 0), 2, 1)

\* Register r holds 0xc30000c3, or zero.
Word(on) == [i \in 0..3 |-> IF on /\ i \in {0, 3} THEN 1 ELSE 0]
NtscMatrix == [r \in 0..8 |-> Word(r \in {0, 4, 8})]

-------------------------------------------------------------------------------
(* The steps. *)

DeinitHardware == <<Call("init_ioc"), Call("zero"), Call("free"), Call("kfree")>>

InitHardware == <<Call("mode"), Call("alloc"), Call("kmalloc"), Call("init_ioc"), Call("iau")>>
                \o Clock(1)
NtscAudio    == Clock(3) \o <<Call("ntsc")>>

\* What tl880_init_myhd and tl880_init_dev do to the audio unit.
ProbeSteps ==
  (IF kind = "MDP120" THEN <<Call("tone off")>> ELSE <<>>)
  \o (IF kind = "WINTV" THEN <<>> ELSE Clock(3))
  \o <<Call("disable_apu")>> \o DeinitHardware \o InitHardware \o NtscAudio

RemoveSteps == <<Call("disable_apu"), Call("init_ioc")>> \o DeinitHardware

\* A probe makes a new struct; the registers are as the last one left them.
AudioProbe ==
  /\ life = "out" /\ job = <<>>
  /\ life' = "in" /\ job' = ProbeSteps
  /\ audio_mode' = 0 /\ iau_base' = 0 /\ iau_regs' = Unset /\ iec_buf' = "null"
  /\ UNCHANGED <<kind, iau, lent, ctl, mixer, level, rate, mixed>>

AudioRemove ==
  /\ life = "in" /\ job = <<>>
  /\ life' = "out" /\ job' = RemoveSteps
  /\ UNCHANGED <<kind, bufferVars, ctl, mixer, level, rate, mixed>>

Doing(name) == job # <<>> /\ Head(job).do = name /\ job' = Tail(job) /\ UNCHANGED <<kind, life>>

SetRateLine ==
  /\ Doing("line")
  /\ level' = Driven(Head(job).line, Head(job).to)
  /\ rate' = IF Head(job).hz # 0 THEN Head(job).hz ELSE rate
  /\ UNCHANGED <<bufferVars, ctl, mixer, mixed>>

DisableApu ==
  /\ Doing("disable_apu") /\ ctl' = "off"
  /\ UNCHANGED <<bufferVars, mixer, level, rate, mixed>>

\* Mutant: the registers of mode 0 are cleared, whichever mode is in use.
ZeroIauOfModeZero == iau' = [iau EXCEPT ![0] = Zeros]

\* The three registers are those of the last mode; a new struct names register 0.
ZeroIau == iau' = IF iau_regs = Unset THEN iau ELSE [iau EXCEPT ![iau_regs] = Zeros]

InitIoc ==
  /\ Doing("init_ioc") /\ ctl' = "off" /\ ZeroIau
  /\ UNCHANGED <<audio_mode, iau_base, iau_regs, iec_buf, lent, mixer, level, rate, mixed>>

ZeroRegisters ==
  /\ Doing("zero") /\ ZeroIau
  /\ UNCHANGED <<audio_mode, iau_base, iau_regs, iec_buf, lent, ctl, mixer, level, rate, mixed>>

FreeBuffer ==
  /\ Doing("free")
  /\ lent' = lent \ {iau_base} /\ iau_base' = 0
  /\ UNCHANGED <<audio_mode, iau_regs, iau, iec_buf, ctl, mixer, level, rate, mixed>>

FreeIec ==
  /\ Doing("kfree") /\ iec_buf' = "null"
  /\ UNCHANGED <<audio_mode, iau_base, iau_regs, iau, lent, ctl, mixer, level, rate, mixed>>

SetMode(m) ==
  /\ Doing("mode") /\ audio_mode' = m
  /\ UNCHANGED <<iau_base, iau_regs, iau, iec_buf, lent, ctl, mixer, level, rate, mixed>>

AllocBuffer(b) ==
  /\ Doing("alloc") /\ iau_base = 0
  /\ iau_base' = b /\ lent' = lent \cup {b}
  /\ UNCHANGED <<audio_mode, iau_regs, iau, iec_buf, ctl, mixer, level, rate, mixed>>

\* Without memory tl880_init_hardware_audio returns, and the probe goes on.
AllocFails ==
  /\ job # <<>> /\ Head(job).do = "alloc" /\ iau_base = 0
  /\ job' = NtscAudio
  /\ UNCHANGED <<kind, life, bufferVars, ctl, mixer, level, rate, mixed>>

\* kmalloc's answer is not looked at.
AllocIec ==
  /\ Doing("kmalloc") /\ iec_buf' \in {"null", "buf"}
  /\ UNCHANGED <<audio_mode, iau_base, iau_regs, iau, lent, ctl, mixer, level, rate, mixed>>

InitIauReg ==
  /\ Doing("iau")
  /\ iau_regs' = audio_mode
  /\ iau' = [iau EXCEPT ![audio_mode] = <<iau_base, iau_base + BufferLen - 1, iau_base>>]
  /\ UNCHANGED <<audio_mode, iau_base, iec_buf, lent, ctl, mixer, level, rate, mixed>>

InitNtsc ==
  /\ Doing("ntsc")
  /\ mixer' = NtscMatrix /\ ctl' = "ntsc" /\ mixed' = "driver"
  /\ UNCHANGED <<bufferVars, level, rate>>

\* Line 0 of the MDP-120: a tone, or its end, which leaves the unit playing.
Tone(on) ==
  /\ mixer' = [mixer EXCEPT ![4] = Word(on)]
  /\ ctl' = IF on THEN "tone" ELSE IF ctl = "tone" THEN "left on" ELSE ctl
  /\ mixed' = "user"
  /\ UNCHANGED <<bufferVars, level, rate>>

ProbeToneOff == Doing("tone off") /\ Tone(FALSE)

-------------------------------------------------------------------------------
(* User space and the ALSA module. *)

UserTones(on) ==
  /\ kind = "MDP120" /\ life = "in"
  /\ Tone(on) /\ UNCHANGED <<kind, life, job>>

UserSetsRateLine(l, s) ==
  /\ life = "in"
  /\ level' = Driven(l, s) /\ rate' = 0
  /\ UNCHANGED <<kind, life, job, bufferVars, ctl, mixer, mixed>>

\* tl880_set_samplerate, from hw_params: a rate that is not supported changes nothing.
HwRate(r) ==
  /\ life = "in" /\ job = <<>>
  /\ job' = IF r \in Rates THEN SampleRate(r) ELSE <<>>
  /\ UNCHANGED <<kind, life, bufferVars, ctl, mixer, level, rate, mixed>>

AudioNext ==
  \/ AudioProbe \/ AudioRemove
  \/ SetRateLine \/ DisableApu \/ InitIoc \/ ZeroRegisters \/ FreeBuffer \/ FreeIec
  \/ (\E m \in Modes : SetMode(m)) \/ (\E b \in Bases : AllocBuffer(b)) \/ AllocFails
  \/ AllocIec \/ InitIauReg \/ InitNtsc \/ ProbeToneOff
  \/ \E on \in BOOLEAN : UserTones(on)
  \/ \E l \in {8, 9}, s \in 0..2 : UserSetsRateLine(l, s)
  \/ \E r \in Rates \cup {Unknown} : HwRate(r)

AudioSpec == AudioInit /\ [][AudioNext]_audioVars

-------------------------------------------------------------------------------
(* Properties. *)

\* The audio unit never points to memory it does not own: its registers are zero or
\* inside a buffer that the pool has lent to it, through probes without memory,
\* removals and a new struct that does not know the registers of the last one; and a
\* removal gives the buffers back and leaves the unit off (tl880_deinit_hardware_audio
\* 81-89, tl880_apu_init_ioc 126-128, tl880_apu_init_iau_reg 114-117).
BufferOwned ==
  /\ \A m \in {0, 1}, k \in 1..3 :
       iau[m][k] # 0 => \E b \in lent : iau[m][k] \in b..(b + BufferLen - 1)
  /\ lent = {iau_base} \ {0}
  /\ life = "out" /\ job = <<>> => lent = {} /\ iec_buf = "null" /\ ctl = "off"

\* What a matrix does: the gain of an input on an output.
Gain(m, out, in) == m[3 * (out \div 2) + (in \div 2)][2 * (out % 2) + (in % 2)]
IsIdentity(m)    == \A out, in \in 0..5 : Gain(m, out, in) = IF out = in THEN 1 ELSE 0

\* Whatever the matrix was, tl880_apu_start_ioc makes it the identity.
StartsAsIdentity ==
  \A m \in {[r \in 0..8 |-> [i \in 0..3 |-> k]] : k \in {0, 1}} \cup {NtscMatrix} :
    IsIdentity(StartIocMatrix(m))

\* When nothing is under way, the lines of a card with three levels stand for the rate
\* that was asked for last and for no other: the two routines that set them agree, a
\* refused rate leaves no trace, and a change is never left half done; the matrix
\* routes every input to its own output, as tl880_apu_start_ioc would set it too
\* (tl880_set_sampling_clock 492-515, tl880_set_samplerate 529-566,
\* tl880_audio_set_crossfade 180-314, tl880_init_ntsc_audio 368-376).
AudioAsAsked ==
  /\ kind = "MDP100" /\ job = <<>> /\ rate # 0 =>
       {r \in Rates : RatePair(r) = <<level[8], level[9]>>} = {rate}
  /\ life = "in" /\ job = <<>> /\ mixed = "driver" => IsIdentity(mixer)
  /\ StartsAsIdentity
===============================================================================

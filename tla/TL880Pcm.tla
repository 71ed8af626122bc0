------------------------------- MODULE TL880Pcm -------------------------------
(***************************************************************************)
(* One PCM substream of the ALSA module: the callbacks ALSA makes, the     *)
(* polling timer that reports elapsed periods, the ring in card memory     *)
(* that the audio unit plays, and the bottom half that moves the same      *)
(* ring's interrupt position (driver/alsa/tl880alsa.c,                     *)
(* driver/tl880audio.c).                                                   *)
(*                                                                         *)
(* Addresses are in units of 16 bytes.  trigger and the timer take the     *)
(* same lock; a critical section without a step of its own is one action.  *)
(* The ALSA core is external: it serialises the callbacks of a substream   *)
(* and makes them only in the states its own API allows.                   *)
(***************************************************************************)
EXTENDS Integers

CONSTANTS
  PeriodSizes,  \* period sizes that hw_params may ask for
  MaxPeriod,    \* MAX_PERIOD_SIZE
  SMP,          \* softirqs and processes run on several processors
  OtherCard     \* the timer of another card's substream runs too

ASSUME PeriodAssumption   == MaxPeriod \in Nat /\ PeriodSizes \subseteq 4..MaxPeriod
ASSUME SwitchesAssumption == {SMP, OtherCard} \subseteq BOOLEAN

Base    == 1  \* buffer_base, 0x1000 in the code
Periods == 2  \* USE_PERIODS_MIN and USE_PERIODS_MAX

VARIABLES
  alsa,        \* state of the substream in the ALSA core
  alive,       \* struct snd_tl880_pcm exists
  pending,     \* its timer is queued
  tf,          \* where the timer function is; in "armed" it holds the lock
  tfPos,       \* its reg302c
  tfInt,       \* its reg3030
  bug,         \* add_timer has met a pending timer: BUG_ON in the kernel
  period_size, buffer_pos,
  start, end,  \* registers 3020 and 3024: the ring
  pos,         \* register 302c: playback position
  intPos,      \* register 3030: interrupt position
  on,          \* bit 0 of register 3004: the audio unit plays
  last,        \* static lastreg302c
  apu,         \* the audio unit has interrupted: it played over intPos
  bh, bhInt,   \* tl880_ntsc_audio_dpc and the trigger it has read
  lag,         \* history: units played since the timer last read the position
  due          \* history: periods that elapsed and were not reported

structVars == <<period_size, buffer_pos>>
ringVars   == <<start, end, intPos>>
timerVars  == <<pending, tf, tfPos, tfInt, bug, last>>
bhVars     == <<apu, bh, bhInt>>
histVars   == <<lag, due>>
vars == <<alsa, alive, timerVars, structVars, ringVars, pos, on, bhVars, histVars>>

AlsaStates == {"closed", "open", "setup", "prepared", "running", "xrun", "suspended"}
Addrs      == 0..(Base + Periods * MaxPeriod)

TypeOK ==
  /\ alsa \in AlsaStates /\ alive \in BOOLEAN
  /\ pending \in BOOLEAN /\ tf \in {"idle", "called", "armed", "elapsed", "last"}
  /\ bug \in BOOLEAN
  /\ {tfPos, tfInt, buffer_pos, start, end, pos, intPos, last, bhInt} \subseteq Addrs
  /\ period_size \in PeriodSizes \cup {0}
  /\ on \in BOOLEAN /\ apu \in BOOLEAN /\ bh \in {"idle", "write"}
  /\ lag \in Nat /\ due \in Nat

Init ==
  /\ alsa = "closed" /\ alive = FALSE
  /\ pending = FALSE /\ tf = "idle" /\ tfPos = 0 /\ tfInt = 0 /\ bug = FALSE /\ last = 0
  /\ period_size = 0 /\ buffer_pos = 0
  /\ start = 0 /\ end = 0 /\ pos = 0 /\ intPos = 0 /\ on = FALSE
  /\ apu = FALSE /\ bh = "idle" /\ bhInt = 0 /\ lag = 0 /\ due = 0

\* One processor runs one softirq at a time, and a process only between them.
TimerMayRun   == ~bug /\ (SMP \/ bh = "idle")
BhMayRun      == ~bug /\ (SMP \/ tf \in {"idle", "called"})
ProcessMayRun == ~bug /\ (SMP \/ (tf = "idle" /\ bh = "idle"))
LockFree      == tf # "armed"

-------------------------------------------------------------------------------
(* Callbacks: open, hw_params, prepare, trigger, close. *)

Open ==
  /\ ProcessMayRun /\ alsa = "closed"
  /\ alsa' = "open" /\ alive' = TRUE
  /\ period_size' = 0 /\ buffer_pos' = 0
  /\ UNCHANGED <<timerVars, ringVars, pos, on, bhVars, histVars>>

\* Mutant: the ring ends with its length and not before it.
SetRingTooLong(p) ==
  start' = Base /\ end' = Base + p * Periods /\ pos' = Base /\ intPos' = Base + p

\* The ring's registers, as hw_params and prepare write them.
SetRing(p) ==
  /\ start' = Base
  /\ end' = Base + p * Periods - 2
  /\ pos' = Base
  /\ intPos' = Base + p

\* tl880_set_samplerate may refuse the rate, after the struct was changed and
\* before the registers are.
HwParams(p, ok) ==
  /\ ProcessMayRun /\ alsa \in {"open", "setup", "prepared"}
  /\ period_size' = p /\ buffer_pos' = 0
  /\ IF ok
       THEN alsa' = "setup" /\ SetRing(p)
       ELSE alsa' = "open" /\ UNCHANGED <<ringVars, pos>>
  /\ UNCHANGED <<alive, timerVars, on, bhVars, histVars>>

HwFree ==
  /\ ProcessMayRun /\ alsa \in {"setup", "prepared", "xrun", "suspended"}
  /\ alsa' = "open"
  /\ UNCHANGED <<alive, timerVars, structVars, ringVars, pos, on, bhVars, histVars>>

Prepare ==
  /\ ProcessMayRun /\ alsa \in {"setup", "prepared", "xrun", "suspended"}
  /\ alsa' = "prepared"
  /\ buffer_pos' = Base
  /\ SetRing(period_size)
  /\ UNCHANGED <<alive, timerVars, period_size, on, bhVars, histVars>>

AddTimer == pending' = TRUE /\ bug' = pending

\* START clears the ring, rewinds the position and falls through to RESUME.
Start ==
  /\ ProcessMayRun /\ LockFree /\ alsa = "prepared"
  /\ alsa' = "running"
  /\ pos' = Base
  /\ AddTimer /\ on' = TRUE
  /\ lag' = 0 /\ due' = 0
  /\ UNCHANGED <<alive, tf, tfPos, tfInt, last, structVars, ringVars, bhVars>>

Resume ==
  /\ ProcessMayRun /\ LockFree /\ alsa = "suspended"
  /\ alsa' = "running"
  /\ AddTimer /\ on' = TRUE
  /\ UNCHANGED <<alive, tf, tfPos, tfInt, last, structVars, ringVars, pos, bhVars, histVars>>

\* Mutant: the timer is left running.
StopKeepsTimer(state) ==
  /\ alsa' = state /\ on' = FALSE
  /\ UNCHANGED <<pending, alive, tfPos, tfInt, bug, last, structVars, ringVars, pos, bhVars, histVars>>

\* STOP and SUSPEND: del_timer does not wait for a timer function that runs.
Stop(state) ==
  /\ alsa' = state
  /\ on' = FALSE
  /\ pending' = FALSE
  /\ UNCHANGED <<alive, tfPos, tfInt, bug, last, structVars, ringVars, pos, bhVars, histVars>>

StopByUser ==
  /\ ProcessMayRun /\ LockFree /\ alsa = "running"
  /\ Stop("setup") \/ Stop("suspended")
  /\ UNCHANGED tf

\* The ALSA core stops a running substream before it closes it, and frees the
\* struct afterwards (snd_card_tl880_runtime_free).
Close ==
  /\ ProcessMayRun /\ alsa \notin {"closed", "running"}
  /\ alsa' = "closed" /\ alive' = FALSE
  /\ UNCHANGED <<timerVars, structVars, ringVars, pos, on, bhVars, histVars>>

-------------------------------------------------------------------------------
(* snd_card_tl880_pcm_timer_function. *)

TimerExpires ==
  /\ ~bug /\ pending /\ tf = "idle"
  /\ pending' = FALSE /\ tf' = "called"
  /\ UNCHANGED <<alsa, alive, tfPos, tfInt, bug, last, structVars, ringVars, pos, on, bhVars, histVars>>

\* Mutant: the timer does not queue itself again.
TimerArmOnce ==
  /\ TimerMayRun /\ tf = "called" /\ tf' = "armed"
  /\ tfPos' = pos /\ tfInt' = intPos /\ lag' = 0
  /\ UNCHANGED <<alsa, alive, pending, bug, last, structVars, ringVars, pos, on, bhVars, due>>

\* It takes the lock, queues itself again and reads the registers.
TimerArm ==
  /\ TimerMayRun /\ tf = "called"
  /\ tf' = "armed"
  /\ AddTimer
  /\ tfPos' = pos /\ tfInt' = intPos
  /\ lag' = 0
  /\ UNCHANGED <<alsa, alive, last, structVars, ringVars, pos, on, bhVars, due>>

\* Mutant: only the position tells whether a period has elapsed.
ElapsedForward == tfPos > buffer_pos + period_size

Elapsed == tfPos > buffer_pos + period_size \/ tfPos < last

\* Mutant: the interrupt position does not wrap.
NextIntNoWrap == tfInt + period_size

NextInt ==
  IF tfInt + period_size >= start + period_size * Periods THEN start ELSE tfInt + period_size

NextBufferPos ==
  IF buffer_pos + period_size >= start + period_size * (Periods - 1)
    THEN start ELSE buffer_pos + period_size

TimerCheck ==
  /\ TimerMayRun /\ tf = "armed"
  /\ IF Elapsed
       THEN tf' = "elapsed" /\ intPos' = NextInt /\ buffer_pos' = NextBufferPos
       ELSE tf' = "last" /\ UNCHANGED <<intPos, buffer_pos>>
  /\ UNCHANGED <<alsa, alive, pending, tfPos, tfInt, bug, last, period_size, start, end, pos, on, bhVars, histVars>>

\* snd_pcm_period_elapsed, when the substream still runs: the core reads the
\* pointer ...
TimerReports ==
  /\ TimerMayRun /\ tf = "elapsed"
  /\ tf' = "last" /\ due' = IF alsa = "running" THEN 0 ELSE due
  /\ UNCHANGED <<alsa, alive, pending, tfPos, tfInt, bug, last, structVars, ringVars, pos, on, bhVars, lag>>

\* ... and stops the substream through the trigger callback when the application
\* was too late.
TimerXrun ==
  /\ TimerMayRun /\ tf = "elapsed" /\ alsa = "running"
  /\ tf' = "last"
  /\ Stop("xrun")

\* lastreg302c is written without the lock, and by every card's timer.
TimerLast ==
  /\ TimerMayRun /\ tf = "last"
  /\ tf' = "idle"
  /\ last' \in IF OtherCard THEN Addrs ELSE {tfPos}
  /\ UNCHANGED <<alsa, alive, pending, tfPos, tfInt, bug, structVars, ringVars, pos, on, bhVars, histVars>>

TimerStep == TimerArm \/ TimerCheck \/ TimerReports \/ TimerXrun \/ TimerLast

-------------------------------------------------------------------------------
(* tl880_ntsc_audio_dpc, run by the bottom half at an APU interrupt. *)

BhRead ==
  /\ BhMayRun /\ bh = "idle" /\ apu
  /\ apu' = FALSE /\ bh' = "write" /\ bhInt' = intPos
  /\ UNCHANGED <<alsa, alive, timerVars, structVars, ringVars, pos, on, histVars>>

BhWrite ==
  /\ BhMayRun /\ bh = "write"
  /\ bh' = "idle"
  /\ intPos' = IF bhInt = start THEN (start + end) \div 2 ELSE start
  /\ UNCHANGED <<alsa, alive, timerVars, structVars, start, end, pos, on, apu, bhInt, histVars>>

-------------------------------------------------------------------------------
(* The audio unit plays the ring.  The bound on lag: between two looks of the  *)
(* timer it plays at most a quarter of a period (the shortest, 0x4000 bytes,   *)
(* lasts more than four ticks of 10 ms at 96 kHz).                             *)

Period(a) == (a - start) \div period_size

Play ==
  /\ on /\ alsa = "running" /\ lag < period_size \div 4
  /\ pos' = IF pos >= end THEN start ELSE pos + 1
  /\ due' = IF Period(pos') # Period(pos) THEN due + 1 ELSE due
  /\ lag' = lag + 1
  /\ apu' = (apu \/ pos' = intPos)
  /\ UNCHANGED <<alsa, alive, timerVars, structVars, ringVars, on, bh, bhInt>>

Next ==
  \/ Open \/ (\E p \in PeriodSizes, ok \in BOOLEAN : HwParams(p, ok)) \/ HwFree \/ Prepare
  \/ Start \/ Resume \/ StopByUser \/ Close
  \/ TimerExpires \/ TimerStep
  \/ BhRead \/ BhWrite
  \/ Play

Spec == Init /\ [][Next]_vars

\* A queued timer fires, softirqs run to their end, and the audio unit plays.
FairSpec ==
  Spec /\ WF_vars(TimerExpires) /\ WF_vars(TimerStep) /\ WF_vars(BhWrite) /\ WF_vars(Play)

-------------------------------------------------------------------------------
(* Properties. *)

\* Once the substream is closed and its struct freed, its timer is neither queued
\* nor running: "stopping timer on card" (snd_card_tl880_pcm_timer_stop 139).
NoUseAfterFree == ~alive => ~pending /\ tf = "idle"

\* On one processor the timer is queued exactly while the substream runs, however
\* starts, stops, underruns and suspends follow each other, so add_timer never
\* meets a pending timer and nothing runs on a freed struct (trigger 157-182,
\* timer function 241-244).
TimerFollowsStream ==
  ~SMP => /\ ~bug
          /\ tf = "idle" => (pending <=> alsa = "running")
          /\ NoUseAfterFree

\* On one processor, and with no other card, no period is lost: before a second
\* period of the ring of two elapses, the first has been reported to ALSA
\* (timer function 252 and 276-282).
NoLostPeriod == ~SMP /\ ~OtherCard => due <= 1

\* The ring's two positions stay in the ring: the interrupt position, although the
\* timer and the bottom half both move it without a common lock (timer function
\* 264-268, tl880_ntsc_audio_dpc 336-348), and the pointer callback's answer, also
\* after a rate was refused (pointer 297, hw_params 368-383, prepare 212-216).
RingKept ==
  /\ ~SMP /\ alsa = "running" => intPos \in start..(end + 1)
  /\ alsa \in {"prepared", "running", "xrun"} => pos - Base \in 0..(period_size * Periods - 1)

\* A period that has elapsed is reported, or the substream stops.
PeriodsReported == due > 0 ~> due = 0 \/ alsa # "running"
===============================================================================

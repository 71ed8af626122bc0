------------------------------ MODULE TL880PcmProofs ------------------------------
(***************************************************************************)
(* Theorems about a PCM substream (TL880Pcm), for every set of period      *)
(* sizes: where the ring's registers are, and on one processor when the    *)
(* timer is queued and that no period is lost.                             *)
(***************************************************************************)
EXTENDS TL880Pcm, TLAPS

\* States of a substream that has a ring.
WithRing == {"setup", "prepared", "running", "xrun", "suspended"}

\* The ring is the period's, and the audio unit is in it.
RingSet ==
  alsa \in WithRing =>
    /\ period_size \in PeriodSizes
    /\ start = Base /\ end = Base + period_size * Periods - 2
    /\ pos \in Base..end

\* What the registers may say without a ring.
Loose == start \in {0, Base} /\ period_size \in PeriodSizes \cup {0}

\* The interrupt position, and the one that the timer has read and is to move.
IntInRing ==
  ~SMP /\ alsa \in WithRing =>
    /\ intPos \in start..(end + 1)
    /\ tf = "armed" => tfInt \in start..(end + 1)

\* On one processor the timer function and the bottom half run alone, and the stream
\* does not change state while the timer function is at work except by its own hand.
Alone ==
  /\ alive <=> alsa # "closed"
  /\ ~SMP =>
       /\ ~bug
       /\ tf \in {"idle", "last"} => (pending <=> alsa = "running")
       /\ tf = "called" => ~pending /\ alsa = "running"
       /\ tf \in {"armed", "elapsed"} => pending /\ alsa = "running"
       /\ tf = "last" => alsa \in {"running", "xrun"}

PcmInv == TypeOK /\ RingSet /\ Loose /\ IntInRing /\ Alone

-------------------------------------------------------------------------------
(* Periods.                                                                     *)

\* Where the audio unit was when the timer last looked.
Seen == IF tf \in {"armed", "elapsed", "last"} THEN tfPos ELSE last

\* It has gone on from there, at most once past the end of the ring; or it has not been
\* looked at since the start.
Ahead ==
  \/ Seen \in Base..end /\ pos = Seen + lag
  \/ Seen \in Base..end /\ pos + (2 * period_size - 1) = Seen + lag
  \/ tf \in {"idle", "called"} /\ pos = Base + lag /\ due = 0

\* A position in the first quarter of a period.
Early(a) ==
  \/ a >= Base /\ a <= Base + period_size \div 4
  \/ a >= Base + period_size /\ a <= Base + period_size + period_size \div 4

\* A period that is due has ended since the timer looked: at the end of the ring, in
\* its middle, or the timer has seen it and is about to report it.
DueIsNew ==
  due = 1 =>
    \/ pos + (2 * period_size - 1) = Seen + lag
    \/ pos >= Base + period_size /\ pos <= Base + period_size + lag
    \/ tf = "armed" /\ Elapsed /\ Early(tfPos)
    \/ tf = "elapsed" /\ Early(tfPos)

Counted ==
  ~SMP /\ ~OtherCard =>
    /\ due \in {0, 1}
    /\ alsa \in {"prepared", "running", "suspended"} => buffer_pos = Base
    /\ alsa \in {"running", "suspended"} =>
         /\ lag <= period_size \div 4
         /\ Ahead
         /\ DueIsNew

PcmInv2 == PcmInv /\ Counted
-------------------------------------------------------------------------------
(* What every step keeps. *)

\* The inequalities that the types of the constants give.
LEMMA Sizes ==
  ASSUME NEW p \in PeriodSizes
  PROVE  /\ p \in Nat /\ 4 <= p /\ p <= MaxPeriod
         /\ p \div 4 \in Nat /\ 1 <= p \div 4 /\ 4 * (p \div 4) <= p
         /\ MaxPeriod \in Nat
<1>1. p \in 4..MaxPeriod /\ MaxPeriod \in Nat
  BY PeriodAssumption
<1>2. p \in Nat /\ 4 <= p /\ p <= MaxPeriod
  BY <1>1
<1> QED BY <1>1, <1>2

LEMMA PcmInit == Init => PcmInv2
<1> SUFFICES ASSUME Init PROVE PcmInv2
  OBVIOUS
<1>1. 0 \in Addrs /\ MaxPeriod \in Nat
  BY PeriodAssumption DEF Addrs, Base, Periods
<1>2. TypeOK
  BY <1>1 DEF Init, TypeOK, AlsaStates
<1>3. RingSet /\ Loose /\ IntInRing /\ Alone
  BY DEF Init, RingSet, Loose, IntInRing, Alone, WithRing
<1>4. Counted
  BY DEF Init, Counted
<1> QED BY <1>2, <1>3, <1>4 DEF PcmInv, PcmInv2

\* The timer, the stream and its struct.
LEMMA AloneStep == PcmInv /\ [Next]_vars => Alone'
<1> SUFFICES ASSUME PcmInv, [Next]_vars PROVE Alone'
  OBVIOUS
<1> USE DEF timerVars, structVars, ringVars, bhVars, histVars
<1>0. TypeOK /\ RingSet /\ Loose /\ IntInRing /\ Alone
  BY DEF PcmInv
<1>1. ASSUME Open PROVE Alone'
  BY <1>0, <1>1 DEF Open, Alone, TypeOK, ProcessMayRun, TimerMayRun, BhMayRun, LockFree
<1>2. ASSUME NEW p \in PeriodSizes, NEW ok \in BOOLEAN, HwParams(p, ok) PROVE Alone'
  BY <1>0, <1>2 DEF HwParams, SetRing, Alone, TypeOK, ProcessMayRun, TimerMayRun, BhMayRun, LockFree
<1>3. ASSUME HwFree PROVE Alone'
  BY <1>0, <1>3 DEF HwFree, Alone, TypeOK, ProcessMayRun, TimerMayRun, BhMayRun, LockFree
<1>4. ASSUME Prepare PROVE Alone'
  BY <1>0, <1>4 DEF Prepare, SetRing, Alone, TypeOK, ProcessMayRun, TimerMayRun, BhMayRun, LockFree
<1>5. ASSUME Start PROVE Alone'
  BY <1>0, <1>5 DEF Start, AddTimer, Alone, TypeOK, ProcessMayRun, TimerMayRun, BhMayRun, LockFree
<1>6. ASSUME Resume PROVE Alone'
  BY <1>0, <1>6 DEF Resume, AddTimer, Alone, TypeOK, ProcessMayRun, TimerMayRun, BhMayRun, LockFree
<1>7. ASSUME StopByUser PROVE Alone'
  <2>1. /\ alsa = "running" /\ (SMP \/ tf = "idle")
        /\ alsa' \in {"setup", "suspended"} /\ pending' = FALSE
        /\ UNCHANGED <<alive, tf, bug>>
    BY <1>7 DEF StopByUser, Stop, ProcessMayRun
  <2> QED BY <1>0, <2>1 DEF Alone, TypeOK
<1>8. ASSUME Close PROVE Alone'
  BY <1>0, <1>8 DEF Close, Alone, TypeOK, ProcessMayRun, TimerMayRun, BhMayRun, LockFree
<1>9. ASSUME TimerExpires PROVE Alone'
  BY <1>0, <1>9 DEF TimerExpires, Alone, TypeOK, ProcessMayRun, TimerMayRun, BhMayRun, LockFree
<1>10. ASSUME TimerArm PROVE Alone'
  BY <1>0, <1>10 DEF TimerArm, AddTimer, Alone, TypeOK, ProcessMayRun, TimerMayRun, BhMayRun, LockFree
<1>11. ASSUME TimerCheck PROVE Alone'
  BY <1>0, <1>11 DEF TimerCheck, Alone, TypeOK, ProcessMayRun, TimerMayRun, BhMayRun, LockFree
<1>12. ASSUME TimerReports PROVE Alone'
  BY <1>0, <1>12 DEF TimerReports, Alone, TypeOK, ProcessMayRun, TimerMayRun, BhMayRun, LockFree
<1>13. ASSUME TimerXrun PROVE Alone'
  BY <1>0, <1>13 DEF TimerXrun, Stop, Alone, TypeOK, ProcessMayRun, TimerMayRun, BhMayRun, LockFree
<1>14. ASSUME TimerLast PROVE Alone'
  BY <1>0, <1>14 DEF TimerLast, Alone, TypeOK, ProcessMayRun, TimerMayRun, BhMayRun, LockFree
<1>15. ASSUME BhRead PROVE Alone'
  BY <1>0, <1>15 DEF BhRead, Alone, TypeOK, ProcessMayRun, TimerMayRun, BhMayRun, LockFree
<1>16. ASSUME BhWrite PROVE Alone'
  BY <1>0, <1>16 DEF BhWrite, Alone, TypeOK, ProcessMayRun, TimerMayRun, BhMayRun, LockFree
<1>17. ASSUME Play PROVE Alone'
  BY <1>0, <1>17 DEF Play, Alone, TypeOK, ProcessMayRun, TimerMayRun, BhMayRun, LockFree
<1>18. ASSUME UNCHANGED vars PROVE Alone'
  BY <1>0, <1>18 DEF vars, Alone, TypeOK, ProcessMayRun, TimerMayRun, BhMayRun, LockFree
<1> QED BY <1>1, <1>2, <1>3, <1>4, <1>5, <1>6, <1>7, <1>8, <1>9, <1>10, <1>11, <1>12, <1>13, <1>14, <1>15, <1>16, <1>17, <1>18 DEF Next, TimerStep

\* The ring's registers.
LEMMA RingStep == PcmInv /\ [Next]_vars => (RingSet' /\ Loose')
<1> SUFFICES ASSUME PcmInv, [Next]_vars PROVE (RingSet' /\ Loose')
  OBVIOUS
<1> USE DEF timerVars, structVars, ringVars, bhVars, histVars
<1>0. TypeOK /\ RingSet /\ Loose /\ IntInRing /\ Alone
  BY DEF PcmInv
<1>20. \A p \in PeriodSizes : p \in Nat /\ 4 <= p /\ p <= MaxPeriod /\ MaxPeriod \in Nat
  BY Sizes
<1>1. ASSUME Open PROVE (RingSet' /\ Loose')
  BY <1>0, <1>20, <1>1 DEF Open, RingSet, Loose, TypeOK, WithRing, Addrs, Base, Periods
<1>2. ASSUME NEW p \in PeriodSizes, NEW ok \in BOOLEAN, HwParams(p, ok) PROVE (RingSet' /\ Loose')
  BY <1>0, <1>20, <1>2 DEF HwParams, SetRing, RingSet, Loose, TypeOK, WithRing, Addrs, Base, Periods
<1>3. ASSUME HwFree PROVE (RingSet' /\ Loose')
  BY <1>0, <1>20, <1>3 DEF HwFree, RingSet, Loose, TypeOK, WithRing, Addrs, Base, Periods
<1>4. ASSUME Prepare PROVE (RingSet' /\ Loose')
  BY <1>0, <1>20, <1>4 DEF Prepare, SetRing, RingSet, Loose, TypeOK, WithRing, Addrs, Base, Periods
<1>5. ASSUME Start PROVE (RingSet' /\ Loose')
  BY <1>0, <1>20, <1>5 DEF Start, AddTimer, RingSet, Loose, TypeOK, WithRing, Addrs, Base, Periods
<1>6. ASSUME Resume PROVE (RingSet' /\ Loose')
  BY <1>0, <1>20, <1>6 DEF Resume, AddTimer, RingSet, Loose, TypeOK, WithRing, Addrs, Base, Periods
<1>7. ASSUME StopByUser PROVE (RingSet' /\ Loose')
  BY <1>0, <1>20, <1>7 DEF StopByUser, Stop, RingSet, Loose, TypeOK, WithRing, Addrs, Base, Periods
<1>8. ASSUME Close PROVE (RingSet' /\ Loose')
  BY <1>0, <1>20, <1>8 DEF Close, RingSet, Loose, TypeOK, WithRing, Addrs, Base, Periods
<1>9. ASSUME TimerExpires PROVE (RingSet' /\ Loose')
  BY <1>0, <1>20, <1>9 DEF TimerExpires, RingSet, Loose, TypeOK, WithRing, Addrs, Base, Periods
<1>10. ASSUME TimerArm PROVE (RingSet' /\ Loose')
  BY <1>0, <1>20, <1>10 DEF TimerArm, AddTimer, RingSet, Loose, TypeOK, WithRing, Addrs, Base, Periods
<1>11. ASSUME TimerCheck PROVE (RingSet' /\ Loose')
  BY <1>0, <1>20, <1>11 DEF TimerCheck, RingSet, Loose, TypeOK, WithRing, Addrs, Base, Periods
<1>12. ASSUME TimerReports PROVE (RingSet' /\ Loose')
  BY <1>0, <1>20, <1>12 DEF TimerReports, RingSet, Loose, TypeOK, WithRing, Addrs, Base, Periods
<1>13. ASSUME TimerXrun PROVE (RingSet' /\ Loose')
  BY <1>0, <1>20, <1>13 DEF TimerXrun, Stop, RingSet, Loose, TypeOK, WithRing, Addrs, Base, Periods
<1>14. ASSUME TimerLast PROVE (RingSet' /\ Loose')
  BY <1>0, <1>20, <1>14 DEF TimerLast, RingSet, Loose, TypeOK, WithRing, Addrs, Base, Periods
<1>15. ASSUME BhRead PROVE (RingSet' /\ Loose')
  BY <1>0, <1>20, <1>15 DEF BhRead, RingSet, Loose, TypeOK, WithRing, Addrs, Base, Periods
<1>16. ASSUME BhWrite PROVE (RingSet' /\ Loose')
  BY <1>0, <1>20, <1>16 DEF BhWrite, RingSet, Loose, TypeOK, WithRing, Addrs, Base, Periods
<1>17. ASSUME Play PROVE (RingSet' /\ Loose')
  BY <1>0, <1>20, <1>17 DEF Play, RingSet, Loose, TypeOK, WithRing, Addrs, Base, Periods
<1>18. ASSUME UNCHANGED vars PROVE (RingSet' /\ Loose')
  BY <1>0, <1>20, <1>18 DEF vars, RingSet, Loose, TypeOK, WithRing, Addrs, Base, Periods
<1> QED BY <1>1, <1>2, <1>3, <1>4, <1>5, <1>6, <1>7, <1>8, <1>9, <1>10, <1>11, <1>12, <1>13, <1>14, <1>15, <1>16, <1>17, <1>18 DEF Next, TimerStep

\* The interrupt position.
LEMMA IntStep == PcmInv /\ [Next]_vars => IntInRing'
<1> SUFFICES ASSUME PcmInv, [Next]_vars PROVE IntInRing'
  OBVIOUS
<1> USE DEF timerVars, structVars, ringVars, bhVars, histVars
<1>0. TypeOK /\ RingSet /\ Loose /\ IntInRing /\ Alone
  BY DEF PcmInv
<1>20. \A p \in PeriodSizes : p \in Nat /\ 4 <= p /\ p <= MaxPeriod /\ MaxPeriod \in Nat
  BY Sizes
<1>1. ASSUME Open PROVE IntInRing'
  BY <1>0, <1>20, <1>1 DEF Open, IntInRing, Alone, RingSet, Loose, TypeOK, WithRing, Addrs, Base, Periods, NextInt, ProcessMayRun, TimerMayRun, BhMayRun
<1>2. ASSUME NEW p \in PeriodSizes, NEW ok \in BOOLEAN, HwParams(p, ok) PROVE IntInRing'
  BY <1>0, <1>20, <1>2 DEF HwParams, SetRing, IntInRing, Alone, RingSet, Loose, TypeOK, WithRing, Addrs, Base, Periods, NextInt, ProcessMayRun, TimerMayRun, BhMayRun
<1>3. ASSUME HwFree PROVE IntInRing'
  BY <1>0, <1>20, <1>3 DEF HwFree, IntInRing, Alone, RingSet, Loose, TypeOK, WithRing, Addrs, Base, Periods, NextInt, ProcessMayRun, TimerMayRun, BhMayRun
<1>4. ASSUME Prepare PROVE IntInRing'
  BY <1>0, <1>20, <1>4 DEF Prepare, SetRing, IntInRing, Alone, RingSet, Loose, TypeOK, WithRing, Addrs, Base, Periods, NextInt, ProcessMayRun, TimerMayRun, BhMayRun
<1>5. ASSUME Start PROVE IntInRing'
  BY <1>0, <1>20, <1>5 DEF Start, AddTimer, IntInRing, Alone, RingSet, Loose, TypeOK, WithRing, Addrs, Base, Periods, NextInt, ProcessMayRun, TimerMayRun, BhMayRun
<1>6. ASSUME Resume PROVE IntInRing'
  BY <1>0, <1>20, <1>6 DEF Resume, AddTimer, IntInRing, Alone, RingSet, Loose, TypeOK, WithRing, Addrs, Base, Periods, NextInt, ProcessMayRun, TimerMayRun, BhMayRun
<1>7. ASSUME StopByUser PROVE IntInRing'
  BY <1>0, <1>20, <1>7 DEF StopByUser, Stop, IntInRing, Alone, RingSet, Loose, TypeOK, WithRing, Addrs, Base, Periods, NextInt, ProcessMayRun, TimerMayRun, BhMayRun
<1>8. ASSUME Close PROVE IntInRing'
  BY <1>0, <1>20, <1>8 DEF Close, IntInRing, Alone, RingSet, Loose, TypeOK, WithRing, Addrs, Base, Periods, NextInt, ProcessMayRun, TimerMayRun, BhMayRun
<1>9. ASSUME TimerExpires PROVE IntInRing'
  BY <1>0, <1>20, <1>9 DEF TimerExpires, IntInRing, Alone, RingSet, Loose, TypeOK, WithRing, Addrs, Base, Periods, NextInt, ProcessMayRun, TimerMayRun, BhMayRun
<1>10. ASSUME TimerArm PROVE IntInRing'
  BY <1>0, <1>20, <1>10 DEF TimerArm, AddTimer, IntInRing, Alone, RingSet, Loose, TypeOK, WithRing, Addrs, Base, Periods, NextInt, ProcessMayRun, TimerMayRun, BhMayRun
<1>11. ASSUME TimerCheck PROVE IntInRing'
  BY <1>0, <1>20, <1>11 DEF TimerCheck, IntInRing, Alone, RingSet, Loose, TypeOK, WithRing, Addrs, Base, Periods, NextInt, ProcessMayRun, TimerMayRun, BhMayRun
<1>12. ASSUME TimerReports PROVE IntInRing'
  BY <1>0, <1>20, <1>12 DEF TimerReports, IntInRing, Alone, RingSet, Loose, TypeOK, WithRing, Addrs, Base, Periods, NextInt, ProcessMayRun, TimerMayRun, BhMayRun
<1>13. ASSUME TimerXrun PROVE IntInRing'
  BY <1>0, <1>20, <1>13 DEF TimerXrun, Stop, IntInRing, Alone, RingSet, Loose, TypeOK, WithRing, Addrs, Base, Periods, NextInt, ProcessMayRun, TimerMayRun, BhMayRun
<1>14. ASSUME TimerLast PROVE IntInRing'
  BY <1>0, <1>20, <1>14 DEF TimerLast, IntInRing, Alone, RingSet, Loose, TypeOK, WithRing, Addrs, Base, Periods, NextInt, ProcessMayRun, TimerMayRun, BhMayRun
<1>15. ASSUME BhRead PROVE IntInRing'
  BY <1>0, <1>20, <1>15 DEF BhRead, IntInRing, Alone, RingSet, Loose, TypeOK, WithRing, Addrs, Base, Periods, NextInt, ProcessMayRun, TimerMayRun, BhMayRun
<1>16. ASSUME BhWrite PROVE IntInRing'
  BY <1>0, <1>20, <1>16 DEF BhWrite, IntInRing, Alone, RingSet, Loose, TypeOK, WithRing, Addrs, Base, Periods, NextInt, ProcessMayRun, TimerMayRun, BhMayRun
<1>17. ASSUME Play PROVE IntInRing'
  BY <1>0, <1>20, <1>17 DEF Play, IntInRing, Alone, RingSet, Loose, TypeOK, WithRing, Addrs, Base, Periods, NextInt, ProcessMayRun, TimerMayRun, BhMayRun
<1>18. ASSUME UNCHANGED vars PROVE IntInRing'
  BY <1>0, <1>20, <1>18 DEF vars, IntInRing, Alone, RingSet, Loose, TypeOK, WithRing, Addrs, Base, Periods, NextInt, ProcessMayRun, TimerMayRun, BhMayRun
<1> QED BY <1>1, <1>2, <1>3, <1>4, <1>5, <1>6, <1>7, <1>8, <1>9, <1>10, <1>11, <1>12, <1>13, <1>14, <1>15, <1>16, <1>17, <1>18 DEF Next, TimerStep

\* The types.  An address is never beyond the longest ring.
LEMMA TypeStep == PcmInv /\ [Next]_vars => TypeOK'
<1> SUFFICES ASSUME PcmInv, [Next]_vars PROVE TypeOK'
  OBVIOUS
<1> USE DEF timerVars, structVars, ringVars, bhVars, histVars
<1>0. TypeOK /\ RingSet /\ Loose /\ IntInRing /\ Alone
  BY DEF PcmInv
<1>20. \A p \in PeriodSizes : p \in Nat /\ 4 <= p /\ p <= MaxPeriod /\ MaxPeriod \in Nat
  BY Sizes
<1>1. ASSUME Open PROVE TypeOK'
  <2>1. 0 \in Addrs
    BY PeriodAssumption DEF Addrs, Base, Periods
  <2> QED BY <1>0, <1>1, <2>1 DEF Open, TypeOK, AlsaStates
<1>2. ASSUME NEW p \in PeriodSizes, NEW ok \in BOOLEAN, HwParams(p, ok) PROVE TypeOK'
  BY <1>0, <1>20, <1>2 DEF HwParams, SetRing, TypeOK, AlsaStates, RingSet, Loose, WithRing, Addrs, Base, Periods
<1>3. ASSUME HwFree PROVE TypeOK'
  BY <1>0, <1>20, <1>3 DEF HwFree, TypeOK, AlsaStates
<1>4. ASSUME Prepare PROVE TypeOK'
  BY <1>0, <1>20, <1>4 DEF Prepare, SetRing, TypeOK, AlsaStates, RingSet, Loose, WithRing, Addrs, Base, Periods
<1>5. ASSUME Start PROVE TypeOK'
  BY <1>0, <1>20, <1>5 DEF Start, AddTimer, TypeOK, AlsaStates, RingSet, Loose, WithRing, Addrs, Base, Periods
<1>6. ASSUME Resume PROVE TypeOK'
  BY <1>0, <1>20, <1>6 DEF Resume, AddTimer, TypeOK, AlsaStates
<1>7. ASSUME StopByUser PROVE TypeOK'
  BY <1>0, <1>20, <1>7 DEF StopByUser, Stop, TypeOK, AlsaStates
<1>8. ASSUME Close PROVE TypeOK'
  BY <1>0, <1>20, <1>8 DEF Close, TypeOK, AlsaStates
<1>9. ASSUME TimerExpires PROVE TypeOK'
  BY <1>0, <1>20, <1>9 DEF TimerExpires, TypeOK, AlsaStates
<1>10. ASSUME TimerArm PROVE TypeOK'
  BY <1>0, <1>20, <1>10 DEF TimerArm, AddTimer, TypeOK, AlsaStates
<1>11. ASSUME TimerCheck PROVE TypeOK'
  BY <1>0, <1>20, <1>11 DEF TimerCheck, NextInt, NextBufferPos, TypeOK, AlsaStates, RingSet, Loose, WithRing, Addrs, Base, Periods
<1>12. ASSUME TimerReports PROVE TypeOK'
  BY <1>0, <1>20, <1>12 DEF TimerReports, TypeOK, AlsaStates
<1>13. ASSUME TimerXrun PROVE TypeOK'
  BY <1>0, <1>20, <1>13 DEF TimerXrun, Stop, TypeOK, AlsaStates
<1>14. ASSUME TimerLast PROVE TypeOK'
  BY <1>0, <1>20, <1>14 DEF TimerLast, TypeOK, AlsaStates
<1>15. ASSUME BhRead PROVE TypeOK'
  BY <1>0, <1>20, <1>15 DEF BhRead, TypeOK, AlsaStates
<1>16. ASSUME BhWrite PROVE TypeOK'
  <2>1. \A x, y \in Addrs : (x + y) \div 2 \in Addrs
    BY PeriodAssumption DEF Addrs, Base, Periods
  <2>2. start \in Addrs /\ end \in Addrs
    BY <1>0 DEF TypeOK
  <2>3. intPos' \in Addrs
    BY <1>16, <2>1, <2>2 DEF BhWrite
  <2> QED BY <1>0, <1>16, <2>3 DEF BhWrite, TypeOK
<1>17. ASSUME Play PROVE TypeOK'
  BY <1>0, <1>20, <1>17 DEF Play, TypeOK, AlsaStates, RingSet, Loose, WithRing, Addrs, Base, Periods
<1>18. ASSUME UNCHANGED vars PROVE TypeOK'
  BY <1>0, <1>18 DEF vars, TypeOK
<1> QED BY <1>1, <1>2, <1>3, <1>4, <1>5, <1>6, <1>7, <1>8, <1>9, <1>10, <1>11, <1>12, <1>13, <1>14, <1>15, <1>16, <1>17, <1>18 DEF Next, TimerStep

LEMMA PcmInvStep == PcmInv /\ [Next]_vars => PcmInv'
BY AloneStep, RingStep, IntStep, TypeStep DEF PcmInv

-------------------------------------------------------------------------------
(* Periods, on one processor and with one card. *)

\* A quotient below two.
LEMMA Halves ==
  ASSUME NEW n \in Nat, NEW p \in Nat \ {0}, n < 2 * p
  PROVE  n \div p = IF n < p THEN 0 ELSE 1
<1>1. n = p * (n \div p) + (n % p) /\ n % p \in 0..(p - 1) /\ n \div p \in Nat
  OBVIOUS
<1>2. PICK q \in Nat : q = n \div p /\ p * q <= n /\ n < p * q + p
  BY <1>1
<1>3. q >= 2 => p * q >= 2 * p
  BY SMT
<1>4. q = 0 => p * q = 0
  BY SMT
<1>5. q = 1 => p * q = p
  BY SMT
<1>6. q \in {0, 1}
  BY <1>2, <1>3
<1> QED BY <1>2, <1>4, <1>5, <1>6

\* The period of a position in the ring.
LEMMA PeriodOf ==
  ASSUME NEW a \in Int, period_size \in PeriodSizes, start = Base,
         Base <= a, a <= Base + period_size * Periods - 2
  PROVE  Period(a) = IF a < Base + period_size THEN 0 ELSE 1
<1>1. period_size \in Nat \ {0} /\ a - start \in Nat /\ a - start < 2 * period_size
  BY Sizes DEF Base, Periods
<1>2. (a - start) \div period_size = IF a - start < period_size THEN 0 ELSE 1
  BY <1>1, Halves
<1>3. a - start < period_size <=> a < Base + period_size
  BY <1>1 DEF Base
<1> QED BY <1>2, <1>3 DEF Period

\* What the invariant says of a substream that runs or is suspended.
Count ==
  /\ due \in {0, 1}
  /\ alsa \in {"prepared", "running", "suspended"} => buffer_pos = Base
  /\ alsa \in {"running", "suspended"} => lag <= period_size \div 4 /\ Ahead /\ DueIsNew

LEMMA CountedStep == PcmInv2 /\ [Next]_vars => Counted'
<1> SUFFICES ASSUME PcmInv2, [Next]_vars, ~SMP, ~OtherCard PROVE Count'
  BY DEF Counted, Count
<1> USE DEF timerVars, structVars, ringVars, bhVars, histVars
<1>0. TypeOK /\ RingSet /\ Loose /\ Alone /\ Count
  BY DEF PcmInv, PcmInv2, Counted, Count
<1>20. alsa \in {"prepared", "running", "suspended"} =>
        /\ period_size \in Nat /\ 4 <= period_size
        /\ period_size \div 4 \in Nat /\ 1 <= period_size \div 4
        /\ 4 * (period_size \div 4) <= period_size
        /\ start = Base /\ end = Base + period_size * Periods - 2 /\ pos \in Base..end
  BY <1>0, Sizes DEF RingSet, WithRing
<1>21. {tfPos, tfInt, buffer_pos, start, end, pos, intPos, last, bhInt, lag, due} \subseteq Nat
  <2>1. Addrs \subseteq Nat
    BY DEF Addrs
  <2> QED BY <1>0, <2>1 DEF TypeOK
<1>1. ASSUME Open PROVE Count'
  BY <1>0, <1>1 DEF Open, Count
<1>2. ASSUME NEW p \in PeriodSizes, NEW ok \in BOOLEAN, HwParams(p, ok) PROVE Count'
  BY <1>0, <1>2 DEF HwParams, Count
<1>3. ASSUME HwFree PROVE Count'
  BY <1>0, <1>3 DEF HwFree, Count
<1>4. ASSUME Prepare PROVE Count'
  BY <1>0, <1>4 DEF Prepare, Count
<1>5. ASSUME Close PROVE Count'
  BY <1>0, <1>5 DEF Close, Count
<1>6. ASSUME Start PROVE Count'
  BY <1>0, <1>20, <1>21, <1>6 DEF Start, ProcessMayRun, Count, Ahead, DueIsNew, Seen, Elapsed, Early, Base
<1>7. ASSUME Resume PROVE Count'
  BY <1>0, <1>7 DEF Resume, ProcessMayRun, Count, Ahead, DueIsNew, Seen, Elapsed, Early, Alone
<1>8. ASSUME StopByUser PROVE Count'
  <2>1. /\ alsa = "running" /\ tf = "idle" /\ alsa' \in {"setup", "suspended"}
        /\ UNCHANGED <<tf, alive, tfPos, tfInt, bug, last, structVars, ringVars, pos, bhVars, histVars>>
    BY <1>8 DEF StopByUser, Stop, ProcessMayRun
  <2> QED BY <1>0, <2>1 DEF Count, Ahead, DueIsNew, Seen, Elapsed, Early
<1>9. ASSUME TimerExpires PROVE Count'
  BY <1>0, <1>9 DEF TimerExpires, Count, Ahead, DueIsNew, Seen, Elapsed, Early
<1>10. ASSUME TimerArm PROVE Count'
  BY <1>0, <1>20, <1>21, <1>10 DEF TimerArm, TimerMayRun, Count, Ahead, DueIsNew, Seen, Elapsed, Early, Alone, Base, Periods
<1>11. ASSUME TimerCheck PROVE Count'
  BY <1>0, <1>20, <1>21, <1>11 DEF TimerCheck, TimerMayRun, NextBufferPos, Count, Ahead, DueIsNew, Seen, Elapsed, Early, Alone, Base, Periods
<1>12. ASSUME TimerReports PROVE Count'
  BY <1>0, <1>12 DEF TimerReports, Count, Ahead, DueIsNew, Seen, Elapsed, Early, Alone
<1>13. ASSUME TimerXrun PROVE Count'
  BY <1>0, <1>13 DEF TimerXrun, Stop, Count
<1>14. ASSUME TimerLast PROVE Count'
  BY <1>0, <1>14 DEF TimerLast, Count, Ahead, DueIsNew, Seen, Elapsed, Early, Alone
<1>15. ASSUME BhRead PROVE Count'
  BY <1>0, <1>15 DEF BhRead, Count, Ahead, DueIsNew, Seen, Elapsed, Early
<1>16. ASSUME BhWrite PROVE Count'
  BY <1>0, <1>16 DEF BhWrite, Count, Ahead, DueIsNew, Seen, Elapsed, Early
<1>17. ASSUME Play PROVE Count'
  <2> DEFINE p == period_size
             q == period_size \div 4
  <2>1. /\ alsa = "running" /\ alsa' = "running" /\ lag < q /\ lag' = lag + 1
        /\ pos' = IF pos >= end THEN start ELSE pos + 1
        /\ due' = IF Period(pos') # Period(pos) THEN due + 1 ELSE due
        /\ UNCHANGED <<tf, tfPos, last, buffer_pos, period_size, start, end>>
    BY <1>17 DEF Play
  <2>2. /\ p \in Nat /\ 4 <= p /\ q \in Nat /\ 1 <= q /\ 4 * q <= p
        /\ start = Base /\ Base = 1 /\ end = Base + 2 * p - 2
        /\ pos \in Nat /\ Base <= pos /\ pos <= end /\ p \in PeriodSizes
    BY <1>0, <1>20, <2>1 DEF Base, Periods, RingSet, WithRing
  <2>3. /\ lag \in Nat /\ due \in {0, 1} /\ buffer_pos = Base /\ Ahead /\ DueIsNew
        /\ tfPos \in Nat /\ last \in Nat /\ Seen \in Nat
    BY <1>0, <1>21, <2>1 DEF Count, Seen
  <2>4. pos' \in Nat /\ Base <= pos' /\ pos' <= end /\ Seen' = Seen
    BY <2>1, <2>2 DEF Seen
  <2>5. /\ Period(pos) = IF pos < Base + p THEN 0 ELSE 1
        /\ Period(pos') = IF pos' < Base + p THEN 0 ELSE 1
    <3>1. end = Base + period_size * Periods - 2
      BY <2>2 DEF Periods
    <3> QED BY <2>2, <2>4, <3>1, PeriodOf
  <2>6. due' = IF pos >= end \/ pos = Base + p - 1 THEN due + 1 ELSE due
    BY <2>1, <2>2, <2>5
  <2>7. due = 1 => pos < end /\ pos # Base + p - 1
    <3>1. ASSUME due = 1, pos + (2 * p - 1) = Seen + lag PROVE pos < end /\ pos # Base + p - 1
      BY <2>1, <2>2, <2>3, <3>1 DEF Ahead
    <3>2. ASSUME due = 1, pos >= Base + p, pos <= Base + p + lag
          PROVE  pos < end /\ pos # Base + p - 1
      BY <2>1, <2>2, <2>3, <3>2
    <3>3. ASSUME due = 1, tf \in {"armed", "elapsed"}, Early(tfPos)
          PROVE  pos < end /\ pos # Base + p - 1
      <4>1. Seen = tfPos
        BY <3>3 DEF Seen
      <4>2. pos = tfPos + lag
        BY <2>1, <2>2, <2>3, <3>3, <4>1 DEF Ahead, Early
      <4> QED BY <2>1, <2>2, <2>3, <3>3, <4>2 DEF Early
    <3> QED BY <2>3, <3>1, <3>2, <3>3 DEF DueIsNew
  <2>8. due' \in {0, 1}
    BY <2>2, <2>3, <2>6, <2>7
  <2>9. Ahead'
    <3>1. CASE Seen \in Base..end /\ pos = Seen + lag
      BY <2>1, <2>2, <2>3, <2>4, <3>1 DEF Ahead
    <3>2. CASE Seen \in Base..end /\ pos + (2 * p - 1) = Seen + lag
      BY <2>1, <2>2, <2>3, <2>4, <3>2 DEF Ahead
    <3>3. CASE tf \in {"idle", "called"} /\ pos = Base + lag /\ due = 0
      BY <2>1, <2>2, <2>3, <2>4, <2>6, <3>3 DEF Ahead
    <3> QED BY <2>3, <3>1, <3>2, <3>3 DEF Ahead
  <2>10. DueIsNew'
    <3>1. CASE due = 0 /\ pos = Base + p - 1
      BY <2>1, <2>2, <2>3, <3>1 DEF DueIsNew
    <3>2. CASE due = 0 /\ pos >= end
      <4>1. pos = Seen + lag
        BY <2>1, <2>2, <2>3, <3>2 DEF Ahead
      <4> QED BY <2>1, <2>2, <2>3, <2>4, <3>2, <4>1 DEF DueIsNew
    <3>3. CASE due = 0 /\ pos < end /\ pos # Base + p - 1
      BY <2>2, <2>6, <3>3 DEF DueIsNew
    <3>4. CASE due = 1
      <4>1. pos' = pos + 1 /\ due' = 1
        BY <2>1, <2>2, <2>6, <2>7, <3>4
      <4>2. Elapsed' <=> Elapsed
        BY <2>1 DEF Elapsed
      <4>3. Early(tfPos)' <=> Early(tfPos)
        BY <2>1 DEF Early
      <4> QED BY <2>1, <2>2, <2>3, <2>4, <3>4, <4>1, <4>2, <4>3 DEF DueIsNew
    <3> QED BY <2>2, <2>3, <3>1, <3>2, <3>3, <3>4
  <2> QED BY <2>1, <2>2, <2>3, <2>8, <2>9, <2>10 DEF Count
<1>18. ASSUME UNCHANGED vars PROVE Count'
  BY <1>0, <1>18 DEF vars, Count, Ahead, DueIsNew, Seen, Elapsed, Early
<1> QED BY <1>1, <1>2, <1>3, <1>4, <1>5, <1>6, <1>7, <1>8, <1>9, <1>10, <1>11, <1>12, <1>13, <1>14, <1>15, <1>16, <1>17, <1>18 DEF Next, TimerStep

-------------------------------------------------------------------------------
(* Theorems. *)

\* Every register, position and counter of a substream has its type: no address the
\* driver computes leaves the ring of the longest period (hw_params 368-383, prepare
\* 212-216, timer function 264-274).
THEOREM PcmTypeCorrect == Spec => []TypeOK
<1>1. PcmInv /\ [Next]_vars => PcmInv'
  BY PcmInvStep
<1>2. Init => PcmInv
  BY PcmInit DEF PcmInv2
<1>3. PcmInv => TypeOK
  BY DEF PcmInv
<1> QED BY <1>1, <1>2, <1>3, PTL DEF Spec

\* On one processor add_timer never meets a pending timer, the timer is queued exactly
\* while the substream runs, and nothing runs once its struct is freed (trigger 157-182,
\* timer function 241-244).
THEOREM TimerFollows == Spec => []TimerFollowsStream
<1>1. PcmInv /\ [Next]_vars => PcmInv'
  BY PcmInvStep
<1>2. Init => PcmInv
  BY PcmInit DEF PcmInv2
<1>3. PcmInv => TimerFollowsStream
  BY DEF PcmInv, TypeOK, Alone, TimerFollowsStream, NoUseAfterFree
<1> QED BY <1>1, <1>2, <1>3, PTL DEF Spec

\* The playback position is in the ring at all times, on one processor the interrupt
\* position too, whoever of the timer and the bottom half has moved it (timer function
\* 264-268, tl880_ntsc_audio_dpc 336-348, pointer 297).
THEOREM RingPositionsKept == Spec => []RingKept
<1>1. PcmInv /\ [Next]_vars => PcmInv'
  BY PcmInvStep
<1>2. Init => PcmInv
  BY PcmInit DEF PcmInv2
<1>3. PcmInv => RingKept
  <2> SUFFICES ASSUME PcmInv PROVE RingKept
    OBVIOUS
  <2>1. RingSet /\ IntInRing
    BY DEF PcmInv
  <2>2. ASSUME ~SMP, alsa = "running" PROVE intPos \in start..(end + 1)
    BY <2>1, <2>2 DEF IntInRing, WithRing
  <2>3. ASSUME alsa \in {"prepared", "running", "xrun"}
        PROVE  pos - Base \in 0..(period_size * Periods - 1)
    <3>1. /\ period_size \in PeriodSizes
          /\ end = Base + period_size * Periods - 2 /\ pos \in Base..end
      BY <2>1, <2>3 DEF RingSet, WithRing
    <3> QED BY <3>1, Sizes DEF Base, Periods
  <2> QED BY <2>2, <2>3 DEF RingKept
<1> QED BY <1>1, <1>2, <1>3, PTL DEF Spec

\* On one processor, and with no other card, a period that has elapsed is reported to
\* ALSA before the next one elapses: the timer sees every one of them, also the one that
\* ends with the ring, where the position goes back (timer function 252 and 276-282).
THEOREM NoPeriodLost == Spec => []NoLostPeriod
<1>1. PcmInv2 /\ [Next]_vars => PcmInv2'
  BY PcmInvStep, CountedStep DEF PcmInv2
<1>2. PcmInv2 => NoLostPeriod
  BY DEF PcmInv2, Counted, NoLostPeriod
<1> QED BY <1>1, <1>2, PcmInit, PTL DEF Spec

===============================================================================

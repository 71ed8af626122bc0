---------------------------- MODULE TL880AudioProofs ----------------------------
(***************************************************************************)
(* Proofs about the audio unit, for any cards, modes and buffers, about    *)
(* the samples in card memory, for any memory and ring, and about the list *)
(* of functions that the audio interrupt calls, for any memory, functions  *)
(* and processes.                                                          *)
(***************************************************************************)
EXTENDS TL880Audio, TL880Copy, TL880Callbacks,
        SequenceTheorems, FiniteSetTheorems, WellFoundedInduction, TLAPS

Zeroed   == iau = [m \in {0, 1} |-> Zeros]
Whole(b) == <<b, b + BufferLen - 1, b>>

(* Whoever holds the buffer's address holds it alone: registers that are not   *)
(* zero are those of the mode the struct names, and name its buffer.           *)
Registers ==
  /\ iau \in [{0, 1} -> {Zeros, Whole(iau_base)}]
  /\ \A m \in {0, 1} : iau[m] # Zeros => m = iau_regs /\ iau_base # 0
  /\ lent = {iau_base} \ {0}

(* Two lines that make a rate: the one that names it, then the other.          *)
IsPair(x, y) ==
  /\ x.do = "line" /\ x.hz \in Rates /\ y.do = "line" /\ y.hz = 0
  /\ \/ x.line = 8 /\ y.line = 9 /\ RatePair(x.hz) = <<x.to, y.to>>
     \/ x.line = 9 /\ y.line = 8 /\ RatePair(x.hz) = <<y.to, x.to>>

Half(x) == x.do = "line" /\ x.hz = 0

(* What every list of steps keeps to, from its first step.                     *)
WellOrdered(j) ==
  \A i \in 1..Len(j) :
    /\ j[i].do = "free" => i > 1 /\ j[i - 1].do = "zero"
    /\ j[i].do = "iau"  => /\ i > 3 /\ j[i - 1].do = "init_ioc"
                           /\ j[i - 2].do = "kmalloc" /\ j[i - 3].do = "alloc"
    /\ j[i].do = "line" /\ j[i].hz # 0 => i < Len(j) /\ IsPair(j[i], j[i + 1])
    /\ Half(j[i]) => i > 1 /\ j[i - 1].do = "line" /\ j[i - 1].hz # 0

(* ... and what is left of one, with what the steps before have made sure of.   *)
JobPlaces ==
  \A i \in 1..Len(job) :
    /\ job[i].do = "free" => IF i = 1 THEN Zeroed ELSE job[i - 1].do = "zero"
    /\ job[i].do = "iau"  => /\ IF i = 1 THEN Zeroed ELSE job[i - 1].do = "init_ioc"
                             /\ i > 2 => job[i - 2].do = "kmalloc"
                             /\ IF i > 3 THEN job[i - 3].do = "alloc" ELSE iau_base # 0
    /\ job[i].do = "line" /\ job[i].hz # 0 => i < Len(job) /\ IsPair(job[i], job[i + 1])
    /\ Half(job[i]) => i = 1 \/ (job[i - 1].do = "line" /\ job[i - 1].hz # 0)

(* The lines stand for the rate, but for the half that is still to be set.     *)
RateSet ==
  kind = "MDP100" /\ rate # 0 =>
    IF job # <<>> /\ Half(job[1])
      THEN \/ job[1].line = 9 /\ RatePair(rate) = <<level[8], job[1].to>>
           \/ job[1].line = 8 /\ RatePair(rate) = <<job[1].to, level[9]>>
      ELSE RatePair(rate) = <<level[8], level[9]>>

MatrixSet ==
  life = "in" /\ mixed = "driver" =>
    mixer = NtscMatrix \/ \E i \in 1..Len(job) : job[i].do = "ntsc"

RemoveNames == <<"disable_apu", "init_ioc", "init_ioc", "zero", "free", "kfree">>

(* A removal is at one of its six steps, or done.                              *)
Removing ==
  life = "out" =>
    /\ Len(job) <= 6
    /\ \A i \in 1..Len(job) : job[i].do = RemoveNames[6 - Len(job) + i]
    /\ Len(job) <= 5 => ctl = "off"
    /\ Len(job) <= 1 => iau_base = 0
    /\ Len(job) = 0  => iec_buf = "null"

AudioInv == AudioTypeOK /\ Registers /\ JobPlaces /\ RateSet /\ MatrixSet /\ Removing

-------------------------------------------------------------------------------
(* Lists of steps.                                                            *)

LEMMA ListRest ==
  ASSUME NEW j \in Seq(Steps), j # <<>>
  PROVE  /\ Head(j) = j[1] /\ j[1] \in Steps /\ Len(j) \in Nat \ {0}
         /\ Tail(j) \in Seq(Steps) /\ Len(Tail(j)) = Len(j) - 1
         /\ \A i \in 1..Len(Tail(j)) : Tail(j)[i] = j[i + 1]
  OBVIOUS

LEMMA ListsJoined ==
  ASSUME NEW s \in Seq(Steps), NEW t \in Seq(Steps)
  PROVE  /\ s \o t \in Seq(Steps) /\ Len(s \o t) = Len(s) + Len(t)
         /\ \A i \in 1..Len(s) : (s \o t)[i] = s[i]
         /\ \A i \in 1..Len(t) : (s \o t)[Len(s) + i] = t[i]
<1>1. \A i \in 1..(Len(s) + Len(t)) :
        (s \o t)[i] = IF i <= Len(s) THEN s[i] ELSE t[i - Len(s)]
  BY ConcatProperties
<1>2. Len(s) \in Nat /\ Len(t) \in Nat
  OBVIOUS
<1>3. s \o t \in Seq(Steps) /\ Len(s \o t) = Len(s) + Len(t)
  BY ConcatProperties
<1> QED BY <1>1, <1>2, <1>3

(* Two well-ordered lists, one after the other, make a third.                  *)
LEMMA WellOrderedJoined ==
  ASSUME NEW s \in Seq(Steps), NEW t \in Seq(Steps), WellOrdered(s), WellOrdered(t)
  PROVE  WellOrdered(s \o t) /\ s \o t \in Seq(Steps)
<1>1. /\ s \o t \in Seq(Steps) /\ Len(s \o t) = Len(s) + Len(t)
      /\ \A i \in 1..Len(s) : (s \o t)[i] = s[i]
      /\ \A i \in 1..Len(t) : (s \o t)[Len(s) + i] = t[i]
      /\ Len(s) \in Nat /\ Len(t) \in Nat
  BY ListsJoined
<1> DEFINE j == s \o t
<1>2. ASSUME NEW i \in 1..Len(s)
      PROVE  /\ j[i].do = "free" => i > 1 /\ j[i - 1].do = "zero"
             /\ j[i].do = "iau"  => /\ i > 3 /\ j[i - 1].do = "init_ioc"
                                    /\ j[i - 2].do = "kmalloc" /\ j[i - 3].do = "alloc"
             /\ j[i].do = "line" /\ j[i].hz # 0 => i < Len(j) /\ IsPair(j[i], j[i + 1])
             /\ Half(j[i]) => i > 1 /\ j[i - 1].do = "line" /\ j[i - 1].hz # 0
  <2>1. /\ j[i] = s[i]
        /\ i > 1 => j[i - 1] = s[i - 1]
        /\ i > 3 => j[i - 2] = s[i - 2] /\ j[i - 3] = s[i - 3]
        /\ i < Len(s) => j[i + 1] = s[i + 1]
        /\ Len(j) >= Len(s)
    BY <1>1
  <2> HIDE DEF j
  <2> QED BY <1>1, <2>1 DEF WellOrdered
<1>3. ASSUME NEW i \in 1..Len(t)
      PROVE  LET k == Len(s) + i IN
             /\ j[k].do = "free" => k > 1 /\ j[k - 1].do = "zero"
             /\ j[k].do = "iau"  => /\ k > 3 /\ j[k - 1].do = "init_ioc"
                                    /\ j[k - 2].do = "kmalloc" /\ j[k - 3].do = "alloc"
             /\ j[k].do = "line" /\ j[k].hz # 0 => k < Len(j) /\ IsPair(j[k], j[k + 1])
             /\ Half(j[k]) => k > 1 /\ j[k - 1].do = "line" /\ j[k - 1].hz # 0
  <2>0. PICK k : k = Len(s) + i
    OBVIOUS
  <2>1. /\ j[k] = t[i]
        /\ i > 1 => j[k - 1] = t[i - 1]
        /\ i > 3 => j[k - 2] = t[i - 2] /\ j[k - 3] = t[i - 3]
        /\ i < Len(t) => j[k + 1] = t[i + 1] /\ k < Len(j)
        /\ k >= i /\ k \in Nat
    <3>1. j[k] = t[i] /\ k \in Nat /\ k >= i
      BY <1>1, <2>0
    <3>2. ASSUME i > 1 PROVE j[k - 1] = t[i - 1]
      <4>1. k - 1 = Len(s) + (i - 1) /\ i - 1 \in 1..Len(t)
        BY <1>1, <2>0, <3>2
      <4> QED BY <1>1, <4>1
    <3>3. ASSUME i > 3 PROVE j[k - 2] = t[i - 2] /\ j[k - 3] = t[i - 3]
      <4>1. k - 2 = Len(s) + (i - 2) /\ i - 2 \in 1..Len(t)
        BY <1>1, <2>0, <3>3
      <4>2. k - 3 = Len(s) + (i - 3) /\ i - 3 \in 1..Len(t)
        BY <1>1, <2>0, <3>3
      <4> QED BY <1>1, <4>1, <4>2
    <3>4. ASSUME i < Len(t) PROVE j[k + 1] = t[i + 1] /\ k < Len(j)
      <4>1. k + 1 = Len(s) + (i + 1) /\ i + 1 \in 1..Len(t)
        BY <1>1, <2>0, <3>4
      <4> QED BY <1>1, <2>0, <3>4, <4>1
    <3> QED BY <3>1, <3>2, <3>3, <3>4
  <2> HIDE DEF j
  <2>2. /\ j[k].do = "free" => k > 1 /\ j[k - 1].do = "zero"
        /\ j[k].do = "iau"  => /\ k > 3 /\ j[k - 1].do = "init_ioc"
                               /\ j[k - 2].do = "kmalloc" /\ j[k - 3].do = "alloc"
        /\ j[k].do = "line" /\ j[k].hz # 0 => k < Len(j) /\ IsPair(j[k], j[k + 1])
        /\ Half(j[k]) => k > 1 /\ j[k - 1].do = "line" /\ j[k - 1].hz # 0
    BY <1>1, <2>1 DEF WellOrdered
  <2> QED BY <2>0, <2>2
<1>4. \A k \in 1..Len(j) : k \in 1..Len(s) \/ \E i \in 1..Len(t) : k = Len(s) + i
  <2> TAKE k \in 1..Len(j)
  <2>1. k \notin 1..Len(s) => k - Len(s) \in 1..Len(t) /\ k = Len(s) + (k - Len(s))
    BY <1>1
  <2> QED BY <2>1
<1> HIDE DEF j
<1>5. WellOrdered(j)
  BY <1>2, <1>3, <1>4 DEF WellOrdered
<1> QED BY <1>1, <1>5 DEF j

Calls == StepNames \ {"line"}

LEMMA CallIsStep ==
  ASSUME NEW name \in Calls
  PROVE  /\ Call(name) \in Steps /\ Call(name).do = name /\ Call(name).hz = 0
  BY DEF Call, Steps, Calls

(* A short list of calls that neither free nor set the registers.              *)
LEMMA NoCallOrdered == <<>> \in Seq(Steps) /\ WellOrdered(<<>>)
  BY DEF WellOrdered

LEMMA OneCallOrdered ==
  ASSUME NEW a \in Calls \ {"free", "iau"}
  PROVE  <<Call(a)>> \in Seq(Steps) /\ WellOrdered(<<Call(a)>>)
<1>1. /\ Call(a) \in Steps /\ Call(a).do = a /\ a # "line"
  BY CallIsStep DEF Calls
<1> DEFINE j == <<Call(a)>>
<1>2. j \in Seq(Steps) /\ \A i \in 1..Len(j) : j[i] = Call(a)
  BY <1>1
<1> HIDE DEF j
<1>3. WellOrdered(j)
  BY <1>1, <1>2 DEF WellOrdered, Half
<1> QED BY <1>2, <1>3 DEF j

LEMMA TwoCallsOrdered ==
  ASSUME NEW a \in Calls \ {"free", "iau"}, NEW b \in Calls \ {"free", "iau"}
  PROVE  <<Call(a), Call(b)>> \in Seq(Steps) /\ WellOrdered(<<Call(a), Call(b)>>)
<1>1. /\ Call(a) \in Steps /\ Call(a).do = a /\ Call(b) \in Steps /\ Call(b).do = b
      /\ a # "line" /\ b # "line"
  BY CallIsStep DEF Calls
<1> DEFINE j == <<Call(a), Call(b)>>
<1>2. j \in Seq(Steps) /\ \A i \in 1..Len(j) : j[i] \in {Call(a), Call(b)}
  BY <1>1
<1> HIDE DEF j
<1>3. WellOrdered(j)
  BY <1>1, <1>2 DEF WellOrdered, Half
<1> QED BY <1>2, <1>3 DEF j

(* The two lines of a rate.                                                   *)
LEMMA PairOrdered ==
  ASSUME NEW x \in Steps, NEW y \in Steps, IsPair(x, y)
  PROVE  <<x, y>> \in Seq(Steps) /\ WellOrdered(<<x, y>>)
<1>1. <<x, y>> \in Seq(Steps) /\ Len(<<x, y>>) = 2 /\ <<x, y>>[1] = x /\ <<x, y>>[2] = y
  OBVIOUS
<1>2. x.do = "line" /\ y.do = "line" /\ x.hz # 0 /\ y.hz = 0
  BY DEF IsPair, Rates
<1> DEFINE j == <<x, y>>
<1>3. Len(j) = 2 /\ j[1] = x /\ j[2] = y
  BY <1>1
<1> HIDE DEF j
<1>4. WellOrdered(j)
  BY <1>2, <1>3 DEF WellOrdered, Half
<1> QED BY <1>1, <1>4 DEF j

LEMMA RatePairs ==
  /\ RatePair(22050) = <<2, 2>> /\ RatePair(32000) = <<0, 0>> /\ RatePair(44100) = <<2, 0>>
  /\ RatePair(48000) = <<0, 2>> /\ RatePair(64000) = <<1, 0>> /\ RatePair(72000) = <<2, 1>>
  /\ RatePair(88200) = <<1, 1>> /\ RatePair(96000) = <<1, 2>>
  BY DEF RatePair

LEMMA ClockOrdered ==
  ASSUME NEW n \in {1, 3}
  PROVE  Clock(n) \in Seq(Steps) /\ WellOrdered(Clock(n))
<1>1. Clock(1) \in Seq(Steps) /\ WellOrdered(Clock(1))
  <2> DEFINE x == LineTo(9, 2, 48000)
             y == LineTo(8, 0, 0)
  <2>1. /\ x \in Steps /\ x.do = "line" /\ x.line = 9 /\ x.to = 2 /\ x.hz = 48000
        /\ y \in Steps /\ y.do = "line" /\ y.line = 8 /\ y.to = 0 /\ y.hz = 0
    BY DEF LineTo, Steps, StepNames, Rates
  <2>2. Clock(1) = <<x, y>>
    BY DEF Clock
  <2> HIDE DEF x, y
  <2>3. IsPair(x, y)
    BY <2>1, RatePairs DEF IsPair, Rates
  <2>4. x \in Steps /\ y \in Steps
    BY <2>1
  <2>5. <<x, y>> \in Seq(Steps) /\ WellOrdered(<<x, y>>)
    BY <2>3, <2>4, PairOrdered
  <2> QED BY <2>2, <2>5, Zenon
<1>2. Clock(3) \in Seq(Steps) /\ WellOrdered(Clock(3))
  <2> DEFINE x == LineTo(9, 0, 32000)
             y == LineTo(8, 0, 0)
  <2>1. /\ x \in Steps /\ x.do = "line" /\ x.line = 9 /\ x.to = 0 /\ x.hz = 32000
        /\ y \in Steps /\ y.do = "line" /\ y.line = 8 /\ y.to = 0 /\ y.hz = 0
    BY DEF LineTo, Steps, StepNames, Rates
  <2>2. Clock(3) = <<x, y>>
    BY DEF Clock
  <2> HIDE DEF x, y
  <2>3. IsPair(x, y)
    BY <2>1, RatePairs DEF IsPair, Rates
  <2>4. x \in Steps /\ y \in Steps
    BY <2>1
  <2>5. <<x, y>> \in Seq(Steps) /\ WellOrdered(<<x, y>>)
    BY <2>3, <2>4, PairOrdered
  <2> QED BY <2>2, <2>5, Zenon
<1> QED BY <1>1, <1>2

LEMMA SampleRateOrdered ==
  ASSUME NEW r \in Rates
  PROVE  SampleRate(r) \in Seq(Steps) /\ WellOrdered(SampleRate(r))
<1>1. PICK a \in 0..2, b \in 0..2 : RatePair(r) = <<a, b>>
  BY RatePairs DEF Rates
<1> DEFINE x == LineTo(8, a, r)
           y == LineTo(9, b, 0)
<1>2. /\ x \in Steps /\ x.do = "line" /\ x.line = 8 /\ x.to = a /\ x.hz = r
      /\ y \in Steps /\ y.do = "line" /\ y.line = 9 /\ y.to = b /\ y.hz = 0
  BY DEF LineTo, Steps, StepNames
<1>3. SampleRate(r) = <<x, y>>
  BY <1>1 DEF SampleRate
<1> HIDE DEF x, y
<1>4. IsPair(x, y)
  BY <1>1, <1>2 DEF IsPair
<1> QED BY <1>2, <1>3, <1>4, PairOrdered

LEMMA DeinitOrdered == DeinitHardware \in Seq(Steps) /\ WellOrdered(DeinitHardware)
<1>1. /\ Call("init_ioc") \in Steps /\ Call("zero") \in Steps /\ Call("free") \in Steps
      /\ Call("kfree") \in Steps /\ Call("init_ioc").do = "init_ioc" /\ Call("zero").do = "zero"
      /\ Call("free").do = "free" /\ Call("kfree").do = "kfree"
  BY CallIsStep DEF Calls, StepNames
<1> DEFINE j == <<Call("init_ioc"), Call("zero"), Call("free"), Call("kfree")>>
<1>2. /\ j \in Seq(Steps) /\ Len(j) = 4
      /\ j[1] = Call("init_ioc") /\ j[2] = Call("zero") /\ j[3] = Call("free") /\ j[4] = Call("kfree")
  BY <1>1
<1> HIDE DEF j
<1>3. WellOrdered(j)
  BY <1>1, <1>2 DEF WellOrdered, Half
<1> QED BY <1>2, <1>3 DEF j, DeinitHardware

LEMMA InitOrdered == InitHardware \in Seq(Steps) /\ WellOrdered(InitHardware)
<1>1. /\ Call("mode") \in Steps /\ Call("alloc") \in Steps /\ Call("kmalloc") \in Steps
      /\ Call("init_ioc") \in Steps /\ Call("iau") \in Steps /\ Call("mode").do = "mode"
      /\ Call("alloc").do = "alloc" /\ Call("kmalloc").do = "kmalloc"
      /\ Call("init_ioc").do = "init_ioc" /\ Call("iau").do = "iau"
  BY CallIsStep DEF Calls, StepNames
<1> DEFINE j == <<Call("mode"), Call("alloc"), Call("kmalloc"), Call("init_ioc"), Call("iau")>>
<1>2. /\ j \in Seq(Steps) /\ Len(j) = 5 /\ j[1] = Call("mode") /\ j[2] = Call("alloc")
      /\ j[3] = Call("kmalloc") /\ j[4] = Call("init_ioc") /\ j[5] = Call("iau")
  BY <1>1
<1> HIDE DEF j
<1>3. WellOrdered(j)
  BY <1>1, <1>2 DEF WellOrdered, Half
<1>4. WellOrdered(j \o Clock(1)) /\ j \o Clock(1) \in Seq(Steps)
  BY <1>2, <1>3, ClockOrdered, WellOrderedJoined
<1> QED BY <1>4 DEF j, InitHardware

LEMMA NtscOrdered ==
  /\ NtscAudio \in Seq(Steps) /\ WellOrdered(NtscAudio)
  /\ \E i \in 1..Len(NtscAudio) : NtscAudio[i].do = "ntsc"
<1>1. Clock(3) \in Seq(Steps) /\ WellOrdered(Clock(3))
  BY ClockOrdered
<1>2. <<Call("ntsc")>> \in Seq(Steps) /\ WellOrdered(<<Call("ntsc")>>)
  <2>1. "ntsc" \in Calls \ {"free", "iau"}
    BY DEF Calls, StepNames
  <2> QED BY <2>1, OneCallOrdered
<1>3. NtscAudio \in Seq(Steps) /\ WellOrdered(NtscAudio)
  BY <1>1, <1>2, WellOrderedJoined DEF NtscAudio
<1>4. NtscAudio[Len(Clock(3)) + 1] = Call("ntsc") /\ Len(NtscAudio) = Len(Clock(3)) + 1
  BY <1>1, <1>2, ListsJoined DEF NtscAudio
<1>5. Call("ntsc").do = "ntsc" /\ Len(Clock(3)) \in Nat
  <2>1. "ntsc" \in Calls
    BY DEF Calls, StepNames
  <2>2. Call("ntsc").do = "ntsc"
    BY <2>1, CallIsStep
  <2> QED BY <1>1, <2>2
<1>6. Len(Clock(3)) + 1 \in 1..Len(NtscAudio)
  BY <1>4, <1>5
<1> QED BY <1>3, <1>4, <1>5, <1>6

LEMMA ProbeOrdered ==
  /\ ProbeSteps \in Seq(Steps) /\ WellOrdered(ProbeSteps)
  /\ \E i \in 1..Len(ProbeSteps) : ProbeSteps[i].do = "ntsc"
<1> DEFINE a == IF kind = "MDP120" THEN <<Call("tone off")>> ELSE <<>>
           b == IF kind = "WINTV" THEN <<>> ELSE Clock(3)
           c == <<Call("disable_apu")>>
           t == (((a \o b) \o c) \o DeinitHardware) \o InitHardware
<1>0. "tone off" \in Calls \ {"free", "iau"} /\ "disable_apu" \in Calls \ {"free", "iau"}
  BY DEF Calls, StepNames
<1>1. a \in Seq(Steps) /\ WellOrdered(a)
  <2>1. <<Call("tone off")>> \in Seq(Steps) /\ WellOrdered(<<Call("tone off")>>)
    BY <1>0, OneCallOrdered
  <2> QED BY <2>1, NoCallOrdered
<1>2. b \in Seq(Steps) /\ WellOrdered(b)
  <2>1. Clock(3) \in Seq(Steps) /\ WellOrdered(Clock(3))
    BY ClockOrdered
  <2> QED BY <2>1, NoCallOrdered
<1>3. c \in Seq(Steps) /\ WellOrdered(c)
  BY <1>0, OneCallOrdered
<1>4. ProbeSteps = t \o NtscAudio
  BY DEF ProbeSteps
<1> HIDE DEF a, b, c
<1>5. WellOrdered(a \o b) /\ a \o b \in Seq(Steps)
  BY <1>1, <1>2, WellOrderedJoined
<1>6. WellOrdered((a \o b) \o c) /\ (a \o b) \o c \in Seq(Steps)
  BY <1>3, <1>5, WellOrderedJoined
<1>7. /\ WellOrdered(((a \o b) \o c) \o DeinitHardware)
      /\ ((a \o b) \o c) \o DeinitHardware \in Seq(Steps)
  BY <1>6, DeinitOrdered, WellOrderedJoined
<1>8. WellOrdered(t) /\ t \in Seq(Steps)
  BY <1>7, InitOrdered, WellOrderedJoined
<1> HIDE DEF t
<1>9. WellOrdered(t \o NtscAudio) /\ t \o NtscAudio \in Seq(Steps)
  BY <1>8, NtscOrdered, WellOrderedJoined
<1>10. PICK i \in 1..Len(NtscAudio) : NtscAudio[i].do = "ntsc"
  BY NtscOrdered
<1>11. /\ (t \o NtscAudio)[Len(t) + i] = NtscAudio[i] /\ Len(t) \in Nat
       /\ Len(t \o NtscAudio) = Len(t) + Len(NtscAudio)
  BY <1>8, NtscOrdered, ListsJoined
<1>12. Len(t) + i \in 1..Len(t \o NtscAudio) /\ (t \o NtscAudio)[Len(t) + i].do = "ntsc"
  BY <1>10, <1>11, NtscOrdered
<1> QED BY <1>4, <1>9, <1>12

LEMMA RemoveOrdered ==
  /\ RemoveSteps \in Seq(Steps) /\ WellOrdered(RemoveSteps) /\ Len(RemoveSteps) = 6
  /\ \A i \in 1..6 : RemoveSteps[i].do = RemoveNames[i]
<1> DEFINE c == <<Call("disable_apu"), Call("init_ioc")>>
<1>1. c \in Seq(Steps) /\ WellOrdered(c)
  <2>1. "disable_apu" \in Calls \ {"free", "iau"} /\ "init_ioc" \in Calls \ {"free", "iau"}
    BY DEF Calls, StepNames
  <2> QED BY <2>1, TwoCallsOrdered
<1>2. /\ Len(c) = 2 /\ c[1].do = "disable_apu" /\ c[2].do = "init_ioc"
  BY CallIsStep DEF Calls, StepNames
<1>3. /\ Len(DeinitHardware) = 4 /\ DeinitHardware[1].do = "init_ioc"
      /\ DeinitHardware[2].do = "zero" /\ DeinitHardware[3].do = "free"
      /\ DeinitHardware[4].do = "kfree"
  BY CallIsStep DEF Calls, StepNames, DeinitHardware
<1>4. RemoveSteps = c \o DeinitHardware
  BY DEF RemoveSteps
<1> HIDE DEF c
<1>5. WellOrdered(RemoveSteps) /\ RemoveSteps \in Seq(Steps)
  BY <1>1, <1>4, DeinitOrdered, WellOrderedJoined
<1>6. /\ Len(RemoveSteps) = 6
      /\ \A i \in 1..2 : RemoveSteps[i] = c[i]
      /\ \A i \in 1..4 : RemoveSteps[2 + i] = DeinitHardware[i]
  <2>1. /\ Len(c \o DeinitHardware) = Len(c) + Len(DeinitHardware)
        /\ \A i \in 1..Len(c) : (c \o DeinitHardware)[i] = c[i]
        /\ \A i \in 1..Len(DeinitHardware) :
             (c \o DeinitHardware)[Len(c) + i] = DeinitHardware[i]
    BY <1>1, DeinitOrdered, ListsJoined
  <2>2. Len(c) = 2 /\ Len(DeinitHardware) = 4
    BY <1>2, <1>3
  <2> QED BY <1>4, <2>1, <2>2
<1>7. /\ RemoveSteps[1].do = "disable_apu" /\ RemoveSteps[2].do = "init_ioc"
      /\ RemoveSteps[3].do = "init_ioc" /\ RemoveSteps[4].do = "zero"
      /\ RemoveSteps[5].do = "free" /\ RemoveSteps[6].do = "kfree"
  <2>1. /\ RemoveSteps[1] = c[1] /\ RemoveSteps[2] = c[2]
        /\ RemoveSteps[2 + 1] = DeinitHardware[1] /\ RemoveSteps[2 + 2] = DeinitHardware[2]
        /\ RemoveSteps[2 + 3] = DeinitHardware[3] /\ RemoveSteps[2 + 4] = DeinitHardware[4]
    BY <1>6
  <2> QED BY <1>2, <1>3, <2>1
<1> QED BY <1>5, <1>6, <1>7 DEF RemoveNames

-------------------------------------------------------------------------------
(* What one step leaves of the list and of what the list promises.             *)

LEMMA StepTaken ==
  ASSUME AudioTypeOK, NEW name, Doing(name)
  PROVE  /\ job # <<>> /\ job \in Seq(Steps) /\ job[1].do = name /\ job[1] \in Steps
         /\ job' = Tail(job) /\ job' \in Seq(Steps) /\ kind' = kind /\ life' = life
<1>1. job \in Seq(Steps) /\ job # <<>>
  BY DEF AudioTypeOK, Doing
<1> QED BY <1>1, ListRest DEF Doing

LEMMA PlacesAfterStep ==
  ASSUME job \in Seq(Steps), job # <<>>, JobPlaces, job' = Tail(job),
         job[1].do \in {"zero", "init_ioc"} => Zeroed',
         job[1].do = "alloc" => iau_base' # 0,
         job[1].do \in {"init_ioc", "kmalloc", "iau"} => iau_base' = iau_base
  PROVE  JobPlaces'
<1>1. /\ Len(job) \in Nat \ {0} /\ Len(job') = Len(job) - 1
      /\ \A i \in 1..Len(job') : job'[i] = job[i + 1]
  BY ListRest
<1> SUFFICES ASSUME NEW i \in 1..Len(job')
      PROVE  /\ job'[i].do = "free" => IF i = 1 THEN Zeroed' ELSE job'[i - 1].do = "zero"
             /\ job'[i].do = "iau"  => /\ IF i = 1 THEN Zeroed' ELSE job'[i - 1].do = "init_ioc"
                                       /\ i > 2 => job'[i - 2].do = "kmalloc"
                                       /\ IF i > 3 THEN job'[i - 3].do = "alloc" ELSE iau_base' # 0
             /\ job'[i].do = "line" /\ job'[i].hz # 0 =>
                  i < Len(job') /\ IsPair(job'[i], job'[i + 1])
             /\ Half(job'[i]) => i = 1 \/ (job'[i - 1].do = "line" /\ job'[i - 1].hz # 0)
  BY DEF JobPlaces, Half
<1>2. /\ i + 1 \in 1..Len(job) /\ job'[i] = job[i + 1]
      /\ i > 1 => job'[i - 1] = job[i]
      /\ i > 2 => job'[i - 2] = job[i - 1]
      /\ i > 3 => job'[i - 3] = job[i - 2]
      /\ i < Len(job') => job'[i + 1] = job[(i + 1) + 1]
  BY <1>1
<1>3. /\ job[i + 1].do = "free" => job[i].do = "zero"
      /\ job[i + 1].do = "iau"  => /\ job[i].do = "init_ioc"
                                   /\ i > 1 => job[i - 1].do = "kmalloc"
                                   /\ IF i > 2 THEN job[i - 2].do = "alloc" ELSE iau_base # 0
      /\ job[i + 1].do = "line" /\ job[i + 1].hz # 0 =>
           i + 1 < Len(job) /\ IsPair(job[i + 1], job[(i + 1) + 1])
      /\ Half(job[i + 1]) => job[i].do = "line" /\ job[i].hz # 0
  <2>1. PICK k \in 1..Len(job) : k = i + 1
    BY <1>2
  <2>2. k # 1 /\ k - 1 = i /\ k - 2 = i - 1 /\ k - 3 = i - 2
    BY <1>1, <2>1
  <2> QED BY <1>1, <2>1, <2>2 DEF JobPlaces
<1>4. job'[i].do = "free" => IF i = 1 THEN Zeroed' ELSE job'[i - 1].do = "zero"
  BY <1>1, <1>2, <1>3
<1>5. job'[i].do = "iau"  => /\ IF i = 1 THEN Zeroed' ELSE job'[i - 1].do = "init_ioc"
                             /\ i > 2 => job'[i - 2].do = "kmalloc"
                             /\ IF i > 3 THEN job'[i - 3].do = "alloc" ELSE iau_base' # 0
  <2> SUFFICES ASSUME job'[i].do = "iau" PROVE
                             /\ IF i = 1 THEN Zeroed' ELSE job'[i - 1].do = "init_ioc"
                             /\ i > 2 => job'[i - 2].do = "kmalloc"
                             /\ IF i > 3 THEN job'[i - 3].do = "alloc" ELSE iau_base' # 0
    OBVIOUS
  <2>1. CASE i = 1
    BY <1>1, <1>2, <1>3, <2>1
  <2>2. CASE i = 2
    BY <1>1, <1>2, <1>3, <2>2
  <2>3. CASE i = 3
    BY <1>1, <1>2, <1>3, <2>3
  <2>4. CASE i > 3
    BY <1>1, <1>2, <1>3, <2>4
  <2> QED BY <1>1, <2>1, <2>2, <2>3, <2>4
<1>6. /\ job'[i].do = "line" /\ job'[i].hz # 0 => i < Len(job') /\ IsPair(job'[i], job'[i + 1])
      /\ Half(job'[i]) => i = 1 \/ (job'[i - 1].do = "line" /\ job'[i - 1].hz # 0)
  BY <1>1, <1>2, <1>3 DEF Half
<1> QED BY <1>4, <1>5, <1>6

LEMMA PlacesOfNewList ==
  ASSUME WellOrdered(job'), job' \in Seq(Steps)
  PROVE  JobPlaces'
  BY DEF WellOrdered, JobPlaces, Half

(* A step that is no line finds the two lines as they have to be.              *)
LEMMA RateAfterStep ==
  ASSUME job \in Seq(Steps), job # <<>>, JobPlaces, RateSet, job[1].do # "line",
         job' = Tail(job), kind' = kind, level' = level, rate' = rate
  PROVE  RateSet'
<1>1. job' # <<>> => 2 \in 1..Len(job) /\ job'[1] = job[2] /\ Len(job) \in Nat
  BY ListRest
<1>2. ~Half(job[1])
  BY DEF Half
<1>3. job' # <<>> => ~Half(job'[1])
  <2> SUFFICES ASSUME job' # <<>>, Half(job[2]) PROVE FALSE
    BY <1>1 DEF Half
  <2>1. job[2 - 1].do = "line"
    BY <1>1 DEF JobPlaces
  <2> QED BY <2>1
<1> QED BY <1>2, <1>3 DEF RateSet, Half

LEMMA MatrixAfterStep ==
  ASSUME job \in Seq(Steps), job # <<>>, MatrixSet, job[1].do # "ntsc",
         job' = Tail(job), life' = life, mixer' = mixer, mixed' = mixed
  PROVE  MatrixSet'
<1>1. /\ Len(job) \in Nat \ {0} /\ Len(job') = Len(job) - 1
      /\ \A i \in 1..Len(job') : job'[i] = job[i + 1]
  BY ListRest
<1>2. ASSUME NEW i \in 1..Len(job), job[i].do = "ntsc" PROVE \E k \in 1..Len(job') : job'[k].do = "ntsc"
  <2>1. i # 1
    BY <1>2
  <2>2. i - 1 \in 1..Len(job') /\ (i - 1) + 1 = i
    BY <1>1, <2>1
  <2>3. job'[i - 1] = job[i]
    BY <1>1, <2>2
  <2> QED BY <1>2, <2>2, <2>3
<1> QED BY <1>2 DEF MatrixSet

(* Where a removal is.                                                        *)
LEMMA RemovalAt ==
  ASSUME job \in Seq(Steps), job # <<>>, Removing, life = "out"
  PROVE  /\ Len(job) \in 1..6
         /\ job[1].do \in {"disable_apu", "init_ioc", "zero", "free", "kfree"}
         /\ Len(job) = 6 => job[1].do = "disable_apu"
         /\ Len(job) \in {4, 5} => job[1].do = "init_ioc"
         /\ Len(job) = 3 => job[1].do = "zero"
         /\ Len(job) = 2 => job[1].do = "free"
         /\ Len(job) = 1 => job[1].do = "kfree"
<1>1. Len(job) \in Nat \ {0}
  BY ListRest
<1>2. Len(job) <= 6 /\ \A i \in 1..Len(job) : job[i].do = RemoveNames[6 - Len(job) + i]
  BY DEF Removing
<1>3. job[1].do = RemoveNames[6 - Len(job) + 1]
  BY <1>1, <1>2
<1>4. /\ RemoveNames[1] = "disable_apu" /\ RemoveNames[2] = "init_ioc" /\ RemoveNames[3] = "init_ioc"
      /\ RemoveNames[4] = "zero" /\ RemoveNames[5] = "free" /\ RemoveNames[6] = "kfree"
  BY DEF RemoveNames
<1>5. \A k \in 1..6 : Len(job) = k => job[1].do = RemoveNames[7 - k]
  <2> TAKE k \in 1..6
  <2> HAVE Len(job) = k
  <2>1. 6 - Len(job) + 1 = 7 - k
    OBVIOUS
  <2> QED BY <1>3, <2>1, Zenon
<1>6. /\ Len(job) = 6 => job[1].do = RemoveNames[1]
      /\ Len(job) = 5 => job[1].do = RemoveNames[2]
      /\ Len(job) = 4 => job[1].do = RemoveNames[3]
      /\ Len(job) = 3 => job[1].do = RemoveNames[4]
      /\ Len(job) = 2 => job[1].do = RemoveNames[5]
      /\ Len(job) = 1 => job[1].do = RemoveNames[6]
  BY <1>5
<1>7. Len(job) \in 1..6
  <2>1. Len(job) <= 6
    BY <1>2
  <2>2. \A n \in Nat \ {0} : n <= 6 => n \in 1..6
    OBVIOUS
  <2> QED BY <1>1, <2>1, <2>2, Zenon
<1>8. \A k \in 1..6 : RemoveNames[k] \in {"disable_apu", "init_ioc", "zero", "free", "kfree"}
  BY <1>4
<1>9. job[1].do \in {"disable_apu", "init_ioc", "zero", "free", "kfree"}
  <2>1. PICK k \in 1..6 : Len(job) = k
    BY <1>7
  <2>2. job[1].do = RemoveNames[7 - k] /\ 7 - k \in 1..6
    BY <1>5, <2>1
  <2> QED BY <1>8, <2>2
<1> QED BY <1>4, <1>6, <1>7, <1>9

LEMMA RemovalAfterStep ==
  ASSUME job \in Seq(Steps), job # <<>>, Removing, job' = Tail(job), life' = life,
         life = "out" =>
           /\ ctl' = ctl \/ ctl' = "off"
           /\ job[1].do = "disable_apu" => ctl' = "off"
           /\ iau_base' = iau_base \/ iau_base' = 0
           /\ job[1].do = "free" => iau_base' = 0
           /\ job[1].do = "kfree" => iec_buf' = "null"
  PROVE  Removing'
<1> SUFFICES ASSUME life = "out" PROVE Removing'
  BY DEF Removing
<1>1. /\ Len(job) \in Nat \ {0} /\ Len(job') = Len(job) - 1
      /\ \A i \in 1..Len(job') : job'[i] = job[i + 1]
  BY ListRest
<1>2. \A i \in 1..Len(job') : job'[i].do = RemoveNames[6 - Len(job') + i]
  <2> TAKE i \in 1..Len(job')
  <2>1. i + 1 \in 1..Len(job) /\ 6 - Len(job) + (i + 1) = 6 - Len(job') + i
    BY <1>1
  <2>2. job[i + 1].do = RemoveNames[6 - Len(job) + (i + 1)]
    BY <2>1 DEF Removing
  <2> QED BY <1>1, <2>1, <2>2
<1>3. Len(job') <= 6
  BY <1>1 DEF Removing
<1>4. Len(job') <= 5 => ctl' = "off"
  <2>1. CASE Len(job) = 6
    BY <2>1, RemovalAt
  <2>2. CASE Len(job) # 6
    BY <1>1, <2>2 DEF Removing
  <2> QED BY <2>1, <2>2
<1>5. Len(job') <= 1 => iau_base' = 0
  <2>1. CASE Len(job) = 2
    BY <2>1, RemovalAt
  <2>2. CASE Len(job) # 2
    BY <1>1, <2>2 DEF Removing
  <2> QED BY <2>1, <2>2
<1>6. Len(job') = 0 => iec_buf' = "null"
  BY <1>1, RemovalAt
<1> QED BY <1>2, <1>3, <1>4, <1>5, <1>6 DEF Removing

-------------------------------------------------------------------------------
(* The steps.                                                                 *)

LEMMA WordType == ASSUME NEW on \in BOOLEAN PROVE Word(on) \in [0..3 -> {0, 1}]
  BY DEF Word

LEMMA NtscMatrixType == NtscMatrix \in [0..8 -> [0..3 -> {0, 1}]]
<1>1. \A r \in 0..8 : Word(r \in {0, 4, 8}) \in [0..3 -> {0, 1}]
  BY DEF Word
<1> QED BY <1>1 DEF NtscMatrix

(* No register points anywhere while the struct has no buffer.                 *)
LEMMA NoBuffer == ASSUME Registers, iau_base = 0 PROVE Zeroed
<1>1. \A m \in {0, 1} : iau[m] = Zeros
  BY DEF Registers
<1> QED BY <1>1 DEF Registers, Zeroed

LEMMA ZeroIauZeroes ==
  ASSUME Registers, AudioTypeOK, ZeroIau
  PROVE  Zeroed'
<1>1. iau \in [{0, 1} -> {Zeros, Whole(iau_base)}]
  BY DEF Registers
<1>2. CASE iau_regs = Unset
  <2>1. \A m \in {0, 1} : iau[m] = Zeros
    BY <1>2 DEF Registers, Unset
  <2> QED BY <1>1, <1>2, <2>1 DEF ZeroIau, Zeroed
<1>3. CASE iau_regs # Unset
  <2>1. iau' = [iau EXCEPT ![iau_regs] = Zeros]
    BY <1>3 DEF ZeroIau
  <2>2. \A m \in {0, 1} : m # iau_regs => iau[m] = Zeros
    BY DEF Registers
  <2>3. iau' = [m \in {0, 1} |-> Zeros]
    BY <1>1, <2>1, <2>2
  <2> QED BY <2>3 DEF Zeroed
<1> QED BY <1>2, <1>3

LEMMA ZeroedRegisters ==
  ASSUME Zeroed', lent' = {iau_base'} \ {0}
  PROVE  Registers'
<1>1. \A m \in {0, 1} : iau'[m] = Zeros
  BY DEF Zeroed
<1>2. iau' \in [{0, 1} -> {Zeros, Whole(iau_base')}]
  BY DEF Zeroed
<1> QED BY <1>1, <1>2 DEF Registers, Whole

(* Steps that leave the buffer and the registers alone.                        *)
LEMMA QuietStep ==
  ASSUME AudioInv, NEW name, Doing(name),
         name \notin {"zero", "init_ioc", "alloc", "iau", "free", "ntsc", "line"},
         UNCHANGED <<iau_base, iau_regs, iau, lent, level, rate>>,
         audio_mode' \in Modes \cup {0}, iec_buf' \in {"null", "buf"},
         ctl' \in {"off", "ntsc", "tone", "left on"},
         mixer' \in [0..8 -> [0..3 -> {0, 1}]], mixed' \in {"driver", "user"},
         (mixer' = mixer /\ mixed' = mixed) \/ mixed' = "user",
         life = "out" => ctl' = ctl \/ ctl' = "off",
         name = "disable_apu" => ctl' = "off",
         name = "kfree" => iec_buf' = "null"
  PROVE  AudioInv'
<1> USE DEF AudioInv
<1>1. /\ job # <<>> /\ job \in Seq(Steps) /\ job[1].do = name
      /\ job' = Tail(job) /\ job' \in Seq(Steps) /\ kind' = kind /\ life' = life
  BY StepTaken
<1>2. AudioTypeOK'
  BY <1>1 DEF AudioTypeOK
<1>3. Registers'
  BY DEF Registers, Whole
<1>4. JobPlaces'
  BY <1>1, PlacesAfterStep
<1>5. RateSet'
  BY <1>1, RateAfterStep
<1>6. MatrixSet'
  BY <1>1, MatrixAfterStep DEF MatrixSet
<1>7. Removing'
  BY <1>1, RemovalAfterStep
<1> QED BY <1>2, <1>3, <1>4, <1>5, <1>6, <1>7

(* ... and steps that leave the lines and the matrix alone.                     *)
LEMMA BufferStep ==
  ASSUME AudioInv, NEW name, Doing(name), name \notin {"ntsc", "line"},
         UNCHANGED <<level, rate, mixer, mixed>>, Registers',
         audio_mode' \in Modes \cup {0}, iau_base' \in Bases \cup {0},
         iau_regs' \in {0, 1, Unset}, iec_buf' \in {"null", "buf"},
         ctl' \in {ctl, "off"}, iec_buf' = iec_buf,
         name \in {"zero", "init_ioc"} => Zeroed',
         name = "alloc" => iau_base' # 0,
         name \in {"init_ioc", "kmalloc", "iau"} => iau_base' = iau_base,
         name \notin {"disable_apu", "kfree"},
         life = "out" => iau_base' = iau_base \/ iau_base' = 0,
         name = "free" => iau_base' = 0
  PROVE  AudioInv'
<1> USE DEF AudioInv
<1>1. /\ job # <<>> /\ job \in Seq(Steps) /\ job[1].do = name
      /\ job' = Tail(job) /\ job' \in Seq(Steps) /\ kind' = kind /\ life' = life
  BY StepTaken
<1>2. AudioTypeOK'
  <2>1. DOMAIN iau' = {0, 1} /\ lent' \subseteq Bases
    BY DEF Registers
  <2>2. ctl' \in {"off", "ntsc", "tone", "left on"}
    BY DEF AudioTypeOK
  <2> QED BY <1>1, <2>1, <2>2 DEF AudioTypeOK
<1>4. JobPlaces'
  BY <1>1, PlacesAfterStep
<1>5. RateSet'
  BY <1>1, RateAfterStep
<1>6. MatrixSet'
  BY <1>1, MatrixAfterStep
<1>7. Removing'
  BY <1>1, RemovalAfterStep
<1> QED BY <1>2, <1>4, <1>5, <1>6, <1>7

LEMMA DrivenType ==
  ASSUME AudioTypeOK, NEW l \in {0, 8, 9}, NEW t \in 0..2
  PROVE  Driven(l, t) \in [{8, 9} -> 0..2]
<1>1. level \in [{8, 9} -> 0..2]
  BY DEF AudioTypeOK
<1>2. \A u \in 0..2 : [level EXCEPT ![l] = u] \in [{8, 9} -> 0..2]
  BY <1>1
<1>3. (IF t = 0 THEN 0 ELSE 1) \in 0..2
  OBVIOUS
<1> QED BY <1>1, <1>2, <1>3 DEF Driven

LEMMA SetRateLineInv == ASSUME AudioInv, SetRateLine PROVE AudioInv'
<1> USE DEF AudioInv
<1>0. Doing("line")
  BY DEF SetRateLine
<1>1. /\ job # <<>> /\ job \in Seq(Steps) /\ job[1].do = "line" /\ job[1] \in Steps
      /\ job' = Tail(job) /\ job' \in Seq(Steps) /\ kind' = kind /\ life' = life
  BY <1>0, StepTaken
<1> DEFINE x == job[1]
<1>2. /\ x.line \in {0, 8, 9} /\ x.to \in 0..2 /\ x.hz \in Rates \cup {0} /\ x.do = "line"
  BY <1>1 DEF Steps
<1>3. /\ level' = Driven(x.line, x.to)
      /\ rate' = (IF x.hz # 0 THEN x.hz ELSE rate)
      /\ audio_mode' = audio_mode /\ iau_base' = iau_base /\ iau_regs' = iau_regs /\ iau' = iau
      /\ iec_buf' = iec_buf /\ lent' = lent /\ ctl' = ctl /\ mixer' = mixer /\ mixed' = mixed
  BY <1>1, ListRest DEF SetRateLine, bufferVars
<1>4. /\ Len(job) \in Nat \ {0} /\ Len(job') = Len(job) - 1
      /\ \A i \in 1..Len(job') : job'[i] = job[i + 1]
  BY <1>1, ListRest
<1>5. x.hz # 0 => job' # <<>> /\ IsPair(x, job'[1])
  <2> SUFFICES ASSUME x.hz # 0 PROVE job' # <<>> /\ IsPair(x, job'[1])
    OBVIOUS
  <2>1. 1 < Len(job) /\ IsPair(job[1], job[1 + 1])
    BY <1>2, <1>4 DEF JobPlaces
  <2> QED BY <1>1, <1>4, <2>1
<1>6. x.hz = 0 => job' = <<>> \/ ~Half(job'[1])
  <2> SUFFICES ASSUME x.hz = 0, job' # <<>>, Half(job'[1]) PROVE FALSE
    OBVIOUS
  <2>1. 2 \in 1..Len(job) /\ job'[1] = job[2]
    BY <1>1, <1>4
  <2>2. job[2 - 1].hz # 0
    BY <2>1 DEF JobPlaces
  <2> QED BY <2>2
<1>7. level' \in [{8, 9} -> 0..2]
  BY <1>2, <1>3, DrivenType
<1>8. rate' \in Rates \cup {0}
  BY <1>2, <1>3 DEF AudioTypeOK
<1>9. AudioTypeOK'
  BY <1>1, <1>3, <1>7, <1>8 DEF AudioTypeOK
<1>10. Registers' /\ JobPlaces' /\ MatrixSet' /\ Removing'
  <2>1. JobPlaces'
    BY <1>1, <1>3, PlacesAfterStep
  <2>2. MatrixSet'
    BY <1>1, <1>3, MatrixAfterStep
  <2>3. Removing'
    BY <1>1, <1>3, RemovalAfterStep
  <2>4. Registers'
    BY <1>3 DEF Registers, Whole
  <2> QED BY <2>1, <2>2, <2>3, <2>4
<1> HIDE DEF x
<1>11. RateSet'
  <2> SUFFICES ASSUME kind = "MDP100", rate' # 0 PROVE RateSet'
    BY <1>1 DEF RateSet
  <2>1. level' = [level EXCEPT ![x.line] = x.to] /\ level \in [{8, 9} -> 0..2]
    BY <1>3 DEF Driven, AudioTypeOK
  <2>2. CASE x.hz # 0
    <3>1. /\ job' # <<>> /\ Half(job'[1]) /\ rate' = x.hz
          /\ \/ x.line = 8 /\ job'[1].line = 9 /\ RatePair(x.hz) = <<x.to, job'[1].to>>
             \/ x.line = 9 /\ job'[1].line = 8 /\ RatePair(x.hz) = <<job'[1].to, x.to>>
      BY <1>3, <1>5, <2>2 DEF IsPair, Half
    <3>2. level'[x.line] = x.to
      BY <2>1, <3>1
    <3> QED BY <3>1, <3>2 DEF RateSet, Half
  <2>3. CASE x.hz = 0
    <3>1. rate' = rate /\ Half(x) /\ x = job[1]
      BY <1>2, <1>3, <2>3 DEF Half, x
    <3>2. \/ x.line = 9 /\ RatePair(rate) = <<level[8], x.to>>
          \/ x.line = 8 /\ RatePair(rate) = <<x.to, level[9]>>
      BY <1>1, <3>1 DEF RateSet
    <3>3. RatePair(rate) = <<level'[8], level'[9]>>
      BY <2>1, <3>2
    <3> QED BY <1>6, <2>3, <3>1, <3>3 DEF RateSet, Half
  <2> QED BY <2>2, <2>3
<1> QED BY <1>9, <1>10, <1>11

LEMMA InitIauRegInv == ASSUME AudioInv, InitIauReg PROVE AudioInv'
<1> USE DEF AudioInv
<1>0. Doing("iau")
  BY DEF InitIauReg
<1>1. /\ job # <<>> /\ job \in Seq(Steps) /\ job[1].do = "iau"
      /\ job' = Tail(job) /\ job' \in Seq(Steps) /\ kind' = kind /\ life' = life
  BY <1>0, StepTaken
<1>2. 1 \in 1..Len(job)
  BY <1>1, ListRest
<1>3. Zeroed /\ iau_base # 0
  BY <1>1, <1>2 DEF JobPlaces
<1>4. audio_mode \in {0, 1} /\ iau_base \in Bases \cup {0}
  BY ModesAssumption DEF AudioTypeOK
<1>5. /\ iau_regs' = audio_mode /\ iau_base' = iau_base /\ lent' = lent
      /\ iau' = [iau EXCEPT ![audio_mode] = Whole(iau_base)]
      /\ audio_mode' = audio_mode /\ iec_buf' = iec_buf /\ ctl' = ctl
      /\ mixer' = mixer /\ level' = level /\ rate' = rate /\ mixed' = mixed
  BY DEF InitIauReg, Whole
<1>6. Registers'
  <2>1. iau' \in [{0, 1} -> {Zeros, Whole(iau_base)}]
    BY <1>3, <1>4, <1>5 DEF Zeroed
  <2>2. \A m \in {0, 1} : iau'[m] # Zeros => m = audio_mode
    BY <1>3, <1>4, <1>5 DEF Zeroed
  <2>3. Whole(iau_base') = Whole(iau_base)
    BY <1>5
  <2> QED BY <1>3, <1>5, <2>1, <2>2, <2>3 DEF Registers
<1>7. AudioTypeOK'
  <2>1. DOMAIN iau' = {0, 1}
    BY <1>6 DEF Registers
  <2> QED BY <1>1, <1>4, <1>5, <2>1 DEF AudioTypeOK
<1>8. JobPlaces' /\ RateSet' /\ MatrixSet' /\ Removing'
  <2>1. JobPlaces'
    BY <1>1, <1>5, PlacesAfterStep
  <2>2. RateSet'
    BY <1>1, <1>5, RateAfterStep
  <2>3. MatrixSet'
    BY <1>1, <1>5, MatrixAfterStep
  <2>4. Removing'
    BY <1>1, <1>5, RemovalAfterStep
  <2> QED BY <2>1, <2>2, <2>3, <2>4
<1> QED BY <1>6, <1>7, <1>8

LEMMA InitNtscInv == ASSUME AudioInv, InitNtsc PROVE AudioInv'
<1> USE DEF AudioInv
<1>0. Doing("ntsc")
  BY DEF InitNtsc
<1>1. /\ job # <<>> /\ job \in Seq(Steps) /\ job[1].do = "ntsc"
      /\ job' = Tail(job) /\ job' \in Seq(Steps) /\ kind' = kind /\ life' = life
  BY <1>0, StepTaken
<1>2. life # "out"
  BY <1>1, RemovalAt
<1>3. /\ mixer' = NtscMatrix /\ ctl' = "ntsc" /\ mixed' = "driver"
      /\ level' = level /\ rate' = rate
      /\ audio_mode' = audio_mode /\ iau_base' = iau_base /\ iau_regs' = iau_regs /\ iau' = iau
      /\ iec_buf' = iec_buf /\ lent' = lent
  BY DEF InitNtsc, bufferVars
<1>4. AudioTypeOK'
  BY <1>1, <1>3, NtscMatrixType DEF AudioTypeOK
<1>5. Registers'
  BY <1>3 DEF Registers, Whole
<1>6. JobPlaces'
  BY <1>1, <1>3, PlacesAfterStep
<1>7. RateSet'
  BY <1>1, <1>3, RateAfterStep
<1>8. MatrixSet' /\ Removing'
  BY <1>1, <1>2, <1>3 DEF MatrixSet, Removing
<1> QED BY <1>4, <1>5, <1>6, <1>7, <1>8

LEMMA DoingInv ==
  ASSUME AudioInv,
         \/ DisableApu \/ InitIoc \/ ZeroRegisters \/ FreeBuffer \/ FreeIec
         \/ (\E m \in Modes : SetMode(m)) \/ (\E b \in Bases : AllocBuffer(b))
         \/ AllocIec \/ ProbeToneOff
  PROVE  AudioInv'
<1> USE DEF AudioInv
<1>1. /\ audio_mode \in Modes \cup {0} /\ iau_base \in Bases \cup {0}
      /\ iau_regs \in {0, 1, Unset} /\ iec_buf \in {"null", "buf"}
      /\ ctl \in {"off", "ntsc", "tone", "left on"}
      /\ mixer \in [0..8 -> [0..3 -> {0, 1}]] /\ mixed \in {"driver", "user"}
      /\ lent = {iau_base} \ {0}
  BY DEF AudioTypeOK, Registers
<1>2. CASE DisableApu
  <2>1. /\ Doing("disable_apu") /\ ctl' = "off"
        /\ audio_mode' = audio_mode /\ iau_base' = iau_base /\ iau_regs' = iau_regs /\ iau' = iau
        /\ iec_buf' = iec_buf /\ lent' = lent /\ mixer' = mixer /\ level' = level /\ rate' = rate
        /\ mixed' = mixed
    BY <1>2 DEF DisableApu, bufferVars
  <2> QED BY <1>1, <2>1, QuietStep
<1>3. CASE InitIoc
  <2>1. /\ Doing("init_ioc") /\ ctl' = "off" /\ ZeroIau
        /\ audio_mode' = audio_mode /\ iau_base' = iau_base /\ iau_regs' = iau_regs
        /\ iec_buf' = iec_buf /\ lent' = lent /\ mixer' = mixer /\ level' = level /\ rate' = rate
        /\ mixed' = mixed
    BY <1>3 DEF InitIoc
  <2>2. Zeroed'
    BY <2>1, ZeroIauZeroes
  <2>3. Registers'
    BY <1>1, <2>1, <2>2, ZeroedRegisters
  <2> QED BY <1>1, <2>1, <2>2, <2>3, BufferStep
<1>4. CASE ZeroRegisters
  <2>1. /\ Doing("zero") /\ ZeroIau /\ ctl' = ctl
        /\ audio_mode' = audio_mode /\ iau_base' = iau_base /\ iau_regs' = iau_regs
        /\ iec_buf' = iec_buf /\ lent' = lent /\ mixer' = mixer /\ level' = level /\ rate' = rate
        /\ mixed' = mixed
    BY <1>4 DEF ZeroRegisters
  <2>2. Zeroed'
    BY <2>1, ZeroIauZeroes
  <2>3. Registers'
    BY <1>1, <2>1, <2>2, ZeroedRegisters
  <2> QED BY <1>1, <2>1, <2>2, <2>3, BufferStep
<1>5. CASE FreeBuffer
  <2>1. /\ Doing("free") /\ lent' = lent \ {iau_base} /\ iau_base' = 0 /\ ctl' = ctl
        /\ audio_mode' = audio_mode /\ iau_regs' = iau_regs /\ iau' = iau
        /\ iec_buf' = iec_buf /\ mixer' = mixer /\ level' = level /\ rate' = rate
        /\ mixed' = mixed
    BY <1>5 DEF FreeBuffer
  <2>2. job # <<>> /\ job \in Seq(Steps) /\ job[1].do = "free"
    BY <2>1, StepTaken
  <2>3. 1 \in 1..Len(job)
    BY <2>2, ListRest
  <2>4. Zeroed'
    BY <2>1, <2>2, <2>3 DEF JobPlaces, Zeroed
  <2>5. Registers'
    BY <1>1, <2>1, <2>4, ZeroedRegisters
  <2> QED BY <1>1, <2>1, <2>5, BufferStep
<1>6. CASE FreeIec
  <2>1. /\ Doing("kfree") /\ iec_buf' = "null" /\ ctl' = ctl
        /\ audio_mode' = audio_mode /\ iau_base' = iau_base /\ iau_regs' = iau_regs /\ iau' = iau
        /\ lent' = lent /\ mixer' = mixer /\ level' = level /\ rate' = rate /\ mixed' = mixed
    BY <1>6 DEF FreeIec
  <2> QED BY <1>1, <2>1, QuietStep
<1>7. ASSUME NEW m \in Modes, SetMode(m) PROVE AudioInv'
  <2>1. /\ Doing("mode") /\ audio_mode' = m /\ ctl' = ctl /\ iec_buf' = iec_buf
        /\ iau_base' = iau_base /\ iau_regs' = iau_regs /\ iau' = iau
        /\ lent' = lent /\ mixer' = mixer /\ level' = level /\ rate' = rate /\ mixed' = mixed
    BY <1>7 DEF SetMode
  <2> QED BY <1>1, <1>7, <2>1, QuietStep
<1>8. ASSUME NEW b \in Bases, AllocBuffer(b) PROVE AudioInv'
  <2>1. /\ Doing("alloc") /\ iau_base = 0 /\ iau_base' = b /\ lent' = lent \cup {b} /\ ctl' = ctl
        /\ audio_mode' = audio_mode /\ iau_regs' = iau_regs /\ iau' = iau
        /\ iec_buf' = iec_buf /\ mixer' = mixer /\ level' = level /\ rate' = rate
        /\ mixed' = mixed
    BY <1>8 DEF AllocBuffer
  <2>2. b # 0
    BY BasesAssumption
  <2>3. Zeroed'
    BY <2>1, NoBuffer DEF Zeroed
  <2>4. Registers'
    BY <1>1, <2>1, <2>2, <2>3, ZeroedRegisters
  <2>5. life # "out"
    <3>1. job # <<>> /\ job \in Seq(Steps) /\ job[1].do = "alloc"
      BY <2>1, StepTaken
    <3> QED BY <3>1, RemovalAt
  <2> QED BY <1>1, <2>1, <2>2, <2>4, <2>5, BufferStep
<1>9. CASE AllocIec
  <2>1. /\ Doing("kmalloc") /\ iec_buf' \in {"null", "buf"} /\ ctl' = ctl
        /\ audio_mode' = audio_mode /\ iau_base' = iau_base /\ iau_regs' = iau_regs /\ iau' = iau
        /\ lent' = lent /\ mixer' = mixer /\ level' = level /\ rate' = rate /\ mixed' = mixed
    BY <1>9 DEF AllocIec
  <2> QED BY <1>1, <2>1, QuietStep
<1>10. CASE ProbeToneOff
  <2>1. /\ Doing("tone off") /\ mixed' = "user" /\ mixer' = [mixer EXCEPT ![4] = Word(FALSE)]
        /\ ctl' = (IF ctl = "tone" THEN "left on" ELSE ctl)
        /\ audio_mode' = audio_mode /\ iau_base' = iau_base /\ iau_regs' = iau_regs /\ iau' = iau
        /\ iec_buf' = iec_buf /\ lent' = lent /\ level' = level /\ rate' = rate
    BY <1>10 DEF ProbeToneOff, Tone, bufferVars
  <2>2. mixer' \in [0..8 -> [0..3 -> {0, 1}]]
    BY <1>1, <2>1, WordType
  <2>3. life # "out"
    <3>1. job # <<>> /\ job \in Seq(Steps) /\ job[1].do = "tone off"
      BY <2>1, StepTaken
    <3>2. life = "out" => job[1].do \in {"disable_apu", "init_ioc", "zero", "free", "kfree"}
      BY <3>1, RemovalAt
    <3> QED BY <3>1, <3>2
  <2>4. ctl' \in {"off", "ntsc", "tone", "left on"}
    BY <1>1, <2>1
  <2> QED BY <1>1, <2>1, <2>2, <2>3, <2>4, QuietStep
<1> QED BY <1>2, <1>3, <1>4, <1>5, <1>6, <1>7, <1>8, <1>9, <1>10

LEMMA AllocFailsInv == ASSUME AudioInv, AllocFails PROVE AudioInv'
<1> USE DEF AudioInv
<1>1. /\ job # <<>> /\ job \in Seq(Steps) /\ job[1].do = "alloc"
  BY ListRest DEF AllocFails, AudioTypeOK
<1>2. life = "in"
  <2>1. life = "out" => job[1].do \in {"disable_apu", "init_ioc", "zero", "free", "kfree"}
    BY <1>1, RemovalAt
  <2> QED BY <1>1, <2>1 DEF AudioTypeOK
<1>3. /\ job' = NtscAudio /\ kind' = kind /\ life' = life /\ ctl' = ctl
      /\ audio_mode' = audio_mode /\ iau_base' = iau_base /\ iau_regs' = iau_regs /\ iau' = iau
      /\ iec_buf' = iec_buf /\ lent' = lent /\ mixer' = mixer /\ level' = level /\ rate' = rate
      /\ mixed' = mixed
  BY DEF AllocFails, bufferVars
<1>4. job' \in Seq(Steps) /\ WellOrdered(job') /\ \E i \in 1..Len(job') : job'[i].do = "ntsc"
  BY <1>3, NtscOrdered
<1>5. AudioTypeOK' /\ Registers' /\ JobPlaces' /\ MatrixSet' /\ Removing'
  <2>1. AudioTypeOK'
    BY <1>3, <1>4 DEF AudioTypeOK
  <2>2. Registers'
    BY <1>3 DEF Registers, Whole
  <2>3. JobPlaces'
    BY <1>4, PlacesOfNewList
  <2>4. MatrixSet' /\ Removing'
    BY <1>2, <1>3, <1>4 DEF MatrixSet, Removing
  <2> QED BY <2>1, <2>2, <2>3, <2>4
<1>6. RateSet'
  <2>1. ~Half(job[1])
    BY <1>1 DEF Half
  <2>2. job' # <<>> => ~Half(job'[1])
    <3> SUFFICES ASSUME job' # <<>>, Half(job'[1]) PROVE FALSE
      OBVIOUS
    <3>1. 1 \in 1..Len(job')
      BY <1>4, ListRest
    <3> QED BY <1>4, <3>1 DEF WellOrdered
  <2> QED BY <1>3, <2>1, <2>2 DEF RateSet, Half
<1> QED BY <1>5, <1>6

(* A new list begins where no line is half set.                                *)
LEMMA NewListRate ==
  ASSUME RateSet, job = <<>>, job' = <<>> \/ (job' \in Seq(Steps) /\ WellOrdered(job')),
         kind' = kind, level' = level, rate' = rate
  PROVE  RateSet'
<1>1. job' # <<>> => ~Half(job'[1])
  <2> SUFFICES ASSUME job' # <<>>, Half(job'[1]) PROVE FALSE
    OBVIOUS
  <2>1. 1 \in 1..Len(job')
    BY ListRest
  <2> QED BY <2>1 DEF WellOrdered
<1> QED BY <1>1 DEF RateSet, Half

LEMMA AudioProbeInv == ASSUME AudioInv, AudioProbe PROVE AudioInv'
<1> USE DEF AudioInv
<1>1. /\ life = "out" /\ job = <<>> /\ life' = "in" /\ job' = ProbeSteps /\ kind' = kind
      /\ audio_mode' = 0 /\ iau_base' = 0 /\ iau_regs' = Unset /\ iec_buf' = "null"
      /\ iau' = iau /\ lent' = lent /\ ctl' = ctl /\ mixer' = mixer /\ level' = level
      /\ rate' = rate /\ mixed' = mixed
  BY DEF AudioProbe
<1>2. iau_base = 0
  BY <1>1 DEF Removing
<1>3. Zeroed' /\ lent' = {iau_base'} \ {0}
  BY <1>1, <1>2, NoBuffer DEF Zeroed, Registers
<1>4. Registers'
  BY <1>3, ZeroedRegisters
<1>5. job' \in Seq(Steps) /\ WellOrdered(job') /\ \E i \in 1..Len(job') : job'[i].do = "ntsc"
  BY <1>1, ProbeOrdered
<1>6. AudioTypeOK'
  BY <1>1, <1>5 DEF AudioTypeOK, Unset
<1>7. JobPlaces' /\ RateSet' /\ MatrixSet' /\ Removing'
  <2>1. JobPlaces'
    BY <1>5, PlacesOfNewList
  <2>2. RateSet'
    BY <1>1, <1>5, NewListRate
  <2>3. MatrixSet' /\ Removing'
    BY <1>1, <1>5 DEF MatrixSet, Removing
  <2> QED BY <2>1, <2>2, <2>3
<1> QED BY <1>4, <1>6, <1>7

LEMMA AudioRemoveInv == ASSUME AudioInv, AudioRemove PROVE AudioInv'
<1> USE DEF AudioInv
<1>1. /\ life = "in" /\ job = <<>> /\ life' = "out" /\ job' = RemoveSteps /\ kind' = kind
      /\ audio_mode' = audio_mode /\ iau_base' = iau_base /\ iau_regs' = iau_regs /\ iau' = iau
      /\ iec_buf' = iec_buf /\ lent' = lent /\ ctl' = ctl /\ mixer' = mixer /\ level' = level
      /\ rate' = rate /\ mixed' = mixed
  BY DEF AudioRemove, bufferVars
<1>2. job' \in Seq(Steps) /\ WellOrdered(job') /\ Len(job') = 6
  BY <1>1, RemoveOrdered
<1>3. AudioTypeOK'
  BY <1>1, <1>2 DEF AudioTypeOK
<1>4. Registers'
  BY <1>1 DEF Registers, Whole
<1>5. JobPlaces'
  BY <1>2, PlacesOfNewList
<1>6. RateSet'
  BY <1>1, <1>2, NewListRate
<1>7. MatrixSet'
  BY <1>1 DEF MatrixSet
<1>8. Removing'
  <2>1. \A i \in 1..6 : job'[i].do = RemoveNames[i]
    BY <1>1, RemoveOrdered
  <2>2. \A i \in 1..6 : 6 - 6 + i = i
    OBVIOUS
  <2>3. \A i \in 1..Len(job') : job'[i].do = RemoveNames[6 - Len(job') + i]
    BY <1>2, <2>1, <2>2
  <2> QED BY <1>2, <2>3 DEF Removing
<1> QED BY <1>3, <1>4, <1>5, <1>6, <1>7, <1>8

LEMMA OthersInv ==
  ASSUME AudioInv,
         \/ \E on \in BOOLEAN : UserTones(on)
         \/ \E l \in {8, 9}, s \in 0..2 : UserSetsRateLine(l, s)
         \/ \E r \in Rates \cup {Unknown} : HwRate(r)
         \/ UNCHANGED audioVars
  PROVE  AudioInv'
<1> USE DEF AudioInv
<1>1. ASSUME NEW on \in BOOLEAN, UserTones(on) PROVE AudioInv'
  <2>1. /\ life = "in" /\ mixed' = "user" /\ mixer' = [mixer EXCEPT ![4] = Word(on)]
        /\ ctl' = (IF on THEN "tone" ELSE IF ctl = "tone" THEN "left on" ELSE ctl)
        /\ kind' = kind /\ life' = life /\ job' = job
        /\ audio_mode' = audio_mode /\ iau_base' = iau_base /\ iau_regs' = iau_regs /\ iau' = iau
        /\ iec_buf' = iec_buf /\ lent' = lent /\ level' = level /\ rate' = rate
    BY <1>1 DEF UserTones, Tone, bufferVars
  <2>2. mixer' \in [0..8 -> [0..3 -> {0, 1}]]
    BY <2>1, WordType DEF AudioTypeOK
  <2>3. ctl' \in {"off", "ntsc", "tone", "left on"}
    BY <2>1 DEF AudioTypeOK
  <2>4. AudioTypeOK'
    BY <2>1, <2>2, <2>3 DEF AudioTypeOK
  <2>5. Registers' /\ JobPlaces'
    BY <2>1 DEF Registers, Whole, JobPlaces, Zeroed
  <2> QED BY <2>1, <2>4, <2>5 DEF RateSet, MatrixSet, Removing
<1>2. ASSUME NEW l \in {8, 9}, NEW s \in 0..2, UserSetsRateLine(l, s) PROVE AudioInv'
  <2>1. /\ level' = Driven(l, s) /\ rate' = 0
        /\ kind' = kind /\ life' = life /\ job' = job
        /\ audio_mode' = audio_mode /\ iau_base' = iau_base /\ iau_regs' = iau_regs /\ iau' = iau
        /\ iec_buf' = iec_buf /\ lent' = lent /\ ctl' = ctl /\ mixer' = mixer /\ mixed' = mixed
    BY <1>2 DEF UserSetsRateLine, bufferVars
  <2>2. level' \in [{8, 9} -> 0..2]
    BY <2>1, DrivenType
  <2>3. AudioTypeOK'
    BY <2>1, <2>2 DEF AudioTypeOK
  <2>4. Registers' /\ JobPlaces'
    BY <2>1 DEF Registers, Whole, JobPlaces, Zeroed
  <2> QED BY <2>1, <2>3, <2>4 DEF RateSet, MatrixSet, Removing
<1>3. ASSUME NEW r \in Rates \cup {Unknown}, HwRate(r) PROVE AudioInv'
  <2>1. /\ life = "in" /\ job = <<>> /\ job' = (IF r \in Rates THEN SampleRate(r) ELSE <<>>)
        /\ kind' = kind /\ life' = life /\ level' = level /\ rate' = rate
        /\ audio_mode' = audio_mode /\ iau_base' = iau_base /\ iau_regs' = iau_regs /\ iau' = iau
        /\ iec_buf' = iec_buf /\ lent' = lent /\ ctl' = ctl /\ mixer' = mixer /\ mixed' = mixed
    BY <1>3 DEF HwRate, bufferVars
  <2>2. job' \in Seq(Steps) /\ WellOrdered(job')
    BY <2>1, SampleRateOrdered, NoCallOrdered
  <2>3. AudioTypeOK'
    BY <2>1, <2>2 DEF AudioTypeOK
  <2>4. Registers'
    BY <2>1 DEF Registers, Whole
  <2>5. JobPlaces'
    BY <2>2, PlacesOfNewList
  <2>6. RateSet'
    BY <2>1, <2>2, NewListRate
  <2>7. MatrixSet' /\ Removing'
    BY <2>1 DEF MatrixSet, Removing
  <2> QED BY <2>3, <2>4, <2>5, <2>6, <2>7
<1>4. CASE UNCHANGED audioVars
  <2>1. /\ kind' = kind /\ life' = life /\ job' = job /\ level' = level /\ rate' = rate
        /\ audio_mode' = audio_mode /\ iau_base' = iau_base /\ iau_regs' = iau_regs /\ iau' = iau
        /\ iec_buf' = iec_buf /\ lent' = lent /\ ctl' = ctl /\ mixer' = mixer /\ mixed' = mixed
    BY <1>4 DEF audioVars, bufferVars
  <2>2. AudioTypeOK'
    BY <2>1 DEF AudioTypeOK
  <2>3. Registers' /\ JobPlaces'
    BY <2>1 DEF Registers, Whole, JobPlaces, Zeroed
  <2> QED BY <2>1, <2>2, <2>3 DEF RateSet, MatrixSet, Removing
<1> QED BY <1>1, <1>2, <1>3, <1>4

LEMMA AudioInvInit == AudioInit => AudioInv
<1> SUFFICES ASSUME AudioInit PROVE AudioInv
  OBVIOUS
<1>1. AudioTypeOK
  <2>1. mixer \in [0..8 -> [0..3 -> {0, 1}]] /\ level \in [{8, 9} -> 0..2]
    BY DEF AudioInit
  <2>2. <<>> \in Seq(Steps) /\ DOMAIN iau = {0, 1}
    BY DEF AudioInit
  <2> QED BY <2>1, <2>2 DEF AudioInit, AudioTypeOK, Unset
<1>2. Registers
  BY DEF AudioInit, Registers
<1>3. JobPlaces /\ RateSet /\ MatrixSet /\ Removing
  BY DEF AudioInit, JobPlaces, RateSet, MatrixSet, Removing
<1> QED BY <1>1, <1>2, <1>3 DEF AudioInv

LEMMA AudioInvStep == AudioInv /\ [AudioNext]_audioVars => AudioInv'
<1> SUFFICES ASSUME AudioInv, [AudioNext]_audioVars PROVE AudioInv'
  OBVIOUS
<1> QED BY AudioProbeInv, AudioRemoveInv, SetRateLineInv, DoingInv, AllocFailsInv, InitIauRegInv,
           InitNtscInv, OthersInv DEF AudioNext

LEMMA AudioInvHolds == AudioSpec => []AudioInv
<1> QED BY AudioInvInit, AudioInvStep, PTL DEF AudioSpec

-------------------------------------------------------------------------------
(* The matrix.                                                                *)

Matrices == [0..8 -> [0..3 -> {0, 1}]]

LEMMA CrossfadeType ==
  ASSUME NEW m \in Matrices, NEW a \in 0..2, NEW b \in 0..1, NEW g \in [1..6 -> {0, 1}]
  PROVE  Crossfade(m, a, b, g) \in Matrices
<1>1. Crossfade(m, a, b, g) =
        [r \in 0..8 |->
            IF r \div 3 # a THEN m[r]
            ELSE [i \in 0..3 |-> IF i \div 2 = b THEN g[2 * (r % 3) + (i % 2) + 1] ELSE m[r][i]]]
  BY DEF Crossfade
<1>2. \A r \in 0..8, i \in 0..3 : 2 * (r % 3) + (i % 2) + 1 \in 1..6
  OBVIOUS
<1> QED BY <1>1, <1>2 DEF Matrices

(* An output is crossed to the gains it is given, and no other is touched.     *)
LEMMA CrossfadeGains ==
  ASSUME NEW m \in Matrices, NEW a \in 0..2, NEW b \in 0..1, NEW g \in [1..6 -> {0, 1}],
         NEW out \in 0..5, NEW in \in 0..5
  PROVE  Gain(Crossfade(m, a, b, g), out, in) =
           IF out = 2 * a + b THEN g[in + 1] ELSE Gain(m, out, in)
<1> DEFINE n == Crossfade(m, a, b, g)
           h == out \div 2
           q == out % 2
           u == in \div 2
           v == in % 2
<1>1. /\ h \in 0..2 /\ q \in 0..1 /\ out = 2 * h + q
      /\ u \in 0..2 /\ v \in 0..1 /\ in = 2 * u + v
  OBVIOUS
<1>2. n = [r \in 0..8 |->
            IF r \div 3 # a THEN m[r]
            ELSE [i \in 0..3 |-> IF i \div 2 = b THEN g[2 * (r % 3) + (i % 2) + 1] ELSE m[r][i]]]
  BY DEF Crossfade
<1> HIDE DEF n, h, q, u, v
<1>3. /\ (3 * h + u) \div 3 = h /\ (3 * h + u) % 3 = u /\ 3 * h + u \in 0..8
      /\ (2 * q + v) \div 2 = q /\ (2 * q + v) % 2 = v /\ 2 * q + v \in 0..3
  BY <1>1
<1>4. n[3 * h + u][2 * q + v] =
        IF h = a /\ q = b THEN g[2 * u + v + 1] ELSE m[3 * h + u][2 * q + v]
  BY <1>2, <1>3
<1>5. out = 2 * a + b <=> h = a /\ q = b
  BY <1>1
<1>6. /\ Gain(n, out, in) = n[3 * h + u][2 * q + v]
      /\ Gain(m, out, in) = m[3 * h + u][2 * q + v]
  BY DEF Gain, h, q, u, v
<1> QED BY <1>1, <1>4, <1>5, <1>6 DEF n

(* Whatever the matrix was, tl880_apu_start_ioc routes every input to its own  *)
(* output: the six calls each set one row.                                    *)
LEMMA StartIocIsIdentity == ASSUME NEW m \in Matrices PROVE IsIdentity(StartIocMatrix(m))
<1> DEFINE c(x, a, b) == Crossfade(x, a, b, Unit(2 * a + b + 1))
<1>1. \A k \in 1..6 : Unit(k) \in [1..6 -> {0, 1}] /\ \A i \in 1..6 : Unit(k)[i] = IF i = k THEN 1 ELSE 0
  BY DEF Unit
<1>2. ASSUME NEW x \in Matrices, NEW a \in 0..2, NEW b \in 0..1
      PROVE  /\ c(x, a, b) \in Matrices
             /\ \A out, in \in 0..5 :
                  Gain(c(x, a, b), out, in) =
                    IF out = 2 * a + b THEN (IF in = out THEN 1 ELSE 0) ELSE Gain(x, out, in)
  <2>1. 2 * a + b + 1 \in 1..6 /\ Unit(2 * a + b + 1) \in [1..6 -> {0, 1}]
    <3>1. 2 * a + b + 1 \in 1..6
      OBVIOUS
    <3> QED BY <1>1, <3>1
  <2>2. c(x, a, b) \in Matrices
    BY <2>1, CrossfadeType
  <2>3. ASSUME NEW out \in 0..5, NEW in \in 0..5
        PROVE  Gain(c(x, a, b), out, in) =
                 IF out = 2 * a + b THEN (IF in = out THEN 1 ELSE 0) ELSE Gain(x, out, in)
    <3>1. Gain(c(x, a, b), out, in) =
            IF out = 2 * a + b THEN Unit(2 * a + b + 1)[in + 1] ELSE Gain(x, out, in)
      BY <1>1, <2>1, CrossfadeGains
    <3>2. Unit(2 * a + b + 1)[in + 1] = IF in + 1 = 2 * a + b + 1 THEN 1 ELSE 0
      BY <1>1, <2>1
    <3> QED BY <3>1, <3>2
  <2> QED BY <2>2, <2>3
<1> DEFINE m1 == c(m, 0, 0)
           m2 == c(m1, 0, 1)
           m3 == c(m2, 1, 0)
           m4 == c(m3, 1, 1)
           m5 == c(m4, 2, 0)
           m6 == c(m5, 2, 1)
<1>3. StartIocMatrix(m) = m6
  BY DEF StartIocMatrix
<1> HIDE DEF c
<1>4. m1 \in Matrices /\ \A out, in \in 0..5 : out = 0 => Gain(m1, out, in) = IF in = out THEN 1 ELSE 0
  BY <1>2
<1> HIDE DEF m1
<1>5. m2 \in Matrices /\ \A out, in \in 0..5 : out <= 1 => Gain(m2, out, in) = IF in = out THEN 1 ELSE 0
  BY <1>2, <1>4
<1> HIDE DEF m2
<1>6. m3 \in Matrices /\ \A out, in \in 0..5 : out <= 2 => Gain(m3, out, in) = IF in = out THEN 1 ELSE 0
  BY <1>2, <1>5
<1> HIDE DEF m3
<1>7. m4 \in Matrices /\ \A out, in \in 0..5 : out <= 3 => Gain(m4, out, in) = IF in = out THEN 1 ELSE 0
  BY <1>2, <1>6
<1> HIDE DEF m4
<1>8. m5 \in Matrices /\ \A out, in \in 0..5 : out <= 4 => Gain(m5, out, in) = IF in = out THEN 1 ELSE 0
  BY <1>2, <1>7
<1> HIDE DEF m5
<1>9. m6 \in Matrices /\ \A out, in \in 0..5 : out <= 5 => Gain(m6, out, in) = IF in = out THEN 1 ELSE 0
  BY <1>2, <1>8
<1> HIDE DEF m6
<1> QED BY <1>3, <1>9 DEF IsIdentity

(* The matrix of tl880_init_ntsc_audio is the same.                            *)
LEMMA NtscIsIdentity == IsIdentity(NtscMatrix)
<1> SUFFICES ASSUME NEW out \in 0..5, NEW in \in 0..5
             PROVE  Gain(NtscMatrix, out, in) = IF out = in THEN 1 ELSE 0
  BY DEF IsIdentity
<1> DEFINE h == out \div 2
           q == out % 2
           u == in \div 2
           v == in % 2
<1>1. /\ h \in 0..2 /\ q \in 0..1 /\ out = 2 * h + q
      /\ u \in 0..2 /\ v \in 0..1 /\ in = 2 * u + v
  OBVIOUS
<1>2. Gain(NtscMatrix, out, in) = NtscMatrix[3 * h + u][2 * q + v]
  BY DEF Gain
<1> HIDE DEF h, q, u, v
<1>3. 3 * h + u \in 0..8 /\ 2 * q + v \in 0..3
  BY <1>1
<1>4. NtscMatrix[3 * h + u][2 * q + v] =
        IF 3 * h + u \in {0, 4, 8} /\ 2 * q + v \in {0, 3} THEN 1 ELSE 0
  BY <1>3 DEF NtscMatrix, Word
<1>5. 3 * h + u \in {0, 4, 8} <=> h = u
  BY <1>1
<1>6. 2 * q + v \in {0, 3} <=> q = v
  BY <1>1
<1>7. out = in <=> h = u /\ q = v
  BY <1>1
<1> QED BY <1>2, <1>4, <1>5, <1>6, <1>7

LEMMA AlwaysStartsAsIdentity == StartsAsIdentity
<1>1. \A k \in {0, 1} : [r \in 0..8 |-> [i \in 0..3 |-> k]] \in Matrices
  BY DEF Matrices
<1>2. NtscMatrix \in Matrices
  BY NtscMatrixType DEF Matrices
<1> QED BY <1>1, <1>2, StartIocIsIdentity DEF StartsAsIdentity

LEMMA RatePairsDiffer == \A r, s \in Rates : RatePair(r) = RatePair(s) => r = s
  BY RatePairs DEF Rates

-------------------------------------------------------------------------------
(* Theorems.                                                                   *)

\* The registers, the matrix and the levels of the lines keep their types, and what a
\* probe or a removal has still to do is always made of calls of the driver
\* (tl880_init_hardware_audio 38-77, tl880_deinit_hardware_audio 79-90).
THEOREM AudioTypeCorrect == AudioSpec => []AudioTypeOK
<1>1. AudioInv => AudioTypeOK
  BY DEF AudioInv
<1> QED BY AudioInvHolds, <1>1, PTL

\* For any buffers the pool may lend, no register of the audio unit points to memory that
\* the driver does not hold at that moment, also when a probe gets no buffer or a new
\* struct follows an old one, and a removal leaves nothing behind: every free comes after
\* the zeroing of the registers of the mode that the struct names, and those of the other
\* mode are zero by then (tl880_deinit_hardware_audio 81-89, tl880_apu_init_iau_reg
\* 114-117, tl880_apu_init_ioc 126-128).
THEOREM BufferAlwaysOwned == AudioSpec => []BufferOwned
<1>1. ASSUME AudioInv PROVE BufferOwned
  <2> USE <1>1 DEF AudioInv
  <2>1. ASSUME NEW m \in {0, 1}, NEW k \in 1..3, iau[m][k] # 0
        PROVE  \E b \in lent : iau[m][k] \in b..(b + BufferLen - 1)
    <3>1. iau[m] \in {Zeros, Whole(iau_base)}
      BY DEF Registers
    <3>2. \A i \in 1..3 : Zeros[i] = 0
      BY DEF Zeros
    <3>3. iau[m] # Zeros
      BY <2>1, <3>2
    <3>4. iau[m] = Whole(iau_base) /\ iau_base # 0
      BY <3>1, <3>3 DEF Registers
    <3>5. iau_base \in lent /\ iau_base \in Nat /\ BufferLen \in Nat \ {0}
      BY <3>4, BasesAssumption DEF Registers, AudioTypeOK
    <3>6. /\ iau_base \in iau_base..(iau_base + BufferLen - 1)
          /\ iau_base + BufferLen - 1 \in iau_base..(iau_base + BufferLen - 1)
      BY <3>5
    <3>7. iau[m][k] \in {iau_base, iau_base + BufferLen - 1}
      BY <3>4 DEF Whole
    <3> QED BY <3>5, <3>6, <3>7
  <2>2. lent = {iau_base} \ {0}
    BY DEF Registers
  <2>3. life = "out" /\ job = <<>> => lent = {} /\ iec_buf = "null" /\ ctl = "off"
    BY <2>2 DEF Removing
  <2> QED BY <2>1, <2>2, <2>3 DEF BufferOwned
<1> QED BY AudioInvHolds, <1>1, PTL

\* Whichever of the two routines set them, the lines of a card with three levels stand for
\* the rate asked for last once nothing is under way, and for no other rate; every input
\* goes to its own output, and tl880_apu_start_ioc would route it there from the empty
\* and from the full matrix and from that of tl880_init_ntsc_audio
\* (tl880_set_sampling_clock 492-515, tl880_set_samplerate 529-566,
\* tl880_audio_set_crossfade 180-314, tl880_init_ntsc_audio 368-376).
THEOREM AudioAlwaysAsAsked == AudioSpec => []AudioAsAsked
<1>1. ASSUME AudioInv PROVE AudioAsAsked
  <2> USE <1>1 DEF AudioInv
  <2>1. ASSUME kind = "MDP100", job = <<>>, rate # 0
        PROVE  {r \in Rates : RatePair(r) = <<level[8], level[9]>>} = {rate}
    <3>1. RatePair(rate) = <<level[8], level[9]>> /\ rate \in Rates
      BY <2>1 DEF RateSet, AudioTypeOK
    <3> QED BY <3>1, RatePairsDiffer
  <2>2. life = "in" /\ job = <<>> /\ mixed = "driver" => IsIdentity(mixer)
    BY NtscIsIdentity DEF MatrixSet
  <2> QED BY <2>1, <2>2, AlwaysStartsAsIdentity DEF AudioAsAsked
<1> QED BY AudioInvHolds, <1>1, PTL

-------------------------------------------------------------------------------
(* Remainders, which the provers know only by quotients.                     *)

LEMMA DivMod ==
  ASSUME NEW a \in Nat, NEW s \in Nat \ {0}
  PROVE  a = s * (a \div s) + (a % s) /\ a % s \in 0..(s - 1) /\ a \div s \in Nat
  OBVIOUS

LEMMA NoMultiple ==
  ASSUME NEW k \in Int, NEW s \in Nat \ {0}, s * k < s, s * k > -s
  PROVE  k = 0
  OBVIOUS

LEMMA ModUnique ==
  ASSUME NEW a \in Nat, NEW q \in Int, NEW s \in Nat \ {0}, NEW r \in 0..(s - 1), a = s * q + r
  PROVE  a % s = r
<1> DEFINE h == a \div s
           t == a % s
<1>1. a = s * h + t /\ t \in 0..(s - 1) /\ h \in Nat
  BY DivMod
<1> HIDE DEF h, t
<1>2. s * (q - h) = s * q - s * h /\ s * q \in Int /\ s * h \in Int
  BY <1>1
<1>3. q - h = 0
  BY <1>1, <1>2, NoMultiple
<1>4. t = r
  BY <1>1, <1>2, <1>3
<1> QED BY <1>4 DEF t

(* A position inside the ring and what follows it without a wrap.            *)
LEMMA ModAhead ==
  ASSUME NEW a \in Nat, NEW i \in Nat, NEW s \in Nat \ {0}, (a % s) + i < s
  PROVE  (a + i) % s = (a % s) + i
<1>1. a = s * (a \div s) + (a % s) /\ a % s \in 0..(s - 1) /\ a \div s \in Nat
  BY DivMod
<1> QED BY <1>1, ModUnique

(* Two positions less than a ring apart are different places.                *)
LEMMA ModDiffer ==
  ASSUME NEW a \in Nat, NEW b \in Nat, NEW s \in Nat \ {0}, a < b, b < a + s
  PROVE  a % s # b % s
<1> SUFFICES ASSUME a % s = b % s PROVE FALSE
  OBVIOUS
<1> DEFINE h == a \div s
           q == b \div s
           r == a % s
<1>1. a = s * h + r /\ h \in Nat /\ b = s * q + r /\ q \in Nat /\ r \in 0..(s - 1)
  BY DivMod
<1> HIDE DEF h, q, r
<1>2. s * (q - h) = s * q - s * h /\ s * q \in Int /\ s * h \in Int
  BY <1>1
<1>3. q - h = 0
  BY <1>1, <1>2, NoMultiple
<1> QED BY <1>1, <1>3

-------------------------------------------------------------------------------
(* The samples in card memory.                                                *)

OnlyTheRing ==
  \A a \in Words \ RingWords : mem[a] = Foreign \/ (mem[a] = Ones /\ a < RingBase + LineWords)


(* A transfer fits into the room that was free when it began, and does not wrap. *)
Room ==
  /\ put <= asked /\ appl + asked <= MaxFrames /\ played <= appl
  /\ asked > 0 => (appl % size) + asked <= size
  /\ Lasting => appl + asked <= played + size

InPlace ==
  Lasting => \A n \in 1..(appl + put) : n > wiped /\ n > played => mem[Place(n)] = n

CopyInv == CopyTypeOK /\ Room /\ OnlyTheRing /\ InPlace

LEMMA CopyBounds ==
  ASSUME CopyTypeOK
  PROVE  /\ appl \in Nat /\ put \in Nat /\ asked \in Nat /\ played \in Nat /\ wiped \in Nat
         /\ appl <= MaxFrames /\ put <= MaxFrames /\ asked <= MaxFrames
         /\ played <= MaxFrames /\ wiped <= MaxFrames
         /\ size \in RingSizes /\ size \in Nat \ {0} /\ RingBase + size <= MemWords
         /\ RingBase \in Nat /\ MemWords \in Nat /\ MaxFrames \in Nat /\ LineWords \in Nat
  BY RingSizesAssumption, RingFitsAssumption DEF CopyTypeOK

(* The frames of a stream lie in the ring, one after the other, and no two that *)
(* are waiting to be played lie in one place.                                *)
LEMMA PlaceInRing ==
  ASSUME CopyTypeOK, NEW n \in Nat, n > 0
  PROVE  /\ Place(n) \in RingBase..(RingBase + size - 1)
         /\ Place(n) \in Words /\ Place(n) \in RingWords /\ Place(n) < MemWords
<1>1. (n - 1) % size \in 0..(size - 1)
  BY CopyBounds, DivMod
<1>2. Place(n) \in RingBase..(RingBase + size - 1)
  BY <1>1, CopyBounds DEF Place
<1> QED BY <1>2, CopyBounds DEF Words, RingWords

LEMMA PlaceAhead ==
  ASSUME CopyTypeOK, NEW i \in Nat, (appl % size) + i < size
  PROVE  Place(appl + 1) + i = Place(appl + i + 1)
<1>0. appl \in Nat /\ size \in Nat \ {0}
  BY CopyBounds
<1>1. (appl + i) % size = (appl % size) + i /\ appl % size \in Nat
  <2>1. (appl + i) % size = (appl % size) + i
    BY <1>0, ModAhead
  <2>2. appl % size \in 0..(size - 1)
    BY <1>0, DivMod
  <2> QED BY <1>0, <2>1, <2>2
<1>2. (appl + 1) - 1 = appl /\ (appl + i + 1) - 1 = appl + i
  BY CopyBounds
<1> QED BY <1>1, <1>2, CopyBounds DEF Place

LEMMA PlacesDiffer ==
  ASSUME CopyTypeOK, NEW m \in Nat, NEW n \in Nat, 0 < m, m < n, n < m + size
  PROVE  Place(m) # Place(n)
<1>1. (m - 1) % size # (n - 1) % size
  BY CopyBounds, ModDiffer
<1>2. (m - 1) % size \in Int /\ (n - 1) % size \in Int
  <2>1. m - 1 \in Nat /\ n - 1 \in Nat /\ size \in Nat \ {0}
    BY CopyBounds
  <2>2. (m - 1) % size \in 0..(size - 1) /\ (n - 1) % size \in 0..(size - 1)
    BY <2>1, DivMod
  <2> QED BY <2>1, <2>2
<1> QED BY <1>1, <1>2, CopyBounds DEF Place

(* A transfer of the ALSA core is never cut short.                           *)
LEMMA AllCopied ==
  ASSUME CopyInv
  PROVE  Copied(Place(appl + 1), asked) = asked
<1>1. appl \in Nat /\ size \in Nat \ {0} /\ (appl + 1) - 1 = appl
  BY CopyBounds DEF CopyInv
<1>2. Place(appl + 1) = RingBase + (appl % size) /\ appl % size \in 0..(size - 1)
  BY <1>1, DivMod DEF Place
<1> QED BY <1>2, CopyBounds DEF Copied, CopyInv, Room

LEMMA ClearedType ==
  ASSUME CopyTypeOK, NEW from, NEW to, NEW v \in {Silence, Ones}
  PROVE  Cleared(from, to, v) \in [Words -> {Foreign, Silence, Ones} \cup 1..MaxFrames]
  BY DEF CopyTypeOK, Cleared

LEMMA ClearedElsewhere ==
  ASSUME NEW from, NEW to, NEW v, NEW a \in Words, a \notin from..(to - 1)
  PROVE  Cleared(from, to, v)[a] = mem[a]
  BY DEF Cleared

(* What lies outside the ring stays as it is when the ring is cleared.         *)
LEMMA ClearedInRing ==
  ASSUME CopyInv, NEW a \in Words \ RingWords, NEW from \in Int, NEW to \in Int,
         RingBase <= from, to <= RingBase + size
  PROVE  Cleared(from, to, Silence)[a] = mem[a]
<1>1. a \notin RingBase..(RingBase + size - 1) /\ a \in Int
  BY CopyBounds DEF RingWords, CopyInv, Words
<1> QED BY <1>1, CopyBounds DEF Cleared, CopyInv

-------------------------------------------------------------------------------
LEMMA CopyInit1 == CopyInit => CopyInv
<1> SUFFICES ASSUME CopyInit PROVE CopyInv
  OBVIOUS
<1>1. CopyTypeOK
  BY RingFitsAssumption DEF CopyInit, CopyTypeOK
<1> QED BY <1>1, CopyBounds DEF CopyInit, CopyInv, Room, OnlyTheRing, InPlace, Lasting

LEMMA CopyStep == CopyInv /\ [CopyNext]_copyVars => CopyInv'
<1> SUFFICES ASSUME CopyInv, [CopyNext]_copyVars PROVE CopyInv'
  OBVIOUS
<1> USE DEF CopyInv
<1>1. /\ appl \in Nat /\ put \in Nat /\ asked \in Nat /\ played \in Nat /\ wiped \in Nat
      /\ size \in Nat \ {0} /\ MaxFrames \in Nat
  BY CopyBounds
<1>2. RingBase \in Int /\ RingBase + size \in Int
  BY CopyBounds
<1>3. ASSUME NEW n \in RingSizes, SetParams(n) PROVE CopyInv'
  <2>1. CopyTypeOK'
    BY <1>3 DEF SetParams, CopyTypeOK
  <2> QED BY <1>3, <2>1 DEF SetParams, Room, OnlyTheRing, InPlace, Lasting
<1>4. CASE PrepareRing
  <2>1. CopyTypeOK'
    BY <1>1, <1>4, ClearedType DEF PrepareRing, CopyTypeOK, RingCleared
  <2>2. OnlyTheRing'
    BY <1>2, <1>4, ClearedInRing DEF PrepareRing, RingCleared, OnlyTheRing
  <2> QED BY <1>1, <1>4, <2>1, <2>2, CopyBounds DEF PrepareRing, Room, InPlace, Lasting
<1>5. CASE StartRing
  <2>1. CopyTypeOK'
    BY <1>1, <1>5, ClearedType DEF StartRing, CopyTypeOK, RingCleared, Room
  <2>2. OnlyTheRing'
    BY <1>2, <1>5, ClearedInRing DEF StartRing, RingCleared, OnlyTheRing
  <2>3. Room' /\ InPlace'
    BY <1>1, <1>5 DEF StartRing, Room, InPlace, Lasting
  <2> QED BY <2>1, <2>2, <2>3
<1>6. CASE ResumeRing \/ StopRing \/ Underrun
  <2>1. CopyTypeOK'
    BY <1>6 DEF ResumeRing, StopRing, Underrun, CopyTypeOK
  <2>2. /\ mem' = mem /\ size' = size /\ appl' = appl /\ put' = put /\ asked' = asked
        /\ played' = played /\ wiped' = wiped
        /\ Lasting' => Lasting
    BY <1>6 DEF ResumeRing, StopRing, Underrun, Lasting
  <2> QED BY <2>1, <2>2 DEF Room, OnlyTheRing, InPlace, Place
<1>7. ASSUME NEW n \in 1..MaxFrames, CopyBegins(n) PROVE CopyInv'
  <2>1. CopyTypeOK'
    BY <1>1, <1>7 DEF CopyBegins, CopyTypeOK
  <2>2. Room'
    BY <1>1, <1>7 DEF CopyBegins, Room, Lasting
  <2> QED BY <1>7, <2>1, <2>2 DEF CopyBegins, OnlyTheRing, InPlace, Lasting, Place
<1>8. ASSUME NEW n \in 1..MaxFrames, SilenceAhead(n) PROVE CopyInv'
  <2>0. PICK at : at = Place(appl + 1)
    OBVIOUS
  <2>1. /\ asked = 0 /\ put = 0 /\ n > 0 /\ appl + n - played <= size /\ (appl % size) + n <= size
        /\ mem' = Cleared(at, at + n, Silence)
        /\ state' = state /\ size' = size /\ appl' = appl /\ put' = put /\ asked' = asked
        /\ played' = played /\ wiped' = wiped
    BY <1>1, <1>8, <2>0 DEF SilenceAhead, Room
  <2>2. CopyTypeOK'
    BY <2>1, ClearedType DEF CopyTypeOK
  <2>3. at = RingBase + (appl % size) /\ appl % size \in 0..(size - 1) /\ n \in Nat
          /\ at \in Nat
    <3>1. (appl + 1) - 1 = appl
      BY <1>1
    <3>2. appl % size \in 0..(size - 1)
      BY <1>1, DivMod
    <3> QED BY <1>1, <2>0, <3>1, <3>2, CopyBounds DEF Place
  <2>4. OnlyTheRing'
    <3>1. at \in Int /\ at + n \in Int /\ RingBase <= at /\ at + n <= RingBase + size
      BY <1>1, <1>2, <2>1, <2>3, CopyBounds
    <3> QED BY <2>1, <3>1, ClearedInRing DEF OnlyTheRing
  <2>5. Room'
    BY <2>1 DEF Room, Lasting
  <2>6. ASSUME NEW k \in 1..(appl + put), k > wiped, k > played, Lasting PROVE mem'[Place(k)] = k
    <3>1. Place(k) \in Words /\ Place(k) \in Int /\ mem[Place(k)] = k
      BY <1>1, <2>6, PlaceInRing DEF InPlace, Words
    <3>2. Place(k) \notin at..((at + n) - 1)
      <4> SUFFICES ASSUME Place(k) \in at..((at + n) - 1) PROVE FALSE
        OBVIOUS
      <4> DEFINE i == Place(k) - at
      <4>1. i \in Nat /\ i < n /\ Place(k) = at + i
        BY <2>3, <3>1
      <4> HIDE DEF i
      <4>2. Place(k) = Place(appl + i + 1)
        <5>1. (appl % size) + i < size
          BY <1>1, <2>1, <2>3, <4>1
        <5>2. Place(appl + 1) + i = Place(appl + i + 1)
          BY <4>1, <5>1, PlaceAhead
        <5> QED BY <2>0, <4>1, <5>2
      <4>3. k < appl + i + 1 /\ appl + i + 1 < k + size
        BY <1>1, <2>1, <2>6, <4>1
      <4> QED BY <1>1, <4>1, <4>2, <4>3, PlacesDiffer
    <3>3. Cleared(at, at + n, Silence)[Place(k)] = mem[Place(k)]
      BY <3>1, <3>2, ClearedElsewhere
    <3>4. mem' = Cleared(at, at + n, Silence)
      BY <2>1
    <3> QED BY <3>1, <3>3, <3>4
  <2>7. InPlace'
    BY <2>1, <2>6 DEF InPlace, Lasting, Place
  <2> QED BY <2>2, <2>4, <2>5, <2>7
<1>9. CASE CopyStores
  <2> DEFINE at == Place(appl + 1) + put
  <2>1. /\ put < asked
        /\ mem' = [mem EXCEPT ![at] = appl + put + 1] /\ put' = put + 1
        /\ state' = state /\ size' = size /\ appl' = appl /\ asked' = asked
        /\ played' = played /\ wiped' = wiped
    BY <1>9, AllCopied DEF CopyStores
  <2>2. /\ at = Place(appl + put + 1) /\ appl + put + 1 \in 1..MaxFrames
        /\ asked > 0 /\ put + 1 <= asked
    <3>1. (appl % size) + asked <= size /\ appl % size \in Nat /\ asked > 0
      BY <1>1, <2>1, DivMod DEF Room
    <3>2. (appl % size) + put < size
      BY <1>1, <2>1, <3>1
    <3>3. at = Place(appl + put + 1)
      BY <1>1, <3>2, PlaceAhead
    <3> QED BY <1>1, <2>1, <3>1, <3>3 DEF Room
  <2>3. at \in RingWords /\ at \in Words
    BY <1>1, <2>2, PlaceInRing
  <2> HIDE DEF at
  <2>4. CopyTypeOK'
    BY <1>1, <2>1, <2>2, <2>3 DEF CopyTypeOK, Room
  <2>5. OnlyTheRing'
    BY <2>1, <2>3 DEF OnlyTheRing, CopyTypeOK
  <2>6. Room'
    BY <1>1, <2>1, <2>2 DEF Room, Lasting
  <2>7. ASSUME NEW k \in 1..(appl + put + 1), k > wiped, k > played, Lasting
        PROVE  mem'[Place(k)] = k
    <3>1. Place(k) \in Words
      BY <1>1, PlaceInRing
    <3>2. CASE k = appl + put + 1
      BY <2>1, <2>2, <2>3, <3>2 DEF CopyTypeOK
    <3>3. CASE k \in 1..(appl + put)
      <4>1. appl + put + 1 < k + size /\ k < appl + put + 1
        BY <1>1, <2>1, <2>7, <3>3 DEF Room
      <4>2. Place(k) # at
        BY <1>1, <2>2, <3>3, <4>1, PlacesDiffer
      <4> QED BY <2>1, <2>7, <3>1, <3>3, <4>2 DEF InPlace, CopyTypeOK
    <3> QED BY <1>1, <3>2, <3>3
  <2>8. InPlace'
    BY <1>1, <2>1, <2>7 DEF InPlace, Lasting, Place
  <2> QED BY <2>4, <2>5, <2>6, <2>8
<1>10. CASE CopyEnds
  <2>1. /\ asked > 0 /\ put = asked
        /\ appl' = (IF state \in {"prepared", "running"} THEN appl + asked ELSE appl)
        /\ put' = 0 /\ asked' = 0 /\ mem' = mem /\ state' = state /\ size' = size
        /\ played' = played /\ wiped' = wiped
    BY <1>10, AllCopied DEF CopyEnds
  <2>2. appl' \in Nat /\ appl' <= appl + asked /\ appl' >= appl
    BY <1>1, <2>1
  <2>3. CopyTypeOK'
    BY <1>1, <2>1, <2>2 DEF CopyTypeOK, Room
  <2>4. Room'
    BY <1>1, <2>1, <2>2 DEF Room, Lasting
  <2>5. InPlace'
    BY <1>1, <2>1, <2>2 DEF InPlace, Lasting, Place
  <2> QED BY <2>1, <2>3, <2>4, <2>5 DEF OnlyTheRing
<1>11. CASE ToneOn
  <2>1. CopyTypeOK'
    BY <1>1, <1>11, ClearedType DEF ToneOn, CopyTypeOK, Room
  <2>2. OnlyTheRing'
    BY <1>2, <1>11, CopyBounds DEF ToneOn, OnlyTheRing, Cleared, Words
  <2>3. Room' /\ InPlace'
    BY <1>1, <1>11 DEF ToneOn, Room, InPlace, Lasting
  <2> QED BY <2>1, <2>2, <2>3
<1>12. CASE PlayFrame
  <2>1. CopyTypeOK'
    BY <1>1, <1>12, CopyBounds DEF PlayFrame, CopyTypeOK
  <2>2. Room'
    BY <1>1, <1>12 DEF PlayFrame, Room, Lasting
  <2> QED BY <1>1, <1>12, <2>1, <2>2 DEF PlayFrame, OnlyTheRing, InPlace, Lasting, Place
<1>13. CASE UNCHANGED copyVars
  BY <1>13 DEF copyVars, CopyTypeOK, Room, OnlyTheRing, InPlace, Lasting, Place
<1> QED BY <1>3, <1>4, <1>5, <1>6, <1>7, <1>8, <1>9, <1>10, <1>11, <1>12, <1>13 DEF CopyNext

LEMMA CopyInvHolds == CopySpec => []CopyInv
<1> QED BY CopyInit1, CopyStep, PTL DEF CopySpec

\* Memory holds what was put there, and the counters of frames stay within their bounds,
\* for every memory and every ring inside it (playback_copy 532-537, prepare 211).
THEOREM CopyTypeCorrect == CopySpec => []CopyTypeOK
<1>1. CopyInv => CopyTypeOK
  BY DEF CopyInv
<1> QED BY CopyInvHolds, <1>1, PTL

\* For every ring that lies in memory, a frame written since the ring was last overwritten
\* is in its place when the audio unit comes to it, and nothing but the tone of line 0
\* touches a word outside the ring: a transfer begins where the stream is, never wraps
\* and never reaches a frame that is still to be played (playback_copy 532-537,
\* playback_silence 565-570, prepare 211, tl880_memcpy 80-88, tl880_clear_sdram 164-167).
THEOREM FramesLandInPlace == CopySpec => []CopiesLand
<1>1. CopyInv => CopiesLand
  BY DEF CopyInv, CopiesLand, OnlyTheRing, InPlace, Lasting
<1> QED BY CopyInvHolds, <1>1, PTL

-------------------------------------------------------------------------------
(* The queue that the ring is. *)

\* The waiting frames, from the first that the audio unit will come to.
InOrder ==
  /\ appl + put - played \in Nat /\ appl + put - played <= size
  /\ Waiting \in Seq(Int) /\ Len(Waiting) = appl + put - played
  /\ \A i \in 1..(appl + put - played) :
       Waiting[i] = mem[Place(played + i)] /\ Place(played + i) \in Words

LEMMA WaitingFacts == CopyInv /\ Lasting => InOrder
<1> SUFFICES ASSUME CopyInv, Lasting PROVE InOrder
  OBVIOUS
<1>1. /\ appl \in Nat /\ put \in Nat /\ played \in Nat /\ asked \in Nat
      /\ appl + put - played \in Nat /\ appl + put - played <= size
  BY CopyBounds DEF CopyInv, Room
<1>2. ASSUME NEW i \in 1..(appl + put - played)
      PROVE  Place(played + i) \in Words /\ mem[Place(played + i)] \in Int
  <2>1. Place(played + i) \in Words
    BY <1>1, PlaceInRing DEF CopyInv
  <2> QED BY <1>1, <2>1, CopyBounds DEF CopyInv, CopyTypeOK, Foreign, Silence, Ones
<1> DEFINE n == appl + put - played
<1>3. Waiting = [i \in 1..n |-> mem[Place(played + i)]]
  BY DEF Waiting
<1>4. n \in Nat /\ n <= size
  BY <1>1
<1>5. \A i \in 1..n : Place(played + i) \in Words /\ mem[Place(played + i)] \in Int
  BY <1>2
<1> HIDE DEF n
<1>6. Waiting \in [1..n -> Int] /\ \A i \in 1..n : Waiting[i] = mem[Place(played + i)]
  BY <1>3, <1>5
<1>7. Waiting \in Seq(Int)
  BY <1>4, <1>6, SeqDef
<1>8. Len(Waiting) = n
  BY <1>4, <1>6, <1>7, LenProperties
<1> QED BY <1>4, <1>5, <1>6, <1>7, <1>8 DEF n, InOrder

\* What waits is as long as it was, and the same but for what has become of some frames.
LEMMA SameLength ==
  ASSUME CopyInv, CopyInv', Lasting, Lasting', size' = size, played' = played,
         appl' + put' = appl + put
  PROVE  /\ Waiting' \in Seq(Int) /\ Waiting \in Seq(Int) /\ Len(Waiting') = Len(Waiting)
         /\ Len(Waiting) \in Nat
         /\ \A i \in 1..Len(Waiting) :
              /\ Waiting[i] = mem[Place(played + i)]
              /\ Waiting'[i] = mem'[Place(played + i)]
              /\ Place(played + i) \in Words
<1>1. (appl + put - played)' = appl + put - played
  <2>1. {appl, put, played, appl', put', played'} \subseteq Int
    BY CopyBounds DEF CopyInv, CopyTypeOK
  <2> QED BY <2>1
<1>2. \A i : Place(played + i)' = Place(played + i)
  BY DEF Place
<1>3. /\ appl + put - played \in Nat /\ Waiting \in Seq(Int) /\ Len(Waiting) = appl + put - played
      /\ \A i \in 1..(appl + put - played) :
           Waiting[i] = mem[Place(played + i)] /\ Place(played + i) \in Words
  BY WaitingFacts DEF InOrder
<1>4. /\ Waiting' \in Seq(Int) /\ Len(Waiting') = appl + put - played
      /\ \A i \in 1..(appl + put - played) : Waiting'[i] = mem'[Place(played + i)]
  <2>1. InOrder'
    BY WaitingFacts, PTL
  <2> QED BY <1>1, <1>2, <2>1 DEF InOrder
<1> QED BY <1>3, <1>4

LEMMA SameQueue ==
  ASSUME CopyInv, CopyInv', Lasting, Lasting', size' = size, played' = played,
         appl' + put' = appl + put, \A i \in 1..Len(Waiting) : Waiting'[i] = Waiting[i]
  PROVE  Waiting' = Waiting
<1> QED BY SameLength, SeqEqual

\* What silence behind the stream leaves alone.
LEMMA SilenceElsewhere ==
  ASSUME CopyInv, NEW n \in 1..MaxFrames, SilenceAhead(n), NEW k \in 1..(appl + put), k > played
  PROVE  mem'[Place(k)] = mem[Place(k)]
<1> USE DEF CopyInv
<1>1. /\ appl \in Nat /\ put \in Nat /\ played \in Nat /\ size \in Nat \ {0} /\ n \in Nat
      /\ MaxFrames \in Nat
  BY CopyBounds
<1>2. PICK at : at = Place(appl + 1)
  OBVIOUS
<1>3. /\ put = 0 /\ appl + n - played <= size /\ (appl % size) + n <= size
      /\ mem' = Cleared(at, at + n, Silence)
  BY <1>1, <1>2 DEF SilenceAhead, Room
<1>4. at \in Nat /\ appl % size \in Nat
  <2>1. (appl + 1) - 1 = appl /\ appl % size \in 0..(size - 1)
    BY <1>1, DivMod
  <2> QED BY <1>1, <1>2, <2>1, CopyBounds DEF Place
<1>5. Place(k) \in Words /\ Place(k) \in Int
  BY <1>1, PlaceInRing DEF Words
<1>6. Place(k) \notin at..((at + n) - 1)
  <2> SUFFICES ASSUME Place(k) \in at..((at + n) - 1) PROVE FALSE
    OBVIOUS
  <2> DEFINE i == Place(k) - at
  <2>1. i \in Nat /\ i < n /\ Place(k) = at + i
    BY <1>4, <1>5
  <2> HIDE DEF i
  <2>2. (appl % size) + i < size
    BY <1>1, <1>3, <1>4, <2>1
  <2>3. Place(k) = Place(appl + i + 1)
    BY <1>2, <2>1, <2>2, PlaceAhead
  <2>4. k < appl + i + 1 /\ appl + i + 1 < k + size
    BY <1>1, <1>3, <2>1
  <2> QED BY <1>1, <2>1, <2>3, <2>4, PlacesDiffer
<1> QED BY <1>3, <1>5, <1>6, ClearedElsewhere

\* A stored word is the next frame, in the next place.
LEMMA StoredNext ==
  ASSUME CopyInv, CopyStores
  PROVE  /\ put < asked /\ put' = put + 1
         /\ mem' = [mem EXCEPT ![Place(appl + put + 1)] = appl + put + 1]
         /\ appl + put + 1 \in 1..MaxFrames
<1>1. /\ appl \in Nat /\ put \in Nat /\ asked \in Nat /\ size \in Nat \ {0} /\ MaxFrames \in Nat
  BY CopyBounds DEF CopyInv
<1>2. /\ put < asked /\ put' = put + 1
      /\ mem' = [mem EXCEPT ![Place(appl + 1) + put] = appl + put + 1]
  BY AllCopied DEF CopyStores
<1>3. (appl % size) + asked <= size /\ appl % size \in Nat /\ appl + asked <= MaxFrames
  BY <1>1, <1>2, DivMod DEF CopyInv, Room
<1>4. (appl % size) + put < size
  BY <1>1, <1>2, <1>3
<1>5. Place(appl + 1) + put = Place(appl + put + 1)
  BY <1>1, <1>4, PlaceAhead DEF CopyInv
<1>6. appl + put + 1 \in 1..MaxFrames
  BY <1>1, <1>2, <1>3
<1> QED BY <1>2, <1>5, <1>6

LEMMA EndsStream ==
  ASSUME CopyInv',
         ~Lasting' \/ (appl' = 0 /\ put' = 0 /\ played' = 0 /\ state' = "prepared")
  PROVE  Stream!EndStream
<1>1. size' \in RingSizes
  BY DEF CopyInv, CopyTypeOK
<1>2. CASE ~Lasting'
  BY <1>1, <1>2 DEF Stream!EndStream, Waiting, Lasting
<1>3. CASE Lasting' /\ appl' = 0 /\ put' = 0 /\ played' = 0 /\ state' = "prepared"
  <2>1. InOrder'
    BY <1>3, WaitingFacts, PTL
  <2>2. Waiting' = <<>>
    BY <1>3, <2>1, EmptySeq DEF InOrder
  <2> QED BY <1>1, <1>3, <2>2 DEF Stream!EndStream
<1> QED BY <1>2, <1>3

\* Every step of the ring is a step of the queue, or changes nothing of it.
LEMMA QueueStep ==
  ASSUME CopyInv, CopyInv', [CopyNext]_copyVars
  PROVE  [Stream!StreamNext]_(Stream!stream)
<1>1. /\ appl \in Nat /\ put \in Nat /\ asked \in Nat /\ played \in Nat
      /\ size \in Nat \ {0} /\ MaxFrames \in Nat /\ RingBase \in Nat
      /\ put <= asked /\ played <= appl /\ (Lasting => appl + asked <= played + size)
  BY CopyBounds DEF CopyInv, Room
<1>2. Lasting => InOrder
  BY WaitingFacts
<1>3. ASSUME NEW n \in RingSizes, SetParams(n) PROVE Stream!EndStream
  BY <1>3, EndsStream DEF SetParams, Lasting
<1>4. CASE PrepareRing
  <2>1. put = 0
    BY <1>1, <1>4 DEF PrepareRing
  <2>2. Stream!EndStream
    BY <1>4, <2>1, EndsStream DEF PrepareRing
  <2> QED BY <2>2 DEF Stream!StreamNext
<1>5. CASE StartRing
  <2>1. /\ Lasting /\ Lasting' /\ size' = size /\ played' = played /\ appl' = appl /\ put' = put
        /\ mem' = RingCleared /\ state = "prepared" /\ state' = "running"
    BY <1>5 DEF StartRing, Lasting
  <2>2. /\ Waiting' \in Seq(Int) /\ Len(Waiting') = Len(Waiting) /\ Len(Waiting) \in Nat
        /\ \A i \in 1..Len(Waiting) : Waiting'[i] = mem'[Place(played + i)]
    BY <2>1, SameLength
  <2>3. ASSUME NEW i \in 1..Len(Waiting) PROVE Waiting'[i] = Silence
    <3>1. /\ Place(played + i) \in RingBase..(RingBase + size - 1)
          /\ Place(played + i) \in Words /\ Place(played + i) < MemWords
      BY <1>1, <2>2, PlaceInRing DEF CopyInv
    <3>2. \A a \in Words : a \in RingBase..((RingBase + size) - 1) /\ a < MemWords
                           => RingCleared[a] = Silence
      BY DEF RingCleared, Cleared
    <3>3. Place(played + i) \in RingBase..((RingBase + size) - 1)
      <4>1. RingBase + size - 1 = (RingBase + size) - 1
        BY <1>1
      <4> QED BY <3>1, <4>1
    <3>4. RingCleared[Place(played + i)] = Silence
      BY <3>1, <3>2, <3>3
    <3>5. Waiting'[i] = mem'[Place(played + i)]
      BY <2>2
    <3> QED BY <2>1, <3>4, <3>5
  <2>4. Waiting' = [i \in 1..Len(Waiting) |-> Silence]
    <3>1. Waiting' \in [1..Len(Waiting) -> Int]
      BY <2>2, LenProperties
    <3> QED BY <2>3, <3>1
  <2>5. Stream!Start
    BY <2>1, <2>4 DEF Stream!Start
  <2> QED BY <2>5 DEF Stream!StreamNext
<1>6. CASE ResumeRing
  <2>1. Waiting' = Waiting
    BY <1>6 DEF ResumeRing, Waiting, Lasting, Place
  <2>2. Stream!Resume
    BY <1>6, <2>1 DEF ResumeRing, Stream!Resume, Lasting
  <2> QED BY <2>2 DEF Stream!StreamNext
<1>7. CASE StopRing
  <2>1. CASE state' = "setup"
    BY <2>1, EndsStream DEF Lasting, Stream!StreamNext
  <2>2. CASE state' = "suspended"
    <3>1. Waiting' = Waiting
      BY <1>7, <2>2 DEF StopRing, Waiting, Lasting, Place
    <3>2. Stream!Pause
      BY <1>7, <2>2, <3>1 DEF StopRing, Stream!Pause, Lasting
    <3> QED BY <3>2 DEF Stream!StreamNext
  <2> QED BY <1>7, <2>1, <2>2 DEF StopRing
<1>8. ASSUME NEW n \in 1..MaxFrames, CopyBegins(n) PROVE UNCHANGED Stream!stream
  BY <1>8 DEF CopyBegins, Stream!stream, Waiting, Lasting, Place
<1>9. ASSUME NEW n \in 1..MaxFrames, SilenceAhead(n) PROVE UNCHANGED Stream!stream
  <2>1. /\ Lasting /\ Lasting' /\ size' = size /\ played' = played /\ appl' = appl /\ put' = put
        /\ state' = state
    BY <1>9 DEF SilenceAhead, Lasting
  <2>2. /\ Len(Waiting) = appl + put - played
        /\ \A i \in 1..Len(Waiting) : /\ Waiting[i] = mem[Place(played + i)]
                                      /\ Waiting'[i] = mem'[Place(played + i)]
    BY <1>2, <2>1, SameLength DEF InOrder
  <2>3. ASSUME NEW i \in 1..Len(Waiting) PROVE Waiting'[i] = Waiting[i]
    <3>1. played + i \in 1..(appl + put) /\ played + i > played
      BY <1>1, <2>2
    <3>2. mem'[Place(played + i)] = mem[Place(played + i)]
      BY <1>9, <3>1, SilenceElsewhere
    <3> QED BY <2>2, <3>2
  <2>4. Waiting' = Waiting
    BY <2>1, <2>3, SameQueue
  <2> QED BY <2>1, <2>4 DEF Stream!stream
<1>10. CASE CopyStores
  <2>1. /\ put < asked /\ put' = put + 1 /\ appl + put + 1 \in 1..MaxFrames
        /\ mem' = [mem EXCEPT ![Place(appl + put + 1)] = appl + put + 1]
        /\ state' = state /\ size' = size /\ appl' = appl /\ played' = played
    BY <1>10, StoredNext DEF CopyStores
  <2>2. CASE ~Lasting
    BY <2>1, <2>2 DEF Stream!stream, Waiting, Lasting
  <2>3. CASE Lasting
    <3> DEFINE n == appl + put - played
    <3>1. n \in Nat /\ n < size /\ (appl + put - played)' = n + 1 /\ played + (n + 1) = appl + put + 1
      BY <1>1, <2>1, <2>3
    <3>2. Waiting \in Seq(Int) /\ Len(Waiting) = n
          /\ \A i \in 1..n : Waiting[i] = mem[Place(played + i)] /\ Place(played + i) \in Words
      BY <1>2, <2>3 DEF InOrder
    <3>3. InOrder'
      <4>1. Lasting'
        BY <2>1, <2>3 DEF Lasting
      <4> QED BY <4>1, WaitingFacts, PTL
    <3>4. Waiting' \in Seq(Int) /\ Len(Waiting') = n + 1
          /\ \A i \in 1..(n + 1) : /\ Waiting'[i] = mem'[Place(played + i)]
                                    /\ Place(played + i) \in Words
      BY <2>1, <3>1, <3>3 DEF InOrder, Place
    <3> HIDE DEF n
    <3>5. ASSUME NEW i \in 1..n PROVE Waiting'[i] = Waiting[i]
      <4>1. i \in 1..(n + 1)
        BY <3>1
      <4>2. Place(played + i) # Place(appl + put + 1)
        <5>1. /\ played + i \in Nat /\ appl + put + 1 \in Nat /\ 0 < played + i
              /\ played + i < appl + put + 1 /\ appl + put + 1 < (played + i) + size
          BY <1>1, <3>1
        <5> QED BY <5>1, PlacesDiffer DEF CopyInv
      <4> QED BY <2>1, <3>2, <3>4, <4>1, <4>2 DEF CopyInv, CopyTypeOK
    <3>6. Waiting'[n + 1] = appl + put + 1
      <4>1. n + 1 \in 1..(n + 1)
        BY <3>1
      <4>2. Waiting'[n + 1] = mem'[Place(appl + put + 1)] /\ Place(appl + put + 1) \in Words
        BY <3>1, <3>4, <4>1
      <4> QED BY <2>1, <4>2 DEF CopyInv, CopyTypeOK
    <3>7. Waiting' = Append(Waiting, appl + put + 1)
      <4> DEFINE w == Append(Waiting, appl + put + 1)
      <4>1. /\ w \in Seq(Int) /\ Len(w) = n + 1 /\ w[n + 1] = appl + put + 1
            /\ \A i \in 1..n : w[i] = Waiting[i]
        BY <1>1, <3>2, AppendProperties
      <4> HIDE DEF w
      <4>2. \A i \in 1..(n + 1) : Waiting'[i] = w[i]
        <5>1. \A i \in 1..(n + 1) : i = n + 1 \/ i \in 1..n
          BY <3>1
        <5> QED BY <3>5, <3>6, <4>1, <5>1
      <4>3. Waiting' = w
        BY <3>4, <4>1, <4>2, SeqEqual
      <4> QED BY <4>3 DEF w
    <3>8. appl' + put' = appl + put + 1
      BY <1>1, <2>1
    <3>9. Stream!Write
      BY <2>1, <2>3, <3>1, <3>2, <3>7, <3>8 DEF Stream!Write, Lasting
    <3> QED BY <3>9 DEF Stream!StreamNext
  <2> QED BY <2>2, <2>3
<1>11. CASE CopyEnds
  <2>1. /\ asked > 0 /\ put = asked /\ put' = 0
        /\ appl' = (IF state \in {"prepared", "running"} THEN appl + asked ELSE appl)
        /\ mem' = mem /\ state' = state /\ size' = size /\ played' = played
    BY <1>11, AllCopied DEF CopyEnds
  <2>2. CASE ~Lasting
    BY <2>1, <2>2 DEF Stream!stream, Waiting, Lasting
  <2>3. CASE state \in {"prepared", "running"}
    <3>1. Lasting /\ Lasting' /\ appl' + put' = appl + put
      BY <1>1, <2>1, <2>3 DEF Lasting
    <3>2. \A i \in 1..Len(Waiting) : Waiting'[i] = Waiting[i]
      BY <2>1, <3>1, SameLength
    <3>3. Waiting' = Waiting
      BY <2>1, <3>1, <3>2, SameQueue
    <3> QED BY <2>1, <3>1, <3>3 DEF Stream!stream
  <2>4. CASE state = "suspended"
    <3>1. Lasting /\ Lasting' /\ appl' = appl /\ state' = "suspended"
      BY <2>1, <2>4 DEF Lasting
    <3> DEFINE n == appl - played
    <3>2. n \in Nat /\ appl + put - played = n + put /\ (appl + put - played)' = n
      BY <1>1, <2>1, <3>1
    <3>3. Waiting \in Seq(Int) /\ Len(Waiting) = n + put
          /\ \A i \in 1..(n + put) : Waiting[i] = mem[Place(played + i)]
      BY <1>2, <3>1, <3>2 DEF InOrder
    <3>4. InOrder'
      BY <3>1, WaitingFacts, PTL
    <3>5. Waiting' \in Seq(Int) /\ Len(Waiting') = n
          /\ \A i \in 1..n : Waiting'[i] = mem[Place(played + i)]
      BY <2>1, <3>2, <3>4 DEF InOrder, Place
    <3> HIDE DEF n
    <3>6. Waiting' = SubSeq(Waiting, 1, n)
      <4> DEFINE w == SubSeq(Waiting, 1, n)
      <4>1. \A i \in 1..n : i \in 1..(n + put)
        BY <1>1, <3>2
      <4>2. \A i \in 1..n : Waiting[i] \in Int
        BY <3>3, <4>1, ElementOfSeq
      <4>3. 1 \in Int /\ n \in Int /\ n - 1 + 1 = n /\ \A i \in 1..n : 1 + i - 1 = i
        BY <3>2
      <4>4. /\ w \in Seq(Int) /\ Len(w) = IF 1 <= n THEN n - 1 + 1 ELSE 0
            /\ \A i \in 1..(n - 1 + 1) : w[i] = Waiting[1 + i - 1]
        BY <4>2, <4>3, SubSeqProperties
      <4>5. Len(w) = n /\ \A i \in 1..n : w[i] = Waiting[i]
        BY <3>2, <4>3, <4>4
      <4> HIDE DEF w
      <4>6. Waiting' = w
        BY <3>3, <3>5, <4>1, <4>4, <4>5, SeqEqual
      <4> QED BY <4>6 DEF w
    <3>7. /\ put \in 1..Len(Waiting) /\ Len(Waiting) - put = n /\ (appl + put) - put = appl + 0
      BY <1>1, <2>1, <3>2, <3>3
    <3>8. Stream!Withdraw(put)
      BY <2>1, <2>4, <3>1, <3>6, <3>7 DEF Stream!Withdraw
    <3> QED BY <3>7, <3>8 DEF Stream!StreamNext
  <2> QED BY <2>2, <2>3, <2>4 DEF Lasting
<1>12. CASE ToneOn
  <2>1. /\ mem' = Cleared(RingBase, RingBase + LineWords, Ones)
        /\ state' = state /\ size' = size /\ appl' = appl /\ put' = put /\ played' = played
    BY <1>12 DEF ToneOn
  <2>2. CASE ~Lasting
    BY <2>1, <2>2 DEF Stream!stream, Waiting, Lasting
  <2>3. CASE Lasting
    <3>1. Lasting'
      BY <2>1, <2>3 DEF Lasting
    <3>2. /\ Waiting' \in Seq(Int) /\ Len(Waiting') = Len(Waiting)
          /\ \A i \in 1..Len(Waiting) : /\ Waiting[i] = mem[Place(played + i)]
                                        /\ Waiting'[i] = mem'[Place(played + i)]
                                        /\ Place(played + i) \in Words
      BY <2>1, <2>3, <3>1, SameLength
    <3> DEFINE T == {i \in 1..Len(Waiting) :
                       /\ Place(played + i) \in RingBase..((RingBase + LineWords) - 1)
                       /\ Place(played + i) < MemWords}
    <3>3. ASSUME NEW i \in 1..Len(Waiting)
          PROVE  Waiting'[i] = IF i \in T THEN Ones ELSE Waiting[i]
      BY <2>1, <3>2 DEF Cleared
    <3>4. T \in SUBSET (1..Len(Waiting))
      OBVIOUS
    <3> HIDE DEF T
    <3>5. Waiting' = [i \in 1..Len(Waiting) |-> IF i \in T THEN Ones ELSE Waiting[i]]
      <4>1. Waiting' \in [1..Len(Waiting) -> Int]
        BY <3>2, LenProperties
      <4> QED BY <3>3, <4>1
    <3>6. Stream!Disturb
      BY <2>1, <2>3, <3>1, <3>4, <3>5 DEF Stream!Disturb
    <3> QED BY <3>6 DEF Stream!StreamNext
  <2> QED BY <2>2, <2>3
<1>13. CASE PlayFrame
  <2>1. /\ Lasting /\ Lasting' /\ state = "running" /\ state' = "running" /\ played < appl
        /\ played' = played + 1 /\ mem' = mem /\ size' = size /\ appl' = appl /\ put' = put
    BY <1>13 DEF PlayFrame, Lasting
  <2> DEFINE n == appl + put - played
  <2>2. /\ n \in Nat /\ n - 1 \in Nat /\ n # 0 /\ (appl + put - played)' = n - 1
        /\ \A i \in Int : (played + 1) + i = played + (i + 1)
    BY <1>1, <2>1
  <2>3. /\ Waiting \in Seq(Int) /\ Len(Waiting) = n
        /\ \A i \in 1..n : Waiting[i] = mem[Place(played + i)]
    BY <1>2, <2>1 DEF InOrder
  <2>4. InOrder'
    BY <2>1, WaitingFacts, PTL
  <2>5. Waiting' \in Seq(Int) /\ Len(Waiting') = n - 1
        /\ \A i \in 1..(n - 1) : Waiting'[i] = mem[Place((played + 1) + i)]
    BY <2>1, <2>2, <2>4 DEF InOrder, Place
  <2> HIDE DEF n
  <2>6. Waiting # <<>>
    BY <2>2, <2>3, EmptySeq
  <2>7. /\ Tail(Waiting) \in Seq(Int) /\ Len(Tail(Waiting)) = n - 1
        /\ \A i \in 1..(n - 1) : Tail(Waiting)[i] = Waiting[i + 1]
    BY <2>3, <2>6, HeadTailProperties
  <2>8. ASSUME NEW i \in 1..(n - 1) PROVE Waiting'[i] = Tail(Waiting)[i]
    <3>1. i + 1 \in 1..n
      BY <2>2
    <3>2. (played + 1) + i = played + (i + 1)
      BY <1>1
    <3>3. Waiting'[i] = mem[Place((played + 1) + i)]
      BY <2>5
    <3>4. Waiting[i + 1] = mem[Place(played + (i + 1))]
      BY <2>3, <3>1
    <3>5. Tail(Waiting)[i] = Waiting[i + 1]
      BY <2>7
    <3> QED BY <3>2, <3>3, <3>4, <3>5
  <2>9. Waiting' = Tail(Waiting)
    BY <2>5, <2>7, <2>8, SeqEqual
  <2>10. Stream!Play
    BY <2>1, <2>6, <2>9 DEF Stream!Play
  <2> QED BY <2>10 DEF Stream!StreamNext
<1>14. CASE Underrun
  BY <1>14, EndsStream DEF Underrun, Lasting, Stream!StreamNext
<1>15. CASE UNCHANGED copyVars
  BY <1>15 DEF copyVars, Stream!stream, Waiting, Lasting, Place
<1> QED BY <1>3, <1>4, <1>5, <1>6, <1>7, <1>8, <1>9, <1>10, <1>11, <1>12, <1>13, <1>14, <1>15
        DEF CopyNext, Stream!StreamNext

\* For every memory, every ring inside it and every length of a stream, the ring is a queue
\* of frames: what the audio unit will find at its places is what was written, in order,
\* each frame once, whatever transfers, silence and wraps come between, except that START
\* makes silence and a tone makes noise of what waits (playback_copy 531-540,
\* playback_silence 565-570, prepare 211, trigger 157-165).
THEOREM RingImplementsQueue == CopySpec => ImplementsQueue
<1>1. CopyInit => Stream!StreamInit
  BY DEF CopyInit, Stream!StreamInit, Waiting, Lasting
<1>2. CopyInv /\ CopyInv' /\ [CopyNext]_copyVars => [Stream!StreamNext]_(Stream!stream)
  BY QueueStep
<1> QED BY CopyInvHolds, <1>1, <1>2, PTL DEF CopySpec, ImplementsQueue, Stream!StreamSpec

-------------------------------------------------------------------------------
(* The list of callbacks. *)

\* The list is the nodes s[1] to s[n], in this order and each once.
Chain(n, s) ==
  /\ n \in Nat /\ s \in [1..n -> Nodes]
  /\ \A i, j \in 1..n : s[i] = s[j] => i = j
  /\ head = IF n = 0 THEN NoNode ELSE s[1]
  /\ \A i \in 1..n : next[s[i]] = IF i = n THEN NoNode ELSE s[i + 1]

NodesOf(n, s)    == {s[i] : i \in 1..n}
Holders(n, s, f) == {m \in NodesOf(n, s) : func[m] = f}

\* What holds a node that is not in the list, and what is about to take one out.
Outside  == {"add", "first", "search", "append", "free", "drop"}
Seeking == {"remove", "behead", "find", "cut"}

Extra    == {new[q] : q \in {r \in Processes : doing[r] \in Outside}}

\* What a process that is interrupted between two steps knows of the list.
Knows(q, n, s) ==
  /\ doing[q] \in {"add", "first", "search", "append"} =>
       func[new[q]] = cb[q] /\ next[new[q]] = NoNode
  /\ doing[q] = "first"  => n = 0
  /\ doing[q] = "search" => p[q] \in NodesOf(n, s)
  /\ doing[q] = "append" => n > 0 /\ p[q] = s[n]
  /\ doing[q] = "behead" => n > 0 /\ p[q] = s[1] /\ func[s[1]] = cb[q]
  /\ doing[q] = "find"   => \E i \in 1..n : p[q] = s[i] /\ \A j \in 1..i : func[s[j]] # cb[q]
  /\ doing[q] = "cut"    => \E i \in 1..(n - 1) : /\ p[q] = s[i] /\ new[q] = s[i + 1]
                                                  /\ func[s[i + 1]] = cb[q]

\* The nodes of a function, and those that its registrations owe it; while a removal is
\* on its way to the node there is one more, or there was none.
Counted(n, s, f) ==
  IF \E q \in Processes : doing[q] \in Seeking /\ cb[q] = f
    THEN \/ Cardinality(Holders(n, s, f)) = owed[f] + 1
         \/ Cardinality(Holders(n, s, f)) = 0 /\ owed[f] = 0
    ELSE Cardinality(Holders(n, s, f)) = owed[f]

\* A walk has called what it has come past.
Past(i, s, f) == {m \in {s[j] : j \in 1..i} : func[m] = f}

Walked(n, s) ==
  walk # "out" =>
    /\ ~Deleting
    /\ \E i \in 1..n :
         /\ cur = s[i]
         /\ \A f \in Funcs :
              calls[f] = Cardinality(Past(IF walk = "next" THEN i ELSE i - 1, s, f))

WholeList(n, s) ==
  /\ Chain(n, s)
  /\ heap = NodesOf(n, s) \cup Extra /\ Extra \cap NodesOf(n, s) = {}
  /\ \A q \in Processes : Knows(q, n, s)
  /\ \A q, r \in Processes : doing[q] # "nothing" /\ doing[r] # "nothing" => q = r
  /\ Deleting \/ \A f \in Funcs : Counted(n, s, f)
  /\ Walked(n, s)

\* On several processors all that is left is that whoever looks at a node has one.
Holds ==
  /\ \A q \in Processes :
       /\ doing[q] \in {"search", "append", "behead", "find", "cut"} => p[q] \in Nodes
       /\ doing[q] \in {"add", "first", "search", "append", "cut", "free", "drop"} => new[q] \in Nodes
       /\ doing[q] \notin {"nothing", "delete", "drop"} => cb[q] \in Funcs
  /\ walk # "out" => cur \in Nodes

CbInv == CbTypeOK /\ Holds /\ (~Parallel => \E n \in Nat : \E s : WholeList(n, s))

-------------------------------------------------------------------------------
(* Chains and what is in them. *)

LEMMA ChainFacts ==
  ASSUME CbTypeOK, NEW n, NEW s, Chain(n, s)
  PROVE  /\ n \in Nat /\ n <= Cardinality(Nodes) /\ Cardinality(Nodes) \in Nat
         /\ NodesOf(n, s) \subseteq Nodes /\ NoNode \notin Nodes
         /\ \A f : /\ IsFiniteSet(Holders(n, s, f)) /\ Cardinality(Holders(n, s, f)) \in Nat
                   /\ Cardinality(Holders(n, s, f)) = 0 <=> Holders(n, s, f) = {}
<1>1. IsFiniteSet(Nodes) /\ NoNode \notin Nodes /\ Cardinality(Nodes) \in Nat
  BY CallbackAssumption, FS_CardinalityType
<1>2. n \in Nat /\ s \in Injection(1..n, Nodes)
  BY DEF Chain, Injection, IsInjective
<1>3. n <= Cardinality(Nodes)
  <2>1. Cardinality(1..n) = n
    BY <1>2, FS_Interval
  <2> QED BY <1>1, <1>2, <2>1, FS_Injection
<1>4. NodesOf(n, s) \subseteq Nodes
  BY DEF Chain, NodesOf
<1>5. ASSUME NEW f
      PROVE  /\ IsFiniteSet(Holders(n, s, f)) /\ Cardinality(Holders(n, s, f)) \in Nat
             /\ Cardinality(Holders(n, s, f)) = 0 <=> Holders(n, s, f) = {}
  <2>1. Holders(n, s, f) \in SUBSET Nodes
    BY <1>4 DEF Holders
  <2>2. IsFiniteSet(Holders(n, s, f))
    BY <1>1, <2>1, FS_Subset
  <2> QED BY <2>2, FS_CardinalityType, FS_EmptySet
<1> QED BY <1>1, <1>2, <1>3, <1>4, <1>5

\* A chain with a node more at its end.
Longer(n, s, x) == [i \in 1..(n + 1) |-> IF i = n + 1 THEN x ELSE s[i]]

LEMMA LongerIsChain ==
  ASSUME NEW n \in Nat, NEW s \in [1..n -> Nodes], NEW x \in Nodes \ NodesOf(n, s),
         \A i, j \in 1..n : s[i] = s[j] => i = j
  PROVE  /\ n + 1 \in Nat /\ Longer(n, s, x) \in [1..(n + 1) -> Nodes]
         /\ \A i, j \in 1..(n + 1) : Longer(n, s, x)[i] = Longer(n, s, x)[j] => i = j
         /\ NodesOf(n + 1, Longer(n, s, x)) = NodesOf(n, s) \cup {x}
<1> DEFINE t == Longer(n, s, x)
<1>1. t \in [1..(n + 1) -> Nodes] /\ n + 1 \in 1..(n + 1) /\ 1..n \subseteq 1..(n + 1)
  BY DEF Longer
<1>2. t[n + 1] = x /\ \A i \in 1..n : t[i] = s[i]
  BY DEF Longer
<1>3. \A i \in 1..(n + 1) : i = n + 1 \/ i \in 1..n
  OBVIOUS
<1> HIDE DEF t
<1>4. \A i, j \in 1..(n + 1) : t[i] = t[j] => i = j
  BY <1>2, <1>3 DEF NodesOf
<1>5. NodesOf(n + 1, t) = NodesOf(n, s) \cup {x}
  BY <1>1, <1>2, <1>3 DEF NodesOf
<1> QED BY <1>1, <1>4, <1>5 DEF t

\* A chain without its node number k + 1.
Shorter(n, s, k) == [i \in 1..(n - 1) |-> IF i <= k THEN s[i] ELSE s[i + 1]]

LEMMA ShorterIsChain ==
  ASSUME NEW n \in Nat, NEW s \in [1..n -> Nodes], NEW k \in 0..(n - 1),
         \A i, j \in 1..n : s[i] = s[j] => i = j
  PROVE  /\ n - 1 \in Nat /\ Shorter(n, s, k) \in [1..(n - 1) -> Nodes]
         /\ \A i, j \in 1..(n - 1) : Shorter(n, s, k)[i] = Shorter(n, s, k)[j] => i = j
         /\ NodesOf(n - 1, Shorter(n, s, k)) = NodesOf(n, s) \ {s[k + 1]}
         /\ s[k + 1] \in NodesOf(n, s)
<1> DEFINE t == Shorter(n, s, k)
<1>1. n - 1 \in Nat /\ t \in [1..(n - 1) -> Nodes] /\ k + 1 \in 1..n
  BY DEF Shorter
<1>2. \A i \in 1..(n - 1) : t[i] = IF i <= k THEN s[i] ELSE s[i + 1]
  BY DEF Shorter
<1> HIDE DEF t
<1>3. \A i, j \in 1..(n - 1) : t[i] = t[j] => i = j
  BY <1>1, <1>2
<1>4. ASSUME NEW i \in 1..n, i # k + 1 PROVE s[i] \in NodesOf(n - 1, t)
  <2>1. CASE i <= k
    <3>1. i \in 1..(n - 1) /\ t[i] = s[i]
      BY <1>2, <2>1
    <3> QED BY <3>1 DEF NodesOf
  <2>2. CASE i > k
    <3>1. i - 1 \in 1..(n - 1) /\ ~(i - 1 <= k) /\ (i - 1) + 1 = i
      BY <1>4, <2>2
    <3>2. t[i - 1] = s[i]
      BY <1>2, <3>1
    <3> QED BY <3>1, <3>2 DEF NodesOf
  <2> QED BY <2>1, <2>2
<1>5. ASSUME NEW i \in 1..(n - 1) PROVE t[i] \in NodesOf(n, s) \ {s[k + 1]}
  <2>1. CASE i <= k
    <3>1. i \in 1..n /\ t[i] = s[i] /\ i # k + 1
      BY <1>2, <2>1
    <3> QED BY <1>1, <3>1 DEF NodesOf
  <2>2. CASE ~(i <= k)
    <3>1. i + 1 \in 1..n /\ t[i] = s[i + 1] /\ i + 1 # k + 1
      BY <1>2, <2>2
    <3> QED BY <1>1, <3>1 DEF NodesOf
  <2> QED BY <2>1, <2>2
<1>6. NodesOf(n - 1, t) = NodesOf(n, s) \ {s[k + 1]} /\ s[k + 1] \in NodesOf(n, s)
  BY <1>1, <1>4, <1>5 DEF NodesOf
<1> QED BY <1>1, <1>3, <1>6 DEF t

\* A step of the only process that is at work, while no interrupt is on.
LEMMA WholeAfter ==
  ASSUME CbTypeOK, CbTypeOK', NEW q \in Processes, walk' = "out",
         \A r \in Processes \ {q} : doing'[r] = "nothing",
         NEW m, NEW t, Chain(m, t)', Knows(q, m, t)',
         heap' = NodesOf(m, t) \cup (IF doing'[q] \in Outside THEN {new'[q]} ELSE {}),
         doing'[q] \in Outside => new'[q] \notin NodesOf(m, t),
         \/ doing'[q] \in {"delete", "drop"}
         \/ \A f \in Funcs :
              IF doing'[q] \in Seeking /\ cb'[q] = f
                THEN \/ Cardinality(Holders(m, t, f)') = owed'[f] + 1
                     \/ Cardinality(Holders(m, t, f)') = 0 /\ owed'[f] = 0
                ELSE Cardinality(Holders(m, t, f)') = owed'[f]
  PROVE  WholeList(m, t)'
<1>1. \A r \in Processes \ {q} : doing'[r] \notin Outside \cup Seeking \cup {"delete", "drop"}
  BY DEF Outside, Seeking
<1>2. Extra' = IF doing'[q] \in Outside THEN {new'[q]} ELSE {}
  BY <1>1 DEF Extra
<1>3. \A r \in Processes : Knows(r, m, t)'
  BY DEF Knows
<1>4. \A r, u \in Processes : doing'[r] # "nothing" /\ doing'[u] # "nothing" => r = u
  OBVIOUS
<1>5. Deleting' \/ \A f \in Funcs : Counted(m, t, f)'
  BY <1>1 DEF Deleting, Counted
<1>6. Walked(m, t)'
  BY DEF Walked
<1>7. NodesOf(m, t)' = NodesOf(m, t)
  BY DEF NodesOf
<1> QED BY <1>2, <1>3, <1>4, <1>5, <1>6, <1>7 DEF WholeList

\* What it finds.
LEMMA WholeBefore ==
  ASSUME CbTypeOK, NEW q \in Processes, walk = "out",
         \A r \in Processes \ {q} : doing[r] = "nothing", NEW n, NEW s, WholeList(n, s)
  PROVE  /\ Chain(n, s) /\ Knows(q, n, s)
         /\ heap = NodesOf(n, s) \cup (IF doing[q] \in Outside THEN {new[q]} ELSE {})
         /\ doing[q] \in Outside => new[q] \notin NodesOf(n, s)
         /\ \/ doing[q] \in {"delete", "drop"}
            \/ \A f \in Funcs :
                 IF doing[q] \in Seeking /\ cb[q] = f
                   THEN \/ Cardinality(Holders(n, s, f)) = owed[f] + 1
                        \/ Cardinality(Holders(n, s, f)) = 0 /\ owed[f] = 0
                   ELSE Cardinality(Holders(n, s, f)) = owed[f]
<1>1. \A r \in Processes \ {q} : doing[r] \notin Outside \cup Seeking \cup {"delete", "drop"}
  BY DEF Outside, Seeking
<1>2. Extra = IF doing[q] \in Outside THEN {new[q]} ELSE {}
  BY <1>1 DEF Extra
<1>3. Deleting => doing[q] \in {"delete", "drop"}
  BY <1>1 DEF Deleting
<1>4. \A f \in Funcs : Counted(n, s, f) =>
        IF doing[q] \in Seeking /\ cb[q] = f
          THEN \/ Cardinality(Holders(n, s, f)) = owed[f] + 1
               \/ Cardinality(Holders(n, s, f)) = 0 /\ owed[f] = 0
          ELSE Cardinality(Holders(n, s, f)) = owed[f]
  BY <1>1 DEF Counted
<1> QED BY <1>2, <1>3, <1>4 DEF WholeList

-------------------------------------------------------------------------------
(* Additions. *)

LEMMA AddBeginsWhole ==
  ASSUME CbTypeOK, CbTypeOK', ~Parallel, NEW n, NEW s, WholeList(n, s),
         NEW q \in Processes, NEW f \in Funcs, AddBegins(q, f)
  PROVE  WholeList(n, s)'
<1>1. walk = "out" /\ doing[q] = "nothing" /\ \A r \in Processes \ {q} : doing[r] = "nothing"
  BY DEF AddBegins, At, MayRun
<1>2. Chain(n, s) /\ heap = NodesOf(n, s)
      /\ \A g \in Funcs : Cardinality(Holders(n, s, g)) = owed[g]
  <2>1. doing[q] \notin Outside /\ doing[q] \notin Seeking /\ doing[q] \notin {"delete", "drop"}
    BY <1>1 DEF Outside, Seeking
  <2> QED BY <1>1, <2>1, WholeBefore
<1>3. PICK x \in Nodes \ heap :
        /\ heap' = heap \cup {x} /\ func' = [func EXCEPT ![x] = f]
        /\ next' = [next EXCEPT ![x] = NoNode] /\ new' = [new EXCEPT ![q] = x]
  BY DEF AddBegins
<1>4. /\ doing' = [doing EXCEPT ![q] = "add"] /\ cb' = [cb EXCEPT ![q] = f]
      /\ head' = head /\ walk' = walk /\ owed' = owed
  BY DEF AddBegins, Goto, walkVars
<1>5. doing'[q] = "add" /\ new'[q] = x /\ cb'[q] = f /\ func'[x] = f /\ next'[x] = NoNode
      /\ \A r \in Processes \ {q} : doing'[r] = "nothing"
  BY <1>1, <1>3, <1>4 DEF CbTypeOK
<1>6. \A i \in 1..n : s[i] # x /\ s[i] \in Nodes
  BY <1>2, <1>3 DEF NodesOf, Chain
<1>7. Chain(n, s)'
  BY <1>2, <1>3, <1>4, <1>6 DEF Chain, CbTypeOK
<1>8. \A g : Holders(n, s, g)' = Holders(n, s, g)
  BY <1>2, <1>3 DEF Holders, NodesOf, CbTypeOK
<1>9. Knows(q, n, s)'
  BY <1>5 DEF Knows
<1> QED BY <1>1, <1>2, <1>3, <1>4, <1>5, <1>7, <1>8, <1>9, WholeAfter DEF Outside, Seeking

LEMMA AddLooksWhole ==
  ASSUME CbTypeOK, CbTypeOK', ~Parallel, NEW n, NEW s, WholeList(n, s),
         NEW q \in Processes, AddLooks(q)
  PROVE  WholeList(n, s)'
<1>1. walk = "out" /\ doing[q] = "add" /\ \A r \in Processes \ {q} : doing[r] = "nothing"
  BY DEF AddLooks, At, MayRun
<1>2. /\ Chain(n, s) /\ Knows(q, n, s) /\ heap = NodesOf(n, s) \cup {new[q]}
      /\ new[q] \notin NodesOf(n, s) /\ \A g \in Funcs : Cardinality(Holders(n, s, g)) = owed[g]
  BY <1>1, WholeBefore DEF Outside, Seeking
<1>3. /\ doing' = [doing EXCEPT ![q] = IF n = 0 THEN "first" ELSE "search"]
      /\ p' = [p EXCEPT ![q] = head]
      /\ head' = head /\ next' = next /\ func' = func /\ heap' = heap /\ cb' = cb /\ new' = new
      /\ walk' = walk /\ owed' = owed
  <2>1. head = NoNode <=> n = 0
    BY <1>2, CallbackAssumption DEF Chain
  <2> QED BY <2>1 DEF AddLooks, Goto, walkVars, listVars
<1>4. doing'[q] = (IF n = 0 THEN "first" ELSE "search") /\ p'[q] = head
      /\ \A r \in Processes \ {q} : doing'[r] = "nothing"
  BY <1>1, <1>3 DEF CbTypeOK
<1>5. Chain(n, s)' /\ \A g : Holders(n, s, g)' = Holders(n, s, g)
  BY <1>2, <1>3 DEF Chain, Holders, NodesOf
<1>6. Knows(q, n, s)'
  BY <1>1, <1>2, <1>3, <1>4 DEF Knows, Chain, NodesOf
<1> QED BY <1>1, <1>2, <1>3, <1>4, <1>5, <1>6, WholeAfter DEF Outside, Seeking

LEMMA AddSearchWhole ==
  ASSUME CbTypeOK, CbTypeOK', ~Parallel, NEW n, NEW s, WholeList(n, s),
         NEW q \in Processes, AddSearch(q)
  PROVE  WholeList(n, s)'
<1>1. walk = "out" /\ doing[q] = "search" /\ \A r \in Processes \ {q} : doing[r] = "nothing"
  BY DEF AddSearch, At, MayRun
<1>2. /\ Chain(n, s) /\ Knows(q, n, s) /\ heap = NodesOf(n, s) \cup {new[q]}
      /\ new[q] \notin NodesOf(n, s) /\ \A g \in Funcs : Cardinality(Holders(n, s, g)) = owed[g]
  BY <1>1, WholeBefore DEF Outside, Seeking
<1>3. /\ head' = head /\ next' = next /\ func' = func /\ heap' = heap /\ cb' = cb /\ new' = new
      /\ walk' = walk /\ owed' = owed
  BY DEF AddSearch, walkVars, listVars
<1>4. PICK i \in 1..n : p[q] = s[i] /\ next[s[i]] = IF i = n THEN NoNode ELSE s[i + 1]
  BY <1>1, <1>2 DEF Knows, NodesOf, Chain
<1>5. n \in Nat /\ (i # n => i + 1 \in 1..n /\ s[i + 1] \in Nodes /\ s[i + 1] # NoNode)
  BY <1>2, CallbackAssumption DEF Chain
<1>6. /\ IF i = n THEN doing'[q] = "append" /\ p'[q] = s[n]
                  ELSE doing'[q] = "search" /\ p'[q] \in NodesOf(n, s)
      /\ \A r \in Processes \ {q} : doing'[r] = "nothing"
  <2>1. CASE i = n
    BY <1>1, <1>4, <2>1 DEF AddSearch, Goto, CbTypeOK
  <2>2. CASE i # n
    BY <1>1, <1>4, <1>5, <2>2 DEF AddSearch, CbTypeOK, NodesOf
  <2> QED BY <2>1, <2>2
<1>7. Chain(n, s)' /\ \A g : Holders(n, s, g)' = Holders(n, s, g)
  BY <1>2, <1>3 DEF Chain, Holders, NodesOf
<1>8. Knows(q, n, s)'
  BY <1>1, <1>2, <1>3, <1>5, <1>6 DEF Knows, Chain, NodesOf
<1> QED BY <1>1, <1>2, <1>3, <1>6, <1>7, <1>8, WholeAfter DEF Outside, Seeking

\* A node stored at the end of the list is one more for its function.
LEMMA OneNodeMore ==
  ASSUME CbTypeOK, CbTypeOK', NEW n, NEW s, Chain(n, s), NEW x \in Nodes \ NodesOf(n, s),
         NEW m, NEW t, NodesOf(m, t) = NodesOf(n, s) \cup {x}, func' = func,
         NEW o \in Funcs, func[x] = o,
         \A g \in Funcs : owed'[g] = IF g = o THEN owed[g] + 1 ELSE owed[g],
         \A g \in Funcs : Cardinality(Holders(n, s, g)) = owed[g]
  PROVE  \A g \in Funcs : Cardinality(Holders(m, t, g)') = owed'[g]
<1> TAKE g \in Funcs
<1>1. Holders(m, t, g)' = IF g = o THEN Holders(n, s, g) \cup {x} ELSE Holders(n, s, g)
  BY DEF Holders, NodesOf
<1>2. x \notin Holders(n, s, g) /\ IsFiniteSet(Holders(n, s, g))
  <2>1. \A f : IsFiniteSet(Holders(n, s, f))
    BY ChainFacts
  <2> QED BY <2>1 DEF Holders
<1>3. Cardinality(Holders(n, s, g) \cup {x}) = Cardinality(Holders(n, s, g)) + 1
  BY <1>2, FS_AddElement
<1> QED BY <1>1, <1>3

LEMMA AddFirstWhole ==
  ASSUME CbTypeOK, CbTypeOK', Holds, ~Parallel, NEW n, NEW s, WholeList(n, s),
         NEW q \in Processes, AddFirst(q)
  PROVE  \E m \in Nat : \E t : WholeList(m, t)'
<1>1. walk = "out" /\ doing[q] = "first" /\ \A r \in Processes \ {q} : doing[r] = "nothing"
  BY DEF AddFirst, At, MayRun
<1>2. /\ Chain(n, s) /\ Knows(q, n, s) /\ heap = NodesOf(n, s) \cup {new[q]}
      /\ new[q] \notin NodesOf(n, s) /\ \A g \in Funcs : Cardinality(Holders(n, s, g)) = owed[g]
  BY <1>1, WholeBefore DEF Outside, Seeking
<1>3. PICK x : x = new[q] /\ x \in Nodes \ NodesOf(n, s) /\ func[x] = cb[q] /\ next[x] = NoNode
  BY <1>1, <1>2 DEF Knows, Holds
<1>4. /\ head' = x /\ next' = next /\ func' = func /\ heap' = heap /\ walk' = walk
      /\ doing' = [doing EXCEPT ![q] = "nothing"] /\ owed' = [owed EXCEPT ![cb[q]] = @ + 1]
  BY <1>3 DEF AddFirst, Added, Goto, walkVars
<1>5. PICK t : t = Longer(n, s, x)
  OBVIOUS
<1>6. n = 0
  BY <1>1, <1>2 DEF Knows
<1>7. /\ n + 1 \in Nat /\ t \in [1..(n + 1) -> Nodes]
      /\ \A i, j \in 1..(n + 1) : t[i] = t[j] => i = j
      /\ NodesOf(n + 1, t) = NodesOf(n, s) \cup {x}
  <2>1. /\ n \in Nat /\ s \in [1..n -> Nodes] /\ x \in Nodes \ NodesOf(n, s)
        /\ \A i, j \in 1..n : s[i] = s[j] => i = j
    BY <1>2, <1>3 DEF Chain
  <2> QED BY <1>5, <2>1, LongerIsChain
<1>8. t[1] = x
  BY <1>5, <1>6 DEF Longer
<1>9. Chain(n + 1, t)'
  BY <1>3, <1>4, <1>6, <1>7, <1>8 DEF Chain
<1>10. \A g \in Funcs : Cardinality(Holders(n + 1, t, g)') = owed'[g]
  <2>1. PICK o \in Funcs : o = cb[q]
    BY <1>1 DEF Holds
  <2>2. /\ func[x] = o /\ func' = func
        /\ \A g \in Funcs : owed'[g] = IF g = o THEN owed[g] + 1 ELSE owed[g]
    BY <1>3, <1>4, <2>1 DEF CbTypeOK
  <2>3. \A g \in Funcs : Cardinality(Holders(n, s, g)) = owed[g]
    BY <1>2
  <2> QED BY <1>2, <1>3, <1>7, <2>2, <2>3, OneNodeMore
<1>11. doing'[q] = "nothing" /\ \A r \in Processes \ {q} : doing'[r] = "nothing"
  BY <1>1, <1>4 DEF CbTypeOK
<1>12. Knows(q, n + 1, t)'
  BY <1>11 DEF Knows
<1>13. WholeList(n + 1, t)'
  BY <1>1, <1>2, <1>3, <1>4, <1>7, <1>9, <1>10, <1>11, <1>12, WholeAfter DEF Outside, Seeking
<1> QED BY <1>7, <1>13

LEMMA AddAppendWhole ==
  ASSUME CbTypeOK, CbTypeOK', Holds, ~Parallel, NEW n, NEW s, WholeList(n, s),
         NEW q \in Processes, AddAppend(q)
  PROVE  \E m \in Nat : \E t : WholeList(m, t)'
<1>1. walk = "out" /\ doing[q] = "append" /\ \A r \in Processes \ {q} : doing[r] = "nothing"
  BY DEF AddAppend, At, MayRun
<1>2. /\ Chain(n, s) /\ Knows(q, n, s) /\ heap = NodesOf(n, s) \cup {new[q]}
      /\ new[q] \notin NodesOf(n, s) /\ \A g \in Funcs : Cardinality(Holders(n, s, g)) = owed[g]
  BY <1>1, WholeBefore DEF Outside, Seeking
<1>3. PICK x : x = new[q] /\ x \in Nodes \ NodesOf(n, s) /\ func[x] = cb[q] /\ next[x] = NoNode
  BY <1>1, <1>2 DEF Knows, Holds
<1>4. n > 0 /\ n \in Nat /\ p[q] = s[n] /\ s[n] \in Nodes
  BY <1>1, <1>2 DEF Knows, Chain
<1>5. /\ next' = [next EXCEPT ![s[n]] = x]
      /\ head' = head /\ func' = func /\ heap' = heap /\ walk' = walk
      /\ doing' = [doing EXCEPT ![q] = "nothing"] /\ owed' = [owed EXCEPT ![cb[q]] = @ + 1]
  BY <1>3, <1>4 DEF AddAppend, Added, Goto, walkVars
<1>6. PICK t : t = Longer(n, s, x)
  OBVIOUS
<1>7. /\ n + 1 \in Nat /\ t \in [1..(n + 1) -> Nodes]
      /\ \A i, j \in 1..(n + 1) : t[i] = t[j] => i = j
      /\ NodesOf(n + 1, t) = NodesOf(n, s) \cup {x}
  <2>1. /\ n \in Nat /\ s \in [1..n -> Nodes] /\ x \in Nodes \ NodesOf(n, s)
        /\ \A i, j \in 1..n : s[i] = s[j] => i = j
    BY <1>2, <1>3 DEF Chain
  <2> QED BY <1>6, <2>1, LongerIsChain
<1>8. t[n + 1] = x /\ \A i \in 1..n : t[i] = s[i]
  BY <1>4, <1>6 DEF Longer
<1>9. Chain(n + 1, t)'
  <2>1. next'[x] = NoNode /\ next'[s[n]] = x
    BY <1>2, <1>3, <1>4, <1>5 DEF CbTypeOK, NodesOf
  <2>2. \A i \in 1..(n - 1) : s[i] # s[n] /\ next'[s[i]] = s[i + 1] /\ s[i + 1] = t[i + 1]
    BY <1>2, <1>4, <1>5, <1>8 DEF Chain, CbTypeOK
  <2>3. \A i \in 1..(n + 1) : i = n + 1 \/ i = n \/ i \in 1..(n - 1)
    BY <1>4
  <2>4. \A i \in 1..(n + 1) : next'[t[i]] = IF i = n + 1 THEN NoNode ELSE t[i + 1]
    BY <1>4, <1>8, <2>1, <2>2, <2>3
  <2>5. head' = t[1]
    BY <1>2, <1>4, <1>5, <1>8 DEF Chain
  <2> QED BY <1>4, <1>7, <2>4, <2>5 DEF Chain
<1>10. \A g \in Funcs : Cardinality(Holders(n + 1, t, g)') = owed'[g]
  <2>1. PICK o \in Funcs : o = cb[q]
    BY <1>1 DEF Holds
  <2>2. /\ func[x] = o /\ func' = func
        /\ \A g \in Funcs : owed'[g] = IF g = o THEN owed[g] + 1 ELSE owed[g]
    BY <1>3, <1>5, <2>1 DEF CbTypeOK
  <2>3. \A g \in Funcs : Cardinality(Holders(n, s, g)) = owed[g]
    BY <1>2
  <2> QED BY <1>2, <1>3, <1>7, <2>2, <2>3, OneNodeMore
<1>11. doing'[q] = "nothing" /\ \A r \in Processes \ {q} : doing'[r] = "nothing"
  BY <1>1, <1>5 DEF CbTypeOK
<1>12. Knows(q, n + 1, t)'
  BY <1>11 DEF Knows
<1>13. WholeList(n + 1, t)'
  BY <1>1, <1>2, <1>3, <1>5, <1>7, <1>9, <1>10, <1>11, <1>12, WholeAfter DEF Outside, Seeking
<1> QED BY <1>7, <1>13

-------------------------------------------------------------------------------
(* Removals. *)

LEMMA RemoveBeginsWhole ==
  ASSUME CbTypeOK, CbTypeOK', ~Parallel, NEW n, NEW s, WholeList(n, s),
         NEW q \in Processes, NEW f \in Funcs, RemoveBegins(q, f)
  PROVE  WholeList(n, s)'
<1>1. walk = "out" /\ doing[q] = "nothing" /\ \A r \in Processes \ {q} : doing[r] = "nothing"
  BY DEF RemoveBegins, At, MayRun
<1>2. Chain(n, s) /\ heap = NodesOf(n, s)
      /\ \A g \in Funcs : Cardinality(Holders(n, s, g)) = owed[g]
  <2>1. doing[q] \notin Outside /\ doing[q] \notin Seeking /\ doing[q] \notin {"delete", "drop"}
    BY <1>1 DEF Outside, Seeking
  <2> QED BY <1>1, <2>1, WholeBefore
<1>3. /\ doing' = [doing EXCEPT ![q] = "remove"] /\ cb' = [cb EXCEPT ![q] = f]
      /\ owed' = [owed EXCEPT ![f] = IF @ = 0 THEN 0 ELSE @ - 1]
      /\ head' = head /\ next' = next /\ func' = func /\ heap' = heap /\ walk' = walk
  BY DEF RemoveBegins, Goto, walkVars, listVars
<1>4. doing'[q] = "remove" /\ cb'[q] = f /\ \A r \in Processes \ {q} : doing'[r] = "nothing"
  BY <1>1, <1>3 DEF CbTypeOK
<1>5. Chain(n, s)' /\ \A g : Holders(n, s, g)' = Holders(n, s, g)
  BY <1>2, <1>3 DEF Chain, Holders, NodesOf
<1>6. Knows(q, n, s)'
  BY <1>4 DEF Knows
<1>7. \A g \in Funcs : /\ owed[g] \in Nat
                       /\ g # f => owed'[g] = owed[g]
                       /\ owed'[f] = IF owed[f] = 0 THEN 0 ELSE owed[f] - 1
  BY <1>3 DEF CbTypeOK
<1>8. \A g \in Funcs :
        IF cb'[q] = g
          THEN \/ Cardinality(Holders(n, s, g)') = owed'[g] + 1
               \/ Cardinality(Holders(n, s, g)') = 0 /\ owed'[g] = 0
          ELSE Cardinality(Holders(n, s, g)') = owed'[g]
  BY <1>2, <1>4, <1>5, <1>7
<1>9. doing'[q] \notin Outside /\ doing'[q] \in Seeking
  BY <1>4 DEF Outside, Seeking
<1> QED BY <1>1, <1>2, <1>3, <1>4, <1>5, <1>6, <1>8, <1>9, WholeAfter

\* What a removal finds at any of its steps.
LEMMA RemovalBefore ==
  ASSUME CbTypeOK, Holds, ~Parallel, NEW n, NEW s, WholeList(n, s),
         NEW q \in Processes, NEW d \in Seeking, At(q, d)
  PROVE  /\ walk = "out" /\ doing[q] = d /\ \A r \in Processes \ {q} : doing[r] = "nothing"
         /\ Chain(n, s) /\ Knows(q, n, s) /\ heap = NodesOf(n, s) /\ cb[q] \in Funcs
         /\ \A g \in Funcs :
              IF cb[q] = g
                THEN \/ Cardinality(Holders(n, s, g)) = owed[g] + 1
                     \/ Cardinality(Holders(n, s, g)) = 0 /\ owed[g] = 0
                ELSE Cardinality(Holders(n, s, g)) = owed[g]
<1>1. walk = "out" /\ doing[q] = d /\ \A r \in Processes \ {q} : doing[r] = "nothing"
  BY DEF At, MayRun
<1>2. doing[q] \notin Outside /\ doing[q] \in Seeking /\ doing[q] \notin {"delete", "drop", "nothing"}
  BY <1>1 DEF Outside, Seeking
<1>3. cb[q] \in Funcs
  BY <1>2 DEF Holds
<1>4. /\ Chain(n, s) /\ Knows(q, n, s)
      /\ heap = NodesOf(n, s) \cup (IF doing[q] \in Outside THEN {new[q]} ELSE {})
      /\ \A g \in Funcs :
           IF doing[q] \in Seeking /\ cb[q] = g
             THEN \/ Cardinality(Holders(n, s, g)) = owed[g] + 1
                  \/ Cardinality(Holders(n, s, g)) = 0 /\ owed[g] = 0
             ELSE Cardinality(Holders(n, s, g)) = owed[g]
  BY <1>1, <1>2, WholeBefore
<1>5. heap = NodesOf(n, s)
  BY <1>2, <1>4
<1>6. \A g \in Funcs :
        IF cb[q] = g
          THEN \/ Cardinality(Holders(n, s, g)) = owed[g] + 1
               \/ Cardinality(Holders(n, s, g)) = 0 /\ owed[g] = 0
          ELSE Cardinality(Holders(n, s, g)) = owed[g]
  BY <1>2, <1>4
<1> QED BY <1>1, <1>3, <1>4, <1>5, <1>6

\* A removal that has found nothing returns: the function was not registered.
LEMMA NotFound ==
  ASSUME CbTypeOK, CbTypeOK', NEW n, NEW s, NEW q \in Processes, walk' = walk, walk = "out",
         \A r \in Processes \ {q} : doing[r] = "nothing",
         Chain(n, s), heap = NodesOf(n, s), cb[q] \in Funcs,
         \A g \in Funcs :
           IF cb[q] = g
             THEN \/ Cardinality(Holders(n, s, g)) = owed[g] + 1
                  \/ Cardinality(Holders(n, s, g)) = 0 /\ owed[g] = 0
             ELSE Cardinality(Holders(n, s, g)) = owed[g],
         Holders(n, s, cb[q]) = {}, RemoveReturns(q), UNCHANGED <<listVars, owed>>
  PROVE  WholeList(n, s)'
<1>1. /\ doing' = [doing EXCEPT ![q] = "nothing"]
      /\ head' = head /\ next' = next /\ func' = func /\ heap' = heap /\ owed' = owed
  BY DEF RemoveReturns, Goto, listVars
<1>2. \A r \in Processes : doing'[r] = "nothing"
  BY <1>1 DEF CbTypeOK
<1>3. Chain(n, s)' /\ \A g : Holders(n, s, g)' = Holders(n, s, g)
  BY <1>1 DEF Chain, Holders, NodesOf
<1>4. Knows(q, n, s)'
  BY <1>2 DEF Knows
<1>5. Cardinality(Holders(n, s, cb[q])) = 0
  BY FS_EmptySet
<1>6. \A g \in Funcs : owed[g] \in Nat
  BY DEF CbTypeOK
<1>7. ASSUME NEW g \in Funcs PROVE Cardinality(Holders(n, s, g)) = owed[g]
  <2>1. CASE g = cb[q]
    <3>1. owed[g] + 1 # 0
      BY <1>6
    <3> QED BY <1>5, <2>1, <3>1
  <2>2. CASE g # cb[q]
    BY <2>2
  <2> QED BY <2>1, <2>2
<1>8. doing'[q] \notin Outside /\ doing'[q] \notin Seeking
  BY <1>2 DEF Outside, Seeking
<1> QED BY <1>1, <1>2, <1>3, <1>4, <1>7, <1>8, WholeAfter

LEMMA RemoveLooksWhole ==
  ASSUME CbTypeOK, CbTypeOK', Holds, ~Parallel, NEW n, NEW s, WholeList(n, s),
         NEW q \in Processes, RemoveLooks(q)
  PROVE  WholeList(n, s)'
<1>0. At(q, "remove") /\ "remove" \in Seeking
  BY DEF RemoveLooks, Seeking
<1>1. /\ walk = "out" /\ doing[q] = "remove" /\ \A r \in Processes \ {q} : doing[r] = "nothing"
      /\ Chain(n, s) /\ Knows(q, n, s) /\ heap = NodesOf(n, s) /\ cb[q] \in Funcs
  BY <1>0, RemovalBefore
<1>2. \A g \in Funcs :
        IF cb[q] = g
          THEN \/ Cardinality(Holders(n, s, g)) = owed[g] + 1
               \/ Cardinality(Holders(n, s, g)) = 0 /\ owed[g] = 0
          ELSE Cardinality(Holders(n, s, g)) = owed[g]
  BY <1>0, RemovalBefore
<1>3. walk' = walk /\ UNCHANGED <<listVars, owed>>
  BY DEF RemoveLooks, walkVars
<1>4. n \in Nat /\ s \in [1..n -> Nodes] /\ (head = NoNode <=> n = 0)
  BY <1>1, CallbackAssumption DEF Chain
<1>5. CASE n = 0
  <2>1. RemoveReturns(q)
    BY <1>4, <1>5 DEF RemoveLooks
  <2>2. Holders(n, s, cb[q]) = {}
    BY <1>5 DEF Holders, NodesOf
  <2> QED BY <1>1, <1>2, <1>3, <2>1, <2>2, NotFound
<1>6. CASE n # 0
  <2>1. /\ doing' = [doing EXCEPT ![q] = IF func[head] = cb[q] THEN "behead" ELSE "find"]
        /\ p' = [p EXCEPT ![q] = head] /\ cb' = cb /\ new' = new
        /\ head' = head /\ next' = next /\ func' = func /\ heap' = heap /\ owed' = owed
    BY <1>4, <1>6 DEF RemoveLooks, Goto, listVars
  <2>2. /\ doing'[q] = (IF func[head] = cb[q] THEN "behead" ELSE "find") /\ p'[q] = head
        /\ \A r \in Processes \ {q} : doing'[r] = "nothing"
    BY <1>1, <2>1 DEF CbTypeOK
  <2>3. Chain(n, s)' /\ \A g : Holders(n, s, g)' = Holders(n, s, g)
    BY <1>1, <2>1 DEF Chain, Holders, NodesOf
  <2>4. head = s[1] /\ 1 \in 1..n /\ n > 0
    BY <1>1, <1>4, <1>6 DEF Chain
  <2>5. Knows(q, n, s)'
    <3>1. doing'[q] = "find" => \E i \in 1..n : p'[q] = s[i] /\ \A j \in 1..i : func'[s[j]] # cb'[q]
      <4> SUFFICES ASSUME doing'[q] = "find" PROVE \A j \in 1..1 : func'[s[j]] # cb'[q]
        BY <2>2, <2>4
      <4>1. func[head] # cb[q]
        BY <2>2
      <4> QED BY <2>1, <2>4, <4>1
    <3>2. doing'[q] = "behead" => p'[q] = s[1] /\ func'[s[1]] = cb'[q]
      BY <2>1, <2>2, <2>4
    <3> QED BY <2>2, <2>4, <3>1, <3>2 DEF Knows
  <2>6. doing'[q] \notin Outside /\ doing'[q] \in Seeking
    BY <2>2 DEF Outside, Seeking
  <2>7. \A g \in Funcs :
          IF cb'[q] = g
            THEN \/ Cardinality(Holders(n, s, g)') = owed'[g] + 1
                 \/ Cardinality(Holders(n, s, g)') = 0 /\ owed'[g] = 0
            ELSE Cardinality(Holders(n, s, g)') = owed'[g]
    BY <1>2, <2>1, <2>3
  <2> QED BY <1>1, <1>3, <2>1, <2>2, <2>3, <2>5, <2>6, <2>7, WholeAfter
<1> QED BY <1>5, <1>6

LEMMA RemoveFindsWhole ==
  ASSUME CbTypeOK, CbTypeOK', Holds, ~Parallel, NEW n, NEW s, WholeList(n, s),
         NEW q \in Processes, RemoveFinds(q)
  PROVE  WholeList(n, s)'
<1>0. At(q, "find") /\ "find" \in Seeking
  BY DEF RemoveFinds, Seeking
<1>1. /\ walk = "out" /\ doing[q] = "find" /\ \A r \in Processes \ {q} : doing[r] = "nothing"
      /\ Chain(n, s) /\ Knows(q, n, s) /\ heap = NodesOf(n, s) /\ cb[q] \in Funcs
  BY <1>0, RemovalBefore
<1>2. \A g \in Funcs :
        IF cb[q] = g
          THEN \/ Cardinality(Holders(n, s, g)) = owed[g] + 1
               \/ Cardinality(Holders(n, s, g)) = 0 /\ owed[g] = 0
          ELSE Cardinality(Holders(n, s, g)) = owed[g]
  BY <1>0, RemovalBefore
<1>3. walk' = walk /\ UNCHANGED <<listVars, owed>>
  BY DEF RemoveFinds, walkVars
<1>4. PICK i \in 1..n : p[q] = s[i] /\ \A j \in 1..i : func[s[j]] # cb[q]
  BY <1>1 DEF Knows
<1>5. /\ n \in Nat /\ next[s[i]] = IF i = n THEN NoNode ELSE s[i + 1]
      /\ (i # n => i \in 1..(n - 1) /\ i + 1 \in 1..n /\ s[i + 1] \in Nodes /\ s[i + 1] # NoNode)
  BY <1>1, CallbackAssumption DEF Chain
<1>6. CASE i = n
  <2>1. RemoveReturns(q)
    BY <1>4, <1>5, <1>6 DEF RemoveFinds
  <2>2. Holders(n, s, cb[q]) = {}
    BY <1>4, <1>6 DEF Holders, NodesOf
  <2> QED BY <1>1, <1>2, <1>3, <2>1, <2>2, NotFound
<1>7. CASE i # n
  <2>1. next[p[q]] = s[i + 1] /\ next[p[q]] # NoNode
    BY <1>4, <1>5, <1>7
  <2>2. /\ IF func[s[i + 1]] = cb[q]
             THEN /\ doing' = [doing EXCEPT ![q] = "cut"] /\ new' = [new EXCEPT ![q] = s[i + 1]]
                  /\ p' = p
             ELSE p' = [p EXCEPT ![q] = s[i + 1]] /\ doing' = doing /\ new' = new
        /\ head' = head /\ next' = next /\ func' = func /\ heap' = heap /\ owed' = owed /\ cb' = cb
    BY <1>3, <2>1 DEF RemoveFinds, Matches, Goto, listVars
  <2>3. /\ IF func[s[i + 1]] = cb[q] THEN doing'[q] = "cut" /\ new'[q] = s[i + 1] /\ p'[q] = s[i]
                                     ELSE doing'[q] = "find" /\ p'[q] = s[i + 1]
        /\ \A r \in Processes \ {q} : doing'[r] = "nothing"
    BY <1>1, <1>4, <2>2 DEF CbTypeOK
  <2>4. Chain(n, s)' /\ \A g : Holders(n, s, g)' = Holders(n, s, g)
    BY <1>1, <2>2 DEF Chain, Holders, NodesOf
  <2>5. Knows(q, n, s)'
    <3>1. CASE func[s[i + 1]] = cb[q]
      <4>1. i \in 1..(n - 1) /\ p'[q] = s[i] /\ new'[q] = s[i + 1] /\ func'[s[i + 1]] = cb'[q]
        BY <1>5, <1>7, <2>2, <2>3, <3>1
      <4> QED BY <2>3, <3>1, <4>1 DEF Knows
    <3>2. CASE func[s[i + 1]] # cb[q]
      <4>1. \A j \in 1..(i + 1) : func'[s[j]] # cb'[q]
        BY <1>4, <2>2, <3>2
      <4>2. \E k \in 1..n : p'[q] = s[k] /\ \A j \in 1..k : func'[s[j]] # cb'[q]
        BY <1>5, <1>7, <2>3, <3>2, <4>1
      <4> QED BY <2>3, <3>2, <4>2 DEF Knows
    <3> QED BY <3>1, <3>2
  <2>6. doing'[q] \notin Outside /\ doing'[q] \in Seeking
    BY <2>3 DEF Outside, Seeking
  <2>7. \A g \in Funcs :
          IF cb'[q] = g
            THEN \/ Cardinality(Holders(n, s, g)') = owed'[g] + 1
                 \/ Cardinality(Holders(n, s, g)') = 0 /\ owed'[g] = 0
            ELSE Cardinality(Holders(n, s, g)') = owed'[g]
    BY <1>2, <2>2, <2>4
  <2> QED BY <1>1, <1>3, <2>2, <2>3, <2>4, <2>5, <2>6, <2>7, WholeAfter
<1> QED BY <1>6, <1>7

LEMMA OneNodeLess ==
  ASSUME CbTypeOK, NEW n, NEW s, Chain(n, s), NEW x \in NodesOf(n, s),
         NEW m, NEW t, NodesOf(m, t) = NodesOf(n, s) \ {x}, func' = func
  PROVE  \A g \in Funcs :
           Cardinality(Holders(m, t, g)') =
             IF func[x] = g THEN Cardinality(Holders(n, s, g)) - 1 ELSE Cardinality(Holders(n, s, g))
<1> TAKE g \in Funcs
<1>1. Holders(m, t, g)' = Holders(n, s, g) \ {x} /\ (x \in Holders(n, s, g) <=> func[x] = g)
  BY DEF Holders, NodesOf
<1>2. IsFiniteSet(Holders(n, s, g))
  BY ChainFacts
<1> QED BY <1>1, <1>2, FS_RemoveElement

\* The list without its first node.
LEMMA HeadGone ==
  ASSUME CbTypeOK, NEW n, NEW s, Chain(n, s), n # 0, head' = next[s[1]], next' = next
  PROVE  \E t : /\ n - 1 \in Nat /\ Chain(n - 1, t)' /\ s[1] \in NodesOf(n, s)
                /\ NodesOf(n - 1, t) = NodesOf(n, s) \ {s[1]}
<1>1. PICK t : t = Shorter(n, s, 0)
  OBVIOUS
<1>2. /\ n - 1 \in Nat /\ t \in [1..(n - 1) -> Nodes]
      /\ \A i, j \in 1..(n - 1) : t[i] = t[j] => i = j
      /\ NodesOf(n - 1, t) = NodesOf(n, s) \ {s[0 + 1]} /\ s[0 + 1] \in NodesOf(n, s)
  <2>1. /\ n \in Nat /\ s \in [1..n -> Nodes] /\ 0 \in 0..(n - 1)
        /\ \A i, j \in 1..n : s[i] = s[j] => i = j
    BY DEF Chain
  <2> QED BY <1>1, <2>1, ShorterIsChain
<1>3. n \in Nat /\ \A i \in 1..(n - 1) : t[i] = s[i + 1] /\ i + 1 \in 1..n
  BY <1>1 DEF Shorter, Chain
<1>4. 0 + 1 = 1 /\ 1 \in 1..n
  BY <1>3
<1>5. head' = IF n - 1 = 0 THEN NoNode ELSE t[1]
  <2>1. next[s[1]] = IF 1 = n THEN NoNode ELSE s[1 + 1]
    BY <1>4 DEF Chain
  <2> QED BY <1>3, <2>1
<1>6. \A i \in 1..(n - 1) : next'[t[i]] = IF i = n - 1 THEN NoNode ELSE t[i + 1]
  <2> TAKE i \in 1..(n - 1)
  <2>1. next[s[i + 1]] = IF i + 1 = n THEN NoNode ELSE s[(i + 1) + 1]
    BY <1>3 DEF Chain
  <2>2. i # n - 1 => i + 1 \in 1..(n - 1)
    BY <1>3
  <2> QED BY <1>3, <2>1, <2>2
<1> QED BY <1>2, <1>4, <1>5, <1>6 DEF Chain

\* The list without the node that follows its i-th.
LEMMA NodeGone ==
  ASSUME CbTypeOK, NEW n, NEW s, Chain(n, s), NEW i \in 1..(n - 1),
         head' = head,
         \A j \in 1..n : next'[s[j]] = IF j = i THEN next[s[i + 1]] ELSE next[s[j]]
  PROVE  \E t : /\ n - 1 \in Nat /\ Chain(n - 1, t)' /\ s[i + 1] \in NodesOf(n, s)
                /\ NodesOf(n - 1, t) = NodesOf(n, s) \ {s[i + 1]}
<1>1. PICK t : t = Shorter(n, s, i)
  OBVIOUS
<1>2. n \in Nat /\ i \in Nat /\ i >= 1 /\ i <= n - 1 /\ i \in 0..(n - 1) /\ i \in 1..n
  BY DEF Chain
<1>3. /\ n - 1 \in Nat /\ t \in [1..(n - 1) -> Nodes]
      /\ \A j, k \in 1..(n - 1) : t[j] = t[k] => j = k
      /\ NodesOf(n - 1, t) = NodesOf(n, s) \ {s[i + 1]} /\ s[i + 1] \in NodesOf(n, s)
  <2>1. s \in [1..n -> Nodes] /\ \A j, k \in 1..n : s[j] = s[k] => j = k
    BY DEF Chain
  <2> QED BY <1>1, <1>2, <2>1, ShorterIsChain
<1>4. \A j \in 1..(n - 1) : t[j] = IF j <= i THEN s[j] ELSE s[j + 1]
  BY <1>1 DEF Shorter
<1>5. /\ \A j \in 1..n : next[s[j]] = IF j = n THEN NoNode ELSE s[j + 1]
      /\ \A j \in 1..n : s[j] \in Nodes
      /\ \A j, k \in 1..n : s[j] = s[k] => j = k
  BY DEF Chain
<1>6. \A j \in 1..n : next'[s[j]] = IF j = i THEN next[s[i + 1]] ELSE next[s[j]]
  OBVIOUS
<1>7. head' = IF n - 1 = 0 THEN NoNode ELSE t[1]
  BY <1>2, <1>4 DEF Chain
<1>8. ASSUME NEW j \in 1..(n - 1)
      PROVE  next'[t[j]] = IF j = n - 1 THEN NoNode ELSE t[j + 1]
  <2>1. CASE j < i
    <3>1. /\ j \in 1..n /\ j # n /\ t[j] = s[j] /\ j # i
          /\ j # n - 1 /\ j + 1 \in 1..(n - 1) /\ t[j + 1] = s[j + 1]
      BY <1>2, <1>4, <2>1
    <3> QED BY <1>5, <1>6, <3>1
  <2>2. CASE j = i
    <3>1. /\ t[j] = s[i] /\ i + 1 \in 1..n
          /\ j # n - 1 => j + 1 \in 1..(n - 1) /\ t[j + 1] = s[(i + 1) + 1] /\ i + 1 # n
      BY <1>2, <1>4, <2>2
    <3>2. next'[s[i]] = next[s[i + 1]]
      BY <1>2, <1>6
    <3>3. next[s[i + 1]] = IF i + 1 = n THEN NoNode ELSE s[(i + 1) + 1]
      BY <1>5, <3>1
    <3> QED BY <1>2, <2>2, <3>1, <3>2, <3>3
  <2>3. CASE j > i
    <3>1. /\ t[j] = s[j + 1] /\ j + 1 \in 1..n /\ j + 1 # i
          /\ j # n - 1 => j + 1 \in 1..(n - 1) /\ t[j + 1] = s[(j + 1) + 1] /\ j + 1 # n
      BY <1>2, <1>4, <2>3
    <3>2. next'[s[j + 1]] = next[s[j + 1]]
      BY <1>6, <3>1
    <3>3. next[s[j + 1]] = IF j + 1 = n THEN NoNode ELSE s[(j + 1) + 1]
      BY <1>5, <3>1
    <3> QED BY <1>2, <3>1, <3>2, <3>3
  <2> QED BY <1>2, <2>1, <2>2, <2>3
<1> QED BY <1>3, <1>7, <1>8 DEF Chain

LEMMA RemoveHeadWhole ==
  ASSUME CbTypeOK, CbTypeOK', Holds, ~Parallel, NEW n, NEW s, WholeList(n, s),
         NEW q \in Processes, RemoveHead(q)
  PROVE  \E m \in Nat : \E t : WholeList(m, t)'
<1>0. At(q, "behead") /\ "behead" \in Seeking
  BY DEF RemoveHead, Seeking
<1>1. /\ walk = "out" /\ doing[q] = "behead" /\ \A r \in Processes \ {q} : doing[r] = "nothing"
      /\ Chain(n, s) /\ Knows(q, n, s) /\ heap = NodesOf(n, s) /\ cb[q] \in Funcs
  BY <1>0, RemovalBefore
<1>2. \A g \in Funcs :
        IF cb[q] = g
          THEN \/ Cardinality(Holders(n, s, g)) = owed[g] + 1
               \/ Cardinality(Holders(n, s, g)) = 0 /\ owed[g] = 0
          ELSE Cardinality(Holders(n, s, g)) = owed[g]
  BY <1>0, RemovalBefore
<1>3. n # 0 /\ n \in Nat /\ p[q] = s[1] /\ func[s[1]] = cb[q]
  BY <1>1 DEF Knows, Chain
<1>4. /\ head' = next[s[1]] /\ new' = [new EXCEPT ![q] = s[1]]
      /\ doing' = [doing EXCEPT ![q] = "free"]
      /\ next' = next /\ func' = func /\ heap' = heap /\ cb' = cb /\ walk' = walk /\ owed' = owed
  BY <1>3 DEF RemoveHead, Goto, walkVars
<1>5. PICK t : /\ n - 1 \in Nat /\ Chain(n - 1, t)' /\ s[1] \in NodesOf(n, s)
               /\ NodesOf(n - 1, t) = NodesOf(n, s) \ {s[1]}
  BY <1>1, <1>3, <1>4, HeadGone
<1>6. /\ doing'[q] = "free" /\ new'[q] = s[1] /\ \A r \in Processes \ {q} : doing'[r] = "nothing"
  BY <1>1, <1>4 DEF CbTypeOK
<1>7. doing'[q] \in Outside /\ doing'[q] \notin Seeking
  BY <1>6 DEF Outside, Seeking
<1>8. Knows(q, n - 1, t)'
  BY <1>6 DEF Knows
<1>9. \A g \in Funcs : Cardinality(Holders(n - 1, t, g)') =
        IF func[s[1]] = g THEN Cardinality(Holders(n, s, g)) - 1 ELSE Cardinality(Holders(n, s, g))
  BY <1>1, <1>4, <1>5, OneNodeLess
<1>10. ASSUME NEW g \in Funcs PROVE Cardinality(Holders(n - 1, t, g)') = owed'[g]
  <2>1. CASE g = cb[q]
    <3>1. s[1] \in Holders(n, s, g)
      BY <1>3, <1>5, <2>1 DEF Holders
    <3>2. Cardinality(Holders(n, s, g)) # 0 /\ Cardinality(Holders(n, s, g)) \in Nat
      BY <1>1, <3>1, ChainFacts
    <3>3. Cardinality(Holders(n, s, g)) = owed[g] + 1
      BY <1>2, <2>1, <3>2
    <3>4. owed[g] \in Nat
      BY DEF CbTypeOK
    <3> QED BY <1>3, <1>4, <1>9, <2>1, <3>3, <3>4
  <2>2. CASE g # cb[q]
    BY <1>2, <1>3, <1>4, <1>9, <2>2
  <2> QED BY <2>1, <2>2
<1>11. heap' = NodesOf(n - 1, t) \cup {new'[q]} /\ new'[q] \notin NodesOf(n - 1, t)
  BY <1>1, <1>4, <1>5, <1>6
<1>12. WholeList(n - 1, t)'
  BY <1>1, <1>4, <1>5, <1>6, <1>7, <1>8, <1>10, <1>11, WholeAfter
<1> QED BY <1>5, <1>12

LEMMA RemoveCutsWhole ==
  ASSUME CbTypeOK, CbTypeOK', Holds, ~Parallel, NEW n, NEW s, WholeList(n, s),
         NEW q \in Processes, RemoveCuts(q)
  PROVE  \E m \in Nat : \E t : WholeList(m, t)'
<1>0. At(q, "cut") /\ "cut" \in Seeking
  BY DEF RemoveCuts, Seeking
<1>1. /\ walk = "out" /\ doing[q] = "cut" /\ \A r \in Processes \ {q} : doing[r] = "nothing"
      /\ Chain(n, s) /\ Knows(q, n, s) /\ heap = NodesOf(n, s) /\ cb[q] \in Funcs
  BY <1>0, RemovalBefore
<1>2. \A g \in Funcs :
        IF cb[q] = g
          THEN \/ Cardinality(Holders(n, s, g)) = owed[g] + 1
               \/ Cardinality(Holders(n, s, g)) = 0 /\ owed[g] = 0
          ELSE Cardinality(Holders(n, s, g)) = owed[g]
  BY <1>0, RemovalBefore
<1>3. PICK i \in 1..(n - 1) : p[q] = s[i] /\ new[q] = s[i + 1] /\ func[s[i + 1]] = cb[q]
  BY <1>1 DEF Knows
<1>4. /\ next' = [next EXCEPT ![s[i]] = next[s[i + 1]]] /\ head' = head
      /\ doing' = [doing EXCEPT ![q] = "free"] /\ new' = new
      /\ func' = func /\ heap' = heap /\ cb' = cb /\ walk' = walk /\ owed' = owed
  BY <1>3 DEF RemoveCuts, Goto, walkVars
<1>5. PICK t : /\ n - 1 \in Nat /\ Chain(n - 1, t)' /\ s[i + 1] \in NodesOf(n, s)
               /\ NodesOf(n - 1, t) = NodesOf(n, s) \ {s[i + 1]}
  <2>1. i \in 1..n /\ \A j, k \in 1..n : s[j] \in Nodes /\ (s[j] = s[k] => j = k)
    BY <1>1 DEF Chain
  <2>2. \A j \in 1..n : next'[s[j]] = IF j = i THEN next[s[i + 1]] ELSE next[s[j]]
    BY <1>4, <2>1 DEF CbTypeOK
  <2> QED BY <1>1, <1>4, <2>2, NodeGone
<1>6. /\ doing'[q] = "free" /\ new'[q] = s[i + 1] /\ \A r \in Processes \ {q} : doing'[r] = "nothing"
  BY <1>1, <1>3, <1>4 DEF CbTypeOK
<1>7. doing'[q] \in Outside /\ doing'[q] \notin Seeking
  BY <1>6 DEF Outside, Seeking
<1>8. Knows(q, n - 1, t)'
  BY <1>6 DEF Knows
<1>9. \A g \in Funcs : Cardinality(Holders(n - 1, t, g)') =
        IF func[s[i + 1]] = g THEN Cardinality(Holders(n, s, g)) - 1
                              ELSE Cardinality(Holders(n, s, g))
  BY <1>1, <1>4, <1>5, OneNodeLess
<1>10. ASSUME NEW g \in Funcs PROVE Cardinality(Holders(n - 1, t, g)') = owed'[g]
  <2>1. CASE g = cb[q]
    <3>1. s[i + 1] \in Holders(n, s, g)
      BY <1>3, <1>5, <2>1 DEF Holders
    <3>2. Cardinality(Holders(n, s, g)) # 0 /\ Cardinality(Holders(n, s, g)) \in Nat
      BY <1>1, <3>1, ChainFacts
    <3>3. Cardinality(Holders(n, s, g)) = owed[g] + 1
      BY <1>2, <2>1, <3>2
    <3>4. owed[g] \in Nat
      BY DEF CbTypeOK
    <3> QED BY <1>3, <1>4, <1>9, <2>1, <3>3, <3>4
  <2>2. CASE g # cb[q]
    BY <1>2, <1>3, <1>4, <1>9, <2>2
  <2> QED BY <2>1, <2>2
<1>11. heap' = NodesOf(n - 1, t) \cup {new'[q]} /\ new'[q] \notin NodesOf(n - 1, t)
  BY <1>1, <1>4, <1>5, <1>6
<1>12. WholeList(n - 1, t)'
  BY <1>1, <1>4, <1>5, <1>6, <1>7, <1>8, <1>10, <1>11, WholeAfter
<1> QED BY <1>5, <1>12

LEMMA RemoveFreesWhole ==
  ASSUME CbTypeOK, CbTypeOK', Holds, ~Parallel, NEW n, NEW s, WholeList(n, s),
         NEW q \in Processes, RemoveFrees(q)
  PROVE  WholeList(n, s)'
<1>1. walk = "out" /\ doing[q] = "free" /\ \A r \in Processes \ {q} : doing[r] = "nothing"
  BY DEF RemoveFrees, At, MayRun
<1>2. /\ Chain(n, s) /\ heap = NodesOf(n, s) \cup {new[q]} /\ new[q] \notin NodesOf(n, s)
      /\ \A g \in Funcs : Cardinality(Holders(n, s, g)) = owed[g]
  <2>1. doing[q] \in Outside /\ doing[q] \notin Seeking /\ doing[q] \notin {"delete", "drop"}
    BY <1>1 DEF Outside, Seeking
  <2> QED BY <1>1, <2>1, WholeBefore
<1>3. /\ doing' = [doing EXCEPT ![q] = "nothing"] /\ heap' = heap \ {new[q]}
      /\ head' = head /\ next' = next /\ func' = func /\ owed' = owed /\ walk' = walk
  BY DEF RemoveFrees, RemoveReturns, Goto, walkVars
<1>4. doing'[q] = "nothing" /\ \A r \in Processes \ {q} : doing'[r] = "nothing"
  BY <1>1, <1>3 DEF CbTypeOK
<1>5. Chain(n, s)' /\ \A g : Holders(n, s, g)' = Holders(n, s, g)
  BY <1>2, <1>3 DEF Chain, Holders, NodesOf
<1>6. Knows(q, n, s)'
  BY <1>4 DEF Knows
<1>7. doing'[q] \notin Outside /\ doing'[q] \notin Seeking
  BY <1>4 DEF Outside, Seeking
<1>8. heap' = NodesOf(n, s)
  BY <1>2, <1>3
<1>9. \A g \in Funcs : Cardinality(Holders(n, s, g)') = owed'[g]
  BY <1>2, <1>3, <1>5
<1> QED BY <1>1, <1>3, <1>4, <1>5, <1>6, <1>7, <1>8, <1>9, WholeAfter

-------------------------------------------------------------------------------
(* The emptying of the list. *)

LEMMA DeleteBeginsWhole ==
  ASSUME CbTypeOK, CbTypeOK', ~Parallel, NEW n, NEW s, WholeList(n, s),
         NEW q \in Processes, DeleteBegins(q)
  PROVE  WholeList(n, s)'
<1>1. walk = "out" /\ \A r \in Processes : doing[r] = "nothing"
  BY DEF DeleteBegins
<1>2. Chain(n, s) /\ heap = NodesOf(n, s)
  <2>1. doing[q] \notin Outside
    BY <1>1 DEF Outside
  <2>2. /\ Chain(n, s)
        /\ heap = NodesOf(n, s) \cup (IF doing[q] \in Outside THEN {new[q]} ELSE {})
    BY <1>1, WholeBefore
  <2> QED BY <2>1, <2>2
<1>3. /\ doing' = [doing EXCEPT ![q] = "delete"]
      /\ head' = head /\ next' = next /\ func' = func /\ heap' = heap /\ walk' = walk
  BY DEF DeleteBegins, Goto, walkVars, listVars
<1>4. doing'[q] = "delete" /\ \A r \in Processes \ {q} : doing'[r] = "nothing"
  BY <1>1, <1>3 DEF CbTypeOK
<1>5. Chain(n, s)'
  BY <1>2, <1>3 DEF Chain
<1>6. Knows(q, n, s)'
  BY <1>4 DEF Knows
<1>7. doing'[q] \notin Outside
  BY <1>4 DEF Outside
<1> QED BY <1>1, <1>2, <1>3, <1>4, <1>5, <1>6, <1>7, WholeAfter

LEMMA DeleteHeadWhole ==
  ASSUME CbTypeOK, CbTypeOK', ~Parallel, NEW n, NEW s, WholeList(n, s),
         NEW q \in Processes, DeleteHead(q)
  PROVE  \E m \in Nat : \E t : WholeList(m, t)'
<1>1. walk = "out" /\ doing[q] = "delete" /\ \A r \in Processes \ {q} : doing[r] = "nothing"
  BY DEF DeleteHead, At, MayRun
<1>2. Chain(n, s) /\ heap = NodesOf(n, s)
  <2>1. doing[q] \notin Outside
    BY <1>1 DEF Outside
  <2> QED BY <1>1, <2>1, WholeBefore
<1>3. n # 0 /\ head = s[1]
  BY <1>2 DEF DeleteHead, Chain
<1>4. /\ head' = next[s[1]] /\ new' = [new EXCEPT ![q] = s[1]]
      /\ doing' = [doing EXCEPT ![q] = "drop"]
      /\ next' = next /\ func' = func /\ heap' = heap /\ walk' = walk
  BY <1>3 DEF DeleteHead, Goto, walkVars
<1>5. PICK t : /\ n - 1 \in Nat /\ Chain(n - 1, t)' /\ s[1] \in NodesOf(n, s)
               /\ NodesOf(n - 1, t) = NodesOf(n, s) \ {s[1]}
  BY <1>2, <1>3, <1>4, HeadGone
<1>6. /\ doing'[q] = "drop" /\ new'[q] = s[1] /\ \A r \in Processes \ {q} : doing'[r] = "nothing"
  BY <1>1, <1>4 DEF CbTypeOK
<1>7. doing'[q] \in Outside
  BY <1>6 DEF Outside
<1>8. Knows(q, n - 1, t)'
  BY <1>6 DEF Knows
<1>9. heap' = NodesOf(n - 1, t) \cup {new'[q]} /\ new'[q] \notin NodesOf(n - 1, t)
  BY <1>2, <1>4, <1>5, <1>6
<1>10. WholeList(n - 1, t)'
  BY <1>1, <1>4, <1>5, <1>6, <1>7, <1>8, <1>9, WholeAfter
<1> QED BY <1>5, <1>10

LEMMA DeleteFreesWhole ==
  ASSUME CbTypeOK, CbTypeOK', ~Parallel, NEW n, NEW s, WholeList(n, s),
         NEW q \in Processes, DeleteFrees(q)
  PROVE  WholeList(n, s)'
<1>1. walk = "out" /\ doing[q] = "drop" /\ \A r \in Processes \ {q} : doing[r] = "nothing"
  BY DEF DeleteFrees, At, MayRun
<1>2. Chain(n, s) /\ heap = NodesOf(n, s) \cup {new[q]} /\ new[q] \notin NodesOf(n, s)
  <2>1. doing[q] \in Outside
    BY <1>1 DEF Outside
  <2> QED BY <1>1, <2>1, WholeBefore
<1>3. /\ doing' = [doing EXCEPT ![q] = "delete"] /\ heap' = heap \ {new[q]}
      /\ head' = head /\ next' = next /\ func' = func /\ walk' = walk
  BY DEF DeleteFrees, Goto, walkVars
<1>4. doing'[q] = "delete" /\ \A r \in Processes \ {q} : doing'[r] = "nothing"
  BY <1>1, <1>3 DEF CbTypeOK
<1>5. Chain(n, s)'
  BY <1>2, <1>3 DEF Chain
<1>6. Knows(q, n, s)'
  BY <1>4 DEF Knows
<1>7. doing'[q] \notin Outside
  BY <1>4 DEF Outside
<1>8. heap' = NodesOf(n, s)
  BY <1>2, <1>3
<1> QED BY <1>1, <1>3, <1>4, <1>5, <1>6, <1>7, <1>8, WholeAfter

LEMMA DeleteEndsWhole ==
  ASSUME CbTypeOK, CbTypeOK', ~Parallel, NEW n, NEW s, WholeList(n, s),
         NEW q \in Processes, DeleteEnds(q)
  PROVE  WholeList(n, s)'
<1>1. walk = "out" /\ doing[q] = "delete" /\ \A r \in Processes \ {q} : doing[r] = "nothing"
  BY DEF DeleteEnds, At, MayRun
<1>2. Chain(n, s) /\ heap = NodesOf(n, s)
  <2>1. doing[q] \notin Outside
    BY <1>1 DEF Outside
  <2> QED BY <1>1, <2>1, WholeBefore
<1>3. n = 0
  <2>1. n # 0 => 1 \in 1..n /\ s[1] \in Nodes /\ head = s[1]
    BY <1>2 DEF Chain
  <2> QED BY <2>1, CallbackAssumption DEF DeleteEnds
<1>4. /\ doing' = [doing EXCEPT ![q] = "nothing"] /\ owed' = [f \in Funcs |-> 0]
      /\ head' = head /\ next' = next /\ func' = func /\ heap' = heap /\ walk' = walk
  BY DEF DeleteEnds, Goto, walkVars, listVars
<1>5. doing'[q] = "nothing" /\ \A r \in Processes \ {q} : doing'[r] = "nothing"
  BY <1>1, <1>4 DEF CbTypeOK
<1>6. Chain(n, s)'
  BY <1>2, <1>4 DEF Chain
<1>7. Knows(q, n, s)'
  BY <1>5 DEF Knows
<1>8. doing'[q] \notin Outside /\ doing'[q] \notin Seeking
  BY <1>5 DEF Outside, Seeking
<1>9. ASSUME NEW g \in Funcs PROVE Cardinality(Holders(n, s, g)') = owed'[g]
  <2>1. Holders(n, s, g)' = {}
    BY <1>3 DEF Holders, NodesOf
  <2> QED BY <1>4, <2>1, FS_EmptySet
<1> QED BY <1>1, <1>2, <1>4, <1>5, <1>6, <1>7, <1>8, <1>9, WholeAfter

-------------------------------------------------------------------------------
(* Walks. *)

LEMMA PastFacts ==
  ASSUME CbTypeOK, NEW n, NEW s, Chain(n, s), NEW i \in 0..n, NEW f
  PROVE  /\ IsFiniteSet(Past(i, s, f))
         /\ i = 0 => Past(i, s, f) = {}
         /\ i = n => Past(i, s, f) = Holders(n, s, f)
         /\ i # 0 => /\ s[i] \notin Past(i - 1, s, f)
                     /\ Past(i, s, f) =
                          IF func[s[i]] = f THEN Past(i - 1, s, f) \cup {s[i]} ELSE Past(i - 1, s, f)
<1>1. n \in Nat /\ s \in [1..n -> Nodes] /\ \A j, k \in 1..n : s[j] = s[k] => j = k
  BY DEF Chain
<1>2. IsFiniteSet(Past(i, s, f))
  <2>1. Past(i, s, f) \in SUBSET Nodes
    BY <1>1 DEF Past
  <2> QED BY <2>1, CallbackAssumption, FS_Subset
<1>3. i = 0 => Past(i, s, f) = {}
  BY DEF Past
<1>4. i = n => Past(i, s, f) = Holders(n, s, f)
  BY DEF Past, Holders, NodesOf
<1>5. ASSUME i # 0
      PROVE  /\ s[i] \notin Past(i - 1, s, f)
             /\ Past(i, s, f) =
                  IF func[s[i]] = f THEN Past(i - 1, s, f) \cup {s[i]} ELSE Past(i - 1, s, f)
  <2>1. i \in 1..n /\ i \notin 1..(i - 1) /\ 1..(i - 1) \subseteq 1..n
    BY <1>1, <1>5
  <2>2. \A j : j \in 1..i <=> j = i \/ j \in 1..(i - 1)
    BY <1>1, <1>5
  <2>3. {s[j] : j \in 1..i} = {s[j] : j \in 1..(i - 1)} \cup {s[i]}
    BY <2>2
  <2>4. s[i] \notin {s[j] : j \in 1..(i - 1)}
    BY <1>1, <2>1
  <2> QED BY <2>3, <2>4 DEF Past
<1> QED BY <1>2, <1>3, <1>4, <1>5

\* What a step of a walk leaves as it was.
LEMMA SameList ==
  ASSUME NEW n, NEW s, WholeList(n, s), UNCHANGED <<listVars, procVars, owed>>
  PROVE  /\ Chain(n, s)' /\ heap' = NodesOf(n, s)' \cup Extra' /\ Extra' \cap NodesOf(n, s)' = {}
         /\ \A q \in Processes : Knows(q, n, s)'
         /\ \A q, r \in Processes : doing'[q] # "nothing" /\ doing'[r] # "nothing" => q = r
         /\ Deleting' \/ \A f \in Funcs : Counted(n, s, f)'
         /\ (Deleting' <=> Deleting) /\ func' = func
<1> USE DEF listVars, procVars
<1>1. Chain(n, s)' /\ heap' = NodesOf(n, s)' \cup Extra' /\ Extra' \cap NodesOf(n, s)' = {}
  <2>1. /\ head' = head /\ next' = next /\ heap' = heap /\ doing' = doing /\ new' = new
        /\ Chain(n, s) /\ heap = NodesOf(n, s) \cup Extra /\ Extra \cap NodesOf(n, s) = {}
    BY DEF WholeList
  <2>2. Chain(n, s)'
    BY <2>1 DEF Chain
  <2>3. Extra' = Extra /\ NodesOf(n, s)' = NodesOf(n, s)
    BY <2>1 DEF Extra, NodesOf
  <2> QED BY <2>1, <2>2, <2>3
<1>2. \A q \in Processes : Knows(q, n, s)'
  BY DEF WholeList, Knows, NodesOf
<1>3. (Deleting' <=> Deleting) /\ \A f \in Funcs : Counted(n, s, f) <=> Counted(n, s, f)'
  BY DEF Deleting, Counted, Holders, NodesOf
<1> QED BY <1>1, <1>2, <1>3 DEF WholeList

LEMMA WalkBeginsWhole ==
  ASSUME CbTypeOK, NEW n, NEW s, WholeList(n, s), WalkBegins
  PROVE  WholeList(n, s)'
<1>1. Chain(n, s)
  BY DEF WholeList
<1>2. n # 0
  BY <1>1 DEF WalkBegins, Chain
<1>3. n \in Nat /\ 1 \in 1..n /\ 0 \in 0..n /\ 1 - 1 = 0 /\ head = s[1]
  BY <1>1, <1>2 DEF Chain
<1>4. /\ walk' = "call" /\ cur' = s[1] /\ calls' = [f \in Funcs |-> 0] /\ ~Deleting
      /\ UNCHANGED <<listVars, procVars, owed>>
  BY <1>3 DEF WalkBegins
<1>5. \A f \in Funcs : Past(0, s, f)' = {}
  BY DEF Past
<1>6. \A f \in Funcs : calls'[f] = Cardinality(Past(1 - 1, s, f)')
  BY <1>3, <1>4, <1>5, FS_EmptySet
<1>7. ~Deleting' /\ func' = func
  BY <1>4, SameList
<1>8. Walked(n, s)'
  BY <1>3, <1>4, <1>6, <1>7 DEF Walked
<1> QED BY <1>4, <1>8, SameList DEF WholeList

LEMMA WalkCallsWhole ==
  ASSUME CbTypeOK, NEW n, NEW s, WholeList(n, s), WalkCalls
  PROVE  WholeList(n, s)'
<1>1. Chain(n, s) /\ Walked(n, s) /\ n \in Nat
  BY DEF WholeList, Chain
<1>2. PICK i \in 1..n : cur = s[i] /\ \A f \in Funcs : calls[f] = Cardinality(Past(i - 1, s, f))
  BY <1>1 DEF WalkCalls, Walked
<1>3. /\ walk' = "next" /\ cur' = s[i] /\ calls' = [calls EXCEPT ![func[s[i]]] = @ + 1]
      /\ UNCHANGED <<listVars, procVars, owed>>
  BY <1>2 DEF WalkCalls
<1>4. ~Deleting' /\ func' = func
  BY <1>1, <1>3, SameList DEF Walked, WalkCalls
<1>5. ASSUME NEW f \in Funcs PROVE calls'[f] = Cardinality(Past(i, s, f)')
  <2>1. Past(i, s, f)' = Past(i, s, f)
    BY <1>4 DEF Past
  <2>2. i \in 0..n /\ i - 1 \in 0..n /\ i # 0
    BY <1>1
  <2>3. /\ IsFiniteSet(Past(i - 1, s, f)) /\ s[i] \notin Past(i - 1, s, f)
        /\ Past(i, s, f) =
             IF func[s[i]] = f THEN Past(i - 1, s, f) \cup {s[i]} ELSE Past(i - 1, s, f)
    BY <1>1, <2>2, PastFacts
  <2>4. Cardinality(Past(i - 1, s, f) \cup {s[i]}) = Cardinality(Past(i - 1, s, f)) + 1
    BY <2>3, FS_AddElement
  <2>5. calls'[f] = IF func[s[i]] = f THEN calls[f] + 1 ELSE calls[f]
    BY <1>3 DEF CbTypeOK
  <2> QED BY <1>2, <2>1, <2>3, <2>4, <2>5
<1>6. Walked(n, s)'
  BY <1>3, <1>4, <1>5 DEF Walked
<1> QED BY <1>3, <1>6, SameList DEF WholeList

\* The end of a walk comes behind the last node, when every function has been called.
LEMMA WalkSteps1 ==
  ASSUME CbTypeOK, NEW n, NEW s, WholeList(n, s), WalkSteps
  PROVE  /\ WholeList(n, s)' /\ ~Deleting
         /\ walk' = "out" => \A f \in Funcs : calls[f] = Cardinality(Holders(n, s, f))
<1>1. Chain(n, s) /\ Walked(n, s) /\ n \in Nat
  BY DEF WholeList, Chain
<1>2. PICK i \in 1..n : cur = s[i] /\ \A f \in Funcs : calls[f] = Cardinality(Past(i, s, f))
  BY <1>1 DEF WalkSteps, Walked
<1>3. /\ cur' = next[s[i]] /\ walk' = IF next[s[i]] = NoNode THEN "out" ELSE "call"
      /\ calls' = calls /\ UNCHANGED <<listVars, procVars, owed>>
  BY <1>2 DEF WalkSteps
<1>4. ~Deleting /\ ~Deleting' /\ func' = func
  BY <1>1, <1>3, SameList DEF Walked, WalkSteps
<1>5. next[s[i]] = IF i = n THEN NoNode ELSE s[i + 1]
  BY <1>1 DEF Chain
<1>6. i # n => i + 1 \in 1..n /\ s[i + 1] # NoNode /\ (i + 1) - 1 = i
  BY <1>1, CallbackAssumption DEF Chain
<1>7. \A f : Past(i, s, f)' = Past(i, s, f)
  BY <1>4 DEF Past
<1>8. Walked(n, s)'
  <2>1. CASE i = n
    BY <1>3, <1>5, <2>1 DEF Walked
  <2>2. CASE i # n
    <3>1. walk' = "call" /\ cur' = s[i + 1] /\ i + 1 \in 1..n
      BY <1>3, <1>5, <1>6, <2>2
    <3>2. \A f \in Funcs : calls'[f] = Cardinality(Past((i + 1) - 1, s, f)')
      BY <1>2, <1>3, <1>6, <1>7, <2>2
    <3> QED BY <1>4, <3>1, <3>2 DEF Walked
  <2> QED BY <2>1, <2>2
<1>9. walk' = "out" => \A f \in Funcs : calls[f] = Cardinality(Holders(n, s, f))
  <2>1. walk' = "out" => i = n
    BY <1>3, <1>5, <1>6
  <2>2. n \in 0..n
    BY <1>1
  <2>3. \A f : Past(n, s, f) = Holders(n, s, f)
    BY <1>1, <2>2, PastFacts
  <2> QED BY <1>2, <2>1, <2>3
<1> QED BY <1>3, <1>4, <1>8, <1>9, SameList DEF WholeList

-------------------------------------------------------------------------------
(* All steps. *)

LEMMA CbInit1 == CbInit => CbInv
<1> SUFFICES ASSUME CbInit PROVE CbInv
  OBVIOUS
<1>1. CbTypeOK /\ Holds
  BY DEF CbInit, CbTypeOK, Holds, Link, Doings
<1>2. PICK s : s \in [1..0 -> Nodes]
  <2>1. [i \in 1..0 |-> NoNode] \in [1..0 -> Nodes]
    OBVIOUS
  <2> QED BY <2>1
<1>3. Chain(0, s) /\ NodesOf(0, s) = {}
  BY <1>2 DEF Chain, CbInit, NodesOf
<1>4. \A q \in Processes : doing[q] = "nothing"
  BY DEF CbInit
<1>5. Extra = {} /\ ~Deleting /\ heap = {}
  BY <1>4 DEF Extra, Outside, Deleting, CbInit
<1>6. \A q \in Processes : Knows(q, 0, s)
  BY <1>4 DEF Knows
<1>7. ASSUME NEW f \in Funcs PROVE Counted(0, s, f)
  <2>1. Holders(0, s, f) = {} /\ owed[f] = 0
    BY <1>3 DEF Holders, CbInit
  <2>2. \A q \in Processes : doing[q] \notin Seeking
    BY <1>4 DEF Seeking
  <2> QED BY <2>1, <2>2, FS_EmptySet DEF Counted
<1>8. WholeList(0, s)
  BY <1>3, <1>4, <1>5, <1>6, <1>7 DEF WholeList, Walked, CbInit
<1> QED BY <1>1, <1>8 DEF CbInv

LEMMA CbTypeStep == CbTypeOK /\ Holds /\ [CbNext]_cbVars => CbTypeOK' /\ Holds'
<1> SUFFICES ASSUME CbTypeOK, Holds, [CbNext]_cbVars PROVE CbTypeOK' /\ Holds'
  OBVIOUS
<1> USE CallbackAssumption
    DEF CbTypeOK, Holds, Link, Doings, Goto, At, listVars, procVars, walkVars
<1>1. ASSUME NEW q \in Processes, NEW f \in Funcs, AddBegins(q, f) PROVE CbTypeOK' /\ Holds'
  BY <1>1 DEF AddBegins
<1>2. ASSUME NEW q \in Processes, NEW f \in Funcs, RemoveBegins(q, f) PROVE CbTypeOK' /\ Holds'
  <2>1. owed' \in [Funcs -> Nat]
    BY <1>2 DEF RemoveBegins
  <2> QED BY <1>2, <2>1 DEF RemoveBegins
<1>3. ASSUME NEW q \in Processes, AddLooks(q) PROVE CbTypeOK' /\ Holds'
  BY <1>3 DEF AddLooks
<1>4. ASSUME NEW q \in Processes, AddFirst(q) PROVE CbTypeOK' /\ Holds'
  BY <1>4 DEF AddFirst, Added
<1>5. ASSUME NEW q \in Processes, AddSearch(q) PROVE CbTypeOK' /\ Holds'
  BY <1>5 DEF AddSearch
<1>6. ASSUME NEW q \in Processes, AddAppend(q) PROVE CbTypeOK' /\ Holds'
  BY <1>6 DEF AddAppend, Added
<1>7. ASSUME NEW q \in Processes, RemoveLooks(q) PROVE CbTypeOK' /\ Holds'
  BY <1>7 DEF RemoveLooks, RemoveReturns
<1>8. ASSUME NEW q \in Processes, RemoveHead(q) PROVE CbTypeOK' /\ Holds'
  BY <1>8 DEF RemoveHead
<1>9. ASSUME NEW q \in Processes, RemoveFinds(q) PROVE CbTypeOK' /\ Holds'
  BY <1>9 DEF RemoveFinds, RemoveReturns
<1>10. ASSUME NEW q \in Processes, RemoveCuts(q) PROVE CbTypeOK' /\ Holds'
  BY <1>10 DEF RemoveCuts
<1>11. ASSUME NEW q \in Processes, RemoveFrees(q) PROVE CbTypeOK' /\ Holds'
  BY <1>11 DEF RemoveFrees, RemoveReturns
<1>12. ASSUME NEW q \in Processes, DeleteBegins(q) PROVE CbTypeOK' /\ Holds'
  BY <1>12 DEF DeleteBegins
<1>13. ASSUME NEW q \in Processes, DeleteHead(q) PROVE CbTypeOK' /\ Holds'
  BY <1>13 DEF DeleteHead
<1>14. ASSUME NEW q \in Processes, DeleteFrees(q) PROVE CbTypeOK' /\ Holds'
  BY <1>14 DEF DeleteFrees
<1>15. ASSUME NEW q \in Processes, DeleteEnds(q) PROVE CbTypeOK' /\ Holds'
  BY <1>15 DEF DeleteEnds
<1>16. ASSUME WalkBegins PROVE CbTypeOK' /\ Holds'
  BY <1>16 DEF WalkBegins
<1>17. ASSUME WalkCalls PROVE CbTypeOK' /\ Holds'
  <2>1. PICK u : u = func[cur]
    OBVIOUS
  <2>2. calls' = [f \in Funcs |-> IF f = u THEN calls[f] + 1 ELSE calls[f]]
    BY <1>17, <2>1 DEF WalkCalls
  <2>3. calls' \in [Funcs -> Nat]
    BY <2>2
  <2> QED BY <1>17, <2>3 DEF WalkCalls
<1>18. ASSUME WalkSteps PROVE CbTypeOK' /\ Holds'
  BY <1>18 DEF WalkSteps
<1>19. ASSUME UNCHANGED cbVars PROVE CbTypeOK' /\ Holds'
  BY <1>19 DEF cbVars
<1> QED BY <1>1, <1>2, <1>3, <1>4, <1>5, <1>6, <1>7, <1>8, <1>9, <1>10, <1>11, <1>12, <1>13, <1>14,
           <1>15, <1>16, <1>17, <1>18, <1>19 DEF CbNext

LEMMA CbStep == CbInv /\ [CbNext]_cbVars => CbInv'
<1> SUFFICES ASSUME CbInv, [CbNext]_cbVars PROVE CbInv'
  OBVIOUS
<1>1. CbTypeOK /\ Holds /\ CbTypeOK' /\ Holds'
  BY CbTypeStep DEF CbInv
<1> SUFFICES ASSUME ~Parallel PROVE \E m \in Nat : \E t : WholeList(m, t)'
  BY <1>1 DEF CbInv
<1>2. PICK n \in Nat : \E s : WholeList(n, s)
  BY DEF CbInv
<1>3. PICK s : WholeList(n, s)
  BY <1>2
<1>4. ASSUME NEW q \in Processes, NEW f \in Funcs, AddBegins(q, f) \/ RemoveBegins(q, f)
      PROVE  WholeList(n, s)'
  BY <1>1, <1>3, <1>4, AddBeginsWhole, RemoveBeginsWhole
<1>5. ASSUME NEW q \in Processes, AddLooks(q) \/ AddSearch(q)
      PROVE  WholeList(n, s)'
  BY <1>1, <1>3, <1>5, AddLooksWhole, AddSearchWhole
<1>6. ASSUME NEW q \in Processes, AddFirst(q) \/ AddAppend(q)
      PROVE  \E m \in Nat : \E t : WholeList(m, t)'
  BY <1>1, <1>3, <1>6, AddFirstWhole, AddAppendWhole
<1>7. ASSUME NEW q \in Processes, RemoveLooks(q) \/ RemoveFinds(q) \/ RemoveFrees(q)
      PROVE  WholeList(n, s)'
  BY <1>1, <1>3, <1>7, RemoveLooksWhole, RemoveFindsWhole, RemoveFreesWhole
<1>8. ASSUME NEW q \in Processes, RemoveHead(q) \/ RemoveCuts(q)
      PROVE  \E m \in Nat : \E t : WholeList(m, t)'
  BY <1>1, <1>3, <1>8, RemoveHeadWhole, RemoveCutsWhole
<1>9. ASSUME NEW q \in Processes, DeleteBegins(q) \/ DeleteFrees(q) \/ DeleteEnds(q)
      PROVE  WholeList(n, s)'
  BY <1>1, <1>3, <1>9, DeleteBeginsWhole, DeleteFreesWhole, DeleteEndsWhole
<1>10. ASSUME NEW q \in Processes, DeleteHead(q)
       PROVE  \E m \in Nat : \E t : WholeList(m, t)'
  BY <1>1, <1>3, <1>10, DeleteHeadWhole
<1>11. ASSUME WalkBegins \/ WalkCalls \/ WalkSteps
       PROVE  WholeList(n, s)'
  BY <1>1, <1>3, <1>11, WalkBeginsWhole, WalkCallsWhole, WalkSteps1
<1>12. ASSUME UNCHANGED cbVars PROVE WholeList(n, s)'
  <2>1. UNCHANGED <<listVars, procVars, owed>> /\ walk' = walk /\ cur' = cur /\ calls' = calls
    BY <1>12 DEF cbVars, walkVars
  <2>2. \A i, f : Past(i, s, f)' = Past(i, s, f)
    BY <2>1 DEF Past, listVars
  <2>3. (Deleting' <=> Deleting)
    BY <1>3, <2>1, SameList
  <2>4. Walked(n, s)'
    <3>1. Walked(n, s)
      BY <1>3 DEF WholeList
    <3> QED BY <2>1, <2>2, <2>3, <3>1 DEF Walked
  <2> QED BY <1>3, <2>1, <2>4, SameList DEF WholeList
<1> QED BY <1>2, <1>4, <1>5, <1>6, <1>7, <1>8, <1>9, <1>10, <1>11, <1>12 DEF CbNext

LEMMA CbInvHolds == CbSpec => []CbInv
<1> QED BY CbInit1, CbStep, PTL DEF CbSpec

-------------------------------------------------------------------------------
(* The links of the list, counted from its head, are the nodes of the chain. *)

LEMMA LeastNatural ==
  ASSUME NEW T, T \subseteq Nat, T # {}
  PROVE  \E k \in T : \A j \in T : k <= j
<1>1. PICK k \in T : \A j \in T : ~(<<j, k>> \in OpToRel(<, Nat))
  BY NatLessThanWellFounded, WFMin
<1>2. \A j \in T : ~(j < k)
  BY <1>1 DEF OpToRel
<1> QED BY <1>2

LEMMA LinksAre ==
  ASSUME CbTypeOK, NEW n, NEW s, Chain(n, s)
  PROVE  \A k \in 0..Cardinality(Nodes) : LinkAt[k] = IF k < n THEN s[k + 1] ELSE NoNode
<1> DEFINE N == Cardinality(Nodes)
           Goes(g) == g = [k \in 0..N |-> IF k = 0 THEN head
                                          ELSE IF g[k - 1] = NoNode THEN NoNode ELSE next[g[k - 1]]]
           h == [k \in 0..N |-> IF k < n THEN s[k + 1] ELSE NoNode]
<1>1. /\ n \in Nat /\ N \in Nat /\ n <= N /\ NoNode \notin Nodes
      /\ \A i \in 1..n : s[i] \in Nodes /\ next[s[i]] = IF i = n THEN NoNode ELSE s[i + 1]
      /\ head = IF n = 0 THEN NoNode ELSE s[1]
  BY ChainFacts DEF Chain
<1> HIDE DEF N
<1>2. \A k \in 0..N : h[k] = IF k < n THEN s[k + 1] ELSE NoNode
  OBVIOUS
<1>3. DOMAIN h = 0..N
  OBVIOUS
<1>4. ASSUME NEW k \in 0..N, k # 0
      PROVE  h[k] = IF h[k - 1] = NoNode THEN NoNode ELSE next[h[k - 1]]
  <2>1. k - 1 \in 0..N /\ (k - 1) + 1 = k
    BY <1>1, <1>4
  <2>2. CASE k - 1 < n
    <3>1. k \in 1..n /\ h[k - 1] = s[k] /\ s[k] # NoNode /\ (k < n <=> k # n)
      BY <1>1, <1>2, <1>4, <2>1, <2>2
    <3> QED BY <1>1, <1>2, <3>1
  <2>3. CASE ~(k - 1 < n)
    <3>1. h[k - 1] = NoNode /\ ~(k < n)
      BY <1>1, <1>2, <2>1, <2>3
    <3> QED BY <1>2, <3>1
  <2> QED BY <2>2, <2>3
<1>5. 0 \in 0..N /\ h[0] = head
  <2>1. 0 \in 0..N /\ (0 < n <=> n # 0) /\ 0 + 1 = 1
    BY <1>1
  <2> QED BY <1>1, <1>2, <2>1
<1>6. Goes(h)
  <2> DEFINE u == [k \in 0..N |-> IF k = 0 THEN head
                                  ELSE IF h[k - 1] = NoNode THEN NoNode ELSE next[h[k - 1]]]
  <2>1. \A k \in 0..N : u[k] = h[k]
    BY <1>4, <1>5
  <2>2. u = h
    BY <2>1
  <2> QED BY <2>2
<1>7. Goes(LinkAt)
  <2>1. LinkAt = CHOOSE g : Goes(g)
    BY DEF LinkAt, N
  <2> HIDE DEF h, Goes
  <2> QED BY <1>6, <2>1
<1>8. /\ LinkAt[0] = head
      /\ \A k \in 0..N : k # 0 =>
           LinkAt[k] = IF LinkAt[k - 1] = NoNode THEN NoNode ELSE next[LinkAt[k - 1]]
  BY <1>5, <1>7
<1> HIDE DEF h, Goes
<1>9. \A k \in 0..N : LinkAt[k] = h[k]
  <2> DEFINE T == {k \in 0..N : LinkAt[k] # h[k]}
  <2> SUFFICES ASSUME T # {} PROVE FALSE
    OBVIOUS
  <2>1. PICK k \in T : \A j \in T : k <= j
    <3>1. T \subseteq Nat
      OBVIOUS
    <3> HIDE DEF T
    <3> QED BY <3>1, LeastNatural
  <2>2. k # 0
    BY <1>5, <1>8, <2>1
  <2>3. k \in 0..N /\ k - 1 \in 0..N /\ k - 1 \notin T
    BY <1>1, <2>1, <2>2
  <2>4. LinkAt[k - 1] = h[k - 1]
    BY <2>3
  <2>5. LinkAt[k] = h[k]
    BY <1>4, <1>8, <2>2, <2>3, <2>4
  <2> QED BY <2>1, <2>5
<1> QED BY <1>2, <1>9 DEF N

LEMMA ListedAre ==
  ASSUME CbTypeOK, NEW n, NEW s, Chain(n, s)
  PROVE  Listed = NodesOf(n, s)
<1>1. /\ n <= Cardinality(Nodes) /\ Cardinality(Nodes) \in Nat /\ n \in Nat
      /\ NoNode \notin NodesOf(n, s)
      /\ \A k \in 0..Cardinality(Nodes) : LinkAt[k] = IF k < n THEN s[k + 1] ELSE NoNode
  BY ChainFacts, LinksAre
<1>2. ASSUME NEW i \in 1..n PROVE \E k \in 0..Cardinality(Nodes) : LinkAt[k] = s[i]
  <2>1. i - 1 \in 0..Cardinality(Nodes) /\ i - 1 < n /\ (i - 1) + 1 = i
    BY <1>1
  <2> QED BY <1>1, <2>1
<1>3. ASSUME NEW k \in 0..Cardinality(Nodes), LinkAt[k] # NoNode
      PROVE  LinkAt[k] \in NodesOf(n, s)
  <2>1. k < n /\ k + 1 \in 1..n /\ LinkAt[k] = s[k + 1]
    BY <1>1, <1>3
  <2> QED BY <2>1 DEF NodesOf
<1>4. NodesOf(n, s) \subseteq Listed
  BY <1>1, <1>2 DEF NodesOf, Listed
<1>5. Listed \subseteq NodesOf(n, s)
  BY <1>3 DEF Listed
<1> QED BY <1>4, <1>5

-------------------------------------------------------------------------------

\* The list and what processes and the top half hold of it keep their types, on any number
\* of processors: nobody follows a link of no node (tl880_add_int_callback 94-121,
\* tl880_remove_int_callback 123-152, tl880_run_callbacks 154-167).
THEOREM CallbackTypeCorrect == CbSpec => []CbTypeOK
<1>1. CbInv => CbTypeOK
  BY DEF CbInv
<1> QED BY CbInvHolds, <1>1, PTL

\* For any functions, memory and processes: on one processor the list is whole between any
\* two stores of a change, and an interrupt calls every function once for each of its
\* registrations, give or take the one under way (tl880_add_int_callback 94-121,
\* tl880_remove_int_callback 123-152, tl880_run_callbacks 154-167, tl880_delete_dev
\* 679-681).
THEOREM CalledAsOftenAsRegistered == CbSpec => CalledAsRegistered
<1>1. ASSUME CbInv PROVE ListIsWhole
  <2> SUFFICES ASSUME ~Parallel
               PROVE  /\ LinkAt[Cardinality(Nodes)] = NoNode
                      /\ Listed \subseteq heap
                      /\ heap \ Listed \subseteq {new[q] : q \in Processes}
    BY DEF ListIsWhole
  <2>1. PICK n \in Nat : \E s : WholeList(n, s)
    BY <1>1 DEF CbInv
  <2>2. PICK s : WholeList(n, s)
    BY <2>1
  <2>3. CbTypeOK /\ Chain(n, s) /\ heap = NodesOf(n, s) \cup Extra
    BY <1>1, <2>2 DEF CbInv, WholeList
  <2>4. LinkAt[Cardinality(Nodes)] = NoNode
    <3>1. n \in Nat /\ n <= Cardinality(Nodes) /\ Cardinality(Nodes) \in Nat
      BY <2>3, ChainFacts
    <3>2. Cardinality(Nodes) \in 0..Cardinality(Nodes) /\ ~(Cardinality(Nodes) < n)
      BY <3>1
    <3> QED BY <2>3, <3>2, LinksAre
  <2>5. Listed = NodesOf(n, s)
    BY <2>3, ListedAre
  <2> QED BY <2>3, <2>4, <2>5 DEF Extra
<1>2. CbInv /\ [CbNext]_cbVars =>
        [~Parallel /\ walk = "next" /\ walk' = "out" =>
           \A f \in Funcs :
             calls[f] \in {owed[f]} \cup
               (IF \E q \in Processes : cb[q] = f THEN {owed[f] + 1} ELSE {})]_cbVars
  <2> SUFFICES ASSUME CbInv, CbNext, ~Parallel, walk = "next", walk' = "out", NEW f \in Funcs
               PROVE  calls[f] \in {owed[f]} \cup
                        (IF \E q \in Processes : cb[q] = f THEN {owed[f] + 1} ELSE {})
    OBVIOUS
  <2>1. PICK n \in Nat : \E s : WholeList(n, s)
    BY DEF CbInv
  <2>2. PICK s : WholeList(n, s)
    BY <2>1
  <2>3. WalkSteps
    <3>1. ~WalkBegins /\ ~WalkCalls
      BY DEF WalkBegins, WalkCalls
    <3>2. ASSUME NEW q \in Processes PROVE ~MayRun(q)
      BY DEF MayRun
    <3> QED BY <3>1, <3>2
            DEF CbNext, At, AddBegins, RemoveBegins, AddLooks, AddFirst, AddSearch, AddAppend,
                RemoveLooks, RemoveHead, RemoveFinds, RemoveCuts, RemoveFrees, DeleteBegins,
                DeleteHead, DeleteFrees, DeleteEnds
  <2>4. ~Deleting /\ calls[f] = Cardinality(Holders(n, s, f))
    BY <2>2, <2>3, WalkSteps1 DEF CbInv
  <2>5. Counted(n, s, f)
    BY <2>2, <2>4 DEF WholeList
  <2> QED BY <2>4, <2>5 DEF Counted
<1> QED BY CbInvHolds, <1>1, <1>2, PTL DEF CbSpec, CalledAsRegistered

-------------------------------------------------------------------------------
(* The bag that the list is. *)

\* What the invariant says of the bag: the nodes of any chain are counted; nothing is
\* registered that is not owed, unless a removal is on its way or the list is being
\* emptied; and no walk has called more than there is.
Tallied ==
  ~Parallel =>
    /\ \A n, s : Chain(n, s) => /\ Registered \in [Funcs -> Nat]
                                /\ \A f \in Funcs : Registered[f] = Cardinality(Holders(n, s, f))
    /\ ~Deleting /\ (\A q \in Processes : doing[q] \notin Seeking) => Registered = owed
    /\ walk # "out" => \A f \in Funcs : calls[f] <= Registered[f]

LEMMA AllTallied == CbInv => Tallied
<1> SUFFICES ASSUME CbInv PROVE Tallied
  OBVIOUS
<1>1. CbTypeOK
  BY DEF CbInv
<1>2. ASSUME ~Parallel, NEW n, NEW s, Chain(n, s)
      PROVE  /\ Registered \in [Funcs -> Nat]
             /\ \A f \in Funcs : Registered[f] = Cardinality(Holders(n, s, f))
  <2>1. Listed = NodesOf(n, s)
    BY <1>1, <1>2, ListedAre
  <2>2. Registered = [f \in Funcs |-> Cardinality(Holders(n, s, f))]
    <3>1. PICK k \in Nat : \E t : WholeList(k, t)
      BY <1>2 DEF CbInv
    <3>2. PICK t : WholeList(k, t)
      BY <3>1
    <3>3. Listed \subseteq heap
      BY <1>1, <3>2, ListedAre DEF WholeList
    <3>4. \A f : {m \in heap : m \in Listed /\ func[m] = f} = Holders(n, s, f)
      BY <2>1, <3>3 DEF Holders
    <3> QED BY <3>4 DEF Registered
  <2>3. \A f \in Funcs : Cardinality(Holders(n, s, f)) \in Nat
    BY <1>1, <1>2, ChainFacts
  <2> QED BY <2>2, <2>3
<1>3. ASSUME ~Parallel
      PROVE  /\ ~Deleting /\ (\A q \in Processes : doing[q] \notin Seeking) => Registered = owed
             /\ walk # "out" => \A f \in Funcs : calls[f] <= Registered[f]
  <2>1. PICK n \in Nat : \E s : WholeList(n, s)
    BY <1>3 DEF CbInv
  <2>2. PICK s : WholeList(n, s)
    BY <2>1
  <2>3. /\ Chain(n, s) /\ Walked(n, s) /\ (Deleting \/ \A f \in Funcs : Counted(n, s, f))
        /\ Registered \in [Funcs -> Nat]
        /\ \A f \in Funcs : Registered[f] = Cardinality(Holders(n, s, f))
    BY <1>2, <1>3, <2>2 DEF WholeList
  <2>4. ASSUME ~Deleting, \A q \in Processes : doing[q] \notin Seeking PROVE Registered = owed
    <3>1. \A f \in Funcs : Registered[f] = owed[f]
      BY <2>3, <2>4 DEF Counted
    <3>2. owed \in [Funcs -> Nat]
      BY <1>1 DEF CbTypeOK
    <3> QED BY <2>3, <3>1, <3>2
  <2>5. ASSUME walk # "out", NEW f \in Funcs PROVE calls[f] <= Registered[f]
    <3>1. PICK i \in 0..n : calls[f] = Cardinality(Past(i, s, f))
      <4>1. n \in Nat /\ \A i \in 1..n : i \in 0..n /\ i - 1 \in 0..n
        BY <2>1
      <4> QED BY <2>3, <2>5, <4>1 DEF Walked
    <3>2. Past(i, s, f) \subseteq Holders(n, s, f)
      BY DEF Past, Holders, NodesOf
    <3>3. IsFiniteSet(Holders(n, s, f))
      BY <1>1, <2>3, ChainFacts
    <3>4. Cardinality(Past(i, s, f)) <= Cardinality(Holders(n, s, f))
      BY <3>2, <3>3, FS_Subset
    <3> QED BY <2>3, <3>1, <3>4
  <2> QED BY <2>4, <2>5
<1> QED BY <1>2, <1>3 DEF Tallied

\* A step that leaves the functions of the list alone leaves the bag alone.
LEMMA SameBag ==
  ASSUME ~Parallel, Tallied, Tallied', NEW n, NEW s, Chain(n, s), Chain(n, s)',
         \A i \in 1..n : func'[s[i]] = func[s[i]]
  PROVE  Registered' = Registered
<1>1. \A f : Holders(n, s, f)' = Holders(n, s, f)
  BY DEF Holders, NodesOf
<1>2. /\ Registered \in [Funcs -> Nat]
      /\ \A f \in Funcs : Registered[f] = Cardinality(Holders(n, s, f))
  BY DEF Tallied
<1>3. /\ Registered' \in [Funcs -> Nat]
      /\ \A f \in Funcs : Registered'[f] = Cardinality(Holders(n, s, f)')
  BY DEF Tallied
<1>4. \A f \in Funcs : Registered'[f] = Registered[f]
  BY <1>1, <1>2, <1>3
<1> QED BY <1>2, <1>3, <1>4

\* While no interrupt is on only the bag matters.
LEMMA IdleBag ==
  ASSUME walk = "out", walk' = "out", Registered' = Registered
  PROVE  UNCHANGED Bag!callbacks
BY DEF Bag!callbacks

\* A removal that has found a node of its function takes it from the bag.
LEMMA TakesOne ==
  ASSUME CbInv, CbInv', ~Parallel, NEW n, NEW s, WholeList(n, s),
         NEW q \in Processes, NEW d \in Seeking, At(q, d), NEW x \in NodesOf(n, s),
         func[x] = cb[q], doing' = [doing EXCEPT ![q] = "free"], walk' = walk, owed' = owed
  PROVE  Bag!BagNext
<1>1. CbTypeOK /\ Holds /\ Tallied
  BY AllTallied DEF CbInv
<1>2. Tallied'
  BY AllTallied, PTL
<1>3. /\ walk = "out" /\ Chain(n, s) /\ cb[q] \in Funcs
      /\ \A r \in Processes \ {q} : doing[r] = "nothing"
      /\ \A g \in Funcs :
           IF cb[q] = g
             THEN \/ Cardinality(Holders(n, s, g)) = owed[g] + 1
                  \/ Cardinality(Holders(n, s, g)) = 0 /\ owed[g] = 0
             ELSE Cardinality(Holders(n, s, g)) = owed[g]
  BY <1>1, RemovalBefore
<1>4. PICK f \in Funcs : f = cb[q]
  BY <1>3
<1>5. Cardinality(Holders(n, s, f)) # 0
  <2>1. x \in Holders(n, s, f)
    BY <1>4 DEF Holders
  <2> QED BY <1>1, <1>3, <2>1, ChainFacts
<1>6. /\ Registered \in [Funcs -> Nat] /\ owed \in [Funcs -> Nat]
      /\ \A g \in Funcs : Registered[g] = Cardinality(Holders(n, s, g))
  BY <1>1, <1>3 DEF Tallied, CbTypeOK
<1>7. \A g \in Funcs : Registered[g] = IF g = f THEN owed[g] + 1 ELSE owed[g]
  BY <1>3, <1>4, <1>5, <1>6
<1>8. Registered' = owed
  <2>1. \A r \in Processes : doing'[r] \in {"nothing", "free"}
    BY <1>1, <1>3 DEF CbTypeOK
  <2>2. ~Deleting' /\ \A r \in Processes : doing'[r] \notin Seeking
    BY <2>1 DEF Deleting, Seeking
  <2> QED BY <1>2, <2>2 DEF Tallied
<1>9. Registered' = [Registered EXCEPT ![f] = @ - 1] /\ Registered[f] > 0
  BY <1>6, <1>7, <1>8
<1>10. Bag!Unregister(f)
  BY <1>3, <1>9 DEF Bag!Unregister
<1> QED BY <1>10 DEF Bag!BagNext

\* A store that links a node puts its function into the bag.
LEMMA PutsOne ==
  ASSUME CbInv, CbInv', ~Parallel, NEW q \in Processes, At(q, "first") \/ At(q, "append"),
         Added(q), walk' = walk
  PROVE  Bag!BagNext
<1>1. CbTypeOK /\ Holds /\ Tallied
  BY AllTallied DEF CbInv
<1>2. Tallied'
  BY AllTallied, PTL
<1>3. /\ walk = "out" /\ doing[q] \in {"first", "append"}
      /\ \A r \in Processes \ {q} : doing[r] = "nothing"
  BY DEF At, MayRun
<1>4. PICK f \in Funcs : f = cb[q]
  BY <1>1, <1>3 DEF Holds
<1>5. doing' = [doing EXCEPT ![q] = "nothing"] /\ owed' = [owed EXCEPT ![f] = @ + 1]
  BY <1>4 DEF Added, Goto
<1>6. Registered = owed
  <2>1. \A r \in Processes : doing[r] \in {"nothing", "first", "append"}
    BY <1>3
  <2>2. ~Deleting /\ \A r \in Processes : doing[r] \notin Seeking
    BY <2>1 DEF Deleting, Seeking
  <2> QED BY <1>1, <2>2 DEF Tallied
<1>7. Registered' = owed'
  <2>1. \A r \in Processes : doing'[r] = "nothing"
    BY <1>1, <1>3, <1>5 DEF CbTypeOK
  <2>2. ~Deleting' /\ \A r \in Processes : doing'[r] \notin Seeking
    BY <2>1 DEF Deleting, Seeking
  <2> QED BY <1>2, <2>2 DEF Tallied
<1>8. Bag!Register(f)
  BY <1>3, <1>5, <1>6, <1>7 DEF Bag!Register
<1> QED BY <1>8 DEF Bag!BagNext

LEMMA DeletesOne ==
  ASSUME CbInv, CbInv', ~Parallel, NEW n, NEW s, WholeList(n, s),
         NEW q \in Processes, DeleteHead(q)
  PROVE  [Bag!BagNext]_(Bag!callbacks)
<1>1. CbTypeOK /\ Tallied /\ Chain(n, s)
  BY AllTallied DEF CbInv, WholeList
<1>2. Tallied'
  BY AllTallied, PTL
<1>3. walk = "out" /\ walk' = "out" /\ n # 0 /\ head = s[1]
  BY <1>1 DEF DeleteHead, At, MayRun, walkVars, Chain
<1>4. head' = next[s[1]] /\ next' = next /\ func' = func
  BY <1>3 DEF DeleteHead
<1>5. PICK t : /\ n - 1 \in Nat /\ Chain(n - 1, t)' /\ s[1] \in NodesOf(n, s)
               /\ NodesOf(n - 1, t) = NodesOf(n, s) \ {s[1]}
  BY <1>1, <1>3, <1>4, HeadGone
<1>6. \A g \in Funcs :
        Cardinality(Holders(n - 1, t, g)') =
          IF func[s[1]] = g THEN Cardinality(Holders(n, s, g)) - 1 ELSE Cardinality(Holders(n, s, g))
  BY <1>1, <1>4, <1>5, OneNodeLess
<1>7. /\ Registered \in [Funcs -> Nat]
      /\ \A g \in Funcs : Registered[g] = Cardinality(Holders(n, s, g))
  BY <1>1 DEF Tallied
<1>8. /\ Registered' \in [Funcs -> Nat]
      /\ \A g \in Funcs : Registered'[g] = Cardinality(Holders(n - 1, t, g)')
  BY <1>2, <1>5 DEF Tallied
<1>9. \A g \in Funcs : Registered'[g] = IF func[s[1]] = g THEN Registered[g] - 1 ELSE Registered[g]
  BY <1>6, <1>7, <1>8
<1>10. CASE func[s[1]] \in Funcs
  <2>1. PICK f \in Funcs : f = func[s[1]]
    BY <1>10
  <2>2. Registered' = [Registered EXCEPT ![f] = @ - 1]
    BY <1>7, <1>8, <1>9, <2>1
  <2>3. Registered[f] > 0
    <3>1. Registered[f] \in Nat /\ Registered[f] - 1 \in Nat
      BY <1>7, <1>8, <1>9, <2>1
    <3> QED BY <3>1
  <2>4. Bag!Unregister(f)
    BY <1>3, <2>2, <2>3 DEF Bag!Unregister
  <2> QED BY <2>4 DEF Bag!BagNext
<1>11. CASE func[s[1]] \notin Funcs
  <2>1. \A g \in Funcs : Registered'[g] = Registered[g]
    BY <1>9, <1>11
  <2>2. Registered' = Registered
    BY <1>7, <1>8, <2>1
  <2> QED BY <1>3, <2>2, IdleBag
<1> QED BY <1>10, <1>11

\* A walk calls one function at a time, none more often than it is in the bag, and is over
\* when it has called all that is in it.
LEMMA WalksOne ==
  ASSUME CbInv, CbInv', ~Parallel, NEW n, NEW s, WholeList(n, s),
         WalkBegins \/ WalkCalls \/ WalkSteps
  PROVE  [Bag!BagNext]_(Bag!callbacks)
<1>1. CbTypeOK /\ Tallied /\ Chain(n, s)
  BY AllTallied DEF CbInv, WholeList
<1>2. Tallied'
  BY AllTallied, PTL
<1>3. Registered' = Registered
  <2>1. UNCHANGED <<listVars, procVars, owed>>
    BY DEF WalkBegins, WalkCalls, WalkSteps
  <2>2. Chain(n, s)' /\ func' = func
    BY <2>1, SameList
  <2> QED BY <1>1, <1>2, <2>2, SameBag
<1>4. /\ Registered \in [Funcs -> Nat] /\ calls \in [Funcs -> Nat]
      /\ \A f \in Funcs : Registered[f] = Cardinality(Holders(n, s, f))
  BY <1>1 DEF Tallied, CbTypeOK
<1>5. CASE WalkBegins
  <2>1. walk = "out" /\ walk' = "call" /\ calls' = [f \in Funcs |-> 0]
    BY <1>5 DEF WalkBegins
  <2>2. Bag!Interrupt
    BY <1>3, <2>1 DEF Bag!Interrupt
  <2> QED BY <2>2 DEF Bag!BagNext
<1>6. CASE WalkCalls
  <2>1. walk = "call" /\ walk' = "next" /\ calls' = [calls EXCEPT ![func[cur]] = @ + 1]
    BY <1>6 DEF WalkCalls
  <2>2. CASE func[cur] \in Funcs
    <3>1. PICK f \in Funcs : f = func[cur]
      BY <2>2
    <3>2. calls' = [calls EXCEPT ![f] = @ + 1] /\ calls'[f] = calls[f] + 1 /\ calls[f] \in Nat
      BY <1>4, <2>1, <3>1
    <3>3. calls'[f] <= Registered[f]
      BY <1>2, <1>3, <2>1 DEF Tallied
    <3>4. calls[f] < Registered[f]
      BY <1>4, <3>2, <3>3
    <3>5. Bag!Call(f)
      BY <1>3, <2>1, <3>2, <3>4 DEF Bag!Call
    <3> QED BY <3>5 DEF Bag!BagNext
  <2>3. CASE func[cur] \notin Funcs
    <3>1. calls' = calls
      BY <1>4, <2>1, <2>3
    <3> QED BY <1>3, <2>1, <3>1 DEF Bag!callbacks
  <2> QED BY <2>2, <2>3
<1>7. CASE WalkSteps
  <2>1. /\ walk = "next" /\ walk' \in {"out", "call"} /\ calls' = calls
        /\ walk' = "out" => \A f \in Funcs : calls[f] = Cardinality(Holders(n, s, f))
    BY <1>1, <1>7, WalkSteps1 DEF WalkSteps
  <2>2. CASE walk' = "call"
    BY <1>3, <2>1, <2>2 DEF Bag!callbacks
  <2>3. CASE walk' = "out"
    <3>1. calls = Registered
      BY <1>4, <2>1, <2>3
    <3>2. Bag!Return
      BY <1>3, <2>1, <2>3, <3>1 DEF Bag!Return, Bag!None
    <3> QED BY <3>2 DEF Bag!BagNext
  <2> QED BY <2>1, <2>2, <2>3
<1> QED BY <1>5, <1>6, <1>7

\* Every step of a process or of an interrupt is a step of the bag, or changes nothing of it.
LEMMA BagStep ==
  ASSUME CbInv, CbInv', ~Parallel, [CbNext]_cbVars
  PROVE  [Bag!BagNext]_(Bag!callbacks)
<1>1. CbTypeOK /\ CbTypeOK' /\ Holds /\ Tallied
  BY AllTallied DEF CbInv
<1>2. Tallied'
  BY AllTallied, PTL
<1>3. PICK n \in Nat : \E s : WholeList(n, s)
  BY DEF CbInv
<1>4. PICK s : WholeList(n, s)
  BY <1>3
<1>5. Chain(n, s) /\ NodesOf(n, s) \subseteq heap
  BY <1>4 DEF WholeList
<1>6. ASSUME NEW q \in Processes, NEW f \in Funcs, AddBegins(q, f)
      PROVE  UNCHANGED Bag!callbacks
  <2>1. WholeList(n, s)'
    BY <1>1, <1>4, <1>6, AddBeginsWhole
  <2>2. \A i \in 1..n : func'[s[i]] = func[s[i]]
    <3>1. \A i \in 1..n : s[i] \in heap
      BY <1>5 DEF NodesOf
    <3> QED BY <1>1, <1>6, <3>1 DEF AddBegins, CbTypeOK
  <2>3. walk = "out" /\ walk' = "out"
    BY <1>6 DEF AddBegins, At, MayRun, walkVars
  <2>4. Chain(n, s)'
    BY <2>1 DEF WholeList
  <2> QED BY <1>2, <1>1, <1>5, <2>2, <2>3, <2>4, SameBag, IdleBag
<1>7. ASSUME walk = "out", walk' = walk, func' = func, WholeList(n, s)'
      PROVE  UNCHANGED Bag!callbacks
  <2>1. Chain(n, s)'
    BY <1>7 DEF WholeList
  <2> QED BY <1>1, <1>2, <1>5, <1>7, <2>1, SameBag, IdleBag
<1>8. ASSUME NEW q \in Processes,
             \/ \E f \in Funcs : RemoveBegins(q, f)
             \/ AddLooks(q) \/ AddSearch(q) \/ RemoveLooks(q) \/ RemoveFinds(q) \/ RemoveFrees(q)
             \/ DeleteBegins(q) \/ DeleteFrees(q) \/ DeleteEnds(q)
      PROVE  UNCHANGED Bag!callbacks
  <2>1. WholeList(n, s)'
    BY <1>1, <1>4, <1>8, RemoveBeginsWhole, AddLooksWhole, AddSearchWhole, RemoveLooksWhole,
       RemoveFindsWhole, RemoveFreesWhole, DeleteBeginsWhole, DeleteFreesWhole, DeleteEndsWhole
  <2>2. walk = "out" /\ walk' = walk /\ func' = func
    BY <1>8 DEF RemoveBegins, AddLooks, AddSearch, RemoveLooks, RemoveFinds, RemoveFrees,
                DeleteBegins, DeleteFrees, DeleteEnds, At, MayRun, walkVars, listVars
  <2> QED BY <1>7, <2>1, <2>2
<1>9. ASSUME NEW q \in Processes, AddFirst(q) \/ AddAppend(q) PROVE Bag!BagNext
  <2>1. (At(q, "first") \/ At(q, "append")) /\ Added(q) /\ walk' = walk
    BY <1>9 DEF AddFirst, AddAppend, walkVars
  <2> QED BY <2>1, PutsOne
<1>10. ASSUME NEW q \in Processes, RemoveHead(q) PROVE Bag!BagNext
  <2>1. At(q, "behead") /\ "behead" \in Seeking
    BY <1>10 DEF RemoveHead, Seeking
  <2>2. /\ doing' = [doing EXCEPT ![q] = "free"] /\ walk' = walk /\ owed' = owed
    BY <1>10 DEF RemoveHead, Goto, walkVars
  <2>3. Knows(q, n, s) /\ doing[q] = "behead"
    BY <1>4, <2>1 DEF WholeList, At
  <2>4. 1 \in 1..n /\ func[s[1]] = cb[q]
    BY <1>3, <2>3 DEF Knows
  <2>5. s[1] \in NodesOf(n, s)
    BY <2>4 DEF NodesOf
  <2> QED BY <1>4, <2>1, <2>2, <2>4, <2>5, TakesOne
<1>11. ASSUME NEW q \in Processes, RemoveCuts(q) PROVE Bag!BagNext
  <2>1. At(q, "cut") /\ "cut" \in Seeking
    BY <1>11 DEF RemoveCuts, Seeking
  <2>2. /\ doing' = [doing EXCEPT ![q] = "free"] /\ walk' = walk /\ owed' = owed
    BY <1>11 DEF RemoveCuts, Goto, walkVars
  <2>3. Knows(q, n, s) /\ doing[q] = "cut"
    BY <1>4, <2>1 DEF WholeList, At
  <2>4. PICK i \in 1..(n - 1) : func[s[i + 1]] = cb[q]
    BY <2>3 DEF Knows
  <2>5. i + 1 \in 1..n
    BY <1>3
  <2>6. s[i + 1] \in NodesOf(n, s)
    BY <2>5 DEF NodesOf
  <2> QED BY <1>4, <2>1, <2>2, <2>4, <2>6, TakesOne
<1>12. ASSUME NEW q \in Processes, DeleteHead(q) PROVE [Bag!BagNext]_(Bag!callbacks)
  BY <1>4, <1>12, DeletesOne
<1>13. ASSUME WalkBegins \/ WalkCalls \/ WalkSteps PROVE [Bag!BagNext]_(Bag!callbacks)
  BY <1>4, <1>13, WalksOne
<1>14. ASSUME UNCHANGED cbVars PROVE UNCHANGED Bag!callbacks
  <2>1. head' = head /\ next' = next /\ func' = func /\ walk' = walk /\ calls' = calls
    BY <1>14 DEF cbVars, listVars, walkVars
  <2>2. Chain(n, s)'
    BY <1>5, <2>1 DEF Chain
  <2>3. Registered' = Registered
    BY <1>1, <1>2, <1>5, <2>1, <2>2, SameBag
  <2> QED BY <2>1, <2>3 DEF Bag!callbacks
<1> QED BY <1>6, <1>8, <1>9, <1>10, <1>11, <1>12, <1>13, <1>14 DEF CbNext

\* For any functions, memory and processes: on one processor the list is a bag of
\* functions, to which each addition and each removal happens at one instant, and an
\* interrupt, which may come between any two of their stores, calls what is in it at that
\* instant, neither more nor less (tl880_add_int_callback 94-121,
\* tl880_remove_int_callback 123-152, tl880_run_callbacks 154-167).
THEOREM ListImplementsBag ==
  ASSUME ~Parallel
  PROVE  CbSpec => ImplementsBag
<1>1. CbInit => Bag!BagInit
  <2> SUFFICES ASSUME CbInit PROVE Bag!BagInit
    OBVIOUS
  <2>1. CbInv
    BY CbInit1
  <2>2. Registered = owed
    <3>1. \A r \in Processes : doing[r] = "nothing"
      BY DEF CbInit
    <3>2. ~Deleting /\ \A r \in Processes : doing[r] \notin Seeking
      BY <3>1 DEF Deleting, Seeking
    <3> QED BY <2>1, <3>2, AllTallied DEF Tallied
  <2> QED BY <2>2 DEF CbInit, Bag!BagInit, Bag!None
<1>2. CbInv /\ CbInv' /\ [CbNext]_cbVars => [Bag!BagNext]_(Bag!callbacks)
  BY BagStep
<1> QED BY CbInvHolds, <1>1, <1>2, PTL DEF CbSpec, ImplementsBag, Bag!BagSpec
===============================================================================

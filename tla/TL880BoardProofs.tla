--------------------------- MODULE TL880BoardProofs ---------------------------
(***************************************************************************)
(* Theorems about the parts that share a card's pins and buses, for every  *)
(* table size, set of chips and set of callers: the table of I2C clients   *)
(* (TL880I2c), the video decoder (TL880Vpx) and the pins (TL880Gpio); and  *)
(* about the card that they make with its other parts (MCBoard).           *)
(***************************************************************************)
EXTENDS MCBoard, TL880AudioProofs, TL880FbProofs, TL880MemoryProofs

-------------------------------------------------------------------------------
(* The table of I2C clients.                                                   *)

\* The place that tl880_call_i2c_clients looks at in its n-th step, and back.
Index(pl) == pl[1] * Slots + pl[2]

\* Without a bus nothing is attached, and what a call has met is.
NothingWithoutBuses == buses = "none" => attached = {}
PresentIsAttached   == present \subseteq attached

\* The index of the audio chip is that of a slot that holds one.
IndexHitsAudio ==
  odd = "no" /\ mspClient # -1 =>
    /\ mspClient \in 0..(Slots - 1)
    /\ slot[<<0, mspClient>>] # Empty /\ Audio(slot[<<0, mspClient>>])

\* A call that is under way has called a chip that was there all the time once, if it has
\* come past its place, and no chip more often than it has looked at places.
Progress ==
  at # Idle =>
    /\ \A c \in Chips : called[c] <= at
    /\ \A c \in present, pl \in Places :
         slot[pl] = c => called[c] = IF Index(pl) < at THEN 1 ELSE 0

I2cInv ==
  I2cTypeOK /\ TableIsSound /\ NothingWithoutBuses /\ PresentIsAttached /\ IndexHitsAudio
  /\ Progress

\* The search for a free slot returns one, or Slots when there is none.
LEMMA FirstFreeIsFree ==
  ASSUME NEW b
  PROVE  /\ FirstFree(b) \in 0..Slots
         /\ FirstFree(b) # Slots => slot[<<b, FirstFree(b)>>] = Empty
<1> DEFINE free == {k \in 0..(Slots - 1) : slot[<<b, k>>] = Empty}
<1>1. Slots \in Nat \ {0}
  BY SlotsAssumption
<1>2. CASE free = {}
  BY <1>1, <1>2 DEF FirstFree
<1>3. CASE free # {}
  <2>1. free \subseteq Nat
    BY <1>1
  <2>2. \E k \in free : \A l \in free : k <= l
    BY <1>3, <2>1, LeastNatural
  <2>3. FirstFree(b) \in free
    BY <1>3, <2>2 DEF FirstFree
  <2> QED BY <1>1, <2>3
<1> QED BY <1>2, <1>3

\* The loops over the buses and over a bus's slots visit every place at one step.
LEMMA PlacesAreIndexed ==
  /\ \A n \in 0..(NBuses * Slots - 1) : PlaceAt(n) \in Places /\ Index(PlaceAt(n)) = n
  /\ \A pl \in Places : Index(pl) \in 0..(NBuses * Slots - 1)
  /\ \A pl, q \in Places : Index(pl) = Index(q) => pl = q
<1>1. Slots \in Nat \ {0} /\ NBuses \in Nat \ {0} /\ NBuses * Slots \in Nat
  BY SlotsAssumption
<1>2. ASSUME NEW n \in 0..(NBuses * Slots - 1)
      PROVE  PlaceAt(n) \in Places /\ Index(PlaceAt(n)) = n
  <2>1. n \in Nat /\ n < NBuses * Slots
    BY <1>1, <1>2
  <2>2. /\ n = Slots * (n \div Slots) + (n % Slots)
        /\ n % Slots \in 0..(Slots - 1) /\ n \div Slots \in Nat
    BY <1>1, <2>1
  <2>3. PICK q \in Nat, r \in 0..(Slots - 1) : q = n \div Slots /\ r = n % Slots
    BY <2>2
  <2>4. n = q * Slots + r
    BY <1>1, <2>2, <2>3, SMT
  <2>5. q < NBuses
    <3>1. q >= NBuses => q * Slots >= NBuses * Slots
      BY <1>1, SMT
    <3>2. q * Slots \in Int
      BY <1>1, SMT
    <3> QED BY <1>1, <2>1, <2>4, <3>1, <3>2
  <2> QED BY <1>1, <2>3, <2>4, <2>5 DEF PlaceAt, Places, Index
<1>3. ASSUME NEW pl \in Places PROVE Index(pl) \in 0..(NBuses * Slots - 1)
  <2>1. PICK b \in 0..(NBuses - 1), k \in 0..(Slots - 1) : pl = <<b, k>>
    BY <1>1, <1>3 DEF Places
  <2>2. b * Slots \in Nat /\ b * Slots <= (NBuses - 1) * Slots
    BY <1>1, SMT
  <2>3. (NBuses - 1) * Slots = NBuses * Slots - Slots
    BY <1>1, SMT
  <2> QED BY <1>1, <2>1, <2>2, <2>3 DEF Index
<1>4. ASSUME NEW pl \in Places, NEW q \in Places, Index(pl) = Index(q) PROVE pl = q
  <2>1. PICK b \in 0..(NBuses - 1), k \in 0..(Slots - 1) : pl = <<b, k>>
    BY <1>1, <1>4 DEF Places
  <2>2. PICK c \in 0..(NBuses - 1), l \in 0..(Slots - 1) : q = <<c, l>>
    BY <1>1, <1>4 DEF Places
  <2>3. b * Slots + k = c * Slots + l
    BY <1>4, <2>1, <2>2 DEF Index
  <2>4. b * Slots \in Nat /\ c * Slots \in Nat
    BY <1>1, SMT
  <2>5. b < c => b * Slots + Slots <= c * Slots
    BY <1>1, SMT
  <2>6. c < b => c * Slots + Slots <= b * Slots
    BY <1>1, SMT
  <2>7. b = c
    BY <1>1, <2>3, <2>4, <2>5, <2>6
  <2> QED BY <2>1, <2>2, <2>3, <2>4, <2>7
<1> QED BY <1>2, <1>3, <1>4

LEMMA I2cInvInit == I2cInit => I2cInv
<1> SUFFICES ASSUME I2cInit PROVE I2cInv
  OBVIOUS
<1>1. Slots \in Nat \ {0} /\ NBuses \in Nat \ {0} /\ NBuses * Slots \in Nat
  BY SlotsAssumption
<1>2. I2cTypeOK
  BY <1>1 DEF I2cInit, I2cTypeOK, Idle
<1>3. TableIsSound
  BY DEF I2cInit, TableIsSound
<1> QED BY <1>2, <1>3 DEF I2cInit, I2cInv, NothingWithoutBuses, PresentIsAttached,
                          IndexHitsAudio, Progress

\* What an attachment does to the table: a chip that gets a slot gets a free one.
LEMMA AttachStep == ASSUME I2cInv, NEW c \in Chips, Attach(c) PROVE I2cInv'
<1> DEFINE k == FirstFree(c.bus)
           here == <<c.bus, k>>
<1>0. I2cTypeOK /\ TableIsSound /\ NothingWithoutBuses /\ PresentIsAttached
      /\ IndexHitsAudio /\ Progress
  BY DEF I2cInv
<1>1. /\ Slots \in Nat \ {0} /\ NBuses \in Nat \ {0}
      /\ c.bus \in 0..(NBuses - 1) /\ c.kind \in Kinds /\ c # Empty
  BY SlotsAssumption, ChipsAssumption
<1>2. /\ k \in 0..Slots /\ (k < Slots => here \in Places /\ slot[here] = Empty)
  BY <1>1, FirstFreeIsFree DEF Places
<1>3. /\ buses = "up" /\ c \notin attached /\ UNCHANGED <<buses, at, called, present>>
      /\ mspClient' = IF Audio(c) THEN k ELSE mspClient
      /\ odd' = IF k = Slots \/ (Audio(c) /\ c.bus # 0) THEN "yes" ELSE odd
      /\ \/ c.kind = "tuner" /\ UNCHANGED <<slot, attached>>
         \/ /\ attached' = attached \cup {c}
            /\ slot' = IF k < Slots THEN [slot EXCEPT ![here] = c] ELSE slot
  BY DEF Attach, IndexAfterAttach
<1> HIDE DEF k
<1>4. /\ slot \in [Places -> Chips \cup {Empty}]
      /\ \A pl \in Places : slot[pl] # c
  BY <1>0, <1>1, <1>3 DEF I2cTypeOK, TableIsSound
<1>5. I2cTypeOK'
  BY <1>0, <1>1, <1>2, <1>3 DEF I2cTypeOK
<1>6. TableIsSound'
  <2>1. CASE UNCHANGED <<slot, attached>>
    BY <1>0, <1>3, <2>1 DEF TableIsSound
  <2>2. CASE attached' = attached \cup {c} /\ k < Slots /\ slot' = [slot EXCEPT ![here] = c]
    <3>1. /\ here \in Places /\ here[1] = c.bus
          /\ slot'[here] = c /\ \A pl \in Places : pl # here => slot'[pl] = slot[pl]
      BY <1>2, <1>4, <2>2
    <3>2. ASSUME NEW pl \in Places, slot'[pl] # Empty
          PROVE  /\ slot'[pl] \in attached' /\ slot'[pl].bus = pl[1]
                 /\ \A q \in Places : slot'[q] = slot'[pl] => q = pl
      BY <1>0, <1>4, <2>2, <3>1, <3>2 DEF TableIsSound
    <3>3. ASSUME odd' = "no", NEW d \in attached' PROVE \E pl \in Places : slot'[pl] = d
      <4>1. odd = "no" /\ (slot[here] # d \/ d = c)
        BY <1>0, <1>1, <1>2, <1>3, <2>2, <3>3, ChipsAssumption DEF I2cTypeOK
      <4>2. CASE d = c
        BY <3>1, <4>2
      <4>3. CASE d # c
        <5>1. PICK pl \in Places : slot[pl] = d
          BY <1>0, <2>2, <3>3, <4>1, <4>3 DEF TableIsSound
        <5> QED BY <3>1, <4>1, <4>3, <5>1
      <4> QED BY <4>2, <4>3
    <3> QED BY <3>2, <3>3 DEF TableIsSound
  <2>3. CASE attached' = attached \cup {c} /\ k = Slots /\ slot' = slot
    BY <1>0, <1>3, <2>3 DEF TableIsSound
  <2> QED BY <1>1, <1>2, <1>3, <2>1, <2>2, <2>3
<1>7. NothingWithoutBuses' /\ PresentIsAttached'
  BY <1>0, <1>3 DEF NothingWithoutBuses, PresentIsAttached
<1>8. IndexHitsAudio'
  <2> SUFFICES ASSUME odd' = "no", mspClient' # -1
               PROVE  /\ mspClient' \in 0..(Slots - 1)
                      /\ slot'[<<0, mspClient'>>] # Empty /\ Audio(slot'[<<0, mspClient'>>])
    BY DEF IndexHitsAudio
  <2>1. k < Slots /\ odd = "no" /\ (Audio(c) => c.bus = 0)
    BY <1>1, <1>2, <1>3
  <2>2. CASE Audio(c)
    <3>1. c.kind # "tuner" /\ mspClient' = k /\ here = <<0, k>>
      BY <1>3, <2>1, <2>2 DEF Audio
    <3>2. slot'[here] = c
      BY <1>2, <1>3, <1>4, <2>1, <3>1
    <3> QED BY <1>1, <1>2, <2>1, <2>2, <3>1, <3>2
  <2>3. CASE ~Audio(c)
    <3>1. /\ mspClient' = mspClient /\ mspClient \in 0..(Slots - 1)
          /\ slot[<<0, mspClient>>] # Empty /\ Audio(slot[<<0, mspClient>>])
      BY <1>0, <1>3, <2>1, <2>3 DEF IndexHitsAudio
    <3>2. <<0, mspClient>> \in Places /\ <<0, mspClient>> # here
      BY <1>1, <1>2, <2>1, <3>1 DEF Places
    <3>3. slot'[<<0, mspClient>>] = slot[<<0, mspClient>>]
      BY <1>3, <1>4, <3>2
    <3> QED BY <3>1, <3>3
  <2> QED BY <2>2, <2>3
<1>9. Progress'
  <2> SUFFICES ASSUME at # Idle
               PROVE  /\ \A d \in Chips : called[d] <= at
                      /\ \A d \in present, pl \in Places :
                           slot'[pl] = d => called[d] = IF Index(pl) < at THEN 1 ELSE 0
    BY <1>3 DEF Progress, Index
  <2>1. \A d \in present, pl \in Places : slot'[pl] = d => slot[pl] = d
    BY <1>0, <1>2, <1>3, <1>4 DEF PresentIsAttached
  <2> QED BY <1>0, <2>1 DEF Progress
<1> QED BY <1>5, <1>6, <1>7, <1>8, <1>9 DEF I2cInv

\* What a detachment does to it: the chip's slots are free, and no other.
LEMMA DetachStep == ASSUME I2cInv, NEW c \in Chips, Detach(c) PROVE I2cInv'
<1>0. I2cTypeOK /\ TableIsSound /\ NothingWithoutBuses /\ PresentIsAttached
      /\ IndexHitsAudio /\ Progress
  BY DEF I2cInv
<1>1. /\ Slots \in Nat \ {0} /\ NBuses \in Nat \ {0} /\ c # Empty /\ c.kind \in Kinds
  BY SlotsAssumption, ChipsAssumption
<1>2. /\ c \in attached /\ attached' = attached \ {c} /\ present' = present \ {c}
      /\ slot' = [pl \in Places |-> IF slot[pl] = c THEN Empty ELSE slot[pl]]
      /\ mspClient' = IF c.kind = "msp" THEN -1 ELSE mspClient
      /\ odd' = IF c.kind = "tvaudio" THEN "yes" ELSE odd
      /\ UNCHANGED <<buses, at, called>>
  BY DEF Detach, IndexAfterDetach
<1>3. I2cTypeOK'
  BY <1>0, <1>1, <1>2 DEF I2cTypeOK
<1>4. TableIsSound'
  <2>1. \A pl \in Places : slot'[pl] # Empty => slot'[pl] = slot[pl] /\ slot[pl] # c
    BY <1>2
  <2>2. \A d \in attached', pl \in Places : slot[pl] = d => slot'[pl] = d
    BY <1>2
  <2> QED BY <1>0, <1>2, <2>1, <2>2 DEF TableIsSound
<1>5. NothingWithoutBuses' /\ PresentIsAttached'
  BY <1>0, <1>2 DEF NothingWithoutBuses, PresentIsAttached
<1>6. IndexHitsAudio'
  <2> SUFFICES ASSUME odd' = "no", mspClient' # -1
               PROVE  /\ mspClient' \in 0..(Slots - 1)
                      /\ slot'[<<0, mspClient'>>] # Empty /\ Audio(slot'[<<0, mspClient'>>])
    BY DEF IndexHitsAudio
  <2>1. /\ mspClient' = mspClient /\ mspClient \in 0..(Slots - 1) /\ ~Audio(c)
        /\ slot[<<0, mspClient>>] # Empty /\ Audio(slot[<<0, mspClient>>])
    BY <1>0, <1>2 DEF IndexHitsAudio, Audio
  <2>2. <<0, mspClient>> \in Places
    BY <1>1, <2>1 DEF Places
  <2> QED BY <1>2, <2>1, <2>2
<1>7. Progress'
  <2> SUFFICES ASSUME at # Idle
               PROVE  /\ \A d \in Chips : called[d] <= at
                      /\ \A d \in present', pl \in Places :
                           slot'[pl] = d => called[d] = IF Index(pl) < at THEN 1 ELSE 0
    BY <1>2 DEF Progress, Index
  <2>1. \A d \in present', pl \in Places : slot'[pl] = d => slot[pl] = d /\ d \in present
    BY <1>0, <1>1, <1>2, ChipsAssumption DEF I2cTypeOK
  <2> QED BY <1>0, <2>1 DEF Progress
<1> QED BY <1>3, <1>4, <1>5, <1>6, <1>7 DEF I2cInv

\* What one step of a call does.
LEMMA CallStep == ASSUME I2cInv, CallSlot PROVE I2cInv'
<1> DEFINE here == PlaceAt(at)
           c == slot[here]
<1>0. I2cTypeOK /\ TableIsSound /\ NothingWithoutBuses /\ PresentIsAttached
      /\ IndexHitsAudio /\ Progress
  BY DEF I2cInv
<1>1. /\ Slots \in Nat \ {0} /\ NBuses \in Nat \ {0} /\ NBuses * Slots \in Nat
  BY SlotsAssumption
<1>2. /\ at \in 0..(NBuses * Slots - 1) /\ at' = at + 1 /\ at' # Idle
      /\ called' = IF c = Empty THEN called ELSE [called EXCEPT ![c] = @ + 1]
      /\ UNCHANGED <<buses, slot, attached, mspClient, present, odd>>
  BY <1>0, <1>1 DEF CallSlot, CallEnd, I2cTypeOK, Idle
<1>3. here \in Places /\ Index(here) = at /\ at # Idle
  BY <1>1, <1>2, PlacesAreIndexed DEF Idle
<1>4. c \in Chips \cup {Empty} /\ called \in [Chips -> 0..(NBuses * Slots)]
  BY <1>0, <1>3 DEF I2cTypeOK
<1> HIDE DEF c, here
<1>5. \A d \in Chips : /\ called[d] \in Nat /\ called[d] <= at
                       /\ called'[d] = IF d = c THEN called[d] + 1 ELSE called[d]
  BY <1>0, <1>2, <1>3, <1>4, ChipsAssumption DEF Progress
<1>6. I2cTypeOK'
  <2>1. called' \in [Chips -> 0..(NBuses * Slots)]
    BY <1>1, <1>2, <1>4, <1>5
  <2> QED BY <1>0, <1>1, <1>2, <2>1 DEF I2cTypeOK
<1>7. TableIsSound' /\ NothingWithoutBuses' /\ PresentIsAttached' /\ IndexHitsAudio'
  BY <1>0, <1>2 DEF TableIsSound, NothingWithoutBuses, PresentIsAttached, IndexHitsAudio
<1>8. Progress'
  <2>1. \A d \in Chips : called'[d] <= at'
    BY <1>1, <1>2, <1>5
  <2>2. ASSUME NEW d \in present, NEW pl \in Places, slot[pl] = d
        PROVE  called'[d] = IF Index(pl) < at + 1 THEN 1 ELSE 0
    <3>1. /\ d \in Chips /\ called[d] = (IF Index(pl) < at THEN 1 ELSE 0)
          /\ Index(pl) \in Int
      BY <1>0, <1>1, <1>3, <2>2, PlacesAreIndexed DEF Progress, I2cTypeOK
    <3>2. pl = here => d = c
      BY <2>2 DEF c
    <3>3. d = c => pl = here
      <4>1. d # Empty
        BY <3>1, ChipsAssumption
      <4> QED BY <1>0, <1>3, <2>2, <4>1 DEF TableIsSound, c
    <3>4. pl # here => Index(pl) # at
      BY <1>3, PlacesAreIndexed
    <3> QED BY <1>2, <1>3, <1>5, <3>1, <3>2, <3>3, <3>4
  <2> QED BY <1>2, <2>1, <2>2 DEF Progress, Index
<1> QED BY <1>6, <1>7, <1>8 DEF I2cInv

LEMMA I2cInvStep == ASSUME I2cInv, [I2cNext]_i2cVars PROVE I2cInv'
<1>0. I2cTypeOK /\ TableIsSound /\ NothingWithoutBuses /\ PresentIsAttached
      /\ IndexHitsAudio /\ Progress
  BY DEF I2cInv
<1>1. /\ Slots \in Nat \ {0} /\ NBuses \in Nat \ {0} /\ NBuses * Slots \in Nat
  BY SlotsAssumption
<1>2. CASE InitI2c
  <2>1. attached = {} /\ present = {}
    BY <1>0, <1>2 DEF InitI2c, NothingWithoutBuses, PresentIsAttached
  <2> QED BY <1>0, <1>1, <1>2, <2>1 DEF InitI2c, I2cInv, I2cTypeOK, TableIsSound,
            NothingWithoutBuses, PresentIsAttached, IndexHitsAudio, Progress
<1>3. CASE DeinitBegins
  BY <1>0, <1>3 DEF DeinitBegins, I2cInv, I2cTypeOK, TableIsSound, NothingWithoutBuses,
                    PresentIsAttached, IndexHitsAudio, Progress
<1>4. CASE DeinitEnds
  BY <1>0, <1>4 DEF DeinitEnds, I2cInv, I2cTypeOK, TableIsSound, NothingWithoutBuses,
                    PresentIsAttached, IndexHitsAudio, Progress, Index
<1>5. ASSUME NEW c \in Chips, Attach(c) PROVE I2cInv'
  BY <1>5, AttachStep
<1>6. ASSUME NEW c \in Chips, Detach(c) PROVE I2cInv'
  BY <1>6, DetachStep
<1>7. CASE CallBegins
  <2>1. /\ at' = 0 /\ called' = [c \in Chips |-> 0] /\ present' = attached
        /\ UNCHANGED <<buses, slot, attached, mspClient, odd>>
    BY <1>7 DEF CallBegins
  <2>2. I2cTypeOK'
    BY <1>0, <1>1, <2>1 DEF I2cTypeOK
  <2>3. Progress'
    <3>1. \A c \in Chips : called'[c] = 0
      BY <2>1
    <3>2. \A pl \in Places : Index(pl) \in Nat
      BY <1>1, PlacesAreIndexed
    <3>3. \A pl \in Places : ~(Index(pl) < 0)
      BY <3>2
    <3> QED BY <1>0, <2>1, <3>1, <3>3 DEF Progress, Index, I2cTypeOK
  <2> QED BY <1>0, <2>1, <2>2, <2>3 DEF I2cInv, TableIsSound, NothingWithoutBuses,
                    PresentIsAttached, IndexHitsAudio
<1>8. CASE CallSlot
  BY <1>8, CallStep
<1>9. CASE CallEnds
  BY <1>0, <1>1, <1>9 DEF CallEnds, I2cInv, I2cTypeOK, TableIsSound, NothingWithoutBuses,
                    PresentIsAttached, IndexHitsAudio, Progress, Idle
<1>10. CASE UNCHANGED i2cVars
  BY <1>0, <1>10 DEF i2cVars, I2cInv, I2cTypeOK, TableIsSound, NothingWithoutBuses,
                    PresentIsAttached, IndexHitsAudio, Progress, Index
<1> QED BY <1>2, <1>3, <1>4, <1>5, <1>6, <1>7, <1>8, <1>9, <1>10 DEF I2cNext

LEMMA I2cInvAlways == I2cSpec => []I2cInv
BY I2cInvInit, I2cInvStep, PTL DEF I2cSpec

\* The table's slots, the index of the audio chip and the place of a call keep their types,
\* for any number of buses and slots: no call looks beyond the last slot of the last bus
\* (tl880_call_i2c_clients 248-275, tl880.h 131).
THEOREM I2cTypeCorrect == I2cSpec => []I2cTypeOK
<1>1. I2cInv => I2cTypeOK
  BY DEF I2cInv
<1> QED BY <1>1, I2cInvAlways, PTL

\* No slot points to a client that is gone or sits on another bus, and every attached
\* client has one until a bus has more clients than slots, in whatever order clients come
\* and go (tl880_i2c_attach_inform 306-311, detach_inform 412-416).
THEOREM ClientTableIsSound == I2cSpec => []TableIsSound
<1>1. I2cInv => TableIsSound
  BY DEF I2cInv
<1> QED BY <1>1, I2cInvAlways, PTL

\* The audio chip's index names a slot with an audio chip in it, or none
\* (tl880_msp_write 56, attach_inform 364, detach_inform 419-421).
THEOREM AudioWritesLand == I2cSpec => []WritesReachAudio
<1>1. I2cInv => WritesReachAudio
  BY DEF I2cInv, IndexHitsAudio, WritesReachAudio, MspTarget
<1> QED BY <1>1, I2cInvAlways, PTL

\* A call to all clients reaches each one that stays exactly once, though the table
\* changes while a client's command sleeps (tl880_call_i2c_clients 248-275).
THEOREM CallsReachEveryone == I2cSpec => EveryoneOnce
<1>1. ASSUME I2cInv, [I2cNext]_i2cVars, at # Idle, at' = Idle,
             NEW c \in present, NEW q \in Places, slot[q] = c
      PROVE  called[c] = 1
  <2>1. NBuses * Slots \in Nat /\ at \in 0..(NBuses * Slots)
    BY <1>1, SlotsAssumption DEF I2cInv, I2cTypeOK, Idle
  <2>2. at = CallEnd
    <3>1. at' # at
      BY <1>1
    <3>2. CASE CallSlot
      BY <1>1, <2>1, <3>2 DEF CallSlot, Idle
    <3>3. CASE CallBegins
      BY <1>1, <3>3 DEF CallBegins
    <3>4. CASE CallEnds
      BY <3>4 DEF CallEnds
    <3>5. CASE InitI2c \/ DeinitBegins \/ DeinitEnds \/ UNCHANGED i2cVars
      BY <3>1, <3>5 DEF InitI2c, DeinitBegins, DeinitEnds, i2cVars
    <3>6. CASE \E d \in Chips : Attach(d) \/ Detach(d)
      BY <3>1, <3>6 DEF Attach, Detach
    <3> QED BY <1>1, <3>2, <3>3, <3>4, <3>5, <3>6 DEF I2cNext
  <2>3. Index(q) < at
    BY <2>1, <2>2, PlacesAreIndexed DEF CallEnd
  <2> QED BY <1>1, <2>3 DEF I2cInv, Progress
<1>2. I2cInv /\ [I2cNext]_i2cVars => [MetOnce]_i2cVars
  BY <1>1 DEF MetOnce
<1> QED BY <1>2, I2cInvAlways, PTL DEF I2cSpec, EveryoneOnce

-------------------------------------------------------------------------------
(* The video decoder.                                                          *)

\* An operation writes bits the register has; one that reads nothing writes; and every
\* write to OUTMUX sets the port mode, bits 8 and 9.
SoundOps ==
  {o \in [reg : FpRegs, read : {"plain", "strict", "no"},
          keep : (SUBSET (0..15)) \cup {NoWrite}, on : SUBSET Twelve] :
     /\ o.read = "no" => o.keep # NoWrite
     /\ o.reg = "outmux" /\ o.keep # NoWrite => {8, 9} \subseteq o.on}

LEMMA OpIsSound ==
  ASSUME NEW r \in FpRegs, NEW how \in {"plain", "strict", "no"},
         NEW keeps \in SUBSET (0..15), NEW sets \in SUBSET Twelve,
         r = "outmux" => {8, 9} \subseteq sets
  PROVE  Op(r, how, keeps, sets) \in SoundOps
<1>1. keeps # NoWrite
  BY DEF NoWrite
<1> QED BY <1>1 DEF Op, SoundOps

LEMMA LineOpIsSound ==
  ASSUME NEW l \in Int, NEW s \in Int
  PROVE  LineOp(l, s) \in SoundOps
<1>1. CASE l \notin {2, 6} \cup 8..13
  BY <1>1 DEF LineOp, Op, SoundOps, NoWrite, FpRegs
<1>2. CASE l \in {2, 6} \cup 8..13
  <2> DEFINE place == CASE l = 2 -> 2 [] l = 6 -> 6 [] OTHER -> <<1, 7, 0, 3, 4, 5>>[l - 7]
  <2>1. place \in 0..7
    <3>1. l \in {2, 6, 8, 9, 10, 11, 12, 13}
      BY <1>2
    <3> QED BY <3>1
  <2>2. LineOp(l, s) = IF s = 0 THEN Op("outmux", "plain", (0..15) \ {place}, {8, 9})
                       ELSE Op("outmux", "plain", 0..15, {8, 9, place})
    BY <1>2 DEF LineOp
  <2> HIDE DEF place
  <2>3. Op("outmux", "plain", (0..15) \ {place}, {8, 9}) \in SoundOps
    BY OpIsSound DEF FpRegs, Twelve
  <2>4. Op("outmux", "plain", 0..15, {8, 9, place}) \in SoundOps
    BY <2>1, OpIsSound DEF FpRegs, Twelve
  <2> QED BY <2>2, <2>3, <2>4
<1> QED BY <1>1, <1>2

LEMMA ProbeOpsAreSound == ProbeOps \in Seq(SoundOps)
<1>0. \A s, t \in Seq(SoundOps) : s \o t \in Seq(SoundOps)
  OBVIOUS
<1>1. VideoStandard({0, 1, 2}) \in SoundOps
  BY OpIsSound DEF VideoStandard, FpRegs, Twelve
<1>2. VideoSource \in Seq(SoundOps)
  <2>1. Op("insel", "plain", 3..10, {0, 2}) \in SoundOps
    BY OpIsSound DEF FpRegs, Twelve
  <2>2. Op("sdt", "plain", (0..10) \ {6}, {}) \in SoundOps
    BY OpIsSound DEF FpRegs, Twelve
  <2> QED BY <2>1, <2>2 DEF VideoSource
<1>3. VideoAttributes \in Seq(SoundOps)
  <2>1. Op("contrast", "plain", 6..11, {2, 5}) \in SoundOps
    BY OpIsSound DEF FpRegs, Twelve
  <2>2. Op("peaking", "plain", {0, 1} \cup 5..11, {4}) \in SoundOps
    BY OpIsSound DEF FpRegs, Twelve
  <2>3. Op("peaking", "plain", 2..11, {1}) \in SoundOps
    BY OpIsSound DEF FpRegs, Twelve
  <2>4. Op("peaking", "plain", {0, 1} \cup 5..11, {2, 4}) \in SoundOps
    BY OpIsSound DEF FpRegs, Twelve
  <2> QED BY <2>1, <2>2, <2>3, <2>4 DEF VideoAttributes
<1>4. Config \in Seq(SoundOps)
  <2>1. Op("outmux", "plain", 0..7, {8, 9}) \in SoundOps
    BY OpIsSound DEF FpRegs, Twelve
  <2>2. Op("peaking", "no", {}, {8, 9}) \in SoundOps
    BY OpIsSound DEF FpRegs, Twelve
  <2>3. Op("sdt", "no", {}, {0, 5}) \in SoundOps
    BY OpIsSound DEF FpRegs, Twelve
  <2>4. <<Op("outmux", "plain", 0..7, {8, 9}), Op("peaking", "no", {}, {8, 9}),
          Op("sdt", "no", {}, {0, 5}), VideoStandard({0, 1, 2})>> \in Seq(SoundOps)
    BY <1>1, <2>1, <2>2, <2>3
  <2> QED BY <1>0, <1>2, <1>3, <2>4 DEF Config
<1>5. <<LineOp(6, 1)>> \in Seq(SoundOps)
  BY LineOpIsSound
<1>6. <<LineOp(9, 0), LineOp(8, 0), LineOp(5, 0), Op("outmux", "no", {}, {0, 8, 9}),
        LineOp(9, 2), LineOp(8, 0)>> \in Seq(SoundOps)
  <2>1. Op("outmux", "no", {}, {0, 8, 9}) \in SoundOps
    BY OpIsSound DEF FpRegs, Twelve
  <2>2. LineOp(9, 0) \in SoundOps /\ LineOp(8, 0) \in SoundOps /\ LineOp(5, 0) \in SoundOps
        /\ LineOp(9, 2) \in SoundOps
    BY LineOpIsSound
  <2> QED BY <2>1, <2>2
<1> QED BY <1>0, <1>2, <1>4, <1>5, <1>6 DEF ProbeOps

\* Operations that have begun are sound ones; one that does not read is not at a read,
\* one that does not write not at a write.
OpFits(c) ==
  stage[c] # "idle" =>
    /\ op[c] \in SoundOps
    /\ stage[c] \in {"rdaddr", "rdpoll", "rddata"} => op[c].read # "no"
    /\ stage[c] \in {"wraddr", "wrpoll", "wrdata"} => op[c].keep # NoWrite

\* Polls are counted only while the chip is polled.
PollsAreNew(c) == stage[c] \notin {"rdpoll", "wrpoll"} => polls[c] = 0

\* An operation that no other has met finds the chip as it has addressed it.
Addressed(c) ==
  "overlap" \notin spoiled[c] =>
    /\ stage[c] \in {"rdpoll", "rddata"} => latch.dir = "rd" /\ latch.reg = op[c].reg
    /\ stage[c] \in {"wrpoll", "wrdata"} => latch.dir = "wr" /\ latch.reg = op[c].reg

\* One that nothing has spoiled has changed no register before its write, and has read
\* what its register holds.
OnTheWay(c) ==
  spoiled[c] = {} =>
    /\ stage[c] \in {"rdaddr", "rdpoll", "rddata", "wraddr", "wrpoll", "wrdata"} => fp = before[c]
    /\ stage[c] = "rdpoll" /\ busy = "no" => dat = fp[op[c].reg]
    /\ stage[c] = "rddata" => dat = fp[op[c].reg]
    /\ stage[c] \in {"wraddr", "wrpoll", "wrdata"} /\ op[c].read # "no" =>
         val[c] = before[c][op[c].reg]
    /\ stage[c] = "wrdata" => busy = "no"
    /\ stage[c] = "done" => \A r \in FpRegs : fp[r] = Wanted(c, r)

\* Two operations at a time have met.
MetOverlap ==
  \A c, d \in AllCallers :
    c # d /\ stage[c] # "idle" /\ stage[d] # "idle" => "overlap" \in spoiled[c]

CallerInv(c) == OpFits(c) /\ PollsAreNew(c) /\ Addressed(c) /\ OnTheWay(c)

VpxInv == VpxTypeOK /\ MetOverlap /\ \A c \in AllCallers : CallerInv(c)

LEMMA VpxInvInit == VpxInit => VpxInv
<1> SUFFICES ASSUME VpxInit PROVE VpxInv
  OBVIOUS
<1>1. MaxPolls \in Nat \ {0} /\ MaxOps \in Nat /\ MaxFails \in Nat /\ Len(ProbeOps) \in Nat
  BY VpxAssumption, ProbeOpsAreSound
<1>2. VpxTypeOK
  BY <1>1 DEF VpxInit, VpxTypeOK, Stages, FpRegs, Twelve, Woes
<1>3. MetOverlap /\ \A c \in AllCallers : CallerInv(c)
  BY DEF VpxInit, MetOverlap, CallerInv, OpFits, PollsAreNew, Addressed, OnTheWay
<1> QED BY <1>2, <1>3 DEF VpxInv

\* An operation that has not begun, or that has met another, is as sound as its own
\* variables say.
LEMMA OthersKeep ==
  ASSUME NEW d, CallerInv(d), stage[d] = "idle" \/ "overlap" \in spoiled[d],
         stage'[d] = stage[d], op'[d] = op[d], polls'[d] = polls[d],
         spoiled[d] \subseteq spoiled'[d]
  PROVE  CallerInv(d)'
BY DEF CallerInv, OpFits, PollsAreNew, Addressed, OnTheWay

\* An operation begins.
LEMMA BeginStep ==
  ASSUME VpxInv, NEW c \in AllCallers, NEW o \in SoundOps, VpxBegin(c, o),
         begun' \in 0..(Len(ProbeOps) + MaxOps)
  PROVE  VpxInv'
<1> DEFINE others == {d \in AllCallers \ {c} : stage[d] # "idle"}
<1>0. VpxTypeOK /\ MetOverlap /\ \A d \in AllCallers : CallerInv(d)
  BY DEF VpxInv
<1>1. /\ stage[c] = "idle"
      /\ stage' = [stage EXCEPT ![c] = IF o.read = "no" THEN "wraddr" ELSE "rdaddr"]
      /\ op' = [op EXCEPT ![c] = o] /\ before' = [before EXCEPT ![c] = fp]
      /\ spoiled' = [d \in AllCallers |->
           IF d = c THEN (IF others = {} THEN {} ELSE {"overlap"})
           ELSE IF d \in others THEN spoiled[d] \cup {"overlap"} ELSE spoiled[d]]
      /\ UNCHANGED <<val, polls, fp, latch, busy, dat, fails>>
  BY DEF VpxBegin
<1>2. /\ DOMAIN op = AllCallers /\ DOMAIN before = AllCallers
      /\ stage \in [AllCallers -> Stages]
  BY <1>0 DEF VpxTypeOK
<1>3. /\ stage'[c] = IF o.read = "no" THEN "wraddr" ELSE "rdaddr"
      /\ op'[c] = o /\ before'[c] = fp
      /\ spoiled'[c] \in {{}, {"overlap"}} /\ (spoiled'[c] = {} => others = {})
      /\ \A d \in AllCallers \ {c} :
           /\ stage'[d] = stage[d] /\ op'[d] = op[d] /\ before'[d] = before[d]
           /\ spoiled'[d] = IF stage[d] = "idle" THEN spoiled[d] ELSE spoiled[d] \cup {"overlap"}
  BY <1>1, <1>2
<1>4. VpxTypeOK'
  <2>1. \A d \in AllCallers : (op'[d] = Nothing <=> stage'[d] = "idle")
    <3>1. o # Nothing
      BY DEF SoundOps, Nothing, FpRegs
    <3> QED BY <1>0, <1>1, <1>3, <3>1 DEF VpxTypeOK
  <2>2. spoiled' \in [AllCallers -> SUBSET Woes]
    <3>1. \A d \in AllCallers : spoiled'[d] \in SUBSET Woes
      <4>1. \A d \in AllCallers : spoiled[d] \subseteq Woes
        BY <1>0 DEF VpxTypeOK
      <4>2. spoiled'[c] \subseteq Woes
        BY <1>3 DEF Woes
      <4>3. ASSUME NEW d \in AllCallers \ {c} PROVE spoiled'[d] \subseteq spoiled[d] \cup {"overlap"}
        BY <1>3
      <4> QED BY <4>1, <4>2, <4>3 DEF Woes
    <3>2. spoiled' = [d \in AllCallers |-> spoiled'[d]]
      BY <1>1
    <3> QED BY <3>1, <3>2
  <2>3. stage' \in [AllCallers -> Stages]
    BY <1>0, <1>1 DEF VpxTypeOK, Stages
  <2>4. \A d \in AllCallers : before'[d] = <<>> \/ before'[d] \in [FpRegs -> SUBSET Twelve]
    BY <1>0, <1>3 DEF VpxTypeOK
  <2> QED BY <1>0, <1>1, <1>2, <2>1, <2>2, <2>3, <2>4 DEF VpxTypeOK
<1>5. MetOverlap'
  BY <1>0, <1>1, <1>3 DEF MetOverlap
<1>6. ASSUME NEW d \in AllCallers PROVE CallerInv(d)'
  <2>1. CASE d = c
    <3>1. stage'[c] \in {"rdaddr", "wraddr"} /\ (stage'[c] = "wraddr" <=> o.read = "no")
      BY <1>3
    <3>2. o.read = "no" => o.keep # NoWrite
      BY DEF SoundOps
    <3>3. polls'[c] = 0
      BY <1>0, <1>1 DEF CallerInv, PollsAreNew
    <3> QED BY <1>1, <1>3, <2>1, <3>1, <3>2, <3>3
            DEF CallerInv, OpFits, PollsAreNew, Addressed, OnTheWay
  <2>2. CASE d # c
    <3>1. /\ stage'[d] = stage[d] /\ op'[d] = op[d] /\ before'[d] = before[d]
          /\ spoiled[d] \subseteq spoiled'[d]
          /\ stage[d] = "idle" \/ "overlap" \in spoiled'[d]
      BY <1>3, <2>2
    <3>2. CallerInv(d) /\ UNCHANGED <<polls, val, fp, latch, busy, dat>>
      BY <1>0, <1>1
    <3> QED BY <3>1, <3>2 DEF CallerInv, OpFits, PollsAreNew, Addressed, OnTheWay
  <2> QED BY <2>1, <2>2
<1> QED BY <1>4, <1>5, <1>6 DEF VpxInv

\* A step of one operation touches no variable of another, which has met it or has not
\* begun.
LEMMA FrameStep ==
  ASSUME VpxInv, NEW c \in AllCallers, stage[c] # "idle",
         \A d \in AllCallers \ {c} :
           /\ stage'[d] = stage[d] /\ op'[d] = op[d] /\ polls'[d] = polls[d]
           /\ spoiled'[d] = spoiled[d],
         stage'[c] = "idle" \/ spoiled[c] \subseteq spoiled'[c],
         VpxTypeOK', CallerInv(c)'
  PROVE  VpxInv'
<1>0. VpxTypeOK /\ MetOverlap /\ \A d \in AllCallers : CallerInv(d)
  BY DEF VpxInv
<1>1. MetOverlap'
  <2> SUFFICES ASSUME NEW d \in AllCallers, NEW e \in AllCallers, d # e,
                      stage'[d] # "idle", stage'[e] # "idle"
               PROVE  "overlap" \in spoiled'[d]
    BY DEF MetOverlap
  <2>1. stage[d] # "idle" /\ stage[e] # "idle"
    BY <1>0
  <2>2. "overlap" \in spoiled[d]
    BY <1>0, <2>1 DEF MetOverlap
  <2> QED BY <2>2
<1>2. ASSUME NEW d \in AllCallers, d # c PROVE CallerInv(d)'
  <2>1. stage[d] = "idle" \/ "overlap" \in spoiled[d]
    BY <1>0, <1>2 DEF MetOverlap
  <2>2. CallerInv(d)
    BY <1>0
  <2>3. /\ stage'[d] = stage[d] /\ op'[d] = op[d] /\ polls'[d] = polls[d]
        /\ spoiled[d] \subseteq spoiled'[d]
    BY <1>2
  <2> QED BY <2>1, <2>2, <2>3, OthersKeep
<1> QED BY <1>1, <1>2 DEF VpxInv

\* A caller's types.
LEMMA CallerTypes ==
  ASSUME VpxInv, NEW c \in AllCallers, stage[c] # "idle"
  PROVE  /\ op[c].reg \in FpRegs /\ op[c].on \in SUBSET Twelve /\ op[c] # Nothing
         /\ op[c].read \in {"plain", "strict", "no"} /\ fp[op[c].reg] \in SUBSET Twelve
         /\ op[c].keep \in (SUBSET (0..15)) \cup {NoWrite}
         /\ op[c].reg = "outmux" /\ op[c].keep # NoWrite => {8, 9} \subseteq op[c].on
         /\ stage[c] \in Stages /\ spoiled[c] \in SUBSET Woes /\ fails \in Nat
         /\ stage \in [AllCallers -> Stages] /\ spoiled \in [AllCallers -> SUBSET Woes]
         /\ val \in [AllCallers -> SUBSET (0..15)]
         /\ polls \in [AllCallers -> 0..(MaxPolls - 1)] /\ polls[c] \in 0..(MaxPolls - 1)
<1>1. VpxTypeOK /\ OpFits(c)
  BY DEF VpxInv, CallerInv
<1>2. op[c] \in SoundOps
  BY <1>1 DEF OpFits
<1>3. /\ op[c].reg \in FpRegs /\ op[c].on \in SUBSET Twelve /\ op[c] # Nothing
      /\ op[c].read \in {"plain", "strict", "no"}
      /\ op[c].keep \in (SUBSET (0..15)) \cup {NoWrite}
      /\ op[c].reg = "outmux" /\ op[c].keep # NoWrite => {8, 9} \subseteq op[c].on
  BY <1>2 DEF SoundOps, FpRegs, Nothing
<1>4. fp[op[c].reg] \in SUBSET Twelve
  BY <1>1, <1>3 DEF VpxTypeOK
<1>5. MaxFails \in Nat
  BY VpxAssumption
<1> QED BY <1>1, <1>3, <1>4, <1>5 DEF VpxTypeOK

\* The address goes out: the chip has taken it before the first poll, or is slow, or the
\* transfer has failed.
LEMMA SendAddrStep == ASSUME VpxInv, NEW c \in AllCallers, SendAddr(c) PROVE VpxInv'
<1> DEFINE dir == IF stage[c] = "rdaddr" THEN "rd" ELSE "wr"
<1>0. VpxTypeOK /\ OpFits(c) /\ PollsAreNew(c) /\ OnTheWay(c)
  BY DEF VpxInv, CallerInv
<1>1. /\ stage[c] \in {"rdaddr", "wraddr"} /\ stage[c] # "idle"
      /\ UNCHANGED <<op, polls, begun, fp, before>>
  BY DEF SendAddr
<1>2. /\ op[c].reg \in FpRegs /\ fp[op[c].reg] \in SUBSET Twelve /\ dir \in {"rd", "wr"}
      /\ stage \in [AllCallers -> Stages] /\ spoiled \in [AllCallers -> SUBSET Woes]
      /\ val \in [AllCallers -> SUBSET (0..15)] /\ fails \in Nat /\ ReadFail \in SUBSET (0..15)
      /\ fails \in 0..MaxFails /\ MaxFails \in Nat /\ op[c] # Nothing
  BY <1>0, <1>1, CallerTypes, VpxAssumption DEF ReadFail, VpxTypeOK
<1>3. CASE /\ latch' = [dir |-> dir, reg |-> op[c].reg]
           /\ \/ busy' = "no" /\ dat' = IF dir = "rd" THEN fp[op[c].reg] ELSE dat
              \/ busy' = "yes" /\ dat' = dat
           /\ fails' \in 0..MaxFails /\ UNCHANGED <<spoiled, val>>
           /\ stage' = [stage EXCEPT ![c] = IF dir = "rd" THEN "rdpoll" ELSE "wrpoll"]
  <2>1. /\ stage'[c] = (IF dir = "rd" THEN "rdpoll" ELSE "wrpoll")
        /\ \A d \in AllCallers \ {c} : stage'[d] = stage[d]
        /\ stage' \in [AllCallers -> Stages]
    BY <1>2, <1>3 DEF Stages
  <2>2. latch'.dir = dir /\ latch'.reg = op[c].reg
    BY <1>3
  <2>3. VpxTypeOK'
    <3>1. \A d \in AllCallers : op'[d] = Nothing <=> stage'[d] = "idle"
      BY <1>0, <1>1, <1>2, <2>1 DEF VpxTypeOK
    <3>2. dat' \subseteq Twelve /\ busy' \in {"no", "yes"}
      BY <1>0, <1>2, <1>3 DEF VpxTypeOK
    <3> QED BY <1>0, <1>1, <1>2, <1>3, <2>1, <2>2, <3>1, <3>2 DEF VpxTypeOK
  <2>4. CallerInv(c)'
    <3>1. OpFits(c)' /\ PollsAreNew(c)'
      BY <1>0, <1>1, <2>1 DEF OpFits, PollsAreNew
    <3>2. Addressed(c)'
      BY <1>1, <2>1, <2>2 DEF Addressed
    <3>3. OnTheWay(c)'
      BY <1>0, <1>1, <1>3, <2>1 DEF OnTheWay
    <3> QED BY <3>1, <3>2, <3>3 DEF CallerInv
  <2> QED BY <1>1, <1>3, <2>1, <2>3, <2>4, FrameStep
<1>4. CASE /\ Fails(c, "addr")
           /\ \/ latch' = [dir |-> dir, reg |-> op[c].reg]
                 /\ \/ busy' = "no" /\ dat' = IF dir = "rd" THEN fp[op[c].reg] ELSE dat
                    \/ busy' = "yes" /\ dat' = dat
              \/ UNCHANGED <<latch, busy, dat>>
           /\ stage' = [stage EXCEPT ![c] = IF dir = "rd" THEN AfterRead(c, TRUE) ELSE "done"]
           /\ val' = IF dir = "rd" THEN [val EXCEPT ![c] = ReadFail] ELSE val
  <2>1. /\ stage'[c] \in {"done", "wraddr"}
        /\ stage'[c] = "wraddr" => op[c].keep # NoWrite
        /\ \A d \in AllCallers \ {c} : stage'[d] = stage[d]
        /\ stage' \in [AllCallers -> Stages]
    <3>1. AfterRead(c, TRUE) \in {"done", "wraddr"}
          /\ (AfterRead(c, TRUE) = "wraddr" => op[c].keep # NoWrite)
      BY DEF AfterRead
    <3> HIDE DEF dir
    <3> QED BY <1>2, <1>4, <3>1 DEF Stages
  <2>2. /\ spoiled' \in [AllCallers -> SUBSET Woes] /\ spoiled'[c] = spoiled[c] \cup {"addr"}
        /\ \A d \in AllCallers \ {c} : spoiled'[d] = spoiled[d]
        /\ fails' \in 0..MaxFails
    BY <1>2, <1>4 DEF Fails, Woes
  <2>3. VpxTypeOK'
    <3>1. \A d \in AllCallers : op'[d] = Nothing <=> stage'[d] = "idle"
      BY <1>0, <1>1, <1>2, <2>1 DEF VpxTypeOK
    <3>2. dat' \subseteq Twelve /\ busy' \in {"no", "yes"}
      BY <1>0, <1>2, <1>4 DEF VpxTypeOK
    <3>3. latch'.dir \in {"none", "rd", "wr"} /\ latch'.reg \in FpRegs
      BY <1>0, <1>2, <1>4 DEF VpxTypeOK
    <3>4. val' \in [AllCallers -> SUBSET (0..15)]
      BY <1>2, <1>4
    <3> QED BY <1>0, <1>1, <1>2, <2>1, <2>2, <3>1, <3>2, <3>3, <3>4 DEF VpxTypeOK
  <2>4. CallerInv(c)'
    <3>1. OpFits(c)' /\ PollsAreNew(c)'
      BY <1>0, <1>1, <2>1 DEF OpFits, PollsAreNew
    <3>2. Addressed(c)' /\ OnTheWay(c)'
      BY <2>1, <2>2 DEF Addressed, OnTheWay
    <3> QED BY <3>1, <3>2 DEF CallerInv
  <2> QED BY <1>1, <2>1, <2>2, <2>3, <2>4, FrameStep
<1>5. \/ /\ latch' = [dir |-> dir, reg |-> op[c].reg]
         /\ \/ busy' = "no" /\ dat' = IF dir = "rd" THEN fp[op[c].reg] ELSE dat
            \/ busy' = "yes" /\ dat' = dat
         /\ fails' \in 0..MaxFails /\ UNCHANGED <<spoiled, val>>
         /\ stage' = [stage EXCEPT ![c] = IF dir = "rd" THEN "rdpoll" ELSE "wrpoll"]
      \/ /\ Fails(c, "addr")
         /\ \/ latch' = [dir |-> dir, reg |-> op[c].reg]
               /\ \/ busy' = "no" /\ dat' = IF dir = "rd" THEN fp[op[c].reg] ELSE dat
                  \/ busy' = "yes" /\ dat' = dat
            \/ UNCHANGED <<latch, busy, dat>>
         /\ stage' = [stage EXCEPT ![c] = IF dir = "rd" THEN AfterRead(c, TRUE) ELSE "done"]
         /\ val' = IF dir = "rd" THEN [val EXCEPT ![c] = ReadFail] ELSE val
  <2> DEFINE taken == latch' = [dir |-> dir, reg |-> op[c].reg]
             quick == taken /\ busy' = "no" /\ dat' = IF dir = "rd" THEN fp[op[c].reg] ELSE dat
             slow  == taken /\ busy' = "yes" /\ UNCHANGED dat
  <2>1. \/ /\ \/ Works /\ quick
              \/ fails < MaxFails /\ fails' = fails + 1 /\ UNCHANGED spoiled /\ slow
           /\ stage' = [stage EXCEPT ![c] = IF dir = "rd" THEN "rdpoll" ELSE "wrpoll"]
           /\ UNCHANGED val
        \/ /\ Fails(c, "addr")
           /\ quick \/ slow \/ UNCHANGED <<latch, busy, dat>>
           /\ stage' = [stage EXCEPT ![c] = IF dir = "rd" THEN AfterRead(c, TRUE) ELSE "done"]
           /\ val' = IF dir = "rd" THEN [val EXCEPT ![c] = ReadFail] ELSE val
    BY DEF SendAddr, WriteAddrFails
  <2>2. fails < MaxFails /\ fails' = fails + 1 => fails' \in 0..MaxFails
    BY <1>2
  <2>3. Works => fails' \in 0..MaxFails /\ UNCHANGED spoiled
    BY <1>2 DEF Works
  <2> QED BY <2>1, <2>2, <2>3
<1> QED BY <1>3, <1>4, <1>5

\* A look at the busy bit: on to the data when it is clear or the look has failed, to the
\* end of a read or of the operation when it has been set too often.
LEMMA PollStep == ASSUME VpxInv, NEW c \in AllCallers, Poll(c) PROVE VpxInv'
<1> DEFINE reads == stage[c] = "rdpoll"
           onward == IF reads THEN "rddata" ELSE "wrdata"
<1>0. VpxTypeOK /\ OpFits(c) /\ PollsAreNew(c) /\ Addressed(c) /\ OnTheWay(c)
  BY DEF VpxInv, CallerInv
<1>1. /\ stage[c] \in {"rdpoll", "wrpoll"} /\ stage[c] # "idle"
      /\ UNCHANGED <<op, begun, fp, latch, busy, dat, before>>
  BY DEF Poll
<1>2. /\ op[c] # Nothing /\ stage \in [AllCallers -> Stages]
      /\ spoiled \in [AllCallers -> SUBSET Woes] /\ val \in [AllCallers -> SUBSET (0..15)]
      /\ polls \in [AllCallers -> 0..(MaxPolls - 1)] /\ polls[c] \in 0..(MaxPolls - 1)
      /\ fails \in 0..MaxFails /\ MaxFails \in Nat /\ MaxPolls \in Nat \ {0}
      /\ ReadFail \in SUBSET (0..15)
  BY <1>0, <1>1, CallerTypes, VpxAssumption DEF ReadFail, VpxTypeOK
<1>3. ASSUME Works \/ Fails(c, "status"), Works => busy = "no",
             stage' = [stage EXCEPT ![c] = onward],
             polls' = [polls EXCEPT ![c] = 0], UNCHANGED val
      PROVE  VpxInv'
  <2>1. /\ stage'[c] = onward /\ polls'[c] = 0 /\ \A d \in AllCallers \ {c} :
             stage'[d] = stage[d] /\ polls'[d] = polls[d]
        /\ stage' \in [AllCallers -> Stages] /\ polls' \in [AllCallers -> 0..(MaxPolls - 1)]
    BY <1>2, <1>3 DEF Stages
  <2>2. /\ spoiled' \in [AllCallers -> SUBSET Woes] /\ spoiled[c] \subseteq spoiled'[c]
        /\ \A d \in AllCallers \ {c} : spoiled'[d] = spoiled[d]
        /\ fails' \in 0..MaxFails /\ (spoiled'[c] = {} => spoiled[c] = {} /\ busy = "no")
    <3>1. CASE Works
      BY <1>2, <1>3, <3>1 DEF Works
    <3>2. CASE Fails(c, "status")
      BY <1>2, <3>2 DEF Fails, Woes
    <3> QED BY <1>3, <3>1, <3>2
  <2>3. VpxTypeOK'
    <3>1. \A d \in AllCallers : op'[d] = Nothing <=> stage'[d] = "idle"
      BY <1>0, <1>1, <1>2, <2>1 DEF VpxTypeOK
    <3> QED BY <1>0, <1>1, <1>3, <2>1, <2>2, <3>1 DEF VpxTypeOK
  <2>4. CallerInv(c)'
    <3>1. OpFits(c)' /\ PollsAreNew(c)'
      BY <1>0, <1>1, <2>1 DEF OpFits, PollsAreNew
    <3>2. Addressed(c)'
      BY <1>0, <1>1, <2>1, <2>2 DEF Addressed
    <3>3. OnTheWay(c)'
      BY <1>0, <1>1, <1>3, <2>1, <2>2 DEF OnTheWay
    <3> QED BY <3>1, <3>2, <3>3 DEF CallerInv
  <2> QED BY <1>1, <2>1, <2>2, <2>3, <2>4, FrameStep
<1>4. ASSUME polls' = [polls EXCEPT ![c] = 0],
             stage' = [stage EXCEPT ![c] = IF reads THEN AfterRead(c, TRUE) ELSE "done"],
             val' = IF reads THEN [val EXCEPT ![c] = ReadFail] ELSE val,
             spoiled' = [spoiled EXCEPT ![c] = @ \cup {"poll"}], UNCHANGED fails
      PROVE  VpxInv'
  <2>1. /\ stage'[c] \in {"done", "wraddr"} /\ (stage'[c] = "wraddr" => op[c].keep # NoWrite)
        /\ \A d \in AllCallers \ {c} : stage'[d] = stage[d]
        /\ stage' \in [AllCallers -> Stages]
    <3>1. AfterRead(c, TRUE) \in {"done", "wraddr"}
          /\ (AfterRead(c, TRUE) = "wraddr" => op[c].keep # NoWrite)
      BY DEF AfterRead
    <3> HIDE DEF reads
    <3> QED BY <1>2, <1>4, <3>1 DEF Stages
  <2>2. /\ spoiled' \in [AllCallers -> SUBSET Woes] /\ spoiled'[c] = spoiled[c] \cup {"poll"}
        /\ \A d \in AllCallers \ {c} : spoiled'[d] = spoiled[d]
        /\ polls'[c] = 0 /\ \A d \in AllCallers \ {c} : polls'[d] = polls[d]
        /\ polls' \in [AllCallers -> 0..(MaxPolls - 1)]
        /\ val' \in [AllCallers -> SUBSET (0..15)]
    BY <1>2, <1>4 DEF Woes
  <2>3. VpxTypeOK'
    <3>1. \A d \in AllCallers : op'[d] = Nothing <=> stage'[d] = "idle"
      BY <1>0, <1>1, <1>2, <2>1 DEF VpxTypeOK
    <3> QED BY <1>0, <1>1, <1>4, <2>1, <2>2, <3>1 DEF VpxTypeOK
  <2>4. CallerInv(c)'
    <3>1. OpFits(c)' /\ PollsAreNew(c)'
      BY <1>0, <1>1, <2>1, <2>2 DEF OpFits, PollsAreNew
    <3>2. Addressed(c)' /\ OnTheWay(c)'
      BY <2>1, <2>2 DEF Addressed, OnTheWay
    <3> QED BY <3>1, <3>2 DEF CallerInv
  <2> QED BY <1>1, <2>1, <2>2, <2>3, <2>4, FrameStep
<1>5. ASSUME ~PolledEnough(c), Works, polls' = [polls EXCEPT ![c] = @ + 1],
             UNCHANGED <<stage, val>>
      PROVE  VpxInv'
  <2>1. /\ polls' \in [AllCallers -> 0..(MaxPolls - 1)]
        /\ \A d \in AllCallers \ {c} : polls'[d] = polls[d]
    <3>1. polls[c] + 1 \in 0..(MaxPolls - 1)
      BY <1>2, <1>5 DEF PolledEnough
    <3> QED BY <1>2, <1>5, <3>1
  <2>2. VpxTypeOK'
    BY <1>0, <1>1, <1>5, <2>1 DEF VpxTypeOK, Works
  <2>3. CallerInv(c)'
    BY <1>0, <1>1, <1>5 DEF CallerInv, OpFits, PollsAreNew, Addressed, OnTheWay, Works, Wanted
  <2> QED BY <1>1, <1>5, <2>1, <2>2, <2>3, FrameStep DEF Works
<1> QED
  <2>1. \/ Accepted /\ Works /\ stage' = [stage EXCEPT ![c] = onward]
           /\ polls' = [polls EXCEPT ![c] = 0] /\ UNCHANGED val
        \/ Fails(c, "status") /\ stage' = [stage EXCEPT ![c] = onward]
           /\ polls' = [polls EXCEPT ![c] = 0] /\ UNCHANGED val
        \/ /\ polls' = [polls EXCEPT ![c] = 0]
           /\ stage' = [stage EXCEPT ![c] = IF reads THEN AfterRead(c, TRUE) ELSE "done"]
           /\ val' = IF reads THEN [val EXCEPT ![c] = ReadFail] ELSE val
           /\ spoiled' = [spoiled EXCEPT ![c] = @ \cup {"poll"}] /\ UNCHANGED fails
        \/ /\ ~PolledEnough(c) /\ Works /\ polls' = [polls EXCEPT ![c] = @ + 1]
           /\ UNCHANGED <<stage, val>>
    BY DEF Poll
  <2>2. Fails(c, "status") => ~Works
    BY <1>2 DEF Fails, Works
  <2> QED BY <1>3, <1>4, <1>5, <2>1, <2>2 DEF Accepted

\* The data comes back.
LEMMA ReadDataStep == ASSUME VpxInv, NEW c \in AllCallers, ReadData(c) PROVE VpxInv'
<1>0. VpxTypeOK /\ OpFits(c) /\ PollsAreNew(c) /\ Addressed(c) /\ OnTheWay(c)
  BY DEF VpxInv, CallerInv
<1>1. /\ stage[c] = "rddata" /\ stage' = [stage EXCEPT ![c] = AfterRead(c, FALSE)]
      /\ \/ Works /\ val' = [val EXCEPT ![c] = dat]
         \/ Fails(c, "read") /\ val' = [val EXCEPT ![c] = DataFail]
      /\ UNCHANGED <<op, polls, begun, fp, latch, busy, dat, before>>
  BY DEF ReadData
<1>2. /\ op[c] # Nothing /\ stage \in [AllCallers -> Stages] /\ op[c].reg \in FpRegs
      /\ spoiled \in [AllCallers -> SUBSET Woes] /\ val \in [AllCallers -> SUBSET (0..15)]
      /\ fails \in 0..MaxFails /\ MaxFails \in Nat
      /\ DataFail \in SUBSET (0..15) /\ dat \in SUBSET (0..15)
  <2>1. DataFail \in SUBSET (0..15)
    BY DEF DataFail
  <2>2. dat \in SUBSET (0..15)
    <3>1. Twelve \subseteq 0..15
      BY DEF Twelve
    <3> QED BY <1>0, <3>1 DEF VpxTypeOK
  <2> QED BY <1>0, <1>1, <2>1, <2>2, CallerTypes, VpxAssumption DEF VpxTypeOK
<1>3. stage'[c] = (IF op[c].keep = NoWrite THEN "done" ELSE "wraddr")
      /\ \A d \in AllCallers \ {c} : stage'[d] = stage[d]
  BY <1>1, <1>2 DEF AfterRead
<1>4. stage' \in [AllCallers -> Stages]
  BY <1>1, <1>2 DEF Stages, AfterRead
<1>5. /\ spoiled' \in [AllCallers -> SUBSET Woes] /\ spoiled[c] \subseteq spoiled'[c]
      /\ \A d \in AllCallers \ {c} : spoiled'[d] = spoiled[d]
      /\ fails' \in 0..MaxFails /\ val' \in [AllCallers -> SUBSET (0..15)]
      /\ spoiled'[c] = {} => spoiled[c] = {} /\ val'[c] = dat
  <2>1. CASE Works /\ val' = [val EXCEPT ![c] = dat]
    BY <1>2, <2>1 DEF Works
  <2>2. CASE Fails(c, "read") /\ val' = [val EXCEPT ![c] = DataFail]
    BY <1>2, <2>2 DEF Fails, Woes
  <2> QED BY <1>1, <2>1, <2>2
<1>6. VpxTypeOK'
  <2>1. \A d \in AllCallers : op'[d] = Nothing <=> stage'[d] = "idle"
    BY <1>0, <1>1, <1>2, <1>3 DEF VpxTypeOK
  <2> QED BY <1>0, <1>1, <1>4, <1>5, <2>1 DEF VpxTypeOK
<1>7. CallerInv(c)'
  <2>0. /\ stage'[c] \in {"done", "wraddr"}
        /\ stage'[c] = "wraddr" => op[c].keep # NoWrite
    BY <1>3
  <2>1. OpFits(c)' /\ PollsAreNew(c)' /\ Addressed(c)'
    BY <1>0, <1>1, <2>0 DEF OpFits, PollsAreNew, Addressed
  <2>2. OnTheWay(c)'
    BY <1>0, <1>1, <1>2, <1>3, <1>5 DEF OnTheWay, Wanted
  <2> QED BY <2>1, <2>2 DEF CallerInv
<1> QED BY <1>1, <1>3, <1>5, <1>6, <1>7, FrameStep

\* The data goes out.
LEMMA WriteDataStep == ASSUME VpxInv, NEW c \in AllCallers, WriteData(c) PROVE VpxInv'
<1> DEFINE kept   == IF op[c].read = "no" THEN {} ELSE val[c] \cap op[c].keep
           stored == latch.dir = "wr" /\ fp' = [fp EXCEPT ![latch.reg] = (kept \cup op[c].on) \cap Twelve]
<1>0. VpxTypeOK /\ OpFits(c) /\ PollsAreNew(c) /\ Addressed(c) /\ OnTheWay(c)
  BY DEF VpxInv, CallerInv
<1>1. /\ stage[c] = "wrdata" /\ stage' = [stage EXCEPT ![c] = "done"]
      /\ \/ Works /\ stored
         \/ Works /\ (latch.dir # "wr" \/ busy = "yes") /\ UNCHANGED fp
         \/ Fails(c, "write") /\ (stored \/ UNCHANGED fp)
      /\ UNCHANGED <<op, val, polls, begun, latch, busy, dat, before>>
  BY DEF WriteData
<1>2. /\ op[c] # Nothing /\ stage \in [AllCallers -> Stages] /\ op[c].reg \in FpRegs
      /\ op[c].on \in SUBSET Twelve /\ op[c].keep \in (SUBSET (0..15)) \cup {NoWrite}
      /\ op[c].keep # NoWrite
      /\ spoiled \in [AllCallers -> SUBSET Woes] /\ val \in [AllCallers -> SUBSET (0..15)]
      /\ fails \in 0..MaxFails /\ MaxFails \in Nat
      /\ fp \in [FpRegs -> SUBSET Twelve] /\ latch.reg \in FpRegs
  BY <1>0, <1>1, CallerTypes, VpxAssumption DEF VpxTypeOK, OpFits
<1>3. /\ stage'[c] = "done" /\ \A d \in AllCallers \ {c} : stage'[d] = stage[d]
      /\ stage' \in [AllCallers -> Stages]
  BY <1>1, <1>2 DEF Stages
<1>4. fp' \in [FpRegs -> SUBSET Twelve]
  <2>1. (kept \cup op[c].on) \cap Twelve \in SUBSET Twelve
    OBVIOUS
  <2> HIDE DEF kept
  <2> QED BY <1>1, <1>2, <2>1
<1>5. /\ spoiled' \in [AllCallers -> SUBSET Woes] /\ spoiled[c] \subseteq spoiled'[c]
      /\ \A d \in AllCallers \ {c} : spoiled'[d] = spoiled[d]
      /\ fails' \in 0..MaxFails /\ (spoiled'[c] = {} => spoiled[c] = {} /\ Works)
  <2>1. CASE Works
    BY <1>2, <2>1 DEF Works
  <2>2. CASE Fails(c, "write")
    BY <1>2, <2>2 DEF Fails, Woes
  <2> QED BY <1>1, <2>1, <2>2
<1>6. VpxTypeOK'
  <2>1. \A d \in AllCallers : op'[d] = Nothing <=> stage'[d] = "idle"
    BY <1>0, <1>1, <1>2, <1>3 DEF VpxTypeOK
  <2> QED BY <1>0, <1>1, <1>3, <1>4, <1>5, <2>1 DEF VpxTypeOK
<1>7. ASSUME spoiled'[c] = {}, NEW r \in FpRegs PROVE fp'[r] = Wanted(c, r)'
  <2>1. /\ spoiled[c] = {} /\ busy = "no" /\ latch.dir = "wr" /\ latch.reg = op[c].reg
        /\ fp = before[c] /\ (op[c].read # "no" => val[c] = before[c][op[c].reg])
    BY <1>0, <1>1, <1>5, <1>7 DEF OnTheWay, Addressed
  <2>2. stored
    <3>1. ~Fails(c, "write")
      BY <1>2, <1>5, <1>7 DEF Fails, Works
    <3> QED BY <1>1, <2>1, <3>1
  <2>3. fp'[r] = IF r = op[c].reg THEN (kept \cup op[c].on) \cap Twelve ELSE fp[r]
    BY <1>2, <2>1, <2>2
  <2>4. kept = IF op[c].read = "no" THEN {} ELSE before[c][op[c].reg] \cap op[c].keep
    BY <2>1
  <2>5. (kept \cup op[c].on) \cap Twelve = kept \cup op[c].on
    <3>1. before[c][op[c].reg] \subseteq Twelve
      BY <1>2, <2>1
    <3> QED BY <1>2, <2>4, <3>1
  <2> HIDE DEF kept, stored
  <2>6. Wanted(c, r)' = IF r # op[c].reg THEN before[c][r] ELSE kept \cup op[c].on
    BY <1>1, <1>2, <2>4 DEF Wanted
  <2> QED BY <2>1, <2>3, <2>5, <2>6
<1>8. CallerInv(c)'
  <2>1. OpFits(c)' /\ PollsAreNew(c)' /\ Addressed(c)'
    BY <1>0, <1>1, <1>3 DEF OpFits, PollsAreNew, Addressed
  <2>2. OnTheWay(c)'
    BY <1>3, <1>7 DEF OnTheWay
  <2> QED BY <2>1, <2>2 DEF CallerInv
<1> QED BY <1>1, <1>3, <1>5, <1>6, <1>8, FrameStep

\* The operation returns.
LEMMA ReturnStep == ASSUME VpxInv, NEW c \in AllCallers, Return(c) PROVE VpxInv'
<1>0. VpxTypeOK /\ PollsAreNew(c)
  BY DEF VpxInv, CallerInv
<1>1. /\ stage[c] = "done"
      /\ stage' = [stage EXCEPT ![c] = "idle"] /\ op' = [op EXCEPT ![c] = Nothing]
      /\ val' = [val EXCEPT ![c] = {}] /\ before' = [before EXCEPT ![c] = <<>>]
      /\ spoiled' = [spoiled EXCEPT ![c] = {}]
      /\ UNCHANGED <<polls, begun, fp, latch, busy, dat, fails>>
  BY DEF Return
<1>2. /\ stage' \in [AllCallers -> Stages] /\ val' \in [AllCallers -> SUBSET (0..15)]
      /\ spoiled' \in [AllCallers -> SUBSET Woes]
      /\ DOMAIN op' = AllCallers /\ DOMAIN before' = AllCallers
      /\ stage'[c] = "idle" /\ op'[c] = Nothing /\ before'[c] = <<>>
      /\ \A d \in AllCallers \ {c} :
           /\ stage'[d] = stage[d] /\ op'[d] = op[d] /\ spoiled'[d] = spoiled[d]
           /\ before'[d] = before[d]
  BY <1>0, <1>1 DEF VpxTypeOK, Stages
<1>3. VpxTypeOK'
  BY <1>0, <1>1, <1>2 DEF VpxTypeOK
<1>4. CallerInv(c)'
  <2>1. polls'[c] = 0
    BY <1>0, <1>1 DEF PollsAreNew
  <2> QED BY <1>2, <2>1 DEF CallerInv, OpFits, PollsAreNew, Addressed, OnTheWay
<1> QED BY <1>1, <1>2, <1>3, <1>4, FrameStep

\* The chip catches up.
LEMMA ChipStep == ASSUME VpxInv, ChipAccepts PROVE VpxInv'
<1>0. VpxTypeOK /\ MetOverlap /\ \A c \in AllCallers : CallerInv(c)
  BY DEF VpxInv
<1>1. /\ busy = "yes" /\ busy' = "no" /\ dat' = IF latch.dir = "rd" THEN fp[latch.reg] ELSE dat
      /\ UNCHANGED <<stage, op, val, polls, begun, fp, latch, before, spoiled, fails>>
  BY DEF ChipAccepts
<1>2. VpxTypeOK'
  <2>1. dat' \subseteq Twelve
    BY <1>0, <1>1 DEF VpxTypeOK
  <2> QED BY <1>0, <1>1, <2>1 DEF VpxTypeOK
<1>3. MetOverlap'
  BY <1>0, <1>1 DEF MetOverlap
<1>4. ASSUME NEW c \in AllCallers PROVE CallerInv(c)'
  <2>1. OpFits(c)' /\ PollsAreNew(c)' /\ Addressed(c)'
    BY <1>0, <1>1 DEF CallerInv, OpFits, PollsAreNew, Addressed
  <2>2. OnTheWay(c)'
    BY <1>0, <1>1 DEF CallerInv, OnTheWay, Addressed, Wanted
  <2> QED BY <2>1, <2>2 DEF CallerInv
<1> QED BY <1>2, <1>3, <1>4 DEF VpxInv

LEMMA VpxInvStep == ASSUME VpxInv, [VpxNext]_vpxVars PROVE VpxInv'
<1>0. begun \in 0..(Len(ProbeOps) + MaxOps) /\ Len(ProbeOps) \in Nat /\ MaxOps \in Nat
  BY ProbeOpsAreSound, VpxAssumption DEF VpxInv, VpxTypeOK
<1>1. CASE VpxProbeBegins
  <2>1. begun' = begun + 1 /\ begun < Len(ProbeOps) /\ VpxBegin("probe", ProbeOps[begun + 1])
    BY <1>1 DEF VpxProbeBegins
  <2>2. ProbeOps[begun + 1] \in SoundOps
    BY <1>0, <2>1, ProbeOpsAreSound
  <2>3. begun' \in 0..(Len(ProbeOps) + MaxOps) /\ "probe" \in AllCallers
    BY <1>0, <2>1 DEF AllCallers
  <2> QED BY <2>1, <2>2, <2>3, BeginStep
<1>2. ASSUME NEW c \in Callers, NEW l \in VpxLines, NEW s \in {0, 1}, CallerBegins(c, l, s)
      PROVE  VpxInv'
  <2>1. begun' = begun + 1 /\ begun < Len(ProbeOps) + MaxOps /\ VpxBegin(c, LineOp(l, s))
    BY <1>2 DEF CallerBegins
  <2>2. LineOp(l, s) \in SoundOps
    <3>1. l \in Int /\ s \in Int
      BY VpxAssumption
    <3> QED BY <3>1, LineOpIsSound
  <2>3. begun' \in 0..(Len(ProbeOps) + MaxOps) /\ c \in AllCallers
    BY <1>0, <2>1 DEF AllCallers
  <2> QED BY <2>1, <2>2, <2>3, BeginStep
<1>3. ASSUME NEW c \in AllCallers, VpxStep(c) PROVE VpxInv'
  BY <1>3, SendAddrStep, PollStep, ReadDataStep, WriteDataStep, ReturnStep DEF VpxStep
<1>4. CASE ChipAccepts
  BY <1>4, ChipStep
<1>5. CASE UNCHANGED vpxVars
  <2>1. VpxTypeOK' /\ MetOverlap'
    BY <1>5 DEF vpxVars, VpxInv, VpxTypeOK, MetOverlap
  <2>2. \A c \in AllCallers : CallerInv(c)'
    BY <1>5 DEF vpxVars, VpxInv, CallerInv, OpFits, PollsAreNew, Addressed, OnTheWay, Wanted
  <2> QED BY <2>1, <2>2 DEF VpxInv
<1> QED BY <1>1, <1>2, <1>3, <1>4, <1>5 DEF VpxNext

LEMMA VpxInvAlways == VpxSpec => []VpxInv
BY VpxInvInit, VpxInvStep, PTL DEF VpxSpec

\* The decoder's registers, its latches and what a caller knows of them keep their types,
\* for any number of callers, polls and faults: a count of polls stays below its limit
\* (tl880_vpx_fp_status 97-117), and no register gets more than its twelve bits.
THEOREM VpxTypeCorrect == VpxSpec => []VpxTypeOK
<1>1. VpxInv => VpxTypeOK
  BY DEF VpxInv
<1> QED BY <1>1, VpxInvAlways, PTL

\* An operation that no transfer error, no timeout and no other operation has spoiled
\* changes its bits of its register and nothing else (tl880_vpx_read_fp 120-146,
\* tl880_vpx_write_fp 148-176, tl880_set_gpio 274-347).
THEOREM DecoderChangesAreExact == VpxSpec => []LandsExactly
<1>1. VpxInv => LandsExactly
  BY DEF VpxInv, CallerInv, OnTheWay, LandsExactly
<1> QED BY <1>1, VpxInvAlways, PTL

\* Whatever fails, no change of OUTMUX clears its port mode while operations do not meet
\* (tl880_vpx_write_fp 156-161, tl880gpio.c 341).
THEOREM PortModeIsKept == VpxSpec => ModeKept
<1>1. ASSUME VpxInv, [VpxNext]_vpxVars, \A c \in AllCallers : "overlap" \notin spoiled[c],
             fp'["outmux"] # fp["outmux"]
      PROVE  {8, 9} \subseteq fp'["outmux"]
  <2>1. ASSUME NEW c \in AllCallers, WriteData(c) PROVE {8, 9} \subseteq fp'["outmux"]
    <3> DEFINE kept == IF op[c].read = "no" THEN {} ELSE val[c] \cap op[c].keep
    <3>1. /\ stage[c] = "wrdata"
          /\ \/ fp' = [fp EXCEPT ![latch.reg] = (kept \cup op[c].on) \cap Twelve]
             \/ UNCHANGED fp
      BY <2>1 DEF WriteData
    <3> HIDE DEF kept
    <3>2. latch.reg = op[c].reg /\ op[c].keep # NoWrite /\ fp \in [FpRegs -> SUBSET Twelve]
      BY <1>1, <3>1 DEF VpxInv, VpxTypeOK, CallerInv, Addressed, OpFits
    <3>3. op[c].reg \in FpRegs /\ (op[c].reg = "outmux" => {8, 9} \subseteq op[c].on)
      BY <1>1, <3>1, <3>2, CallerTypes
    <3>4. fp' = [fp EXCEPT ![op[c].reg] = (kept \cup op[c].on) \cap Twelve]
      BY <1>1, <3>1, <3>2
    <3>5. op[c].reg = "outmux"
      BY <1>1, <3>2, <3>3, <3>4
    <3>6. fp'["outmux"] = (kept \cup op[c].on) \cap Twelve
      BY <3>2, <3>3, <3>4, <3>5
    <3>7. 8 \in Twelve /\ 9 \in Twelve
      BY DEF Twelve
    <3> QED BY <3>3, <3>5, <3>6, <3>7
  <2>2. \E c \in AllCallers : WriteData(c)
    <3>1. fp' # fp
      BY <1>1
    <3>2. ~VpxProbeBegins /\ ~ChipAccepts /\ ~UNCHANGED vpxVars
      BY <3>1 DEF VpxProbeBegins, VpxBegin, ChipAccepts, vpxVars
    <3>3. ASSUME NEW c \in Callers, NEW l \in VpxLines, NEW s \in {0, 1}
          PROVE  ~CallerBegins(c, l, s)
      BY <3>1 DEF CallerBegins, VpxBegin
    <3>4. ASSUME NEW c \in AllCallers, VpxStep(c) PROVE WriteData(c)
      BY <3>1, <3>4 DEF VpxStep, SendAddr, Poll, ReadData, Return
    <3> QED BY <1>1, <3>2, <3>3, <3>4 DEF VpxNext
  <2> QED BY <2>1, <2>2
<1>2. VpxInv /\ [VpxNext]_vpxVars =>
        [(\A c \in AllCallers : "overlap" \notin spoiled[c]) /\ fp'["outmux"] # fp["outmux"] =>
           {8, 9} \subseteq fp'["outmux"]]_vpxVars
  BY <1>1
<1> QED BY <1>2, VpxInvAlways, PTL DEF VpxSpec, ModeKept

\* Every step of an operation brings it nearer to its end, however long the chip stays
\* busy: the polls have a bound (tl880_vpx_fp_status 97-117).
THEOREM OperationsEnd == VpxSpec => NearerTheEnd
<1>1. ASSUME VpxInv, NEW c \in AllCallers, VpxStep(c)
      PROVE  StepsLeft(c)' \in 0..(StepsLeft(c) - 1)
  <2>1. /\ MaxPolls \in Nat \ {0} /\ polls \in [AllCallers -> 0..(MaxPolls - 1)]
        /\ polls[c] \in 0..(MaxPolls - 1) /\ stage \in [AllCallers -> Stages]
        /\ stage[c] \notin {"rdpoll", "wrpoll"} => polls[c] = 0
        /\ polls'[c] \in 0..(MaxPolls - 1)
        /\ stage'[c] \notin {"rdpoll", "wrpoll"} => polls'[c] = 0
    <3>1. VpxInv'
      BY <1>1, VpxInvStep DEF VpxNext
    <3> QED BY <1>1, <3>1, VpxAssumption DEF VpxInv, VpxTypeOK, CallerInv, PollsAreNew
  <2>2. \/ stage[c] = "rdaddr" /\ stage'[c] \in {"rdpoll", "wraddr", "done"}
        \/ stage[c] = "wraddr" /\ stage'[c] \in {"wrpoll", "done"}
        \/ stage[c] = "rdpoll" /\ stage'[c] \in {"rddata", "wraddr", "done"}
        \/ stage[c] = "wrpoll" /\ stage'[c] \in {"wrdata", "done"}
        \/ /\ stage[c] \in {"rdpoll", "wrpoll"} /\ stage'[c] = stage[c]
           /\ polls'[c] = polls[c] + 1
        \/ stage[c] = "rddata" /\ stage'[c] \in {"wraddr", "done"}
        \/ stage[c] = "wrdata" /\ stage'[c] = "done"
        \/ stage[c] = "done" /\ stage'[c] = "idle"
    <3>1. CASE SendAddr(c)
      BY <2>1, <3>1 DEF SendAddr, AfterRead, WriteAddrFails
    <3>2. CASE Poll(c)
      BY <2>1, <3>2 DEF Poll, AfterRead
    <3>3. CASE ReadData(c)
      BY <2>1, <3>3 DEF ReadData, AfterRead
    <3>4. CASE WriteData(c)
      BY <2>1, <3>4 DEF WriteData
    <3>5. CASE Return(c)
      BY <2>1, <3>5 DEF Return
    <3> QED BY <1>1, <3>1, <3>2, <3>3, <3>4, <3>5 DEF VpxStep
  <2>3. StepsLeft(c) = MaxPolls * Left(stage[c]) - polls[c]
    BY DEF StepsLeft
  <2>4. StepsLeft(c)' = MaxPolls * Left(stage'[c]) - polls'[c]
    BY DEF StepsLeft, Left
  <2>5. PICK m \in Nat \ {0} : m = MaxPolls
    BY <2>1
  <2> QED BY <2>1, <2>2, <2>3, <2>4, <2>5 DEF Left
<1>2. VpxInv /\ [VpxNext]_vpxVars =>
        [\A c \in AllCallers : stage[c] # "idle" /\ VpxStep(c) =>
           StepsLeft(c)' \in 0..(StepsLeft(c) - 1)]_vpxVars
  BY <1>1
<1> QED BY <1>2, VpxInvAlways, PTL DEF VpxSpec, NearerTheEnd

-------------------------------------------------------------------------------
(* The pins.                                                                   *)

Writes == [reg : Regs, on : SUBSET Pins, off : SUBSET Pins]

\* Writes that do not touch a bit, and writes that do not clear a pin's direction.
Avoids(r, n) == {x \in Writes : x.reg = r => n \notin x.on /\ n \notin x.off}
KeepsOut(n)  == {x \in Writes : x.reg = "dir" => n \in x.on \/ n \notin x.off}

\* The value of a bit when an actor has done the writes w: what the last one that touches it
\* makes of it.
Touches(x, r, n) == x.reg = r /\ (n \in x.on \/ n \in x.off)
WillBe(w, r, n) ==
  \/ \E k \in 1..Len(w) :
       /\ Touches(w[k], r, n) /\ n \in w[k].on
       /\ \A j \in 1..Len(w) : j > k => ~Touches(w[j], r, n)
  \/ (\A k \in 1..Len(w) : ~Touches(w[k], r, n)) /\ n \in reg[r]

\* Doing the first of the writes changes nothing about what will be.
LEMMA WriteKeepsPromise ==
  ASSUME NEW w \in Seq(Writes), w # <<>>, NEW n, NEW r \in Regs,
         reg \in [Regs -> SUBSET Pins],
         reg' = [reg EXCEPT ![Head(w).reg] = Apply(reg[Head(w).reg], Head(w))]
  PROVE  WillBe(Tail(w), r, n)' <=> WillBe(w, r, n)
<1> DEFINE t == Tail(w)
<1>1. /\ Len(w) \in Nat /\ Len(w) >= 1 /\ Len(t) = Len(w) - 1 /\ Head(w) = w[1]
      /\ \A k \in 1..(Len(w) - 1) : t[k] = w[k + 1]
      /\ w[1] \in Writes
  OBVIOUS
<1>2. n \in reg'[r] <=> IF Touches(w[1], r, n) THEN n \in w[1].on ELSE n \in reg[r]
  <2>1. w[1].reg \in Regs
    BY <1>1 DEF Writes
  <2>2. reg'[r] = IF r = w[1].reg THEN (reg[r] \ w[1].off) \cup w[1].on ELSE reg[r]
    BY <1>1, <2>1 DEF Apply
  <2> QED BY <2>2 DEF Touches
<1> HIDE DEF t
<1>3. CASE \A k \in 1..Len(t) : ~Touches(t[k], r, n)
  <2>1. \A j \in 1..Len(w) : j > 1 => ~Touches(w[j], r, n)
    <3> SUFFICES ASSUME NEW j \in 1..Len(w), j > 1 PROVE ~Touches(w[j], r, n)
      OBVIOUS
    <3>1. j - 1 \in 1..Len(t) /\ w[(j - 1) + 1] = w[j] /\ j - 1 \in 1..(Len(w) - 1)
      BY <1>1
    <3> QED BY <1>1, <1>3, <3>1
  <2>2. WillBe(t, r, n)' <=> n \in reg'[r]
    BY <1>3 DEF WillBe, Touches
  <2>3. WillBe(w, r, n) <=> IF Touches(w[1], r, n) THEN n \in w[1].on ELSE n \in reg[r]
    BY <1>1, <2>1 DEF WillBe
  <2> QED BY <1>2, <2>2, <2>3 DEF t
<1>4. CASE \E k \in 1..Len(t) : Touches(t[k], r, n)
  <2>1. WillBe(t, r, n)' <=>
          \E k \in 1..Len(t) : /\ Touches(t[k], r, n) /\ n \in t[k].on
                               /\ \A j \in 1..Len(t) : j > k => ~Touches(t[j], r, n)
    BY <1>4 DEF WillBe, Touches
  <2>2. PICK m \in 1..Len(t) : Touches(t[m], r, n)
    BY <1>4
  <2>3. m + 1 \in 1..Len(w) /\ Touches(w[m + 1], r, n) /\ m + 1 > 1
    BY <1>1, <2>2
  <2>4. WillBe(w, r, n) <=>
          \E k \in 1..Len(w) : /\ Touches(w[k], r, n) /\ n \in w[k].on
                               /\ \A j \in 1..Len(w) : j > k => ~Touches(w[j], r, n)
    BY <2>3 DEF WillBe
  <2>5. ASSUME NEW k \in 1..Len(t), Touches(t[k], r, n), n \in t[k].on,
               \A j \in 1..Len(t) : j > k => ~Touches(t[j], r, n)
        PROVE  \E i \in 1..Len(w) : /\ Touches(w[i], r, n) /\ n \in w[i].on
                                    /\ \A j \in 1..Len(w) : j > i => ~Touches(w[j], r, n)
    <3>1. k + 1 \in 1..Len(w) /\ w[k + 1] = t[k]
      BY <1>1
    <3>2. ASSUME NEW j \in 1..Len(w), j > k + 1 PROVE ~Touches(w[j], r, n)
      <4>1. j - 1 \in 1..Len(t) /\ j - 1 > k /\ w[(j - 1) + 1] = w[j] /\ j - 1 \in 1..(Len(w) - 1)
        BY <1>1, <3>2
      <4> QED BY <1>1, <2>5, <4>1
    <3> QED BY <2>5, <3>1, <3>2
  <2>6. ASSUME NEW i \in 1..Len(w), Touches(w[i], r, n), n \in w[i].on,
               \A j \in 1..Len(w) : j > i => ~Touches(w[j], r, n)
        PROVE  \E k \in 1..Len(t) : /\ Touches(t[k], r, n) /\ n \in t[k].on
                                    /\ \A j \in 1..Len(t) : j > k => ~Touches(t[j], r, n)
    <3>1. i >= m + 1
      BY <2>3, <2>6
    <3>2. i - 1 \in 1..Len(t) /\ t[i - 1] = w[i]
      <4>1. i - 1 \in 1..(Len(w) - 1) /\ (i - 1) + 1 = i
        BY <1>1, <2>2, <3>1
      <4> QED BY <1>1, <4>1
    <3>3. ASSUME NEW j \in 1..Len(t), j > i - 1 PROVE ~Touches(t[j], r, n)
      <4>1. j + 1 \in 1..Len(w) /\ j + 1 > i /\ t[j] = w[j + 1]
        BY <1>1, <3>3
      <4> QED BY <2>6, <4>1
    <3> QED BY <2>6, <3>2, <3>3
  <2> QED BY <2>1, <2>4, <2>5, <2>6 DEF t
<1> QED BY <1>3, <1>4

\* Writes that avoid a bit leave it.
LEMMA AvoidedStays ==
  ASSUME NEW r, NEW n, NEW w \in Seq(Avoids(r, n))
  PROVE  WillBe(w, r, n) <=> n \in reg[r]
<1>1. \A k \in 1..Len(w) : ~Touches(w[k], r, n)
  BY DEF Avoids, Touches
<1> QED BY <1>1 DEF WillBe

\* Without a write a bit is what it is.
LEMMA NothingToDo == ASSUME NEW r, NEW n PROVE WillBe(<<>>, r, n) <=> n \in reg[r]
BY DEF WillBe

\* One or two writes of single pins.
LEMMA OneWrite ==
  ASSUME NEW x, NEW r, NEW n
  PROVE  WillBe(<<x>>, r, n) <=> IF Touches(x, r, n) THEN n \in x.on ELSE n \in reg[r]
BY DEF WillBe

LEMMA TwoWrites ==
  ASSUME NEW x, NEW y, NEW r, NEW n
  PROVE  WillBe(<<x, y>>, r, n) <=>
           IF Touches(y, r, n) THEN n \in y.on
           ELSE IF Touches(x, r, n) THEN n \in x.on ELSE n \in reg[r]
<1>1. Len(<<x, y>>) = 2 /\ <<x, y>>[1] = x /\ <<x, y>>[2] = y
  OBVIOUS
<1>2. \A k : k \in 1..2 <=> k = 1 \/ k = 2
  OBVIOUS
<1> DEFINE w == <<x, y>>
<1> HIDE DEF w
<1>3. Len(w) = 2 /\ w[1] = x /\ w[2] = y
  BY <1>1 DEF w
<1>4. WillBe(w, r, n) <=>
        IF Touches(y, r, n) THEN n \in y.on
        ELSE IF Touches(x, r, n) THEN n \in x.on ELSE n \in reg[r]
  BY <1>2, <1>3 DEF WillBe
<1> QED BY <1>4 DEF w

\* The bits an operation's writes are of.
LEMMA BitAvoids ==
  ASSUME NEW q \in Regs, NEW pin \in Pins, NEW v, NEW r, NEW n, r # q \/ n # pin
  PROVE  Bit(q, pin, v) \in Avoids(r, n)
BY DEF Bit, Bits, Avoids, Writes

LEMMA PinIsPin == ASSUME NEW b \in 0..5, NEW w \in Wires PROVE Pin(b, w) \in {1, 3, 17, 18, 22, 23, 26, 27}
<1>1. b \in {0, 1, 2, 3, 4, 5}
  OBVIOUS
<1> QED BY <1>1 DEF Pin

LEMMA WireAvoids ==
  ASSUME NEW b \in 0..5, NEW w \in Wires, NEW v \in Levels, NEW r, NEW n, n # Pin(b, w)
  PROVE  SetWire(b, w, v) \in Seq(Avoids(r, n)) /\ GetWire(b, w) \in Seq(Avoids(r, n))
<1>1. Pin(b, w) \in Pins /\ "dir" \in Regs /\ "out" \in Regs
  BY PinIsPin DEF Pins, Regs
<1>2. \A u : Bit("dir", Pin(b, w), u) \in Avoids(r, n) /\ Bit("out", Pin(b, w), u) \in Avoids(r, n)
  BY <1>1, BitAvoids
<1> QED BY <1>2 DEF SetWire, GetWire

LEMMA LineAvoids ==
  ASSUME NEW c, NEW l, NEW s, NEW r, NEW n,
         \/ n \notin 8..15
         \/ l \in {3, 4, 5} /\ n \notin 11..13
         \/ l \in OwnLines /\ n # LinePin(l)
         \/ l \notin 0..9
  PROVE  SetGpio(c, l, s) \in Seq(Avoids(r, n))
<1>0. "dir" \in Regs /\ "out" \in Regs /\ 8..15 \subseteq Pins
  BY DEF Regs, Pins
<1>1. \A u : \A q \in Regs, pin \in 8..15 : n # pin => Bit(q, pin, u) \in Avoids(r, n)
  BY <1>0, BitAvoids
<1>2. CASE c \notin {"MDP100", "MDP110"} \/ l \notin {0, 2, 3, 4, 5, 6, 8, 9}
  BY <1>2 DEF SetGpio
<1>3. CASE c \in {"MDP100", "MDP110"} /\ l \in {0, 2, 6, 8, 9}
  <2>1. n # LinePin(l)
    BY <1>3 DEF LinePin, OwnLines
  <2>2. CASE l = 0
    BY <1>0, <1>1, <1>3, <2>1, <2>2 DEF SetGpio, LinePin
  <2>3. CASE l = 2
    BY <1>0, <1>1, <1>3, <2>1, <2>3 DEF SetGpio, LinePin
  <2>4. CASE l = 6
    BY <1>0, <1>1, <1>3, <2>1, <2>4 DEF SetGpio, LinePin
  <2>5. CASE l = 8
    BY <1>0, <1>1, <1>3, <2>1, <2>5 DEF SetGpio, LinePin, Tristate
  <2>6. CASE l = 9
    BY <1>0, <1>1, <1>3, <2>1, <2>6 DEF SetGpio, LinePin, Tristate
  <2> QED BY <1>3, <2>2, <2>3, <2>4, <2>5, <2>6
<1>4. CASE c \in {"MDP100", "MDP110"} /\ l \in {3, 4, 5}
  <2>1. n \notin 11..13
    BY <1>4 DEF OwnLines
  <2>2. \A u : /\ Bit("out", 11, u) \in Avoids(r, n) /\ Bit("out", 12, u) \in Avoids(r, n)
               /\ Bit("out", 13, u) \in Avoids(r, n)
    BY <1>0, <1>1, <2>1
  <2>3. CASE l = 3
    BY <1>4, <2>2, <2>3 DEF SetGpio
  <2>4. CASE l = 4
    BY <1>4, <2>2, <2>4 DEF SetGpio
  <2>5. CASE l = 5
    BY <1>4, <2>2, <2>5 DEF SetGpio
  <2> QED BY <1>4, <2>3, <2>4, <2>5
<1> QED BY <1>2, <1>3, <1>4

\* A write that touches no other pin than it should is one that keeps directions.
LEMMA AvoidingKeepsOut == ASSUME NEW n PROVE Seq(Avoids("dir", n)) \subseteq Seq(KeepsOut(n))
<1>1. Avoids("dir", n) \subseteq KeepsOut(n)
  BY DEF Avoids, KeepsOut
<1>2. ASSUME NEW w \in Seq(Avoids("dir", n)) PROVE w \in Seq(KeepsOut(n))
  BY <1>1
<1> QED BY <1>2

LEMMA KeptOutStays ==
  ASSUME NEW n, NEW w \in Seq(KeepsOut(n)), n \in reg["dir"]
  PROVE  WillBe(w, "dir", n)
<1>1. \A k \in 1..Len(w) : Touches(w[k], "dir", n) => n \in w[k].on
  BY DEF KeepsOut, Touches
<1>2. CASE \A k \in 1..Len(w) : ~Touches(w[k], "dir", n)
  BY <1>2 DEF WillBe
<1>3. CASE \E k \in 1..Len(w) : Touches(w[k], "dir", n)
  <2> DEFINE left == {i \in Nat : Len(w) - i \in 1..Len(w) /\ Touches(w[Len(w) - i], "dir", n)}
  <2>1. Len(w) \in Nat
    OBVIOUS
  <2>2. PICK k \in 1..Len(w) : Touches(w[k], "dir", n)
    BY <1>3
  <2>3. Len(w) - k \in left
    BY <2>1, <2>2
  <2>4. PICK i \in left : \A j \in left : i <= j
    <3>1. left \subseteq Nat /\ left # {}
      BY <2>3
    <3> QED BY <3>1, LeastNatural
  <2>5. /\ Len(w) - i \in 1..Len(w) /\ Touches(w[Len(w) - i], "dir", n)
        /\ n \in w[Len(w) - i].on
    BY <1>1, <2>4
  <2>6. ASSUME NEW j \in 1..Len(w), j > Len(w) - i PROVE ~Touches(w[j], "dir", n)
    <3>1. Len(w) - j \in Nat /\ Len(w) - j < i /\ Len(w) - (Len(w) - j) = j
      BY <2>1, <2>4, <2>6
    <3>2. Touches(w[j], "dir", n) => Len(w) - j \in left
      BY <2>1, <3>1
    <3>3. i \in Nat
      BY <2>4
    <3> HIDE DEF left
    <3> QED BY <2>4, <3>1, <3>2, <3>3
  <2> HIDE DEF left
  <2> QED BY <2>5, <2>6 DEF WillBe
<1> QED BY <1>2, <1>3

\* The video port touches no line of its own and no wire of the buses apart.
LEMMA VipAvoids ==
  ASSUME NEW c, NEW mode, NEW r \in Regs, NEW n, n \notin 11..13,
         \/ r = "out"
         \/ n \notin VipPins /\ n \notin 17..19
  PROVE  SetVip(c, mode) \in Seq(Avoids(r, n))
<1>0. \A s, t \in Seq(Avoids(r, n)) : s \o t \in Seq(Avoids(r, n))
  OBVIOUS
<1>1. /\ SetGpio(c, 3, 1) \in Seq(Avoids(r, n)) /\ SetGpio(c, 4, 1) \in Seq(Avoids(r, n))
      /\ SetGpio(c, 3, 0) \in Seq(Avoids(r, n)) /\ SetGpio(c, 4, 0) \in Seq(Avoids(r, n))
  BY LineAvoids
<1>2. VipPins \in SUBSET Pins /\ 17..19 \in SUBSET Pins /\ "dir" \in Regs
  BY DEF VipPins, Pins, Regs
<1>3. VipIn(c) \in Avoids(r, n)
  BY <1>2 DEF VipIn, Bits, Avoids, Writes
<1>4. Bits("dir", VipPins, {}) \in Avoids(r, n)
  BY <1>2 DEF Bits, Avoids, Writes
<1>5. <<VipIn(c)>> \in Seq(Avoids(r, n)) /\ <<Bits("dir", VipPins, {})>> \in Seq(Avoids(r, n))
  BY <1>3, <1>4
<1> QED BY <1>0, <1>1, <1>5 DEF SetVip

\* On the MDP-110 it leaves the pins of bus 1 outputs.
LEMMA VipKeepsOut ==
  ASSUME NEW mode, NEW n \in 17..18
  PROVE  SetVip("MDP110", mode) \in Seq(KeepsOut(n))
<1>0. \A s, t \in Seq(KeepsOut(n)) : s \o t \in Seq(KeepsOut(n))
  OBVIOUS
<1>1. /\ SetGpio("MDP110", 3, 1) \in Seq(KeepsOut(n)) /\ SetGpio("MDP110", 4, 1) \in Seq(KeepsOut(n))
      /\ SetGpio("MDP110", 3, 0) \in Seq(KeepsOut(n))
  <2>1. n \notin 8..15
    OBVIOUS
  <2> QED BY <2>1, LineAvoids, AvoidingKeepsOut
<1>2. VipIn("MDP110") \in KeepsOut(n)
  <2>1. VipPins \in SUBSET Pins /\ 17..19 \in SUBSET Pins /\ "dir" \in Regs
    BY DEF VipPins, Pins, Regs
  <2> QED BY <2>1 DEF VipIn, Bits, KeepsOut, Writes
<1>3. <<VipIn("MDP110")>> \in Seq(KeepsOut(n)) /\ <<>> \in Seq(KeepsOut(n))
  BY <1>2
<1> QED BY <1>0, <1>1, <1>3 DEF SetVip

\* When an actor has done the writes w, a wire is low where its bus left it low, a line is
\* as it was set, and the pins that nothing makes outputs again still are.
WillBeLow(w, b, x) == WillBe(w, "dir", Pin(b, x)) /\ ~WillBe(w, "out", Pin(b, x))
WiresWill(w, wires) ==
  \A b \in Buses(card), x \in Wires :
    Apart(card, b) => (WillBeLow(w, b, x) <=> wires[<<b, x>>] = 0)
LineIs(w, l, s) ==
  \/ s = 3
  \/ s = 2 /\ l \in {8, 9} /\ ~WillBe(w, "dir", LinePin(l))
  \/ /\ s # 3 /\ ~(s = 2 /\ l \in {8, 9})
     /\ WillBe(w, "dir", LinePin(l)) /\ (WillBe(w, "out", LinePin(l)) <=> s = 1)
LinesWill(w, lines) == \A l \in Lines \cap OwnLines : LineIs(w, l, lines[l])
OutputsWill(w) ==
  /\ card = "MDP110" => WillBe(w, "dir", 17) /\ WillBe(w, "dir", 18)
  /\ card \in {"MDP100", "MDP110"} => WillBe(w, "dir", 8) /\ WillBe(w, "dir", 10)
Settles(w, wires, lines) == WiresWill(w, wires) /\ LinesWill(w, lines) /\ OutputsWill(w)

\* On one processor one operation is under way at a time, it has read what the register
\* still holds, and what it has begun is what it will end in.
OneAtATime == \A a, b \in Actors : a # b => todo[a] = <<>> \/ todo[b] = <<>>
GotIsFresh == \A a \in Actors : got[a] # None => todo[a] # <<>> /\ got[a] = reg[Head(todo[a]).reg]
Promise ==
  \A a \in Actors : (\A b \in Actors \ {a} : todo[b] = <<>>) => Settles(todo[a], wire, line)

GpioInv == GpioTypeOK /\ (~SMP => OneAtATime /\ GotIsFresh /\ Promise)

LEMMA CardFacts ==
  /\ card \in Cards => card \in {"MDP100", "MDP110", "MDP120", "WINTV", "HIPIX"}
  /\ \A b \in Buses(card), x \in Wires :
       card \in Cards => /\ b \in 0..5 /\ Pin(b, x) \in Pins /\ Pin(b, x) \notin 8..15
                         /\ Apart(card, b) =>
                              \/ Pin(b, x) \in 26..27
                              \/ b = 1 /\ card = "MDP110" /\ Pin(b, x) \in 17..18
<1>1. card \in Cards => card \in {"MDP100", "MDP110", "MDP120", "WINTV", "HIPIX"}
  BY CardsAssumption
<1>2. ASSUME card \in Cards, NEW b \in Buses(card), NEW x \in Wires
      PROVE  /\ b \in {0, 1, 2, 3, 4, 5}
             /\ Pin(b, x) \in {1, 3, 17, 18, 22, 23, 26, 27}
             /\ Apart(card, b) =>
                  \/ Pin(b, x) \in {26, 27}
                  \/ b = 1 /\ card = "MDP110" /\ Pin(b, x) \in {17, 18}
  <2>1. b \in {0, 1, 2, 3, 4, 5}
    BY <1>1, <1>2 DEF Buses
  <2> QED BY <1>2, <2>1 DEF Pin, Apart
<1> QED BY <1>1, <1>2 DEF Pins

\* Two wires of a card have two pins.
LEMMA WiresApart ==
  ASSUME card \in Cards, NEW b \in Buses(card), NEW x \in Wires,
         NEW c \in Buses(card), NEW y \in Wires, b # c \/ x # y
  PROVE  Pin(b, x) # Pin(c, y)
<1>1. card \in {"MDP100", "MDP110", "MDP120", "WINTV", "HIPIX"}
  BY CardsAssumption
<1>2. \/ b \in {0, 1, 2} /\ c \in {0, 1, 2}
      \/ b \in {3, 4} /\ c \in {3, 4}
      \/ b = 5 /\ c = 5
  BY <1>1 DEF Buses
<1>3. x \in {"scl", "sda"} /\ y \in {"scl", "sda"}
  BY DEF Wires
<1> QED BY <1>2, <1>3 DEF Pin

\* An operation that finds every other at its end.
AtRest == Settles(<<>>, wire, line)

LEMMA RestFacts ==
  ASSUME AtRest
  PROVE  /\ \A b \in Buses(card), x \in Wires :
              Apart(card, b) =>
                ((Pin(b, x) \in reg["dir"] /\ Pin(b, x) \notin reg["out"]) <=> wire[<<b, x>>] = 0)
         /\ \A l \in Lines \cap OwnLines :
              \/ line[l] = 3
              \/ line[l] = 2 /\ l \in {8, 9} /\ LinePin(l) \notin reg["dir"]
              \/ /\ line[l] # 3 /\ ~(line[l] = 2 /\ l \in {8, 9})
                 /\ LinePin(l) \in reg["dir"] /\ (LinePin(l) \in reg["out"] <=> line[l] = 1)
         /\ card = "MDP110" => 17 \in reg["dir"] /\ 18 \in reg["dir"]
         /\ card \in {"MDP100", "MDP110"} => 8 \in reg["dir"] /\ 10 \in reg["dir"]
BY NothingToDo DEF AtRest, Settles, WiresWill, WillBeLow, LinesWill, LineIs, OutputsWill

\* What a bus does to its wire, the others staying as they are.
LEMMA BusSettles ==
  ASSUME GpioTypeOK, AtRest, NEW b \in Buses(card), NEW x \in Wires, NEW w,
         \/ \E v \in Levels : w = SetWire(b, x, v) /\ wire' = [wire EXCEPT ![<<b, x>>] = v]
         \/ w = GetWire(b, x) /\ w # <<>> /\ wire' = [wire EXCEPT ![<<b, x>>] = 1]
  PROVE  Settles(w, wire', line)
<1> DEFINE pin == Pin(b, x)
<1>0. /\ card \in Cards /\ b \in 0..5 /\ pin \in Pins /\ pin \notin 8..15
      /\ wire \in [(0..5) \X Wires -> Levels]
  BY CardFacts DEF GpioTypeOK
<1>1. \A r, n : n # pin => w \in Seq(Avoids(r, n))
  BY <1>0, WireAvoids
<1>2. \A r, n : n # pin => (WillBe(w, r, n) <=> n \in reg[r])
  BY <1>1, AvoidedStays
<1>3. /\ wire'[<<b, x>>] \in Levels
      /\ \A c \in 0..5, y \in Wires : b # c \/ x # y => wire'[<<c, y>>] = wire[<<c, y>>]
      /\ \A v : wire' = [wire EXCEPT ![<<b, x>>] = v] => wire'[<<b, x>>] = v
  BY <1>0 DEF Levels
<1>4. Apart(card, b) => (WillBeLow(w, b, x) <=> wire'[<<b, x>>] = 0)
  <2>1. Apart(card, b) => b \in {0, 1, 4, 5} /\ (b = 1 => card = "MDP110")
    BY <1>0 DEF Apart
  <2>2. b = 1 /\ x = "sda" => pin = 17
    BY DEF Pin
  <2>3. CASE w = GetWire(b, x) /\ w # <<>> /\ wire' = [wire EXCEPT ![<<b, x>>] = 1]
    <3>1. w = <<Bit("dir", pin, 0)>>
      BY <2>3 DEF GetWire
    <3>2. ~WillBe(w, "dir", pin)
      BY <3>1, OneWrite DEF Bit, Bits, Touches
    <3>3. wire'[<<b, x>>] = 1
      BY <1>3, <2>3
    <3> QED BY <3>2, <3>3 DEF WillBeLow
  <2>4. ASSUME NEW v \in Levels, w = SetWire(b, x, v), wire' = [wire EXCEPT ![<<b, x>>] = v],
               Apart(card, b)
        PROVE  WillBeLow(w, b, x) <=> v = 0
    <3>1. v \in {0, 1}
      BY DEF Levels
    <3>2. CASE b = 0
      <4>1. w = <<Bit("out", pin, 0), Bit("dir", pin, 1 - v)>>
        BY <2>4, <3>2 DEF SetWire
      <4>2. WillBe(w, "dir", pin) <=> v = 0
        BY <3>1, <4>1, TwoWrites DEF Bit, Bits, Touches
      <4>3. ~WillBe(w, "out", pin)
        BY <3>1, <4>1, TwoWrites DEF Bit, Bits, Touches
      <4> QED BY <4>2, <4>3 DEF WillBeLow
    <3>3. CASE b = 1 /\ x = "sda"
      <4>1. w = <<Bit("out", pin, v)>>
        BY <2>4, <3>3 DEF SetWire
      <4>2. WillBe(w, "dir", pin)
        <5>1. pin \in reg["dir"]
          BY <2>1, <2>2, <2>4, <3>3, RestFacts
        <5> QED BY <4>1, <5>1, OneWrite DEF Bit, Bits, Touches
      <4>3. WillBe(w, "out", pin) <=> v = 1
        BY <3>1, <4>1, OneWrite DEF Bit, Bits, Touches
      <4> QED BY <3>1, <4>2, <4>3 DEF WillBeLow
    <3>4. CASE b \in {1, 4, 5} /\ ~(b = 1 /\ x = "sda")
      <4>1. w = <<Bit("dir", pin, 1), Bit("out", pin, v)>>
        BY <2>4, <3>4 DEF SetWire
      <4>2. WillBe(w, "dir", pin)
        BY <4>1, TwoWrites DEF Bit, Bits, Touches
      <4>3. WillBe(w, "out", pin) <=> v = 1
        BY <3>1, <4>1, TwoWrites DEF Bit, Bits, Touches
      <4> QED BY <3>1, <4>2, <4>3 DEF WillBeLow
    <3> QED BY <2>1, <2>4, <3>2, <3>3, <3>4
  <2> QED BY <1>3, <2>3, <2>4
<1>5. WiresWill(w, wire')
  <2> SUFFICES ASSUME NEW c \in Buses(card), NEW y \in Wires, Apart(card, c)
               PROVE  WillBeLow(w, c, y) <=> wire'[<<c, y>>] = 0
    BY DEF WiresWill
  <2>1. CASE c = b /\ y = x
    BY <1>4, <2>1
  <2>2. CASE c # b \/ y # x
    <3>1. Pin(c, y) # pin /\ c \in 0..5
      BY <1>0, <2>2, WiresApart, CardFacts
    <3>2. WillBeLow(w, c, y) <=> Pin(c, y) \in reg["dir"] /\ Pin(c, y) \notin reg["out"]
      BY <1>2, <3>1 DEF WillBeLow
    <3> QED BY <1>3, <2>2, <3>1, <3>2, RestFacts
  <2> QED BY <2>1, <2>2
<1>6. LinesWill(w, line)
  <2> SUFFICES ASSUME NEW l \in Lines \cap OwnLines PROVE LineIs(w, l, line[l])
    BY DEF LinesWill
  <2>1. LinePin(l) # pin
    BY <1>0 DEF LinePin, OwnLines
  <2>2. /\ WillBe(w, "dir", LinePin(l)) <=> LinePin(l) \in reg["dir"]
        /\ WillBe(w, "out", LinePin(l)) <=> LinePin(l) \in reg["out"]
    BY <1>2, <2>1
  <2> QED BY <2>2, RestFacts DEF LineIs
<1>7. OutputsWill(w)
  <2>1. card \in {"MDP100", "MDP110"} => WillBe(w, "dir", 8) /\ WillBe(w, "dir", 10)
    BY <1>0, <1>2, RestFacts
  <2>2. ASSUME card = "MDP110", NEW n \in 17..18 PROVE WillBe(w, "dir", n)
    <3>1. n \in reg["dir"]
      BY <2>2, RestFacts
    <3>2. CASE n # pin
      BY <1>2, <3>1, <3>2
    <3>3. CASE n = pin
      <4>1. b \in {0, 1, 2}
        BY <2>2 DEF Buses
      <4>2. b = 1 /\ (x = "sda" \/ x = "scl")
        BY <3>3, <4>1 DEF Pin, Wires
      <4>3. GetWire(b, x) = <<>>
        BY <4>2 DEF GetWire
      <4>4. PICK v \in Levels : w = SetWire(b, x, v)
        BY <4>3
      <4>5. CASE x = "sda"
        <5>1. w = <<Bit("out", pin, v)>>
          BY <4>2, <4>4, <4>5 DEF SetWire
        <5> QED BY <3>1, <5>1, OneWrite DEF Bit, Bits, Touches
      <4>6. CASE x = "scl"
        <5>1. w = <<Bit("dir", pin, 1), Bit("out", pin, v)>>
          BY <4>2, <4>4, <4>6 DEF SetWire
        <5> QED BY <3>3, <5>1, TwoWrites DEF Bit, Bits, Touches
      <4> QED BY <4>2, <4>5, <4>6
    <3> QED BY <3>2, <3>3
  <2> QED BY <2>1, <2>2 DEF OutputsWill
<1> QED BY <1>5, <1>6, <1>7 DEF Settles

\* What the user does to a line, and to the video port.
LEMMA LineSettles ==
  ASSUME GpioTypeOK, AtRest, NEW l \in Lines, NEW s \in 0..2, NEW w, w = SetGpio(card, l, s),
         line' = IF l \in OwnLines /\ w # <<>> THEN [line EXCEPT ![l] = s] ELSE line
  PROVE  Settles(w, wire, line')
<1>0. card \in Cards /\ line \in [0..9 -> 0..3] /\ l \in 0..9 /\ s \in {0, 1, 2}
  BY LinesAssumption DEF GpioTypeOK
<1>1. /\ \A r, n : n \notin 8..15 => w \in Seq(Avoids(r, n))
      /\ \A r, n : l \in OwnLines /\ n # LinePin(l) => w \in Seq(Avoids(r, n))
      /\ \A r, n : l \notin OwnLines /\ n \notin 11..13 => w \in Seq(Avoids(r, n))
  <2>1. l \notin OwnLines => l \in {1, 3, 4, 5, 7}
    BY <1>0 DEF OwnLines
  <2>2. l \in {1, 7} => w = <<>>
    BY DEF SetGpio
  <2>3. \A r, n : <<>> \in Seq(Avoids(r, n))
    OBVIOUS
  <2> QED BY <2>1, <2>2, <2>3, LineAvoids
<1>2. /\ \A r, n : n \notin 8..15 => (WillBe(w, r, n) <=> n \in reg[r])
      /\ \A r, n : l \in OwnLines /\ n # LinePin(l) => (WillBe(w, r, n) <=> n \in reg[r])
      /\ \A r, n : l \notin OwnLines /\ n \notin 11..13 => (WillBe(w, r, n) <=> n \in reg[r])
  BY <1>1, AvoidedStays
<1>3. WiresWill(w, wire)
  <2> SUFFICES ASSUME NEW c \in Buses(card), NEW y \in Wires, Apart(card, c)
               PROVE  WillBeLow(w, c, y) <=> wire[<<c, y>>] = 0
    BY DEF WiresWill
  <2>1. Pin(c, y) \notin 8..15
    BY <1>0, CardFacts
  <2>2. WillBeLow(w, c, y) <=> Pin(c, y) \in reg["dir"] /\ Pin(c, y) \notin reg["out"]
    BY <1>2, <2>1 DEF WillBeLow
  <2> QED BY <2>2, RestFacts
<1>4. /\ \A m \in Lines \cap OwnLines : m # l => line'[m] = line[m]
      /\ l \in OwnLines /\ w # <<>> => line'[l] = s
      /\ ~(l \in OwnLines /\ w # <<>>) => line' = line
  BY <1>0
<1>5. ASSUME l \in OwnLines, w # <<>> PROVE LineIs(w, l, s)
  <2>1. card \in {"MDP100", "MDP110"} /\ l \in {0, 2, 6, 8, 9}
    BY <1>5 DEF SetGpio, OwnLines
  <2>2. s % 2 = (IF s = 1 THEN 1 ELSE 0)
    BY <1>0
  <2>3. CASE l \in {0, 2}
    <3>1. w = <<Bit("out", LinePin(l), s % 2)>>
      BY <2>1, <2>3 DEF SetGpio, LinePin
    <3>2. LinePin(l) \in reg["dir"]
      BY <2>1, <2>3, RestFacts DEF LinePin
    <3>3. WillBe(w, "dir", LinePin(l))
      BY <3>1, <3>2, OneWrite DEF Bit, Bits, Touches
    <3>4. WillBe(w, "out", LinePin(l)) <=> s = 1
      BY <2>2, <3>1, OneWrite DEF Bit, Bits, Touches
    <3> QED BY <1>0, <2>3, <3>3, <3>4 DEF LineIs
  <2>4. CASE l = 6 \/ (l \in {8, 9} /\ s # 2)
    <3>1. w = <<Bit("dir", LinePin(l), 1), Bit("out", LinePin(l), s % 2)>>
      <4>1. CASE l = 6
        BY <2>1, <4>1 DEF SetGpio, LinePin
      <4>2. CASE l \in {8, 9} /\ s # 2
        <5>1. s \in Levels /\ s % 2 = s
          BY <1>0, <4>2 DEF Levels
        <5> QED BY <2>1, <4>2, <5>1 DEF SetGpio, LinePin, Tristate
      <4> QED BY <2>4, <4>1, <4>2
    <3>2. WillBe(w, "dir", LinePin(l))
      BY <3>1, TwoWrites DEF Bit, Bits, Touches
    <3>3. WillBe(w, "out", LinePin(l)) <=> s = 1
      BY <2>2, <3>1, TwoWrites DEF Bit, Bits, Touches
    <3> QED BY <1>0, <2>4, <3>2, <3>3 DEF LineIs
  <2>5. CASE l \in {8, 9} /\ s = 2
    <3>1. w = <<Bit("dir", LinePin(l), 0)>>
      BY <2>1, <2>5 DEF SetGpio, LinePin, Tristate, Levels
    <3>2. ~WillBe(w, "dir", LinePin(l))
      BY <3>1, OneWrite DEF Bit, Bits, Touches
    <3> QED BY <2>5, <3>2 DEF LineIs
  <2> QED BY <2>1, <2>3, <2>4, <2>5
<1>6. LinesWill(w, line')
  <2> SUFFICES ASSUME NEW m \in Lines \cap OwnLines PROVE LineIs(w, m, line'[m])
    BY DEF LinesWill
  <2>1. CASE m = l /\ w # <<>>
    BY <1>4, <1>5, <2>1
  <2>2. CASE m # l \/ w = <<>>
    <3>1. line'[m] = line[m]
      BY <1>4, <2>2
    <3>2. /\ WillBe(w, "dir", LinePin(m)) <=> LinePin(m) \in reg["dir"]
          /\ WillBe(w, "out", LinePin(m)) <=> LinePin(m) \in reg["out"]
      <4>1. CASE w = <<>>
        BY <4>1, NothingToDo
      <4>2. CASE m # l /\ l \in OwnLines
        <5>1. LinePin(m) # LinePin(l)
          BY <4>2 DEF OwnLines, LinePin
        <5> QED BY <1>2, <4>2, <5>1
      <4>3. CASE l \notin OwnLines
        <5>1. LinePin(m) \notin 11..13
          BY DEF OwnLines, LinePin
        <5> QED BY <1>2, <4>3, <5>1
      <4> QED BY <2>2, <4>1, <4>2, <4>3
    <3> QED BY <3>1, <3>2, RestFacts DEF LineIs
  <2> QED BY <2>1, <2>2
<1>7. OutputsWill(w)
  <2>1. card = "MDP110" => WillBe(w, "dir", 17) /\ WillBe(w, "dir", 18)
    BY <1>2, RestFacts
  <2>2. ASSUME card \in {"MDP100", "MDP110"} PROVE WillBe(w, "dir", 8) /\ WillBe(w, "dir", 10)
    <3>1. 8 \in reg["dir"] /\ 10 \in reg["dir"]
      BY <2>2, RestFacts
    <3>2. CASE l \notin {0, 2}
      <4>1. l \in OwnLines => LinePin(l) # 8 /\ LinePin(l) # 10
        BY <3>2 DEF OwnLines, LinePin
      <4> QED BY <1>2, <3>1, <4>1
    <3>3. CASE l = 0
      <4>1. w = <<Bit("out", 8, s % 2)>>
        BY <2>2, <3>3 DEF SetGpio
      <4> QED BY <3>1, <4>1, OneWrite DEF Bit, Bits, Touches
    <3>4. CASE l = 2
      <4>1. w = <<Bit("out", 10, s % 2)>>
        BY <2>2, <3>4 DEF SetGpio
      <4> QED BY <3>1, <4>1, OneWrite DEF Bit, Bits, Touches
    <3> QED BY <3>2, <3>3, <3>4
  <2> QED BY <2>1, <2>2 DEF OutputsWill
<1> QED BY <1>3, <1>6, <1>7 DEF Settles

LEMMA VipSettles ==
  ASSUME GpioTypeOK, AtRest, NEW mode \in 0..2, NEW w, w = SetVip(card, mode)
  PROVE  Settles(w, wire, line)
<1>0. card \in Cards /\ "dir" \in Regs /\ "out" \in Regs
  BY DEF GpioTypeOK, Regs
<1>1. /\ \A n : n \notin 11..13 => (WillBe(w, "out", n) <=> n \in reg["out"])
      /\ \A n : n \notin 11..13 /\ n \notin VipPins /\ n \notin 17..19 =>
           (WillBe(w, "dir", n) <=> n \in reg["dir"])
  BY <1>0, VipAvoids, AvoidedStays
<1>2. ASSUME card = "MDP110", NEW n \in 17..18 PROVE WillBe(w, "dir", n) /\ n \in reg["dir"]
  <2>1. n \in reg["dir"]
    BY <1>2, RestFacts
  <2> QED BY <1>2, <2>1, VipKeepsOut, KeptOutStays
<1>3. WiresWill(w, wire)
  <2> SUFFICES ASSUME NEW c \in Buses(card), NEW y \in Wires, Apart(card, c)
               PROVE  WillBeLow(w, c, y) <=> wire[<<c, y>>] = 0
    BY DEF WiresWill
  <2>1. \/ Pin(c, y) \in 26..27
        \/ card = "MDP110" /\ Pin(c, y) \in 17..18
    BY <1>0, CardFacts
  <2>2. /\ WillBe(w, "out", Pin(c, y)) <=> Pin(c, y) \in reg["out"]
        /\ WillBe(w, "dir", Pin(c, y)) <=> Pin(c, y) \in reg["dir"]
    <3>1. CASE Pin(c, y) \in 26..27
      <4>1. \A n \in 26..27 : n \notin 11..13 /\ n \notin VipPins /\ n \notin 17..19
        BY DEF VipPins
      <4> QED BY <1>1, <3>1, <4>1
    <3>2. CASE card = "MDP110" /\ Pin(c, y) \in 17..18
      <4>1. \A n \in 17..18 : n \notin 11..13
        OBVIOUS
      <4> QED BY <1>1, <1>2, <3>2, <4>1
    <3> QED BY <2>1, <3>1, <3>2
  <2> QED BY <2>2, RestFacts DEF WillBeLow
<1>4. LinesWill(w, line)
  <2> SUFFICES ASSUME NEW l \in Lines \cap OwnLines PROVE LineIs(w, l, line[l])
    BY DEF LinesWill
  <2>1. LinePin(l) \in {8, 9, 10, 14, 15}
    BY DEF OwnLines, LinePin
  <2>2. LinePin(l) \notin 11..13 /\ LinePin(l) \notin VipPins /\ LinePin(l) \notin 17..19
    BY <2>1 DEF VipPins
  <2> QED BY <1>1, <2>2, RestFacts DEF LineIs
<1>5. OutputsWill(w)
  <2>1. \A n \in {8, 10} : n \notin 11..13 /\ n \notin VipPins /\ n \notin 17..19
    BY DEF VipPins
  <2> QED BY <1>1, <1>2, <2>1, RestFacts DEF OutputsWill
<1> QED BY <1>3, <1>4, <1>5 DEF Settles

\* The operations' writes are writes.
LEMMA SequencesAreWrites ==
  /\ \A b \in 0..5, x \in Wires, v \in Levels :
       SetWire(b, x, v) \in Seq(Writes) /\ GetWire(b, x) \in Seq(Writes)
  /\ \A l, s : SetGpio(card, l, s) \in Seq(Writes)
  /\ \A mode : SetVip(card, mode) \in Seq(Writes)
<1>0. \A r, n : Avoids(r, n) \subseteq Writes
  BY DEF Avoids
<1>1. \A r, n, w : w \in Seq(Avoids(r, n)) => w \in Seq(Writes)
  BY <1>0
<1>2. ASSUME NEW b \in 0..5, NEW x \in Wires, NEW v \in Levels
      PROVE  SetWire(b, x, v) \in Seq(Writes) /\ GetWire(b, x) \in Seq(Writes)
  <2>1. 0 # Pin(b, x)
    BY PinIsPin
  <2>2. SetWire(b, x, v) \in Seq(Avoids("dir", 0)) /\ GetWire(b, x) \in Seq(Avoids("dir", 0))
    BY <2>1, WireAvoids
  <2> QED BY <1>1, <2>2
<1>3. ASSUME NEW l, NEW s PROVE SetGpio(card, l, s) \in Seq(Writes)
  <2>1. 0 \notin 8..15
    OBVIOUS
  <2> QED BY <1>1, <2>1, LineAvoids
<1>4. ASSUME NEW mode PROVE SetVip(card, mode) \in Seq(Writes)
  <2>1. "out" \in Regs /\ 0 \notin 11..13
    BY DEF Regs
  <2> QED BY <1>1, <2>1, VipAvoids
<1> QED BY <1>2, <1>3, <1>4

LEMMA GpioInvInit == GpioInit => GpioInv
<1> SUFFICES ASSUME GpioInit PROVE GpioInv
  OBVIOUS
<1>0. /\ card \in Cards /\ card \in {"MDP100", "MDP110", "MDP120", "WINTV", "HIPIX"}
      /\ reg = [r \in Regs |-> IF r = "dir" THEN DirAfterInit(card) ELSE OutAfterInit(card)]
      /\ todo = [a \in Actors |-> <<>>] /\ got = [a \in Actors |-> None]
      /\ wire = [x \in (0..5) \X Wires |-> 1] /\ line = [l \in 0..9 |-> 3]
  BY CardsAssumption DEF GpioInit
<1>1. reg["dir"] = DirAfterInit(card) /\ reg["out"] = OutAfterInit(card)
  BY <1>0 DEF Regs
<1>2. DirAfterInit(card) \in SUBSET Pins /\ OutAfterInit(card) \in SUBSET Pins
  <2>1. DirAfterInit(card) \in SUBSET Pins
    BY <1>0 DEF DirAfterInit, Pins, VipPins
  <2>2. OutAfterInit(card) \in SUBSET Pins
    BY <1>0 DEF OutAfterInit, Pins
  <2> QED BY <2>1, <2>2
<1>3. GpioTypeOK
  <2>1. reg \in [Regs -> SUBSET Pins]
    BY <1>0, <1>2
  <2>2. /\ todo \in [Actors -> Seq([reg : Regs, on : SUBSET Pins, off : SUBSET Pins])]
        /\ wire \in [(0..5) \X Wires -> Levels] /\ line \in [0..9 -> 0..3]
    BY <1>0 DEF Levels
  <2> QED BY <1>0, <2>1, <2>2 DEF GpioTypeOK
<1>4. OneAtATime /\ GotIsFresh
  BY <1>0 DEF OneAtATime, GotIsFresh
<1>5. AtRest
  <2>1. WiresWill(<<>>, wire)
    <3> SUFFICES ASSUME NEW c \in Buses(card), NEW y \in Wires, Apart(card, c)
                 PROVE  WillBeLow(<<>>, c, y) <=> wire[<<c, y>>] = 0
      BY DEF WiresWill
    <3>1. wire[<<c, y>>] = 1
      BY <1>0, CardFacts
    <3>2. \/ Pin(c, y) \in 26..27
          \/ card = "MDP110" /\ Pin(c, y) \in 17..18
      BY <1>0, CardFacts
    <3>3. Pin(c, y) \notin reg["dir"] \/ Pin(c, y) \in reg["out"]
      <4>1. CASE Pin(c, y) \in 26..27
        <5>1. \A n \in 26..27 : n \notin DirAfterInit(card)
          BY <1>0 DEF DirAfterInit, VipPins
        <5> QED BY <1>1, <4>1, <5>1
      <4>2. CASE card = "MDP110" /\ Pin(c, y) \in 17..18
        <5>1. \A n \in 17..18 : n \in OutAfterInit("MDP110")
          BY DEF OutAfterInit
        <5> QED BY <1>1, <4>2, <5>1
      <4> QED BY <3>2, <4>1, <4>2
    <3> QED BY <3>1, <3>3, NothingToDo DEF WillBeLow
  <2>2. LinesWill(<<>>, line)
    BY <1>0 DEF LinesWill, LineIs, OwnLines
  <2>3. OutputsWill(<<>>)
    BY <1>1, NothingToDo DEF OutputsWill, DirAfterInit
  <2> QED BY <2>1, <2>2, <2>3 DEF AtRest, Settles
<1>6. Promise
  BY <1>0, <1>5 DEF Promise, AtRest
<1> QED BY <1>3, <1>4, <1>6 DEF GpioInv

\* An operation begins on one processor.
LEMMA BeginKeeps ==
  ASSUME GpioInv, GpioTypeOK', NEW a \in Actors, NEW w, Begin(a, w),
         UNCHANGED <<card, reg, got>>, ~SMP => Settles(w, wire', line')
  PROVE  GpioInv'
<1> SUFFICES ASSUME ~SMP PROVE OneAtATime' /\ GotIsFresh' /\ Promise'
  BY DEF GpioInv
<1>1. /\ \A b \in Actors : todo[b] = <<>>
      /\ todo'[a] = w /\ \A b \in Actors \ {a} : todo'[b] = <<>>
  BY DEF Begin, MayStart, GpioInv, GpioTypeOK
<1>2. OneAtATime'
  BY <1>1 DEF OneAtATime
<1>3. \A b \in Actors : got'[b] = None
  BY <1>1 DEF GpioInv, GotIsFresh
<1>4. GotIsFresh'
  BY <1>3 DEF GotIsFresh
<1>5. Settles(w, wire, line)'
  BY DEF Settles, WiresWill, WillBeLow, LinesWill, LineIs, OutputsWill, WillBe
<1>6. Promise'
  <2> SUFFICES ASSUME NEW b \in Actors, \A c \in Actors \ {b} : todo'[c] = <<>>
               PROVE  todo'[b] = w
    BY <1>5 DEF Promise
  <2> QED BY <1>1
<1> QED BY <1>2, <1>4, <1>6

LEMMA RestsBetween == ASSUME GpioInv, ~SMP, NEW a, NEW w, Begin(a, w) PROVE AtRest
<1>1. \A b \in Actors : todo[b] = <<>>
  BY DEF Begin, MayStart
<1>2. User \in Actors
  BY DEF Actors
<1> QED BY <1>1, <1>2 DEF GpioInv, Promise, AtRest

LEMMA GpioInvStep == ASSUME GpioInv, [GpioNext]_gpioVars PROVE GpioInv'
<1>0. GpioTypeOK
  BY DEF GpioInv
<1>8. /\ \A b \in 0..5 : b \in Actors
      /\ User \in Actors /\ Writes = [reg : Regs, on : SUBSET Pins, off : SUBSET Pins]
  BY DEF Actors, Writes
<1>1. ASSUME NEW b \in 0..5, NEW x \in Wires, BusGets(b, x) PROVE GpioInv'
  <2>1. PICK w : w = GetWire(b, x)
    OBVIOUS
  <2>2. /\ b \in Buses(card) /\ Begin(b, w) /\ UNCHANGED <<card, reg, got, line>>
        /\ wire' = IF w = <<>> THEN wire ELSE [wire EXCEPT ![<<b, x>>] = 1]
    BY <1>1, <2>1 DEF BusGets
  <2>3. w \in Seq(Writes)
    <3>1. 0 \in Levels
      BY DEF Levels
    <3> QED BY <2>1, <3>1, SequencesAreWrites
  <2>4. GpioTypeOK'
    <3>1. todo' \in [Actors -> Seq(Writes)] /\ wire' \in [(0..5) \X Wires -> Levels]
      BY <1>0, <1>8, <2>2, <2>3 DEF GpioTypeOK, Begin, Levels
    <3> QED BY <1>0, <1>8, <2>2, <3>1 DEF GpioTypeOK
  <2>5. ~SMP => Settles(w, wire', line')
    <3> SUFFICES ASSUME ~SMP PROVE Settles(w, wire', line)
      BY <2>2
    <3>1. AtRest
      BY <2>2, RestsBetween
    <3>2. CASE w = <<>>
      BY <2>2, <3>1, <3>2 DEF AtRest
    <3>3. CASE w # <<>>
      BY <1>0, <2>1, <2>2, <3>1, <3>3, BusSettles
    <3> QED BY <3>2, <3>3
  <2> QED BY <1>8, <2>2, <2>4, <2>5, BeginKeeps
<1>2. ASSUME NEW b \in 0..5, NEW x \in Wires, NEW v \in Levels, BusSets(b, x, v) PROVE GpioInv'
  <2>1. PICK w : w = SetWire(b, x, v)
    OBVIOUS
  <2>2. /\ b \in Buses(card) /\ Begin(b, w) /\ UNCHANGED <<card, reg, got, line>>
        /\ wire' = [wire EXCEPT ![<<b, x>>] = v]
    BY <1>2, <2>1 DEF BusSets
  <2>3. w \in Seq(Writes)
    BY <2>1, SequencesAreWrites
  <2>4. GpioTypeOK'
    <3>1. todo' \in [Actors -> Seq(Writes)] /\ wire' \in [(0..5) \X Wires -> Levels]
      BY <1>0, <1>8, <2>2, <2>3 DEF GpioTypeOK, Begin
    <3> QED BY <1>0, <1>8, <2>2, <3>1 DEF GpioTypeOK
  <2>5. ~SMP => Settles(w, wire', line')
    <3> SUFFICES ASSUME ~SMP PROVE Settles(w, wire', line)
      BY <2>2
    <3>1. AtRest
      BY <2>2, RestsBetween
    <3> QED BY <1>0, <2>1, <2>2, <3>1, BusSettles
  <2> QED BY <1>8, <2>2, <2>4, <2>5, BeginKeeps
<1>3. ASSUME NEW l \in Lines, NEW s \in 0..2, UserSetsLine(l, s) PROVE GpioInv'
  <2>1. PICK w : w = SetGpio(card, l, s)
    OBVIOUS
  <2>2. /\ Begin(User, w) /\ UNCHANGED <<card, reg, got, wire>>
        /\ line' = IF l \in OwnLines /\ w # <<>> THEN [line EXCEPT ![l] = s] ELSE line
    BY <1>3, <2>1 DEF UserSetsLine
  <2>3. w \in Seq(Writes) /\ s \in 0..3
    BY <2>1, SequencesAreWrites
  <2>4. GpioTypeOK'
    <3>1. todo' \in [Actors -> Seq(Writes)] /\ line' \in [0..9 -> 0..3]
      BY <1>0, <1>8, <2>2, <2>3 DEF GpioTypeOK, Begin
    <3> QED BY <1>0, <1>8, <2>2, <3>1 DEF GpioTypeOK
  <2>5. ~SMP => Settles(w, wire', line')
    <3> SUFFICES ASSUME ~SMP PROVE Settles(w, wire, line')
      BY <2>2
    <3>1. AtRest
      BY <2>2, RestsBetween
    <3> QED BY <1>0, <2>1, <2>2, <3>1, LineSettles
  <2> QED BY <1>8, <2>2, <2>4, <2>5, BeginKeeps
<1>4. ASSUME NEW m \in 0..2, UserSetsVip(m) PROVE GpioInv'
  <2>1. PICK w : w = SetVip(card, m)
    OBVIOUS
  <2>2. Begin(User, w) /\ UNCHANGED <<card, reg, got, wire, line>>
    BY <1>4, <2>1 DEF UserSetsVip
  <2>3. w \in Seq(Writes)
    BY <2>1, SequencesAreWrites
  <2>4. GpioTypeOK'
    <3>1. todo' \in [Actors -> Seq(Writes)]
      BY <1>0, <1>8, <2>2, <2>3 DEF GpioTypeOK, Begin
    <3> QED BY <1>0, <1>8, <2>2, <3>1 DEF GpioTypeOK
  <2>5. ~SMP => Settles(w, wire', line')
    <3> SUFFICES ASSUME ~SMP PROVE Settles(w, wire, line)
      BY <2>2
    <3>1. AtRest
      BY <2>2, RestsBetween
    <3> QED BY <1>0, <2>1, <3>1, VipSettles
  <2> QED BY <1>8, <2>2, <2>4, <2>5, BeginKeeps
<1>5. ASSUME NEW a \in Actors, RegRead(a) PROVE GpioInv'
  <2>1. /\ todo[a] # <<>> /\ got' = [got EXCEPT ![a] = reg[Head(todo[a]).reg]]
        /\ UNCHANGED <<card, reg, todo, wire, line>>
    BY <1>5 DEF RegRead
  <2>2. Head(todo[a]).reg \in Regs
    <3>1. todo[a] \in Seq(Writes)
      BY <1>0, <1>8 DEF GpioTypeOK
    <3>2. Head(todo[a]) \in Writes
      BY <2>1, <3>1
    <3> QED BY <3>2 DEF Writes
  <2>3. /\ got'[a] = reg[Head(todo[a]).reg] /\ got'[a] \in SUBSET Pins /\ DOMAIN got' = Actors
        /\ \A b \in Actors \ {a} : got'[b] = got[b]
    BY <1>0, <2>1, <2>2 DEF GpioTypeOK
  <2>4. GpioTypeOK'
    BY <1>0, <2>1, <2>3 DEF GpioTypeOK
  <2>5. ~SMP => OneAtATime' /\ GotIsFresh' /\ Promise'
    <3> SUFFICES ASSUME ~SMP PROVE OneAtATime' /\ GotIsFresh' /\ Promise'
      OBVIOUS
    <3>1. GotIsFresh'
      BY <2>1, <2>3 DEF GpioInv, GotIsFresh
    <3>2. Promise'
      BY <2>1 DEF GpioInv, Promise, Settles, WiresWill, WillBeLow, LinesWill, LineIs, OutputsWill, WillBe
    <3> QED BY <2>1, <3>1, <3>2 DEF GpioInv, OneAtATime
  <2> QED BY <2>4, <2>5 DEF GpioInv
<1>6. ASSUME NEW a \in Actors, RegWrite(a) PROVE GpioInv'
  <2>1. PICK w : w = todo[a]
    OBVIOUS
  <2>2. /\ w # <<>> /\ got[a] # None /\ w \in Seq(Writes) /\ Head(w) \in Writes
        /\ Tail(w) \in Seq(Writes)
        /\ reg' = [reg EXCEPT ![Head(w).reg] = Apply(got[a], Head(w))]
        /\ got' = [got EXCEPT ![a] = None] /\ todo' = [todo EXCEPT ![a] = Tail(@)]
        /\ UNCHANGED <<card, wire, line>>
    <3>1. todo[a] \in Seq(Writes) /\ todo[a] # <<>>
      BY <1>0, <1>6, <1>8 DEF RegWrite, GpioTypeOK
    <3>2. w \in Seq(Writes) /\ w # <<>>
      BY <2>1, <3>1
    <3>3. Head(w) \in Writes /\ Tail(w) \in Seq(Writes)
      BY <3>2
    <3>4. /\ got[a] # None /\ UNCHANGED <<card, wire, line>>
          /\ reg' = [reg EXCEPT ![Head(w).reg] = Apply(got[a], Head(w))]
          /\ got' = [got EXCEPT ![a] = None] /\ todo' = [todo EXCEPT ![a] = Tail(@)]
      BY <1>6, <2>1 DEF RegWrite
    <3> QED BY <3>2, <3>3, <3>4
  <2>3. /\ Head(w).reg \in Regs /\ Head(w).on \in SUBSET Pins /\ got[a] \in SUBSET Pins
    BY <1>0, <2>2 DEF Writes, GpioTypeOK
  <2>4. /\ todo'[a] = Tail(w) /\ \A b \in Actors \ {a} : todo'[b] = todo[b]
        /\ todo' \in [Actors -> Seq(Writes)]
        /\ DOMAIN got' = Actors /\ got'[a] = None /\ \A b \in Actors \ {a} : got'[b] = got[b]
    BY <1>0, <1>8, <2>1, <2>2 DEF GpioTypeOK
  <2>5. GpioTypeOK'
    <3>1. Apply(got[a], Head(w)) \in SUBSET Pins
      BY <2>3 DEF Apply
    <3>2. reg' \in [Regs -> SUBSET Pins]
      BY <1>0, <2>2, <2>3, <3>1 DEF GpioTypeOK
    <3> QED BY <1>0, <1>8, <2>2, <2>4, <3>2 DEF GpioTypeOK
  <2>6. ~SMP => OneAtATime' /\ GotIsFresh' /\ Promise'
    <3> SUFFICES ASSUME ~SMP PROVE OneAtATime' /\ GotIsFresh' /\ Promise'
      OBVIOUS
    <3>1. \A b \in Actors \ {a} : todo[b] = <<>> /\ got[b] = None
      BY <2>1, <2>2 DEF GpioInv, OneAtATime, GotIsFresh
    <3>2. OneAtATime' /\ GotIsFresh'
      BY <2>4, <3>1 DEF OneAtATime, GotIsFresh
    <3>3. got[a] = reg[Head(w).reg]
      BY <2>1, <2>2 DEF GpioInv, GotIsFresh
    <3>4. Settles(w, wire, line)
      BY <2>1, <3>1 DEF GpioInv, Promise
    <3>5. \A n : /\ WillBe(Tail(w), "dir", n)' <=> WillBe(w, "dir", n)
                 /\ WillBe(Tail(w), "out", n)' <=> WillBe(w, "out", n)
      <4>1. "dir" \in Regs /\ "out" \in Regs /\ reg \in [Regs -> SUBSET Pins]
        BY <1>0 DEF Regs, GpioTypeOK
      <4>2. reg' = [reg EXCEPT ![Head(w).reg] = Apply(reg[Head(w).reg], Head(w))]
        BY <2>2, <3>3
      <4> QED BY <2>2, <4>1, <4>2, WriteKeepsPromise
    <3>6. PICK t : t = Tail(w)
      OBVIOUS
    <3>7. Settles(t, wire, line)'
      <4>1. WiresWill(t, wire)'
        BY <2>2, <3>4, <3>5, <3>6 DEF Settles, WiresWill, WillBeLow
      <4>2. LinesWill(t, line)'
        BY <2>2, <3>4, <3>5, <3>6 DEF Settles, LinesWill, LineIs
      <4>3. OutputsWill(t)'
        BY <2>2, <3>4, <3>5, <3>6 DEF Settles, OutputsWill
      <4> QED BY <4>1, <4>2, <4>3 DEF Settles
    <3>8. Promise'
      <4> SUFFICES ASSUME NEW b \in Actors, \A c \in Actors \ {b} : todo'[c] = <<>>
                   PROVE  todo'[b] = t
        BY <3>7 DEF Promise
      <4> QED BY <2>4, <3>1, <3>6
    <3> QED BY <3>2, <3>8
  <2> QED BY <2>5, <2>6 DEF GpioInv
<1>7. CASE UNCHANGED gpioVars
  <2>1. GpioTypeOK'
    BY <1>0, <1>7 DEF gpioVars, GpioTypeOK
  <2>2. ~SMP => OneAtATime' /\ GotIsFresh' /\ Promise'
    BY <1>7 DEF GpioInv, gpioVars, OneAtATime, GotIsFresh, Promise, Settles, WiresWill,
                WillBeLow, LinesWill, LineIs, OutputsWill, WillBe
  <2> QED BY <2>1, <2>2 DEF GpioInv
<1> QED BY <1>1, <1>2, <1>3, <1>4, <1>5, <1>6, <1>7 DEF GpioNext

\* On any number of processors, what is still to be written is a list of changes of the
\* pins' registers, and what was read of one is a set of its pins (set_bits in tl880util.c,
\* tl880_i2c_set_scl 49-77, tl880_set_gpio 191-273).
THEOREM GpioTypeCorrect == GpioSpec => []GpioTypeOK
<1>1. GpioInv => GpioTypeOK
  BY DEF GpioInv
<1> QED BY <1>1, GpioInvInit, GpioInvStep, PTL DEF GpioSpec

\* On one processor a wire of the buses that share no pin with the video port is where its
\* bus left it, and a line in the state it was set to, on every card and for every set of
\* lines (tl880_i2c_set_scl 49-77, tl880_set_vip 22-66, tl880_set_gpio 191-273).
THEOREM PinsStayPut == GpioSpec => []PinsKept
<1>1. GpioInv => PinsKept
  <2> SUFFICES ASSUME GpioInv, ~SMP, \A a \in Actors : todo[a] = <<>> PROVE PinsKept
    BY DEF PinsKept, WiresKept, LinesKept
  <2>1. User \in Actors
    BY DEF Actors
  <2>2. AtRest
    BY <2>1 DEF GpioInv, Promise, AtRest
  <2>3. WiresKept
    BY <2>2, RestFacts DEF WiresKept, Low
  <2>4. LinesKept
    BY <2>2, RestFacts DEF LinesKept
  <2> QED BY <2>3, <2>4 DEF PinsKept
<1> QED BY <1>1, GpioInvInit, GpioInvStep, PTL DEF GpioSpec

-------------------------------------------------------------------------------
(* The card as a whole.                                                        *)

\* A step of the card is a step of one part, or none, and leaves every other part alone.
LEMMA PartsStep ==
  ASSUME [BoardNext]_boardVars
  PROVE  /\ [GpioNext]_gpioVars /\ [I2cNext]_i2cVars /\ [VpxNext]_vpxVars /\ [Next]_vars
         /\ [CbNext]_cbVars /\ [CopyNext]_copyVars /\ [AudioNext]_audioVars /\ [FbNext]_fbVars
         /\ part \in Parts => part' \in Parts
<1>1. CASE BoardNext
  BY <1>1 DEF BoardNext, otherVars
<1>2. CASE UNCHANGED boardVars
  BY <1>2 DEF boardVars, otherVars
<1> QED BY <1>1, <1>2

\* A card whose parts share no variable behaves in each part as that part does by itself, so
\* that what is proved of a part's specification holds on the card
\* (struct tl880_dev, driver/tl880.h 142-275).
THEOREM PartsBehaveAsAlone ==
  BoardSpec => /\ GpioSpec /\ I2cSpec /\ VpxSpec /\ Spec
               /\ CbSpec /\ CopySpec /\ AudioSpec /\ FbSpec
<1>1. BoardInit => /\ GpioInit /\ I2cInit /\ VpxInit /\ Init
                   /\ CbInit /\ CopyInit /\ AudioInit /\ FbInit
  BY DEF BoardInit
<1>2. [BoardNext]_boardVars =>
        /\ [GpioNext]_gpioVars /\ [I2cNext]_i2cVars /\ [VpxNext]_vpxVars /\ [Next]_vars
        /\ [CbNext]_cbVars /\ [CopyNext]_copyVars /\ [AudioNext]_audioVars /\ [FbNext]_fbVars
  BY PartsStep
<1> QED BY <1>1, <1>2, PTL
        DEF BoardSpec, GpioSpec, I2cSpec, VpxSpec, Spec, CbSpec, CopySpec, AudioSpec, FbSpec

\* For every value of the constants of all parts, each part of the card is well typed.
THEOREM BoardTypeCorrect == BoardSpec => []BoardTypeOK
<1>1. BoardInit => part \in Parts
  BY DEF BoardInit
<1>2. part \in Parts /\ [BoardNext]_boardVars => (part \in Parts)'
  BY PartsStep DEF Parts
<1>3. BoardSpec => [](part \in Parts)
  BY <1>1, <1>2, PTL DEF BoardSpec
<1>4. /\ part \in Parts /\ GpioTypeOK /\ I2cTypeOK /\ VpxTypeOK /\ TypeOK
      /\ CbTypeOK /\ CopyTypeOK /\ AudioTypeOK /\ FbTypeOK
      => BoardTypeOK
  BY DEF BoardTypeOK
<1> QED BY <1>3, <1>4, PartsBehaveAsAlone, GpioTypeCorrect, I2cTypeCorrect, VpxTypeCorrect,
           MemoryTypeCorrect, CallbackTypeCorrect, CopyTypeCorrect, AudioTypeCorrect,
           FbTypeCorrect, PTL

\* What is proved of the parts holds side by side: for every value of all constants the card
\* keeps all that its run checks of it (the operations of struct tl880_dev,
\* driver/tl880.h 142-275).
THEOREM CardIsSound ==
  BoardSpec => /\ [](PinsKept /\ TableIsSound /\ WritesReachAudio /\ LandsExactly /\ PoolIsSound)
               /\ [](CopiesLand /\ BufferOwned /\ AudioAsAsked /\ ShownIsReady /\ PictureExact)
               /\ EveryoneOnce /\ ModeKept /\ NearerTheEnd /\ FirstFit
               /\ CalledAsRegistered /\ ImplementsQueue /\ (~Parallel => ImplementsBag)
<1>1. ~Parallel => (CbSpec => ImplementsBag)
  BY ListImplementsBag
<1> QED BY <1>1, PartsBehaveAsAlone, PinsStayPut, ClientTableIsSound, AudioWritesLand,
           DecoderChangesAreExact, PoolStaysSound, FramesLandInPlace, BufferAlwaysOwned,
           AudioAlwaysAsAsked, OsdShowsWhatIsReady, PictureIsOne, CallsReachEveryone,
           PortModeIsKept, OperationsEnd, SearchIsFirstFit, CalledAsOftenAsRegistered,
           RingImplementsQueue, PTL
===============================================================================

------------------------- MODULE TL880LifecycleProofs -------------------------
(***************************************************************************)
(* Proofs about the life of a card, for any number of looks for the audio  *)
(* chip, whether or not a card may be pulled under an open device file.    *)
(***************************************************************************)
EXTENDS TL880Lifecycle, TLAPS

(* What the steps before it have made sure of when a probe reaches a step.    *)
Made(k) ==
  (IF k > 1 THEN {"dev"} ELSE {}) \cup (IF k > 7 THEN {"tasklet"} ELSE {})
  \cup (IF k > 8 THEN {"cdev"} ELSE {}) \cup (IF k > 10 THEN {"irq"} ELSE {})
  \cup (IF k > 12 THEN {"i2c"} ELSE {})

(* What a removal may still find when it reaches a step.                     *)
Remains(k) ==
  (IF k > 1 THEN {} ELSE {"iau", "iec"}) \cup (IF k > 2 THEN {} ELSE {"cdev"})
  \cup (IF k > 3 THEN {} ELSE {"irq"}) \cup (IF k > 5 THEN {} ELSE {"tasklet"})
  \cup (IF k > 6 THEN {} ELSE {"i2c", "bus"}) \cup (IF k > 7 THEN {} ELSE Mappings)
  \cup (IF k > 8 THEN {} ELSE {"dma"}) \cup (IF k > 9 THEN {} ELSE {"pool"})
  \cup {"dev"}

HeldAtStep ==
  /\ pc = "absent" => held = {}
  /\ pc = "probe"  => Made(step) \subseteq held /\ (step = 1 => held = {})
                      /\ (step = 2 => held = {"dev"})
  /\ pc = "up"     => Made(16) \subseteq held
  /\ pc = "undo"   => step <= 10 /\ held \subseteq Remains(step)

ListedWhenUp == listed = "yes" <=> pc = "up"

(* Who may be inside: the handler while its line is requested or free_irq     *)
(* waits, the tasklet until tasklet_kill, a chip driver while its bus is up,  *)
(* and an ioctl, unless cards are pulled, while the card is up.               *)
UsersAtStep ==
  pc # "dead" =>
    /\ handler = "run" => "irq" \in held \/ (pc = "undo" /\ step = 4)
    /\ bh # "idle"     => "irq" \in held \/ (pc = "undo" /\ step \in {4, 5})
    /\ client # "none" => "bus" \in held
    /\ user = "has"    => file = "ioctl" /\ (pc = "up" \/ Unplug)

Inv == TypeOK /\ HeldAtStep /\ ListedWhenUp /\ UsersAtStep

-------------------------------------------------------------------------------
LEMMA StepRange == ASSUME TypeOK PROVE step \in 1..16
<1>1. Len(ProbeOrder) = 16
  BY DEF ProbeOrder
<1> QED BY <1>1 DEF TypeOK

(* The position of each step in its order.                                   *)
LEMMA ProbePlaces ==
  ASSUME TypeOK
  PROVE  /\ step \in 1..16 /\ step \in Nat
         /\ At("dev") => step = 1
         /\ At("mask") => step = 2
         /\ At("mem") => step = 3
         /\ At("reg") => step = 4
         /\ At("unk") => step = 5
         /\ At("dma") => step = 6
         /\ At("tasklet") => step = 7
         /\ At("cdev") => step = 8
         /\ At("detect") => step = 9
         /\ At("irq") => step = 10
         /\ At("pool") => step = 11
         /\ At("i2c") => step = 12
         /\ At("bus") => step = 13
         /\ At("card") => step = 14
         /\ At("audio") => step = 15
         /\ At("list") => step = 16
<1>1. step \in 1..16
  BY StepRange
<1>2. /\ ProbeOrder[1] = "dev"     /\ ProbeOrder[2] = "mask"  /\ ProbeOrder[3] = "mem"
      /\ ProbeOrder[4] = "reg"     /\ ProbeOrder[5] = "unk"   /\ ProbeOrder[6] = "dma"
      /\ ProbeOrder[7] = "tasklet" /\ ProbeOrder[8] = "cdev"  /\ ProbeOrder[9] = "detect"
      /\ ProbeOrder[10] = "irq"    /\ ProbeOrder[11] = "pool" /\ ProbeOrder[12] = "i2c"
      /\ ProbeOrder[13] = "bus"    /\ ProbeOrder[14] = "card" /\ ProbeOrder[15] = "audio"
      /\ ProbeOrder[16] = "list"
  BY DEF ProbeOrder
<1>3. \A s : At(s) => ProbeOrder[step] = s
  BY DEF At
<1> QED BY <1>1, <1>2, <1>3

LEMMA UndoPlaces ==
  ASSUME TypeOK, step <= 10
  PROVE  /\ Undoing("deinit") => step = 1
         /\ Undoing("cdev") => step = 2
         /\ Undoing("irq") => step = 3
         /\ Undoing("sync") => step = 4
         /\ Undoing("tasklet") => step = 5
         /\ Undoing("i2c") => step = 6
         /\ Undoing("unmap") => step = 7
         /\ Undoing("dma") => step = 8
         /\ Undoing("pool") => step = 9
         /\ Undoing("dev") => step = 10
<1>1. step \in 1..10
  BY StepRange
<1> QED BY <1>1 DEF Undoing, UndoOrder

(* A step of the probe that goes on with more than it had.                   *)
LEMMA ProbeGoesOn ==
  ASSUME Inv, pc = "probe", step < 16, NEW h, h \subseteq Resources, On(h), held \subseteq h,
         Made(step + 1) \subseteq h, step = 1 => h = {"dev"}, UNCHANGED userVars,
         type' \in {"unset", "myhd", "other"}, waited' \in 0..MaxWait
  PROVE  Inv'
<1> USE DEF Inv, On, userVars
<1>1. step \in 1..15 /\ step' = step + 1
  BY StepRange
<1>2. TypeOK'
  <2>1. Len(ProbeOrder) = 16
    BY DEF ProbeOrder
  <2>2. step' \in 1..Len(ProbeOrder)
    BY <1>1, <2>1
  <2>3. /\ pc' = pc /\ cause' = cause /\ listed' = listed /\ fault' = fault
        /\ handler' = handler /\ bh' = bh /\ client' = client /\ file' = file /\ user' = user
    OBVIOUS
  <2> QED BY <2>2, <2>3 DEF TypeOK
<1>3. HeldAtStep'
  BY <1>1 DEF HeldAtStep
<1>4. ListedWhenUp' /\ UsersAtStep'
  BY DEF ListedWhenUp, UsersAtStep
<1> QED BY <1>2, <1>3, <1>4

(* A step of the probe that fails: what was made so far is left.              *)
LEMMA ProbeUndone ==
  ASSUME Inv, pc = "probe", UNCHANGED <<type, waited, userVars>>, Undo
  PROVE  Inv'
<1>1. /\ pc' = "undo" /\ step' = 1 /\ cause' = "probe" /\ held' = held /\ listed' = listed
      /\ fault' = fault /\ type' = type /\ waited' = waited
      /\ handler' = handler /\ bh' = bh /\ client' = client /\ file' = file /\ user' = user
  BY DEF Undo, userVars
<1>2. TypeOK'
  <2>1. step' \in 1..Len(ProbeOrder)
    BY <1>1, StepRange DEF ProbeOrder
  <2> QED BY <1>1, <2>1 DEF TypeOK, Inv
<1>3. Resources \subseteq Remains(1)
  BY DEF Resources, Remains
<1>4. HeldAtStep'
  <2>1. Remains(step') = Remains(1)
    BY <1>1, Zenon
  <2>2. held \subseteq Resources
    BY DEF TypeOK, Inv
  <2>3. held' \subseteq Remains(step') /\ step' <= 10
    BY <1>1, <1>3, <2>1, <2>2
  <2> QED BY <1>1, <2>3 DEF HeldAtStep
<1> QED BY <1>1, <1>2, <1>4 DEF ListedWhenUp, UsersAtStep, Inv

LEMMA ProbeAbandoned ==
  ASSUME Inv, pc = "probe", UNCHANGED <<type, waited, userVars>>, step \in {1, 2}, Abandon
  PROVE  Inv'
<1>1. /\ pc' = "absent" /\ step' = step /\ cause' = cause /\ held' = held \ {"dev"}
      /\ listed' = listed /\ fault' = fault /\ type' = type /\ waited' = waited
      /\ handler' = handler /\ bh' = bh /\ client' = client /\ file' = file /\ user' = user
  BY DEF Abandon, userVars
<1>2. held' = {} /\ held \subseteq {"dev"}
  BY <1>1 DEF HeldAtStep, Inv
<1>3. TypeOK'
  <2>1. step' \in 1..Len(ProbeOrder) /\ held' \subseteq Resources
    BY <1>1, <1>2 DEF TypeOK, Inv
  <2> QED BY <1>1, <2>1 DEF TypeOK, Inv
<1> QED BY <1>1, <1>2, <1>3 DEF HeldAtStep, ListedWhenUp, UsersAtStep, Inv

LEMMA Oopsed ==
  ASSUME Inv, pc # "up", UNCHANGED <<type, waited, userVars>>, NEW f \in {"cdev", "i2c"}, Oops(f)
  PROVE  Inv'
<1>1. /\ pc' = "dead" /\ fault' = f /\ step' = step /\ cause' = cause /\ held' = held
      /\ listed' = listed /\ type' = type /\ waited' = waited
      /\ handler' = handler /\ bh' = bh /\ client' = client /\ file' = file /\ user' = user
  BY DEF Oops, userVars
<1>2. TypeOK'
  BY <1>1 DEF TypeOK, Inv
<1> QED BY <1>1, <1>2 DEF HeldAtStep, ListedWhenUp, UsersAtStep, Inv

(* Every step of the probe goes on, fails, waits or puts the card on the list. *)
LEMMA ProbeStepInv == ASSUME Inv, ProbeStep PROVE Inv'
<1>1. step \in 1..16 /\ held \subseteq Resources /\ waited \in 0..MaxWait
      /\ type \in {"unset", "myhd", "other"} /\ MaxWait \in Nat
  BY StepRange, MaxWaitAssumption DEF TypeOK, Inv
<1>2. pc = "probe"
  BY DEF ProbeStep, ProbeDev, ProbeMask, ProbeMap, ProbeDma, ProbeTasklet, ProbeCdev, ProbeIrq,
         ProbePool, ProbeI2c, ProbeBus, ProbeCard, ProbeAudio, ProbeList, ProbeDetect, CardWaits, At
<1>3. Made(step) \subseteq held /\ (step = 1 => held = {}) /\ (step = 2 => held = {"dev"})
  BY <1>2 DEF HeldAtStep, Inv
<1> DEFINE More(S, n) == /\ step = n /\ S \subseteq Resources /\ On(held \cup S)
                         /\ Made(n + 1) \subseteq Made(n) \cup S
                         /\ n = 1 => S = {"dev"}
<1>4. ASSUME NEW S, NEW n \in 1..15, More(S, n), UNCHANGED userVars,
             type' \in {"unset", "myhd", "other"}, waited' \in 0..MaxWait
      PROVE  Inv'
  BY <1>1, <1>2, <1>3, <1>4, ProbeGoesOn
<1>5. UNCHANGED <<type, waited, userVars>> =>
         /\ UNCHANGED userVars /\ type' \in {"unset", "myhd", "other"} /\ waited' \in 0..MaxWait
  BY <1>1
<1>6. /\ \A n \in 1..15 : n \notin {1, 7, 8, 10, 12} => Made(n + 1) = Made(n)
      /\ Made(2) = Made(1) \cup {"dev"}  /\ Made(8) = Made(7) \cup {"tasklet"}
      /\ Made(9) = Made(8) \cup {"cdev"} /\ Made(11) = Made(10) \cup {"irq"}
      /\ Made(13) = Made(12) \cup {"i2c"}
  BY DEF Made
<1> HIDE DEF More
<1>7. ASSUME ProbeDev, UNCHANGED <<type, waited, userVars>> PROVE Inv'
  <2>1. step = 1 /\ held = {}
    BY <1>3, <1>7, ProbePlaces DEF ProbeDev, Inv
  <2>2. CASE On({"dev"})
    <3>1. More({"dev"}, 1)
      BY <1>6, <2>1, <2>2 DEF More, On, Resources
    <3> QED BY <1>4, <1>5, <1>7, <3>1
  <2> QED BY <1>2, <1>7, <2>1, <2>2, ProbeAbandoned DEF ProbeDev
<1>8. ASSUME ProbeMask, UNCHANGED <<type, waited, userVars>> PROVE Inv'
  <2>1. step = 2
    BY <1>8, ProbePlaces DEF ProbeMask, Inv
  <2>2. CASE On(held)
    <3>1. More({}, 2)
      BY <1>6, <2>1, <2>2 DEF More, On
    <3> QED BY <1>4, <1>5, <1>8, <3>1
  <2> QED BY <1>2, <1>8, <2>1, <2>2, ProbeAbandoned DEF ProbeMask
<1>9. ASSUME NEW r \in Mappings, ProbeMap(r), UNCHANGED <<type, waited, userVars>> PROVE Inv'
  <2>1. step \in {3, 4, 5}
    BY <1>9, ProbePlaces DEF ProbeMap, Mappings, Inv
  <2>2. CASE On(held \cup {r}) \/ On(held)
    <3>1. More({r}, step) \/ More({}, step)
      BY <1>6, <2>1, <2>2 DEF More, On, Resources, Mappings
    <3> QED BY <1>4, <1>5, <1>9, <2>1, <3>1
  <2> QED BY <1>2, <1>9, <2>2, ProbeUndone DEF ProbeMap
<1>10. ASSUME ProbeDma, UNCHANGED <<type, waited, userVars>> PROVE Inv'
  <2>1. step = 6
    BY <1>10, ProbePlaces DEF ProbeDma, Inv
  <2>2. More({"dma"}, 6) \/ More({}, 6)
    BY <1>6, <1>10, <2>1 DEF ProbeDma, More, On, Resources
  <2> QED BY <1>4, <1>5, <1>10, <2>2
<1>11. ASSUME ProbeTasklet, UNCHANGED <<type, waited, userVars>> PROVE Inv'
  <2>1. step = 7
    BY <1>11, ProbePlaces DEF ProbeTasklet, Inv
  <2>2. More({"tasklet"}, 7)
    BY <1>6, <1>11, <2>1 DEF ProbeTasklet, More, On, Resources
  <2> QED BY <1>4, <1>5, <1>11, <2>2
<1>12. ASSUME ProbeCdev, UNCHANGED <<type, waited, userVars>> PROVE Inv'
  <2>1. step = 8
    BY <1>12, ProbePlaces DEF ProbeCdev, Inv
  <2>2. CASE On(held \cup {"cdev"})
    <3>1. More({"cdev"}, 8)
      BY <1>6, <2>1, <2>2 DEF More, On, Resources
    <3> QED BY <1>4, <1>5, <1>12, <3>1
  <2> QED BY <1>2, <1>12, <2>1, <2>2, Oopsed DEF ProbeCdev
<1>13. ASSUME ProbeIrq, UNCHANGED <<type, waited, userVars>> PROVE Inv'
  <2>1. step = 10
    BY <1>13, ProbePlaces DEF ProbeIrq, Inv
  <2>2. CASE On(held \cup {"irq"})
    <3>1. More({"irq"}, 10)
      BY <1>6, <2>1, <2>2 DEF More, On, Resources
    <3> QED BY <1>4, <1>5, <1>13, <3>1
  <2> QED BY <1>2, <1>13, <2>1, <2>2, ProbeUndone DEF ProbeIrq
<1>14. ASSUME ProbePool, UNCHANGED <<type, waited, userVars>> PROVE Inv'
  <2>1. step = 11
    BY <1>14, ProbePlaces DEF ProbePool, Inv
  <2>2. More({"pool"}, 11) \/ More({}, 11)
    BY <1>6, <1>14, <2>1 DEF ProbePool, More, On, Resources
  <2> QED BY <1>4, <1>5, <1>14, <2>2
<1>15. ASSUME ProbeI2c, UNCHANGED <<type, waited, userVars>> PROVE Inv'
  <2>1. step = 12
    BY <1>15, ProbePlaces DEF ProbeI2c, Inv
  <2>2. CASE On(held \cup {"i2c"})
    <3>1. More({"i2c"}, 12)
      BY <1>6, <2>1, <2>2 DEF More, On, Resources
    <3> QED BY <1>4, <1>5, <1>15, <3>1
  <2> QED BY <1>2, <1>15, <2>1, <2>2, Oopsed DEF ProbeI2c
<1>16. ASSUME ProbeBus, UNCHANGED <<type, waited, userVars>> PROVE Inv'
  <2>1. step = 13
    BY <1>16, ProbePlaces DEF ProbeBus, Inv
  <2>2. More({"bus"}, 13) \/ More({}, 13)
    BY <1>6, <1>16, <2>1 DEF ProbeBus, More, On, Resources
  <2> QED BY <1>4, <1>5, <1>16, <2>2
<1>17. ASSUME ProbeCard, UNCHANGED <<type, waited, userVars>> PROVE Inv'
  <2>1. step = 14
    BY <1>17, ProbePlaces DEF ProbeCard, Inv
  <2>2. More({}, 14)
    BY <1>6, <1>17, <2>1 DEF ProbeCard, More, On
  <2> QED BY <1>4, <1>5, <1>17, <2>2
<1>18. ASSUME ProbeAudio, UNCHANGED <<type, waited, userVars>> PROVE Inv'
  <2>1. step = 15
    BY <1>18, ProbePlaces DEF ProbeAudio, Inv
  <2>2. More({"iau", "iec"}, 15) \/ More({"iau"}, 15) \/ More({}, 15)
    BY <1>6, <1>18, <2>1 DEF ProbeAudio, More, On, Resources
  <2> QED BY <1>4, <1>5, <1>18, <2>2
<1>19. ASSUME ProbeList, UNCHANGED <<type, waited, userVars>> PROVE Inv'
  <2>1. step = 16 /\ Made(16) \subseteq held
    BY <1>3, <1>19, ProbePlaces DEF ProbeList, Inv
  <2>2. /\ pc' = "up" /\ listed' = "yes" /\ step' = step /\ cause' = cause /\ held' = held
        /\ fault' = fault /\ type' = type /\ waited' = waited
        /\ handler' = handler /\ bh' = bh /\ client' = client /\ file' = file /\ user' = user
    BY <1>19 DEF ProbeList, userVars
  <2>3. TypeOK'
    BY <2>2 DEF TypeOK, Inv
  <2> QED BY <1>2, <2>1, <2>2, <2>3 DEF HeldAtStep, ListedWhenUp, UsersAtStep, Inv
<1>20. ASSUME ProbeDetect, UNCHANGED userVars PROVE Inv'
  <2>1. step = 9
    BY <1>20, ProbePlaces DEF ProbeDetect, Inv
  <2>2. More({}, 9)
    BY <1>6, <1>20, <2>1 DEF ProbeDetect, More, On
  <2>3. waited' \in 0..MaxWait /\ type' \in {"unset", "myhd", "other"}
    BY <1>1, <1>20 DEF ProbeDetect
  <2> QED BY <1>4, <1>20, <2>2, <2>3
<1>21. ASSUME CardWaits PROVE Inv'
  <2>1. waited' \in 0..MaxWait
    BY <1>1, <1>21 DEF CardWaits
  <2>2. /\ pc' = pc /\ step' = step /\ cause' = cause /\ held' = held
        /\ listed' = listed /\ fault' = fault /\ type' = type
        /\ handler' = handler /\ bh' = bh /\ client' = client /\ file' = file /\ user' = user
    BY <1>21 DEF CardWaits, userVars
  <2>3. TypeOK'
    <3>1. step' \in 1..Len(ProbeOrder) /\ held' \subseteq Resources
      BY <2>2 DEF TypeOK, Inv
    <3>2. /\ pc' \in {"absent", "probe", "up", "undo", "dead"} /\ cause' \in {"probe", "remove"}
          /\ listed' \in {"no", "yes"} /\ type' \in {"unset", "myhd", "other"}
          /\ fault' \in {"none", "cdev", "i2c", "double free"}
      BY <2>2 DEF TypeOK, Inv
    <3>3. /\ handler' \in {"idle", "run"} /\ bh' \in {"idle", "queued", "run"}
          /\ client' \in {"none", "idle", "busy"}
          /\ file' \in {"closed", "open", "ioctl"} /\ user' \in {"none", "has"}
      BY <2>2 DEF TypeOK, Inv
    <3> QED BY <2>1, <3>1, <3>2, <3>3 DEF TypeOK
  <2> QED BY <2>2, <2>3 DEF HeldAtStep, ListedWhenUp, UsersAtStep, Inv
<1> QED BY <1>7, <1>8, <1>9, <1>10, <1>11, <1>12, <1>13, <1>14, <1>15, <1>16, <1>17, <1>18,
           <1>19, <1>20, <1>21 DEF ProbeStep
-------------------------------------------------------------------------------
(* A removal begins with a card that is whole and nobody's ioctl inside.      *)
LEMMA RemoveInv == ASSUME Inv, Remove PROVE Inv'
<1>1. /\ pc = "up" /\ pc' = "undo" /\ step' = 1 /\ cause' = "remove" /\ listed' = "no"
      /\ held' = held /\ fault' = fault /\ type' = type /\ waited' = waited
      /\ handler' = handler /\ bh' = bh /\ client' = client /\ file' = file /\ user' = user
      /\ Unplug \/ file = "closed"
  BY DEF Remove, MayGo, userVars
<1>2. TypeOK'
  <2>1. step' \in 1..Len(ProbeOrder)
    BY <1>1, StepRange DEF ProbeOrder
  <2> QED BY <1>1, <2>1 DEF TypeOK, Inv
<1>3. HeldAtStep'
  <2>1. Resources \subseteq Remains(1) /\ Remains(step') = Remains(1)
    BY <1>1 DEF Resources, Remains
  <2>2. held \subseteq Resources
    BY DEF TypeOK, Inv
  <2>3. held' \subseteq Remains(step') /\ step' <= 10
    BY <1>1, <2>1, <2>2
  <2> QED BY <1>1, <2>3 DEF HeldAtStep
<1> QED BY <1>1, <1>2, <1>3 DEF ListedWhenUp, UsersAtStep, Inv

(* A step of the removal that goes on releases what it has to, and no more is *)
(* left than the next step may find.                                         *)
LEMMA UndoGoesOn ==
  ASSUME Inv, pc = "undo", step < 10, NEW R, On(held \ R),
         Remains(step) \ R \subseteq Remains(step + 1),
         UNCHANGED <<type, waited, handler, bh, file, user>>, client' \in {client, "none"}
  PROVE  TypeOK' /\ HeldAtStep' /\ ListedWhenUp'
<1>1. /\ pc' = "undo" /\ step' = step + 1 /\ held' = held \ R /\ cause' = cause
      /\ listed' = listed /\ fault' = fault /\ type' = type /\ waited' = waited
      /\ handler' = handler /\ bh' = bh /\ file' = file /\ user' = user
  BY DEF On
<1>2. client' \in {"none", "idle", "busy"} /\ held' \subseteq Resources
  BY <1>1 DEF TypeOK, Inv
<1>3. step \in 1..9
  BY StepRange DEF Inv
<1>4. TypeOK'
  <2>1. step' \in 1..Len(ProbeOrder)
    BY <1>1, <1>3, StepRange DEF ProbeOrder
  <2> QED BY <1>1, <1>2, <2>1 DEF TypeOK, Inv
<1>5. HeldAtStep'
  <2>1. Remains(step') = Remains(step + 1)
    BY <1>1, Zenon
  <2>2. held \subseteq Remains(step)
    BY DEF HeldAtStep, Inv
  <2>3. held' \subseteq Remains(step') /\ step' <= 10
    BY <1>1, <1>3, <2>1, <2>2
  <2> QED BY <1>1, <2>3 DEF HeldAtStep
<1> QED BY <1>1, <1>4, <1>5 DEF ListedWhenUp, Inv

(* No line, no bus and no wait for either: nobody is inside.                  *)
LEMMA UsersIdle ==
  ASSUME Inv, pc # "dead", "irq" \notin held, "bus" \notin held, step \notin {4, 5}
  PROVE  handler = "idle" /\ bh = "idle" /\ client = "none"
<1>1. handler \in {"idle", "run"} /\ client \in {"none", "idle", "busy"}
  BY DEF Inv, TypeOK
<1>2. handler # "run" /\ bh = "idle" /\ client = "none"
  BY DEF Inv, UsersAtStep
<1> QED BY <1>1, <1>2

LEMMA UndoStepInv == ASSUME Inv, UndoStep PROVE Inv'
<1> USE DEF Inv
<1>1. pc = "undo"
  BY DEF UndoStep, UndoDeinit, UndoCdev, UndoIrq, UndoSync, UndoTasklet, UndoI2c, UndoUnmap,
         UndoDma, UndoPool, UndoDev, Undoing
<1>2. step \in 1..10 /\ held \subseteq Remains(step)
  BY <1>1, StepRange DEF HeldAtStep
<1>3. UNCHANGED <<type, waited, handler, bh, file, user>>
  BY DEF UndoStep
<1> DEFINE Less(R, n) == step = n /\ On(held \ R) /\ Remains(n) \ R \subseteq Remains(n + 1)
<1>4. ASSUME NEW R, NEW n \in 1..9, Less(R, n), client' \in {client, "none"}, UsersAtStep'
      PROVE  Inv'
  BY <1>1, <1>3, <1>4, UndoGoesOn
<1>5. /\ Remains(1) \ {"iau", "iec"} \subseteq Remains(2) /\ Remains(2) \ {"cdev"} \subseteq Remains(3)
      /\ Remains(3) \ {"irq"} \subseteq Remains(4)        /\ Remains(4) \ {} \subseteq Remains(5)
      /\ Remains(5) \ {"tasklet"} \subseteq Remains(6)    /\ Remains(6) \ {"i2c", "bus"} \subseteq Remains(7)
      /\ Remains(7) \ Mappings \subseteq Remains(8)       /\ Remains(8) \ {"dma"} \subseteq Remains(9)
      /\ Remains(9) \ {"pool"} \subseteq Remains(10)
  BY DEF Remains
<1>6. /\ Remains(4) \cap {"irq"} = {} /\ Remains(5) \cap {"irq"} = {} /\ Remains(10) = {"dev"}
  BY DEF Remains, Mappings
<1> HIDE DEF Less
<1>7. ASSUME UndoDeinit, UNCHANGED client PROVE Inv'
  <2>1. step = 1
    BY <1>1, <1>2, <1>7, UndoPlaces DEF UndoDeinit
  <2>2. Less({"iau", "iec"}, 1)
    BY <1>5, <1>7, <2>1 DEF UndoDeinit, Release, Less
  <2>3. UsersAtStep'
    BY <1>1, <1>2, <1>3, <1>6, <1>7, <2>1 DEF UndoDeinit, Release, On, UsersAtStep
  <2> QED BY <1>4, <1>7, <2>2, <2>3
<1>8. ASSUME UndoCdev, UNCHANGED client PROVE Inv'
  <2>1. step = 2
    BY <1>1, <1>2, <1>8, UndoPlaces DEF UndoCdev
  <2>2. CASE On(held \ {"cdev"})
    <3>1. Less({"cdev"}, 2)
      BY <1>5, <2>1, <2>2 DEF Less
    <3>2. UsersAtStep'
      BY <1>1, <1>3, <1>8, <2>1, <2>2 DEF On, UsersAtStep
    <3> QED BY <1>4, <1>8, <3>1, <3>2
  <2> QED BY <1>1, <1>3, <1>8, <2>2, Oopsed DEF UndoCdev, Release, userVars
<1>9. ASSUME UndoIrq, UNCHANGED client PROVE Inv'
  <2>1. step = 3
    BY <1>1, <1>2, <1>9, UndoPlaces DEF UndoIrq
  <2>2. Less({"irq"}, 3)
    BY <1>5, <1>9, <2>1 DEF UndoIrq, Release, Less
  <2>3. UsersAtStep'
    BY <1>1, <1>2, <1>3, <1>6, <1>9, <2>1 DEF UndoIrq, Release, On, UsersAtStep
  <2> QED BY <1>4, <1>9, <2>2, <2>3
<1>10. ASSUME UndoSync, UNCHANGED client PROVE Inv'
  <2>1. step = 4
    BY <1>1, <1>2, <1>10, UndoPlaces DEF UndoSync
  <2>2. Less({}, 4)
    BY <1>5, <1>10, <2>1 DEF UndoSync, On, Less
  <2>3. UsersAtStep'
    BY <1>1, <1>2, <1>3, <1>6, <1>10, <2>1 DEF UndoSync, Release, On, UsersAtStep
  <2> QED BY <1>4, <1>10, <2>2, <2>3
<1>11. ASSUME UndoTasklet, UNCHANGED client PROVE Inv'
  <2>1. step = 5
    BY <1>1, <1>2, <1>11, UndoPlaces DEF UndoTasklet
  <2>2. Less({"tasklet"}, 5)
    BY <1>5, <1>11, <2>1 DEF UndoTasklet, Release, Less
  <2>3. UsersAtStep'
    BY <1>1, <1>2, <1>3, <1>6, <1>11, <2>1 DEF UndoTasklet, Release, On, UsersAtStep
  <2> QED BY <1>4, <1>11, <2>2, <2>3
<1>12. ASSUME UndoUnmap, UNCHANGED client PROVE Inv'
  <2>1. step = 7
    BY <1>1, <1>2, <1>12, UndoPlaces DEF UndoUnmap
  <2>2. Less(Mappings, 7)
    BY <1>5, <1>12, <2>1 DEF UndoUnmap, Release, Less
  <2>3. UsersAtStep'
    BY <1>1, <1>2, <1>3, <1>6, <1>12, <2>1 DEF UndoUnmap, Release, On, UsersAtStep, Mappings
  <2> QED BY <1>4, <1>12, <2>2, <2>3
<1>13. ASSUME UndoDma, UNCHANGED client PROVE Inv'
  <2>1. step = 8
    BY <1>1, <1>2, <1>13, UndoPlaces DEF UndoDma
  <2>2. Less({"dma"}, 8)
    BY <1>5, <1>13, <2>1 DEF UndoDma, Release, Less
  <2>3. UsersAtStep'
    BY <1>1, <1>2, <1>3, <1>6, <1>13, <2>1 DEF UndoDma, Release, On, UsersAtStep
  <2> QED BY <1>4, <1>13, <2>2, <2>3
<1>14. ASSUME UndoPool, UNCHANGED client PROVE Inv'
  <2>1. step = 9
    BY <1>1, <1>2, <1>14, UndoPlaces DEF UndoPool
  <2>2. Less({"pool"}, 9)
    BY <1>5, <1>14, <2>1 DEF UndoPool, Release, Less
  <2>3. UsersAtStep'
    BY <1>1, <1>2, <1>3, <1>6, <1>14, <2>1 DEF UndoPool, Release, On, UsersAtStep
  <2> QED BY <1>4, <1>14, <2>2, <2>3
<1>15. ASSUME UndoI2c, client' = "none" PROVE Inv'
  <2>1. step = 6
    BY <1>1, <1>2, <1>15, UndoPlaces DEF UndoI2c
  <2>2. Less({"i2c", "bus"}, 6)
    BY <1>5, <1>15, <2>1 DEF UndoI2c, Release, Less
  <2>3. UsersAtStep'
    BY <1>1, <1>3, <1>15, <2>1 DEF UndoI2c, Release, On, UsersAtStep
  <2> QED BY <1>4, <1>15, <2>2, <2>3
<1>16. ASSUME UndoDev, UNCHANGED client PROVE Inv'
  <2>1. step = 10
    <3>1. Undoing("dev")
      BY <1>16 DEF UndoDev
    <3> QED BY <1>2, <3>1, UndoPlaces
  <2>2. held \subseteq {"dev"}
    <3>1. Remains(step) = Remains(10)
      BY <2>1, Zenon
    <3> QED BY <1>2, <1>6, <3>1
  <2>3. /\ held' = {} /\ step' = step /\ cause' = cause /\ listed' = listed /\ type' = type
        /\ waited' = waited /\ handler' = handler /\ bh' = bh /\ client' = client
        /\ file' = file /\ user' = user
        /\ (pc' = "absent" /\ fault' = fault) \/ (pc' = "dead" /\ fault' = "double free")
    BY <1>3, <1>16, <2>2 DEF UndoDev
  <2>4. TypeOK'
    <3>1. step' \in 1..Len(ProbeOrder) /\ held' \subseteq Resources
      BY <2>3 DEF TypeOK
    <3> QED BY <2>3, <3>1 DEF TypeOK
  <2>5. HeldAtStep' /\ ListedWhenUp'
    BY <1>1, <2>3 DEF HeldAtStep, ListedWhenUp
  <2>6. UsersAtStep'
    <3>1. handler = "idle" /\ bh = "idle" /\ client = "none"
      BY <1>1, <2>1, <2>2, UsersIdle
    <3>2. user = "has" => file = "ioctl" /\ Unplug
      BY <1>1 DEF UsersAtStep
    <3> QED BY <2>3, <3>1, <3>2 DEF UsersAtStep
  <2> QED BY <2>4, <2>5, <2>6
<1> QED BY <1>7, <1>8, <1>9, <1>10, <1>11, <1>12, <1>13, <1>14, <1>15, <1>16 DEF UndoStep

(* What the handler, the tasklet, the chip drivers and a process do.          *)
LEMMA UserStepInv == ASSUME Inv, UserStep PROVE Inv'
<1> USE DEF Inv, Alive
<1>1. /\ pc # "dead"
      /\ pc' = pc /\ step' = step /\ cause' = cause /\ held' = held /\ listed' = listed
      /\ type' = type /\ waited' = waited /\ fault' = fault
  BY DEF UserStep, IrqEnters, IrqLeaves, BhRuns, BhEnds, Attach, Detach, Transfer, OpenFile,
         Ioctl, IoctlEnds, CloseFile, driverVars
<1>2. HeldAtStep' /\ ListedWhenUp'
  BY <1>1 DEF HeldAtStep, ListedWhenUp
<1>3. ASSUME handler' \in {"idle", "run"}, bh' \in {"idle", "queued", "run"},
             client' \in {"none", "idle", "busy"}, file' \in {"closed", "open", "ioctl"},
             user' \in {"none", "has"}, UsersAtStep'
      PROVE  Inv'
  <2>1. step' \in 1..Len(ProbeOrder) /\ held' \subseteq Resources /\ waited' \in 0..MaxWait
    BY <1>1 DEF TypeOK
  <2>2. /\ pc' \in {"absent", "probe", "up", "undo", "dead"} /\ cause' \in {"probe", "remove"}
        /\ listed' \in {"no", "yes"} /\ type' \in {"unset", "myhd", "other"}
        /\ fault' \in {"none", "cdev", "i2c", "double free"}
    BY <1>1 DEF TypeOK
  <2>3. TypeOK'
    BY <1>3, <2>1, <2>2 DEF TypeOK
  <2> QED BY <1>2, <1>3, <2>3
<1>4. /\ handler \in {"idle", "run"} /\ bh \in {"idle", "queued", "run"}
      /\ client \in {"none", "idle", "busy"} /\ file \in {"closed", "open", "ioctl"}
      /\ user \in {"none", "has"}
  BY DEF TypeOK
<1>5. CASE IrqEnters
  BY <1>1, <1>3, <1>4, <1>5 DEF IrqEnters, UsersAtStep
<1>6. CASE IrqLeaves
  <2>1. bh' \in {"idle", "queued", "run"} /\ (bh' # "idle" => bh # "idle" \/ handler = "run")
    BY <1>4, <1>6 DEF IrqLeaves
  <2>2. UsersAtStep'
    BY <1>1, <1>6, <2>1 DEF IrqLeaves, UsersAtStep
  <2> QED BY <1>3, <1>4, <1>6, <2>1, <2>2 DEF IrqLeaves
<1>7. CASE BhRuns
  BY <1>1, <1>3, <1>4, <1>7 DEF BhRuns, UsersAtStep
<1>8. CASE BhEnds
  BY <1>1, <1>3, <1>4, <1>8 DEF BhEnds, UsersAtStep
<1>9. CASE Attach
  BY <1>1, <1>3, <1>4, <1>9 DEF Attach, UsersAtStep
<1>10. CASE Detach
  BY <1>1, <1>3, <1>4, <1>10 DEF Detach, UsersAtStep
<1>11. CASE Transfer
  BY <1>1, <1>3, <1>4, <1>11 DEF Transfer, UsersAtStep
<1>12. CASE OpenFile
  BY <1>1, <1>3, <1>4, <1>12 DEF OpenFile, UsersAtStep
<1>13. CASE Ioctl
  BY <1>1, <1>3, <1>4, <1>13 DEF Ioctl, UsersAtStep, ListedWhenUp
<1>14. CASE IoctlEnds
  BY <1>1, <1>3, <1>4, <1>14 DEF IoctlEnds, UsersAtStep
<1>15. CASE CloseFile
  BY <1>1, <1>3, <1>4, <1>15 DEF CloseFile, UsersAtStep
<1> QED BY <1>5, <1>6, <1>7, <1>8, <1>9, <1>10, <1>11, <1>12, <1>13, <1>14, <1>15 DEF UserStep

(* A probe begins with a card that nobody knows.                             *)
LEMMA ProbeInv == ASSUME Inv, Probe PROVE Inv'
<1>1. /\ pc = "absent" /\ pc' = "probe" /\ step' = 1 /\ type' = "unset" /\ waited' = 0
      /\ cause' = cause /\ held' = held /\ listed' = listed /\ fault' = fault
      /\ handler' = handler /\ bh' = bh /\ client' = client /\ file' = file /\ user' = user
  BY DEF Probe, userVars
<1>2. held' = {} /\ Made(step') = {}
  BY <1>1 DEF Inv, HeldAtStep, Made
<1>3. TypeOK'
  <2>1. step' \in 1..Len(ProbeOrder) /\ waited' \in 0..MaxWait
    BY <1>1, StepRange, MaxWaitAssumption DEF ProbeOrder, Inv
  <2> QED BY <1>1, <1>2, <2>1 DEF TypeOK, Inv
<1> QED BY <1>1, <1>2, <1>3 DEF HeldAtStep, ListedWhenUp, UsersAtStep, Inv

LEMMA InvInit == Init => Inv
<1> SUFFICES ASSUME Init PROVE Inv
  OBVIOUS
<1>1. step \in 1..Len(ProbeOrder) /\ waited \in 0..MaxWait
  BY MaxWaitAssumption DEF Init, ProbeOrder
<1> QED BY <1>1 DEF Init, Inv, TypeOK, HeldAtStep, ListedWhenUp, UsersAtStep

LEMMA InvStep == Inv /\ [Next]_vars => Inv'
<1> SUFFICES ASSUME Inv, [Next]_vars PROVE Inv'
  OBVIOUS
<1>1. CASE UNCHANGED vars
  <2>1. /\ pc' = pc /\ step' = step /\ cause' = cause /\ held' = held /\ listed' = listed
        /\ type' = type /\ waited' = waited /\ fault' = fault
        /\ handler' = handler /\ bh' = bh /\ client' = client /\ file' = file /\ user' = user
    BY <1>1 DEF vars, driverVars, userVars
  <2>2. TypeOK'
    <3>1. step' \in 1..Len(ProbeOrder) /\ held' \subseteq Resources /\ waited' \in 0..MaxWait
      BY <2>1 DEF Inv, TypeOK
    <3>2. /\ pc' \in {"absent", "probe", "up", "undo", "dead"} /\ cause' \in {"probe", "remove"}
          /\ listed' \in {"no", "yes"} /\ type' \in {"unset", "myhd", "other"}
          /\ fault' \in {"none", "cdev", "i2c", "double free"}
      BY <2>1 DEF Inv, TypeOK
    <3>3. /\ handler' \in {"idle", "run"} /\ bh' \in {"idle", "queued", "run"}
          /\ client' \in {"none", "idle", "busy"}
          /\ file' \in {"closed", "open", "ioctl"} /\ user' \in {"none", "has"}
      BY <2>1 DEF Inv, TypeOK
    <3> QED BY <3>1, <3>2, <3>3 DEF TypeOK
  <2> QED BY <2>1, <2>2 DEF Inv, HeldAtStep, ListedWhenUp, UsersAtStep
<1> QED BY <1>1, ProbeInv, ProbeStepInv, RemoveInv, UndoStepInv, UserStepInv DEF Next

LEMMA InvHolds == Spec => []Inv
<1> QED BY InvInit, InvStep, PTL DEF Spec

-------------------------------------------------------------------------------
(* Every step of a probe and of a removal lies in its order, and the loop that *)
(* looks for the audio chip keeps its limit (tl880_init_myhd 295-308).        *)
THEOREM LifecycleTypeCorrect == Spec => []TypeOK
<1>1. Inv => TypeOK
  BY DEF Inv
<1> QED BY InvHolds, <1>1, PTL

(* Whatever failed, a card that is gone holds nothing: no error path of        *)
(* tl880_configure, nor tl880_unconfigure, forgets a resource.                *)
THEOREM CardGoneHoldsNothing == Spec => []NothingLeaks
<1>1. Inv => NothingLeaks
  BY DEF Inv, HeldAtStep, NothingLeaks
<1> QED BY InvHolds, <1>1, PTL

(* A card in the list has its handler, its tasklet, its device file and its    *)
(* buses: tl880_configure lists it last and tl880_remove unlists it first.     *)
THEOREM ListedCardIsWhole == Spec => []ListedIsWhole
<1>1. Made(16) = {"dev", "tasklet", "cdev", "irq", "i2c"}
  BY DEF Made
<1>2. Inv => ListedIsWhole
  BY <1>1 DEF Inv, HeldAtStep, ListedWhenUp, ListedIsWhole
<1> QED BY InvHolds, <1>2, PTL

(* Only two steps take registers, memory or struct away, and one the pool: by  *)
(* then the handler, the tasklet, the chip drivers and the ioctls are out, and *)
(* the audio buffer is back in the pool.                                     *)
LEMMA TakenAway ==
  ASSUME Inv, [Next]_vars,
         NEW r \in {"dev", "reg", "mem", "pool"}, r \in held, r \notin held'
  PROVE  \/ pc = "probe" /\ step = 2
         \/ pc = "undo" /\ step \in {7, 10} /\ r # "pool"
         \/ pc = "undo" /\ step = 9 /\ r = "pool"
<1> USE DEF Inv
<1>1. ~UNCHANGED vars /\ ~Probe /\ ~Remove /\ ~UserStep
  BY DEF vars, driverVars, userVars, Probe, Remove, UserStep, IrqEnters, IrqLeaves, BhRuns, BhEnds,
         Attach, Detach, Transfer, OpenFile, Ioctl, IoctlEnds, CloseFile
<1>2. CASE ProbeStep
  <2>1. ProbeDev \/ ProbeMask
    BY <1>2 DEF ProbeStep, ProbeMap, ProbeDma, ProbeTasklet, ProbeCdev, ProbeIrq,
       ProbePool, ProbeI2c, ProbeBus, ProbeCard, ProbeAudio, ProbeList, ProbeDetect, CardWaits,
       On, Undo, Oops
  <2>2. pc = "probe" /\ step \in {1, 2}
    BY <2>1, ProbePlaces DEF ProbeDev, ProbeMask, At
  <2> QED BY <2>2 DEF HeldAtStep
<1>3. CASE UndoStep
  <2>1. pc = "undo"
    BY <1>3 DEF UndoStep, UndoDeinit, UndoCdev, UndoIrq, UndoSync, UndoTasklet, UndoI2c, UndoUnmap,
         UndoDma, UndoPool, UndoDev, Undoing
  <2>2. step <= 10
    BY <2>1 DEF HeldAtStep
  <2>3. UndoUnmap \/ UndoPool \/ UndoDev
    BY <1>3 DEF UndoStep, UndoDeinit, UndoCdev, UndoIrq, UndoSync, UndoTasklet, UndoI2c,
         UndoDma, Release, On, Oops
  <2>4. CASE UndoUnmap
    BY <2>1, <2>2, <2>4, UndoPlaces DEF UndoUnmap, Release, On, Mappings
  <2>5. CASE UndoPool
    BY <2>1, <2>2, <2>5, UndoPlaces DEF UndoPool, Release, On
  <2>6. CASE UndoDev
    BY <2>1, <2>2, <2>6, UndoPlaces DEF UndoDev
  <2> QED BY <2>3, <2>4, <2>5, <2>6
<1> QED BY <1>1, <1>2, <1>3 DEF Next

LEMMA NobodyInside ==
  ASSUME Inv, (pc = "probe" /\ step = 2) \/ (pc = "undo" /\ step \in {7, 10})
  PROVE  handler = "idle" /\ bh = "idle" /\ client = "none" /\ (~Unplug => user = "none")
<1> USE DEF Inv
<1>1. "irq" \notin held /\ "bus" \notin held
  <2>1. CASE pc = "probe" /\ step = 2
    BY <2>1 DEF HeldAtStep
  <2>2. CASE pc = "undo" /\ step \in {7, 10}
    <3>1. "irq" \notin Remains(step) /\ "bus" \notin Remains(step)
      BY <2>2 DEF Remains, Mappings
    <3> QED BY <2>2, <3>1 DEF HeldAtStep
  <2> QED BY <2>1, <2>2
<1>2. pc # "dead" /\ step \notin {4, 5}
  OBVIOUS
<1>3. user = "none" \/ Unplug
  <2>1. user \in {"none", "has"} /\ pc # "up"
    BY DEF TypeOK
  <2> QED BY <1>2, <2>1 DEF UsersAtStep
<1> QED BY <1>1, <1>2, <1>3, UsersIdle

(* tl880_unconfigure stops whoever uses the card before it takes away what     *)
(* they use (874-891, 915), and gives the audio buffer back before its pool.   *)
THEOREM ReleasedWhenUnused == Spec => ReleaseUnused
<1>1. Inv /\ [Next]_vars =>
        [\A r \in {"dev", "reg", "mem"} :
          r \in held /\ r \notin held' =>
            /\ handler = "idle" /\ bh # "run" /\ client = "none"
            /\ ~Unplug => user = "none"]_vars
  BY TakenAway, NobodyInside
<1>2. Inv /\ [Next]_vars => [{"pool", "iau"} \subseteq held => "pool" \in held']_vars
  <2> SUFFICES ASSUME Inv, [Next]_vars, {"pool", "iau"} \subseteq held, "pool" \notin held'
              PROVE  FALSE
    OBVIOUS
  <2>1. CASE pc = "probe" /\ step = 2
    BY <2>1 DEF Inv, HeldAtStep
  <2>2. CASE pc = "undo" /\ step = 9
    <3>1. Remains(step) = Remains(9)
      BY <2>2, Zenon
    <3>2. "iau" \notin Remains(9)
      BY DEF Remains, Mappings
    <3> QED BY <2>2, <3>1, <3>2 DEF Inv, HeldAtStep
  <2> QED BY <2>1, <2>2, TakenAway
<1> QED BY InvHolds, <1>1, <1>2, PTL DEF Spec, ReleaseUnused
===============================================================================

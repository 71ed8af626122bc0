---------------------------- MODULE TL880IntProofs ----------------------------
(***************************************************************************)
(* Proofs about the interrupt engine, for every set of sources and every   *)
(* setting of the switches that a theorem does not restrict.               *)
(***************************************************************************)
EXTENDS TL880Int, FiniteSetTheorems, TLAPS

\* The inductive strengthening of WorkOwned and RemovalQuiesces: while the card
\* is being probed nothing is enabled, and no handler outlives its stage of the
\* removal.
Stages ==
  /\ irq \notin {"off", "match", "rearm"} => irqMask = {}
  /\ listed => drv = "ready"
  /\ drv \in {"rm_kill", "absent"} => irq = "idle"
  /\ drv \in {"probing", "absent"} => ~sched /\ bh = "idle"
  /\ drv = "probing" =>
       /\ reg4 = {} /\ irqMask = {} /\ int_type = {}
       /\ irq \in {"idle", "type", "mask", "off", "match"}

\* The inductive strengthening of MaskGate: an interrupt found while work is
\* owed is found with a zero mask, so it is never the card's own.
FoundGate ==
  /\ MaskGate /\ NeverBusy
  /\ irq \in {"top", "finish", "rearm"} => bh = "idle" /\ ~sched
  /\ irq = "rearm" => int_type = {}
  /\ bh \in {"load", "rearm"} => int_type = {}
  /\ irq \in {"off", "match"} /\ irqMask # {} => int_type = {} /\ bh = "idle" /\ ~sched
  /\ irq = "match" /\ irqMask # {} => reg4 = {}

\* The inductive strengthening of MaskKept: the mask travels from register 4 to
\* the top half's local, to int_mask, to the bottom half and back.
Asked == {want, want \ Unknown}
MaskTravels ==
  /\ irq # "idle" => bh = "idle" /\ ~sched
  /\ drv = "probing" => irq = "idle"
  /\ drv = "ready" /\ listed =>
       /\ irq \in {"idle", "type", "mask"} /\ bh = "idle" /\ ~sched => reg4 \in Asked
       /\ irq = "type" => reg0 \cap reg4 # {}
       /\ irq = "mask" => irqType \cap reg4 # {}
       /\ irq \in {"off", "match"} => irqMask \in Asked /\ irqType \cap irqMask # {}
       /\ irq \in {"top", "finish"} => int_mask \in Asked
       /\ irq = "rearm" => irqMask \in Asked
       /\ sched \/ bh \in {"scan", "load"} => int_mask \in Asked
       /\ bh = "rearm" => bhMask \in Asked

\* On any line, the mask that a context is about to put back is the one asked
\* for, that one less the unknown sources, or zero.
OnlyAsked ==
  /\ drv # "absent" => reg4 \in Asked \cup {{}}
  /\ irq \in {"off", "match", "rearm"} => irqMask \in Asked \cup {{}}
  /\ TopHalfOwns \/ sched \/ bh \in {"scan", "load"} => int_mask \in Asked \cup {{}}
  /\ bh = "rearm" => bhMask \in Asked \cup {{}}

-------------------------------------------------------------------------------

(* The type invariant is preserved by every access the three contexts make.  *)
LEMMA TypeStep == ASSUME TypeOK, [Next]_vars PROVE TypeOK'
<1> USE DEF TypeOK, Masks, IrqPcs, BhPcs, DrvPcs, irqVars, bhVars, drvVars
<1>1. ASSUME NEW s \in Present, DevRaise(s) PROVE TypeOK'
  BY <1>1 DEF DevRaise
<1>2. CASE IrqEnter
  BY <1>2 DEF IrqEnter
<1>3. CASE IrqReadType
  BY <1>3 DEF IrqReadType
<1>4. CASE IrqReadMask
  BY <1>4 DEF IrqReadMask
<1>5. CASE IrqMaskOff
  BY <1>5 DEF IrqMaskOff
<1>6. CASE IrqNotOurs
  BY <1>6 DEF IrqNotOurs
<1>7. CASE IrqBusy
  BY <1>7 DEF IrqBusy
<1>8. CASE IrqAccept
  BY <1>8 DEF IrqAccept
<1>9. CASE IrqTop
  BY <1>9 DEF IrqTop
<1>10. CASE IrqSchedule
  BY <1>10 DEF IrqSchedule
<1>11. CASE IrqRearmLoad
  BY <1>11 DEF IrqRearmLoad
<1>12. CASE IrqRearm
  BY <1>12 DEF IrqRearm
<1>13. CASE IrqDisableStep
  BY <1>13 DEF IrqDisableStep, IrqDisable
<1>14. CASE BhStart
  BY <1>14 DEF BhStart
<1>15. CASE BhHandle
  BY <1>15 DEF BhHandle
<1>16. CASE BhRest
  BY <1>16 DEF BhRest
<1>17. CASE BhLoad
  BY <1>17 DEF BhLoad
<1>18. CASE BhRearm
  BY <1>18 DEF BhRearm
<1>19. ASSUME NEW m \in Masks, UserWriteMask(m) PROVE TypeOK'
  BY <1>19 DEF UserWriteMask
<1>20. CASE UserReadType
  BY <1>20 DEF UserReadType
<1>21. CASE Configure
  BY <1>21 DEF Configure
<1>22. CASE ListCard
  BY <1>22 DEF ListCard
<1>23. CASE RmUnlist
  BY <1>23 DEF RmUnlist
<1>24. CASE RmMask
  BY <1>24 DEF RmMask
<1>25. CASE RmType
  BY <1>25 DEF RmType
<1>26. CASE RmOff
  BY <1>26 DEF RmOff
<1>27. CASE RmFreeIrq
  BY <1>27 DEF RmFreeIrq
<1>28. CASE RmKill
  BY <1>28 DEF RmKill
<1>29. CASE SiblingRemoved
  BY <1>29 DEF SiblingRemoved
<1>30. CASE UNCHANGED vars
  BY <1>30 DEF vars
<1> QED
  BY <1>1, <1>2, <1>3, <1>4, <1>5, <1>6, <1>7, <1>8, <1>9, <1>10, <1>11,
     <1>12, <1>13, <1>14, <1>15, <1>16, <1>17, <1>18, <1>19, <1>20, <1>21,
     <1>22, <1>23, <1>24, <1>25, <1>26, <1>27, <1>28, <1>29, <1>30
  DEF Next, IrqStep, BhStep, ProcessStep

(* Every reachable state of the engine has the types of struct tl880_dev's    *)
(* interrupt fields and of the two host-interface registers.                  *)
THEOREM TypeCorrect == Spec => []TypeOK
<1>1. Init => TypeOK
  BY DEF Init, TypeOK, Masks, IrqPcs, BhPcs, DrvPcs
<1> QED BY <1>1, TypeStep, PTL DEF Spec

-------------------------------------------------------------------------------
(* Who owns accepted work, and when the card may be removed.                 *)

OwnInv == TypeOK /\ WorkOwned /\ Stages

(* Ownership of accepted work passes from the top half to the queued tasklet  *)
(* to the running one, and to nobody else, whatever user space, the other     *)
(* devices of the line and the removal of cards do meanwhile.                 *)
LEMMA OwnStep == ASSUME OwnInv, [Next]_vars PROVE WorkOwned' /\ Stages'
<1> USE DEF OwnInv, TypeOK, Masks, WorkOwned, Stages, TopHalfOwns,
            HandlerInstalled, irqVars, bhVars, drvVars
<1>1. ASSUME NEW s \in Present, DevRaise(s) PROVE WorkOwned' /\ Stages'
  BY <1>1 DEF DevRaise
<1>2. ASSUME NEW m \in Masks, UserWriteMask(m) PROVE WorkOwned' /\ Stages'
  BY <1>2 DEF UserWriteMask, Quiet
<1>3. CASE IrqEnter
  BY <1>3 DEF IrqEnter
<1>4. CASE IrqReadType
  BY <1>4 DEF IrqReadType
<1>5. CASE IrqReadMask
  BY <1>5 DEF IrqReadMask
<1>6. CASE IrqMaskOff
  BY <1>6 DEF IrqMaskOff
<1>7. CASE IrqNotOurs
  BY <1>7 DEF IrqNotOurs
<1>8. CASE IrqBusy
  BY <1>8 DEF IrqBusy
<1>9. CASE IrqAccept
  BY <1>9 DEF IrqAccept
<1>10. CASE IrqTop
  BY <1>10 DEF IrqTop
<1>11. CASE IrqSchedule
  BY <1>11 DEF IrqSchedule
<1>12. CASE IrqRearmLoad
  BY <1>12 DEF IrqRearmLoad
<1>13. CASE IrqRearm
  BY <1>13 DEF IrqRearm
<1>14. CASE IrqDisableStep
  BY <1>14 DEF IrqDisableStep, IrqDisable
<1>15. CASE BhStart
  BY <1>15 DEF BhStart
<1>16. CASE BhHandle
  BY <1>16 DEF BhHandle
<1>17. CASE BhRest
  BY <1>17 DEF BhRest
<1>18. CASE BhLoad
  BY <1>18 DEF BhLoad
<1>19. CASE BhRearm
  BY <1>19 DEF BhRearm
<1>20. CASE UserReadType
  BY <1>20 DEF UserReadType
<1>21. CASE Configure
  BY <1>21 DEF Configure
<1>22. CASE ListCard
  BY <1>22 DEF ListCard
<1>23. CASE RmUnlist
  BY <1>23 DEF RmUnlist
<1>24. CASE RmMask
  BY <1>24 DEF RmMask
<1>25. CASE RmType
  BY <1>25 DEF RmType
<1>26. CASE RmOff
  BY <1>26 DEF RmOff
<1>27. CASE RmFreeIrq
  BY <1>27 DEF RmFreeIrq
<1>28. CASE RmKill
  BY <1>28 DEF RmKill
<1>29. CASE SiblingRemoved
  BY <1>29 DEF SiblingRemoved
<1>30. CASE UNCHANGED vars
  BY <1>30 DEF vars
<1> QED
  BY <1>1, <1>2, <1>3, <1>4, <1>5, <1>6, <1>7, <1>8, <1>9, <1>10, <1>11,
     <1>12, <1>13, <1>14, <1>15, <1>16, <1>17, <1>18, <1>19, <1>20, <1>21,
     <1>22, <1>23, <1>24, <1>25, <1>26, <1>27, <1>28, <1>29, <1>30
  DEF Next, IrqStep, BhStep, ProcessStep

LEMMA OwnInvariant == Spec => []OwnInv
<1>1. Init => OwnInv
  BY DEF Init, OwnInv, TypeOK, Masks, IrqPcs, BhPcs, DrvPcs, WorkOwned, Stages,
         TopHalfOwns
<1>2. OwnInv /\ [Next]_vars => OwnInv'
  BY OwnStep, TypeStep DEF OwnInv
<1> QED BY <1>1, <1>2, PTL DEF Spec

(* No accepted interrupt of a listed card is ever stranded with the mask at   *)
(* zero, and none is handled twice.                                           *)
THEOREM WorkIsOwned == Spec => []WorkOwned
<1>1. OwnInv => WorkOwned BY DEF OwnInv
<1> QED BY OwnInvariant, <1>1, PTL

(* tl880_unconfigure frees the struct only after both halves are done with it. *)
THEOREM RemovalIsSafe == Spec => []RemovalQuiesces
<1>1. OwnInv => RemovalQuiesces BY DEF OwnInv, Stages, RemovalQuiesces, Quiet
<1> QED BY OwnInvariant, <1>1, PTL

-------------------------------------------------------------------------------
(* The mask as a gate.                                                        *)

GateInv == OwnInv /\ FoundGate

(* Without writes of user space during an interrupt, register 4 is zero from  *)
(* the acceptance of work to the end of the bottom half.                      *)
LEMMA GateStep == ASSUME ~UserRaces, GateInv, [Next]_vars PROVE FoundGate'
<1> USE DEF GateInv, OwnInv, TypeOK, Masks, WorkOwned, Stages, TopHalfOwns,
            FoundGate, MaskGate, NeverBusy, irqVars, bhVars, drvVars
<1>1. ASSUME NEW s \in Present, DevRaise(s) PROVE FoundGate'
  BY <1>1 DEF DevRaise
<1>2. ASSUME NEW m \in Masks, UserWriteMask(m) PROVE FoundGate'
  BY <1>2 DEF UserWriteMask, Quiet
<1>3. CASE IrqEnter
  BY <1>3 DEF IrqEnter
<1>4. CASE IrqReadType
  BY <1>4 DEF IrqReadType
<1>5. CASE IrqReadMask
  BY <1>5 DEF IrqReadMask
<1>6. CASE IrqMaskOff
  BY <1>6 DEF IrqMaskOff
<1>7. CASE IrqNotOurs
  BY <1>7 DEF IrqNotOurs
<1>8. CASE IrqBusy
  BY <1>8 DEF IrqBusy
<1>9. CASE IrqAccept
  BY <1>9 DEF IrqAccept
<1>10. CASE IrqTop
  BY <1>10 DEF IrqTop
<1>11. CASE IrqSchedule
  BY <1>11 DEF IrqSchedule
<1>12. CASE IrqRearmLoad
  BY <1>12 DEF IrqRearmLoad
<1>13. CASE IrqRearm
  BY <1>13 DEF IrqRearm
<1>14. CASE IrqDisableStep
  BY <1>14 DEF IrqDisableStep, IrqDisable
<1>15. CASE BhStart
  BY <1>15 DEF BhStart
<1>16. CASE BhHandle
  BY <1>16 DEF BhHandle
<1>17. CASE BhRest
  BY <1>17 DEF BhRest
<1>18. CASE BhLoad
  BY <1>18 DEF BhLoad
<1>19. CASE BhRearm
  BY <1>19 DEF BhRearm
<1>20. CASE UserReadType
  BY <1>20 DEF UserReadType
<1>21. CASE Configure
  BY <1>21 DEF Configure
<1>22. CASE ListCard
  BY <1>22 DEF ListCard
<1>23. CASE RmUnlist
  BY <1>23 DEF RmUnlist
<1>24. CASE RmMask
  BY <1>24 DEF RmMask
<1>25. CASE RmType
  BY <1>25 DEF RmType
<1>26. CASE RmOff
  BY <1>26 DEF RmOff
<1>27. CASE RmFreeIrq
  BY <1>27 DEF RmFreeIrq
<1>28. CASE RmKill
  BY <1>28 DEF RmKill
<1>29. CASE SiblingRemoved
  BY <1>29 DEF SiblingRemoved
<1>30. CASE UNCHANGED vars
  BY <1>30 DEF vars
<1> QED
  BY <1>1, <1>2, <1>3, <1>4, <1>5, <1>6, <1>7, <1>8, <1>9, <1>10, <1>11,
     <1>12, <1>13, <1>14, <1>15, <1>16, <1>17, <1>18, <1>19, <1>20, <1>21,
     <1>22, <1>23, <1>24, <1>25, <1>26, <1>27, <1>28, <1>29, <1>30
  DEF Next, IrqStep, BhStep, ProcessStep

LEMMA GateInvariant == ASSUME ~UserRaces PROVE Spec => []GateInv
<1>1. Init => GateInv
  BY DEF Init, GateInv, OwnInv, TypeOK, Masks, IrqPcs, BhPcs, DrvPcs, WorkOwned,
         Stages, TopHalfOwns, FoundGate, MaskGate, NeverBusy
<1>2. GateInv /\ [Next]_vars => GateInv'
  BY GateStep, OwnStep, TypeStep DEF GateInv, OwnInv
<1> QED BY <1>1, <1>2, PTL DEF Spec

(* A source is never enabled while the driver owes work for an interrupt; in   *)
(* particular the demultiplexer cannot storm the processor before its bottom  *)
(* half has run.                                                              *)
THEOREM MaskIsGate == Spec => []MaskGate
<1>1. CASE UserRaces
  <2>1. MaskGate BY <1>1 DEF MaskGate
  <2> QED BY <2>1, PTL
<1>2. CASE ~UserRaces
  <2>1. GateInv => MaskGate BY DEF GateInv, FoundGate
  <2> QED BY <1>2, <2>1, GateInvariant, PTL
<1> QED BY <1>1, <1>2

(* The branch that "should never get executed" is dead code as long as user   *)
(* space does not write register 4 while an interrupt is being handled.       *)
THEOREM BusyIsDead == Spec => []NeverBusyAlone
<1>1. CASE UserRaces
  <2>1. NeverBusyAlone BY <1>1 DEF NeverBusyAlone
  <2> QED BY <2>1, PTL
<1>2. CASE ~UserRaces
  <2>1. GateInv => NeverBusyAlone BY DEF GateInv, FoundGate, NeverBusyAlone
  <2> QED BY <1>2, <2>1, GateInvariant, PTL
<1> QED BY <1>1, <1>2

-------------------------------------------------------------------------------
(* The mask comes back.                                                       *)

KeptInv == GateInv /\ MaskTravels

LEMMA KeptStep == ASSUME ~UserRaces, ~SharedLine, KeptInv, [Next]_vars
                  PROVE MaskTravels'
<1> USE DEF KeptInv, GateInv, OwnInv, TypeOK, Masks, WorkOwned, Stages, TopHalfOwns,
            FoundGate, MaskGate, NeverBusy, MaskTravels, Asked,
            irqVars, bhVars, drvVars
<1>1. ASSUME NEW s \in Present, DevRaise(s) PROVE MaskTravels'
  BY <1>1 DEF DevRaise
<1>2. ASSUME NEW m \in Masks, UserWriteMask(m) PROVE MaskTravels'
  BY <1>2 DEF UserWriteMask, Quiet
<1>3. CASE IrqEnter
  BY <1>3 DEF IrqEnter
<1>4. CASE IrqReadType
  BY <1>4 DEF IrqReadType
<1>5. CASE IrqReadMask
  BY <1>5 DEF IrqReadMask
<1>6. CASE IrqMaskOff
  BY <1>6 DEF IrqMaskOff
<1>7. CASE IrqNotOurs
  BY <1>7 DEF IrqNotOurs
<1>8. CASE IrqBusy
  BY <1>8 DEF IrqBusy
<1>9. CASE IrqAccept
  BY <1>9 DEF IrqAccept
<1>10. CASE IrqTop
  BY <1>10 DEF IrqTop
<1>11. CASE IrqSchedule
  BY <1>11 DEF IrqSchedule
<1>12. CASE IrqRearmLoad
  BY <1>12 DEF IrqRearmLoad
<1>13. CASE IrqRearm
  BY <1>13 DEF IrqRearm
<1>14. CASE IrqDisableStep
  BY <1>14 DEF IrqDisableStep, IrqDisable
<1>15. CASE BhStart
  BY <1>15 DEF BhStart
<1>16. CASE BhHandle
  BY <1>16 DEF BhHandle
<1>17. CASE BhRest
  BY <1>17 DEF BhRest
<1>18. CASE BhLoad
  BY <1>18 DEF BhLoad
<1>19. CASE BhRearm
  BY <1>19 DEF BhRearm
<1>20. CASE UserReadType
  BY <1>20 DEF UserReadType
<1>21. CASE Configure
  BY <1>21 DEF Configure
<1>22. CASE ListCard
  BY <1>22 DEF ListCard
<1>23. CASE RmUnlist
  BY <1>23 DEF RmUnlist
<1>24. CASE RmMask
  BY <1>24 DEF RmMask
<1>25. CASE RmType
  BY <1>25 DEF RmType
<1>26. CASE RmOff
  BY <1>26 DEF RmOff
<1>27. CASE RmFreeIrq
  BY <1>27 DEF RmFreeIrq
<1>28. CASE RmKill
  BY <1>28 DEF RmKill
<1>29. CASE SiblingRemoved
  BY <1>29 DEF SiblingRemoved
<1>30. CASE UNCHANGED vars
  BY <1>30 DEF vars
<1> QED
  BY <1>1, <1>2, <1>3, <1>4, <1>5, <1>6, <1>7, <1>8, <1>9, <1>10, <1>11,
     <1>12, <1>13, <1>14, <1>15, <1>16, <1>17, <1>18, <1>19, <1>20, <1>21,
     <1>22, <1>23, <1>24, <1>25, <1>26, <1>27, <1>28, <1>29, <1>30
  DEF Next, IrqStep, BhStep, ProcessStep

(* On a line of its own the engine neither loses nor invents enable bits: each *)
(* time the card comes to rest its mask is the one user space asked for, or   *)
(* that mask less the unknown sources.                                        *)
THEOREM MaskComesBack == Spec => []MaskKept
<1>1. CASE SharedLine \/ UserRaces
  <2>1. MaskKept BY <1>1 DEF MaskKept
  <2> QED BY <2>1, PTL
<1>2. CASE ~SharedLine /\ ~UserRaces
  <2>1. Init => KeptInv
    BY DEF Init, KeptInv, GateInv, OwnInv, TypeOK, Masks, IrqPcs, BhPcs, DrvPcs,
           WorkOwned, Stages, TopHalfOwns, FoundGate, MaskGate, NeverBusy,
           MaskTravels, Asked
  <2>2. KeptInv /\ [Next]_vars => KeptInv'
    BY <1>2, KeptStep, GateStep, OwnStep, TypeStep DEF KeptInv, GateInv, OwnInv
  <2>3. KeptInv => MaskKept
    BY DEF KeptInv, MaskTravels, MaskKept, Quiet, Asked
  <2> QED BY <2>1, <2>2, <2>3, PTL DEF Spec
<1> QED BY <1>1, <1>2

-------------------------------------------------------------------------------
(* Refinement.                                                                *)

RefInv == GateInv /\ OnlyAsked

LEMMA AskedStep == ASSUME ~UserRaces, RefInv, [Next]_vars PROVE OnlyAsked'
<1> USE DEF RefInv, GateInv, OwnInv, TypeOK, Masks, WorkOwned, Stages, TopHalfOwns,
            FoundGate, MaskGate, NeverBusy, OnlyAsked, Asked,
            irqVars, bhVars, drvVars
<1>1. ASSUME NEW s \in Present, DevRaise(s) PROVE OnlyAsked'
  BY <1>1 DEF DevRaise
<1>2. ASSUME NEW m \in Masks, UserWriteMask(m) PROVE OnlyAsked'
  BY <1>2 DEF UserWriteMask, Quiet
<1>3. CASE IrqEnter
  BY <1>3 DEF IrqEnter
<1>4. CASE IrqReadType
  BY <1>4 DEF IrqReadType
<1>5. CASE IrqReadMask
  BY <1>5 DEF IrqReadMask
<1>6. CASE IrqMaskOff
  BY <1>6 DEF IrqMaskOff
<1>7. CASE IrqNotOurs
  BY <1>7 DEF IrqNotOurs
<1>8. CASE IrqBusy
  BY <1>8 DEF IrqBusy
<1>9. CASE IrqAccept
  BY <1>9 DEF IrqAccept
<1>10. CASE IrqTop
  BY <1>10 DEF IrqTop
<1>11. CASE IrqSchedule
  BY <1>11 DEF IrqSchedule
<1>12. CASE IrqRearmLoad
  BY <1>12 DEF IrqRearmLoad
<1>13. CASE IrqRearm
  BY <1>13 DEF IrqRearm
<1>14. CASE IrqDisableStep
  BY <1>14 DEF IrqDisableStep, IrqDisable
<1>15. CASE BhStart
  BY <1>15 DEF BhStart
<1>16. CASE BhHandle
  BY <1>16 DEF BhHandle
<1>17. CASE BhRest
  BY <1>17 DEF BhRest
<1>18. CASE BhLoad
  BY <1>18 DEF BhLoad
<1>19. CASE BhRearm
  BY <1>19 DEF BhRearm
<1>20. CASE UserReadType
  BY <1>20 DEF UserReadType
<1>21. CASE Configure
  BY <1>21 DEF Configure
<1>22. CASE ListCard
  BY <1>22 DEF ListCard
<1>23. CASE RmUnlist
  BY <1>23 DEF RmUnlist
<1>24. CASE RmMask
  BY <1>24 DEF RmMask
<1>25. CASE RmType
  BY <1>25 DEF RmType
<1>26. CASE RmOff
  BY <1>26 DEF RmOff
<1>27. CASE RmFreeIrq
  BY <1>27 DEF RmFreeIrq
<1>28. CASE RmKill
  BY <1>28 DEF RmKill
<1>29. CASE SiblingRemoved
  BY <1>29 DEF SiblingRemoved
<1>30. CASE UNCHANGED vars
  BY <1>30 DEF vars
<1> QED
  BY <1>1, <1>2, <1>3, <1>4, <1>5, <1>6, <1>7, <1>8, <1>9, <1>10, <1>11,
     <1>12, <1>13, <1>14, <1>15, <1>16, <1>17, <1>18, <1>19, <1>20, <1>21,
     <1>22, <1>23, <1>24, <1>25, <1>26, <1>27, <1>28, <1>29, <1>30
  DEF Next, IrqStep, BhStep, ProcessStep

(* Each step of the engine is a step of the gate or leaves the gate alone.    *)
LEMMA RefinementStep == ASSUME ~UserRaces, RefInv, [Next]_vars
                        PROVE [Gate!GateNext]_(Gate!gate)
<1> USE DEF RefInv, GateInv, OwnInv, TypeOK, Masks, WorkOwned, Stages, TopHalfOwns,
            FoundGate, MaskGate, NeverBusy, irqVars, bhVars, drvVars,
            Found, Gate!gate, Gate!GateNext, Gate!Ask, Gate!Take, Gate!Settle,
            Gate!Reopen, Gate!Close
<1>1. ASSUME NEW s \in Present, DevRaise(s) PROVE [Gate!GateNext]_(Gate!gate)
  BY <1>1 DEF DevRaise
<1>2. ASSUME NEW m \in Masks, UserWriteMask(m) PROVE [Gate!GateNext]_(Gate!gate)
  BY <1>2 DEF UserWriteMask, Quiet
<1>3. CASE IrqEnter
  BY <1>3 DEF IrqEnter
<1>4. CASE IrqReadType
  BY <1>4 DEF IrqReadType
<1>5. CASE IrqReadMask
  <2> USE <1>5 DEF IrqReadMask
  <2>1. CASE reg4 = {}
    BY <2>1
  <2>2. CASE reg4 # {}
    <3>1. int_type = {}
      BY <2>2
    <3>2. Gate!Take(irqType \cap reg4)
      BY <3>1
    <3>3. irqType \cap reg4 \in SUBSET Present
      OBVIOUS
    <3> QED BY <3>2, <3>3
  <2> QED BY <2>1, <2>2
<1>6. CASE IrqMaskOff
  BY <1>6 DEF IrqMaskOff
<1>7. CASE IrqNotOurs
  BY <1>7 DEF IrqNotOurs
<1>8. CASE IrqBusy
  BY <1>8 DEF IrqBusy
<1>9. CASE IrqAccept
  BY <1>9 DEF IrqAccept
<1>10. CASE IrqTop
  BY <1>10 DEF IrqTop
<1>11. CASE IrqSchedule
  BY <1>11 DEF IrqSchedule
<1>12. CASE IrqRearmLoad
  BY <1>12 DEF IrqRearmLoad
<1>13. CASE IrqRearm
  BY <1>13 DEF IrqRearm, OnlyAsked, Asked
<1>14. CASE IrqDisableStep
  BY <1>14 DEF IrqDisableStep, IrqDisable
<1>15. CASE BhStart
  BY <1>15 DEF BhStart
<1>16. CASE BhHandle
  BY <1>16 DEF BhHandle
<1>17. CASE BhRest
  BY <1>17 DEF BhRest
<1>18. CASE BhLoad
  BY <1>18 DEF BhLoad
<1>19. CASE BhRearm
  BY <1>19 DEF BhRearm, OnlyAsked, Asked
<1>20. CASE UserReadType
  BY <1>20 DEF UserReadType
<1>21. CASE Configure
  BY <1>21 DEF Configure
<1>22. CASE ListCard
  BY <1>22 DEF ListCard
<1>23. CASE RmUnlist
  BY <1>23 DEF RmUnlist
<1>24. CASE RmMask
  BY <1>24 DEF RmMask
<1>25. CASE RmType
  BY <1>25 DEF RmType
<1>26. CASE RmOff
  BY <1>26 DEF RmOff
<1>27. CASE RmFreeIrq
  BY <1>27 DEF RmFreeIrq
<1>28. CASE RmKill
  BY <1>28 DEF RmKill
<1>29. CASE SiblingRemoved
  BY <1>29 DEF SiblingRemoved
<1>30. CASE UNCHANGED vars
  BY <1>30 DEF vars
<1> QED
  BY <1>1, <1>2, <1>3, <1>4, <1>5, <1>6, <1>7, <1>8, <1>9, <1>10, <1>11,
     <1>12, <1>13, <1>14, <1>15, <1>16, <1>17, <1>18, <1>19, <1>20, <1>21,
     <1>22, <1>23, <1>24, <1>25, <1>26, <1>27, <1>28, <1>29, <1>30
  DEF Next, IrqStep, BhStep, ProcessStep

(* The engine implements the gate: together with user space that writes the    *)
(* mask between interrupts, its steps are those of InterruptGate.             *)
THEOREM EngineImplementsGate == ASSUME ~UserRaces PROVE Spec => ImplementsGate
<1>1. Init => Gate!GateInit /\ RefInv
  BY DEF Init, RefInv, GateInv, OwnInv, TypeOK, Masks, IrqPcs, BhPcs, DrvPcs,
         WorkOwned, Stages, TopHalfOwns, FoundGate, MaskGate, NeverBusy,
         OnlyAsked, Asked, Gate!GateInit, Found
<1>2. RefInv /\ [Next]_vars => [Gate!GateNext]_(Gate!gate)
  BY RefinementStep
<1>3. RefInv /\ [Next]_vars => RefInv'
  BY AskedStep, GateStep, OwnStep, TypeStep DEF RefInv, GateInv, OwnInv
<1> QED BY <1>1, <1>2, <1>3, PTL DEF Spec, ImplementsGate, Gate!GateSpec
===============================================================================

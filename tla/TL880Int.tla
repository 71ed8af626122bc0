------------------------------- MODULE TL880Int -------------------------------
(***************************************************************************)
(* The interrupt engine of one TL880 card: the enable mask in register 4,  *)
(* the top half tl880_irq, the tasklet tl880_bh, the user-space writes of  *)
(* the mask (TL880IOCWRITEREG) and the part of probe and remove that turns *)
(* interrupts off and on (driver/tl880int.c, driver/tl880kern.c).          *)
(*                                                                         *)
(* A step is one access to a register or to a field of struct tl880_dev    *)
(* that another context also uses.  The registers are external: register 0 *)
(* latches the sources that interrupted and a read clears it ("Clear       *)
(* interrupts", tl880init.c:204), register 4 is the mask.                  *)
(***************************************************************************)
EXTENDS Naturals, Sequences, FiniteSets

CONSTANTS
  Present,     \* the interrupt sources that this instance's card raises
  SharedLine,  \* another device shares the card's interrupt line
  UserRaces,   \* user space writes the mask whenever it likes
  SMP,         \* contexts run on several processors
  Siblings     \* another card may be removed while this one is in use

\* Interrupt types by their bit: the order in which tl880_bh tests them.
BhOrder == <<"vpip", "tsd", "mce", "dpc", "vsc", "apu", "blt", "hpip", "mcu">>

\* The bits of 0x824, which tl880_irq does not know, and any other bit.
Unknown == {"bit2", "bit5", "bit11"}
Sources == {BhOrder[i] : i \in 1..Len(BhOrder)} \cup Unknown \cup {"other"}

\* Sources whose top half always finishes the work, or may finish it.
TopDone  == {"vpip", "dpc"}
TopMaybe == {"apu", "blt"}

ASSUME PresentAssumption  == Present \subseteq Sources
ASSUME SwitchesAssumption == {SharedLine, UserRaces, SMP, Siblings} \subseteq BOOLEAN

Masks == SUBSET Present

VARIABLES
  reg0,      \* register 0: sources latched since the last read
  reg4,      \* register 4: sources allowed to interrupt
  int_type,  \* tl880dev->int_type: accepted sources not yet dealt with
  int_mask,  \* tl880dev->int_mask: the mask to put back into register 4
  irq,       \* where the top half is
  irqType,   \* its local int_type
  irqMask,   \* its local int_mask
  sched,     \* the tasklet is queued
  bh,        \* where the bottom half is
  bhMask,    \* the value tl880_bh is about to write to register 4
  drv,       \* how far probe or remove has come
  listed,    \* the card is reachable from tl880_list
  want       \* history: the mask user space last asked for

vars == <<reg0, reg4, int_type, int_mask, irq, irqType, irqMask,
          sched, bh, bhMask, drv, listed, want>>

IrqPcs == {"idle", "type", "mask", "off", "match", "top", "finish", "rearm",
           "dis_mask", "dis_type", "dis_off"}
BhPcs  == {"idle", "scan", "load", "rearm"}
DrvPcs == {"absent", "probing", "ready",
           "rm_mask", "rm_type", "rm_off", "rm_irq", "rm_kill"}

TypeOK ==
  /\ reg0 \in Masks /\ reg4 \in Masks
  /\ int_type \in Masks /\ int_mask \in Masks
  /\ irq \in IrqPcs /\ irqType \in Masks /\ irqMask \in Masks
  /\ sched \in BOOLEAN /\ bh \in BhPcs /\ bhMask \in Masks
  /\ drv \in DrvPcs /\ listed \in BOOLEAN /\ want \in Masks

\* The card may be powered up with anything in its registers.
Init ==
  /\ reg0 \in Masks /\ reg4 \in Masks
  /\ int_type = {} /\ int_mask = {}
  /\ irq = "idle" /\ irqType = {} /\ irqMask = {}
  /\ sched = FALSE /\ bh = "idle" /\ bhMask = {}
  /\ drv = "absent" /\ listed = FALSE /\ want = {}

irqVars == <<irq, irqType, irqMask>>
bhVars  == <<sched, bh, bhMask>>
drvVars == <<drv, listed, want>>

\* One processor runs a softirq only when no handler runs, and a process
\* only when neither does.
SoftirqMayRun == SMP \/ irq = "idle"
ProcessMayRun == SMP \/ (irq = "idle" /\ bh = "idle")

\* No interrupt is being handled by any context.
Quiet == irq = "idle" /\ bh = "idle" /\ ~sched

-------------------------------------------------------------------------------
(* The card. *)

DevRaise(s) ==
  /\ reg0' = reg0 \cup {s}
  /\ UNCHANGED <<reg4, int_type, int_mask, irqVars, bhVars, drvVars>>

-------------------------------------------------------------------------------
(* tl880_irq. *)

HandlerInstalled == drv \notin {"absent", "rm_kill"}

\* The processor takes the line's interrupt: the card asserts it, or another
\* device on the same line does.
IrqEnter ==
  /\ irq = "idle" /\ HandlerInstalled
  /\ reg0 \cap reg4 # {} \/ SharedLine
  /\ irq' = "type"
  /\ UNCHANGED <<reg0, reg4, int_type, int_mask, irqType, irqMask, bhVars, drvVars>>

IrqReadType ==
  /\ irq = "type"
  /\ irqType' = reg0 /\ reg0' = {}
  /\ irq' = "mask"
  /\ UNCHANGED <<reg4, int_type, int_mask, irqMask, bhVars, drvVars>>

IrqReadMask ==
  /\ irq = "mask"
  /\ irqMask' = reg4 /\ int_mask' = reg4
  /\ irq' = "off"
  /\ UNCHANGED <<reg0, reg4, int_type, irqType, bhVars, drvVars>>

\* Mutant: the card is left enabled while its interrupt is handled.
IrqMaskOffKeeps ==
  /\ irq = "off" /\ irq' = "match"
  /\ UNCHANGED <<reg0, reg4, int_type, int_mask, irqType, irqMask, bhVars, drvVars>>

IrqMaskOff ==
  /\ irq = "off"
  /\ reg4' = {}
  /\ irq' = "match"
  /\ UNCHANGED <<reg0, int_type, int_mask, irqType, irqMask, bhVars, drvVars>>

\* IRQ_NONE: the register keeps the zero written by IrqMaskOff.
IrqNotOurs ==
  /\ irq = "match"
  /\ irqType \cap irqMask = {}
  /\ irq' = "idle" /\ irqType' = {} /\ irqMask' = {}
  /\ UNCHANGED <<reg0, reg4, int_type, int_mask, bhVars, drvVars>>

\* "This should never get executed": turns the card's interrupts off.
IrqBusy ==
  /\ irq = "match"
  /\ irqType \cap irqMask # {} /\ int_type # {}
  /\ irq' = "dis_mask" /\ irqType' = {} /\ irqMask' = {}
  /\ UNCHANGED <<reg0, reg4, int_type, int_mask, bhVars, drvVars>>

\* Mutant: accepts without looking at the work still owed.
IrqAcceptBlindly ==
  /\ irq = "match" /\ irqType \cap irqMask # {}
  /\ int_mask' = irqMask /\ int_type' = irqType \cap irqMask
  /\ irq' = "top" /\ irqType' = {} /\ irqMask' = {}
  /\ UNCHANGED <<reg0, reg4, bhVars, drvVars>>

IrqAccept ==
  /\ irq = "match"
  /\ irqType \cap irqMask # {} /\ int_type = {}
  /\ int_mask' = irqMask
  /\ int_type' = irqType \cap irqMask
  /\ irq' = "top" /\ irqType' = {} /\ irqMask' = {}
  /\ UNCHANGED <<reg0, reg4, bhVars, drvVars>>

\* Mutant: sets the unknown bits in int_mask instead of clearing them.
IrqTopSetsUnknown ==
  /\ irq = "top" /\ irq' = "finish"
  /\ \E done \in SUBSET TopMaybe : int_type' = int_type \ (TopDone \cup done)
  /\ int_mask' = IF int_type \cap Unknown # {} THEN int_mask \cup Unknown ELSE int_mask
  /\ UNCHANGED <<reg0, reg4, irqType, irqMask, bhVars, drvVars>>

\* The per-source handlers, in which the APU and BLT status registers decide
\* whether a bottom half is needed.
IrqTop ==
  /\ irq = "top"
  /\ \E done \in SUBSET TopMaybe :
        int_type' = int_type \ (TopDone \cup done)
  /\ int_mask' = IF int_type \cap Unknown # {} THEN int_mask \ Unknown ELSE int_mask
  /\ irq' = "finish"
  /\ UNCHANGED <<reg0, reg4, irqType, irqMask, bhVars, drvVars>>

\* Mutant: returns without queueing the tasklet.
IrqScheduleForgets ==
  /\ irq = "finish" /\ int_type # {} /\ irq' = "idle"
  /\ UNCHANGED <<reg0, reg4, int_type, int_mask, irqType, irqMask, bhVars, drvVars>>

IrqSchedule ==
  /\ irq = "finish" /\ int_type # {}
  /\ sched' = TRUE
  /\ irq' = "idle"
  /\ UNCHANGED <<reg0, reg4, int_type, int_mask, irqType, irqMask, bh, bhMask, drvVars>>

IrqRearmLoad ==
  /\ irq = "finish" /\ int_type = {}
  /\ irqMask' = int_mask
  /\ irq' = "rearm"
  /\ UNCHANGED <<reg0, reg4, int_type, int_mask, irqType, bhVars, drvVars>>

\* Mutant: does not re-enable interrupts when no bottom half is needed.
IrqRearmForgets ==
  /\ irq = "rearm" /\ irq' = "idle" /\ irqMask' = {}
  /\ UNCHANGED <<reg0, reg4, int_type, int_mask, irqType, bhVars, drvVars>>

IrqRearm ==
  /\ irq = "rearm"
  /\ reg4' = irqMask
  /\ irq' = "idle" /\ irqMask' = {}
  /\ UNCHANGED <<reg0, int_type, int_mask, irqType, bhVars, drvVars>>

\* tl880_disable_interrupts called by the top half, in its three stores.
IrqDisable ==
  \/ /\ irq = "dis_mask" /\ irq' = "dis_type"
     /\ int_mask' = {}
     /\ UNCHANGED <<reg0, reg4>>
  \/ /\ irq = "dis_type" /\ irq' = "dis_off"
     /\ reg0' = {}
     /\ UNCHANGED <<int_mask, reg4>>
  \/ /\ irq = "dis_off" /\ irq' = "idle"
     /\ reg4' = {}
     /\ UNCHANGED <<int_mask, reg0>>

IrqDisableStep ==
  /\ IrqDisable
  /\ UNCHANGED <<int_type, irqType, irqMask, bhVars, drvVars>>

IrqStep ==
  \/ IrqReadType \/ IrqReadMask \/ IrqMaskOff
  \/ IrqNotOurs \/ IrqBusy \/ IrqAccept
  \/ IrqTop \/ IrqSchedule \/ IrqRearmLoad \/ IrqRearm
  \/ IrqDisableStep

-------------------------------------------------------------------------------
(* tl880_bh. *)

BhStart ==
  /\ SoftirqMayRun /\ sched /\ bh = "idle"
  /\ sched' = FALSE
  /\ bh' = IF listed THEN "scan" ELSE "idle"   \* find_tl880 found no card
  /\ UNCHANGED <<reg0, reg4, int_type, int_mask, irqVars, bhMask, drvVars>>

\* The first source, in the order of the tests, whose bit is set.
BhFirst(S) ==
  {BhOrder[i] : i \in {j \in 1..Len(BhOrder) :
                         /\ BhOrder[j] \in S
                         /\ \A k \in 1..(j - 1) : BhOrder[k] \notin S}}

\* One test of the bottom half: the bit is cleared, and when no other is left
\* it goes to "done".
BhHandle ==
  /\ SoftirqMayRun /\ bh = "scan"
  /\ \E s \in BhFirst(int_type) :
       /\ int_type' = int_type \ {s}
       /\ bh' = IF int_type' = {} THEN "load" ELSE "scan"
  /\ UNCHANGED <<reg0, reg4, int_mask, irqVars, sched, bhMask, drvVars>>

\* Mutant: the final "int_type = 0" is missing.
BhRestKeeps ==
  /\ SoftirqMayRun /\ bh = "scan" /\ BhFirst(int_type) = {} /\ bh' = "load"
  /\ UNCHANGED <<reg0, reg4, int_type, int_mask, irqVars, sched, bhMask, drvVars>>

\* Bits no test knows are dropped at the end.
BhRest ==
  /\ SoftirqMayRun /\ bh = "scan"
  /\ BhFirst(int_type) = {}
  /\ int_type' = {}
  /\ bh' = "load"
  /\ UNCHANGED <<reg0, reg4, int_mask, irqVars, sched, bhMask, drvVars>>

BhLoad ==
  /\ SoftirqMayRun /\ bh = "load"
  /\ bhMask' = int_mask
  /\ bh' = "rearm"
  /\ UNCHANGED <<reg0, reg4, int_type, int_mask, irqVars, sched, drvVars>>

\* Mutant: the bottom half ends without re-enabling interrupts.
BhRearmForgets ==
  /\ SoftirqMayRun /\ bh = "rearm" /\ bh' = "idle" /\ bhMask' = {}
  /\ UNCHANGED <<reg0, reg4, int_type, int_mask, irqVars, sched, drvVars>>

BhRearm ==
  /\ SoftirqMayRun /\ bh = "rearm"
  /\ reg4' = bhMask
  /\ bh' = "idle" /\ bhMask' = {}
  /\ UNCHANGED <<reg0, int_type, int_mask, irqVars, sched, drvVars>>

BhStep == BhStart \/ BhHandle \/ BhRest \/ BhLoad \/ BhRearm

-------------------------------------------------------------------------------
(* Processes: ioctl, probe and remove. *)

\* TL880IOCWRITEREG of register 4; the ioctl finds only listed cards.
UserWriteMask(m) ==
  /\ ProcessMayRun /\ drv = "ready" /\ listed
  /\ UserRaces \/ Quiet
  /\ reg4' = m /\ want' = m
  /\ UNCHANGED <<reg0, int_type, int_mask, irqVars, bhVars, drv, listed>>

\* TL880IOCREADREG of register 0.
UserReadType ==
  /\ ProcessMayRun /\ drv = "ready" /\ listed /\ UserRaces
  /\ reg0' = {}
  /\ UNCHANGED <<reg4, int_type, int_mask, irqVars, bhVars, drvVars>>

\* tl880_configure: a new struct, interrupts disabled, then request_irq.
Configure ==
  /\ drv = "absent"
  /\ drv' = "probing"
  /\ int_type' = {} /\ int_mask' = {} /\ reg0' = {} /\ reg4' = {}
  /\ UNCHANGED <<irqVars, bhVars, listed, want>>

\* tl880_init_dev, which disables interrupts once more, then the list append.
ListCard ==
  /\ ProcessMayRun /\ drv = "probing"
  /\ int_mask' = {} /\ reg0' = {} /\ reg4' = {}
  /\ drv' = "ready" /\ listed' = TRUE /\ want' = {}
  /\ UNCHANGED <<int_type, irqVars, bhVars>>

\* tl880_remove takes the card off the list before tl880_unconfigure.
RmUnlist ==
  /\ ProcessMayRun /\ drv = "ready" /\ listed
  /\ drv' = "rm_mask" /\ listed' = FALSE
  /\ UNCHANGED <<reg0, reg4, int_type, int_mask, irqVars, bhVars, want>>

\* tl880_disable_interrupts called by tl880_unconfigure, in its three stores.
RmMask ==
  /\ ProcessMayRun /\ drv = "rm_mask"
  /\ drv' = "rm_type" /\ int_mask' = {}
  /\ UNCHANGED <<reg0, reg4, int_type, irqVars, bhVars, listed, want>>

RmType ==
  /\ ProcessMayRun /\ drv = "rm_type"
  /\ drv' = "rm_off" /\ reg0' = {}
  /\ UNCHANGED <<reg4, int_type, int_mask, irqVars, bhVars, listed, want>>

RmOff ==
  /\ ProcessMayRun /\ drv = "rm_off"
  /\ drv' = "rm_irq" /\ reg4' = {}
  /\ UNCHANGED <<reg0, int_type, int_mask, irqVars, bhVars, listed, want>>

\* free_irq waits for a running handler.
RmFreeIrq ==
  /\ ProcessMayRun /\ drv = "rm_irq" /\ irq = "idle"
  /\ drv' = "rm_kill"
  /\ UNCHANGED <<reg0, reg4, int_type, int_mask, irqVars, bhVars, listed, want>>

\* Mutant: the struct is freed without killing the tasklet.
RmKillNoWait ==
  /\ ProcessMayRun /\ drv = "rm_kill" /\ drv' = "absent"
  /\ UNCHANGED <<reg0, reg4, int_type, int_mask, irqVars, bhVars, listed, want>>

\* tasklet_kill waits until the tasklet is neither queued nor running; the
\* struct is freed.
RmKill ==
  /\ ProcessMayRun /\ drv = "rm_kill" /\ ~sched /\ bh = "idle"
  /\ drv' = "absent"
  /\ UNCHANGED <<reg0, reg4, int_type, int_mask, irqVars, bhVars, listed, want>>

\* tl880_remove of the card at the head of the list sets tl880_list to NULL,
\* which takes every other card off it as well.
SiblingRemoved ==
  /\ Siblings /\ ProcessMayRun /\ drv = "ready" /\ listed
  /\ listed' = FALSE
  /\ UNCHANGED <<reg0, reg4, int_type, int_mask, irqVars, bhVars, drv, want>>

ProcessStep ==
  \/ \E m \in Masks : UserWriteMask(m)
  \/ UserReadType
  \/ Configure \/ ListCard
  \/ RmUnlist \/ RmMask \/ RmType \/ RmOff \/ RmFreeIrq \/ RmKill
  \/ SiblingRemoved

Next ==
  \/ \E s \in Present : DevRaise(s)
  \/ IrqEnter \/ IrqStep
  \/ BhStep
  \/ ProcessStep

Spec == Init /\ [][Next]_vars

\* The processor takes an interrupt that the card keeps asserting, a handler
\* runs to its end, and a queued softirq is run.
Fairness ==
  /\ WF_vars(IrqEnter /\ reg0 \cap reg4 # {})
  /\ WF_vars(IrqStep)
  /\ WF_vars(BhStep)

FairSpec == Spec /\ Fairness

-------------------------------------------------------------------------------
(* Properties. *)

TopHalfOwns == irq \in {"top", "finish"}

\* Accepted work has one owner: the top half, the queued tasklet or the running
\* one.  Two of them never hold work at the same time, the tasklet is never
\* queued or scanning with nothing to do, and on a listed card no accepted
\* source is left behind with nobody to handle it and register 4 at zero
\* (tl880_irq 389-398 and 502-508, tl880_bh 247-343).
WorkOwned ==
  /\ sched \/ bh = "scan" \/ irq = "top" => int_type # {}
  /\ ~(TopHalfOwns /\ sched) /\ ~(TopHalfOwns /\ bh = "scan") /\ ~(sched /\ bh = "scan")
  /\ listed /\ int_type # {} => TopHalfOwns \/ sched \/ bh = "scan"

\* While user space leaves the mask alone, no source may interrupt from the
\* moment one is accepted until its bottom half is over; for the transport
\* stream demultiplexer this is what keeps the machine from locking up
\* (tl880_irq 376 and 419-423, tl880_bh 345-347).
MaskGate ==
  ~UserRaces =>
    /\ int_type # {} \/ bh # "idle" \/ sched => reg4 = {}
    /\ irq \in {"top", "finish", "rearm"} => reg4 = {}

\* "This should never get executed" (tl880_irq 388-395): the top half never
\* accepts a source while it still owes work for an earlier one.
NeverBusy == irq \notin {"dis_mask", "dis_type", "dis_off"}
NeverBusyAlone == ~UserRaces => NeverBusy

\* On a line of its own, a listed card at rest has the mask that user space
\* asked for, less at most the unknown sources: no sequence of interrupts loses
\* or invents an enable bit (tl880_irq 373-398 and 499-508, tl880_bh 347).
MaskKept ==
  ~SharedLine /\ ~UserRaces =>
    (drv = "ready" /\ listed /\ Quiet => reg4 \in {want, want \ Unknown})

\* The same claim without the conditions on the line and on user space, as the
\* comment "the interrupt was for some other device" (tl880int.c:378) has it.
MaskKeptAlways ==
  drv = "ready" /\ listed /\ Quiet => reg4 \in {want, want \ Unknown}

\* Once the card is removed and its struct freed, neither half of the handler
\* runs or is queued (tl880_unconfigure 871-879).
RemovalQuiesces == drv = "absent" => Quiet

\* Every accepted source is dealt with (tl880_bh).
WorkDone == \A s \in Present : s \in int_type /\ listed ~> s \notin int_type \/ ~listed

\* The card's interrupts never stay off: whenever register 4 is zero although
\* user space wants known sources enabled, it is written back later.
WantsKnown == drv = "ready" /\ listed /\ want \ Unknown # {}
Rearmed == WantsKnown ~> (reg4 # {} \/ ~WantsKnown)

-------------------------------------------------------------------------------
(* The engine implements the gate when user space leaves the mask alone while *)
(* an interrupt is handled.  Work counts as taken when the top half has read  *)
(* the mask, and the gate as closed from there on.                            *)

Found == IF irq \in {"off", "match"} THEN irqType \cap irqMask ELSE {}

Gate == INSTANCE InterruptGate WITH
          Lines <- Present, Dubious <- Unknown,
          mask <- IF irq = "off" THEN {} ELSE reg4,
          owed <- int_type \cup Found,
          asked <- want

\* Every step of the engine is a step of the gate: work is taken only from
\* enabled sources and closes the gate in the same step, and the gate opens
\* again only with nothing owed, to the mask asked for (tl880_irq, tl880_bh).
ImplementsGate == Gate!GateSpec
===============================================================================

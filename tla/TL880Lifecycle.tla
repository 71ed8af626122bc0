---------------------------- MODULE TL880Lifecycle ----------------------------
(***************************************************************************)
(* The life of one card: what tl880_probe acquires, in which order, what   *)
(* each of its error paths gives back, and what tl880_remove takes down    *)
(* under the interrupt handler, the tasklet, a chip driver on the I2C bus  *)
(* and an ioctl (driver/tl880kern.c, tl880init.c, tl880i2c.c, tl880audio.c,*)
(* tl880mem.c).                                                            *)
(*                                                                         *)
(* A resource is a member of held.  The adapters of a card are one         *)
(* resource, and so are its two audio buffers.  What the handler and the   *)
(* tasklet do is TL880Int's; here only their use of the card counts.       *)
(***************************************************************************)
EXTENDS Integers, Sequences

CONSTANTS
  MaxWait,  \* how often tl880_init_myhd looks for the audio chip (100)
  Unplug    \* the card may go while a process has its device file open

ASSUME MaxWaitAssumption == MaxWait \in Nat \ {0}
ASSUME UnplugAssumption  == Unplug \in BOOLEAN

VARIABLES
  pc,       \* "absent", "probe", "up", "undo" (tl880_unconfigure) or "dead" (an oops)
  step,     \* position in ProbeOrder or UndoOrder
  cause,    \* who called tl880_unconfigure: "probe" or "remove"
  held,     \* resources of the card
  listed,   \* it is in tl880_list
  type,     \* card_type, "unset" until it is detected
  waited,   \* i of tl880_init_myhd's loop
  fault,    \* what killed the kernel
  handler,  \* tl880_irq: "idle" or "run", on behalf of this card
  bh,       \* its tasklet: "idle", "queued" or "run", with the card's pointer
  client,   \* a chip driver on the bus: "none", "idle" or "busy" with a transfer
  file,     \* a process has the device file: "closed", "open" or "ioctl"
  user      \* ... and its ioctl has the card's pointer: "none" or "has"

driverVars == <<pc, step, cause, held, listed, type, waited, fault>>
userVars   == <<handler, bh, client, file, user>>
vars       == <<driverVars, userVars>>

ProbeOrder == <<"dev", "mask", "mem", "reg", "unk", "dma", "tasklet", "cdev",
                "detect", "irq", "pool", "i2c", "bus", "card", "audio", "list">>
\* Mutant: the registers are unmapped before the buses are removed.
UndoOrderUnmapFirst ==
  <<"deinit", "cdev", "irq", "sync", "tasklet", "unmap", "i2c", "dma", "pool", "dev">>
UndoOrder  == <<"deinit", "cdev", "irq", "sync", "tasklet", "i2c", "unmap", "dma", "pool", "dev">>

Mappings  == {"mem", "reg", "unk"}
Resources == Mappings \cup {"dev", "dma", "tasklet", "cdev", "irq", "pool", "i2c", "bus", "iau", "iec"}

TypeOK ==
  /\ pc \in {"absent", "probe", "up", "undo", "dead"}
  /\ step \in 1..Len(ProbeOrder)
  /\ cause \in {"probe", "remove"}
  /\ held \subseteq Resources
  /\ listed \in {"no", "yes"}
  /\ type \in {"unset", "myhd", "other"}
  /\ waited \in 0..MaxWait
  /\ fault \in {"none", "cdev", "i2c", "double free"}
  /\ handler \in {"idle", "run"} /\ bh \in {"idle", "queued", "run"}
  /\ client \in {"none", "idle", "busy"}
  /\ file \in {"closed", "open", "ioctl"} /\ user \in {"none", "has"}

Init ==
  /\ pc = "absent" /\ step = 1 /\ cause = "remove" /\ held = {} /\ listed = "no"
  /\ type = "unset" /\ waited = 0 /\ fault = "none"
  /\ handler = "idle" /\ bh = "idle" /\ client = "none" /\ file = "closed" /\ user = "none"

-------------------------------------------------------------------------------
(* tl880_probe and tl880_configure. *)

At(s) == pc = "probe" /\ ProbeOrder[step] = s
On(h) == step' = step + 1 /\ held' = h /\ UNCHANGED <<pc, cause, listed, fault>>

Oops(f) == pc' = "dead" /\ fault' = f /\ UNCHANGED <<step, cause, held, listed>>

\* The error path through tl880_unconfigure.
Undo == pc' = "undo" /\ step' = 1 /\ cause' = "probe" /\ UNCHANGED <<held, listed, fault>>

\* The error path that frees the struct only, or nothing.
Abandon == pc' = "absent" /\ held' = held \ {"dev"} /\ UNCHANGED <<step, cause, listed, fault>>

Probe ==
  /\ pc = "absent"
  /\ pc' = "probe" /\ step' = 1 /\ type' = "unset" /\ waited' = 0
  /\ UNCHANGED <<cause, held, listed, fault, userVars>>

ProbeDev  == At("dev") /\ (On({"dev"}) \/ Abandon)
ProbeMask == At("mask") /\ (On(held) \/ Abandon)

\* A region of length zero fails the probe; ioremap's own result is not checked.
ProbeMap(r) == At(r) /\ (On(held \cup {r}) \/ On(held) \/ Undo)

ProbeDma     == At("dma") /\ (On(held \cup {"dma"}) \/ On(held))
ProbeTasklet == At("tasklet") /\ On(held \cup {"tasklet"})

\* cdev_alloc's result is used unchecked; cdev_add's failure is only logged.
ProbeCdev == At("cdev") /\ (On(held \cup {"cdev"}) \/ Oops("cdev"))

ProbeDetect == At("detect") /\ On(held) /\ type' \in {"myhd", "other"} /\ UNCHANGED waited

ProbeIrq  == At("irq") /\ (On(held \cup {"irq"}) \/ Undo)
ProbePool == At("pool") /\ (On(held \cup {"pool"}) \/ On(held))

\* kmalloc's result is used unchecked; i2c_bit_add_bus's is not looked at.
ProbeI2c == At("i2c") /\ (On(held \cup {"i2c"}) \/ Oops("i2c"))
ProbeBus == At("bus") /\ (On(held \cup {"bus"}) \/ On(held))

\* Mutant: the loop that waits for the audio chip has no limit.
CardWaitsForever ==
  /\ At("card") /\ type = "myhd" /\ client = "none"
  /\ waited' = IF waited < MaxWait - 1 THEN waited + 1 ELSE 0
  /\ UNCHANGED <<pc, step, cause, held, listed, fault, type, userVars>>

\* Mutant: it looks once too often.
CardWaitsOnceMore ==
  /\ At("card") /\ type = "myhd" /\ client = "none" /\ waited <= MaxWait
  /\ waited' = waited + 1
  /\ UNCHANGED <<pc, step, cause, held, listed, fault, type, userVars>>

\* tl880_init_myhd looks for the audio chip's client and sleeps.
CardWaits ==
  /\ At("card") /\ type = "myhd" /\ client = "none" /\ waited < MaxWait
  /\ waited' = waited + 1
  /\ UNCHANGED <<pc, step, cause, held, listed, fault, type, userVars>>

ProbeCard == At("card") /\ (type = "myhd" => client # "none" \/ waited = MaxWait) /\ On(held)

\* tl880_init_hardware_audio after tl880_deinit_hardware_audio.
ProbeAudio ==
  /\ At("audio")
  /\ \/ "pool" \in held /\ (On(held \cup {"iau", "iec"}) \/ On(held \cup {"iau"}))
     \/ On(held)

ProbeList ==
  /\ At("list")
  /\ pc' = "up" /\ listed' = "yes"
  /\ UNCHANGED <<step, cause, held, fault>>

ProbeStep ==
  \/ /\ \/ ProbeDev \/ ProbeMask \/ (\E r \in Mappings : ProbeMap(r)) \/ ProbeDma
        \/ ProbeTasklet \/ ProbeCdev \/ ProbeIrq \/ ProbePool \/ ProbeI2c \/ ProbeBus
        \/ ProbeCard \/ ProbeAudio \/ ProbeList
     /\ UNCHANGED <<type, waited, userVars>>
  \/ ProbeDetect /\ UNCHANGED userVars
  \/ CardWaits

-------------------------------------------------------------------------------
(* tl880_remove and tl880_unconfigure. *)

\* A process with the device file open pins the module, but not the card.
MayGo == Unplug \/ file = "closed"

\* Mutant: the card stays in the list while it is taken down.
RemoveKeepsListed ==
  /\ pc = "up" /\ MayGo
  /\ pc' = "undo" /\ step' = 1 /\ cause' = "remove"
  /\ UNCHANGED <<held, listed, type, waited, fault, userVars>>

Remove ==
  /\ pc = "up" /\ MayGo
  /\ listed' = "no"
  /\ pc' = "undo" /\ step' = 1 /\ cause' = "remove"
  /\ UNCHANGED <<held, type, waited, fault, userVars>>

Undoing(s) == pc = "undo" /\ UndoOrder[step] = s
Release(R) == On(held \ R)

\* Mutant: the audio buffers are not given back.
UndoDeinitKeepsAudio == Undoing("deinit") /\ Release({"iec"})

UndoDeinit == Undoing("deinit") /\ Release({"iau", "iec"})
UndoCdev   == Undoing("cdev") /\ IF "cdev" \in held THEN Release({"cdev"}) ELSE Oops("cdev")

\* free_irq takes the handler off the line, then waits for it.
UndoIrq     == Undoing("irq") /\ Release({"irq"})
UndoSync    == Undoing("sync") /\ handler = "idle" /\ On(held)
UndoTasklet == Undoing("tasklet") /\ bh = "idle" /\ Release({"tasklet"})

\* i2c_del_adapter detaches the chip driver, which first ends its transfer.
UndoI2c == Undoing("i2c") /\ client # "busy" /\ Release({"i2c", "bus"})

UndoUnmap == Undoing("unmap") /\ Release(Mappings)
UndoDma   == Undoing("dma") /\ Release({"dma"})
UndoPool  == Undoing("pool") /\ Release({"pool"})

\* tl880_delete_dev; tl880_configure's error path calls it once more.
UndoDev ==
  /\ Undoing("dev")
  /\ held' = held \ {"dev"}
  /\ IF cause = "remove"
       THEN pc' = "absent" /\ UNCHANGED fault
       ELSE pc' = "dead" /\ fault' = "double free"
  /\ UNCHANGED <<step, cause, listed>>

UndoStep ==
  /\ \/ /\ \/ UndoDeinit \/ UndoCdev \/ UndoIrq \/ UndoSync \/ UndoTasklet
           \/ UndoUnmap \/ UndoDma \/ UndoPool \/ UndoDev
        /\ UNCHANGED client
     \/ UndoI2c /\ client' = "none"
  /\ UNCHANGED <<type, waited, handler, bh, file, user>>

-------------------------------------------------------------------------------
(* Those who use the card meanwhile. *)

Alive == pc # "dead"

\* The line is shared: an interrupt may come as soon as the handler is on it.
IrqEnters ==
  /\ Alive /\ "irq" \in held /\ handler = "idle"
  /\ handler' = "run"
  /\ UNCHANGED <<driverVars, bh, client, file, user>>

IrqLeaves ==
  /\ Alive /\ handler = "run"
  /\ handler' = "idle"
  /\ bh' \in IF bh = "idle" THEN {"idle", "queued"} ELSE {bh}
  /\ UNCHANGED <<driverVars, client, file, user>>

\* tl880_bh looks its card up by id.
BhRuns ==
  /\ Alive /\ bh = "queued"
  /\ bh' = IF listed = "yes" THEN "run" ELSE "idle"
  /\ UNCHANGED <<driverVars, handler, client, file, user>>

BhEnds ==
  /\ Alive /\ bh = "run"
  /\ bh' = "idle"
  /\ UNCHANGED <<driverVars, handler, client, file, user>>

\* tl880_i2c_attach_inform and tl880_i2c_detach_inform.
Attach ==
  /\ Alive /\ "bus" \in held /\ client = "none"
  /\ client' = "idle"
  /\ UNCHANGED <<driverVars, handler, bh, file, user>>

Detach ==
  /\ Alive /\ client = "idle"
  /\ client' = "none"
  /\ UNCHANGED <<driverVars, handler, bh, file, user>>

Transfer ==
  /\ Alive /\ client # "none"
  /\ client' = IF client = "idle" THEN "busy" ELSE "idle"
  /\ UNCHANGED <<driverVars, handler, bh, file, user>>

OpenFile ==
  /\ Alive /\ "cdev" \in held /\ file = "closed"
  /\ file' = "open"
  /\ UNCHANGED <<driverVars, handler, bh, client, user>>

\* tl880_ioctl looks the card up by the minor number, then uses the pointer.
Ioctl ==
  /\ Alive /\ file = "open"
  /\ IF listed = "yes" THEN file' = "ioctl" /\ user' = "has" ELSE UNCHANGED <<file, user>>
  /\ UNCHANGED <<driverVars, handler, bh, client>>

IoctlEnds ==
  /\ Alive /\ file = "ioctl"
  /\ file' = "open" /\ user' = "none"
  /\ UNCHANGED <<driverVars, handler, bh, client>>

CloseFile ==
  /\ Alive /\ file = "open"
  /\ file' = "closed"
  /\ UNCHANGED <<driverVars, handler, bh, client, user>>

UserStep ==
  \/ IrqEnters \/ IrqLeaves \/ BhRuns \/ BhEnds \/ Attach \/ Detach \/ Transfer
  \/ OpenFile \/ Ioctl \/ IoctlEnds \/ CloseFile

Next == Probe \/ ProbeStep \/ Remove \/ UndoStep \/ UserStep

Spec == Init /\ [][Next]_vars

\* The kernel runs the probe and the removal on; handlers and tasklets end, and
\* so does a transfer, which the I2C core serialises with detaching.
FairSpec ==
  /\ Spec
  /\ WF_vars(ProbeStep) /\ SF_vars(UndoStep)
  /\ WF_vars(IrqLeaves) /\ WF_vars(BhRuns \/ BhEnds) /\ WF_vars(client = "busy" /\ Transfer)

-------------------------------------------------------------------------------
(* Properties. *)

\* A card that is gone, after whichever failure or removal, holds nothing
\* (tl880_configure 729-821, tl880_unconfigure 865-915).
NothingLeaks == pc = "absent" => held = {}

\* What a user of the card reaches through its pointer is released only when no
\* one is inside, unless the card is pulled under an open device file: the
\* handler (free_irq 874), the tasklet (tasklet_kill 879), the chip drivers
\* (deinit_i2c 882), the ioctls (module count) are stopped before the registers are
\* unmapped (889) and the struct is freed (915); and the audio buffer goes back
\* before its pool does, or gen_pool_destroy's BUG_ON stops the kernel (genalloc.c
\* 103).
ReleaseUnused ==
  /\ [][\A r \in {"dev", "reg", "mem"} :
          r \in held /\ r \notin held' =>
            /\ handler = "idle" /\ bh # "run" /\ client = "none"
            /\ ~Unplug => user = "none"]_vars
  /\ [][{"pool", "iau"} \subseteq held => "pool" \in held']_vars

\* Whoever finds the card in the list finds it whole: the handler, the tasklet,
\* the device file and the buses stay until it is unlisted (tl880_configure 831-847,
\* tl880_remove 966-983).
ListedIsWhole ==
  listed = "yes" => {"dev", "tasklet", "cdev", "irq", "i2c"} \subseteq held

\* A probe ends, with or without an audio chip (tl880_init_myhd 295-308), and so does
\* a removal, however often the line interrupts meanwhile.
ProbeAndRemovalEnd == (pc = "probe" ~> pc # "probe") /\ (pc = "undo" ~> pc # "undo")

\* "Return the next card in the linked list and free this one"
\* (tl880_unconfigure 913): the card is freed once.
NoDoubleFree == fault # "double free"
===============================================================================

--------------------------------- MODULE TL880Fb ---------------------------------
(***************************************************************************)
(* The display and the framebuffer module (tl880fb/tl880fb.c): what a card *)
(* probe leaves in the display's registers (driver/tl880init.c,            *)
(* driver/tl880dpc.c), the module's start, which registers the device      *)
(* before it has set the mode, and what opens it meanwhile; and the tool   *)
(* that sets the same registers from user space (tools/dpc/dpcsync.c).     *)
(* The start and a run of the tool are lists of steps.  A write of some    *)
(* bits of register 10000 is two, a read and a write.                      *)
(***************************************************************************)
EXTENDS TL880Modes

CONSTANT MaxOpens  \* bound: descriptors of the framebuffer at a time

ASSUME MaxOpensAssumption == MaxOpens \in Nat

VARIABLES
  fbdev,    \* the framebuffer device: "in" once it is registered, or "out"
  opens,    \* its descriptors
  work,     \* steps that the module ("fb") and the tool ("tool") have to do
  seen,     \* the value of register 10000 that the module has read
  control,  \* register 10000: the bits that are set
  osdlist,  \* the display list in card memory: "foreign" or "installed"
  osdpos,   \* whether register 10084 points to it
  fbmem,    \* the picture in card memory: "foreign", "clear" or "drawn"
  video,    \* line 2, the video output
  mbox,     \* registers 25728 and 2573c: descriptors and lines left
  timing,   \* registers 10014 to 10028
  scale,    \* registers 100c8 and 100cc; their sources
  dotclock  \* register 5800 and line 6

fbVars == <<fbdev, opens, work, seen, control, osdlist, osdpos, fbmem, video, mbox,
            timing, scale, dotclock>>

ControlBits == {1, 2, 4, 5, 7, 8}  \* bvdo, OSD, aux, output, -, color bars
OSD == 2

NoScale == [h |-> Word12(0, 0, 0), v |-> Word12(0, 0, 0), from |-> <<0, 0>>]

\* What is on a list of steps; "bit" and "on" are those of a write.
FbStepNames == {"mailbox", "lines", "sync", "hscale", "vscale", "read", "write", "list",
                "position", "clear", "control"}
FbStep == [do : FbStepNames, bit : ControlBits \cup {0}, on : {0, 1}]

FbTypeOK ==
  /\ fbdev \in {"out", "in"} /\ opens \in 0..MaxOpens
  /\ work \in [{"fb", "tool"} -> Seq(FbStep)]
  /\ seen \subseteq ControlBits /\ control \subseteq ControlBits
  /\ osdlist \in {"foreign", "installed"} /\ osdpos \in {0, 1}
  /\ fbmem \in {"foreign", "clear", "drawn"} /\ video \in {0, 1}
  /\ mbox \in {0, 1} \X {0, 1}
  /\ DOMAIN timing = 1..Len(FieldWidths)
  /\ DOMAIN scale = {"h", "v", "from"} /\ dotclock \in Int \X {0, 1}

-------------------------------------------------------------------------------
(* The card's probe. *)

\* tl880_default_dpc_reg and tl880_init_dpc_pll, for whatever the card did before.
FbInit ==
  /\ fbdev = "out" /\ opens = 0 /\ work = [w \in {"fb", "tool"} |-> <<>>]
  /\ seen = {} /\ control = {7}
  /\ osdlist = "foreign" /\ osdpos = 0 /\ fbmem = "foreign" /\ video \in {0, 1}
  /\ mbox \in {0, 1} \X {0, 1}
  /\ timing = Off /\ scale = NoScale /\ dotclock = DpcClock(1024, FALSE)

\* The next probe; other programs may have used the memory in between.
ResetDisplay ==
  /\ fbdev = "out" /\ work["fb"] = <<>> /\ work["tool"] = <<>>
  /\ control' = {7} /\ osdpos' = 0 /\ timing' = Off /\ scale' = NoScale
  /\ dotclock' = DpcClock(1024, FALSE)
  /\ osdlist' = "foreign" /\ fbmem' = "foreign"
  /\ UNCHANGED <<fbdev, opens, work, seen, video, mbox>>

-------------------------------------------------------------------------------
(* The steps. *)

Do(name)     == <<[do |-> name, bit |-> 0, on |-> 0]>>
Rmw(bit, on) == Do("read") \o <<[do |-> "write", bit |-> bit, on |-> on]>>

AuxReset == Do("mailbox") \o Do("lines")

\* Mutant: the OSD is turned on before there is a list.
FbStepsListLate ==
  AuxReset \o Do("sync") \o Do("hscale") \o Do("vscale")
  \o Rmw(OSD, 0) \o Do("position") \o Do("clear") \o Rmw(OSD, 1) \o Do("list")
  \o Rmw(7, 0) \o Rmw(5, 1)

FbSteps ==
  AuxReset \o Do("sync") \o Do("hscale") \o Do("vscale")
  \o Rmw(OSD, 0) \o Do("list") \o Do("position") \o Do("clear") \o Rmw(OSD, 1)
  \o Rmw(7, 0) \o Rmw(5, 1)

DpcSyncSteps == AuxReset \o Do("sync") \o Do("hscale") \o Do("vscale") \o Do("control")

Step(w, name) == work[w] # <<>> /\ Head(work[w]).do = name
Done(w)       == work' = [work EXCEPT ![w] = Tail(@)] /\ UNCHANGED <<fbdev, opens>>

\* The loops of aux_reset write zero until they read it.
ClearMailbox(w) ==
  /\ Step(w, "mailbox")
  /\ IF mbox[1] # 0 THEN mbox' = <<0, mbox[2]>> /\ UNCHANGED <<fbdev, opens, work>>
     ELSE Done(w) /\ UNCHANGED mbox
  /\ UNCHANGED <<seen, control, osdlist, osdpos, fbmem, video, timing, scale, dotclock>>

ClearLines(w) ==
  /\ Step(w, "lines")
  /\ IF mbox[2] # 0 THEN mbox' = <<mbox[1], 0>> /\ UNCHANGED <<fbdev, opens, work>>
     ELSE Done(w) /\ UNCHANGED mbox
  /\ UNCHANGED <<seen, control, osdlist, osdpos, fbmem, video, timing, scale, dotclock>>

\* The module inverts both syncs; the tool is told.
SetSync(w) ==
  /\ Step(w, "sync") /\ Done(w)
  /\ \/ w = "fb" /\ timing' = Packed(FbSync1024x768p(1, 1))
     \/ w = "tool" /\ \E h, v \in {0, 1} : timing' = Packed(Sync1024x768p(h, v))
  /\ UNCHANGED <<seen, control, osdlist, osdpos, fbmem, video, mbox, scale, dotclock>>

\* The source the caller gives to set_aux_1024x768p.
Source(w) == IF w = "fb" THEN <<720, 480>> ELSE <<1920, 1080>>

SetHScale(w) ==
  /\ Step(w, "hscale") /\ Done(w)
  /\ scale' = [scale EXCEPT !.h = Scaler(FbAux1024x768p[1], Source(w)[1]),
                            !.from = <<Source(w)[1], scale.from[2]>>]
  /\ UNCHANGED <<seen, control, osdlist, osdpos, fbmem, video, mbox, timing, dotclock>>

SetVScale(w) ==
  /\ Step(w, "vscale") /\ Done(w)
  /\ scale' = [scale EXCEPT !.v = Scaler(FbAux1024x768p[2], Source(w)[2]),
                            !.from = <<scale.from[1], Source(w)[2]>>]
  /\ UNCHANGED <<seen, control, osdlist, osdpos, fbmem, video, mbox, timing, dotclock>>

\* tl880_write_regbits: nothing holds register 10000 between the read and the write.
ReadControl ==
  /\ Step("fb", "read") /\ Done("fb") /\ seen' = control
  /\ UNCHANGED <<control, osdlist, osdpos, fbmem, video, mbox, timing, scale, dotclock>>

WriteControl ==
  LET s == Head(work["fb"])
  IN  /\ Step("fb", "write") /\ Done("fb")
      /\ control' = IF s.on = 1 THEN seen \cup {s.bit} ELSE seen \ {s.bit}
      /\ UNCHANGED <<seen, osdlist, osdpos, fbmem, video, mbox, timing, scale, dotclock>>

InstallList ==
  /\ Step("fb", "list") /\ Done("fb") /\ osdlist' = "installed"
  /\ UNCHANGED <<seen, control, osdpos, fbmem, video, mbox, timing, scale, dotclock>>

SetPosition ==
  /\ Step("fb", "position") /\ Done("fb") /\ osdpos' = 1
  /\ UNCHANGED <<seen, control, osdlist, fbmem, video, mbox, timing, scale, dotclock>>

\* What was drawn since the device was registered goes with it.
ClearPicture ==
  /\ Step("fb", "clear") /\ Done("fb") /\ fbmem' = "clear"
  /\ UNCHANGED <<seen, control, osdlist, osdpos, video, mbox, timing, scale, dotclock>>

\* The tool's 0x132.
ToolSetsControl ==
  /\ Step("tool", "control") /\ Done("tool") /\ control' = {1, 4, 5, 8}
  /\ UNCHANGED <<seen, osdlist, osdpos, fbmem, video, mbox, timing, scale, dotclock>>

-------------------------------------------------------------------------------
(* The module and its users. *)

\* register_framebuffer has succeeded: the device is there, the mode is not.
FbLoads ==
  /\ fbdev = "out" /\ work["fb"] = <<>>
  /\ fbdev' = "in" /\ work' = [work EXCEPT !["fb"] = FbSteps]
  /\ UNCHANGED <<opens, seen, control, osdlist, osdpos, fbmem, video, mbox, timing, scale, dotclock>>

\* The OSD's bit and its list stay.
FbUnloads ==
  /\ fbdev = "in" /\ opens = 0 /\ work["fb"] = <<>>
  /\ fbdev' = "out" /\ video' = 0
  /\ UNCHANGED <<opens, work, seen, control, osdlist, osdpos, fbmem, mbox, timing, scale, dotclock>>

FbOpens ==
  /\ fbdev = "in" /\ opens < MaxOpens
  /\ opens' = opens + 1 /\ osdlist' = "installed" /\ video' = 1
  /\ UNCHANGED <<fbdev, work, seen, control, osdpos, fbmem, mbox, timing, scale, dotclock>>

\* The first of several releases turns the video off for all.
FbReleases ==
  /\ opens > 0
  /\ opens' = opens - 1 /\ video' = 0
  /\ UNCHANGED <<fbdev, work, seen, control, osdlist, osdpos, fbmem, mbox, timing, scale, dotclock>>

FbDraws ==
  /\ opens > 0 /\ fbmem' = "drawn"
  /\ UNCHANGED <<fbdev, opens, work, seen, control, osdlist, osdpos, video, mbox, timing, scale, dotclock>>

\* 0x20, whatever the mode.
FbBlank(mode) ==
  /\ mode \in 0..4 /\ fbdev = "in"
  /\ control' = {5}
  /\ UNCHANGED <<fbdev, opens, work, seen, osdlist, osdpos, fbmem, video, mbox, timing, scale, dotclock>>

DpcSyncRuns ==
  /\ work["tool"] = <<>> /\ work' = [work EXCEPT !["tool"] = DpcSyncSteps]
  /\ UNCHANGED <<fbdev, opens, seen, control, osdlist, osdpos, fbmem, video, mbox, timing, scale, dotclock>>

FbNext ==
  \/ ResetDisplay
  \/ \E w \in {"fb", "tool"} : ClearMailbox(w) \/ ClearLines(w) \/ SetSync(w) \/ SetHScale(w) \/ SetVScale(w)
  \/ ReadControl \/ WriteControl \/ InstallList \/ SetPosition \/ ClearPicture
  \/ ToolSetsControl \/ DpcSyncRuns
  \/ FbLoads \/ FbUnloads \/ FbOpens \/ FbReleases \/ FbDraws
  \/ \E mode \in {0, 1} : FbBlank(mode)

FbSpec == FbInit /\ [][FbNext]_fbVars

-------------------------------------------------------------------------------
(* Properties. *)

\* The OSD never shows memory that nobody prepared: when its bit is set, the list is in
\* place, the register points to it and the picture was cleared or drawn since the
\* probe, whatever opens, blanks, draws or runs the tool while the module starts, and
\* although a stale value of register 10000 may be written back; and no one who opens
\* the device is shown without a list (tl880fb_init 925-959, tl880fb_open 131-138,
\* tl880_write_regbits).
ShownIsReady ==
  /\ OSD \in control => osdlist = "installed" /\ osdpos = 1 /\ fbmem # "foreign"
  /\ opens > 0 => osdlist = "installed"

\* With nothing under way the picture is one: the overlay fills the active area of the
\* timing that was set last, its words step through the source without an error, and
\* the dot clock is that of the width; the module and the tool may have set each a part
\* of it.  The same holds of every mode in the tables, except where the scaler's eight
\* bits cannot say it (set_aux_horizontal_scaler 703-712, set_aux_vertical_scaler
\* 714-732, set_sync_1024x768p 788-849, tl880_init_dpc_pll 74-87).
PictureExact ==
  /\ (\A w \in {"fb", "tool"} : work[w] = <<>>) /\ timing # Off =>
       /\ Exact(timing[XRes], scale.from[1], scale.h)
       /\ Exact(timing[YRes], scale.from[2], scale.v)
       /\ dotclock = DpcClock(timing[XRes], timing[Progressive] = 0)
  /\ TimingsFit /\ ScalersFit /\ ClocksFit

\* "Blank the screen if blank_mode != 0, else unblank" (tl880fb.c:480): an unblank of a
\* framebuffer that has started shows the OSD.
UnblankShows == [][FbBlank(0) /\ work["fb"] = <<>> => OSD \in control']_fbVars
===============================================================================

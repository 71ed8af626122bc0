----------------------------- MODULE TL880Registry -----------------------------
(***************************************************************************)
(* The cards the driver knows: probe and remove, the list tl880_list, the  *)
(* ids by which ioctl, the tasklet, the ALSA module and the framebuffer    *)
(* look cards up, and the structs those two modules keep (driver/          *)
(* tl880kern.c, tl880util.c, alsa/tl880alsa.c, tl880fb/tl880fb.c).         *)
(*                                                                         *)
(* A struct tl880_dev is a number: every probe makes a new one.  The chain *)
(* of next pointers that starts at tl880_list is a sequence.               *)
(***************************************************************************)
EXTENDS Integers, Sequences, FiniteSets

CONSTANTS
  Slots,     \* PCI slots that hold a card
  MaxCards   \* bound: probes in a behaviour

ASSUME SlotsAssumption    == IsFiniteSet(Slots)
ASSUME MaxCardsAssumption == MaxCards \in Nat

None  == 0
Oops  == -1  \* a NULL struct was used: the module that did it stays half loaded
Cards == 1..MaxCards

VARIABLES
  module,  \* "loaded", "unloading" or "unloaded"
  bound,   \* slots the PCI core has bound to the driver, in the order of probes
  made,    \* number of structs made so far
  alive,   \* structs that exist, with their interrupt handler installed
  slot,    \* slot of each struct (pcidev)
  cid,     \* id of each struct
  list,    \* the structs on tl880_list
  n_tl880s,
  snd,     \* the struct each ALSA card holds, by its index + 1; None when disabled
  hooked,  \* structs on whose audio interrupt the ALSA module's test_int hangs
  fb,      \* the struct the framebuffer holds (current_par.tl880dev)
  plug     \* history: "hot" once a card was removed while the driver stayed loaded

vars == <<module, bound, made, alive, slot, cid, list, n_tl880s, snd, hooked, fb, plug>>

Elems(l)    == {l[i] : i \in 1..Len(l)}
Without(l, i) == [k \in 1..(Len(l) - 1) |-> IF k < i THEN l[k] ELSE l[k + 1]]

TypeOK ==
  /\ module \in {"loaded", "unloading", "unloaded"}
  /\ bound \in Seq(Slots)
  /\ made \in 0..MaxCards
  /\ alive \subseteq 1..made
  /\ slot \in Seq(Slots) /\ Len(slot) = made
  /\ cid \in Seq(Int) /\ Len(cid) = made
  /\ list \in Seq(Cards)
  /\ n_tl880s \in Int
  /\ snd \in Seq(Cards \cup {None, Oops})
  /\ hooked \subseteq alive
  /\ fb \in Cards \cup {None, Oops}
  /\ plug \in {"cold", "hot"}

Init ==
  /\ module = "loaded"
  /\ bound = <<>> /\ made = 0 /\ alive = {}
  /\ slot = <<>> /\ cid = <<>>
  /\ list = <<>> /\ n_tl880s = 0
  /\ snd = <<>> /\ hooked = {} /\ fb = None
  /\ plug = "cold"

-------------------------------------------------------------------------------
(* Look-ups. *)

\* find_tl880: the first card on the list with the id.
Positions(i) == {k \in 1..Len(list) : cid[list[k]] = i}
FindPos(i)   == CHOOSE k \in Positions(i) : \A j \in Positions(i) : k <= j
Find(i)      == IF Positions(i) = {} THEN None ELSE list[FindPos(i)]

\* find_tl880_pci: the first position of a card in the slot; when there is none,
\* the second pass takes the list's first card, whose bus id differs.
PciPositions(s) == {k \in 1..Len(list) : slot[list[k]] = s}
FindPci(s) ==
  IF PciPositions(s) = {} THEN {1}
  ELSE {k \in PciPositions(s) : \A j \in PciPositions(s) : k <= j}

-------------------------------------------------------------------------------
(* Probe and remove. *)

\* Mutant: the new card takes the place of the list.
ProbeReplaces(s) ==
  /\ module = "loaded" /\ made < MaxCards /\ s \notin Elems(bound)
  /\ made' = made + 1 /\ alive' = alive \cup {made + 1}
  /\ slot' = Append(slot, s) /\ cid' = Append(cid, n_tl880s)
  /\ list' = <<made + 1>>
  /\ n_tl880s' = n_tl880s + 1 /\ bound' = Append(bound, s)
  /\ UNCHANGED <<module, snd, hooked, fb, plug>>

\* tl880_probe and a tl880_configure that succeeds.
Probe(s) ==
  /\ module = "loaded" /\ made < MaxCards /\ s \notin Elems(bound)
  /\ made' = made + 1 /\ alive' = alive \cup {made + 1}
  /\ slot' = Append(slot, s)
  /\ cid' = Append(cid, n_tl880s)
  /\ list' = Append(list, made + 1)
  /\ n_tl880s' = n_tl880s + 1
  /\ bound' = Append(bound, s)
  /\ UNCHANGED <<module, snd, hooked, fb, plug>>

\* tl880_remove of the i-th bound slot.  Unless the driver knows no card, the
\* card found is taken off the list and its struct freed; when that card is the
\* first one, the whole list goes.
NoCards == n_tl880s <= 0 \/ list = <<>>

\* Mutant: the struct stays on the list when it is freed.
UnlistKeeps(k) == IF k = 1 /\ Len(list) = 1 THEN <<>> ELSE list

\* Mutant: the pointer is cleared and the node is not unlinked.
UnlistBlanks(k) == [list EXCEPT ![k] = None]

Unlist(k) == IF k = 1 THEN <<>> ELSE Without(list, k)

\* Mutant: the last card of the list is removed, whichever was asked for.
RemoveLast(i) ==
  /\ bound' = Without(bound, i)
  /\ IF NoCards
       THEN UNCHANGED <<alive, list, n_tl880s>>
       ELSE /\ list' = Unlist(1) /\ alive' = alive \ {list[1]}
            /\ n_tl880s' = n_tl880s - 1
  /\ hooked' = hooked \cap alive'
  /\ UNCHANGED <<made, slot, cid, snd, fb>>

Remove(i) ==
  /\ bound' = Without(bound, i)
  /\ IF NoCards
       THEN UNCHANGED <<alive, list, n_tl880s>>
       ELSE \E k \in FindPci(bound[i]) :
            /\ list' = Unlist(k)
            /\ alive' = alive \ {list[k]}
            /\ n_tl880s' = n_tl880s - 1
  /\ hooked' = hooked \cap alive'
  /\ UNCHANGED <<made, slot, cid, snd, fb>>

\* A card is unplugged, or unbound by hand, while the driver stays loaded.
HotUnplug(i) ==
  /\ module = "loaded" /\ Remove(i)
  /\ plug' = "hot" /\ UNCHANGED module

-------------------------------------------------------------------------------
(* The ALSA module and the framebuffer, which keep this one loaded. *)

\* snd_tl880_init takes one card for each id below the card count (snd_tl880_
\* add_card), except those that are not enabled, and hangs test_int on its audio
\* interrupt.  The count is kept for the unload (n_cards).  With no card it has
\* nothing to take.
SndTakes(on, n) == {Find(i - 1) : i \in on \cap 1..n}
SndCanLoad == module = "loaded" /\ snd = <<>> /\ n_tl880s > 0

SndLoad ==
  /\ SndCanLoad
  /\ \E on \in SUBSET (1..n_tl880s) :
       /\ None \notin SndTakes(on, n_tl880s)
       /\ snd' = [i \in 1..n_tl880s |-> IF i \in on THEN Find(i - 1) ELSE None]
       /\ hooked' = hooked \cup SndTakes(on, n_tl880s)
  /\ UNCHANGED <<module, bound, made, alive, slot, cid, list, n_tl880s, fb, plug>>

\* snd_tl880_remove_card for each id: the struct is looked up anew.
SndReleases(n) == hooked \ {Find(i - 1) : i \in 1..n}

\* A card cannot be made or registered: those made before are removed and the
\* module is not loaded.
SndLoadFails ==
  /\ SndCanLoad
  /\ hooked' = SndReleases(n_tl880s)
  /\ UNCHANGED <<module, bound, made, alive, slot, cid, list, n_tl880s, snd, fb, plug>>

\* No struct has the id: its members are read all the same.
SndLoadOopses ==
  /\ SndCanLoad
  /\ \E n \in 1..n_tl880s, on \in SUBSET (1..n_tl880s) :
       /\ Find(n - 1) = None /\ None \notin SndTakes(on, n - 1)
       /\ hooked' = hooked \cup SndTakes(on, n - 1)
  /\ snd' = <<Oops>>
  /\ UNCHANGED <<module, bound, made, alive, slot, cid, list, n_tl880s, fb, plug>>

SndUnload ==
  /\ snd # <<>> /\ Oops \notin Elems(snd)
  /\ snd' = <<>> /\ hooked' = SndReleases(Len(snd))
  /\ UNCHANGED <<module, bound, made, alive, slot, cid, list, n_tl880s, fb, plug>>

\* tl880fb_init takes the card with id 0 and does not look whether there is one.
\* It lets go of it in tl880fb_cleanup.
FbLoad ==
  /\ module = "loaded" /\ fb = None
  /\ fb' = IF Find(0) = None THEN Oops ELSE Find(0)
  /\ UNCHANGED <<module, bound, made, alive, slot, cid, list, n_tl880s, snd, hooked, plug>>

FbUnload ==
  /\ fb \in Cards /\ fb' = None
  /\ UNCHANGED <<module, bound, made, alive, slot, cid, list, n_tl880s, snd, hooked, plug>>

-------------------------------------------------------------------------------
(* The module. *)

\* Mutant: the module can be unloaded under the two modules that use it.
UnloadRegardless ==
  /\ module = "loaded" /\ module' = "unloading"
  /\ UNCHANGED <<bound, made, alive, slot, cid, list, n_tl880s, snd, hooked, fb, plug>>

Unload ==
  /\ module = "loaded" /\ snd = <<>> /\ fb = None
  /\ module' = "unloading"
  /\ UNCHANGED <<bound, made, alive, slot, cid, list, n_tl880s, snd, hooked, fb, plug>>

\* The driver core detaches the device bound last first.
DetachLast ==
  /\ module = "unloading" /\ bound # <<>>
  /\ Remove(Len(bound)) /\ UNCHANGED <<module, plug>>

Unloaded ==
  /\ module = "unloading" /\ bound = <<>>
  /\ module' = "unloaded"
  /\ UNCHANGED <<bound, made, alive, slot, cid, list, n_tl880s, snd, hooked, fb, plug>>

\* A kernel that still calls the handler of a forgotten card does not get here.
Load ==
  /\ module = "unloaded" /\ alive = {}
  /\ module' = "loaded" /\ list' = <<>> /\ n_tl880s' = 0
  /\ UNCHANGED <<bound, made, alive, slot, cid, snd, hooked, fb, plug>>

Next ==
  \/ \E s \in Slots : Probe(s)
  \/ \E i \in 1..Len(bound) : HotUnplug(i)
  \/ SndLoad \/ SndLoadFails \/ SndLoadOopses \/ SndUnload
  \/ FbLoad \/ FbUnload
  \/ Unload \/ DetachLast \/ Unloaded \/ Load

Spec == Init /\ [][Next]_vars

-------------------------------------------------------------------------------
(* Properties. *)

\* No card has been pulled so far.
Cold == plug = "cold"

\* The list never holds a freed struct, nor one twice: find_tl880 and
\* find_tl880_pci walk live memory and end (tl880_configure 834-844,
\* tl880_remove 966-983).
ListSound ==
  /\ Elems(list) \subseteq alive
  /\ \A i, j \in 1..Len(list) : list[i] = list[j] => i = j

\* n_tl880s counts the structs that exist, listed or not, until the module is
\* unloaded (tl880_configure 846, tl880_remove 984).
CountIsAlive == module # "unloaded" => n_tl880s = Cardinality(alive)

\* The id a struct was given finds that struct: the tasklet, whose data is the
\* id, and the device nodes, whose minors are made from it, reach their own card
\* until a card is pulled (tl880_configure 721, 785 and 788, find_tl880).
LookupIsExact == Cold => \A c \in alive : Find(cid[c]) = c

\* Every struct whose interrupt handler is installed can be found: "Only one card
\* is loaded" when the first card of the list is removed (tl880kern.c:972).
AllListed == alive \subseteq Elems(list)

\* Up to the first pull, and in it, removing a slot frees the struct of that slot
\* and no other: the module's own unload never depends on the second pass of
\* find_tl880_pci (tl880_remove 959-983).
RightCard ==
  [][Cold => \A c \in alive \ alive' : slot[c] \in Elems(bound) \ Elems(bound')]_vars

\* An unloaded module leaves no struct, and so no interrupt handler, behind,
\* unless a card was pulled before (tl880_exit, tl880_remove).
UnloadLeavesNothing == Cold /\ module = "unloaded" => alive = {}

\* Until a card is pulled, the two modules use no struct that does not exist and
\* agree with the registry on which card they have: what snd_tl880_remove_card and
\* tl880fb_cleanup look up anew is the card taken at the load, and test_int hangs
\* on the cards the ALSA module has and on no other, so none calls into a module
\* that is gone, failed loads included (snd_tl880_add_card 642-660, snd_tl880_init
\* 700-706, snd_tl880_remove_card 672, tl880fb_init 879, tl880fb_cleanup 985).
ClientsSound ==
  Cold =>
    /\ \A i \in 1..Len(snd) : snd[i] # None => snd[i] \in alive /\ snd[i] = Find(i - 1)
    /\ hooked = Elems(snd) \ {None}
    /\ fb \in Cards => fb \in alive /\ fb = Find(0)
===============================================================================

-------------------------- MODULE TL880RegistryProofs --------------------------
(***************************************************************************)
(* Proofs about the card registry, for any number of slots and probes.     *)
(***************************************************************************)
EXTENDS TL880Registry, FiniteSetTheorems, SequenceTheorems, WellFoundedInduction, TLAPS

(* Every nonempty set of natural numbers has a least element.                *)
LEMMA LeastNatural ==
  ASSUME NEW T, T \subseteq Nat, T # {}
  PROVE  \E k \in T : \A j \in T : k <= j
<1>1. PICK k \in T : \A j \in T : ~(<<j, k>> \in OpToRel(<, Nat))
  BY NatLessThanWellFounded, WFMin
<1>2. \A j \in T : ~(j < k)
  BY <1>1 DEF OpToRel
<1> QED BY <1>2

(* Taking the k-th element out of a sequence keeps the others, in order.     *)
LEMMA WithoutElems ==
  ASSUME NEW S, NEW l \in Seq(S), NEW k \in 1..Len(l)
  PROVE  /\ Without(l, k) \in Seq(S)
         /\ Len(Without(l, k)) = Len(l) - 1
         /\ \A j \in 1..(Len(l) - 1) :
               Without(l, k)[j] = IF j < k THEN l[j] ELSE l[j + 1]
<1>1. Len(l) \in Nat /\ Len(l) >= 1
  OBVIOUS
<1>2. \A j \in 1..(Len(l) - 1) : (IF j < k THEN l[j] ELSE l[j + 1]) \in S
  BY <1>1
<1>3. Without(l, k) \in [1..(Len(l) - 1) -> S]
  BY <1>2 DEF Without
<1> QED BY <1>1, <1>3 DEF Without

(* The card that find_tl880_pci returns is on the list.                      *)
LEMMA FindPciInList ==
  ASSUME TypeOK, list # <<>>, NEW s
  PROVE  FindPci(s) \subseteq 1..Len(list)
<1>1. Len(list) \in Nat /\ Len(list) >= 1
  BY DEF TypeOK
<1> QED BY <1>1 DEF FindPci, PciPositions

(* A look-up by id returns a card of the list or nothing.                    *)
LEMMA FindOnList == ASSUME TypeOK, NEW i PROVE Find(i) \in Elems(list) \cup {None}
<1>1. CASE Positions(i) = {}
  BY <1>1 DEF Find
<1>2. CASE Positions(i) # {}
  <2>1. Positions(i) \subseteq Nat /\ Positions(i) \subseteq 1..Len(list)
    BY DEF Positions, TypeOK
  <2>2. FindPos(i) \in Positions(i)
    BY <1>2, <2>1, LeastNatural DEF FindPos
  <2> QED BY <1>2, <2>1, <2>2 DEF Find, Elems
<1> QED BY <1>1, <1>2

LEMMA FindIsCard == ASSUME TypeOK, NEW i PROVE Find(i) \in Cards \cup {None}
<1>1. list \in Seq(Cards) /\ \A k \in 1..Len(list) : list[k] \in Cards
  BY DEF TypeOK
<1>2. Elems(list) \subseteq Cards
  BY <1>1 DEF Elems
<1> QED BY <1>2, FindOnList

(* What the ALSA module takes, without meeting a missing card, exists.       *)
LEMMA TakesAreAlive ==
  ASSUME TypeOK, ListSound, NEW on, NEW n, None \notin SndTakes(on, n)
  PROVE  SndTakes(on, n) \subseteq alive
BY FindOnList DEF SndTakes, ListSound

(* What a removal does to the list: it stays a list of the old one's cards,   *)
(* without the freed one.                                                     *)
LEMMA UnlistSound ==
  ASSUME TypeOK, ListSound, list # <<>>, NEW k \in 1..Len(list)
  PROVE  /\ Unlist(k) \in Seq(Cards)
         /\ Elems(Unlist(k)) \subseteq Elems(list) \ {list[k]}
         /\ \A i, j \in 1..Len(Unlist(k)) : Unlist(k)[i] = Unlist(k)[j] => i = j
<1>1. list \in Seq(Cards) /\ Len(list) \in Nat
  BY DEF TypeOK
<1>2. CASE k = 1
  BY <1>2 DEF Unlist, Elems
<1>3. CASE k # 1
  <2>1. Unlist(k) = Without(list, k)
    BY <1>3 DEF Unlist
  <2>2. /\ Without(list, k) \in Seq(Cards)
        /\ Len(Without(list, k)) = Len(list) - 1
        /\ \A j \in 1..(Len(list) - 1) :
              Without(list, k)[j] = IF j < k THEN list[j] ELSE list[j + 1]
    BY <1>1, WithoutElems
  <2>3. \A j \in 1..(Len(list) - 1) : \E p \in 1..Len(list) :
           p # k /\ Without(list, k)[j] = list[p] /\ p = IF j < k THEN j ELSE j + 1
    BY <1>1, <2>2
  <2>4. Elems(Without(list, k)) \subseteq Elems(list) \ {list[k]}
    BY <2>2, <2>3 DEF Elems, ListSound
  <2>5. ASSUME NEW i \in 1..Len(Without(list, k)), NEW j \in 1..Len(Without(list, k)),
               Without(list, k)[i] = Without(list, k)[j]
        PROVE  i = j
    BY <1>1, <2>2, <2>3, <2>5 DEF ListSound
  <2> QED BY <2>1, <2>2, <2>4, <2>5
<1> QED BY <1>2, <1>3

Inv == TypeOK /\ ListSound /\ IsFiniteSet(alive) /\ CountIsAlive

(* A removal, whichever card it finds, keeps the registry consistent.        *)
LEMMA RemoveStep ==
  ASSUME Inv, NEW i \in 1..Len(bound), Remove(i), module # "unloaded", UNCHANGED module,
         plug' \in {"cold", "hot"}
  PROVE  Inv'
<1> USE DEF Inv, Remove
<1>1. bound' \in Seq(Slots)
  BY WithoutElems DEF TypeOK
<1>2. CASE NoCards
  BY <1>1, <1>2 DEF TypeOK, ListSound, CountIsAlive
<1>3. CASE ~NoCards
  <2>1. list # <<>>
    BY <1>3 DEF NoCards
  <2>2. PICK k \in FindPci(bound[i]) :
          /\ list' = Unlist(k) /\ alive' = alive \ {list[k]}
          /\ n_tl880s' = n_tl880s - 1
    BY <1>3
  <2>3. k \in 1..Len(list)
    BY <2>1, FindPciInList
  <2>4. list[k] \in alive
    BY <2>3 DEF ListSound, Elems
  <2>5. ListSound'
    BY <2>1, <2>2, <2>3, UnlistSound DEF ListSound
  <2>6. TypeOK'
    <3>1. list' \in Seq(Cards)
      BY <2>1, <2>2, <2>3, UnlistSound
    <3>2. n_tl880s' \in Int
      BY <2>2 DEF TypeOK
    <3>3. alive' \subseteq 1..made
      BY <2>2 DEF TypeOK
    <3> QED BY <1>1, <3>1, <3>2, <3>3 DEF TypeOK
  <2>7. IsFiniteSet(alive') /\ Cardinality(alive') = Cardinality(alive) - 1
    BY <2>2, <2>4, FS_RemoveElement
  <2> QED BY <2>2, <2>5, <2>6, <2>7 DEF CountIsAlive
<1> QED BY <1>2, <1>3

LEMMA ProbeStep == ASSUME Inv, NEW s \in Slots, Probe(s) PROVE Inv'
<1> USE DEF Inv, Probe, TypeOK
<1>1. made \in Nat /\ made + 1 \in Cards /\ made + 1 \notin alive
  BY MaxCardsAssumption DEF Cards
<1>2. TypeOK'
  <2>1. /\ slot' \in Seq(Slots) /\ Len(slot') = made + 1
        /\ cid' \in Seq(Int) /\ Len(cid') = made + 1
    BY <1>1
  <2>2. list' \in Seq(Cards) /\ bound' \in Seq(Slots)
    BY <1>1
  <2> QED BY <1>1, <2>1, <2>2, MaxCardsAssumption
<1>3. ListSound'
  <2>1. Len(list') = Len(list) + 1 /\ Len(list) \in Nat
    BY <1>1
  <2>2. \A k \in 1..Len(list') : list'[k] = IF k = Len(list) + 1 THEN made + 1 ELSE list[k]
    <3>1. list \in Seq(Cards) /\ made + 1 \in Cards /\ list' = Append(list, made + 1)
      BY <1>1
    <3> HIDE DEF TypeOK, Inv, Probe
    <3> QED BY <2>1, <3>1, AppendProperties
  <2>3. made + 1 \notin Elems(list)
    BY <1>1 DEF ListSound
  <2> QED BY <2>1, <2>2, <2>3 DEF ListSound, Elems
<1>4. IsFiniteSet(alive') /\ Cardinality(alive') = Cardinality(alive) + 1
  BY <1>1, FS_AddElement
<1> QED BY <1>2, <1>3, <1>4 DEF CountIsAlive

LEMMA InvStep == ASSUME Inv, [Next]_vars PROVE Inv'
<1>1. ASSUME NEW s \in Slots, Probe(s) PROVE Inv'
  BY <1>1, ProbeStep
<1>2. ASSUME NEW i \in 1..Len(bound), HotUnplug(i) PROVE Inv'
  BY <1>2, RemoveStep DEF HotUnplug
<1>3. CASE SndLoad
  <2>1. \A i : Find(i) \in Cards \cup {None}
    BY FindIsCard DEF Inv
  <2>2. PICK on \in SUBSET (1..n_tl880s) :
           /\ None \notin SndTakes(on, n_tl880s)
           /\ snd' = [i \in 1..n_tl880s |-> IF i \in on THEN Find(i - 1) ELSE None]
           /\ hooked' = hooked \cup SndTakes(on, n_tl880s)
    BY <1>3 DEF SndLoad
  <2>3. n_tl880s \in Nat
    BY <1>3 DEF SndLoad, SndCanLoad, Inv, TypeOK
  <2>4. snd' \in Seq(Cards \cup {None, Oops})
    BY <2>1, <2>2, <2>3
  <2>5. hooked' \subseteq alive
    BY <2>2, TakesAreAlive DEF Inv, TypeOK
  <2> QED BY <1>3, <2>4, <2>5 DEF SndLoad, Inv, TypeOK, ListSound, CountIsAlive
<1>4. CASE SndUnload
  <2>1. hooked' \subseteq alive
    BY <1>4 DEF SndUnload, SndReleases, Inv, TypeOK
  <2>2. snd' \in Seq(Cards \cup {None, Oops})
    BY <1>4, EmptySeq DEF SndUnload
  <2> QED BY <1>4, <2>1, <2>2 DEF SndUnload, Inv, TypeOK, ListSound, CountIsAlive
<1>10. CASE SndLoadFails
  BY <1>10 DEF SndLoadFails, SndReleases, Inv, TypeOK, ListSound, CountIsAlive
<1>11. CASE SndLoadOopses
  <2>1. PICK n \in 1..n_tl880s, on \in SUBSET (1..n_tl880s) :
           /\ Find(n - 1) = None /\ None \notin SndTakes(on, n - 1)
           /\ hooked' = hooked \cup SndTakes(on, n - 1)
    BY <1>11 DEF SndLoadOopses
  <2>2. hooked' \subseteq alive
    BY <2>1, TakesAreAlive DEF Inv, TypeOK
  <2>3. snd' \in Seq(Cards \cup {None, Oops})
    BY <1>11 DEF SndLoadOopses
  <2> QED BY <1>11, <2>2, <2>3 DEF SndLoadOopses, Inv, TypeOK, ListSound, CountIsAlive
<1>12. CASE FbLoad
  <2>1. Find(0) \in Cards \cup {None}
    BY FindIsCard DEF Inv
  <2> QED BY <1>12, <2>1 DEF FbLoad, Inv, TypeOK, ListSound, CountIsAlive
<1>13. CASE FbUnload
  BY <1>13 DEF FbUnload, Inv, TypeOK, ListSound, CountIsAlive
<1>5. CASE Unload
  BY <1>5 DEF Unload, Inv, TypeOK, ListSound, CountIsAlive
<1>6. CASE DetachLast
  <2>1. Len(bound) \in 1..Len(bound)
    BY <1>6 DEF DetachLast, Inv, TypeOK
  <2> QED BY <1>6, <2>1, RemoveStep DEF DetachLast, Inv, TypeOK
<1>7. CASE Unloaded
  BY <1>7 DEF Unloaded, Inv, TypeOK, ListSound, CountIsAlive
<1>8. CASE Load
  BY <1>8, FS_EmptySet DEF Load, Inv, TypeOK, ListSound, CountIsAlive, Elems
<1>9. CASE UNCHANGED vars
  BY <1>9 DEF vars, Inv, TypeOK, ListSound, CountIsAlive
<1> QED BY <1>1, <1>2, <1>3, <1>4, <1>5, <1>6, <1>7, <1>8, <1>9,
         <1>10, <1>11, <1>12, <1>13 DEF Next

(* Every reachable state of the registry is well typed: the chain from       *)
(* tl880_list is a finite sequence of structs that probes made.              *)
THEOREM RegistryTypeCorrect == Spec => []TypeOK
<1>1. Init => Inv
  BY FS_EmptySet, MaxCardsAssumption DEF Init, Inv, TypeOK, ListSound, CountIsAlive, Elems
<1> QED BY <1>1, InvStep, PTL DEF Spec, Inv

(* However cards come and go, the list holds no freed struct and none twice:  *)
(* find_tl880 and find_tl880_pci walk live memory and end.                   *)
THEOREM ListIsSound == Spec => []ListSound
<1>1. Init => Inv
  BY FS_EmptySet, MaxCardsAssumption DEF Init, Inv, TypeOK, ListSound, CountIsAlive, Elems
<1> QED BY <1>1, InvStep, PTL DEF Spec, Inv

(* n_tl880s counts the structs that exist, even those the list has lost.      *)
THEOREM CountIsExact == Spec => []CountIsAlive
<1>1. Init => Inv
  BY FS_EmptySet, MaxCardsAssumption DEF Init, Inv, TypeOK, ListSound, CountIsAlive, Elems
<1> QED BY <1>1, InvStep, PTL DEF Spec, Inv

-------------------------------------------------------------------------------
(* Until a card is pulled, cards come and go with the module.  The driver     *)
(* core detaches the device bound last first, so the list is a stack: its     *)
(* k-th card has id k - 1 and sits in the k-th bound slot.                    *)
Stack ==
  /\ n_tl880s = Len(bound) /\ Len(list) = Len(bound)
  /\ alive = Elems(list)
  /\ \A k \in 1..Len(list) : cid[list[k]] = k - 1 /\ slot[list[k]] = bound[k]
  /\ \A i, j \in 1..Len(bound) : bound[i] = bound[j] => i = j
  /\ module = "unloaded" => bound = <<>>

(* The modules that use the driver hold cards of the stack, by their ids.     *)
Held ==
  /\ snd # <<>> \/ fb # None => module = "loaded"
  /\ Len(snd) <= Len(list)
  /\ \A i \in 1..Len(snd) : snd[i] # None => snd[i] = list[i]
  /\ hooked = Elems(snd) \ {None}
  /\ fb \in Cards => list # <<>> /\ fb = list[1]

LInv == Inv /\ Stack /\ Held

(* On a stack the id k - 1 finds the k-th card.                              *)
LEMMA FindInStack ==
  ASSUME LInv, NEW k \in 1..Len(list) PROVE Find(k - 1) = list[k]
<1>1. Positions(k - 1) = {k}
  BY DEF LInv, Inv, TypeOK, Stack, Positions
<1>2. FindPos(k - 1) = k
  BY <1>1 DEF FindPos
<1> QED BY <1>1, <1>2 DEF Find

LEMMA CardsAreSome == ASSUME TypeOK PROVE \A k \in 1..Len(list) : list[k] # None
BY MaxCardsAssumption DEF TypeOK, None, Cards

(* Detaching the device bound last frees the card at the end of the list.    *)
LEMMA DetachPops ==
  ASSUME LInv, bound # <<>>, Remove(Len(bound))
  PROVE  /\ list' = Without(list, Len(list)) /\ bound' = Without(bound, Len(bound))
         /\ alive' = alive \ {list[Len(list)]}
         /\ n_tl880s' = n_tl880s - 1
         /\ UNCHANGED <<made, slot, cid, snd, fb>>
<1> DEFINE n == Len(bound)
<1>1. n \in Nat /\ n > 0 /\ Len(list) = n /\ n \in 1..Len(list) /\ list # <<>>
  BY DEF LInv, Inv, TypeOK, Stack
<1>2. ~NoCards
  BY <1>1 DEF NoCards, LInv, Stack
<1>3. PciPositions(bound[n]) = {n}
  BY <1>1 DEF PciPositions, LInv, Stack
<1>4. FindPci(bound[n]) = {n}
  BY <1>1, <1>3 DEF FindPci
<1>5. Unlist(n) = Without(list, n)
  BY <1>1 DEF Unlist, Without
<1> QED BY <1>1, <1>2, <1>4, <1>5 DEF Remove

(* The struct that a probe makes goes on top of the stack.                   *)
LEMMA ProbePushes == ASSUME LInv, NEW s \in Slots, Probe(s) PROVE LInv'
<1>1. Inv'
  BY ProbeStep DEF LInv
<1> DEFINE n == Len(bound)
           new == made + 1
<1>2. /\ n \in Nat /\ made \in Nat /\ new \in Cards
      /\ bound \in Seq(Slots) /\ list \in Seq(Cards) /\ Len(list) = n
      /\ slot \in Seq(Slots) /\ Len(slot) = made /\ cid \in Seq(Int) /\ Len(cid) = made
      /\ n_tl880s = n /\ n_tl880s \in Int /\ alive = Elems(list) /\ alive \subseteq 1..made
      /\ s \notin Elems(bound)
  BY MaxCardsAssumption DEF LInv, Inv, TypeOK, Stack, Probe, Cards
<1>3. /\ bound' = Append(bound, s) /\ list' = Append(list, new)
      /\ slot' = Append(slot, s) /\ cid' = Append(cid, n_tl880s)
      /\ alive' = alive \cup {new} /\ n_tl880s' = n_tl880s + 1
      /\ UNCHANGED <<module, snd, hooked, fb>> /\ module = "loaded"
  BY DEF Probe
<1>4. /\ Len(bound') = n + 1
      /\ \A k \in 1..(n + 1) : bound'[k] = IF k = n + 1 THEN s ELSE bound[k]
  BY <1>2, <1>3, AppendProperties
<1>5. /\ Len(list') = n + 1
      /\ \A k \in 1..(n + 1) : list'[k] = IF k = n + 1 THEN new ELSE list[k]
  BY <1>2, <1>3, AppendProperties
<1>6. \A c \in 1..new : slot'[c] = IF c = new THEN s ELSE slot[c]
  BY <1>2, <1>3, AppendProperties
<1>7. \A c \in 1..new : cid'[c] = IF c = new THEN n ELSE cid[c]
  BY <1>2, <1>3, AppendProperties
<1>8. \A k \in 1..n : list[k] \in 1..made
  BY <1>2 DEF Elems
<1>9. alive' = Elems(list')
  BY <1>2, <1>3, <1>5 DEF Elems
<1>10. \A k \in 1..Len(list') : cid'[list'[k]] = k - 1 /\ slot'[list'[k]] = bound'[k]
  <2>1. \A k \in 1..n : cid[list[k]] = k - 1 /\ slot[list[k]] = bound[k]
    BY <1>2 DEF LInv, Stack
  <2> SUFFICES ASSUME NEW k \in 1..(n + 1)
               PROVE  cid'[list'[k]] = k - 1 /\ slot'[list'[k]] = bound'[k]
    BY <1>5
  <2>2. CASE k = n + 1
    <3>1. list'[k] = new /\ bound'[k] = s /\ new \in 1..new
      BY <1>2, <1>4, <1>5, <2>2
    <3>2. cid'[new] = n /\ slot'[new] = s
      BY <1>6, <1>7, <3>1
    <3> QED BY <1>2, <2>2, <3>1, <3>2
  <2>3. CASE k # n + 1
    <3>1. k \in 1..n
      BY <1>2, <2>3
    <3>2. list'[k] = list[k] /\ bound'[k] = bound[k] /\ list[k] \in 1..made
      BY <1>4, <1>5, <1>8, <2>3, <3>1
    <3>3. cid'[list[k]] = cid[list[k]] /\ slot'[list[k]] = slot[list[k]]
      BY <1>2, <1>6, <1>7, <3>2
    <3> QED BY <2>1, <3>1, <3>2, <3>3
  <2> QED BY <2>2, <2>3
<1>11. \A i, j \in 1..Len(bound') : bound'[i] = bound'[j] => i = j
  <2>1. \A i, j \in 1..n : bound[i] = bound[j] => i = j
    BY DEF LInv, Stack
  <2>2. \A i \in 1..n : bound[i] # s
    BY <1>2 DEF Elems
  <2> QED BY <1>2, <1>4, <2>1, <2>2
<1>12. Held'
  <2>1. Len(snd) \in Nat /\ Len(snd) <= n
    BY <1>2 DEF LInv, Held, Inv, TypeOK
  <2>2. \A i \in 1..Len(snd') : snd'[i] # None => snd'[i] = list'[i]
    BY <1>2, <1>3, <1>5, <2>1 DEF LInv, Held
  <2>3. ASSUME fb' \in Cards PROVE list' # <<>> /\ fb' = list'[1]
    <3>1. list # <<>> /\ fb = list[1]
      BY <1>3, <2>3 DEF LInv, Held
    <3>2. n >= 1
      BY <1>2, <3>1
    <3> QED BY <1>2, <1>3, <1>5, <3>1, <3>2
  <2>4. hooked' = Elems(snd') \ {None}
    BY <1>3 DEF LInv, Held, Elems
  <2> QED BY <1>2, <1>3, <1>5, <2>1, <2>2, <2>3, <2>4 DEF LInv, Held
<1>13. Stack'
  BY <1>2, <1>3, <1>4, <1>5, <1>9, <1>10, <1>11 DEF LInv, Stack
<1> QED BY <1>1, <1>12, <1>13 DEF LInv

(* Detaching the device bound last keeps the stack.                          *)
LEMMA DetachKeeps ==
  ASSUME LInv, DetachLast PROVE LInv'
<1> DEFINE n == Len(bound)
<1>1. /\ n \in Nat /\ n > 0 /\ n \in 1..Len(bound) /\ Len(list) = n
      /\ bound \in Seq(Slots) /\ list \in Seq(Cards) /\ snd = <<>> /\ fb = None
      /\ module = "unloading" /\ UNCHANGED module
  BY DEF DetachLast, LInv, Inv, TypeOK, Stack, Held
<1>2. Inv'
  BY <1>1, RemoveStep DEF DetachLast, LInv, Inv, TypeOK
<1>3. /\ list' = Without(list, n) /\ bound' = Without(bound, n)
      /\ alive' = alive \ {list[n]} /\ n_tl880s' = n_tl880s - 1
      /\ UNCHANGED <<made, slot, cid, snd, fb>> /\ hooked' \subseteq hooked
  BY <1>1, DetachPops DEF DetachLast, Remove
<1>4. Len(list') = n - 1 /\ \A k \in 1..(n - 1) : list'[k] = list[k]
  <2>1. /\ Len(Without(list, n)) = n - 1
        /\ \A k \in 1..(n - 1) :
              Without(list, n)[k] = IF k < n THEN list[k] ELSE list[k + 1]
    BY <1>1, WithoutElems, Zenon
  <2> HIDE DEF n
  <2> QED BY <1>1, <1>3, <2>1
<1>5. Len(bound') = n - 1 /\ \A k \in 1..(n - 1) : bound'[k] = bound[k]
  <2>1. /\ Len(Without(bound, n)) = n - 1
        /\ \A k \in 1..(n - 1) :
              Without(bound, n)[k] = IF k < n THEN bound[k] ELSE bound[k + 1]
    BY <1>1, WithoutElems, Zenon
  <2> HIDE DEF n
  <2> QED BY <1>1, <1>3, <2>1
<1>6. alive' = Elems(list')
  <2>1. \A i, j \in 1..n : list[i] = list[j] => i = j
    BY <1>1 DEF LInv, Inv, ListSound
  <2>2. alive = {list[k] : k \in 1..n}
    BY <1>1 DEF LInv, Stack, Elems
  <2>3. Elems(list') = {list[k] : k \in 1..(n - 1)}
    BY <1>1, <1>4 DEF Elems
  <2> QED BY <1>1, <1>3, <2>1, <2>2, <2>3
<1>7. Stack'
  <2>1. n_tl880s' = Len(bound') /\ Len(list') = Len(bound')
    BY <1>1, <1>3, <1>4, <1>5 DEF LInv, Stack, Inv, TypeOK
  <2>2. \A k \in 1..Len(list') : cid'[list'[k]] = k - 1 /\ slot'[list'[k]] = bound'[k]
    <3>1. \A k \in 1..n : cid[list[k]] = k - 1 /\ slot[list[k]] = bound[k]
      BY <1>1 DEF LInv, Stack
    <3>2. cid' = cid /\ slot' = slot
      BY <1>3
    <3> SUFFICES ASSUME NEW k \in 1..(n - 1)
                 PROVE  cid'[list'[k]] = k - 1 /\ slot'[list'[k]] = bound'[k]
      BY <1>4
    <3>3. k \in 1..n
      BY <1>1
    <3>4. list'[k] = list[k] /\ bound'[k] = bound[k]
      BY <1>4, <1>5
    <3> QED BY <3>1, <3>2, <3>3, <3>4
  <2>3. \A i, j \in 1..Len(bound') : bound'[i] = bound'[j] => i = j
    BY <1>1, <1>5 DEF LInv, Stack
  <2>4. module' # "unloaded"
    BY <1>1
  <2> QED BY <1>6, <2>1, <2>2, <2>3, <2>4, Zenon DEF Stack
<1>8. Held'
  <2>1. hooked = {} /\ Len(snd) = 0
    BY <1>1 DEF LInv, Held, Elems
  <2> QED BY <1>1, <1>3, <1>4, <2>1 DEF Held, Elems, None, Cards
<1> QED BY <1>2, <1>7, <1>8 DEF LInv

LEMMA LInvStep == ASSUME LInv, Cold', [Next]_vars PROVE LInv'
<1>0. Inv'
  BY InvStep DEF LInv
<1>1. ASSUME NEW s \in Slots, Probe(s) PROVE LInv'
  BY <1>1, ProbePushes
<1>2. ASSUME NEW i \in 1..Len(bound), HotUnplug(i) PROVE LInv'
  BY <1>2 DEF HotUnplug, Cold
<1>3. CASE SndLoad
  <2>1. PICK on \in SUBSET (1..n_tl880s) :
           /\ snd' = [i \in 1..n_tl880s |-> IF i \in on THEN Find(i - 1) ELSE None]
           /\ hooked' = hooked \cup SndTakes(on, n_tl880s)
    BY <1>3 DEF SndLoad
  <2>2. n_tl880s = Len(list) /\ Len(list) \in Nat /\ hooked = {}
    BY <1>3 DEF LInv, Stack, Held, Inv, TypeOK, SndLoad, SndCanLoad, Elems
  <2>3. \A i \in 1..n_tl880s : Find(i - 1) = list[i] /\ list[i] # None
    BY <2>2, FindInStack, CardsAreSome DEF LInv, Inv
  <2>4. Len(snd') = n_tl880s
    BY <2>1, <2>2
  <2>5. hooked' = Elems(snd') \ {None}
    BY <2>1, <2>2, <2>3, <2>4 DEF SndTakes, Elems
  <2>6. Held'
    BY <1>3, <2>1, <2>2, <2>3, <2>4, <2>5 DEF SndLoad, SndCanLoad, LInv, Held
  <2> QED BY <1>0, <1>3, <2>6 DEF SndLoad, LInv, Stack
<1>4. CASE SndUnload
  <2>1. \A i \in 1..Len(snd) : snd[i] # None => snd[i] = Find(i - 1)
    BY FindInStack DEF LInv, Held, Inv, TypeOK
  <2>2. hooked' = {}
    BY <1>4, <2>1 DEF SndUnload, SndReleases, LInv, Held, Elems
  <2> QED BY <1>0, <1>4, <2>2 DEF SndUnload, LInv, Stack, Held, Elems, Inv, TypeOK
<1>5. CASE Unload
  BY <1>0, <1>5 DEF Unload, LInv, Stack, Held
<1>6. CASE DetachLast
  BY <1>6, DetachKeeps
<1>7. CASE Unloaded
  BY <1>0, <1>7 DEF Unloaded, LInv, Stack, Held
<1>8. CASE Load
  <2>1. bound = <<>> /\ Len(list) = 0
    BY <1>8 DEF Load, LInv, Stack, Inv, TypeOK
  <2> QED BY <1>0, <1>8, <2>1 DEF Load, LInv, Stack, Held, Elems
<1>9. CASE UNCHANGED vars
  BY <1>0, <1>9 DEF vars, LInv, Stack, Held
<1>10. CASE SndLoadFails
  BY <1>0, <1>10 DEF SndLoadFails, SndCanLoad, SndReleases, LInv, Stack, Held, Elems
<1>11. CASE SndLoadOopses
  <2>1. n_tl880s = Len(list) /\ Len(list) \in Nat
    BY DEF LInv, Stack, Inv, TypeOK
  <2>2. \A i \in 1..n_tl880s : Find(i - 1) # None
    BY <2>1, FindInStack, CardsAreSome DEF LInv, Inv
  <2> QED BY <1>11, <2>2 DEF SndLoadOopses
<1>12. CASE FbLoad
  <2>1. Find(0) \in Cards => list # <<>> /\ Find(0) = list[1]
    <3>1. CASE list = <<>>
      BY <3>1 DEF Find, Positions, None, Cards
    <3>2. CASE list # <<>>
      <4>1. 1 \in 1..Len(list)
        BY <3>2 DEF LInv, Inv, TypeOK
      <4> QED BY <3>2, <4>1, FindInStack
    <3> QED BY <3>1, <3>2
  <2> QED BY <1>0, <1>12, <2>1 DEF FbLoad, LInv, Stack, Held, Oops, Cards
<1>13. CASE FbUnload
  BY <1>0, <1>13 DEF FbUnload, LInv, Stack, Held, None, Cards
<1> QED BY <1>1, <1>2, <1>3, <1>4, <1>5, <1>6, <1>7, <1>8, <1>9, <1>10, <1>11, <1>12, <1>13
        DEF Next

(* Pulling is for good: what holds as long as nothing was pulled stays so.    *)
LEMMA PullIsForGood == ASSUME TypeOK, ~Cold, [Next]_vars PROVE ~Cold'
BY DEF Cold, Next, vars, Probe, HotUnplug, SndLoad, SndLoadFails, SndLoadOopses,
       SndUnload, FbLoad, FbUnload, Unload, DetachLast, Unloaded, Load

ColdInv == Inv /\ (Cold => Stack /\ Held)

LEMMA LInvAlways == Spec => []ColdInv
<1>1. Init => ColdInv
  <2>1. Init => Inv
    BY FS_EmptySet, MaxCardsAssumption DEF Init, Inv, TypeOK, ListSound, CountIsAlive, Elems
  <2>2. Init => Stack
    BY DEF Init, Stack, Elems
  <2>3. Init => Held
    BY MaxCardsAssumption DEF Init, Held, Elems, None, Cards
  <2> QED BY <2>1, <2>2, <2>3 DEF ColdInv
<1>2. ASSUME ColdInv, [Next]_vars PROVE ColdInv'
  <2>1. Inv'
    BY <1>2, InvStep DEF ColdInv
  <2>2. ASSUME Cold' PROVE Stack' /\ Held'
    <3>1. Cold
      BY <1>2, <2>2, PullIsForGood DEF ColdInv, Inv
    <3> QED BY <1>2, <2>2, <3>1, LInvStep DEF ColdInv, LInv
  <2> QED BY <2>1, <2>2 DEF ColdInv
<1> QED BY <1>1, <1>2, PTL DEF Spec

(* As long as cards come and go with the module only, the id of every card    *)
(* finds that card: the tasklet and the device nodes reach their own.        *)
THEOREM LookupsAreExact == Spec => []LookupIsExact
<1>1. ASSUME LInv, NEW c \in alive PROVE Find(cid[c]) = c
  <2>1. PICK k \in 1..Len(list) : c = list[k]
    BY <1>1 DEF LInv, Stack, Elems
  <2>2. cid[c] = k - 1
    BY <1>1, <2>1 DEF LInv, Stack
  <2> QED BY <1>1, <2>1, <2>2, FindInStack
<1>2. ColdInv => LookupIsExact
  BY <1>1 DEF LookupIsExact, ColdInv, LInv
<1> QED BY <1>2, LInvAlways, PTL

(* Unloading the driver leaves no struct, and no interrupt handler, behind,   *)
(* for any number of cards and of unloads.                                   *)
THEOREM UnloadIsClean == Spec => []UnloadLeavesNothing
<1>1. ASSUME Stack, TypeOK, module = "unloaded" PROVE alive = {}
  <2>1. bound = <<>> /\ Len(list) = 0
    BY <1>1 DEF Stack
  <2> QED BY <1>1, <2>1 DEF Stack, Elems
<1>2. ColdInv => UnloadLeavesNothing
  BY <1>1 DEF ColdInv, Inv, UnloadLeavesNothing
<1> QED BY <1>2, LInvAlways, PTL

(* Until a card is pulled, the ALSA module and the framebuffer hold no freed  *)
(* struct, the look-ups of their unloads return what their loads took, and no *)
(* audio interrupt calls into an ALSA module that is gone.                    *)
THEOREM ClientsAreSound == Spec => []ClientsSound
<1>1. ASSUME LInv PROVE ClientsSound
  <2>1. \A i \in 1..Len(list) : list[i] \in alive /\ list[i] = Find(i - 1)
    BY <1>1, FindInStack DEF LInv, Stack, Elems
  <2>2. Len(snd) \in Nat /\ Len(list) \in Nat /\ Len(snd) <= Len(list)
    BY <1>1 DEF LInv, Held, Inv, TypeOK
  <2>3. \A i \in 1..Len(snd) : snd[i] # None => snd[i] \in alive /\ snd[i] = Find(i - 1)
    BY <1>1, <2>1, <2>2 DEF LInv, Held
  <2>4. ASSUME fb \in Cards PROVE fb \in alive /\ fb = Find(0)
    <3>1. list # <<>> /\ fb = list[1]
      BY <1>1, <2>4 DEF LInv, Held
    <3>2. 1 \in 1..Len(list)
      BY <1>1, <3>1 DEF LInv, Inv, TypeOK
    <3> QED BY <2>1, <3>1, <3>2
  <2> QED BY <1>1, <2>3, <2>4 DEF LInv, Held, ClientsSound
<1>2. ColdInv => ClientsSound
  BY <1>1 DEF ColdInv, LInv, ClientsSound
<1> QED BY <1>2, LInvAlways, PTL

(* A removal, up to and with the first pull, frees the card of its own slot.  *)
THEOREM RemovalsAreRight == Spec => RightCard
<1> DEFINE Right == Cold => \A c \in alive \ alive' : slot[c] \in Elems(bound) \ Elems(bound')
<1>1. ASSUME LInv, NEW i \in 1..Len(bound), Remove(i), NEW c \in alive \ alive'
      PROVE  slot[c] \in Elems(bound) \ Elems(bound')
  <2>1. /\ Len(bound) \in Nat /\ Len(list) = Len(bound) /\ bound \in Seq(Slots)
        /\ n_tl880s = Len(bound)
    BY <1>1 DEF LInv, Inv, TypeOK, Stack
  <2>2. \A p, q \in 1..Len(bound) : bound[p] = bound[q] => p = q
    BY <1>1 DEF LInv, Stack
  <2>3. PciPositions(bound[i]) = {i}
    BY <1>1, <2>1, <2>2 DEF LInv, Stack, PciPositions
  <2>4. FindPci(bound[i]) = {i}
    BY <2>1, <2>3 DEF FindPci
  <2>5. c = list[i]
    BY <1>1, <2>1, <2>4 DEF Remove, NoCards
  <2>6. slot[c] = bound[i]
    BY <1>1, <2>1, <2>5 DEF LInv, Stack
  <2>7. /\ bound' = Without(bound, i) /\ Len(Without(bound, i)) = Len(bound) - 1
        /\ \A j \in 1..(Len(bound) - 1) :
              Without(bound, i)[j] = IF j < i THEN bound[j] ELSE bound[j + 1]
    BY <1>1, <2>1, WithoutElems DEF Remove
  <2>8. ASSUME NEW j \in 1..(Len(bound) - 1) PROVE bound'[j] # bound[i]
    <3>1. CASE j < i
      BY <2>1, <2>2, <2>7, <2>8, <3>1
    <3>2. CASE ~(j < i)
      <4>1. j + 1 \in 1..Len(bound) /\ j + 1 # i
        BY <2>1, <2>8, <3>2
      <4> QED BY <2>2, <2>7, <2>8, <3>2, <4>1
    <3> QED BY <3>1, <3>2
  <2> QED BY <2>1, <2>6, <2>7, <2>8 DEF Elems
<1>2. ASSUME ColdInv, [Next]_vars, Cold, NEW c \in alive \ alive'
      PROVE  slot[c] \in Elems(bound) \ Elems(bound')
  <2>1. LInv
    BY <1>2 DEF ColdInv, LInv
  <2>2. CASE \E i \in 1..Len(bound) : HotUnplug(i)
    BY <1>1, <1>2, <2>1, <2>2 DEF HotUnplug
  <2>3. CASE DetachLast
    <3>1. Len(bound) \in 1..Len(bound)
      BY <2>1, <2>3 DEF DetachLast, LInv, Inv, TypeOK
    <3> QED BY <1>1, <1>2, <2>1, <2>3, <3>1 DEF DetachLast
  <2> QED BY <1>2, <2>2, <2>3
      DEF Next, vars, Probe, SndLoad, SndLoadFails, SndLoadOopses, SndUnload, FbLoad,
          FbUnload, Unload, Unloaded, Load
<1>3. ColdInv /\ [Next]_vars => [Right]_vars
  BY <1>2
<1> QED BY <1>3, LInvAlways, PTL DEF Spec, RightCard
===============================================================================

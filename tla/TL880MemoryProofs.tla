--------------------------- MODULE TL880MemoryProofs ---------------------------
(***************************************************************************)
(* Proofs about the allocator of card memory, for any block size, pool and *)
(* request sizes.                                                          *)
(***************************************************************************)
EXTENDS TL880Memory, TLAPS

(* A size of at least one byte takes at least one block and fits its blocks. *)
LEMMA NbitsBounds ==
  ASSUME NEW sz \in Nat \ {0}
  PROVE  /\ Nbits(sz) \in Nat /\ Nbits(sz) >= 1
         /\ Nbits(sz) * BlockSize >= sz
<1> DEFINE q == (sz + BlockSize - 1) \div BlockSize
           m == (sz + BlockSize - 1) % BlockSize
<1>1. BlockSize \in Nat /\ BlockSize > 0 /\ sz > 0
  BY BlockAssumption
<1>2. q \in Int /\ m \in 0..(BlockSize - 1) /\ sz + BlockSize - 1 = BlockSize * q + m
  BY <1>1
<1>3. q >= 1
  BY <1>1, <1>2
<1>4. BlockSize * q = q * BlockSize
  BY <1>1, <1>2
<1>5. q * BlockSize >= sz
  <2> HIDE DEF q, m
  <2> QED BY <1>1, <1>2, <1>4
<1> QED BY <1>2, <1>3, <1>5 DEF Nbits

-------------------------------------------------------------------------------
(* The inductive invariant: the bitmap is the live regions, these lie in the  *)
(* pool and apart, and the search has passed no place where it could stop.    *)

BitsAreLive == bits = UNION {Blocks(r) : r \in live}

Inside == \A r \in live :
            /\ r[1] >= PoolStart
            /\ r[1] - PoolStart + Nbits(r[2]) <= nBlocks

Passed ==
  pc = "scan" => /\ pool = "ready" /\ want \in Sizes \ {0}
                 /\ \A s \in 0..nBlocks : s <= bit => ~Fits(s)

NoneLive == pool = "none" => live = {}

Inv == TypeOK /\ NoneLive /\ BitsAreLive /\ Disjoint /\ Inside /\ Passed

LEMMA ConstantFacts ==
  /\ nBlocks \in Nat /\ PoolStart \in Nat /\ PoolStart >= 1 /\ Sizes \subseteq Nat
  /\ \A sz \in Sizes \ {0} : /\ Nbits(sz) \in Nat /\ Nbits(sz) >= 1
                             /\ Nbits(sz) * BlockSize >= sz
<1>1. nBlocks \in Nat /\ PoolStart \in Nat /\ PoolStart >= 1
  BY CardAssumption DEF nBlocks
<1> QED BY <1>1, SizesAssumption, NbitsBounds

(* The blocks of a region, and the search's limit, in terms of its size.      *)
LEMMA TakeFits ==
  ASSUME Inv, AllocTake
  PROVE  \E z \in 0..nBlocks :
           /\ Fits(z) /\ z + Nbits(want) <= nBlocks
           /\ \A s \in 0..(z - 1) : ~Fits(s)
           /\ bits' = bits \cup Run(z, Nbits(want))
           /\ live' = live \cup {<<PoolStart + z, want>>}
<1>1. /\ want \in Sizes \ {0} /\ Nbits(want) \in Nat /\ Nbits(want) >= 1
      /\ bit \in Int /\ bit >= -1 /\ nBlocks \in Nat
      /\ EndBit \in Int /\ EndBit = nBlocks - (Nbits(want) + 1)
  BY ConstantFacts DEF Inv, TypeOK, Passed, AllocTake, EndBit
<1>2. PICK z \in 0..EndBit :
        /\ IsNextZero(z, bit + 1, EndBit) /\ z < EndBit
        /\ Nbits(want) > 1 => IsNextSet(z + Nbits(want), z + 1, z + Nbits(want))
        /\ bits' = bits \cup Run(z, Nbits(want))
        /\ live' = live \cup {<<PoolStart + z, want>>}
  BY DEF AllocTake
<1>3. z \notin bits
  BY <1>2 DEF IsNextZero
<1>4. \A y \in (z + 1)..(z + Nbits(want) - 1) : y \notin bits
  BY <1>1, <1>2 DEF IsNextSet
<1>5. Fits(z)
  BY <1>1, <1>2, <1>3, <1>4 DEF Fits, Run
<1>6. ASSUME NEW s \in 0..(z - 1) PROVE ~Fits(s)
  <2>1. CASE s <= bit
    BY <1>1, <1>2, <2>1 DEF Inv, Passed, AllocTake
  <2>2. CASE s > bit
    <3>1. s \in bits
      BY <1>1, <1>2, <2>2 DEF IsNextZero
    <3>2. s \in Run(s, Nbits(want))
      BY <1>1, <1>6 DEF Run
    <3> QED BY <3>1, <3>2 DEF Fits
  <2> QED BY <1>1, <2>1, <2>2
<1>7. z \in 0..nBlocks /\ z + Nbits(want) <= nBlocks
  BY <1>1, <1>2
<1> QED BY <1>2, <1>5, <1>6, <1>7

(* A search that gives up has passed every place below the limit.            *)
LEMMA FailIsFull ==
  ASSUME Inv, AllocFail PROVE \A s \in 0..nBlocks : ~Fits(s)
<1>1. /\ want \in Sizes \ {0} /\ Nbits(want) \in Nat /\ Nbits(want) >= 1
      /\ bit \in Int /\ bit >= -1 /\ nBlocks \in Nat
      /\ EndBit \in Int /\ EndBit = nBlocks - (Nbits(want) + 1)
  BY ConstantFacts DEF Inv, TypeOK, Passed, AllocFail, EndBit
<1> SUFFICES ASSUME NEW s \in 0..nBlocks, Fits(s) PROVE FALSE
  OBVIOUS
<1>2. s < EndBit
  BY DEF Fits
<1>3. s > bit
  BY <1>1 DEF Inv, Passed, AllocFail
<1>4. s \in bits
  BY <1>1, <1>2, <1>3 DEF AllocFail, IsNextZero
<1>5. s \in Run(s, Nbits(want))
  BY <1>1 DEF Run
<1> QED BY <1>4, <1>5 DEF Fits

LEMMA SkipPasses == ASSUME Inv, AllocSkip PROVE Passed' /\ bit' \in Int /\ bit' >= -1
<1>1. /\ want \in Sizes \ {0} /\ Nbits(want) \in Nat /\ Nbits(want) >= 1
      /\ bit \in Int /\ bit >= -1 /\ nBlocks \in Nat
      /\ EndBit \in Int /\ EndBit = nBlocks - (Nbits(want) + 1)
  BY ConstantFacts DEF Inv, TypeOK, Passed, AllocSkip, EndBit
<1>2. PICK z \in 0..EndBit, p \in 0..nBlocks :
        /\ IsNextZero(z, bit + 1, EndBit) /\ z < EndBit
        /\ IsNextSet(p, z + 1, z + Nbits(want)) /\ p - z < Nbits(want)
        /\ bit' = p
  BY DEF AllocSkip
<1>3. z \in (bit + 1)..EndBit /\ \A y \in (bit + 1)..(z - 1) : y \in bits
  BY <1>2 DEF IsNextZero
<1>4. p \in bits /\ p >= z + 1
  BY <1>1, <1>2, <1>3 DEF IsNextSet
<1>5. ASSUME NEW s \in 0..nBlocks, s <= p PROVE ~Fits(s)
  <2>1. CASE s <= bit
    BY <1>1, <2>1 DEF Inv, Passed, AllocSkip
  <2>2. CASE s > bit /\ s < z
    <3>1. s \in bits /\ s \in Run(s, Nbits(want))
      BY <1>1, <1>3, <2>2 DEF Run
    <3> QED BY <3>1 DEF Fits
  <2>3. CASE s >= z
    <3>1. p \in Run(s, Nbits(want))
      BY <1>1, <1>2, <1>5, <2>3 DEF Run
    <3> QED BY <1>4, <3>1 DEF Fits
  <2> QED BY <1>1, <1>2, <2>1, <2>2, <2>3
<1> QED BY <1>1, <1>2, <1>5 DEF Passed, Fits, EndBit, AllocSkip, Inv

LEMMA TakeStep == ASSUME Inv, AllocTake PROVE Inv'
<1>1. PICK z \in 0..nBlocks :
        /\ Fits(z) /\ z + Nbits(want) <= nBlocks
        /\ bits' = bits \cup Run(z, Nbits(want))
        /\ live' = live \cup {<<PoolStart + z, want>>}
  BY TakeFits
<1> DEFINE new == <<PoolStart + z, want>>
<1>2. /\ want \in Sizes \ {0} /\ Nbits(want) \in Nat /\ Nbits(want) >= 1
      /\ nBlocks \in Nat /\ PoolStart \in Nat
  BY ConstantFacts DEF Inv, Passed, AllocTake
<1>0. live' = live \cup {new}
  BY <1>1
<1>3. Blocks(new) = Run(z, Nbits(want))
  BY <1>2 DEF Blocks
<1>4. Blocks(new) \cap bits = {}
  BY <1>1, <1>3 DEF Fits
<1>5. BitsAreLive'
  BY <1>1, <1>3 DEF Inv, BitsAreLive, Blocks
<1>6. Disjoint'
  <2>1. \A r \in live : Blocks(r) \subseteq bits
    BY DEF Inv, BitsAreLive
  <2>2. \A r \in live : Blocks(r) \cap Blocks(new) = {}
    BY <1>4, <2>1
  <2>3. \A r, q \in live : r # q => Blocks(r) \cap Blocks(q) = {}
    BY DEF Inv, Disjoint
  <2>4. \A r : Blocks(r)' = Blocks(r)
    BY DEF Blocks
  <2> HIDE DEF new
  <2> QED BY <1>0, <2>2, <2>3, <2>4 DEF Disjoint
<1>7. Inside'
  BY <1>1, <1>2 DEF Inv, Inside
<1>8. TypeOK'
  <2>1. Run(z, Nbits(want)) \subseteq 0..(nBlocks - 1)
    BY <1>1, <1>2 DEF Run
  <2>2. new \in Nat \X (Sizes \ {0})
    BY <1>2
  <2>3. live' \subseteq Nat \X (Sizes \ {0}) /\ bits' \subseteq 0..(nBlocks - 1)
    <3> HIDE DEF new
    <3> QED BY <1>0, <1>1, <2>1, <2>2 DEF Inv, TypeOK
  <2>4. pool' \in {"none", "ready"} /\ pc' = "idle" /\ want' = 0 /\ bit' = -1
    BY DEF Inv, TypeOK, AllocTake, Unlock
  <2> QED BY <2>3, <2>4 DEF TypeOK
<1>9. Passed' /\ NoneLive'
  BY DEF AllocTake, Unlock, Passed, NoneLive, Inv
<1> QED BY <1>5, <1>6, <1>7, <1>8, <1>9 DEF Inv

LEMMA FreeStep == ASSUME Inv, NEW r \in live, Free(r) PROVE Inv'
<1>1. bits' = bits \ Blocks(r) /\ live' = live \ {r} /\ UNCHANGED <<pool, pc, want, bit>>
  BY DEF Free
<1>2. \A s \in live \ {r} : Blocks(s) \cap Blocks(r) = {}
  BY DEF Inv, Disjoint
<1>3. BitsAreLive'
  BY <1>1, <1>2 DEF Inv, BitsAreLive, Blocks
<1>4. TypeOK' /\ NoneLive' /\ Disjoint' /\ Inside' /\ Passed'
  BY <1>1 DEF Inv, TypeOK, NoneLive, Disjoint, Inside, Passed, Fits, Blocks, Free, EndBit
<1> QED BY <1>3, <1>4 DEF Inv

LEMMA InvStep == ASSUME Inv, [Next]_vars PROVE Inv'
<1> USE DEF TypeOK, NoneLive, BitsAreLive, Disjoint, Inside, Passed, Blocks, Inv
<1>1. CASE InitMemory
  BY <1>1 DEF InitMemory, Fits, EndBit
<1>2. CASE DeinitMemory
  BY <1>2 DEF DeinitMemory, Fits, EndBit
<1>3. ASSUME NEW sz \in Sizes, AllocStart(sz) PROVE Inv'
  <2>1. \A s \in 0..nBlocks : ~(s <= -1)
    OBVIOUS
  <2> QED BY <1>3, <2>1 DEF AllocStart
<1>4. CASE AllocTake
  BY <1>4, TakeStep
<1>5. CASE AllocSkip
  <2>1. Passed' /\ bit' \in Int /\ bit' >= -1
    BY <1>5, SkipPasses
  <2> QED BY <1>5, <2>1 DEF AllocSkip
<1>6. CASE AllocFail
  BY <1>6 DEF AllocFail, Unlock
<1>7. ASSUME NEW r \in live, Free(r) PROVE Inv'
  BY <1>7, FreeStep
<1>8. CASE UNCHANGED vars
  BY <1>8 DEF vars, Fits, EndBit
<1> QED BY <1>1, <1>2, <1>3, <1>4, <1>5, <1>6, <1>7, <1>8 DEF Next, AllocScan

LEMMA InvInit == Init => Inv
BY DEF Init, Inv, TypeOK, NoneLive, BitsAreLive, Disjoint, Inside, Passed

LEMMA InvAlways == Spec => []Inv
BY InvInit, InvStep, PTL DEF Spec

(* Every reachable state of the allocator is well typed.                     *)
THEOREM MemoryTypeCorrect == Spec => []TypeOK
BY InvAlways, PTL DEF Inv

(* The bitmap is exactly the regions handed out, whatever the sizes asked     *)
(* for: no block leaks, none is freed under its holder.                      *)
THEOREM BitmapIsExact == Spec => []BitsExact
<1>1. Inv => BitsExact
  BY DEF Inv, BitsAreLive, BitsExact
<1> QED BY <1>1, InvAlways, PTL

(* Two callers never share a block.                                          *)
THEOREM RegionsAreDisjoint == Spec => []Disjoint
BY InvAlways, PTL DEF Inv

(* A region lies inside the pool, even when its size does not fill its last   *)
(* block.                                                                    *)
THEOREM RegionsAreInPool == Spec => []InPool
<1>1. ASSUME Inv, NEW r \in live
      PROVE  /\ r[1] > 0 /\ r[1] >= Ring
             /\ r[1] * BlockSize + r[2] <= (PoolStart + nBlocks) * BlockSize
  <2> DEFINE a == r[1]
             n == Nbits(r[2])
  <2>1. /\ a \in Nat /\ a >= PoolStart /\ r[2] \in Sizes \ {0}
        /\ a - PoolStart + n <= nBlocks
    BY <1>1 DEF Inv, TypeOK, Inside
  <2>2. /\ n \in Nat /\ n * BlockSize >= r[2] /\ r[2] \in Nat
        /\ PoolStart \in Nat /\ PoolStart >= 1 /\ nBlocks \in Nat /\ BlockSize \in Nat
    BY <2>1, ConstantFacts, BlockAssumption
  <2>3. a + n <= PoolStart + nBlocks
    BY <2>1, <2>2
  <2>4. (a + n) * BlockSize <= (PoolStart + nBlocks) * BlockSize
    <3> HIDE DEF a, n
    <3> QED BY <2>1, <2>2, <2>3
  <2>5. (a + n) * BlockSize = a * BlockSize + n * BlockSize
    <3> HIDE DEF a, n
    <3> QED BY <2>1, <2>2
  <2>6. a * BlockSize + r[2] <= (PoolStart + nBlocks) * BlockSize
    <3> DEFINE ab == a * BlockSize
               nb == n * BlockSize
               lim == (PoolStart + nBlocks) * BlockSize
    <3>1. ab \in Int /\ nb \in Int /\ lim \in Int
      BY <2>1, <2>2
    <3>2. ab + nb <= lim /\ nb >= r[2]
      BY <2>2, <2>4, <2>5
    <3> HIDE DEF ab, nb, lim
    <3>3. ab + r[2] <= lim
      BY <2>2, <3>1, <3>2
    <3> QED BY <3>3 DEF ab, lim
  <2>7. a > 0 /\ a >= Ring
    BY <2>1, <2>2, RingAssumption
  <2> QED BY <2>6, <2>7
<1>2. Inv => InPool
  BY <1>1 DEF InPool
<1> QED BY <1>2, InvAlways, PTL

(* The three together: the property that the run checks.                     *)
THEOREM PoolStaysSound == Spec => []PoolIsSound
BY BitmapIsExact, RegionsAreDisjoint, RegionsAreInPool, PTL DEF PoolIsSound

(* The search is a first fit and fails only when nothing fits below its       *)
(* limit, although it skips places.                                          *)
THEOREM SearchIsFirstFit == Spec => FirstFit
<1> DEFINE Answer ==
      IF live' = live
        THEN \A s \in 0..nBlocks : ~Fits(s)
        ELSE \E z \in 0..nBlocks :
               /\ Fits(z) /\ live' = live \cup {<<PoolStart + z, want>>}
               /\ \A s \in 0..(z - 1) : ~Fits(s)
<1>1. ASSUME Inv, [Next]_vars, pc = "scan", pc' = "idle" PROVE Answer
  <2>1. CASE AllocTake
    <3>1. PICK z \in 0..nBlocks :
            /\ Fits(z) /\ \A s \in 0..(z - 1) : ~Fits(s)
            /\ live' = live \cup {<<PoolStart + z, want>>}
      BY <1>1, <2>1, TakeFits
    <3>2. want \in Sizes \ {0} /\ Nbits(want) \in Nat /\ Nbits(want) >= 1 /\ PoolStart \in Nat
      BY <1>1, ConstantFacts DEF Inv, Passed
    <3>3. z \in Blocks(<<PoolStart + z, want>>)
      BY <3>2 DEF Blocks, Run
    <3>4. z \in Run(z, Nbits(want))
      BY <3>2 DEF Run
    <3>5. <<PoolStart + z, want>> \notin live
      BY <1>1, <3>1, <3>3, <3>4 DEF Inv, BitsAreLive, Fits
    <3> QED BY <3>1, <3>5
  <2>2. CASE AllocFail
    BY <1>1, <2>2, FailIsFull DEF AllocFail
  <2> QED BY <1>1, <2>1, <2>2
      DEF Next, vars, AllocScan, InitMemory, DeinitMemory, AllocStart, AllocSkip, Free
<1>2. Inv /\ [Next]_vars => [pc = "scan" /\ pc' = "idle" => Answer]_vars
  BY <1>1
<1> QED BY <1>2, InvAlways, PTL DEF Spec, FirstFit
===============================================================================

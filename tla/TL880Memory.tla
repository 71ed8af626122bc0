------------------------------ MODULE TL880Memory ------------------------------
(***************************************************************************)
(* The allocator of the card's SDRAM: one pool with one chunk, a bitmap of *)
(* blocks, first fit (driver/genalloc.c, driver/tl880mem.c).               *)
(*                                                                         *)
(* The chunk's lock is held while the bitmap is searched, so the search is *)
(* a loop of its own here and every other operation waits for it.  A block *)
(* is the unit of addresses; sizes are in bytes.                           *)
(***************************************************************************)
EXTENDS Integers, FiniteSets

CONSTANTS
  BlockSize,  \* bytes in a block (1 << min_alloc_order)
  CardLen,    \* memlen, in blocks
  PoolStart,  \* first block of the pool (0x100000)
  Skip,       \* what tl880_init_memory takes off the length (0x11000)
  Sizes,      \* sizes that callers ask for, in bytes
  Ring        \* end of the ALSA ring, which is never allocated (0x81000)

ASSUME BlockAssumption == BlockSize \in Nat \ {0}
ASSUME CardAssumption  == CardLen \in Nat /\ PoolStart \in Nat \ {0}
                          /\ Skip \in Nat /\ Skip <= CardLen
ASSUME SizesAssumption == Sizes \subseteq Nat
ASSUME RingAssumption  == Ring \in Nat /\ Ring <= PoolStart

VARIABLES
  pool,  \* "none" or "ready"
  bits,  \* set bits of the chunk's bitmap
  live,  \* regions handed out and not yet given back, <<first block, bytes>>
  pc,    \* the search: "idle" or "scan", with the lock held
  want,  \* bytes the search is for
  bit    \* where it is

vars == <<pool, bits, live, pc, want, bit>>

nBlocks   == CardLen - Skip
Nbits(sz) == (sz + BlockSize - 1) \div BlockSize
\* Mutant: the limit does not leave room for the region.
EndBitLate == nBlocks
EndBit    == nBlocks - (Nbits(want) + 1)
Run(s, n) == s .. (s + n - 1)

\* Blocks, as bitmap positions, of a region.
Blocks(r) == Run(r[1] - PoolStart, Nbits(r[2]))

TypeOK ==
  /\ pool \in {"none", "ready"}
  /\ bits \subseteq 0..(nBlocks - 1)
  /\ live \subseteq Nat \X (Sizes \ {0})
  /\ pc \in {"idle", "scan"}
  /\ want \in Sizes \cup {0}
  /\ bit \in Int /\ bit >= -1

Init ==
  /\ pool = "none" /\ bits = {} /\ live = {}
  /\ pc = "idle" /\ want = 0 /\ bit = -1

-------------------------------------------------------------------------------
(* tl880_init_memory and tl880_deinit_memory. *)

InitMemory ==
  /\ pool = "none"
  /\ pool' = "ready" /\ bits' = {}
  /\ UNCHANGED <<live, pc, want, bit>>

\* The one caller in the tree, the audio unit, gives its memory back before.
DeinitMemory ==
  /\ pool = "ready" /\ pc = "idle" /\ live = {}
  /\ pool' = "none"
  /\ UNCHANGED <<bits, live, pc, want, bit>>

-------------------------------------------------------------------------------
(* gen_pool_alloc.  A size of zero is refused before the lock is taken. *)

\* find_next_zero_bit: z is the first clear bit from "from", or the limit.
IsNextZero(z, from, limit) ==
  /\ z \in from..limit
  /\ z < limit => z \notin bits
  /\ \A y \in from..(z - 1) : y \in bits

\* find_next_bit: p is the first set bit from "from", or the limit.
IsNextSet(p, from, limit) ==
  /\ p \in from..limit
  /\ p < limit => p \in bits
  /\ \A y \in from..(p - 1) : y \notin bits

AllocStart(sz) ==
  /\ pool = "ready" /\ pc = "idle" /\ sz # 0
  /\ pc' = "scan" /\ want' = sz /\ bit' = -1
  /\ UNCHANGED <<pool, bits, live>>

Unlock == pc' = "idle" /\ want' = 0 /\ bit' = -1

\* Mutant: the loop sets one bit less.
AllocTakeShort ==
  /\ pc = "scan" /\ bit + 1 < EndBit
  /\ \E z \in 0..EndBit :
       /\ IsNextZero(z, bit + 1, EndBit) /\ z < EndBit
       /\ Nbits(want) > 1 => IsNextSet(z + Nbits(want), z + 1, z + Nbits(want))
       /\ bits' = bits \cup Run(z, Nbits(want) - 1)
       /\ live' = live \cup {<<PoolStart + z, want>>}
  /\ Unlock /\ UNCHANGED pool

\* A clear bit with enough clear bits behind it.
AllocTake ==
  /\ pc = "scan" /\ bit + 1 < EndBit
  /\ \E z \in 0..EndBit :
       /\ IsNextZero(z, bit + 1, EndBit) /\ z < EndBit
       /\ Nbits(want) > 1 => IsNextSet(z + Nbits(want), z + 1, z + Nbits(want))
       /\ bits' = bits \cup Run(z, Nbits(want))
       /\ live' = live \cup {<<PoolStart + z, want>>}
  /\ Unlock /\ UNCHANGED pool

\* Mutant: the search goes on behind the whole run it could not use.
AllocSkipRun ==
  /\ pc = "scan" /\ bit + 1 < EndBit
  /\ \E z \in 0..EndBit, p \in 0..nBlocks :
       /\ IsNextZero(z, bit + 1, EndBit) /\ z < EndBit
       /\ Nbits(want) > 1 /\ IsNextSet(p, z + 1, z + Nbits(want))
       /\ p - z < Nbits(want)
       /\ bit' = z + Nbits(want)
  /\ UNCHANGED <<pool, bits, live, pc, want>>

\* A set bit too close behind: the search goes on from there.
AllocSkip ==
  /\ pc = "scan" /\ bit + 1 < EndBit
  /\ \E z \in 0..EndBit, p \in 0..nBlocks :
       /\ IsNextZero(z, bit + 1, EndBit) /\ z < EndBit
       /\ Nbits(want) > 1 /\ IsNextSet(p, z + 1, z + Nbits(want))
       /\ p - z < Nbits(want)
       /\ bit' = p
  /\ UNCHANGED <<pool, bits, live, pc, want>>

\* No clear bit below the limit: 0 is returned.
AllocFail ==
  /\ pc = "scan"
  /\ bit + 1 < EndBit => IsNextZero(EndBit, bit + 1, EndBit)
  /\ Unlock /\ UNCHANGED <<pool, bits, live>>

AllocScan == AllocTake \/ AllocSkip \/ AllocFail

-------------------------------------------------------------------------------
(* gen_pool_free of a region by its holder. *)

\* Mutant: a size that is no multiple of the block is rounded down.
FreeRoundsDown(r) ==
  /\ pool = "ready" /\ pc = "idle" /\ r \in live
  /\ bits' = bits \ Run(r[1] - PoolStart, r[2] \div BlockSize)
  /\ live' = live \ {r}
  /\ UNCHANGED <<pool, pc, want, bit>>

Free(r) ==
  /\ pool = "ready" /\ pc = "idle"
  /\ bits' = bits \ Blocks(r)
  /\ live' = live \ {r}
  /\ UNCHANGED <<pool, pc, want, bit>>

Next ==
  \/ InitMemory \/ DeinitMemory
  \/ \E sz \in Sizes : AllocStart(sz)
  \/ AllocScan
  \/ \E r \in live : Free(r)

Spec == Init /\ [][Next]_vars

-------------------------------------------------------------------------------
(* Properties. *)

\* The bitmap is exactly the regions handed out: no sequence of allocations and
\* frees of sizes that do not fill their blocks leaks a block or frees one that
\* is still in use, so gen_pool_destroy's BUG_ON(bit < end_bit) cannot hit once
\* every caller has given its memory back (genalloc.c 131, 157, 186 and 196).
BitsExact == pool = "ready" => bits = UNION {Blocks(r) : r \in live}

\* Two callers never share a block (gen_pool_alloc 147-158).
Disjoint == \A r, s \in live : r # s => Blocks(r) \cap Blocks(s) = {}

\* A region lies in the pool, behind the ring that the ALSA module uses without
\* allocating it, so the BUG_ON of gen_pool_free never hits and 0 is never the
\* address of a region (gen_pool_alloc 137-145, gen_pool_free 192-193).
InPool ==
  \A r \in live :
    /\ r[1] > 0 /\ r[1] >= Ring
    /\ r[1] * BlockSize + r[2] <= (PoolStart + nBlocks) * BlockSize

\* The pool keeps its books, for any sequence of sizes: the bitmap is what was handed
\* out, no block belongs to two callers, and none lies outside the pool.
PoolIsSound == BitsExact /\ Disjoint /\ InPool

Fits(s) == s < EndBit /\ Run(s, Nbits(want)) \cap bits = {}

\* "Uses a first-fit algorithm" (genalloc.c:118): a region starts at the first
\* place below the limit where it fits, and an allocation fails only when there
\* is none, although the search skips ahead.
FirstFit ==
  [][pc = "scan" /\ pc' = "idle" =>
       IF live' = live
         THEN \A s \in 0..nBlocks : ~Fits(s)
         ELSE \E z \in 0..nBlocks :
                /\ Fits(z) /\ live' = live \cup {<<PoolStart + z, want>>}
                /\ \A s \in 0..(z - 1) : ~Fits(s)]_vars
===============================================================================

------------------------------- MODULE TL880Copy -------------------------------
(***************************************************************************)
(* The samples in card memory: what the ALSA module's callbacks copy into  *)
(* and clear in the ring, through the memory functions, while the audio    *)
(* unit plays it (driver/tl880mem.c, driver/alsa/tl880alsa.c).             *)
(*                                                                         *)
(* An address counts words of four bytes, and a word is a frame: a sample  *)
(* of two channels of 16 bits.  The n-th frame of the stream is the number *)
(* n.  The ALSA core is external: it copies at the application's position, *)
(* splits a transfer at the end of the ring, makes no other callback than  *)
(* the trigger during one, and lets the stream underrun when it is empty.  *)
(***************************************************************************)
EXTENDS Integers

CONSTANTS
  MemWords,   \* memlen
  RingBase,   \* buffer_base, 0x1000 in the code
  RingSizes,  \* sizes of the ring that hw_params may ask for
  LineWords,  \* what line 0 of the MDP-120 overwrites, from RingBase on
  MaxFrames   \* bound: frames of a stream

ASSUME RingSizesAssumption == RingSizes \subseteq Nat \ {0}
ASSUME RingFitsAssumption  ==
  /\ MemWords \in Nat /\ RingBase \in Nat /\ LineWords \in Nat /\ MaxFrames \in Nat
  /\ \A n \in RingSizes : RingBase + n <= MemWords

VARIABLES
  mem,    \* the card's memory, and the word behind it
  state,  \* of the substream in the ALSA core
  size,   \* period_size * period_count; the ring's length
  appl,   \* frames the application has written, as the core counts them
  put,    \* frames of the transfer under way that are in memory
  asked,  \* frames it has been asked for; 0 without a transfer
  played, \* frames the audio unit has played
  wiped   \* history: frames that were in memory when the ring was last overwritten

copyVars == <<mem, state, size, appl, put, asked, played, wiped>>

Foreign == -1  \* what others keep in memory
Silence == 0
Ones    == -2
Words   == 0..MemWords

CopyTypeOK ==
  /\ mem \in [Words -> {Foreign, Silence, Ones} \cup 1..MaxFrames]
  /\ state \in {"setup", "prepared", "running", "suspended", "xrun"}
  /\ size \in RingSizes
  /\ {appl, put, asked, played, wiped} \subseteq 0..MaxFrames

CopyInit ==
  /\ mem = [a \in Words |-> Foreign]
  /\ state = "setup" /\ size \in RingSizes
  /\ appl = 0 /\ put = 0 /\ asked = 0 /\ played = 0 /\ wiped = 0

-------------------------------------------------------------------------------
(* The memory functions. *)

\* tl880_memcpy copies nothing from beyond the memory, and less up to its end.
Copied(addr, n) ==
  IF addr > MemWords THEN 0 ELSE IF addr + n > MemWords THEN MemWords - addr ELSE n

\* tl880_clear_sdram, a tl880_write_memory for each word below the end.
Cleared(from, to, v) ==
  [a \in Words |-> IF a \in from..(to - 1) /\ a < MemWords THEN v ELSE mem[a]]

-------------------------------------------------------------------------------
(* The callbacks. *)

\* Where the n-th frame of the stream lies.
Place(n) == RingBase + ((n - 1) % size)

RingCleared == Cleared(RingBase, RingBase + size, Silence)

SetParams(n) ==
  /\ asked = 0 /\ state \in {"setup", "prepared"}
  /\ size' = n /\ state' = "setup"
  /\ UNCHANGED <<mem, appl, put, asked, played, wiped>>

PrepareRing ==
  /\ asked = 0 /\ state \in {"setup", "prepared", "suspended", "xrun"}
  /\ state' = "prepared" /\ mem' = RingCleared
  /\ appl' = 0 /\ played' = 0 /\ wiped' = 0
  /\ UNCHANGED <<size, put, asked>>

\* START, which the core makes only when something was written, clears the ring with
\* the frames that were written before.
StartRing ==
  /\ state = "prepared" /\ appl > 0
  /\ state' = "running" /\ mem' = RingCleared
  /\ wiped' = appl + put
  /\ UNCHANGED <<size, appl, put, asked, played>>

ResumeRing ==
  /\ state = "suspended" /\ state' = "running"
  /\ UNCHANGED <<mem, size, appl, put, asked, played, wiped>>

StopRing ==
  /\ state = "running" /\ state' \in {"setup", "suspended"}
  /\ UNCHANGED <<mem, size, appl, put, asked, played, wiped>>

\* playback_copy, word by word: a transfer of whole frames into free room.
CopyBegins(n) ==
  /\ asked = 0 /\ state \in {"prepared", "running"}
  /\ n > 0 /\ appl + n <= MaxFrames /\ appl + n - played <= size
  /\ (appl % size) + n <= size
  /\ asked' = n
  /\ UNCHANGED <<mem, state, size, appl, put, played, wiped>>

CopyStores ==
  /\ put < Copied(Place(appl + 1), asked)
  /\ mem' = [mem EXCEPT ![Place(appl + 1) + put] = appl + put + 1]
  /\ put' = put + 1
  /\ UNCHANGED <<state, size, appl, asked, played, wiped>>

\* The core moves the application's position, unless the stream was stopped.
CopyEnds ==
  /\ asked > 0 /\ put = Copied(Place(appl + 1), asked)
  /\ appl' = IF state \in {"prepared", "running"} THEN appl + asked ELSE appl
  /\ put' = 0 /\ asked' = 0
  /\ UNCHANGED <<mem, state, size, played, wiped>>

\* Mutant: the silence begins at the last frame that was written.
SilenceFromLast(n) ==
  /\ asked = 0 /\ state \in {"prepared", "running"}
  /\ n > 0 /\ appl + n - played <= size /\ (appl % size) + n <= size
  /\ mem' = Cleared(Place(appl), Place(appl) + n, Silence)
  /\ UNCHANGED <<state, size, appl, put, asked, played, wiped>>

\* playback_silence of frames behind the application's position.
SilenceAhead(n) ==
  /\ asked = 0 /\ state \in {"prepared", "running"}
  /\ n > 0 /\ appl + n - played <= size /\ (appl % size) + n <= size
  /\ mem' = Cleared(Place(appl + 1), Place(appl + 1) + n, Silence)
  /\ UNCHANGED <<state, size, appl, put, asked, played, wiped>>

\* Line 0 of the MDP-120 plays a tone from the start of the ring (tl880_set_gpio).
ToneOn ==
  /\ mem' = Cleared(RingBase, RingBase + LineWords, Ones)
  /\ wiped' = appl + put
  /\ UNCHANGED <<state, size, appl, put, asked, played>>

\* The audio unit plays a frame, or finds none.
PlayFrame ==
  /\ state = "running" /\ played < appl
  /\ played' = played + 1
  /\ UNCHANGED <<mem, state, size, appl, put, asked, wiped>>

Underrun ==
  /\ state = "running" /\ played = appl
  /\ state' = "xrun"
  /\ UNCHANGED <<mem, size, appl, put, asked, played, wiped>>

CopyNext ==
  \/ \E n \in RingSizes : SetParams(n)
  \/ PrepareRing \/ StartRing \/ ResumeRing \/ StopRing
  \/ \E n \in 1..MaxFrames : CopyBegins(n) \/ SilenceAhead(n)
  \/ CopyStores \/ CopyEnds \/ ToneOn
  \/ PlayFrame \/ Underrun

CopySpec == CopyInit /\ [][CopyNext]_copyVars

-------------------------------------------------------------------------------
(* Properties. *)

RingWords == {a \in Words : \E n \in RingSizes : a \in RingBase..(RingBase + n - 1)}

\* Every frame that was written since the ring was last overwritten is still in its
\* place when the audio unit comes to it, however transfers, silence, wraps,
\* suspends and underruns follow each other, and nothing but the ring is touched
\* (playback_copy 532-537, playback_silence 565-570, prepare 211, tl880_memcpy 80-88,
\* tl880_clear_sdram 164-167).  START overwrites it too (trigger 160): what was
\* written before it is lost.
CopiesLand ==
  /\ \A a \in Words \ RingWords : mem[a] = Foreign \/ (mem[a] = Ones /\ a < RingBase + LineWords)
  /\ state \in {"prepared", "running"} =>
       \A n \in 1..(appl + put) : n > wiped /\ n > played => mem[Place(n)] = n

\* While the stream may still be played on.
Lasting == state \in {"prepared", "running", "suspended"}

\* What lies in memory where the audio unit will look.
Waiting == IF Lasting THEN [i \in 1..(appl + put - played) |-> mem[Place(played + i)]] ELSE <<>>

Stream == INSTANCE StreamQueue WITH
            Lengths <- RingSizes, Silent <- Silence, Tone <- Ones,
            queue   <- Waiting,
            written <- IF Lasting THEN appl + put ELSE 0,
            room    <- size,
            on      <- state = "running"

\* The ring is a queue of frames, read from memory at the places where the audio unit
\* will look: each stored word adds the next frame at the end, each frame played takes the
\* first, and silence, other transfers and wraps move none of them.  START and a tone may
\* turn them to noise, and a transfer into a suspended stream is taken back
\* (playback_copy 531-540, playback_silence 565-570, prepare 211, trigger 157-165).
ImplementsQueue == Stream!StreamSpec
===============================================================================

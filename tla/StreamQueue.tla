------------------------------ MODULE StreamQueue ------------------------------
(***************************************************************************)
(* What the card's memory promises a stream: a queue of bounded length.    *)
(* Frames are written one by one and played in the order of their writing, *)
(* none twice and none left out.  Only the start of the stream and a tone  *)
(* put something else in the place of frames that wait.                    *)
(***************************************************************************)
EXTENDS Naturals, Sequences

CONSTANTS
  Lengths,  \* how long the queue may be made
  Silent,   \* what the start leaves of a frame
  Tone      \* what a tone leaves of it

VARIABLES
  queue,    \* what waits to be played, a frame being its number
  written,  \* frames written since the stream began
  room,     \* the length of the queue
  on        \* it is being played

stream == <<queue, written, room, on>>

StreamInit == queue = <<>> /\ written = 0 /\ room \in Lengths /\ on = FALSE

\* The stream ends, and the next may have another length.
EndStream == queue' = <<>> /\ written' = 0 /\ room' \in Lengths /\ on' = FALSE

Write ==
  /\ Len(queue) < room
  /\ queue' = Append(queue, written + 1) /\ written' = written + 1
  /\ UNCHANGED <<room, on>>

\* What was written last is taken back.
Withdraw(n) ==
  /\ ~on
  /\ queue' = SubSeq(queue, 1, Len(queue) - n) /\ written' = written - n
  /\ UNCHANGED <<room, on>>

Start ==
  /\ ~on /\ on' = TRUE
  /\ queue' = [i \in 1..Len(queue) |-> Silent]
  /\ UNCHANGED <<written, room>>

Pause == on /\ on' = FALSE /\ UNCHANGED <<queue, written, room>>
Resume == ~on /\ on' = TRUE /\ UNCHANGED <<queue, written, room>>

Play ==
  /\ on /\ queue # <<>>
  /\ queue' = Tail(queue)
  /\ UNCHANGED <<written, room, on>>

Disturb ==
  /\ \E T \in SUBSET (1..Len(queue)) :
       queue' = [i \in 1..Len(queue) |-> IF i \in T THEN Tone ELSE queue[i]]
  /\ UNCHANGED <<written, room, on>>

StreamNext ==
  \/ EndStream \/ Write \/ Start \/ Pause \/ Resume \/ Play \/ Disturb
  \/ \E n \in 1..Len(queue) : Withdraw(n)

StreamSpec == StreamInit /\ [][StreamNext]_stream
================================================================================

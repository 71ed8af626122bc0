------------------------------ MODULE CallbackBag ------------------------------
(***************************************************************************)
(* What the list of callbacks promises on one processor: a bag of          *)
(* functions.  A registration and a removal each happen at one instant,    *)
(* never inside an interrupt, and an interrupt calls every function as     *)
(* often as it is in the bag, in some order, before it returns.            *)
(***************************************************************************)
EXTENDS Naturals

CONSTANT Functions

VARIABLES
  bag,     \* how often each function is registered
  called,  \* how often this interrupt has called it
  busy     \* an interrupt is on

callbacks == <<bag, called, busy>>

None == [f \in Functions |-> 0]

BagInit == bag = None /\ called = None /\ busy = FALSE

Register(f) ==
  /\ ~busy
  /\ bag' = [bag EXCEPT ![f] = @ + 1] /\ UNCHANGED <<called, busy>>

Unregister(f) ==
  /\ ~busy /\ bag[f] > 0
  /\ bag' = [bag EXCEPT ![f] = @ - 1] /\ UNCHANGED <<called, busy>>

Interrupt == ~busy /\ busy' = TRUE /\ UNCHANGED <<bag, called>>

Call(f) ==
  /\ busy /\ called[f] < bag[f]
  /\ called' = [called EXCEPT ![f] = @ + 1] /\ UNCHANGED <<bag, busy>>

Return ==
  /\ busy /\ called = bag
  /\ busy' = FALSE /\ called' = None /\ UNCHANGED bag

BagNext ==
  \/ \E f \in Functions : Register(f) \/ Unregister(f) \/ Call(f)
  \/ Interrupt \/ Return

BagSpec == BagInit /\ [][BagNext]_callbacks
================================================================================

----------------------------- MODULE TL880Callbacks -----------------------------
(***************************************************************************)
(* The list apu_th_funcs of functions that the top half calls at an audio  *)
(* interrupt.  Processes add and remove functions (the ALSA module does    *)
(* when it is loaded and unloaded) and no lock keeps the top half out      *)
(* (driver/tl880int.c 94-194, driver/tl880kern.c 679-681,                  *)
(* driver/alsa/tl880alsa.c 662 and 673).                                   *)
(*                                                                         *)
(* A step is one store to the list or one look at it.  A node is a piece   *)
(* of kernel memory, which kmalloc hands out again after kfree.            *)
(***************************************************************************)
EXTENDS Naturals, FiniteSets

CONSTANTS
  Funcs,     \* functions that may be registered
  Nodes,     \* memory for struct int_func_desc
  Processes, \* processes that add and remove
  Parallel   \* they and the top half run on several processors

NoNode == "no node"
NoFunc == "no function"

ASSUME CallbackAssumption ==
  /\ NoNode \notin Nodes /\ NoFunc \notin Funcs
  /\ IsFiniteSet(Nodes) /\ Parallel \in BOOLEAN

VARIABLES
  head,   \* apu_th_funcs
  next,   \* next of every node
  func,   \* func of every node
  heap,   \* nodes that are allocated
  doing,  \* what a process does next
  cb,     \* the function it adds or removes
  p, new, \* its locals: the node it looks at, the node it adds or frees
  walk,   \* tl880_run_callbacks: "out", "call" or "next"
  cur,    \* its p
  calls,  \* history: how often this walk has called each function
  owed    \* history: registrations that returned, less removals that began

listVars == <<head, next, func, heap>>
procVars == <<doing, cb, p, new>>
walkVars == <<walk, cur, calls>>
cbVars   == <<listVars, procVars, walkVars, owed>>

Link == Nodes \cup {NoNode}
Doings == {"nothing", "add", "first", "search", "append", "remove",
           "behead", "find", "cut", "free", "delete", "drop"}

CbTypeOK ==
  /\ head \in Link /\ next \in [Nodes -> Link] /\ func \in [Nodes -> Funcs \cup {NoFunc}]
  /\ heap \subseteq Nodes
  /\ doing \in [Processes -> Doings] /\ cb \in [Processes -> Funcs \cup {NoFunc}]
  /\ p \in [Processes -> Link] /\ new \in [Processes -> Link]
  /\ walk \in {"out", "call", "next"} /\ cur \in Link
  /\ calls \in [Funcs -> Nat] /\ owed \in [Funcs -> Nat]

CbInit ==
  /\ head = NoNode /\ next = [n \in Nodes |-> NoNode] /\ func = [n \in Nodes |-> NoFunc]
  /\ heap = {}
  /\ doing = [q \in Processes |-> "nothing"] /\ cb = [q \in Processes |-> NoFunc]
  /\ p = [q \in Processes |-> NoNode] /\ new = [q \in Processes |-> NoNode]
  /\ walk = "out" /\ cur = NoNode
  /\ calls = [f \in Funcs |-> 0] /\ owed = [f \in Funcs |-> 0]

\* On one processor an interrupt may come between any two steps of a process, and
\* the process goes on when it is over.  Processes do not sleep in between, and the
\* kernel does not take the processor from them.
MayRun(q) ==
  Parallel \/ (walk = "out" /\ \A r \in Processes \ {q} : doing[r] = "nothing")

At(q, d)  == MayRun(q) /\ doing[q] = d
Goto(q, d) == doing' = [doing EXCEPT ![q] = d]

\* The struct of the card is being deleted: its interrupt is freed, and whoever used
\* the card is gone.
Deleting == \E q \in Processes : doing[q] \in {"delete", "drop"}

-------------------------------------------------------------------------------
(* tl880_add_int_callback, from the return of kmalloc, which may have slept;     *)
(* when it fails nothing is changed.                                             *)

AddBegins(q, f) ==
  /\ At(q, "nothing") /\ ~Deleting
  /\ \E n \in Nodes \ heap :
       /\ heap' = heap \cup {n}
       /\ func' = [func EXCEPT ![n] = f] /\ next' = [next EXCEPT ![n] = NoNode]
       /\ new' = [new EXCEPT ![q] = n]
  /\ cb' = [cb EXCEPT ![q] = f] /\ Goto(q, "add")
  /\ UNCHANGED <<head, p, walkVars, owed>>

AddLooks(q) ==
  /\ At(q, "add")
  /\ IF head = NoNode THEN Goto(q, "first") ELSE Goto(q, "search")
  /\ p' = [p EXCEPT ![q] = head]
  /\ UNCHANGED <<listVars, cb, new, walkVars, owed>>

Added(q) ==
  /\ Goto(q, "nothing")
  /\ cb' = [cb EXCEPT ![q] = NoFunc]
  /\ p' = [p EXCEPT ![q] = NoNode] /\ new' = [new EXCEPT ![q] = NoNode]
  /\ owed' = [owed EXCEPT ![cb[q]] = @ + 1]

AddFirst(q) ==
  /\ At(q, "first")
  /\ head' = new[q]
  /\ Added(q) /\ UNCHANGED <<next, func, heap, walkVars>>

AddSearch(q) ==
  /\ At(q, "search")
  /\ IF next[p[q]] = NoNode
       THEN Goto(q, "append") /\ UNCHANGED p
       ELSE p' = [p EXCEPT ![q] = next[p[q]]] /\ UNCHANGED doing
  /\ UNCHANGED <<listVars, cb, new, walkVars, owed>>

AddAppend(q) ==
  /\ At(q, "append")
  /\ next' = [next EXCEPT ![p[q]] = new[q]]
  /\ Added(q) /\ UNCHANGED <<head, func, heap, walkVars>>

-------------------------------------------------------------------------------
(* tl880_remove_int_callback.  A function that is not registered is only      *)
(* reported; of one registered twice the first entry goes.                    *)

RemoveBegins(q, f) ==
  /\ At(q, "nothing") /\ ~Deleting
  /\ cb' = [cb EXCEPT ![q] = f] /\ Goto(q, "remove")
  /\ owed' = [owed EXCEPT ![f] = IF @ = 0 THEN 0 ELSE @ - 1]
  /\ UNCHANGED <<listVars, p, new, walkVars>>

RemoveReturns(q) ==
  /\ Goto(q, "nothing")
  /\ cb' = [cb EXCEPT ![q] = NoFunc]
  /\ p' = [p EXCEPT ![q] = NoNode] /\ new' = [new EXCEPT ![q] = NoNode]

RemoveLooks(q) ==
  /\ At(q, "remove")
  /\ IF head = NoNode THEN RemoveReturns(q)
     ELSE /\ Goto(q, IF func[head] = cb[q] THEN "behead" ELSE "find")
          /\ p' = [p EXCEPT ![q] = head] /\ UNCHANGED <<cb, new>>
  /\ UNCHANGED <<listVars, walkVars, owed>>

RemoveHead(q) ==
  /\ At(q, "behead")
  /\ head' = next[p[q]]
  /\ new' = [new EXCEPT ![q] = p[q]] /\ Goto(q, "free")
  /\ UNCHANGED <<next, func, heap, cb, p, walkVars, owed>>

\* Mutant: the node looked at is compared, and its successor removed.
FoundHere(q) == func[p[q]] = cb[q]
Matches(q) == func[next[p[q]]] = cb[q]

RemoveFinds(q) ==
  /\ At(q, "find")
  /\ IF next[p[q]] = NoNode THEN RemoveReturns(q)
     ELSE /\ IF Matches(q) THEN Goto(q, "cut") /\ new' = [new EXCEPT ![q] = next[p[q]]] /\ UNCHANGED p
             ELSE p' = [p EXCEPT ![q] = next[p[q]]] /\ UNCHANGED <<doing, new>>
          /\ UNCHANGED cb
  /\ UNCHANGED <<listVars, walkVars, owed>>

\* Mutant: the node is freed where it is.
RemoveCutsNothing(q) ==
  /\ At(q, "cut")
  /\ Goto(q, "free")
  /\ UNCHANGED <<listVars, cb, p, new, walkVars, owed>>

RemoveCuts(q) ==
  /\ At(q, "cut")
  /\ next' = [next EXCEPT ![p[q]] = next[new[q]]]
  /\ Goto(q, "free")
  /\ UNCHANGED <<head, func, heap, cb, p, new, walkVars, owed>>

RemoveFrees(q) ==
  /\ At(q, "free")
  /\ heap' = heap \ {new[q]}
  /\ RemoveReturns(q) /\ UNCHANGED <<head, next, func, walkVars, owed>>

-------------------------------------------------------------------------------
(* tl880_delete_dev removes the first function until there is none.  The next  *)
(* probe makes a new struct.                                                   *)

DeleteBegins(q) ==
  /\ \A r \in Processes : doing[r] = "nothing"
  /\ walk = "out"
  /\ Goto(q, "delete")
  /\ UNCHANGED <<listVars, cb, p, new, walkVars, owed>>

DeleteHead(q) ==
  /\ At(q, "delete") /\ head # NoNode
  /\ head' = next[head]
  /\ new' = [new EXCEPT ![q] = head] /\ Goto(q, "drop")
  /\ UNCHANGED <<next, func, heap, cb, p, walkVars, owed>>

DeleteFrees(q) ==
  /\ At(q, "drop")
  /\ heap' = heap \ {new[q]}
  /\ new' = [new EXCEPT ![q] = NoNode] /\ Goto(q, "delete")
  /\ UNCHANGED <<head, next, func, cb, p, walkVars, owed>>

DeleteEnds(q) ==
  /\ At(q, "delete") /\ head = NoNode
  /\ owed' = [f \in Funcs |-> 0] /\ Goto(q, "nothing")
  /\ UNCHANGED <<listVars, cb, p, new, walkVars>>

-------------------------------------------------------------------------------
(* tl880_run_callbacks, in the top half. *)

WalkBegins ==
  /\ walk = "out" /\ head # NoNode /\ ~Deleting
  /\ walk' = "call" /\ cur' = head /\ calls' = [f \in Funcs |-> 0]
  /\ UNCHANGED <<listVars, procVars, owed>>

WalkCalls ==
  /\ walk = "call"
  /\ walk' = "next"
  /\ calls' = [calls EXCEPT ![func[cur]] = @ + 1]
  /\ UNCHANGED <<listVars, procVars, cur, owed>>

WalkSteps ==
  /\ walk = "next"
  /\ cur' = next[cur] /\ walk' = IF next[cur] = NoNode THEN "out" ELSE "call"
  /\ UNCHANGED <<listVars, procVars, calls, owed>>

CbNext ==
  \/ \E q \in Processes :
       \/ \E f \in Funcs : AddBegins(q, f) \/ RemoveBegins(q, f)
       \/ AddLooks(q) \/ AddFirst(q) \/ AddSearch(q) \/ AddAppend(q)
       \/ RemoveLooks(q) \/ RemoveHead(q) \/ RemoveFinds(q) \/ RemoveCuts(q) \/ RemoveFrees(q)
       \/ DeleteBegins(q) \/ DeleteHead(q) \/ DeleteFrees(q) \/ DeleteEnds(q)
  \/ WalkBegins \/ WalkCalls \/ WalkSteps

CbSpec == CbInit /\ [][CbNext]_cbVars

-------------------------------------------------------------------------------
(* Properties. *)

\* The list as an interrupt finds it: its k-th link.
LinkAt[k \in 0..Cardinality(Nodes)] ==
  IF k = 0 THEN head ELSE LET l == LinkAt[k - 1] IN IF l = NoNode THEN NoNode ELSE next[l]
Listed == {LinkAt[k] : k \in 0..Cardinality(Nodes)} \ {NoNode}

\* On one processor, whenever an interrupt comes, between any two stores of a change,
\* the list it walks ends, holds no freed node, and lacks no node but the one being
\* added or removed (tl880_add_int_callback 111-118, tl880_remove_int_callback
\* 131-150).
ListIsWhole ==
  ~Parallel =>
    /\ LinkAt[Cardinality(Nodes)] = NoNode
    /\ Listed \subseteq heap
    /\ heap \ Listed \subseteq {new[q] : q \in Processes}

\* On one processor an interrupt finds the list whole and calls every function once
\* for each registration that has returned and whose removal has not begun; the one
\* being added or removed at that moment may be called once more
\* (tl880_run_callbacks 155-167).
CalledAsRegistered ==
  /\ []ListIsWhole
  /\ [][~Parallel /\ walk = "next" /\ walk' = "out" =>
          \A f \in Funcs :
            calls[f] \in {owed[f]} \cup (IF \E q \in Processes : cb[q] = f THEN {owed[f] + 1} ELSE {})]_cbVars

Registered == [f \in Funcs |-> Cardinality({m \in heap : m \in Listed /\ func[m] = f})]

Bag == INSTANCE CallbackBag WITH
         Functions <- Funcs,
         bag    <- Registered,
         called <- IF walk = "out" THEN [f \in Funcs |-> 0] ELSE calls,
         busy   <- walk # "out"

\* On one processor the list is a bag of functions.  A registration takes effect at the
\* store that links its node, a removal at the store that takes one out, although the
\* interrupt may come before and after any store: it finds the bag with or without that
\* one function and calls every other exactly as often as it is in it
\* (tl880_add_int_callback 111-121, tl880_remove_int_callback 131-150,
\* tl880_run_callbacks 155-167).
ImplementsBag == Bag!BagSpec
===============================================================================

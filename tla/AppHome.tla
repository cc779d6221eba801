------------------------------ MODULE AppHome ------------------------------
(***************************************************************************)
(* What moving an app promises, whatever fails on the way: the app has one *)
(* home at every moment; an attempt to move it has one destination and     *)
(* switches the home at most once; a region becomes the home only when it  *)
(* holds every promised write; the home's store only grows.  Stores of     *)
(* other regions may be filled, overwritten or deleted at will.            *)
(***************************************************************************)
EXTENDS FiniteSets

CONSTANTS Regions, FirstHome, Writes, NoMove

VARIABLES
  home,       \* where the app is served from
  moving,     \* the attempt in progress, <<from, to>>, or NoMove
  store,      \* region -> writes it holds
  promised    \* writes the client may rely on

vars == <<home, moving, store, promised>>

Init ==
  /\ home = FirstHome
  /\ moving = NoMove
  /\ store = [r \in Regions |-> {}]
  /\ promised = {}

Begin(to) ==
  /\ moving = NoMove
  /\ to # home
  /\ moving' = <<home, to>>
  /\ UNCHANGED <<home, store, promised>>

Switch(to) ==
  /\ moving = <<home, to>>
  /\ promised \subseteq store[to]
  /\ home' = to
  /\ UNCHANGED <<moving, store, promised>>

End ==
  /\ moving # NoMove
  /\ moving' = NoMove
  /\ UNCHANGED <<home, store, promised>>

Promise(w) ==
  /\ store' = [store EXCEPT ![home] = @ \cup {w}]
  /\ promised' = promised \cup {w}
  /\ UNCHANGED <<home, moving>>

(* Copying, restoring, deleting, and writes nobody is promised.            *)
Replicas ==
  /\ store' \in [Regions -> SUBSET Writes]
  /\ store[home] \subseteq store'[home]
  /\ UNCHANGED <<home, moving, promised>>

Next ==
  \/ \E to \in Regions : Begin(to) \/ Switch(to)
  \/ End
  \/ \E w \in Writes : Promise(w)
  \/ Replicas

Spec == Init /\ [][Next]_vars

(* The promise that follows: nothing promised is ever missing at home.     *)
PromisesKept == promised \subseteq store[home]

===========================================================================

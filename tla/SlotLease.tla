----------------------------- MODULE SlotLease -----------------------------
(***************************************************************************)
(* What the states of a slot promise, whatever messages they take: a slot  *)
(* has one holder at a time, nobody takes it from the holder, and          *)
(* ThrottleX counts it as its own only while it is (SlotControl.State).    *)
(* SlotActivation implements it.                                           *)
(***************************************************************************)
VARIABLES holder,   \* who has the slot: "us", "other" or "nobody"
          counted   \* ThrottleX counts it as Active

vars == <<holder, counted>>

Init == holder = "nobody" /\ counted = FALSE

\* ThrottleX gets a slot that nobody has, perhaps without hearing of it, ...
Take == holder = "nobody" /\ holder' = "us" /\ counted' \in BOOLEAN

\* ... or learns that it has it.
Notice == holder = "us" /\ counted' = TRUE /\ UNCHANGED holder

\* It forgets the slot, and leaves it taken, ...
Forget == counted' = FALSE /\ UNCHANGED holder

\* ... or gives it back, which it does only with a slot that it counts.
GiveBack == counted /\ holder' = "nobody" /\ counted' = FALSE

OtherTakes    == holder = "nobody" /\ holder' = "other" /\ UNCHANGED counted
OtherReleases == holder = "other" /\ holder' = "nobody" /\ UNCHANGED counted

Next == Take \/ Notice \/ Forget \/ GiveBack \/ OtherTakes \/ OtherReleases

Spec == Init /\ [][Next]_vars

\* What is counted is held: no step of the other device can be made meanwhile.
Exclusive == counted => holder = "us"
============================================================================

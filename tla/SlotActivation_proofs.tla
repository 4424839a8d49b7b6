----------------------- MODULE SlotActivation_proofs -----------------------
(***************************************************************************)
(* Proofs about SlotActivation: with devices that respect a slot IN_USE,   *)
(* mark a slot as they take it and have an id of their own, ThrottleX      *)
(* holds every slot it counts as Active and leaves the others' alone.      *)
(***************************************************************************)
EXTENDS SlotActivation, TLAPS

\* The use bits tell whether the slot has a holder, the id which one if it
\* is the other device.
StationInv ==
    /\ use = "IN_USE" <=> holder # "nobody"
    /\ holder = "other" => id = OtherId

\* Between the null move and the write of the id the slot is ours already,
\* and during the exchanges the slot state is the one from before them.
ExchangeInv ==
    /\ pc = "writeId" => holder = "us"
    /\ pc # "poll" => slotState \in {"None", "Inactive"}

\* After the look-up its use bits are known.
LookedUp == pc \in {"nullMove", "writeId"} => stat1 # "null"

HeldInv == TypeOK /\ LookedUp /\ StationInv /\ ExchangeInv /\ ActiveMeansHeld

\* Every step keeps the invariant.
LEMMA HeldStep ==
    ASSUME MarksAtOnce, OtherId # OurId, HeldInv, [Next]_vars
    PROVE  HeldInv'
<1> USE DEF HeldInv, TypeOK, LookedUp, StationInv, ExchangeInv, ActiveMeansHeld,
            Ids, Uses, States, Links, Return, stationVars, threadVars
<1>1. CASE StartActivate BY <1>1 DEF StartActivate
<1>2. CASE GiveUp        BY <1>2 DEF GiveUp
<1>3. ASSUME NEW link \in Links, LookUp(link) PROVE HeldInv'
  BY <1>3 DEF LookUp
<1>4. ASSUME NEW link \in Links, NullMove(link) PROVE HeldInv'
  BY <1>4 DEF NullMove
<1>5. ASSUME NEW link \in Links, WriteId(link) PROVE HeldInv'
  BY <1>5 DEF WriteId
<1>6. ASSUME NEW link \in Links, Deactivate(link) PROVE HeldInv'
  BY <1>6 DEF Deactivate
<1>7. CASE Restart       BY <1>7 DEF Restart
<1>8. CASE Toggle        BY <1>8 DEF Toggle
<1>9. CASE OtherTakes    BY <1>9 DEF OtherTakes
<1>10. CASE OtherMarks   BY <1>10 DEF OtherMarks
<1>11. CASE OtherReleases BY <1>11 DEF OtherReleases
<1>12. CASE UNCHANGED vars BY <1>12 DEF vars
<1> QED
  BY <1>1, <1>2, <1>3, <1>4, <1>5, <1>6, <1>7, <1>8, <1>9, <1>10, <1>11, <1>12
     DEF Next, SendThread, OtherDevice

LEMMA HeldInductive ==
    ASSUME MarksAtOnce, OtherId # OurId
    PROVE  Spec => []HeldInv
<1>1. Init => HeldInv
  BY DEF Init, HeldInv, TypeOK, LookedUp, StationInv, ExchangeInv, ActiveMeansHeld, Ids, Uses, States
<1>2. HeldInv /\ [Next]_vars => HeldInv' BY HeldStep
<1> QED BY <1>1, <1>2, PTL DEF Spec

\* Every variable of an activation keeps its type, whatever the manners of
\* the other device, and whoever counts a slot as Active can release it:
\* LastKnownStat1, null in a new SlotControl, has a value (LoconetSend.cs:262).
THEOREM ActivationTypes == Spec => []TypeOK
<1> DEFINE Typed == TypeOK /\ LookedUp
<1> USE DEF TypeOK, LookedUp, Ids, Uses, States
<1>1. Init => Typed BY DEF Init
<1>2. Typed /\ [Next]_vars => Typed'
  <2> SUFFICES ASSUME Typed, [Next]_vars PROVE Typed' OBVIOUS
  <2> USE DEF Links, Return, stationVars, threadVars
  <2>1. ASSUME NEW link \in Links,
               LookUp(link) \/ NullMove(link) \/ WriteId(link) \/ Deactivate(link)
        PROVE  Typed'
    BY <2>1 DEF LookUp, NullMove, WriteId, Deactivate
  <2>2. CASE StartActivate \/ GiveUp \/ Restart \/ Toggle
    BY <2>2 DEF StartActivate, GiveUp, Restart, Toggle
  <2>3. CASE OtherDevice
    BY <2>3, IdAssumption DEF OtherDevice, OtherTakes, OtherMarks, OtherReleases
  <2>4. CASE UNCHANGED vars BY <2>4 DEF vars
  <2> QED BY <2>1, <2>2, <2>3, <2>4 DEF Next, SendThread
<1> QED BY <1>1, <1>2, PTL DEF Spec

\* A slot that ThrottleX counts as Active is IN_USE by ThrottleX
\* (LoconetSend.Activating, SlotControl.State.Active).
THEOREM ActiveIsHeld ==
    ASSUME MarksAtOnce, OtherId # OurId
    PROVE  Spec => []ActiveMeansHeld
  BY HeldInductive, PTL DEF HeldInv

\* No step of ThrottleX changes a slot that another device has IN_USE
\* (OccupySlotResult.Occupied: "we won't touch it!").
THEOREM OthersUntouched ==
    ASSUME MarksAtOnce, OtherId # OurId
    PROVE  Spec => OthersSlotUntouched
<1>1. HeldInv /\ [Next]_vars => [holder = "other" /\ ~OtherDevice => UNCHANGED stationVars]_vars
  <2> SUFFICES ASSUME HeldInv, Next, holder = "other", ~OtherDevice
               PROVE  UNCHANGED stationVars
    OBVIOUS
  <2>1. use = "IN_USE" /\ pc # "writeId" /\ slotState # "Active"
    BY DEF HeldInv, StationInv, ExchangeInv, ActiveMeansHeld
  <2> QED
    BY <2>1 DEF Next, SendThread, OtherDevice, StartActivate, GiveUp, LookUp, NullMove,
       WriteId, Deactivate, Restart, Toggle, Return, stationVars, threadVars, HeldInv, TypeOK, Uses
<1> QED BY <1>1, HeldInductive, PTL DEF Spec, OthersSlotUntouched

\* Every step of the exchanges is one of the lease, or none: only a null move
\* takes the slot, and only a release of a slot that counts gives it back.
LEMMA LeaseStep ==
    ASSUME MarksAtOnce, OtherId # OurId, HeldInv, [Next]_vars
    PROVE  [Lease!Next]_(Lease!vars)
<1> USE DEF Lease!Next, Lease!vars, Lease!Take, Lease!Notice, Lease!Forget, Lease!GiveBack,
            Lease!OtherTakes, Lease!OtherReleases, HeldInv, TypeOK, StationInv, ExchangeInv,
            ActiveMeansHeld, Ids, Uses, States, Links, Return, stationVars, threadVars
<1>1. CASE StartActivate \/ GiveUp \/ Toggle \/ OtherMarks
  BY <1>1 DEF StartActivate, GiveUp, Toggle, OtherMarks
<1>2. ASSUME NEW link \in Links, LookUp(link) PROVE Lease!Notice \/ UNCHANGED Lease!vars
  BY <1>2 DEF LookUp
<1>3. ASSUME NEW link \in Links, NullMove(link) PROVE Lease!Take \/ UNCHANGED Lease!vars
  BY <1>3 DEF NullMove
<1>4. ASSUME NEW link \in Links, WriteId(link) PROVE Lease!Notice \/ UNCHANGED Lease!vars
  BY <1>4 DEF WriteId
<1>5. ASSUME NEW link \in Links, Deactivate(link) PROVE Lease!GiveBack \/ Lease!Forget
  BY <1>5 DEF Deactivate
<1>6. CASE Restart       BY <1>6 DEF Restart
<1>7. CASE OtherTakes    BY <1>7 DEF OtherTakes
<1>8. CASE OtherReleases BY <1>8 DEF OtherReleases
<1>9. CASE UNCHANGED vars BY <1>9 DEF vars
<1> QED
  BY <1>1, <1>2, <1>3, <1>4, <1>5, <1>6, <1>7, <1>8, <1>9 DEF Next, SendThread, OtherDevice

\* The exchanges of the send thread implement the lease that the states of a
\* slot promise (SlotControl.State).
THEOREM ImplementsLease ==
    ASSUME MarksAtOnce, OtherId # OurId
    PROVE  Spec => IsLease
<1>1. Init => Lease!Init BY DEF Init, Lease!Init
<1>2. HeldInv /\ [Next]_vars => [Lease!Next]_(Lease!vars) BY LeaseStep
<1> QED BY <1>1, <1>2, HeldInductive, PTL DEF Spec, IsLease, Lease!Spec

=============================================================================

--------------------------- MODULE SlotActivation ---------------------------
(***************************************************************************)
(* How a send thread occupies and releases the slot of one loco in the     *)
(* command station: OPC_LOCO_ADR, a null move and OPC_WR_SL_DATA, each an  *)
(* exchange that may fail, against another device that wants the same      *)
(* slot.  All that ThrottleX knows of the slot's holder is the use bits    *)
(* and the device id it reads in between.                                  *)
(*                                                                         *)
(* The station and the other device are modelled from what the code sends  *)
(* and from the comment of MoveSlots: a null move of a slot that is IN_USE *)
(* is not legal.  FREE, IDLE and COMMON are all "not IN_USE" to the code.  *)
(***************************************************************************)
CONSTANTS OurId,       \* ILoconet2Row.SlotId, the same for every row
          OtherId,     \* what the other device writes into the slot
          BlankId,     \* no id
          MarksAtOnce  \* the other device takes and marks the slot in one go

ASSUME IdAssumption == BlankId # OurId /\ MarksAtOnce \in BOOLEAN

VARIABLES
    use,        \* the slot's use bits in the station: "COMMON" or "IN_USE"
    id,         \* the slot's device id in the station
    holder,     \* who set it IN_USE: "us", "other" or "nobody"
    wanted,     \* IsLocoActivatedForThisLoconet
    slotState,  \* SlotControl.SlotState
    stat1,      \* SlotControl.LastKnownStat1, "null" until the first look-up
    pc          \* the exchange that Activating is about to make

stationVars == <<use, id, holder>>
threadVars  == <<slotState, stat1, pc>>
vars        == <<stationVars, wanted, threadVars>>

Ids      == {OurId, OtherId, BlankId}
Uses     == {"COMMON", "IN_USE"}
States   == {"None", "Inactive", "Active", "Failed", "Occupied"}
\* An exchange: answered, its request lost or refused by the link, its
\* reply lost or late.
Links    == {"ok", "noRequest", "noReply"}

Init ==
    /\ use = "COMMON" /\ id = BlankId /\ holder = "nobody"
    /\ wanted = FALSE
    /\ slotState = "None" /\ stat1 = "null" /\ pc = "poll"

\* Activate(row, slot) returns; what it reports to the row is LocoRow's part.
Return(state) == slotState' = state /\ pc' = "poll"

----------------------------------------------------------------------------
(* The send thread. *)

StartActivate ==
    /\ pc = "poll" /\ wanted /\ slotState \in {"None", "Inactive"}
    /\ pc' = "lookUp"
    /\ UNCHANGED <<stationVars, wanted, slotState, stat1>>

\* Mutant: our id in the slot is taken for control, whatever the use bits.
LookUpById(link) ==
    /\ pc = "lookUp"
    /\ \/ link # "ok" /\ Return("Failed") /\ UNCHANGED stat1
       \/ /\ link = "ok"
          /\ stat1' = use
          /\ \/ id = OurId /\ Return("Active")
             \/ use = "IN_USE" /\ id # OurId /\ Return("Occupied")
             \/ use # "IN_USE" /\ id # OurId /\ pc' = "nullMove" /\ UNCHANGED slotState
    /\ UNCHANGED <<stationVars, wanted>>

\* Mutant: a slot that is ours already is not noted.
LookUpOursUnnoted(link) ==
    /\ pc = "lookUp"
    /\ \/ link # "ok" /\ Return("Failed") /\ UNCHANGED stat1
       \/ link = "ok" /\ use = "IN_USE" /\ id = OurId /\ Return("Active") /\ UNCHANGED stat1
       \/ /\ link = "ok"
          /\ stat1' = use
          /\ \/ use = "IN_USE" /\ id # OurId /\ Return("Occupied")
             \/ use # "IN_USE" /\ pc' = "nullMove" /\ UNCHANGED slotState
    /\ UNCHANGED <<stationVars, wanted>>

\* GetSlotByAddress, InitializeFromSlot and the decision on what it returned.
LookUp(link) ==
    /\ pc = "lookUp"
    /\ \/ link # "ok" /\ Return("Failed") /\ UNCHANGED stat1
       \/ /\ link = "ok"
          /\ stat1' = use
          /\ \/ use = "IN_USE" /\ id = OurId /\ Return("Active")
             \/ use = "IN_USE" /\ id # OurId /\ Return("Occupied")
             \/ use # "IN_USE" /\ pc' = "nullMove" /\ UNCHANGED slotState
    /\ UNCHANGED <<stationVars, wanted>>

\* NullMove: the station answers a legal move with the slot, an illegal one
\* with a LongAck, which is an unexpected reply.
NullMove(link) ==
    /\ pc = "nullMove"
    /\ LET moved == link # "noRequest" /\ use # "IN_USE"
       IN  /\ use' = IF moved THEN "IN_USE" ELSE use
           /\ holder' = IF moved THEN "us" ELSE holder
           /\ \/ ~(moved /\ link = "ok") /\ Return("Failed")
              \/ moved /\ link = "ok" /\ id = OurId /\ Return("Active")
              \/ moved /\ link = "ok" /\ id # OurId /\ pc' = "writeId" /\ UNCHANGED slotState
    /\ UNCHANGED <<id, wanted, stat1>>

\* WriteIdIntoSlot takes any LongAck for success, also a refusal.
WriteId(link) ==
    /\ pc = "writeId"
    /\ IF link = "ok"
       THEN id' \in {id, OurId} /\ Return("Active")
       ELSE /\ id' = IF link = "noReply" THEN OurId ELSE id
            /\ Return("Failed")
    /\ UNCHANGED <<use, holder, wanted, stat1>>

\* Deactivate(slot): the use bits of the last look-up go back, unanswered;
\* without a look-up there is no value and the thread gets no further.
Deactivate(link) ==
    /\ pc = "poll" /\ ~wanted /\ slotState = "Active"
    /\ stat1 # "null"
    /\ use' = IF link = "noRequest" THEN use ELSE stat1
    /\ holder' = IF use' = "IN_USE" THEN holder ELSE "nobody"
    /\ Return("Inactive")
    /\ UNCHANGED <<id, wanted, stat1>>

\* Mutant: a failed slot is released like an active one.
GiveUpReleases ==
    /\ pc = "poll" /\ ~wanted /\ slotState \in {"Failed", "Occupied"}
    /\ stat1 # "null"
    /\ use' = stat1
    /\ holder' = IF use' = "IN_USE" THEN holder ELSE "nobody"
    /\ Return("Inactive")
    /\ UNCHANGED <<id, wanted, stat1>>

\* (false, Failed) and (false, Occupied): nothing is sent.
GiveUp ==
    /\ pc = "poll" /\ ~wanted /\ slotState \in {"Failed", "Occupied"}
    /\ Return("Inactive")
    /\ UNCHANGED <<stationVars, wanted, stat1>>

\* ThrottleX is started anew: the SlotControl objects are gone.
Restart ==
    /\ wanted' = FALSE
    /\ slotState' = "None" /\ stat1' = "null" /\ pc' = "poll"
    /\ UNCHANGED stationVars

----------------------------------------------------------------------------
(* The row and the other device. *)

\* The row is activated or deactivated, at any moment of the exchanges.
Toggle ==
    /\ wanted' = ~wanted
    /\ UNCHANGED <<stationVars, threadVars>>

\* A device of the same manners: null move first, then its id.
OtherTakes ==
    /\ use # "IN_USE"
    /\ use' = "IN_USE" /\ holder' = "other"
    /\ id' = IF MarksAtOnce THEN OtherId ELSE id
    /\ UNCHANGED <<wanted, threadVars>>

OtherMarks ==
    /\ holder = "other"
    /\ id' = OtherId
    /\ UNCHANGED <<use, holder, wanted, threadVars>>

OtherReleases ==
    /\ holder = "other"
    /\ use' = "COMMON" /\ holder' = "nobody"
    /\ UNCHANGED <<id, wanted, threadVars>>

----------------------------------------------------------------------------

SendThread == \/ StartActivate \/ GiveUp
              \/ \E link \in Links :
                    LookUp(link) \/ NullMove(link) \/ WriteId(link) \/ Deactivate(link)
OtherDevice == OtherTakes \/ OtherMarks \/ OtherReleases

Next == SendThread \/ Restart \/ Toggle \/ OtherDevice

Spec == Init /\ [][Next]_vars

----------------------------------------------------------------------------
(* Properties. *)

\* Every variable keeps its type, and a slot that may have to be released has
\* the use bits to release it with (LoconetSend.Deactivate: "LastKnownStat1!").
TypeOK ==
    /\ use \in Uses /\ id \in Ids /\ holder \in {"us", "other", "nobody"}
    /\ wanted \in BOOLEAN
    /\ slotState \in States /\ stat1 \in Uses \cup {"null"}
    /\ slotState = "Active" => stat1 # "null"
    /\ pc \in {"poll", "lookUp", "nullMove", "writeId"}

\* A slot that ThrottleX counts as Active is IN_USE at the station, and it is
\* ThrottleX that set it so (SlotControl.State.Active), whatever was lost,
\* restarted or tried by the other device.
ActiveMeansHeld == slotState = "Active" => use = "IN_USE" /\ holder = "us"

\* The exchanges implement the lease that the states of a slot promise: one
\* holder at a time, given up by itself only, and by ThrottleX only when it
\* counts the slot as Active (SlotControl.State).
Lease   == INSTANCE SlotLease WITH counted <- slotState = "Active"
IsLease == Lease!Spec

\* ThrottleX changes nothing of a slot that the other device has IN_USE
\* (OccupySlotResult.Occupied: "we won't touch it!").
OthersSlotUntouched ==
    [][holder = "other" /\ ~OtherDevice => UNCHANGED stationVars]_vars

\* "Occupied" is concluded only when another device has the slot
\* (SlotControl.State.Occupied).
OccupiedMeansOther ==
    [][slotState # "Occupied" /\ slotState' = "Occupied" => holder = "other"]_vars

\* A release that reaches the station frees the slot
\* (SlotControl.State.Inactive).
DeactivateFrees == [][Deactivate("ok") => use' # "IN_USE"]_vars

\* A failed slot that counts as released is not one that ThrottleX has
\* occupied and never tried to release (SlotControl.State.Inactive).
NothingAbandoned == [][GiveUp => holder # "us"]_vars

=============================================================================

-------------------------- MODULE L2AccelStations --------------------------
(***************************************************************************)
(* What the forwarding-acceleration table promises its users (spec §4.5):  *)
(* a station is placed in the first free slot, keeps that slot until it is *)
(* deleted, and an add is refused once the station limit is reached.  How *)
(* the slots are stored (table versions, growth, deferred free) is not     *)
(* visible here.  A refused or failed add changes nothing.  The limit is   *)
(* fixed once the port has its GLORT range.                               *)
(***************************************************************************)
EXTENDS Naturals, FiniteSets, FiniteSetsExt

CONSTANTS
    Sdevs,          \* secondary (macvlan) devices
    NoDev           \* an empty slot

VARIABLES
    slot,           \* slot[i]: the station at index i, or NoDev
    limit           \* how many stations the port's GLORT range admits

SlotIdx == 0 .. limit - 1

Stations == {slot[i] : i \in SlotIdx} \ {NoDev}

FreeSlots == {i \in SlotIdx : slot[i] = NoDev}

Init == limit \in Nat /\ slot = [i \in SlotIdx |-> NoDev]

Add(s) ==
    /\ s \notin Stations
    /\ FreeSlots # {}
    /\ slot' = [slot EXCEPT ![Min(FreeSlots)] = s]
    /\ UNCHANGED limit

Del(s) ==
    /\ \E i \in SlotIdx :
          /\ slot[i] = s
          /\ slot' = [slot EXCEPT ![i] = NoDev]
    /\ UNCHANGED limit

Next == \E s \in Sdevs : Add(s) \/ Del(s)

Spec == Init /\ [][Next]_<<slot, limit>>
=============================================================================

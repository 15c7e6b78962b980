------------------------------ MODULE VlanGaps ------------------------------
(***************************************************************************)
(* The VLAN gap scan of fm10k_netdev.c.  When the interface leaves          *)
(* promiscuous mode, fm10k_clear_unused_vlans walks the active_vlans        *)
(* bitmap with fm10k_find_next_vlan and queues one "clear" request per run *)
(* of unused ids, the run length packed above FM10K_VLAN_LENGTH_SHIFT.     *)
(* The switch's default VLAN acts as a sentinel: the scan stops at it      *)
(* once, so it is never cleared, and vid 0 is never cleared either.        *)
(*                                                                         *)
(* The scan is a pure function of the bitmap and the default vid.  The     *)
(* variables are the state VlanTracker instantiates them with; the        *)
(* property compares the scan with a declarative reference there.         *)
(***************************************************************************)
EXTENDS Naturals, Sequences, FiniteSets, FiniteSetsExt, SequencesExt

CONSTANTS
    VlanNVid,           \* VLAN_N_VID, the size of the VLAN id space
    VlanLengthShift     \* FM10K_VLAN_LENGTH_SHIFT

ASSUME VlanNVid \in Nat \ {0} /\ VlanLengthShift \in Nat
ASSUME VlanNVid <= 2^VlanLengthShift

VARIABLES
    active_vlans,       \* interface->active_vlans, as a set of ids
    default_vid         \* hw->mac.default_vid

Vids == 0 .. VlanNVid - 1

-----------------------------------------------------------------------------
\* fm10k_find_next_vlan: the first active id above vid and below the limit,
\* else the limit; the limit is the default vid while the scan is below it.
\* (find_next_bit on the bitmap; vid stays below VLAN_N_VID, so the u16
\* increment never wraps.)
fm10k_find_next_vlan(active, dflt, vid) ==
    LET limit == IF vid < dflt THEN dflt ELSE VlanNVid
        next  == {v \in vid + 1 .. limit - 1 : v \in active}
    IN  IF next = {} THEN limit ELSE Min(next)

\* Mutant: the run length counts the member that ends it.
EncodeRunPastEnd(prev, vid) == prev + (vid - prev) * 2^VlanLengthShift

\* The clear request for the run prev_vid .. vid - 1, encoded as the code
\* does: prev_vid += (vid - prev_vid - 1) << FM10K_VLAN_LENGTH_SHIFT.
EncodeRun(prev, vid) == prev + (vid - prev - 1) * 2^VlanLengthShift

\* The for loop of fm10k_clear_unused_vlans, from the state (prev, vid):
\* the condition, the body, then prev = vid + 1, vid = find_next_vlan(vid).
RECURSIVE ClearLoop(_, _, _, _)
ClearLoop(active, dflt, prev, vid) ==
    IF prev >= VlanNVid THEN <<>>
    ELSE LET rest == ClearLoop(active, dflt, vid + 1,
                               fm10k_find_next_vlan(active, dflt, vid))
         IN  IF prev = vid THEN rest
             ELSE <<EncodeRun(prev, vid)>> \o rest

\* The sequence of vid arguments fm10k_clear_unused_vlans passes to
\* fm10k_queue_vlan_request(interface, vid, 0, false), in order.
fm10k_clear_unused_vlans(active, dflt) == ClearLoop(active, dflt, 0, 0)

\* The ids visited by the loop the sync callbacks and fm10k_restore_rx_state
\* share: for (vid = find_next_vlan(0); vid < VLAN_N_VID;
\*            vid = find_next_vlan(vid)).
RECURSIVE WalkFrom(_, _, _)
WalkFrom(active, dflt, vid) ==
    IF vid >= VlanNVid THEN {}
    ELSE {vid} \cup WalkFrom(active, dflt, fm10k_find_next_vlan(active, dflt, vid))

fm10k_vlan_walk(active, dflt) ==
    WalkFrom(active, dflt, fm10k_find_next_vlan(active, dflt, 0))

\* The ids a VLAN request covers once the switch decodes start and length.
RequestIds(req) ==
    LET start == req % 2^VlanLengthShift
    IN  start .. start + req \div 2^VlanLengthShift

\* FM10K_VLAN_ALL: every id, as one run from 0.
VlanAll == (VlanNVid - 1) * 2^VlanLengthShift

-----------------------------------------------------------------------------
(* Reference: the ids that must be cleared, grouped into maximal runs.     *)

Unused(active, dflt) == Vids \ (active \cup {0, dflt})

RunEnd(U, s) == Max({e \in s .. VlanNVid - 1 : s .. e \subseteq U})

RefRequests(active, dflt) ==
    LET U      == Unused(active, dflt)
        starts == SetToSortSeq({s \in U : s - 1 \notin U}, <)
    IN  [i \in DOMAIN starts |-> starts[i] + (RunEnd(U, starts[i]) - starts[i])
                                             * 2^VlanLengthShift]

\* Leaving promiscuous mode clears exactly the VLAN ids that are neither
\* active, nor the default vid, nor 0, and it does so with one request per
\* maximal run of such ids, in increasing order: fm10k_clear_unused_vlans
\* against the reference run encoding.
ClearMatchesReference ==
    fm10k_clear_unused_vlans(active_vlans, default_vid)
        = RefRequests(active_vlans, default_vid)
=============================================================================

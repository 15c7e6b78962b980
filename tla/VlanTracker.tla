----------------------------- MODULE VlanTracker -----------------------------
(***************************************************************************)
(* The VLAN and address filter state of fm10k_netdev.c: the active_vlans   *)
(* bitmap and the xcast mode the driver keeps, and the VLAN table, MAC     *)
(* table and xcast mode the switch holds for the port's GLORT, which the   *)
(* driver keeps in step through requests.                                 *)
(*                                                                         *)
(* Every request goes through the MAC/VLAN request list, which the worker *)
(* drains in FIFO order without loss while the port is up (the "queue"    *)
(* run of MacVlanQueue).  Here a request is therefore applied to the      *)
(* switch tables at the point it is queued, in program order.  The ndo    *)
(* callbacks, open and close all run under the RTNL lock, so each is one   *)
(* atomic step.  Allocations of requests succeed and the host mailbox is   *)
(* ready.                                                                  *)
(*                                                                         *)
(* The kernel's address lists (dev->uc, dev->mc) and their sync protocol   *)
(* (__dev_uc_sync, __dev_uc_unsync) are the environment: an address is     *)
(* absent, "new" (listed, not yet synced), "synced", or "gone" (deleted    *)
(* by the stack but still synced, waiting for its unsync).                 *)
(***************************************************************************)
EXTENDS Naturals, FiniteSets

CONSTANTS
    VlanNVid,           \* VLAN_N_VID
    UcAddrs,            \* unicast addresses the stack may list
    McAddrs,            \* multicast addresses the stack may list
    Macs,               \* station addresses the port may be given
    VlanOverride,       \* hw->mac.vlan_override
    SameMacAllowed,     \* the stack may set the address the port already has
    MaxAllocFails       \* bound on failed request allocations (GFP_ATOMIC)

ASSUME VlanNVid \in Nat \ {0} /\ VlanOverride \in BOOLEAN /\ MaxAllocFails \in Nat

VARIABLES
    active,             \* interface->active_vlans
    default_vid,        \* hw->mac.default_vid, assigned by the switch
    ring_vlan_clear,    \* FM10K_VLAN_CLEAR in rx_ring->vid (every ring alike)
    ivid,               \* interface->vid
    xcast_mode,         \* interface->xcast_mode
    hwaddr,             \* hw->mac.addr and dev->dev_addr
    flags,              \* IFF_PROMISC and IFF_ALLMULTI of dev->flags
    up,                 \* IFF_UP, and __FM10K_DOWN clear
    addrs,              \* addrs[a]: the kernel list state of address a
    swVlan,             \* switch VLAN table: the member ids of the port
    swMac,              \* switch MAC table: <<address, vid>> for the GLORT
    swXcast,            \* switch xcast mode of the GLORT
    allocFails,         \* request allocations that have failed so far
    ret                 \* what the last call reported: "ok" or "err"

vars == <<active, default_vid, ring_vlan_clear, ivid, xcast_mode, hwaddr, flags, up,
          addrs, swVlan, swMac, swXcast, allocFails, ret>>

Addrs == UcAddrs \cup McAddrs
Vids  == 0 .. VlanNVid - 1
Modes == {"none", "multi", "allmulti", "promisc"}

G == INSTANCE VlanGaps WITH active_vlans <- active, default_vid <- default_vid,
                            VlanLengthShift <- 16

\* The vids the find_next_vlan loop visits for the current bitmap.
Walk == G!fm10k_vlan_walk(active, default_vid)

\* sync_cnt > 0: the addresses the switch has been told about.
Synced(K) == {a \in K : addrs[a] \in {"synced", "gone"}}

-----------------------------------------------------------------------------
(* Requests, as their effect on the switch tables.                         *)

\* fm10k_queue_mac_request(interface, glort, a, vid, set) over a set of
\* addresses and vids.
MacReq(sw, A, V, set) == IF set THEN sw \cup (A \X V) ELSE sw \ (A \X V)

\* fm10k_queue_vlan_request(interface, req, 0, set).
VlanReq(sw, req, set) ==
    IF set THEN sw \cup G!RequestIds(req) ELSE sw \ G!RequestIds(req)

\* A request allocation may fail.  A site names the request that fails:
\* <<kind, address, vid or index>>; NoFail is no failure.
NoFail == <<"none", "-", 0>>

Fallible(sites) == IF allocFails < MaxAllocFails THEN sites ELSE {}

CountFail(f) == allocFails' = allocFails + (IF f = NoFail THEN 0 ELSE 1)

\* The walked vids queued before the walk reaches vid k.
Prefix(k) == {v \in Walk : v < k}

\* fm10k_clear_unused_vlans: one clear request per run; a failed one is
\* not retried (its return value is ignored).
ClearUnused(sw, f) ==
    LET reqs == G!fm10k_clear_unused_vlans(active, default_vid)
        sent == {i \in DOMAIN reqs : f # <<"clear", "-", i>>}
    IN  sw \ UNION {G!RequestIds(reqs[i]) : i \in sent}

\* The vids the find_next_vlan loop of a sync callback queues for a before
\* it returns: all of them, or those before the one whose request failed.
SyncDone(a, sync, f) ==
    IF f = <<IF sync THEN "sync" ELSE "unsync", a, f[3]>> THEN Prefix(f[3])
    ELSE Walk

\* __fm10k_uc_sync(dev, a, sync): the <<a, vid>> requests it queues.
UcSyncAddr(a, sync, f) == {a} \X SyncDone(a, sync, f)

\* __fm10k_mc_sync: the same loop for multicast addresses.
McSyncAddr(a, sync, f) == {a} \X SyncDone(a, sync, f)

SyncReqs(a, sync, f) ==
    IF a \in UcAddrs THEN UcSyncAddr(a, sync, f) ELSE McSyncAddr(a, sync, f)

\* The xcast mode dev->flags call for (IFF_BROADCAST is always set).
ModeOf(fl) == IF fl.promisc THEN "promisc"
              ELSE IF fl.allmulti THEN "allmulti" ELSE "multi"

Pending(st) == {a \in Addrs : st[a] \in {"new", "gone"}}

\* __dev_uc_sync / __dev_mc_sync on list state st: a gone address is
\* unsynced and dropped, a new one synced, unless its callback failed,
\* which leaves it as it was for the next call to retry.
ListSync(st, f) ==
    [a \in DOMAIN st |->
        IF a \notin Pending(st) \/ f[2] = a THEN st[a]
        ELSE IF st[a] = "gone" THEN "absent" ELSE "synced"]

SwSync(sw, st, f) ==
    LET Gone == {a \in Addrs : st[a] = "gone"}
        New  == {a \in Addrs : st[a] = "new"}
    IN  (sw \ UNION {SyncReqs(a, FALSE, f) : a \in Gone})
            \cup UNION {SyncReqs(a, TRUE, f) : a \in New}

SyncSites(st) ==
    {<<IF st[a] = "new" THEN "sync" ELSE "unsync", a, k>> : a \in Pending(st), k \in Walk}

-----------------------------------------------------------------------------
(* The driver's handlers.                                                  *)

\* The requests update_vid may fail to queue: the VLAN table request (not
\* in promiscuous mode), the base MAC request, and one synced address's
\* request in fm10k_uc/mc_vlan_unsync.
UpdateVidSites ==
    (IF flags.promisc THEN {} ELSE {<<"vlan", "-", 0>>})
        \cup {<<"mac", "-", 0>>} \cup {<<"addr", a, 0>> : a \in Synced(Addrs)}

\* Mutant: the VLAN change is not propagated to the listed addresses.
UpdateVidNoAddrUnsync(vid, set) ==
    /\ vid # 0
    /\ ~(set /\ VlanOverride)
    /\ LET act == IF set THEN active \cup {vid} ELSE active \ {vid}
       IN  /\ active' = act
           /\ ring_vlan_clear' = (default_vid \in act)
           /\ IF VlanOverride \/ (~set /\ vid = default_vid) \/ ~up
              THEN UNCHANGED <<ivid, swVlan, swMac, allocFails>> /\ ret' = "ok"
              ELSE \E f \in {NoFail} \cup Fallible(UpdateVidSites) :
                   /\ swVlan' = IF flags.promisc \/ f[1] = "vlan" THEN swVlan
                                ELSE VlanReq(swVlan, vid, set)
                   /\ swMac' = IF f[1] \in {"vlan", "mac"} THEN swMac
                               ELSE MacReq(swMac, {hwaddr}, {vid}, set)
                   /\ ivid' = IF f[1] \in {"vlan", "mac"} THEN ivid
                              ELSE vid + (IF set THEN VlanNVid ELSE 0)
                   /\ ret' = IF f[1] \in {"vlan", "mac"} THEN "err" ELSE "ok"
                   /\ CountFail(f)
    /\ UNCHANGED <<xcast_mode, hwaddr, flags, up, addrs, swXcast>>

\* fm10k_update_vid: vid 0 is ignored, a set under vlan_override is
\* refused; the bitmap and the ring flags change first, then, unless the
\* VLAN is overridden, the default vid is being removed or the interface
\* is down, the VLAN table (not in promiscuous mode), the base MAC and,
\* through fm10k_uc/mc_vlan_unsync, every synced address get the vid.  A
\* failed VLAN or base MAC request ends the call with its error; a failed
\* per-address request makes that callback return it, which
\* __hw_addr_unsync_dev passes over, and the call returns 0.
fm10k_update_vid(vid, set) ==
    /\ vid # 0
    /\ ~(set /\ VlanOverride)
    /\ LET act == IF set THEN active \cup {vid} ELSE active \ {vid}
       IN  /\ active' = act
           /\ ring_vlan_clear' = (default_vid \in act)
           /\ IF VlanOverride \/ (~set /\ vid = default_vid) \/ ~up
              THEN UNCHANGED <<ivid, swVlan, swMac, allocFails>> /\ ret' = "ok"
              ELSE \E f \in {NoFail} \cup Fallible(UpdateVidSites) :
                   /\ swVlan' = IF flags.promisc \/ f[1] = "vlan" THEN swVlan
                                ELSE VlanReq(swVlan, vid, set)
                   /\ swMac' = IF f[1] \in {"vlan", "mac"} THEN swMac
                               ELSE MacReq(swMac, ({hwaddr} \cup Synced(Addrs))
                                                      \ {f[2]}, {vid}, set)
                   /\ ivid' = IF f[1] \in {"vlan", "mac"} THEN ivid
                              ELSE vid + (IF set THEN VlanNVid ELSE 0)
                   /\ ret' = IF f[1] \in {"vlan", "mac"} THEN "err" ELSE "ok"
                   /\ CountFail(f)
    /\ UNCHANGED <<xcast_mode, hwaddr, flags, up, addrs, swXcast>>

\* The requests set_rx_mode may fail to queue on a mode change from x to m:
\* VLAN_ALL, one of the gap clears, and one request of a list callback.
RxModeSites(x, m, st) ==
    (IF x # m /\ m = "promisc" THEN {<<"all", "-", 0>>} ELSE {})
        \cup (IF x # m /\ x = "promisc"
              THEN {<<"clear", "-", i>> :
                     i \in DOMAIN G!fm10k_clear_unused_vlans(active, default_vid)}
              ELSE {})
        \cup SyncSites(st)

\* Mutant: leaving promiscuous mode leaves the VLAN table all set.
SetRxModeNoClear(fl, st) ==
    IF ~up THEN /\ addrs' = st /\ ret' = "ok"
                /\ UNCHANGED <<xcast_mode, swVlan, swMac, swXcast, allocFails>>
    ELSE LET mode == ModeOf(fl)
             chg  == xcast_mode # mode
         IN  \E f \in {NoFail} \cup Fallible(RxModeSites(xcast_mode, mode, st)) :
             /\ swVlan' = IF chg /\ mode = "promisc" /\ f[1] # "all"
                          THEN VlanReq(swVlan, G!VlanAll, TRUE) ELSE swVlan
             /\ swXcast' = IF chg THEN mode ELSE swXcast
             /\ xcast_mode' = mode
             /\ addrs' = ListSync(st, f)
             /\ swMac' = SwSync(swMac, st, f)
             /\ ret' = "ok"
             /\ CountFail(f)

\* fm10k_set_rx_mode, called with the flags fl and list state st the stack
\* has just set: nothing while down; on a mode change, VLAN_ALL on entering
\* promiscuous mode, the gap clear on leaving it, and the switch's xcast
\* mode; then both address lists are synced.  It returns nothing: a failed
\* VLAN_ALL or gap clear is lost, a failed list callback leaves its
\* address pending for the next call.
fm10k_set_rx_mode(fl, st) ==
    IF ~up THEN /\ addrs' = st /\ ret' = "ok"
                /\ UNCHANGED <<xcast_mode, swVlan, swMac, swXcast, allocFails>>
    ELSE LET mode == ModeOf(fl)
             chg  == xcast_mode # mode
         IN  \E f \in {NoFail} \cup Fallible(RxModeSites(xcast_mode, mode, st)) :
             LET v1 == IF chg /\ mode = "promisc" /\ f[1] # "all"
                       THEN VlanReq(swVlan, G!VlanAll, TRUE) ELSE swVlan
             IN  /\ swVlan' = IF chg /\ xcast_mode = "promisc"
                              THEN ClearUnused(v1, f) ELSE v1
                 /\ swXcast' = IF chg THEN mode ELSE swXcast
                 /\ xcast_mode' = mode
                 /\ addrs' = ListSync(st, f)
                 /\ swMac' = SwSync(swMac, st, f)
                 /\ ret' = "ok"
                 /\ CountFail(f)

\* fm10k_set_mac: while up, the new address is synced on every walked vid
\* and, if that queued every request, the address in hw->mac.addr is
\* unsynced, whose result is ignored; the address is recorded unless the
\* sync failed, which returns -EAGAIN.
fm10k_set_mac(h) ==
    /\ SameMacAllowed \/ h # hwaddr
    /\ IF ~up
       THEN /\ hwaddr' = h /\ ret' = "ok"
            /\ UNCHANGED <<swMac, allocFails>>
       ELSE \E f \in {NoFail} \cup Fallible({<<"sync", h, k>> : k \in Walk}
                                  \cup {<<"unsync", hwaddr, k>> : k \in Walk}) :
            /\ IF f[1] = "sync"
               THEN /\ swMac' = swMac \cup UcSyncAddr(h, TRUE, f)
                    /\ UNCHANGED hwaddr /\ ret' = "err"
               ELSE /\ swMac' = (swMac \cup UcSyncAddr(h, TRUE, NoFail))
                                    \ UcSyncAddr(hwaddr, FALSE, f)
                    /\ hwaddr' = h /\ ret' = "ok"
            /\ CountFail(f)
    /\ UNCHANGED <<active, ring_vlan_clear, ivid, xcast_mode, flags, up,
                   addrs, swVlan, swXcast>>

\* fm10k_restore_rx_state: the lport is enabled, the VLAN table set or
\* cleared whole, every walked vid set with the base MAC, the xcast mode
\* sent, both lists synced, and the mode recorded.
fm10k_restore_rx_state ==
    LET mode == ModeOf(flags)
        v1   == VlanReq(swVlan, G!VlanAll, mode = "promisc")
    IN  /\ swVlan' = v1 \cup Walk
        /\ swXcast' = mode
        /\ swMac' = SwSync(MacReq(swMac, {hwaddr}, Walk, TRUE), addrs, NoFail)
        /\ addrs' = ListSync(addrs, NoFail)
        /\ xcast_mode' = mode

\* fm10k_reset_rx_state: the lport is disabled, which drops its tables on
\* the switch; the mode is reset and every address loses its sync mark
\* (__dev_uc_unsync with no callback).
fm10k_reset_rx_state ==
    /\ swVlan' = {} /\ swMac' = {} /\ swXcast' = "none"
    /\ xcast_mode' = "none"
    /\ addrs' = [a \in Addrs |-> CASE addrs[a] = "synced" -> "new"
                                   [] addrs[a] = "gone"   -> "absent"
                                   [] OTHER               -> addrs[a]]

-----------------------------------------------------------------------------
(* The stack's calls.  8021q calls ndo_vlan_rx_add_vid on a vid's first    *)
(* user and ndo_vlan_rx_kill_vid on its last; dev_uc_add/dev_mc_add and     *)
(* dev_set_promiscuity/allmulti change the lists or flags and then call    *)
(* ndo_set_rx_mode; each address is held by one user here.                 *)

\* fm10k_vlan_rx_add_vid / fm10k_vlan_rx_kill_vid.
VlanRxAddVid(vid)  == vid \notin active /\ fm10k_update_vid(vid, TRUE)
VlanRxKillVid(vid) == vid \in active /\ fm10k_update_vid(vid, FALSE)

ChangeFlags(fl) ==
    /\ fl # flags
    /\ flags' = fl
    /\ fm10k_set_rx_mode(fl, addrs)
    /\ UNCHANGED <<active, ring_vlan_clear, ivid, hwaddr, up>>

\* __hw_addr_add: a new entry, or a gone one taken back (refcount 2 again).
AddAddr(a) ==
    /\ addrs[a] \in {"absent", "gone"}
    /\ fm10k_set_rx_mode(flags, [addrs EXCEPT ![a] = IF @ = "gone" THEN "synced"
                                                                  ELSE "new"])
    /\ UNCHANGED <<active, ring_vlan_clear, ivid, hwaddr, flags, up>>

\* __hw_addr_del: an unsynced entry goes, a synced one waits for its unsync.
DelAddr(a) ==
    /\ addrs[a] \in {"new", "synced"}
    /\ fm10k_set_rx_mode(flags, [addrs EXCEPT ![a] = IF @ = "synced" THEN "gone"
                                                                    ELSE "absent"])
    /\ UNCHANGED <<active, ring_vlan_clear, ivid, hwaddr, flags, up>>

SetMac(h) == fm10k_set_mac(h)

\* fm10k_open ends in fm10k_up, whose fm10k_restore_rx_state rebuilds the
\* filters.
Open ==
    /\ ~up
    /\ up' = TRUE
    /\ fm10k_restore_rx_state
    /\ ret' = "ok"
    /\ UNCHANGED <<active, ring_vlan_clear, ivid, hwaddr, flags, allocFails>>

\* fm10k_close: fm10k_down calls fm10k_reset_rx_state.
Close ==
    /\ up
    /\ up' = FALSE
    /\ fm10k_reset_rx_state
    /\ ret' = "ok"
    /\ UNCHANGED <<active, ring_vlan_clear, ivid, hwaddr, flags, allocFails>>

Init ==
    /\ active = {}
    /\ default_vid \in Vids
    /\ ring_vlan_clear = FALSE
    /\ ivid = 0
    /\ xcast_mode = "none"
    /\ hwaddr \in Macs
    /\ flags = [promisc |-> FALSE, allmulti |-> FALSE]
    /\ up = FALSE
    /\ addrs = [a \in Addrs |-> "absent"]
    /\ swVlan = {} /\ swMac = {} /\ swXcast = "none"
    /\ allocFails = 0
    /\ ret = "ok"

Next ==
  /\ UNCHANGED default_vid
  /\ \/ \E vid \in Vids : VlanRxAddVid(vid) \/ VlanRxKillVid(vid)
       \/ \E fl \in [promisc : BOOLEAN, allmulti : BOOLEAN] : ChangeFlags(fl)
       \/ \E a \in Addrs : AddAddr(a) \/ DelAddr(a)
       \/ \E h \in Macs : SetMac(h)
       \/ Open
       \/ Close

Spec == Init /\ [][Next]_vars

-----------------------------------------------------------------------------
\* While the port is up, the switch filters exactly the station address and
\* every synced list address on every vid the find_next_vlan walk visits:
\* update_vid's per-address partial unsync, set_rx_mode's list sync,
\* set_mac's sync/unsync pair and the reset/restore pair must agree on the
\* same walk, whatever order the stack calls them in.
MacFiltersMatch ==
    up => swMac = (({hwaddr} \cup Synced(Addrs)) \X Walk)

\* While the port is up, the switch VLAN table holds, above vid 0, every id
\* in promiscuous mode and otherwise exactly the walked ids (the active
\* vids and the default vid): update_vid skipping the table in promiscuous
\* mode is made good by the gap clear on leaving it, and a restore after
\* close rebuilds the same table.  (Vid 0 is left out: the gap clear never
\* clears it, while a restore does.)
VlanMembersMatch ==
    up => swVlan \ {0} = (IF flags.promisc THEN Vids ELSE Walk) \ {0}
\* The gap encoding leaving promiscuous mode sends, for the bitmap and the
\* default vid of the moment, clears exactly the ids that are neither
\* active, nor the default vid, nor 0, one request per maximal run
\* (fm10k_clear_unused_vlans against VlanGaps' reference encoding).
GapEncodingMatches == G!ClearMatchesReference

FiltersMatch == MacFiltersMatch /\ VlanMembersMatch

\* An address the kernel list still has to sync or unsync: the next
\* set_rx_mode retries it.
RetryPending == \E a \in Addrs : addrs[a] \in {"new", "gone"}

\* No request is silently dropped: a call made on a running port whose
\* filters are right, that reports success to the stack and leaves no
\* address for the list sync to retry, leaves the filters right.  A request
\* that could not be queued must either come back as an error (update_vid's
\* VLAN and base MAC requests, set_mac's sync) or stay pending.  The
\* set_mac unsync, the gap clears and VLAN_ALL of set_rx_mode, and
\* update_vid's per-address requests have their errors dropped.
NoSilentRequestLoss ==
    [][ (up /\ up' /\ FiltersMatch /\ ret' = "ok" /\ ~RetryPending')
            => FiltersMatch' ]_vars
====

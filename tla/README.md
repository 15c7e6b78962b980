# TLA+ models of the fm10k netdev core (PF_RING ZC variant)

This directory holds TLC-checkable models of
`src/drivers/intel/fm10k/fm10k-0.23.5-zc/src/fm10k_netdev.c`. The file is
the network-device layer of the Intel fm10k driver, patched for PF_RING ZC.
Every module is translated from that file. Where the file calls code that is
not in the repository (`fm10k_pci.c`, `fm10k_main.c`, the PF_RING ZC core),
the callee is modelled from its contract in `spec.md`. Those definitions are
marked `spec_modelled` in `PROJECT.json`.

## 1. Inventory of the system

| Component | State it keeps | Operations (source lines) | Interacts with |
|---|---|---|---|
| Ring Resource Manager | per ring: `tx_buffer`/`rx_buffer` array, descriptor block `desc`/`dma` | `fm10k_setup_tx/rx_resources` (39-134), `fm10k_setup_all_*` (79-166), `fm10k_free_*_resources` (226-266, 318-359) | Buffer Reclaimer (free cleans first); open/close/setup_tc |
| Buffer Reclaimer | per slot: `skb`, `len`, `next_to_watch` (Tx); `page` (Rx); `rx_ring->skb` | `fm10k_unmap_and_free_tx_resource` (168-188), `fm10k_clean_tx_ring` (194-218), `fm10k_clean_rx_ring` (275-310), `fm10k_clean_all_*` (246-252, 339-345) | the data path (fm10k_main.c), which fills and drains the same slots |
| Interface lifecycle + ZC | `pfring_zc.usage_counter`, `pfring_zc.zombie`, whether the port is up | `fm10k_open` (659-724), `fm10k_close` (737-759), `fm10k_setup_tc` (1600-1659), `__fm10k_setup_tc` (1663-1697) | all of the above; `fm10k_up/down` and the queueing scheme (external) |
| Address-Sync Queue | `macvlan_requests` list, `__FM10K_MACVLAN_SCHED` | `fm10k_queue_vlan_request` (917-942), `fm10k_queue_mac_request` (956-986), `fm10k_clear_macvlan_queue` (997-1025), `fm10k_reset_rx_state` (1484-1513) | the macvlan worker (fm10k_pci.c), the switch mailbox |
| VLAN State Tracker | `active_vlans` bitmap, `xcast_mode`, `vid` | `fm10k_update_vid` (1067-1152), `fm10k_find_next_vlan`/`fm10k_clear_unused_vlans` (1201-1239), uc/mc sync (1241-1340), `fm10k_set_rx_mode` (1342-1391), `fm10k_restore_rx_state` (1393-1482) | enqueues on the Address-Sync Queue |
| Forwarding-Acceleration Table | `l2_accel` (size, count, dglort, `macvlan[]`), per-ring RCU pointer | `fm10k_assign_l2_accel` (1701-1713), `fm10k_dfwd_add_station` (1715-1800), `fm10k_dfwd_del_station` (1802-1857), `fm10k_request_glort_range` (367-395) | the Rx path, which reads it under RCU |
| UDP tunnel port lists | `vxlan_port`, `geneve_port` lists | 403-644 | the switch registers |
| Transmit entry, Tx hang, statistics | the skb handed in; `watchdog_timeo`; per-ring `stats` and `syncp` | `fm10k_xmit_frame` (761-833), `fm10k_tx_timeout` (848-886), `fm10k_get_stats64` (1525-1579) | the Tx ring slots; the ZC usage counter; the completion paths in fm10k_main.c, which write the statistics |
| Not core | — | `fm10k_change_mtu`, feature checks, netdev allocation | — |

### What is hard

- **Partial failure and rollback.** An allocation can fail at any point of
  ring setup, of `setup_all` or of open. Each unwind must free exactly what
  was taken.
- **Slot ownership.** The Tx and Rx slots are shared with the fast path. The
  reclaimer must free a whole packet, a lone fragment mapping, or a
  half-assembled Rx packet, and nothing twice.
- **The PF_RING ZC short-cuts.** Close is ignored while ZC holds the port,
  and the next open only clears the zombie mark. Sequences of close, open,
  attach, detach and `setup_tc` must stay consistent.
- **Concurrent queueing.** Callers append to the request list while the
  worker drains it and reset or port teardown cancel from it.
- **Gap encoding.** The VLAN-clearing code compresses runs of unused ids.
- **Copy-grow-swap.** The station table is replaced under RCU readers.

### Correctness properties per component

- Rings: memory taken equals memory reachable from the rings, with no double
  free. Buffer and descriptor are paired. A stopped port holds nothing. An up
  port has all rings allocated.
- Queue: FIFO without loss or duplication. Every request is eventually
  forwarded or cancelled. A cancel touches only its own port. Nothing is
  forwarded for a torn-down port.
- VLAN: the gap encoding clears exactly the non-members below the sentinel.
- Table: `count <= size`, unique GLORTs in range, and readers never see a
  freed table.

## 2. Plan

Modules in order of importance:

1. `RingResources` (Ring Resource Manager, Buffer Reclaimer, open/close/
   setup_tc with ZC). It is a single module because every operation works
   on the same ring state.
2. `MacVlanQueue` (Address-Sync Queue, the worker, reset).
3. `VlanGaps`: the pure gap-encoding algorithm, checked against a reference.
4. `TunnelPorts`: the UDP port lists.
5. `L2Accel`: the station table, refined against an abstract set of stations.
6. `VlanTracker`: update_vid, set_rx_mode, set_mac, restore and reset,
   composed with `VlanGaps` and the switch tables.

Each `MC_<Module>` instantiates its module for TLC.

## 3. Modules

### RingResources

- **State.** `ring[r]` records which of `buf`, `desc` and `head`
  (`rx_ring->skb`) are allocated, and the contents of each slot. `live` is
  the set of allocation tokens held. `fault` records overwrites and double
  frees.
- **Flags.** `running` (the netdev is open), `up` (the data path is
  enabled), `zombie`, `zcUsers` (the ZC usage counter) and `tcLeft` (a bound
  on `setup_tc` calls).
- **Helpers.** Each C helper is an operator from memory state to memory
  state, and an action commits the composition. `SetupAll`, `FreeDown` and
  `CleanUpTo` are the C loops, written as RECURSIVE operators. `SetupTc`
  enters through `__fm10k_setup_tc`: a request type other than mqprio
  returns `-EOPNOTSUPP` and changes nothing. The traffic-class count is
  taken as valid, since its value only sets queue counts, which are
  `NumQueues` here. The
  per-direction functions (`fm10k_free_all_tx_resources`,
  `fm10k_clean_all_rx_rings`, ...) are named wrappers around them.
- **Inputs.** An allocation's result is an input chosen by `\E` from
  `SetupOutcome`. `FailPlans` names the first queue of each direction whose
  setup fails.
- **Data path.** `fm10k_xmit_frame_ring`, `TxComplete`, `RxRefill` and
  `RxReceive` model the fast path in `fm10k_main.c`, from the slot contract
  of spec §4.2.
- **Transmit entry.** `Xmit` is `ndo_start_xmit` while the port is up. The
  queue is any `queue_mapping` in `0..NumQueues`, reduced modulo the queue
  count as at line 824. The skb is the token `XmitSkbTok`. Each helper
  failure a frame can meet (`XmitSteps`: share, pull and cow for an
  in-frame 802.1Q header, pad for a frame under 17 bytes) returns
  `NETDEV_TX_OK`. Share, cow and pad failures free the skb; the pull failure
  does not. `XmitFailures` selects which failures a run enables.
- **Tx hang.** `TxTimeout` is the kernel watchdog calling
  `fm10k_tx_timeout`. A real hang needs a pending Tx slot (`TxPending`).
  Nothing happens while a ZC user holds the port. A fake hang doubles
  `watchdog` while it is below `TX_TIMEO_LIMIT`. The driver never sets
  `watchdog_timeo`, so it starts at the kernel default `5*HZ`, for each HZ
  in `HzValues`. The reset a real hang requests runs in the service task
  (fm10k_pci.c) and is not modelled.
- **Statistics.** `StatsUpdate` is the writer's `u64_stats_update_begin`,
  add, `update_end` at the end of a completion, as one step: the sequence
  moves by 2 (not at all when `Build64`). `GetStats` is one
  `get_stats64` reader on `StatsRing`, taking the steps of lines 1562-1568
  (begin, read packets, read bytes, retry, sum) one at a time.
  `MaxStatsWrites` bounds the updates.

### MacVlanQueue

- **State.** `queue` is the request list. A request is a record of id, type
  and GLORT.
- **Callers.** They append (`fm10k_queue_*_request`) and then schedule
  (`fm10k_macvlan_schedule`) as two steps, because the list lock is dropped
  in between.
- **Worker.** It pops, forwards and finishes. Its finish step tests and
  clears the SCHED flag under the lock. The worker is spec-modelled.
- **Reset.** `fm10k_reset_rx_state` is three steps: the wait loop, the
  cancel, and the teardown.
- **History variables.** `mailbox`, `cancelled`, `lastCancel` and
  `cancelMark` exist only so the properties can be stated.

### TunnelPorts

- **State.** `list[t]` is the driver's port list of tunnel type `t`
  (`vxlan_port`, `geneve_port`), as a sequence of (port, family) entries.
  `reg[t]` is the port in the switch's tunnel register. `stack[t]` is the
  set of sockets the stack has open, and `running` is whether the netdev
  is open.
- **Actions.** `StackAdd`/`StackDel` are the stack opening or closing a
  socket and calling `fm10k_udp_tunnel_add/del`. Each action ends with
  `fm10k_restore_udp_port_info`. A failed `GFP_ATOMIC` allocation is an
  input. `Open` replays every open port in any order (the stack's
  `udp_tunnel_get_rx_info`, or `vxlan_get_rx_port` and `geneve_get_rx_port`
  in the legacy build). `Close` is `fm10k_free_udp_port_info`, whose
  two loops are the RECURSIVE `Flush`.

### VlanGaps

A library of pure operators, instantiated by VlanTracker as `G`.
`fm10k_find_next_vlan` and `fm10k_clear_unused_vlans` (the loop as the
RECURSIVE `ClearLoop`) are checked against `RefRequests`, a declarative
run encoding of the unused ids, as VlanTracker's invariant
`GapEncodingMatches`: it is evaluated for every bitmap and default vid
the tracker reaches. The module also defines the walk the sync loops
share (`fm10k_vlan_walk`, RECURSIVE `WalkFrom`) and the switch's
decoding of a request (`RequestIds`).

### VlanTracker

- **State.** The driver keeps `active` (the bitmap), the ring VLAN-clear
  flag, `ivid` (`interface->vid`), `xcast_mode` and `hwaddr`. The stack
  keeps `flags` (promisc, allmulti), `up`, and `addrs[a]` (the kernel list
  state: absent, new, synced, or gone = deleted but still synced). The
  switch keeps `swVlan`, `swMac` and `swXcast`.
- **Actions.** `fm10k_update_vid`, `fm10k_set_rx_mode`, `fm10k_set_mac`,
  `fm10k_restore_rx_state` (on `Open`) and `fm10k_reset_rx_state` (on
  `Close`). Each is one atomic step, because every caller holds the RTNL
  lock. The stack's list and flag changes always end in
  `fm10k_set_rx_mode`, as `__dev_set_rx_mode` does.
- **Requests.** A queued request is applied to the switch tables where it
  is queued. This relies on the worker forwarding in FIFO order without
  loss while the port is up, which the `queue` run checks.
- **Request failures.** Every request is allocated with `GFP_ATOMIC` and
  may fail. A failure site names the request that fails: update_vid's
  VLAN table request, its base MAC request, or one address's request in
  `fm10k_uc/mc_vlan_unsync`; set_rx_mode's `VLAN_ALL`, one gap clear, or
  the request for vid k in a list callback; set_mac's sync or unsync at
  vid k. The handler then does what the code does after that failure.
  A failed list callback leaves its address new or gone, so the next
  set_rx_mode retries it. `allocFails` counts failures up to the bound
  `MaxAllocFails`. `ret` records what the call returned to the stack.
  update_vid and set_mac return an error; everything else returns 0.
  Failures in `fm10k_restore_rx_state` are not modelled.

### L2Accel and L2AccelStations

- **State.** `tbl[t]` are the table versions (allocated, published or
  freed). `accel` is `interface->l2_accel` and `ringAccel[q]` is
  `rx_ring[q]->l2_accel`. `pub` is a call of `fm10k_assign_l2_accel` in
  progress: the table it publishes, the next ring, and what the caller does
  after it. `snap[r]` is the copy an Rx reader took from one ring's pointer
  inside its RCU read-side section. `wait` holds the copies
  handed to `kfree_rcu`. `rules` are the switch's MAC rules.
  `dglort_map` is the GLORT range the switch gave.
- **Actions.** `AddStation` has five disjuncts: first table refused,
  first table allocated (or failed), at the limit, grow by copy and swap,
  and plain insert. `DelStation` covers the slot clear, the rule removal,
  and the start of the NULL publish on empty. The publish loop is one
  `AssignRing` step per Rx ring, since readers on other CPUs run between
  the stores. `AssignDone` sets the interface pointer and finishes the
  caller: `kfree_rcu` of the old table, and the station recorded in an add.
  RTNL keeps every other add or delete out until then. `RcuReclaim` frees a
  copy only when no reader holds it.
- **Refinement.** `L2AccelStations` is what the table promises: a
  station takes the first free slot and keeps it, and an add is refused
  at the limit. `L2Accel` implements it under the mapping
  `slot <- StationMap, limit <- StationLimit`, checked as the property
  `ImplementsStations`.

## 4. Runs

| Run | cfg | Bounds | Result |
|---|---|---|---|
| ring_zc | RingZc.cfg | 2 queues × {tx,rx}, 2 slots, 1 ZC user, no setup_tc, xmit with share/cow/pad failures, HZ = 100 | pass: memory accounting, no double free, pairing, torn down when stopped, up ⇒ allocated |
| ring_tc | RingTc.cfg | 2 queues, 1 slot, no ZC, 1 setup_tc, 1 statistics reader, 1 statistics update, HZ = 1000 | pass: the same properties across setup_tc's rebuild, and `StatsReadConsistent` |
| ring_tc_zc | RingTcZc.cfg | 1 queue, 1 slot, 1 ZC user, 1 setup_tc | violation of `UpHasRings`: code bug, see findings |
| queue | Queue.cfg | 2 callers, 2 GLORTs, 2 requests, 1 reset | pass: `QueueConserved`, `CancelOnlyOwnPort`, liveness `RequestSettles` |
| queue_cancel | QueueCancel.cfg | 3 requests | violation of `CancelRemovesPortMacs`: a cancel without vlans removes nothing |
| queue_reset | QueueReset.cfg | 3 requests | violation of `NoStaleForwardAfterTeardown`: the wait/cancel window |
| tunnel | Tunnel.cfg | 1 port × 2 families × 2 tunnel types | pass: `NoDuplicateEntry`, `NoStaleEntry`, `OffloadedPortLive` |
| tunnel_close | TunnelClose.cfg | same | violation of `CloseFreesPorts`: the geneve flush reads the vxlan list |
| l2accel | L2Accel.cfg | 4 macvlans, 1 reader, 2 Rx rings, initial size 2, 3 table versions, 2 GLORT maps | pass: `ReadersSeeAllocated`, `SwitchRulesMatchTable`, `StationGlortsInRange`, `RingsPublished`, `ImplementsStations`, liveness `TablesReclaimed` |
| vlan_tracker | VlanTracker.cfg | 4 ids, every default vid, 1 uc + 1 mc address, 2 station MACs, no allocation failure | pass: `MacFiltersMatch`, `VlanMembersMatch`, `GapEncodingMatches` |
| vlan_same_mac | VlanTrackerSameMac.cfg | same, with set_mac to the current address allowed | violation of `MacFiltersMatch`: code bug |
| vlan_alloc_fail | VlanTrackerAllocFail.cfg | same as vlan_tracker, one allocation failure | violation of `NoSilentRequestLoss`: a failed request is neither reported nor retried |

### Why the bounds are enough

- **Two queues** separate "queue 0" from "queue i > 0". That is the boundary
  of the rewind loop `while (i--)`.
- **Two slots** let a whole packet and a fragment coexist on one ring.
- **One ZC user** reaches both the zombie close and the zombie open.
- **HZ** only sets the watchdog's starting period (`5*HZ`). The back-off
  is modelled so that a Tx timeout is a step that can interleave with the
  rest, but no property is stated about its value: the bound it keeps
  follows from the `<` guard at line 883 in one step.
- **One statistics update** is enough for a torn read: the reader reads
  packets, the update runs, the reader reads bytes. One reader on one ring
  suffices because every ring's loop in `get_stats64` is the same.
- **Queue mapping 0..NumQueues** includes one out-of-range mapping, which
  exercises the modulo.
- **Two callers and two GLORTs** give an own-port and a foreign-port
  request and a concurrent append.
- **One reset** is enough to open the wait/cancel window.
- **Tunnels.** One port in two families gives two entries that share a
  port number, which separates a (port, family) match from a port match.
  Two tunnel types reach the flush loop that reads the wrong list.
- **VLAN tracker.** 4 ids, with the default vid chosen in the initial
  state from all of them, put active ids below and above the sentinel,
  and gap runs at the start, middle and end of the table. The run length
  uses the real 16-bit shift. One unicast and one multicast address exercise both
  sync callbacks and the partial unsync. Two MACs allow a real address
  change. One allocation failure is enough: the property is about a
  single call that loses a request.
- **L2Accel.** The real `FM10K_L2_ACCEL_INIT_SIZE` (7) and a GLORT range
  of 64 are scaled down to an initial size of 2 and a range of 4 (mask
  7). That still reaches growth (the third station) and the limit
  `glort_count - 1 = 3` (the fourth is refused). The limit is hit before
  `FM10K_MAX_STATIONS`, exactly as with a small range. Three table
  versions are enough for one grow plus one retire and re-create. One
  reader can hold an old copy across a grow. Two Rx rings give a state in
  which one ring has the new table and the other the old one, and a loop
  that stops one ring short.

## 5. Fairness

- **Worker.** Weak fairness: the scheduled work item eventually runs on the
  kernel workqueue.
- **Callers.** Weak fairness on each caller's schedule step: a caller that
  has appended runs on and calls `fm10k_macvlan_schedule`.
- **Reset.** Weak fairness on the steps after the wait: reset runs to
  completion once it starts.
- **Data path, ZC, Tx timeouts and the statistics reader.** No fairness.
  They are environment choices, and only safety is checked of them.
- **L2Accel.** Weak fairness on the two publish steps: the caller holds
  RTNL and does not sleep inside `fm10k_assign_l2_accel` or before its
  `kfree_rcu`. Weak fairness on each reader's exit: an RCU read-side
  section cannot block. Weak fairness on `RcuReclaim`: grace periods end.
  Adds, deletes and reader entries get none. Under this fairness
  `TablesReclaimed` states that every table that is neither published nor
  being published is eventually freed.
- **TunnelPorts, VlanTracker.** No fairness, and only
  safety properties are checked. Every step there is a call from the stack
  or a user, which the code cannot force.

## 6. Findings

See `PROJECT.json` "findings":

- **setup_tc under ZC (code bug).** The port is brought up with unallocated
  rings, and the previous rings leak. A second path reaches the same leak
  with no ZC user present at setup_tc: open, ZC attach, close (ignored),
  ZC detach, then setup_tc skips close on the stopped port and rebuilds
  the scheme over rings still allocated. That path ends with the port
  down, which `UpHasRings` does not constrain; it is found by reading the
  code and is not checked by a run.
- **Cancel without vlans (divergence from the spec).**
  `fm10k_clear_macvlan_queue` with `vlans = false` removes none of the
  port's MAC requests, though spec §4.3 says it removes them.
- **Reset window (gap in the spec).** A request popped between the wait loop
  and the cancel is forwarded after the logical port is torn down.

- **Geneve flush (code bug).** `fm10k_free_udp_port_info` takes the
  next geneve entry from the vxlan list (line 424). On close the geneve
  entries after the first stay allocated.
- **set_mac to the current address (code bug).** `fm10k_set_mac` syncs
  the new address and then unsyncs `hw->mac.addr`. When the two are equal,
  the clears follow the sets, and the switch drops the port's own MAC
  filters on every VLAN.
- **Vid 0 after promiscuous mode (observation).** The gap clear never
  clears vid 0 or the default vid, which stay set from `VLAN_ALL`. A
  restore clears the whole table and sets only the walked ids. So vid 0
  is in the table only if the port has been promiscuous since its last
  restore. Spec §4.4 says "every VLAN id not currently a member" is
  cleared, and §8 counts 4093 cleared ids. `VlanMembersMatch` is
  therefore stated above vid 0.
- **Silently lost requests (divergence from the spec).** Spec §7 says
  an enqueue failure reaches the synchronous caller as a signal to retry,
  and no request is silently dropped except by cancel. Several callers
  drop the error instead:
  - set_rx_mode ignores a failed `VLAN_ALL` (line 1367) and a failed gap
    clear (line 1237);
  - set_mac ignores a failed unsync of the old address (line 1291);
  - update_vid's per-address requests fail inside `__dev_uc_unsync`,
    which passes over them (line 1145).

  In TLC's trace, entering promiscuous mode with `VLAN_ALL` failing
  returns normally and leaves nothing pending. The switch VLAN table
  stays empty, and since `xcast_mode` is already recorded as promiscuous,
  nothing sends the request again.
- **Tx skb leak on a failed pull (code bug, no separate run).**
  `fm10k_xmit_frame` returns `NETDEV_TX_OK` when `pskb_may_pull` fails on
  an in-frame 802.1Q header (line 786) without freeing the skb. The stack
  treats the skb as consumed, so it leaks; the other three failure paths
  free it. With `"pullFail"` added to `XmitFailures` in `RingTc.cfg`, TLC
  reports `MemoryAccounted` violated after one tagged frame (18 distinct
  states). The passing runs leave it out so that they still check the
  rest.
- **Tx timeout and ZC (observation).** `fm10k_tx_timeout` checks the ZC
  usage counter and then asks the service task for a reset, which runs
  later. A ZC application attaching in between still gets the reset the
  check is meant to prevent. The service task is in fm10k_pci.c, so this
  is not checked.
- **Statistics on 64-bit builds (divergence from the spec).** The
  `u64_stats` seqcount is compiled out on 64-bit kernels, so
  `fm10k_get_stats64` can pair packets from before a completion with bytes
  from after it. Spec §2 promises a consistent read through the retry.
  With `Build64 = TRUE` in `RingTc.cfg`, TLC reports `StatsReadConsistent`
  violated. The passing run uses the 32-bit build, where the retry works.
- **update_vid(0) (observation).** It returns 0, where spec §4.4 says
  InvalidArgument. No state changes either way.

## 7. Not modelled

- Register and mailbox encodings, IRQ setup, the legacy `fm10k_get_stats`,
  the byte moves of `xmit_frame`'s header rewriting, MTU and feature checks,
  and netdev allocation. These are
  per-packet data manipulation or configuration plumbing, with no
  concurrent or multi-step state worth checking.
- Cursor values, and the byte-queue-limit reset, in the reclaimer. They are
  plain assignments that no property tells apart.
- Allocation failures inside `fm10k_restore_rx_state`. They are
  dropped the same way as those in set_rx_mode, and the `vlan_alloc_fail`
  run already shows that.
- The reset requested by `fm10k_tx_timeout` and the hang detection
  itself (fm10k_main.c); a real hang is allowed whenever a Tx slot is
  pending. Under
  `!HAVE_TX_TIMEOUT_TXQUEUE` the function is named `i40e_tx_timeout`,
  while the ops table refers to `fm10k_tx_timeout` (line 1881). That
  configuration does not build. This is an observation, not a checked
  property.
- Statistics are kept per ring id across a `setup_tc` rebuild, where the
  code gets fresh, zeroed rings; the reader checks only the consistency of
  one read, which that does not affect.
- Simplifications that no property depends on:
  - the `configure_dglort_map` calls of station add and delete
    (1776-1783, 1843-1850), which set RSS/DCB register fields;
  - the `-EINVAL` guards of `__fm10k_setup_tc` (1606-1611), which leave
    memory as it was;
  - the already-down early return of `fm10k_down`;
  - in TunnelPorts, open's error paths (they fail before the replay and
    leave the lists alone) and close's ZC and VF early returns (ZC is
    modelled in RingResources);
  - in VlanTracker, the list sync goes on past a failed address where
    `__hw_addr_sync_dev` stops at the first failure: the failed address
    stays pending either way, and the rest are retried on the next call;
    `fm10k_restore` has no failures and leaves out the l2_accel restore
    and the mailbox-ready check;
  - in MacVlanQueue, the worker's last empty check and its clearing of
    `__FM10K_MACVLAN_SCHED` (fm10k_pci.c) are one step, so a race inside
    that window is not explored.
- The IES (always-tag) interface type, `vlan_override` set, and the host
  mailbox not ready. These are constants fixed to the plain PF case.

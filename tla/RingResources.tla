--------------------------- MODULE RingResources ---------------------------
(***************************************************************************)
(* Ring Resource Manager and Buffer Reclaimer of fm10k_netdev.c, with the  *)
(* interface-management entry points that drive them: fm10k_open,          *)
(* fm10k_close (including the PF_RING ZC "zombie" short-cuts) and          *)
(* fm10k_setup_tc, which closes, rebuilds the queueing scheme and reopens. *)
(*                                                                         *)
(* Memory is tracked as a ledger: every allocation the code makes is a     *)
(* token in `live`, and every pointer field of the rings that is non-NULL  *)
(* references one.  A free of a token that is not live, a memset of a NULL *)
(* descriptor block and an allocation over a still-live pointer are        *)
(* recorded in `fault`.                                                    *)
(***************************************************************************)
EXTENDS Naturals, Sequences, FiniteSets

CONSTANTS
    NumQueues,     \* interface->num_tx_queues = interface->num_rx_queues
    Slots,         \* descriptor slots of one ring (ring->count)
    MaxZcUsers,    \* bound on pfring_zc.usage_counter
    MaxTcChanges,  \* bound on the number of fm10k_setup_tc calls
    XmitFailures,  \* which helper failures fm10k_xmit_frame may meet
    HzValues,      \* the kernel's HZ in the builds considered
    StatsRing,     \* the ring whose statistics the reader is checked on
    MaxStatsWrites,\* bound on statistics updates of StatsRing
    StatsReaders,  \* concurrent fm10k_get_stats64 callers (0 or 1)
    Build64        \* 64-bit build: the u64_stats seqcount is compiled out

ASSUME NumQueues \in Nat \ {0} /\ Slots # {} /\ MaxZcUsers \in Nat
       /\ MaxTcChanges \in Nat
       /\ XmitFailures \subseteq {"shareFail", "pullFail", "cowFail", "padFail"}
       /\ HzValues \subseteq Nat \ {0} /\ MaxStatsWrites \in Nat
       /\ Build64 \in BOOLEAN /\ StatsReaders \in {0, 1}

Queues == 0 .. NumQueues - 1
Rings  == {"tx", "rx"} \X Queues

VARIABLES
    ring,      \* ring[r]: the pointer fields of struct fm10k_ring r
    live,      \* allocations currently owned by the driver
    fault,     \* memory-safety violations performed so far
    running,   \* netif_running(netdev): IFF_UP as the stack sees it
    up,        \* fm10k_up has run and fm10k_down has not: data path active
    zombie,    \* interface->pfring_zc.zombie
    zcUsers,   \* atomic pfring_zc.usage_counter
    tcLeft,    \* remaining fm10k_setup_tc calls (bound)
    watchdog,  \* netdev->watchdog_timeo, in jiffies
    stats,     \* StatsRing's stats: [packets, bytes]
    seq,       \* StatsRing's syncp sequence count
    rd         \* fm10k_get_stats64's loop on StatsRing: pc, start, snapshot

wdVars   == <<watchdog>>
statVars == <<stats, seq, rd>>
vars == <<ring, live, fault, running, up, zombie, zcUsers, tcLeft, wdVars,
          statVars>>

\* One tx_buffer / rx_buffer entry.  Tx uses skb, len (dma_unmap_len # 0)
\* and watch (next_to_watch); Rx uses page.
SlotT == [skb : BOOLEAN, len : BOOLEAN, watch : BOOLEAN, page : BOOLEAN]
EmptySlot == [skb |-> FALSE, len |-> FALSE, watch |-> FALSE, page |-> FALSE]

\* buf: tx_buffer/rx_buffer non-NULL; desc: desc non-NULL; head: rx_ring->skb
RingT == [buf : BOOLEAN, desc : BOOLEAN, head : BOOLEAN, slot : [Slots -> SlotT]]
FreshRing == [buf |-> FALSE, desc |-> FALSE, head |-> FALSE,
              slot |-> [s \in Slots |-> EmptySlot]]

\* Allocation tokens: the buffer array, the DMA-coherent descriptor block,
\* an skb or streaming DMA mapping of a Tx slot, a page of an Rx slot and
\* the partially assembled Rx skb.
BufTok(r)     == <<"buf", r>>
DescTok(r)    == <<"desc", r>>
HeadTok(r)    == <<"head", r>>
SkbTok(r, s)  == <<"skb", r, s>>
MapTok(r, s)  == <<"map", r, s>>
PageTok(r, s) == <<"page", r, s>>

-----------------------------------------------------------------------------
(* The driver state as one record, so that the sequential C helpers can be *)
(* written as functions from memory state to memory state.                *)
Mem == [ring |-> ring, live |-> live, fault |-> fault, up |-> up, zombie |-> zombie]
Commit(m) == /\ ring' = m.ring /\ live' = m.live /\ fault' = m.fault
             /\ up' = m.up /\ zombie' = m.zombie

Acquire(m, toks) ==
    [m EXCEPT !.live = @ \cup toks,
              !.fault = @ \cup {<<"overwrite", t>> : t \in toks \cap m.live}]
Release(m, toks) ==
    [m EXCEPT !.live = @ \ toks,
              !.fault = @ \cup {<<"doublefree", t>> : t \in toks \ m.live}]
SetRing(m, r, rg) == [m EXCEPT !.ring[r] = rg]

\* Tokens that slot s of ring r references.
SlotRefs(rg, r, s) ==
    (IF rg.slot[s].skb  THEN {SkbTok(r, s)}  ELSE {}) \cup
    (IF rg.slot[s].len  THEN {MapTok(r, s)}  ELSE {}) \cup
    (IF rg.slot[s].page THEN {PageTok(r, s)} ELSE {})

\* Everything reachable from the ring pointers; slot contents are reachable
\* only through the buffer array.
Referenced(m) ==
    UNION { (IF m.ring[r].buf  THEN {BufTok(r)} \cup
                UNION {SlotRefs(m.ring[r], r, s) : s \in Slots} ELSE {})
            \cup (IF m.ring[r].desc THEN {DescTok(r)} ELSE {})
            \cup (IF m.ring[r].head THEN {HeadTok(r)} ELSE {}) : r \in Rings }

-----------------------------------------------------------------------------
(* Ring Resource Manager: setup.  how is the allocator's answer:           *)
(* "ok", "bufFail" (vzalloc fails) or "descFail" (dma_alloc_coherent).     *)
SetupOutcome == {"ok", "bufFail", "descFail"}

\* Mutant: the error path frees the buffer array but keeps the pointer.
SetupRingKeepsBuf(m, r, how) ==
    IF how = "descFail"
    THEN SetRing(Release(Acquire(m, {BufTok(r)}), {BufTok(r)}), r,
                 [m.ring[r] EXCEPT !.buf = TRUE])
    ELSE IF how = "ok"
    THEN SetRing(Acquire(m, {BufTok(r), DescTok(r)}), r,
                 [m.ring[r] EXCEPT !.buf = TRUE, !.desc = TRUE])
    ELSE m

\* Shared body of fm10k_setup_tx_resources / fm10k_setup_rx_resources.
SetupRing(m, r, how) ==
    CASE how = "bufFail"  -> m
      [] how = "descFail" ->
            \* vzalloc succeeded, then err: vfree(buffer); buffer = NULL
            Release(Acquire(m, {BufTok(r)}), {BufTok(r)})
      [] how = "ok" ->
            SetRing(Acquire(m, {BufTok(r), DescTok(r)}), r,
                    [m.ring[r] EXCEPT !.buf = TRUE, !.desc = TRUE,
                                      !.slot = [s \in Slots |-> EmptySlot]])

fm10k_setup_tx_resources(m, q, how) == SetupRing(m, <<"tx", q>>, how)
fm10k_setup_rx_resources(m, q, how) == SetupRing(m, <<"rx", q>>, how)

-----------------------------------------------------------------------------
(* Buffer Reclaimer.                                                       *)

\* Mutant: the page-level unmap of a fragment slot (no skb) is dropped.
UnmapAndFreeTxSkbOnly(sl, r, s) ==
    IF sl.skb THEN {SkbTok(r, s)} \cup (IF sl.len THEN {MapTok(r, s)} ELSE {})
    ELSE {}

\* Tokens fm10k_unmap_and_free_tx_resource releases for one slot: the skb
\* and its single mapping, else a page-level mapping of a fragment.
\* Afterwards next_to_watch, skb and len are all cleared.
UnmapAndFreeTx(sl, r, s) ==
    IF sl.skb THEN {SkbTok(r, s)} \cup (IF sl.len THEN {MapTok(r, s)} ELSE {})
    ELSE IF sl.len THEN {MapTok(r, s)}
    ELSE {}

\* The memset of the descriptor block dereferences ring->desc.
MemsetDesc(m, r) ==
    IF m.ring[r].desc THEN m
    ELSE [m EXCEPT !.fault = @ \cup {<<"nullmemset", r>>}]

\* fm10k_clean_tx_ring: unmap and free every slot, reset BQL, zero the
\* buffer array and the descriptor block; no-op once the array is gone.
fm10k_clean_tx_ring(m, r) ==
    IF ~m.ring[r].buf THEN m
    ELSE LET rg == m.ring[r]
             m1 == Release(m, UNION {UnmapAndFreeTx(rg.slot[s], r, s) : s \in Slots})
         IN  MemsetDesc(SetRing(m1, r,
                 [rg EXCEPT !.slot = [s \in Slots |-> EmptySlot]]), r)

\* fm10k_clean_rx_ring: free the partial skb, unmap and free every page
\* still owned by a slot, zero the array and the descriptor block.  The
\* cursors next_to_alloc/clean/use are reset to 0 (not modelled).
fm10k_clean_rx_ring(m, r) ==
    IF ~m.ring[r].buf THEN m
    ELSE LET rg == m.ring[r]
             m1 == Release(m, (IF rg.head THEN {HeadTok(r)} ELSE {}) \cup
                       {PageTok(r, s) : s \in {x \in Slots : rg.slot[x].page}})
         IN  MemsetDesc(SetRing(m1, r,
                 [rg EXCEPT !.head = FALSE,
                            !.slot = [s \in Slots |-> EmptySlot]]), r)

CleanRing(m, r) ==
    IF r[1] = "tx" THEN fm10k_clean_tx_ring(m, r) ELSE fm10k_clean_rx_ring(m, r)

\* Mutant: the "if not set, then don't free" check on desc is dropped.
FreeRingNoDescGuard(m, r) ==
    LET m1 == CleanRing(m, r)
        m2 == IF m1.ring[r].buf
              THEN SetRing(Release(m1, {BufTok(r)}), r, [m1.ring[r] EXCEPT !.buf = FALSE])
              ELSE m1
    IN  SetRing(Release(m2, {DescTok(r)}), r, [m2.ring[r] EXCEPT !.desc = FALSE])

\* fm10k_free_tx_resources / fm10k_free_rx_resources: clean, vfree the
\* array (vfree(NULL) is a no-op), then free the descriptor block only if
\* it is set.
FreeRing(m, r) ==
    LET m1 == CleanRing(m, r)
        m2 == IF m1.ring[r].buf
              THEN SetRing(Release(m1, {BufTok(r)}), r, [m1.ring[r] EXCEPT !.buf = FALSE])
              ELSE m1
    IN  IF ~m2.ring[r].desc THEN m2
        ELSE SetRing(Release(m2, {DescTok(r)}), r, [m2.ring[r] EXCEPT !.desc = FALSE])

fm10k_free_tx_resources(m, q) == FreeRing(m, <<"tx", q>>)
fm10k_free_rx_resources(m, q) == FreeRing(m, <<"rx", q>>)

\* The loops "while (i--) free(ring[i])": free rings i-1 down to 0.
RECURSIVE FreeDown(_, _, _)
\* Mutant: the rewind loop written "while (--i)", which skips ring 0.
FreeDownSkipsZero(m, kind, i) ==
    IF i <= 1 THEN m ELSE FreeDown(FreeRing(m, <<kind, i - 1>>), kind, i - 1)

FreeDown(m, kind, i) ==
    IF i = 0 THEN m
    ELSE FreeDown(IF kind = "tx" THEN fm10k_free_tx_resources(m, i - 1)
                  ELSE fm10k_free_rx_resources(m, i - 1), kind, i - 1)

\* "i = num_queues; while (i--) free(ring[i])"
fm10k_free_all_tx_resources(m) == FreeDown(m, "tx", NumQueues)
fm10k_free_all_rx_resources(m) == FreeDown(m, "rx", NumQueues)

\* The loops "for (i = 0; i < num_queues; i++) clean(ring[i])".
RECURSIVE CleanUpTo(_, _, _)
CleanUpTo(m, kind, i) ==
    IF i = 0 THEN m ELSE CleanRing(CleanUpTo(m, kind, i - 1), <<kind, i - 1>>)

fm10k_clean_all_tx_rings(m) == CleanUpTo(m, "tx", NumQueues)
fm10k_clean_all_rx_rings(m) == CleanUpTo(m, "rx", NumQueues)

\* fm10k_setup_all_tx_resources / fm10k_setup_all_rx_resources: set up the
\* queues in index order; at the first failure i rewind rings i-1 .. 0.
SetupAll(m, kind, out) ==
    LET RECURSIVE Go(_, _)
        Go(mm, i) ==
            IF i = NumQueues THEN [mem |-> mm, err |-> FALSE]
            ELSE LET m1 == IF kind = "tx"
                           THEN fm10k_setup_tx_resources(mm, i, out[<<kind, i>>])
                           ELSE fm10k_setup_rx_resources(mm, i, out[<<kind, i>>])
                 IN  IF out[<<kind, i>>] = "ok" THEN Go(m1, i + 1)
                     ELSE [mem |-> FreeDown(m1, kind, i), err |-> TRUE]
    IN  Go(m, 0)

fm10k_setup_all_tx_resources(m, out) == SetupAll(m, "tx", out)
fm10k_setup_all_rx_resources(m, out) == SetupAll(m, "rx", out)

-----------------------------------------------------------------------------
(* Interface management.  fm10k_up/fm10k_down live in fm10k_pci.c; only   *)
(* their effect on the rings is modelled: down stops the data path and    *)
(* cleans every ring.                                                      *)

fm10k_down(m) ==
    fm10k_clean_all_rx_rings(fm10k_clean_all_tx_rings([m EXCEPT !.up = FALSE]))

\* Mutant: a late error in fm10k_open unwinds but still brings the port up.
OpenIgnoresLateError(m, out, lateFail) ==
    IF m.zombie THEN [mem |-> [m EXCEPT !.zombie = FALSE], err |-> FALSE]
    ELSE LET tx == fm10k_setup_all_tx_resources(m, out)
             rx == fm10k_setup_all_rx_resources(tx.mem, out)
         IN  CASE tx.err -> tx
               [] rx.err -> [mem |-> fm10k_free_all_tx_resources(rx.mem), err |-> TRUE]
               [] OTHER  -> [mem |-> [(IF lateFail
                                       THEN fm10k_free_all_tx_resources(fm10k_free_all_rx_resources(rx.mem))
                                       ELSE rx.mem) EXCEPT !.up = TRUE],
                             err |-> FALSE]

\* fm10k_open.  A zombie interface (closed while ZC was using it) is only
\* un-zombied.  lateFail: fm10k_qv_request_irq or netif_set_real_num_*
\* fails, unwinding to err_req_irq / err_set_queues.
fm10k_open(m, out, lateFail) ==
    IF m.zombie THEN [mem |-> [m EXCEPT !.zombie = FALSE], err |-> FALSE]
    ELSE LET tx == fm10k_setup_all_tx_resources(m, out)
             rx == fm10k_setup_all_rx_resources(tx.mem, out)
         IN  CASE tx.err   -> tx
               [] rx.err   -> [mem |-> fm10k_free_all_tx_resources(rx.mem), err |-> TRUE]
               [] lateFail -> [mem |-> fm10k_free_all_tx_resources(fm10k_free_all_rx_resources(rx.mem)),
                               err |-> TRUE]
               [] OTHER    -> [mem |-> [rx.mem EXCEPT !.up = TRUE], err |-> FALSE]

\* fm10k_close: ignored (the interface becomes a zombie) while ZC uses it.
fm10k_close(m) ==
    IF zcUsers > 0 THEN [m EXCEPT !.zombie = TRUE]
    ELSE fm10k_free_all_rx_resources(fm10k_free_all_tx_resources(fm10k_down(m)))

\* fm10k_clear_queueing_scheme (fm10k_main.c): the q_vectors holding the
\* rings are freed and fm10k_init_queueing_scheme allocates new, zeroed ones.
\* Whatever the old rings still pointed to is no longer reachable.
fm10k_clear_queueing_scheme(m) == [m EXCEPT !.ring = [r \in Rings |-> FreshRing]]

\* Allocator answers for one fm10k_open: per direction, nothing fails or the
\* first failure is at queue q (the rings after it are never set up).
FailPlans == {"none"} \cup (Queues \X (SetupOutcome \ {"ok"}))
Outcomes ==
    { [r \in Rings |-> LET p == IF r[1] = "tx" THEN tp ELSE rp
                       IN  IF p # "none" /\ p[1] = r[2] THEN p[2] ELSE "ok"] :
      tp \in FailPlans, rp \in FailPlans }

\* ndo_open, called by the stack on a stopped interface.
Open ==
    /\ ~running
    /\ \E out \in Outcomes, lateFail \in BOOLEAN :
         LET res == fm10k_open(Mem, out, lateFail)
         IN  /\ Commit(res.mem)
             /\ running' = ~res.err
    /\ UNCHANGED <<zcUsers, tcLeft>>

\* ndo_stop: the stack marks the interface stopped whatever fm10k_close did.
Close ==
    /\ running
    /\ Commit(fm10k_close(Mem))
    /\ running' = FALSE
    /\ UNCHANGED <<zcUsers, tcLeft>>

\* fm10k_setup_tc: close if running, rebuild the queueing scheme (which may
\* fail: schemeOk is FALSE when init_queueing_scheme or an IRQ request
\* fails, and the device is detached), then reopen if running.  The
\* traffic-class argument only selects EINVAL early returns that change
\* nothing and is left out.  netif_running is not changed.
\* The ndo_setup_tc request types: an mqprio offload, or anything else.
TcSetupTypes == {"mqprio", "other"}

\* __fm10k_setup_tc: a request that is not TC_SETUP_QDISC_MQPRIO returns
\* -EOPNOTSUPP; an mqprio one goes to fm10k_setup_tc with its num_tc.
__fm10k_setup_tc(m, type, out, lateFail, schemeOk) ==
    IF type # "mqprio" THEN m
    ELSE LET m1 == fm10k_clear_queueing_scheme(
                       IF running THEN fm10k_close(m) ELSE m)
         IN  IF schemeOk /\ running THEN fm10k_open(m1, out, lateFail).mem ELSE m1

SetupTc ==
    /\ tcLeft > 0
    /\ tcLeft' = tcLeft - 1
    /\ \E type \in TcSetupTypes, out \in Outcomes, lateFail, schemeOk \in BOOLEAN :
         Commit(__fm10k_setup_tc(Mem, type, out, lateFail, schemeOk))
    /\ UNCHANGED <<running, zcUsers>>

-----------------------------------------------------------------------------
(* The data path (fm10k_main.c) and the PF_RING ZC users, as environment.  *)
(* They run while the port is up and respect the slot contract of §4.2:   *)
(* a Tx head slot holds skb, mapping and watch marker, a fragment slot a   *)
(* mapping only; an Rx slot holds a page.                                  *)

DataPathRing(r) == up /\ ring[r].buf /\ ring[r].desc

\* fm10k_xmit_frame_ring (fm10k_main.c): the skb is mapped into slot s,
\* as the head of a frame (skb, mapping, next_to_watch) or as a fragment.
fm10k_xmit_frame_ring(m, r, s, isHead) ==
    SetRing(Acquire(m, {MapTok(r, s)} \cup (IF isHead THEN {SkbTok(r, s)} ELSE {})),
            r, [m.ring[r] EXCEPT !.slot[s] = [EmptySlot EXCEPT !.skb = isHead,
                                              !.len = TRUE, !.watch = isHead]])

\* The skb the stack hands over while fm10k_xmit_frame owns it.
XmitSkbTok == <<"xskb">>

\* The helper failures a frame can meet: an 802.1Q header in the frame
\* (no hardware tag) is moved into the tag, which needs an unshared skb
\* (skb_share_check), a pullable header (pskb_may_pull) and a private head
\* (skb_cow_head); a frame under 17 bytes is padded (skb_pad).
XmitSteps(tagged, short) ==
    (IF tagged THEN {"shareFail", "pullFail", "cowFail"} ELSE {})
        \cup (IF short THEN {"padFail"} ELSE {})

\* fm10k_xmit_frame: the queue is skb->queue_mapping, reduced modulo
\* num_tx_queues when it is out of range.  Every failure returns
\* NETDEV_TX_OK, so the driver owns the skb: skb_share_check, skb_pad and
\* the cow error path free it, while the pskb_may_pull failure returns
\* without freeing it.
fm10k_xmit_frame(m, q, s, isHead, how) ==
    LET r  == <<"tx", IF q >= NumQueues THEN q % NumQueues ELSE q>>
        m1 == Acquire(m, {XmitSkbTok})
    IN  CASE how \in {"shareFail", "cowFail", "padFail"} -> Release(m1, {XmitSkbTok})
          [] how = "pullFail" -> m1
          [] OTHER -> fm10k_xmit_frame_ring(Release(m1, {XmitSkbTok}), r, s, isHead)

\* ndo_start_xmit, while the Tx queues are started (up).  A frame for a
\* full slot gets NETDEV_TX_BUSY from fm10k_maybe_stop_tx and stays with
\* the stack, which changes nothing.
Xmit(q, s, isHead, tagged, short) ==
    LET r == <<"tx", IF q >= NumQueues THEN q % NumQueues ELSE q>>
    IN  /\ DataPathRing(r)
        /\ \E how \in {"ok"} \cup (XmitSteps(tagged, short) \cap XmitFailures) :
              /\ how = "ok" => ring[r].slot[s] = EmptySlot
              /\ Commit(fm10k_xmit_frame(Mem, q, s, isHead, how))
        /\ UNCHANGED <<running, zcUsers, tcLeft>>

\* The end of fm10k_clean_tx_irq / fm10k_clean_rx_irq (fm10k_main.c):
\* u64_stats_update_begin, packets and bytes added, u64_stats_update_end.
\* A reader sees the section as one step: one that begins inside it waits
\* for the even count, one that overlaps it sees the count move by 2.  On
\* 64-bit builds both calls are empty.  Here every completion is one
\* packet of one byte unit, so a consistent pair has packets = bytes.
StatsUpdate(r) ==
    IF r = StatsRing /\ stats.packets < MaxStatsWrites
    THEN /\ stats' = [packets |-> stats.packets + 1, bytes |-> stats.bytes + 1]
         /\ seq' = IF Build64 THEN seq ELSE seq + 2
         /\ UNCHANGED rd
    ELSE UNCHANGED statVars

\* Transmit completion releases the slot the way unmap_and_free does.
TxComplete(r, s) ==
    /\ r[1] = "tx" /\ DataPathRing(r)
    /\ ring[r].slot[s] # EmptySlot
    /\ Commit(SetRing(Release(Mem, UnmapAndFreeTx(ring[r].slot[s], r, s)), r,
                      [ring[r] EXCEPT !.slot[s] = EmptySlot]))
    /\ StatsUpdate(r)
    /\ UNCHANGED <<running, zcUsers, tcLeft>>

\* Mutant: a refill that does not check the slot is empty.
RxRefillUnchecked(r, s) ==
    /\ r[1] = "rx" /\ DataPathRing(r)
    /\ Commit(SetRing(Acquire(Mem, {PageTok(r, s)}), r,
                      [ring[r] EXCEPT !.slot[s].page = TRUE]))
    /\ UNCHANGED <<running, zcUsers, tcLeft>>

RxRefill(r, s) ==
    /\ r[1] = "rx" /\ DataPathRing(r)
    /\ ~ring[r].slot[s].page
    /\ Commit(SetRing(Acquire(Mem, {PageTok(r, s)}), r,
                      [ring[r] EXCEPT !.slot[s].page = TRUE]))
    /\ UNCHANGED <<running, zcUsers, tcLeft>>

\* The fast path hands the page to an skb (ownership leaves the ring) and
\* NULLs the slot's page pointer.  A packet that spans further descriptors
\* is parked in rx_ring->skb; its last descriptor hands it to the stack.
RxReceive(r, s, partial) ==
    /\ r[1] = "rx" /\ DataPathRing(r)
    /\ ring[r].slot[s].page
    /\ partial => ~ring[r].head
    /\ LET m1 == [Mem EXCEPT !.live = @ \ {PageTok(r, s), HeadTok(r)}]
       IN  Commit(SetRing(IF partial THEN Acquire(m1, {HeadTok(r)}) ELSE m1, r,
                  [ring[r] EXCEPT !.slot[s].page = FALSE,
                                  !.head = partial]))
    /\ StatsUpdate(r)
    /\ UNCHANGED <<running, zcUsers, tcLeft>>

ZcAttach ==
    /\ up /\ zcUsers < MaxZcUsers
    /\ zcUsers' = zcUsers + 1
    /\ UNCHANGED <<ring, live, fault, running, up, zombie, tcLeft>>

\* Mutant: an unbalanced release that does not check the counter.
ZcDetachUnchecked ==
    /\ zcUsers' = zcUsers - 1
    /\ UNCHANGED <<ring, live, fault, running, up, zombie, tcLeft>>

ZcDetach ==
    /\ zcUsers > 0
    /\ zcUsers' = zcUsers - 1
    /\ UNCHANGED <<ring, live, fault, running, up, zombie, tcLeft>>

-----------------------------------------------------------------------------
(* Tx hang handling.                                                       *)

TX_TIMEO_LIMIT == 16000

\* Some Tx descriptor is still pending: what check_for_tx_hang and
\* fm10k_check_tx_hang (fm10k_main.c) need to report a real hang.
TxPending == \E r \in Rings, s \in Slots : r[1] = "tx" /\ ring[r].slot[s] # EmptySlot

\* fm10k_tx_timeout: nothing while a ZC user holds the port (no reset under
\* the application); a real hang calls fm10k_tx_timeout_reset, whose reset
\* runs in the service task (fm10k_pci.c) and is outside this model; a fake
\* one doubles the kernel's timeout while it is below TX_TIMEO_LIMIT.
fm10k_tx_timeout(realHang) ==
    IF zcUsers > 0 \/ realHang THEN UNCHANGED watchdog
    ELSE watchdog' = IF watchdog < TX_TIMEO_LIMIT THEN watchdog * 2 ELSE watchdog

\* ndo_tx_timeout: the kernel watchdog calls it while the port is up and a
\* Tx queue has been stopped for watchdog_timeo.
TxTimeout ==
    /\ up
    /\ \E realHang \in BOOLEAN :
          /\ realHang => TxPending
          /\ fm10k_tx_timeout(realHang)
    /\ UNCHANGED <<ring, live, fault, running, up, zombie, zcUsers, tcLeft,
                   statVars>>

-----------------------------------------------------------------------------
(* Statistics: fm10k_get_stats64 reads each ring's pair under rcu and     *)
(* retries while the ring's syncp count moved.  The loop is modelled on    *)
(* StatsRing; the other rings' reads are the same loop.                    *)

\* u64_stats_fetch_begin_irq: the count (0 on 64-bit builds).
FetchBegin == IF Build64 THEN 0 ELSE seq

\* Mutant: the retry check never asks for another pass.
FetchRetryNever(start) == FALSE

\* u64_stats_fetch_retry_irq: the count moved since begin (never on 64-bit
\* builds).
FetchRetry(start) == ~Build64 /\ seq # start

StatsBegin ==
    /\ rd.pc = "begin"
    /\ rd' = [rd EXCEPT !.pc = "packets", !.start = FetchBegin]

StatsReadPackets ==
    /\ rd.pc = "packets"
    /\ rd' = [rd EXCEPT !.pc = "bytes", !.p = stats.packets]

StatsReadBytes ==
    /\ rd.pc = "bytes"
    /\ rd' = [rd EXCEPT !.pc = "retry", !.b = stats.bytes]

StatsRetry ==
    /\ rd.pc = "retry"
    /\ rd' = [rd EXCEPT !.pc = IF FetchRetry(rd.start) THEN "begin" ELSE "sum"]

\* stats->tx_packets += packets; stats->tx_bytes += bytes; the call ends
\* and a later one starts over.
StatsSum ==
    /\ rd.pc = "sum"
    /\ rd' = [pc |-> "begin", start |-> 0, p |-> 0, b |-> 0]

GetStats ==
    /\ StatsReaders > 0
    /\ StatsBegin \/ StatsReadPackets \/ StatsReadBytes \/ StatsRetry \/ StatsSum
    /\ UNCHANGED <<ring, live, fault, running, up, zombie, zcUsers, tcLeft,
                   wdVars, stats, seq>>

Init ==
    /\ ring = [r \in Rings |-> FreshRing]
    /\ live = {}
    /\ fault = {}
    /\ running = FALSE
    /\ up = FALSE
    /\ zombie = FALSE
    /\ zcUsers = 0
    /\ tcLeft = MaxTcChanges
    /\ watchdog \in {5 * hz : hz \in HzValues}
    /\ stats = [packets |-> 0, bytes |-> 0]
    /\ seq = 0
    /\ rd = [pc |-> "begin", start |-> 0, p |-> 0, b |-> 0]

Next ==
    \/ /\ \/ Open
          \/ Close
          \/ SetupTc
          \/ \E q \in 0 .. NumQueues, s \in Slots, b, tagged, short \in BOOLEAN :
                Xmit(q, s, b, tagged, short)
          \/ \E r \in Rings, s \in Slots : RxRefill(r, s)
          \/ ZcAttach
          \/ ZcDetach
       /\ UNCHANGED <<wdVars, statVars>>
    \/ /\ \/ \E r \in Rings, s \in Slots, b \in BOOLEAN : RxReceive(r, s, b)
          \/ \E r \in Rings, s \in Slots : TxComplete(r, s)
       /\ UNCHANGED wdVars
    \/ TxTimeout
    \/ GetStats

Spec == Init /\ [][Next]_vars

-----------------------------------------------------------------------------
(* Properties.                                                             *)

TypeOK ==
    /\ ring \in [Rings -> RingT]
    /\ running \in BOOLEAN /\ up \in BOOLEAN /\ zombie \in BOOLEAN
    /\ zcUsers \in 0 .. MaxZcUsers
    /\ tcLeft \in 0 .. MaxTcChanges
    /\ watchdog \in Nat
    /\ stats \in [packets : 0 .. MaxStatsWrites, bytes : 0 .. MaxStatsWrites]
    /\ rd \in [pc : {"begin", "packets", "bytes", "retry", "sum"},
              start : Nat, p : Nat, b : Nat]

\* No leak and no dangling pointer: the allocations the driver owns are
\* exactly those its ring pointers reach, across the setup error paths,
\* the per-slot unmap in the clean routines and the queueing-scheme rebuild.
MemoryAccounted == live = Referenced(Mem)

\* No double free, no memset of a NULL descriptor block, no allocation
\* over a live pointer, whatever order open, close and setup_tc run in.
NoFault == fault = {}

\* A ring's buffer array and descriptor block are set up and torn down
\* together (the "both-or-neither" rule of the setup error path).
RingPaired == \A r \in Rings : ring[r].buf = ring[r].desc

\* When the stack sees the interface stopped and ZC holds no zombie, every
\* ring is fully torn down: a failed fm10k_open rolled back what it built.
DownReleased ==
    (~running /\ ~zombie) => \A r \in Rings : ring[r] = FreshRing

\* While the data path is active every ring has its buffer array and
\* descriptor block: the hot path never dereferences a torn-down ring.
UpHasRings == up => \A r \in Rings : ring[r].buf /\ ring[r].desc


\* A ring's statistics read by fm10k_get_stats64 is a pair the ring held
\* at one moment: the u64_stats retry loop discards a read that a
\* completion on another CPU overlapped, between the packets and the
\* bytes load.
StatsReadConsistent == rd.pc = "sum" => rd.p = rd.b
=============================================================================

------------------------------ MODULE L2Accel ------------------------------
(***************************************************************************)
(* The forwarding-acceleration table of fm10k_netdev.c (struct             *)
(* fm10k_l2_accel): fm10k_dfwd_add_station creates it, grows it by copy,   *)
(* publish and kfree_rcu, and fills the first free slot;                   *)
(* fm10k_dfwd_del_station empties a slot and retires the table when the    *)
(* last station goes.  Both run under RTNL, which keeps other add/delete   *)
(* calls out until the caller is done.  The Rx path (fm10k_main.c) reads   *)
(* ring->l2_accel inside an RCU read-side section and may run between any  *)
(* two control steps.                                                      *)
(*                                                                         *)
(* fm10k_assign_l2_accel stores the pointer in each Rx ring in turn and    *)
(* then in the interface; an Rx reader may run between any two of these    *)
(* stores, so each store is a step (pub tracks the loop) and the caller's  *)
(* work after the call (kfree_rcu of the old table, recording the station) *)
(* follows the last one.  The host mailbox is taken to be ready, so every  *)
(* add and delete queues its MAC rule; rules is the set of station rules   *)
(* the driver has asked the switch to hold.                                *)
(***************************************************************************)
EXTENDS Naturals, FiniteSets, FiniteSetsExt

CONSTANTS
    Sdevs,          \* secondary (macvlan) devices, as model values
    NoDev,          \* a NULL macvlan[] entry
    Readers,        \* Rx-path RCU readers
    L2InitSize,     \* the size of a first table (7 in the code)
    MaxStations,    \* FM10K_MAX_STATIONS
    MaxTables,      \* bound: how many tables may be allocated in a behaviour
    DglortMaps,     \* values of hw->mac.dglort_map, as [hi, lo] 16-bit halves
    TotalVfs,       \* hw->iov.total_vfs
    NumRxQueues     \* interface->num_rx_queues

ASSUME NoDev \notin Sdevs

VARIABLES
    tbl,            \* tbl[t]: table allocation t (state, size, count, ...)
    accel,          \* interface->l2_accel; 0 is NULL
    ringAccel,      \* ringAccel[q]: rx_ring[q]->l2_accel
    pub,            \* the fm10k_assign_l2_accel call in progress, if on
    nextTbl,        \* the next allocation's identity
    snap,           \* snap[r]: the table reader r dereferenced; -1: outside
    wait,           \* wait[t]: readers a pending kfree_rcu of t waits for
    macv,           \* macv[s]: "off", "accel" (offloaded) or "plain"
    rules,          \* <<glort, sdev>> MAC rules queued for stations
    dglort_map      \* the map the switch gave this port

vars == <<tbl, accel, ringAccel, pub, nextTbl, snap, wait, macv, rules, dglort_map>>

RxQueues == 0 .. NumRxQueues - 1

TableIds == 1 .. MaxTables

U16(x) == x % 65536

-----------------------------------------------------------------------------
(* fm10k_request_glort_range (run by fm10k_open) on this port's map.       *)

\* FM10K_DGLORTMAP_NONE
DglortMapNone == dglort_map = [hi |-> 0, lo |-> 65535]

\* mask = (~dglort_map) >> FM10K_DGLORTMAP_MASK_SHIFT, as a u16.
GlortMask == 65535 - dglort_map.hi
DglortMapLo == dglort_map.lo

fm10k_request_glort_range ==
    CASE DglortMapNone           -> [glort |-> DglortMapLo, count |-> 0]
      [] GlortMask <= TotalVfs   -> [glort |-> U16(DglortMapLo + GlortMask),
                                     count |-> 1]
      [] GlortMask < 64          -> [glort |-> U16(DglortMapLo + (GlortMask + 1) \div 2),
                                     count |-> (GlortMask + 1) \div 2]
      [] OTHER                   -> [glort |-> U16(DglortMapLo + 64),
                                     count |-> GlortMask - 63]

glort       == fm10k_request_glort_range.glort
glort_count == fm10k_request_glort_range.count

-----------------------------------------------------------------------------
(* Table allocations.                                                      *)

Unused == [st |-> "unused", size |-> 0, count |-> 0, dglort |-> 0,
           macvlan |-> [i \in {} |-> NoDev]]

\* kzalloc(offsetof(struct fm10k_l2_accel, macvlan[size])).
Zeroed(size) == [st |-> "live", size |-> size, count |-> 0, dglort |-> 0,
                 macvlan |-> [i \in 0 .. size - 1 |-> NoDev]]

Slots(t) == {i \in DOMAIN tbl[t].macvlan : tbl[t].macvlan[i] # NoDev}

\* Mutant: the old table is freed at once (kfree instead of kfree_rcu).
KfreeNow(w, t) == [w EXCEPT ![t] = {}]

\* kfree_rcu: the table is freed after every reader now inside a read-side
\* section has left it.
KfreeRcu(w, t) == [w EXCEPT ![t] = {r \in Readers : snap[r] # -1}]

\* The first-table branch of fm10k_dfwd_add_station (lines 1727-1741).
NewTable(t) ==
    [Zeroed(L2InitSize) EXCEPT !.dglort = glort]

\* Mutant: growth copies the header but not the station pointers.
GrowNoCopy(old, t) ==
    [tbl[old] EXCEPT !.size = 2 * tbl[old].size + 1,
                     !.macvlan = [i \in 0 .. 2 * tbl[old].size |-> NoDev]]

\* The growth branch: kzalloc 2*size+1 slots, memcpy the header and the
\* old macvlan[] over it, then set the new size.
Grow(old, t) ==
    LET o == tbl[old]
    IN  [o EXCEPT !.size = 2 * o.size + 1,
                  !.macvlan = [i \in 0 .. 2 * o.size |->
                                  IF i < o.size THEN o.macvlan[i] ELSE NoDev]]

\* The slot loop: the first NULL entry below size, else size.
FirstFree(rec) ==
    LET free == {i \in 0 .. rec.size - 1 : rec.macvlan[i] = NoDev}
    IN  IF free = {} THEN rec.size ELSE Min(free)

StationGlort(rec, i) == U16(rec.dglort + 1 + i)

\* Queue the switch rule for the station in slot i: its GLORT and MAC.
QueueStationRule(s, rec, i) == rules' = rules \cup {<<StationGlort(rec, i), s>>}

\* Record the station in table t (whose contents are rec) on top of the
\* table state base, queue its MAC rule, and mark it offloaded.  The
\* configure_dglort_map call between the two (1776-1783) sets only RSS/DCB
\* register fields and is left out.
RecordStation(s, t, rec, base) ==
    LET i == FirstFree(rec)
    IN  /\ tbl' = [base EXCEPT ![t] = [rec EXCEPT !.macvlan[i] = s,
                                                 !.count = @ + 1]]
        /\ QueueStationRule(s, rec, i)
        /\ macv' = [macv EXCEPT ![s] = "accel"]

\* An add that returns ERR_PTR: macvlan falls back to a plain station.
Refused(s) ==
    /\ macv' = [macv EXCEPT ![s] = "plain"]
    /\ UNCHANGED <<tbl, accel, ringAccel, pub, nextTbl, wait, rules>>

\* Mutant: the GLORT-space check is off by one.
AtLimitOffByOne(rec) ==
    rec.count = MaxStations \/ rec.count = glort_count

AtLimit(rec) ==
    rec.count = MaxStations \/ rec.count = glort_count - 1

-----------------------------------------------------------------------------
(* fm10k_assign_l2_accel and what its callers do after it.                 *)

NoPublish == [on |-> FALSE, to |-> 0, next |-> 0, old |-> 0, sdev |-> NoDev]

\* A call publishing table t (0: NULL); old is the table kfree_rcu then
\* retires (0: none) and sdev the station recorded after it (NoDev: none).
Publish(t, old, sdev) == [on |-> TRUE, to |-> t, next |-> 0, old |-> old, sdev |-> sdev]

\* One iteration of "for (i = 0; i < num_rx_queues; i++)
\* rcu_assign_pointer(ring->l2_accel, l2_accel)".
AssignRing ==
    /\ pub.on /\ pub.next < NumRxQueues
    /\ ringAccel' = [ringAccel EXCEPT ![pub.next] = pub.to]
    /\ pub' = [pub EXCEPT !.next = @ + 1]
    /\ UNCHANGED <<tbl, accel, nextTbl, snap, wait, macv, rules, dglort_map>>

\* Mutant: the loop stops one ring short.
AssignDoneShort ==
    /\ pub.on /\ pub.next = NumRxQueues - 1

AssignDoneAt == pub.on /\ pub.next = NumRxQueues

\* Mutant: the caller never calls kfree_rcu on the table it replaced.
AssignDoneNoFree ==
    /\ AssignDoneAt
    /\ accel' = pub.to
    /\ pub' = NoPublish
    /\ IF pub.sdev = NoDev
       THEN UNCHANGED <<tbl, macv, rules>>
       ELSE RecordStation(pub.sdev, pub.to, tbl[pub.to], tbl)
    /\ UNCHANGED <<ringAccel, nextTbl, snap, wait, dglort_map>>

\* "interface->l2_accel = l2_accel", then the caller: kfree_rcu(old) and,
\* in an add, the station recorded in the published table.
AssignDone ==
    /\ AssignDoneAt
    /\ accel' = pub.to
    /\ pub' = NoPublish
    /\ LET base == IF pub.old = 0 THEN tbl
                   ELSE [tbl EXCEPT ![pub.old].st = "retired"]
       IN  /\ wait' = IF pub.old = 0 THEN wait ELSE KfreeRcu(wait, pub.old)
           /\ IF pub.sdev = NoDev
              THEN tbl' = base /\ UNCHANGED <<macv, rules>>
              ELSE RecordStation(pub.sdev, pub.to, base[pub.to], base)
    /\ UNCHANGED <<ringAccel, nextTbl, snap, dglort_map>>

-----------------------------------------------------------------------------
(* fm10k_dfwd_add_station, called by macvlan_open for an offloaded device. *)

AddStation(s) ==
    /\ ~pub.on
    /\ macv[s] = "off"
    /\ \/ /\ accel = 0
          /\ glort_count < L2InitSize
          /\ Refused(s)
       \/ /\ accel = 0
          /\ glort_count >= L2InitSize
          /\ nextTbl <= MaxTables
          /\ \/ Refused(s)                               \* kzalloc failed
             \/ /\ tbl' = [tbl EXCEPT ![nextTbl] = NewTable(nextTbl)]
                /\ pub' = Publish(nextTbl, 0, s)
                /\ nextTbl' = nextTbl + 1
                /\ UNCHANGED <<accel, ringAccel, wait, macv, rules>>
       \/ /\ accel # 0
          /\ AtLimit(tbl[accel])
          /\ Refused(s)
       \/ /\ accel # 0
          /\ ~AtLimit(tbl[accel])
          /\ tbl[accel].count = tbl[accel].size
          /\ nextTbl <= MaxTables
          /\ \/ Refused(s)                               \* kzalloc failed
             \/ /\ tbl' = [tbl EXCEPT ![nextTbl] = Grow(accel, nextTbl)]
                /\ pub' = Publish(nextTbl, accel, s)
                /\ nextTbl' = nextTbl + 1
                /\ UNCHANGED <<accel, ringAccel, wait, macv, rules>>
       \/ /\ accel # 0
          /\ ~AtLimit(tbl[accel])
          /\ tbl[accel].count # tbl[accel].size
          /\ RecordStation(s, accel, tbl[accel], tbl)
          /\ UNCHANGED <<accel, ringAccel, pub, nextTbl, wait>>
    /\ UNCHANGED <<snap, dglort_map>>

\* Mutant: the removal computes the station's GLORT without the + 1.
DelGlortOffByOne(rec, i) == U16(rec.dglort + i)

\* The GLORT whose rules fm10k_dfwd_del_station removes for slot i.
DelGlort(rec, i) == U16(rec.dglort + 1 + i)

\* fm10k_dfwd_del_station, called by macvlan_stop for an offloaded device.
\* Emptying the table starts the publish of NULL; kfree_rcu follows it.
DelStation(s) ==
    /\ ~pub.on
    /\ macv[s] = "accel"
    /\ macv' = [macv EXCEPT ![s] = "off"]
    /\ accel # 0
    /\ LET rec   == tbl[accel]
           found == {i \in 0 .. rec.size - 1 : rec.macvlan[i] = s}
           i     == Min(found)
           rec1  == [rec EXCEPT !.macvlan[i] = NoDev, !.count = @ - 1]
       IN  /\ found # {}
           /\ rules' = rules \ {<<DelGlort(rec, i), s>>}
           /\ tbl' = [tbl EXCEPT ![accel] = rec1]
           /\ pub' = IF rec1.count = 0 THEN Publish(0, accel, NoDev) ELSE pub
    /\ UNCHANGED <<accel, ringAccel, nextTbl, snap, wait, dglort_map>>

\* macvlan_stop of a device that was refused offload.
PlainStop(s) ==
    /\ ~pub.on
    /\ macv[s] = "plain"
    /\ macv' = [macv EXCEPT ![s] = "off"]
    /\ UNCHANGED <<tbl, accel, ringAccel, pub, nextTbl, snap, wait, rules, dglort_map>>

-----------------------------------------------------------------------------
(* The Rx path and RCU (environment).                                      *)

\* rcu_read_lock(); l2_accel = rcu_dereference_bh(rx_ring->l2_accel) on
\* the ring the packet arrived on.
ReaderEnter(r, q) ==
    /\ snap[r] = -1
    /\ snap' = [snap EXCEPT ![r] = ringAccel[q]]
    /\ UNCHANGED <<tbl, accel, ringAccel, pub, nextTbl, wait, macv, rules, dglort_map>>

\* rcu_read_unlock(): the reader no longer holds any table.
ReaderExit(r) ==
    /\ snap[r] # -1
    /\ snap' = [snap EXCEPT ![r] = -1]
    /\ wait' = [t \in TableIds |-> wait[t] \ {r}]
    /\ UNCHANGED <<tbl, accel, ringAccel, pub, nextTbl, macv, rules, dglort_map>>

\* The grace period of a retired table ends: its kfree_rcu callback runs.
RcuReclaim(t) ==
    /\ tbl[t].st = "retired"
    /\ wait[t] = {}
    /\ tbl' = [tbl EXCEPT ![t].st = "freed"]
    /\ UNCHANGED <<accel, ringAccel, pub, nextTbl, snap, wait, macv, rules, dglort_map>>

Init ==
    /\ tbl = [t \in TableIds |-> Unused]
    /\ accel = 0
    /\ ringAccel = [q \in RxQueues |-> 0]
    /\ pub = NoPublish
    /\ nextTbl = 1
    /\ snap = [r \in Readers |-> -1]
    /\ wait = [t \in TableIds |-> {}]
    /\ macv = [s \in Sdevs |-> "off"]
    /\ rules = {}
    /\ dglort_map \in DglortMaps

Next ==
    \/ \E s \in Sdevs : AddStation(s) \/ DelStation(s) \/ PlainStop(s)
    \/ AssignRing \/ AssignDone
    \/ \E r \in Readers : ReaderExit(r) \/ \E q \in RxQueues : ReaderEnter(r, q)
    \/ \E t \in TableIds : RcuReclaim(t)

Spec == Init /\ [][Next]_vars

\* The caller holds RTNL and does not sleep between the stores of the
\* publish, so it finishes them; an RCU read-side section cannot block, so
\* a reader leaves it; and every grace period ends, so a kfree_rcu
\* callback whose readers have left runs.  Adds, deletes and readers
\* entering are requests nobody has to make.
FairSpec ==
    /\ Spec
    /\ WF_vars(AssignRing) /\ WF_vars(AssignDone)
    /\ \A r \in Readers : WF_vars(ReaderExit(r))
    /\ \A t \in TableIds : WF_vars(RcuReclaim(t))

-----------------------------------------------------------------------------
\* An Rx reader never holds a freed table: a table replaced by growth or
\* dropped by the last delete is freed only after every reader that could
\* have dereferenced it has left its read-side section.
ReadersSeeAllocated ==
    /\ \A r \in Readers : snap[r] > 0 => tbl[snap[r]].st # "freed"
    /\ accel > 0 => tbl[accel].st = "live"
    /\ \A q \in RxQueues : ringAccel[q] > 0 => tbl[ringAccel[q]].st = "live"

\* Every Rx ring's l2_accel is the interface's table, or, while
\* fm10k_assign_l2_accel runs, the table it is publishing: no ring is left
\* behind by the loop, and once the caller returns all rings agree, so a
\* table retired afterwards is one no ring still points to.
RingsPublished ==
    \A q \in RxQueues : ringAccel[q] = accel \/ (pub.on /\ ringAccel[q] = pub.to)

\* The switch holds a MAC rule for exactly the stations of the published
\* table, each at the GLORT dglort + 1 + i of its slot: add and delete
\* compute the same GLORT, and growth keeps every station's slot.
SwitchRulesMatchTable ==
    rules = IF accel = 0 THEN {}
            ELSE {<<StationGlort(tbl[accel], i), tbl[accel].macvlan[i]>> :
                     i \in Slots(accel)}

\* Every station's GLORT lies inside the range fm10k_request_glort_range
\* gave the port, above the port's own GLORT.
StationGlortsInRange ==
    accel > 0 =>
        \A i \in Slots(accel) :
            StationGlort(tbl[accel], i) \in glort + 1 .. glort + glort_count - 1

\* Every table the driver stops using is eventually freed: a table replaced
\* by growth or emptied by the last delete is handed to kfree_rcu, and its
\* grace period ends once the readers that may hold it have left.
TablesReclaimed ==
    \A t \in TableIds :
        (tbl[t].st \in {"live", "retired"} /\ t # accel /\ ~(pub.on /\ t \in {pub.to, pub.old}))
            ~> tbl[t].st = "freed"

\* The table implements the abstract station map of L2AccelStations.
StationLimit ==
    IF glort_count >= L2InitSize THEN Min({MaxStations, glort_count - 1}) ELSE 0

StationMap ==
    [i \in 0 .. StationLimit - 1 |->
        IF accel = 0 \/ i >= tbl[accel].size THEN NoDev ELSE tbl[accel].macvlan[i]]

Abstract == INSTANCE L2AccelStations WITH slot <- StationMap, limit <- StationLimit

\* Growth, retirement and readers are invisible to users of the table: the
\* stations and their slots change only by first-free adds and deletes.
ImplementsStations == Abstract!Spec
=============================================================================

--------------------------- MODULE MacVlanQueue ----------------------------
(***************************************************************************)
(* Address-Sync Queue of fm10k_netdev.c: interface->macvlan_requests, the *)
(* list that fm10k_queue_mac_request / fm10k_queue_vlan_request append to *)
(* under macvlan_lock, fm10k_clear_macvlan_queue, and the reset bracket   *)
(* fm10k_reset_rx_state (wait for the worker, cancel, drop the logical    *)
(* port).  The drain worker and fm10k_macvlan_schedule are in             *)
(* fm10k_pci.c and are modelled from the spec: a scheduled flag admits at *)
(* most one worker, which pops requests in order, forwards each to the    *)
(* mailbox and clears the flag once it finds the list empty.               *)
(*                                                                         *)
(* A request is [id, type, glort]: id is its enqueue order, type is "mac" *)
(* (FM10K_UC/MC_MAC_REQUEST, which the queue treats alike) or "vlan".     *)
(* Addresses, VLAN ids and the set flag do not change how the queue       *)
(* treats a request and are left out.                                     *)
(***************************************************************************)
EXTENDS Naturals, Sequences, FiniteSets

CONSTANTS
    Callers,      \* contexts that queue requests concurrently
    Glorts,       \* logical ports requests target
    PortGlort,    \* interface->glort, the port reset tears down
    NoGlort,      \* glort field of a VLAN request (it has a vsi instead)
    MaxRequests,  \* bound on the number of requests ever queued
    MaxResets     \* bound on fm10k_reset_rx_state calls

ASSUME /\ PortGlort \in Glorts /\ NoGlort \notin Glorts
       /\ MaxRequests \in Nat /\ MaxResets \in Nat

VARIABLES
    queue,       \* interface->macvlan_requests
    item,        \* the request the worker has popped, or <<>>
    sched,       \* __FM10K_MACVLAN_SCHED
    mailbox,     \* history: requests forwarded, with the lport state then
    cancelled,   \* history: <<request, glort passed to the cancel>>
    nextId,      \* id of the next request to be queued
    callerPc,    \* per caller: "idle" or "schedule" (appended, not yet kicked)
    resetPc,     \* fm10k_reset_rx_state: "idle", "cancel" or "teardown"
    resetsLeft,  \* remaining resets (bound)
    lport,       \* logical port state on the switch (update_lport_state)
    cancelMark,  \* requests with id <= cancelMark were queued before the
                 \* last reset cancelled the queue
    lastCancel   \* history: arguments <<glort, vlans>> of the last cancel

vars == <<queue, item, sched, mailbox, cancelled, nextId, callerPc,
          resetPc, resetsLeft, lport, cancelMark, lastCancel>>

Request == [id : 1 .. MaxRequests, type : {"mac", "vlan"},
            glort : Glorts \cup {NoGlort}]
NoItem == <<>>
Ids(s) == [k \in 1 .. Len(s) |-> s[k].id]

-----------------------------------------------------------------------------
(* Queueing a request: kzalloc(GFP_ATOMIC) may fail (-ENOMEM, nothing     *)
(* queued, nothing changes), else list_add_tail under macvlan_lock; the   *)
(* worker is kicked afterwards, outside the lock.                          *)

\* Mutant: list_add instead of list_add_tail.
AppendAtHead(c, req) ==
    /\ queue' = <<req>> \o queue
    /\ nextId' = nextId + 1
    /\ callerPc' = [callerPc EXCEPT ![c] = "schedule"]

\* Mutant: the request is appended but the worker is never kicked.
AppendNoKick(c, req) ==
    /\ queue' = Append(queue, req)
    /\ nextId' = nextId + 1
    /\ UNCHANGED callerPc

AppendRequest(c, req) ==
    /\ queue' = Append(queue, req)
    /\ nextId' = nextId + 1
    /\ callerPc' = [callerPc EXCEPT ![c] = "schedule"]

\* fm10k_queue_mac_request(interface, glort, addr, vid, set)
fm10k_queue_mac_request(c, g) ==
    /\ callerPc[c] = "idle" /\ nextId <= MaxRequests
    /\ AppendRequest(c, [id |-> nextId, type |-> "mac", glort |-> g])
    /\ UNCHANGED <<item, sched, mailbox, cancelled, resetPc, resetsLeft,
                   lport, cancelMark, lastCancel>>

\* fm10k_queue_vlan_request(interface, vid, vsi, set)
fm10k_queue_vlan_request(c) ==
    /\ callerPc[c] = "idle" /\ nextId <= MaxRequests
    /\ AppendRequest(c, [id |-> nextId, type |-> "vlan", glort |-> NoGlort])
    /\ UNCHANGED <<item, sched, mailbox, cancelled, resetPc, resetsLeft,
                   lport, cancelMark, lastCancel>>

\* fm10k_macvlan_schedule (fm10k_pci.c): idempotent kick of the worker.
fm10k_macvlan_schedule(c) ==
    /\ callerPc[c] = "schedule"
    /\ sched' = TRUE
    /\ callerPc' = [callerPc EXCEPT ![c] = "idle"]
    /\ UNCHANGED <<queue, item, mailbox, cancelled, nextId, resetPc,
                   resetsLeft, lport, cancelMark, lastCancel>>

-----------------------------------------------------------------------------
(* The drain worker fm10k_macvlan_task (fm10k_pci.c), from the spec.       *)

\* Mutant: list_first_entry instead of list_first_entry_or_null: on an
\* empty list the worker takes the list head itself for a request.
WorkerPopUnchecked ==
    /\ sched /\ item = NoItem
    /\ item' = IF queue = <<>>
               THEN [id |-> 0, type |-> "list_head", glort |-> NoGlort]
               ELSE Head(queue)
    /\ queue' = IF queue = <<>> THEN queue ELSE Tail(queue)
    /\ UNCHANGED <<sched, mailbox, cancelled, nextId, callerPc, resetPc,
                   resetsLeft, lport, cancelMark, lastCancel>>

\* Pop the first request under macvlan_lock.
WorkerPop ==
    /\ sched /\ item = NoItem /\ queue # <<>>
    /\ item' = Head(queue)
    /\ queue' = Tail(queue)
    /\ UNCHANGED <<sched, mailbox, cancelled, nextId, callerPc, resetPc,
                   resetsLeft, lport, cancelMark, lastCancel>>

\* Forward it under the mailbox lock and free it, whatever the outcome.
WorkerForward ==
    /\ item # NoItem
    /\ mailbox' = Append(mailbox, [req |-> item, lportUp |-> lport])
    /\ item' = NoItem
    /\ UNCHANGED <<queue, sched, cancelled, nextId, callerPc, resetPc,
                   resetsLeft, lport, cancelMark, lastCancel>>

\* The list is empty: the worker ends and the scheduled flag is cleared.
WorkerFinish ==
    /\ sched /\ item = NoItem /\ queue = <<>>
    /\ sched' = FALSE
    /\ UNCHANGED <<queue, item, mailbox, cancelled, nextId, callerPc,
                   resetPc, resetsLeft, lport, cancelMark, lastCancel>>

-----------------------------------------------------------------------------
(* Cancelling.                                                             *)

\* Mutant: the "requests for other interfaces" check is dropped.
DropsAnyMac(r, g, vlans) == vlans

\* The requests fm10k_clear_macvlan_queue frees: a MAC request for another
\* glort breaks out of the switch; one for this glort falls through to the
\* VLAN case, and there, like every VLAN request, it is freed only if vlans.
Dropped(r, g, vlans) ==
    CASE r.type = "mac"  -> r.glort = g /\ vlans
      [] r.type = "vlan" -> vlans

\* fm10k_clear_macvlan_queue, atomically under macvlan_lock.
ClearMacvlanQueue(g, vlans) ==
    /\ lastCancel' = <<g, vlans>>
    /\ queue' = SelectSeq(queue, LAMBDA r : ~Dropped(r, g, vlans))
    /\ cancelled' = cancelled \cup
                    {<<queue[k], g>> : k \in {j \in 1 .. Len(queue) :
                                              Dropped(queue[j], g, vlans)}}

\* A caller cancelling the outstanding requests of a logical port going down.
CancelPort(g, vlans) ==
    /\ ClearMacvlanQueue(g, vlans)
    /\ UNCHANGED <<item, sched, mailbox, nextId, callerPc, resetPc,
                   resetsLeft, lport, cancelMark>>

\* fm10k_reset_rx_state, first statement: poll until the worker is done.
ResetWait ==
    /\ resetPc = "idle" /\ resetsLeft > 0 /\ ~sched
    /\ resetPc' = "cancel"
    /\ resetsLeft' = resetsLeft - 1
    /\ UNCHANGED <<queue, item, sched, mailbox, cancelled, nextId, callerPc,
                   lport, cancelMark, lastCancel>>

\* Cancel pending requests for interface->glort, VLAN requests included.
ResetCancel ==
    /\ resetPc = "cancel"
    /\ ClearMacvlanQueue(PortGlort, TRUE)
    /\ cancelMark' = nextId - 1
    /\ resetPc' = "teardown"
    /\ UNCHANGED <<item, sched, mailbox, nextId, callerPc, resetsLeft, lport>>

\* Under the mailbox lock, drop the logical port range if the host mailbox
\* is ready.  The xcast reset and the address-list unsync that follow
\* touch no queue state.
ResetTeardown ==
    /\ resetPc = "teardown"
    /\ \E ready \in BOOLEAN : lport' = (lport /\ ~ready)
    /\ resetPc' = "idle"
    /\ UNCHANGED <<queue, item, sched, mailbox, cancelled, nextId, callerPc,
                   resetsLeft, cancelMark, lastCancel>>

-----------------------------------------------------------------------------
Init ==
    /\ queue = <<>>
    /\ item = NoItem
    /\ sched = FALSE
    /\ mailbox = <<>>
    /\ cancelled = {}
    /\ nextId = 1
    /\ callerPc = [c \in Callers |-> "idle"]
    /\ resetPc = "idle"
    /\ resetsLeft = MaxResets
    /\ lport = TRUE
    /\ cancelMark = 0
    /\ lastCancel = <<>>

Worker == WorkerPop \/ WorkerForward \/ WorkerFinish

Next ==
    \/ \E c \in Callers :
          \/ \E g \in Glorts : fm10k_queue_mac_request(c, g)
          \/ fm10k_queue_vlan_request(c)
          \/ fm10k_macvlan_schedule(c)
    \/ Worker
    \/ \E g \in Glorts, vlans \in BOOLEAN : CancelPort(g, vlans)
    \/ ResetWait \/ ResetCancel \/ ResetTeardown

\* The workqueue runs a scheduled worker, a caller returns from queueing by
\* kicking it, and a started reset runs to its end.
Fairness ==
    /\ WF_vars(Worker)
    /\ \A c \in Callers : WF_vars(fm10k_macvlan_schedule(c))
    /\ WF_vars(ResetCancel \/ ResetTeardown)

Spec == Init /\ [][Next]_vars /\ Fairness

-----------------------------------------------------------------------------
(* Properties.                                                             *)

TypeOK ==
    /\ queue \in Seq(Request)
    /\ item \in Request \cup {NoItem}
    /\ sched \in BOOLEAN /\ lport \in BOOLEAN
    /\ nextId \in 1 .. MaxRequests + 1
    /\ callerPc \in [Callers -> {"idle", "schedule"}]
    /\ resetPc \in {"idle", "cancel", "teardown"}

CancelledIds == {p[1].id : p \in cancelled}
InFlight == IF item = NoItem THEN <<>> ELSE <<item.id>>

\* Every request ever queued is, in enqueue order, either forwarded,
\* being forwarded or still queued, unless it was cancelled: concurrent
\* callers and the worker never lose, duplicate or reorder a request.
QueueConserved ==
    Ids([k \in 1 .. Len(mailbox) |-> mailbox[k].req]) \o InFlight \o Ids(queue)
        = SelectSeq([i \in 1 .. nextId - 1 |-> i], LAMBDA i : i \notin CancelledIds)

\* A cancel for one logical port never discards a MAC request of another
\* (station glorts survive the interface's reset).
CancelOnlyOwnPort ==
    \A p \in cancelled : p[1].type = "vlan" \/ p[1].glort = p[2]

\* Every queued request is eventually forwarded to the mailbox or cancelled.
RequestSettles ==
    \A i \in 1 .. MaxRequests :
        (i < nextId) ~> (i \in CancelledIds \/
                         \E k \in 1 .. Len(mailbox) : mailbox[k].req.id = i)

\* spec 4.3 / 8: cancel(port, vlans = FALSE) removes every queued MAC
\* request of that port and leaves the VLAN requests.
CancelRemovesPortMacs ==
    [][\A g \in Glorts :
         CancelPort(g, FALSE) =>
             \A k \in 1 .. Len(queue') : queue'[k].type = "mac" => queue'[k].glort # g
      ]_vars

\* spec 4.4: because reset waits for the worker before cancelling, no
\* request queued before the cancel reaches the mailbox after the logical
\* port was dropped.
NoStaleForwardAfterTeardown ==
    \A k \in 1 .. Len(mailbox) :
        ~mailbox[k].lportUp => mailbox[k].req.id > cancelMark

=============================================================================

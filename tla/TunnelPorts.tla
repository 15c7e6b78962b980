---------------------------- MODULE TunnelPorts ----------------------------
(***************************************************************************)
(* The UDP tunnel port lists of fm10k_netdev.c: interface->vxlan_port and  *)
(* interface->geneve_port, kept in "newest at the tail" order by           *)
(* fm10k_insert_tunnel_port, with the head of each list offloaded to the   *)
(* switch's TUNNEL_CFG registers by fm10k_restore_udp_port_info, and       *)
(* emptied by fm10k_free_udp_port_info when the interface closes.          *)
(*                                                                         *)
(* The network stack is the environment: it opens and closes tunnel        *)
(* sockets (stack) and calls ndo_udp_tunnel_add/del for every netdev,      *)
(* whether it is up or not (on older kernels through the per-type         *)
(* ndo_add/del_vxlan_port and _geneve_port), and replays every open port   *)
(* when the interface comes up (udp_tunnel_get_rx_info, or                 *)
(* vxlan_get_rx_port and geneve_get_rx_port, in fm10k_open).  All of       *)
(* these run under the RTNL lock, so each is one atomic step.              *)
(***************************************************************************)
EXTENDS Naturals, Sequences, SequencesExt, Functions

CONSTANTS
    UdpPorts,       \* UDP port numbers, as model values
    Families,       \* address families of the tunnel socket
    NoPort,         \* the register value 0: nothing offloaded
    LegacyTunnelOps \* the kernel calls ndo_add/del_vxlan_port and
                    \* ndo_add/del_geneve_port (no HAVE_UDP_ENC_RX_OFFLOAD)

ASSUME NoPort \notin UdpPorts /\ LegacyTunnelOps \in BOOLEAN

VARIABLES
    list,           \* list[t]: the driver's port list of tunnel type t
    reg,            \* reg[t]: port programmed in the tunnel register of t
    stack,          \* stack[t]: ports the network stack has open for t
    running         \* the netdev is open

vars == <<list, reg, stack, running>>

TunnelTypes == {"vxlan", "geneve"}

\* struct udp_tunnel_info / struct fm10k_udp_port, reduced to the key.
Entry == [port : UdpPorts, fam : Families]

Matches(e, ti) == e.port = ti.port /\ e.fam = ti.fam

-----------------------------------------------------------------------------
(* List helpers: each is a function of the whole list state.               *)

\* Mutant: the lookup ignores the address family.
RemoveMatchPortOnly(ports, ti) ==
    LET i == SelectInSeq(ports, LAMBDA e : e.port = ti.port)
    IN  IF i = 0 THEN ports ELSE RemoveAt(ports, i)

\* fm10k_remove_tunnel_port: unlink the first entry for ti, if any.
fm10k_remove_tunnel_port(ports, ti) ==
    LET i == SelectInSeq(ports, LAMBDA e : Matches(e, ti))
    IN  IF i = 0 THEN ports ELSE RemoveAt(ports, i)

Found(ports, ti) == \E i \in 1..Len(ports) : Matches(ports[i], ti)

\* Mutant: a fresh entry is appended without unlinking an existing one.
InsertNoRemove(ports, ti, allocOk) ==
    IF allocOk THEN Append(ports, ti) ELSE ports

\* fm10k_insert_tunnel_port: move an existing entry to the tail, or append
\* a new one; a failed GFP_ATOMIC allocation drops the port silently.
fm10k_insert_tunnel_port(ports, ti, allocOk) ==
    IF Found(ports, ti)
    THEN Append(fm10k_remove_tunnel_port(ports, ti), ti)
    ELSE IF allocOk THEN Append(ports, ti) ELSE ports

\* fm10k_restore_udp_port_info: each register gets the head of its list.
fm10k_restore_udp_port_info(l) ==
    [t \in TunnelTypes |-> IF l[t] = <<>> THEN NoPort ELSE Head(l[t]).port]

\* One flush loop of fm10k_free_udp_port_info: the first entry is taken
\* from list first, every further one from list next.
RECURSIVE Flush(_, _, _)
Flush(l, first, next) ==
    IF l[first] = <<>> THEN l
    ELSE Flush([l EXCEPT ![first] = Tail(@)], next, next)

fm10k_free_udp_port_info(l) ==
    Flush(Flush(l, "vxlan", "vxlan"), "geneve", "vxlan")

-----------------------------------------------------------------------------
(* The ndo callbacks, each followed by the register restore it ends with.  *)

UdpTunnelAdd(t, ti, allocOk) ==
    LET l == [list EXCEPT ![t] = fm10k_insert_tunnel_port(@, ti, allocOk)]
    IN  /\ list' = l
        /\ reg' = fm10k_restore_udp_port_info(l)

\* Mutant: the deleted port stays programmed in the register.
UdpTunnelDelNoRestore(t, ti) ==
    /\ list' = [list EXCEPT ![t] = fm10k_remove_tunnel_port(@, ti)]
    /\ UNCHANGED reg

UdpTunnelDel(t, ti) ==
    LET l == [list EXCEPT ![t] = fm10k_remove_tunnel_port(@, ti)]
    IN  /\ list' = l
        /\ reg' = fm10k_restore_udp_port_info(l)

\* The per-type callbacks of the legacy build: each fills in a
\* udp_tunnel_info of its type and calls the generic callback.
fm10k_add_vxlan_port(fam, port, ok)  == UdpTunnelAdd("vxlan", [port |-> port, fam |-> fam], ok)
fm10k_del_vxlan_port(fam, port)      == UdpTunnelDel("vxlan", [port |-> port, fam |-> fam])
fm10k_add_geneve_port(fam, port, ok) == UdpTunnelAdd("geneve", [port |-> port, fam |-> fam], ok)
fm10k_del_geneve_port(fam, port)     == UdpTunnelDel("geneve", [port |-> port, fam |-> fam])

\* The ndo callback the stack calls for a port of tunnel type t.
NdoTunnelAdd(t, ti, ok) ==
    CASE ~LegacyTunnelOps -> UdpTunnelAdd(t, ti, ok)
      [] t = "vxlan"      -> fm10k_add_vxlan_port(ti.fam, ti.port, ok)
      [] OTHER            -> fm10k_add_geneve_port(ti.fam, ti.port, ok)

NdoTunnelDel(t, ti) ==
    CASE ~LegacyTunnelOps -> UdpTunnelDel(t, ti)
      [] t = "vxlan"      -> fm10k_del_vxlan_port(ti.fam, ti.port)
      [] OTHER            -> fm10k_del_geneve_port(ti.fam, ti.port)

\* The stack opens a tunnel socket and notifies the driver.
StackAdd(t, ti) ==
    /\ ti \notin stack[t]
    /\ stack' = [stack EXCEPT ![t] = @ \cup {ti}]
    /\ \E ok \in BOOLEAN : NdoTunnelAdd(t, ti, ok)
    /\ UNCHANGED running

\* The stack closes a tunnel socket and notifies the driver.
StackDel(t, ti) ==
    /\ ti \in stack[t]
    /\ stack' = [stack EXCEPT ![t] = @ \ {ti}]
    /\ NdoTunnelDel(t, ti)
    /\ UNCHANGED running

\* fm10k_open: udp_tunnel_get_rx_info (or, with the legacy ops,
\* vxlan_get_rx_port and geneve_get_rx_port) replays every open port, in
\* the stack's order, through the add callback; fm10k_up then ends in
\* fm10k_restore_rx_state, which restores the registers again.  An open
\* that fails does so before the replay and leaves the lists alone, so
\* its error paths are not steps of this module.
OpenPorts == UNION {{<<t, ti>> : ti \in stack[t]} : t \in TunnelTypes}

Replay(l, step) ==
    [l EXCEPT ![step[1]] = fm10k_insert_tunnel_port(@, step[2], step[3])]

Open ==
    /\ ~running
    /\ \E order \in SetToSeqs(OpenPorts) :
       \E ok \in [DOMAIN order -> BOOLEAN] :
          LET steps == [i \in DOMAIN order |-> <<order[i][1], order[i][2], ok[i]>>]
              l == FoldLeft(Replay, list, steps)
          IN  /\ list' = l
              /\ reg' = fm10k_restore_udp_port_info(l)
    /\ running' = TRUE
    /\ UNCHANGED stack

\* fm10k_close: the port lists are flushed; the registers are left as is.
\* The early return of a close under a ZC user is modelled in
\* RingResources; this module has no ZC user.
Close ==
    /\ running
    /\ list' = fm10k_free_udp_port_info(list)
    /\ running' = FALSE
    /\ UNCHANGED <<reg, stack>>

Init ==
    /\ list = [t \in TunnelTypes |-> <<>>]
    /\ reg = [t \in TunnelTypes |-> NoPort]
    /\ stack = [t \in TunnelTypes |-> {}]
    /\ running = FALSE

Next ==
    \/ Open
    \/ Close
    \/ \E t \in TunnelTypes, ti \in Entry : StackAdd(t, ti) \/ StackDel(t, ti)

Spec == Init /\ [][Next]_vars

-----------------------------------------------------------------------------
\* fm10k_insert_tunnel_port unlinks an existing entry before it appends,
\* so across adds, replays on open and stale entries left by close, no
\* port is ever listed twice.
NoDuplicateEntry == \A t \in TunnelTypes : IsInjective(list[t])

\* Every entry the driver keeps is a socket the stack still has open: a
\* delete for (port, family) removes exactly that entry, whatever add,
\* close and replay steps came before.
NoStaleEntry == \A t \in TunnelTypes : ToSet(list[t]) \subseteq stack[t]

\* While the interface is up, the tunnel register never offloads a port
\* whose sockets the stack has all closed: every add and delete ends with
\* fm10k_restore_udp_port_info.
OffloadedPortLive ==
    running => \A t \in TunnelTypes :
                  reg[t] = NoPort \/ \E e \in stack[t] : e.port = reg[t]

\* fm10k_close frees both port lists (fm10k_free_udp_port_info's contract).
CloseFreesPorts ==
    [][running /\ ~running' => \A t \in TunnelTypes : list'[t] = <<>>]_vars
=============================================================================

------------------------------- MODULE Tunnel -------------------------------
(***************************************************************************)
(* The bridge's pumps (portman-netbridge/src/runtime.rs) around one          *)
(* WireGuard peer (tunnel.rs): datagrams in, packets out, the timers, and     *)
(* where outbound frames go.  The network loses, repeats and reorders; the   *)
(* setup container's address may change; other hosts reach the socket.       *)
(* boringtun and the container are modelled by what the pumps rely on: a     *)
(* handshake's first message counts once, as does a packet of a session, and  *)
(* nothing under other keys is accepted.                                     *)
(***************************************************************************)
EXTENDS Naturals, FiniteSets

CONSTANTS
    VmAddrs,  \* addresses the setup container may send from
    Others,   \* addresses of other hosts
    NoEnd,    \* no endpoint recorded
    MaxStarts, MaxShakes, MaxPackets, MaxOnWire \* bounds
ASSUME TunnelAssumption == "host" \notin VmAddrs \cup Others /\ MaxPackets \in Nat

VARIABLES
    starts,   \* starts of the runtime, each with keys of its own
    shakes,   \* handshakes begun
    tunn,     \* Peer: session, handshake begun here, newest one of the peer's, packets received
    endpoint, \* vm_endpoint
    vm,       \* the container: its address, session, packets sent
    wire,     \* datagrams on their way
    sentFrom, \* addresses this start's container has sent from
    written   \* how often each packet was written to the utun device
tunnelVars == <<starts, shakes, tunn, endpoint, vm, wire, sentFrom, written>>

Fresh == [session |-> 0, shaking |-> 0, newest |-> 0, received |-> {}]
FreshVm(addr) == [addr |-> addr, session |-> 0, shaking |-> 0]
Frame(kind, from, to, id, packet) ==
    [kind |-> kind, from |-> from, to |-> to, keys |-> starts, id |-> id, packet |-> packet]
\* What does not fit on the wire is lost.
Puts(frames) == wire' \in {wire, wire \cup frames} /\ Cardinality(wire') <= MaxOnWire
Sends(kind, to, id) == IF to = NoEnd THEN {} ELSE {Frame(kind, "host", to, id, 0)}

TunnelInit ==
    /\ starts = 1 /\ shakes = 0 /\ tunn = Fresh /\ endpoint = NoEnd
    /\ \E a \in VmAddrs : vm = FreshVm(a)
    /\ wire = {} /\ sentFrom = {} /\ written = [p \in 1..MaxPackets |-> 0]
\* Shutdown, and a start with new keys and a new container.
RestartTunnel ==
    /\ starts < MaxStarts /\ starts' = starts + 1
    /\ tunn' = Fresh /\ endpoint' = NoEnd /\ sentFrom' = {}
    /\ \E a \in VmAddrs : vm' = FreshVm(a)
    /\ UNCHANGED <<shakes, wire, written>>

-----------------------------------------------------------------------------
(* The container and the network.                                          *)
FromVm(kind, id, packet) ==
    /\ Puts({Frame(kind, vm.addr, "host", id, packet)})
    /\ sentFrom' = sentFrom \cup {vm.addr}
VmShakes ==
    /\ shakes < MaxShakes /\ shakes' = shakes + 1
    /\ vm' = [vm EXCEPT !.shaking = shakes + 1]
    /\ FromVm("init", shakes + 1, 0) /\ UNCHANGED <<starts, tunn, endpoint, written>>
Unused(p) == written[p] = 0 /\ \A d \in wire : d.packet # p
VmSends ==
    /\ vm.session # 0
    /\ \E p \in {0} \cup {q \in 1..MaxPackets : Unused(q)} : FromVm("data", vm.session, p)
    /\ UNCHANGED <<starts, shakes, tunn, endpoint, vm, written>>
VmMoves ==
    /\ \E a \in VmAddrs : vm' = [vm EXCEPT !.addr = a]
    /\ UNCHANGED <<starts, shakes, tunn, endpoint, wire, sentFrom, written>>
VmReceives(d) ==
    /\ d.to = vm.addr /\ d.keys = starts /\ d.from = "host"
    /\ \/ /\ d.kind = "init" /\ d.id > vm.session
          /\ vm' = [vm EXCEPT !.session = d.id] /\ FromVm("resp", d.id, 0)
       \/ /\ d.kind = "resp" /\ d.id = vm.shaking
          /\ vm' = [vm EXCEPT !.session = d.id, !.shaking = 0] /\ FromVm("data", d.id, 0)
    /\ UNCHANGED <<starts, shakes, tunn, endpoint, written>>
Noise ==
    /\ \E o \in Others : Puts({Frame("junk", o, "host", 0, 0)})
    /\ UNCHANGED <<starts, shakes, tunn, endpoint, vm, sentFrom, written>>
Loses(d) == wire' = wire \ {d}
            /\ UNCHANGED <<starts, shakes, tunn, endpoint, vm, sentFrom, written>>

-----------------------------------------------------------------------------
(* The pumps.                                                              *)
\* Peer::decapsulate does not answer with an error.
Accepts(d) ==
    /\ d.keys = starts
    /\ \/ d.kind = "init" /\ d.id > tunn.newest
       \/ d.kind = "resp" /\ d.id = tunn.shaking
       \/ d.kind = "data" /\ d.id = tunn.session /\ (d.packet = 0 \/ d.packet \notin tunn.received)
Decapsulated(d) ==
    CASE d.kind = "init" -> [tunn EXCEPT !.newest = d.id, !.session = d.id]
      [] d.kind = "resp" -> [tunn EXCEPT !.session = d.id, !.shaking = 0]
      [] OTHER -> [tunn EXCEPT !.received = @ \cup ({d.packet} \ {0})]
\* A reply of the handshake goes to where the datagram came from.
Replies(d) ==
    CASE d.kind = "init" -> Sends("resp", d.from, d.id)
      [] d.kind = "resp" -> Sends("data", d.from, d.id)
      [] OTHER -> {}
\* The endpoint follows what authenticated.  Mutant: whatever arrived.
FollowsAnyone(d) == d.from
Follows(d) == IF Accepts(d) THEN d.from ELSE endpoint
\* spawn_rx, for one datagram, which the network may repeat.
Receives(d) ==
    /\ d.to = "host"
    /\ endpoint' = Follows(d)
    /\ IF Accepts(d)
       THEN /\ tunn' = Decapsulated(d) /\ Puts(Replies(d))
            /\ written' = IF d.packet = 0 THEN written ELSE [written EXCEPT ![d.packet] = @ + 1]
       ELSE UNCHANGED <<tunn, wire, written>>
    /\ UNCHANGED <<starts, shakes, vm, sentFrom>>
\* Peer::encapsulate and update_timers begin a handshake where they have no
\* session; the frame is dropped while no endpoint is known.
BeginShake ==
    /\ shakes < MaxShakes /\ shakes' = shakes + 1
    /\ tunn' = [tunn EXCEPT !.shaking = shakes + 1]
    /\ Puts(Sends("init", endpoint, shakes + 1))
\* spawn_tx, for one packet of the utun device.
Transmits ==
    /\ IF tunn.session # 0 THEN Puts(Sends("data", endpoint, tunn.session)) /\ UNCHANGED <<shakes, tunn>>
       ELSE tunn.shaking = 0 /\ BeginShake
    /\ UNCHANGED <<starts, endpoint, vm, sentFrom, written>>
\* spawn_timer: a new handshake, a keepalive, or the session expires.
Ticks ==
    /\ \/ BeginShake
       \/ tunn.session # 0 /\ Puts(Sends("data", endpoint, tunn.session)) /\ UNCHANGED <<shakes, tunn>>
       \/ tunn' = [tunn EXCEPT !.session = 0, !.shaking = 0] /\ UNCHANGED <<shakes, wire>>
    /\ UNCHANGED <<starts, endpoint, vm, sentFrom, written>>

TunnelNext ==
    \/ RestartTunnel \/ VmShakes \/ VmSends \/ VmMoves \/ Noise \/ Transmits \/ Ticks
    \/ \E d \in wire : VmReceives(d) \/ Loses(d) \/ Receives(d)
TunnelSpec == TunnelInit /\ [][TunnelNext]_tunnelVars

-----------------------------------------------------------------------------
\* Other hosts, and what is left on the wire from before a restart, can repeat
\* or make up datagrams as they like (runtime.rs:291-296): every frame of this
\* start goes to an address its own container has sent from, and every packet
\* reaches the device at most once.
FramesGoHome ==
    /\ endpoint # NoEnd => endpoint \in sentFrom
    /\ \A d \in wire : d.from = "host" /\ d.keys = starts => d.to \in sentFrom
    /\ \A p \in 1..MaxPackets : written[p] <= 1
=============================================================================

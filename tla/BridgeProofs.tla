----------------------------- MODULE BridgeProofs ------------------------------
(***************************************************************************)
(* Proofs about Tunnel: the pumps answer only the container, and deliver a  *)
(* packet once, for any addresses, restarts, and any network that loses,     *)
(* repeats, reorders and makes up datagrams.  And about Netbridge: what the  *)
(* bridge publishes is what there is, and a live VPN keeps its routes, for   *)
(* any devices, networks and number of attempts.                            *)
(***************************************************************************)
EXTENDS Tunnel, Netbridge, TLAPS

Ends == VmAddrs \cup Others \cup {"host"}
Datagrams == [kind : {"init", "resp", "data", "junk"}, from : Ends, to : Ends,
              keys : Nat, id : Nat, packet : 0..MaxPackets]
TunnelTypes ==
    /\ starts \in Nat /\ shakes \in Nat
    /\ tunn \in [session : Nat, shaking : Nat, newest : Nat, received : SUBSET (1..MaxPackets)]
    /\ vm \in [addr : VmAddrs, session : Nat, shaking : Nat]
    /\ wire \in SUBSET Datagrams
    /\ sentFrom \in SUBSET VmAddrs
    /\ written \in [1..MaxPackets -> Nat]

Current(d) == d.keys = starts
\* What this start's keys protect comes from the container's own addresses.
Genuine(d) == d.to = "host" /\ d.kind # "junk" => d.from \in sentFrom
Homeward(d) == d.from = "host" => d.to \in sentFrom
\* What was written to the device is not on its way, or is known as received.
Delivered(p) ==
    /\ written[p] <= 1
    /\ written[p] = 1 => p \in tunn.received \/ \A d \in wire : Current(d) => d.packet # p
WireInv ==
    /\ TunnelTypes
    /\ endpoint # NoEnd => endpoint \in sentFrom
    /\ \A d \in wire : /\ d.keys <= starts
                       /\ Current(d) => Genuine(d) /\ Homeward(d)
                       /\ d.kind # "data" => d.packet = 0
    /\ \A p \in 1..MaxPackets : Delivered(p)

-----------------------------------------------------------------------------
\* A start of the runtime: nothing on the wire is under its keys.
LEMMA FreshTypes ==
  /\ Fresh \in [session : Nat, shaking : Nat, newest : Nat, received : SUBSET (1..MaxPackets)]
  /\ \A a \in VmAddrs : FreshVm(a) \in [addr : VmAddrs, session : Nat, shaking : Nat]
  BY DEF Fresh, FreshVm

LEMMA InitHome == TunnelInit => WireInv
<1> SUFFICES ASSUME TunnelInit PROVE WireInv
  OBVIOUS
<1>1. TunnelTypes
  BY FreshTypes, TunnelAssumption DEF TunnelInit, TunnelTypes
<1>2. wire = {} /\ endpoint = NoEnd /\ \A p \in 1..MaxPackets : written[p] = 0
  BY DEF TunnelInit
<1> QED BY <1>1, <1>2 DEF WireInv, Delivered

LEMMA RestartHome ==
  ASSUME WireInv, RestartTunnel
  PROVE  WireInv'
<1>1. starts \in Nat /\ starts' = starts + 1 /\ UNCHANGED <<shakes, wire, written>> /\ endpoint' = NoEnd
  BY DEF RestartTunnel, WireInv, TunnelTypes
<1>2. TunnelTypes'
  BY <1>1, FreshTypes DEF RestartTunnel, WireInv, TunnelTypes
<1>3. ASSUME NEW d \in wire PROVE d.keys <= starts' /\ d.keys # starts' /\ (d.kind # "data" => d.packet = 0)
  BY <1>1 DEF WireInv, TunnelTypes, Datagrams
<1>4. ASSUME NEW p \in 1..MaxPackets PROVE written'[p] <= 1
  BY <1>1 DEF WireInv, Delivered
<1> QED BY <1>1, <1>2, <1>3, <1>4 DEF WireInv, Current, Delivered

-----------------------------------------------------------------------------
\* A step within one start that puts frames on the wire: each is under this
\* start's keys, from the container, from anybody and unreadable, or home.
Proper(d, addrs) ==
    /\ d \in Datagrams /\ d.keys = starts /\ (d.kind # "data" => d.packet = 0)
    /\ d.to = "host" /\ d.kind # "junk" => d.from \in addrs
    /\ d.from = "host" => d.to \in addrs
LEMMA PutsHome ==
  ASSUME WireInv, NEW frames, Puts(frames), UNCHANGED <<starts, written>>,
         sentFrom \subseteq sentFrom', sentFrom' \in SUBSET VmAddrs, tunn.received \subseteq tunn'.received,
         shakes' \in Nat, endpoint' # NoEnd => endpoint' \in sentFrom',
         tunn' \in [session : Nat, shaking : Nat, newest : Nat, received : SUBSET (1..MaxPackets)],
         vm' \in [addr : VmAddrs, session : Nat, shaking : Nat],
         \A d \in frames : Proper(d, sentFrom') /\ (d.packet # 0 => written[d.packet] = 0)
  PROVE  WireInv'
<1>1. wire' \subseteq wire \cup frames
  BY DEF Puts
<1>2. TunnelTypes'
  BY <1>1 DEF WireInv, TunnelTypes, Proper
<1>3. ASSUME NEW d \in wire'
      PROVE  /\ d.keys <= starts' /\ (Current(d) => Genuine(d) /\ Homeward(d))'
             /\ d.kind # "data" => d.packet = 0
  <2>1. CASE d \in frames
    BY <2>1 DEF WireInv, TunnelTypes, Proper, Current, Genuine, Homeward
  <2>2. CASE d \in wire
    BY <2>2 DEF WireInv, Current, Genuine, Homeward
  <2> QED BY <1>1, <2>1, <2>2
<1>4. ASSUME NEW p \in 1..MaxPackets PROVE Delivered(p)'
  <2>1. ASSUME written[p] = 1, NEW d \in wire', d.keys = starts, d.packet = p PROVE p \in tunn'.received
    <3>1. d \notin frames
      BY <2>1
    <3>2. d \in wire
      BY <1>1, <2>1, <3>1
    <3> QED BY <2>1, <3>2 DEF WireInv, Delivered, Current
  <2> QED BY <2>1 DEF WireInv, Delivered, Current
<1> QED BY <1>2, <1>3, <1>4 DEF WireInv

-----------------------------------------------------------------------------
(* The container and the network.                                          *)
\* A frame of the container makes its address one it has sent from.
LEMMA FromVmHome ==
  ASSUME WireInv, NEW kind \in {"init", "resp", "data"}, NEW id \in Nat, NEW packet \in 0..MaxPackets,
         FromVm(kind, id, packet), UNCHANGED <<starts, tunn, endpoint, written>>, shakes' \in Nat,
         kind # "data" => packet = 0, packet # 0 => written[packet] = 0,
         vm' \in [addr : VmAddrs, session : Nat, shaking : Nat]
  PROVE  WireInv'
<1> DEFINE d == Frame(kind, vm.addr, "host", id, packet)
<1>1. Puts({d}) /\ sentFrom' = sentFrom \cup {vm.addr}
  BY DEF FromVm
<1>2. vm.addr \in VmAddrs /\ starts \in Nat /\ sentFrom \in SUBSET VmAddrs
  BY DEF WireInv, TunnelTypes
<1>3. Proper(d, sentFrom')
  BY <1>1, <1>2, TunnelAssumption DEF Proper, Datagrams, Ends, Frame
<1>4. d.packet = packet
  BY DEF Frame
<1>5. /\ tunn.received \subseteq tunn'.received
      /\ tunn' \in [session : Nat, shaking : Nat, newest : Nat, received : SUBSET (1..MaxPackets)]
      /\ endpoint' # NoEnd => endpoint' \in sentFrom'
  BY <1>1 DEF WireInv, TunnelTypes
<1> HIDE DEF d
<1> QED BY <1>1, <1>2, <1>3, <1>4, <1>5, PutsHome

LEMMA VmShakesHome == WireInv /\ VmShakes => WireInv'
<1> SUFFICES ASSUME WireInv, VmShakes PROVE WireInv'
  OBVIOUS
<1>1. FromVm("init", shakes + 1, 0) /\ UNCHANGED <<starts, tunn, endpoint, written>>
  BY DEF VmShakes
<1>2. shakes + 1 \in Nat /\ shakes' \in Nat /\ 0 \in 0..MaxPackets
  BY TunnelAssumption DEF VmShakes, WireInv, TunnelTypes
<1>3. vm' \in [addr : VmAddrs, session : Nat, shaking : Nat]
  BY <1>2 DEF VmShakes, WireInv, TunnelTypes
<1> QED BY <1>1, <1>2, <1>3, FromVmHome

LEMMA VmSendsHome == WireInv /\ VmSends => WireInv'
<1> SUFFICES ASSUME WireInv, VmSends PROVE WireInv'
  OBVIOUS
<1>1. PICK p \in {0} \cup {q \in 1..MaxPackets : Unused(q)} : FromVm("data", vm.session, p)
  BY DEF VmSends
<1>2. p \in 0..MaxPackets /\ (p # 0 => written[p] = 0)
  BY TunnelAssumption DEF Unused
<1>3. /\ UNCHANGED <<starts, tunn, endpoint, written>>
      /\ shakes' \in Nat /\ vm.session \in Nat
      /\ vm' \in [addr : VmAddrs, session : Nat, shaking : Nat]
  BY DEF VmSends, WireInv, TunnelTypes
<1> QED BY <1>1, <1>2, <1>3, FromVmHome

LEMMA VmReceivesHome == ASSUME WireInv, NEW d \in wire, VmReceives(d) PROVE WireInv'
<1>1. /\ d.id \in Nat /\ 0 \in 0..MaxPackets
      /\ UNCHANGED <<starts, shakes, tunn, endpoint, written>> /\ shakes' \in Nat
  BY TunnelAssumption DEF VmReceives, WireInv, TunnelTypes, Datagrams
<1>2. CASE vm' = [vm EXCEPT !.session = d.id] /\ FromVm("resp", d.id, 0)
  <2>1. vm' \in [addr : VmAddrs, session : Nat, shaking : Nat]
    BY <1>1, <1>2 DEF WireInv, TunnelTypes
  <2> QED BY <1>1, <1>2, <2>1, FromVmHome
<1>3. CASE vm' = [vm EXCEPT !.session = d.id, !.shaking = 0] /\ FromVm("data", d.id, 0)
  <2>1. vm' \in [addr : VmAddrs, session : Nat, shaking : Nat]
    BY <1>1, <1>3 DEF WireInv, TunnelTypes
  <2> QED BY <1>1, <1>3, <2>1, FromVmHome
<1> QED BY <1>2, <1>3 DEF VmReceives

LEMMA VmMovesHome == WireInv /\ VmMoves => WireInv'
<1> SUFFICES ASSUME WireInv, VmMoves PROVE WireInv'
  OBVIOUS
<1>1. UNCHANGED <<starts, shakes, tunn, endpoint, wire, sentFrom, written>>
  BY DEF VmMoves
<1>2. vm' \in [addr : VmAddrs, session : Nat, shaking : Nat]
  BY DEF VmMoves, WireInv, TunnelTypes
<1> QED BY <1>1, <1>2 DEF WireInv, TunnelTypes, Current, Genuine, Homeward, Delivered

LEMMA LosesHome == ASSUME WireInv, NEW d \in wire, Loses(d) PROVE WireInv'
<1>1. wire' \subseteq wire /\ UNCHANGED <<starts, shakes, tunn, endpoint, vm, sentFrom, written>>
  BY DEF Loses
<1> QED BY <1>1 DEF WireInv, TunnelTypes, Current, Genuine, Homeward, Delivered

LEMMA NoiseHome == WireInv /\ Noise => WireInv'
<1> SUFFICES ASSUME WireInv, Noise PROVE WireInv'
  OBVIOUS
<1>1. PICK o \in Others : Puts({Frame("junk", o, "host", 0, 0)})
  BY DEF Noise
<1> DEFINE d == Frame("junk", o, "host", 0, 0)
<1>2. Proper(d, sentFrom') /\ d.packet = 0
  BY TunnelAssumption DEF Noise, WireInv, TunnelTypes, Proper, Datagrams, Ends, Frame
<1>3. /\ UNCHANGED <<starts, written>> /\ sentFrom' = sentFrom /\ sentFrom' \in SUBSET VmAddrs
      /\ tunn.received \subseteq tunn'.received /\ shakes' \in Nat
      /\ endpoint' # NoEnd => endpoint' \in sentFrom'
      /\ tunn' \in [session : Nat, shaking : Nat, newest : Nat, received : SUBSET (1..MaxPackets)]
      /\ vm' \in [addr : VmAddrs, session : Nat, shaking : Nat]
  BY DEF Noise, WireInv, TunnelTypes
<1> HIDE DEF d
<1>4. Puts({d})
  BY <1>1 DEF d
<1> QED BY <1>2, <1>3, <1>4, PutsHome

-----------------------------------------------------------------------------
(* The pumps.                                                              *)
\* What they send goes to an address of the container.
LEMMA SendsProper ==
  ASSUME WireInv, NEW kind \in {"init", "resp", "data"}, NEW to, NEW id \in Nat,
         sentFrom' = sentFrom, to # NoEnd => to \in sentFrom
  PROVE  \A d \in Sends(kind, to, id) : Proper(d, sentFrom') /\ d.packet = 0
<1>1. CASE to = NoEnd
  BY <1>1 DEF Sends
<1>2. CASE to # NoEnd
  <2> DEFINE d == Frame(kind, "host", to, id, 0)
  <2>1. to \in sentFrom /\ to \in VmAddrs /\ starts \in Nat /\ to # "host"
    BY <1>2, TunnelAssumption DEF WireInv, TunnelTypes
  <2>2. Proper(d, sentFrom') /\ d.packet = 0
    BY <2>1, TunnelAssumption DEF Proper, Datagrams, Ends, Frame
  <2> HIDE DEF d
  <2>3. Sends(kind, to, id) = {d}
    BY <1>2 DEF Sends, d
  <2> QED BY <2>2, <2>3
<1> QED BY <1>1, <1>2

\* A step of a pump that leaves the container and the device alone.
LEMMA PumpHome ==
  ASSUME WireInv, NEW kind \in {"init", "data"}, NEW id \in Nat, Puts(Sends(kind, endpoint, id)),
         UNCHANGED <<starts, endpoint, vm, sentFrom, written>>, shakes' \in Nat,
         tunn' \in [session : Nat, shaking : Nat, newest : Nat, received : SUBSET (1..MaxPackets)],
         tunn'.received = tunn.received
  PROVE  WireInv'
<1> DEFINE frames == Sends(kind, endpoint, id)
<1>1. \A d \in frames : Proper(d, sentFrom') /\ d.packet = 0
  BY SendsProper DEF WireInv
<1>2. /\ sentFrom' \in SUBSET VmAddrs /\ (endpoint' # NoEnd => endpoint' \in sentFrom')
      /\ vm' \in [addr : VmAddrs, session : Nat, shaking : Nat]
  BY DEF WireInv, TunnelTypes
<1> HIDE DEF frames
<1>3. Puts(frames)
  BY DEF frames
<1> QED BY <1>1, <1>2, <1>3, PutsHome

LEMMA BeginShakeHome ==
  ASSUME WireInv, BeginShake, UNCHANGED <<starts, endpoint, vm, sentFrom, written>>
  PROVE  WireInv'
<1>1. shakes + 1 \in Nat /\ shakes' \in Nat /\ Puts(Sends("init", endpoint, shakes + 1))
  BY DEF BeginShake, WireInv, TunnelTypes
<1>2. /\ tunn' \in [session : Nat, shaking : Nat, newest : Nat, received : SUBSET (1..MaxPackets)]
      /\ tunn'.received = tunn.received
  BY <1>1 DEF BeginShake, WireInv, TunnelTypes
<1> QED BY <1>1, <1>2, PumpHome

LEMMA KeepaliveHome ==
  ASSUME WireInv, Puts(Sends("data", endpoint, tunn.session)), UNCHANGED <<shakes, tunn>>,
         UNCHANGED <<starts, endpoint, vm, sentFrom, written>>
  PROVE  WireInv'
<1>1. /\ tunn.session \in Nat /\ shakes' \in Nat /\ tunn'.received = tunn.received
      /\ tunn' \in [session : Nat, shaking : Nat, newest : Nat, received : SUBSET (1..MaxPackets)]
  BY DEF WireInv, TunnelTypes
<1> QED BY <1>1, PumpHome

LEMMA TransmitsHome == WireInv /\ Transmits => WireInv'
<1> SUFFICES ASSUME WireInv, Transmits PROVE WireInv'
  OBVIOUS
<1>1. UNCHANGED <<starts, endpoint, vm, sentFrom, written>>
  BY DEF Transmits
<1>2. CASE tunn.session # 0
  BY <1>1, <1>2, KeepaliveHome DEF Transmits
<1>3. CASE tunn.session = 0
  BY <1>1, <1>3, BeginShakeHome DEF Transmits
<1> QED BY <1>2, <1>3

LEMMA TicksHome == WireInv /\ Ticks => WireInv'
<1> SUFFICES ASSUME WireInv, Ticks PROVE WireInv'
  OBVIOUS
<1>1. UNCHANGED <<starts, endpoint, vm, sentFrom, written>>
  BY DEF Ticks
<1>2. CASE BeginShake
  BY <1>1, <1>2, BeginShakeHome
<1>3. CASE Puts(Sends("data", endpoint, tunn.session)) /\ UNCHANGED <<shakes, tunn>>
  BY <1>1, <1>3, KeepaliveHome
<1>4. CASE tunn' = [tunn EXCEPT !.session = 0, !.shaking = 0] /\ UNCHANGED <<shakes, wire>>
  <2>1. /\ tunn' \in [session : Nat, shaking : Nat, newest : Nat, received : SUBSET (1..MaxPackets)]
        /\ tunn'.received = tunn.received
    BY <1>4 DEF WireInv, TunnelTypes
  <2> QED BY <1>1, <1>4, <2>1 DEF WireInv, TunnelTypes, Current, Genuine, Homeward, Delivered
<1> QED BY <1>2, <1>3, <1>4 DEF Ticks

-----------------------------------------------------------------------------
\* spawn_rx: only what this start's keys opened moves the endpoint, is
\* answered, or is delivered; and a packet opened once is not opened again.
LEMMA AcceptedHome ==
  ASSUME WireInv, NEW d \in wire, d.to = "host", Accepts(d)
  PROVE  d.from \in sentFrom /\ d.keys = starts
<1>1. d.kind # "junk" /\ d.keys = starts
  BY DEF Accepts
<1> QED BY <1>1 DEF WireInv, Current, Genuine

LEMMA RepliesProper ==
  ASSUME WireInv, NEW d \in wire, d.to = "host", Accepts(d), sentFrom' = sentFrom
  PROVE  \A r \in Replies(d) : Proper(r, sentFrom') /\ r.packet = 0
<1>1. d.from \in sentFrom /\ d.id \in Nat
  BY AcceptedHome DEF WireInv, TunnelTypes, Datagrams
<1>2. CASE d.kind = "init"
  <2>1. Replies(d) = Sends("resp", d.from, d.id)
    BY <1>2 DEF Replies
  <2> QED BY <1>1, <2>1, SendsProper
<1>3. CASE d.kind = "resp"
  <2>1. Replies(d) = Sends("data", d.from, d.id)
    BY <1>3 DEF Replies
  <2> QED BY <1>1, <2>1, SendsProper
<1>4. CASE d.kind \notin {"init", "resp"}
  BY <1>4 DEF Replies
<1> QED BY <1>2, <1>3, <1>4

LEMMA DecapsulatedTypes ==
  ASSUME WireInv, NEW d \in wire, Accepts(d)
  PROVE  /\ Decapsulated(d) \in [session : Nat, shaking : Nat, newest : Nat, received : SUBSET (1..MaxPackets)]
         /\ Decapsulated(d).received = tunn.received \cup ({d.packet} \ {0})
<1>1. d.id \in Nat /\ d.packet \in 0..MaxPackets /\ (d.kind # "data" => d.packet = 0)
  BY DEF WireInv, TunnelTypes, Datagrams
<1>2. tunn \in [session : Nat, shaking : Nat, newest : Nat, received : SUBSET (1..MaxPackets)]
  BY DEF WireInv, TunnelTypes
<1>3. d.kind \in {"init", "resp", "data"}
  BY DEF Accepts
<1>4. CASE d.kind = "init"
  BY <1>1, <1>2, <1>4 DEF Decapsulated
<1>5. CASE d.kind = "resp"
  BY <1>1, <1>2, <1>5 DEF Decapsulated
<1>6. CASE d.kind = "data"
  <2>1. Decapsulated(d) = [tunn EXCEPT !.received = @ \cup ({d.packet} \ {0})]
    BY <1>6 DEF Decapsulated
  <2>2. {d.packet} \ {0} \subseteq 1..MaxPackets
    BY <1>1, TunnelAssumption
  <2> QED BY <1>2, <2>1, <2>2
<1> QED BY <1>3, <1>4, <1>5, <1>6

LEMMA ReceivesHome == ASSUME WireInv, NEW d \in wire, Receives(d) PROVE WireInv'
<1>1. d.to = "host" /\ endpoint' = Follows(d) /\ UNCHANGED <<starts, shakes, vm, sentFrom>>
  BY DEF Receives
<1>2. CASE ~Accepts(d)
  <2>1. UNCHANGED <<tunn, wire, written, endpoint>>
    BY <1>1, <1>2 DEF Receives, Follows
  <2> QED BY <1>1, <2>1 DEF WireInv, TunnelTypes, Current, Genuine, Homeward, Delivered
<1>3. CASE Accepts(d)
  <2>1. /\ tunn' = Decapsulated(d) /\ Puts(Replies(d)) /\ endpoint' = d.from
        /\ written' = IF d.packet = 0 THEN written ELSE [written EXCEPT ![d.packet] = @ + 1]
    BY <1>1, <1>3 DEF Receives, Follows
  <2>2. d.from \in sentFrom /\ d.keys = starts /\ d.packet \in 0..MaxPackets
    BY <1>1, <1>3, AcceptedHome DEF WireInv, TunnelTypes, Datagrams
  <2>3. \A r \in Replies(d) : Proper(r, sentFrom') /\ r.packet = 0
    BY <1>1, <1>3, RepliesProper
  <2>4. /\ tunn' \in [session : Nat, shaking : Nat, newest : Nat, received : SUBSET (1..MaxPackets)]
        /\ tunn'.received = tunn.received \cup ({d.packet} \ {0})
    BY <1>3, <2>1, DecapsulatedTypes
  <2>5. CASE d.packet = 0
    <3>1. /\ UNCHANGED <<starts, written>> /\ sentFrom' = sentFrom /\ sentFrom' \in SUBSET VmAddrs
          /\ tunn.received \subseteq tunn'.received /\ shakes' \in Nat
          /\ endpoint' # NoEnd => endpoint' \in sentFrom'
          /\ vm' \in [addr : VmAddrs, session : Nat, shaking : Nat]
      BY <1>1, <2>1, <2>2, <2>4, <2>5 DEF WireInv, TunnelTypes
    <3>2. Puts(Replies(d))
      BY <2>1
    <3> QED BY <2>3, <2>4, <3>1, <3>2, PutsHome
  <2>6. CASE d.packet # 0
    <3>1. d.kind = "data" /\ d.packet \notin tunn.received /\ d.packet \in 1..MaxPackets
      BY <1>3, <2>2, <2>6, TunnelAssumption DEF Accepts, WireInv
    <3>2. Replies(d) = {} /\ wire' = wire
      BY <2>1, <3>1 DEF Replies, Puts
    <3>3. written' = [written EXCEPT ![d.packet] = @ + 1] /\ written \in [1..MaxPackets -> Nat]
      BY <2>1, <2>6 DEF WireInv, TunnelTypes
    <3>4. written[d.packet] = 0
      <4>1. Delivered(d.packet) /\ written[d.packet] \in Nat
        BY <3>1, <3>3 DEF WireInv
      <4>2. written[d.packet] # 1
        BY <2>2, <3>1, <4>1 DEF Delivered, Current
      <4> QED BY <4>1, <4>2 DEF Delivered
    <3>5. written' \in [1..MaxPackets -> Nat]
      BY <3>1, <3>3
    <3>6. TunnelTypes'
      BY <1>1, <2>4, <3>2, <3>5 DEF WireInv, TunnelTypes
    <3>7. endpoint' # NoEnd => endpoint' \in sentFrom'
      BY <1>1, <2>1, <2>2
    <3>8. ASSUME NEW p \in 1..MaxPackets PROVE Delivered(p)'
      <4>1. CASE p = d.packet
        <5>1. written'[p] = 1 /\ p \in tunn'.received
          BY <2>4, <3>1, <3>3, <3>4, <4>1
        <5> QED BY <5>1 DEF Delivered
      <4>2. CASE p # d.packet
        <5>1. written'[p] = written[p] /\ Delivered(p)
          BY <3>1, <3>3, <4>2 DEF WireInv
        <5> QED BY <1>1, <2>4, <3>2, <5>1 DEF Delivered, Current
      <4> QED BY <4>1, <4>2
    <3>9. \A e \in wire' : /\ e.keys <= starts'
                           /\ (Current(e) => Genuine(e) /\ Homeward(e))'
                           /\ e.kind # "data" => e.packet = 0
      BY <1>1, <3>2 DEF WireInv, Current, Genuine, Homeward
    <3> QED BY <3>6, <3>7, <3>8, <3>9 DEF WireInv
  <2> QED BY <2>5, <2>6
<1> QED BY <1>2, <1>3

-----------------------------------------------------------------------------
LEMMA NextHome == WireInv /\ [TunnelNext]_tunnelVars => WireInv'
<1> SUFFICES ASSUME WireInv, [TunnelNext]_tunnelVars PROVE WireInv'
  OBVIOUS
<1>1. CASE RestartTunnel
  BY <1>1, RestartHome
<1>2. CASE VmShakes \/ VmSends \/ VmMoves \/ Noise
  BY <1>2, VmShakesHome, VmSendsHome, VmMovesHome, NoiseHome
<1>3. CASE Transmits \/ Ticks
  BY <1>3, TransmitsHome, TicksHome
<1>4. CASE \E d \in wire : VmReceives(d) \/ Loses(d) \/ Receives(d)
  BY <1>4, VmReceivesHome, LosesHome, ReceivesHome
<1>5. CASE UNCHANGED tunnelVars
  BY <1>5 DEF tunnelVars, WireInv, TunnelTypes, Current, Genuine, Homeward, Delivered
<1> QED BY <1>1, <1>2, <1>3, <1>4, <1>5 DEF TunnelNext

\* What the wire, the endpoint and the device hold, for every network.
THEOREM WireHolds == TunnelSpec => []WireInv
  BY InitHome, NextHome, PTL DEF TunnelSpec

\* runtime.rs:291-296: outbound frames go only to an address this start's own
\* container has sent from, and no packet reaches the device twice.
THEOREM FramesAlwaysGoHome == TunnelSpec => []FramesGoHome
<1>1. WireInv => FramesGoHome
  BY DEF WireInv, Current, Homeward, Delivered, FramesGoHome
<1> QED BY WireHolds, <1>1, PTL

-----------------------------------------------------------------------------
(* The bridge is what it says, and leaves a VPN's routes alone.               *)

IfaceOrNone == Ifaces \cup {NoIface}
BridgeTypes ==
    /\ task \in [pc : {"boot", "prepare", "clear", "spawn", "utun", "route", "publish", "idle",
                       "drop", "network", "restart"},
                 attempt : Nat, iface : IfaceOrNone, plan : SUBSET Cidrs, made : SUBSET Cidrs,
                 for : {"boot", "enable", "disable", "mode", "next"}]
    /\ bridge \in IfaceOrNone
    /\ device \in [Ifaces -> {"none", "ours", "vpn"}]
    /\ own \subseteq Ifaces
    /\ route \in [Cidrs -> IfaceOrNone]
ModeTypes ==
    /\ bridgeMode \in Modes /\ stateFile \in [enabled : BOOLEAN, mode : Modes]
    /\ repairs.iface \in IfaceOrNone

\* Where the task is tells what there is of a bridge: nothing, but for the one
\* device of a start that installs its routes, or of the runtime.
BridgeInv ==
    /\ BridgeTypes /\ PublishedTrue
    /\ task.pc \notin {"publish", "idle"} => bridge = NoIface
    /\ task.pc # "route" => task.iface = NoIface /\ task.made = {}
    /\ task.pc # "route" /\ bridge = NoIface => own = {}
    /\ task.pc = "route" => task.iface \in Ifaces /\ own = {task.iface}
    /\ task.pc \in {"utun", "route"} => setup = "ours"

\* What a step leaves alone of a VPN's.
VpnKept ==
    \A c \in DockerNets, i \in Ifaces :
        route[c] = i /\ device[i] = "vpn" /\ device'[i] = "vpn" => route'[c] = i

\* A parked task has neither device nor routes of its own.
LEMMA ParkedFields ==
  ASSUME NEW pc, NEW for
  PROVE  LET p == Parked(pc, for) IN
         p.pc = pc /\ p.attempt = 1 /\ p.iface = NoIface /\ p.plan = {} /\ p.made = {} /\ p.for = for
  BY DEF Parked

\* A route asked for by a device, or by none, is a route.
LEMMA EnsuredTyped ==
  ASSUME BridgeInv, NEW c, NEW j \in IfaceOrNone
  PROVE  Ensured(c, j) \in [Cidrs -> IfaceOrNone]
  BY DEF Ensured, BridgeInv, BridgeTypes

\* Initially there is no bridge.
LEMMA InitBridge == NetbridgeInit => BridgeInv
<1> SUFFICES ASSUME NetbridgeInit PROVE BridgeInv
  OBVIOUS
<1>1. task = Parked("boot", "boot") /\ bridge = NoIface /\ own = {} /\ setup = "none"
      /\ \A i \in Ifaces : device[i] = "none"
  BY DEF NetbridgeInit
<1>2. BridgeTypes
  BY DEF NetbridgeInit, BridgeTypes, IfaceOrNone, Parked
<1> QED BY <1>1, <1>2, ParkedFields DEF BridgeInv, PublishedTrue, IsUp

\* A step of a start, or of the task between two messages.
LEMMA TaskStepsBridge ==
  ASSUME BridgeInv, ModeTypes, TaskSteps
  PROVE  BridgeInv'
<1>1. CASE Prepare
  <2>1. /\ task.pc = "prepare" /\ task' = [task EXCEPT !.pc = "clear", !.plan = {Subnet} \cup Extra(bridgeMode)]
        /\ UNCHANGED <<bridge, shown, setup, device, own, route, repairs>>
    BY <1>1 DEF Prepare, published, kernel
  <2> DEFINE q == {Subnet} \cup Extra(bridgeMode)
  <2>2. q \in SUBSET Cidrs
    <3>1. bridgeMode \in {"optin", "docker", "all"}
      BY NetbridgeAssumption DEF ModeTypes
    <3> QED BY <3>1 DEF Cidrs, Extra
  <2>3. task' = [task EXCEPT !.pc = "clear", !.plan = q]
    BY <2>1
  <2> HIDE DEF q
  <2>4. BridgeTypes'
    BY <2>1, <2>2, <2>3 DEF BridgeInv, BridgeTypes
  <2> QED BY <2>1, <2>4 DEF BridgeInv, BridgeTypes, PublishedTrue, IsUp
<1>2. CASE ClearSetup
  BY <1>2 DEF ClearSetup, StepTo, BridgeInv, BridgeTypes, PublishedTrue, IsUp, published, kernel
<1>3. CASE SpawnSetup
  BY <1>3 DEF SpawnSetup, StepTo, BridgeInv, BridgeTypes, PublishedTrue, IsUp, published, kernel
<1>4. ASSUME NEW i \in Ifaces, CreateUtun(i) PROVE BridgeInv'
  <2>1. /\ task.pc = "utun" /\ device[i] = "none" /\ device' = [device EXCEPT ![i] = "ours"]
        /\ own' = own \cup {i} /\ task' = [task EXCEPT !.pc = "route", !.iface = i]
        /\ UNCHANGED <<bridge, shown, setup, route>>
    BY <1>4 DEF CreateUtun, IsAlive, published
  <2>2. task'.pc = "route" /\ task'.iface = i /\ own = {} /\ bridge = NoIface /\ setup = "ours"
    BY <2>1 DEF BridgeInv, BridgeTypes
  <2>3. BridgeTypes'
    BY <2>1 DEF BridgeInv, BridgeTypes, IfaceOrNone
  <2>4. own' = {j \in Ifaces : device'[j] = "ours"}
    BY <2>1 DEF BridgeInv, BridgeTypes, PublishedTrue
  <2> QED BY <2>1, <2>2, <2>3, <2>4 DEF BridgeInv, PublishedTrue, IsUp
<1>5. ASSUME NEW c \in Cidrs, InstallRoute(c) PROVE BridgeInv'
  <2>1. /\ task.pc = "route" /\ task' = [task EXCEPT !.made = @ \cup {c}]
        /\ route' = Ensured(c, task.iface)
        /\ UNCHANGED <<bridge, shown, setup, device, own, repairs>>
    BY <1>5 DEF InstallRoute, published
  <2>2. route' \in [Cidrs -> IfaceOrNone]
    BY <2>1, EnsuredTyped DEF BridgeInv, BridgeTypes
  <2>3. BridgeTypes'
    BY <2>1, <2>2 DEF BridgeInv, BridgeTypes
  <2>4. task'.pc = "route" /\ task'.iface = task.iface
    BY <2>1 DEF BridgeInv, BridgeTypes
  <2> QED BY <2>1, <2>3, <2>4 DEF BridgeInv, PublishedTrue, IsUp
<1>6. CASE BridgeStarted
  <2>1. /\ task.pc = "route" /\ bridge' = task.iface /\ task' = Parked("publish", task.for)
        /\ UNCHANGED <<shown, setup, device, own, route, repairs>>
    BY <1>6 DEF BridgeStarted, published, kernel
  <2>2. task.iface \in Ifaces /\ own = {task.iface} /\ setup = "ours" /\ task.iface # NoIface
    BY <2>1, NetbridgeAssumption DEF BridgeInv
  <2>3. task'.pc = "publish" /\ task'.iface = NoIface /\ task'.made = {}
    BY <2>1, ParkedFields
  <2>4. BridgeTypes'
    BY <2>1, <2>2 DEF BridgeInv, BridgeTypes, Parked, IfaceOrNone
  <2> QED BY <2>1, <2>2, <2>3, <2>4 DEF BridgeInv, PublishedTrue, IsUp
<1>7. CASE StartFails
  <2>1. /\ task.pc \in {"prepare", "clear", "spawn", "utun", "route"}
        /\ route' = RolledBack
        /\ device' = [i \in Ifaces |-> IF i = task.iface THEN "none" ELSE device[i]]
        /\ own' = own \ {task.iface}
        /\ UNCHANGED <<bridge, shown>>
    BY <1>7 DEF StartFails, published
  <2>2. own' = {} /\ bridge = NoIface
    BY <2>1 DEF BridgeInv
  <2>3. own' = {i \in Ifaces : device'[i] = "ours"}
    BY <2>1 DEF BridgeInv, PublishedTrue
  <2>4. /\ task'.pc \in {"prepare", "publish"} /\ task'.iface = NoIface /\ task'.made = {}
        /\ task' \in [pc : {"prepare", "publish"},
                 attempt : Nat, iface : IfaceOrNone, plan : SUBSET Cidrs, made : SUBSET Cidrs,
                 for : {"boot", "enable", "disable", "mode", "next"}]
    BY <1>7 DEF StartFails, Parked, BridgeInv, BridgeTypes, IfaceOrNone
  <2>5. BridgeTypes'
    BY <2>1, <2>2, <2>4 DEF BridgeInv, BridgeTypes, RolledBack, IfaceOrNone
  <2> QED BY <2>1, <2>2, <2>3, <2>4, <2>5 DEF BridgeInv, PublishedTrue, IsUp
<1>8. CASE Boot
  BY <1>8, ParkedFields DEF Boot, StartAll, StepTo, Parked, BridgeInv, BridgeTypes, PublishedTrue, IsUp, published, kernel, IfaceOrNone
<1>9. CASE DropSetup
  BY <1>9 DEF DropSetup, StepTo, BridgeInv, BridgeTypes, PublishedTrue, IsUp, published, kernel
<1>10. CASE AfterDrop
  BY <1>10, ParkedFields DEF AfterDrop, StartAll, StepTo, Parked, BridgeInv, BridgeTypes, PublishedTrue, IsUp, published, kernel, IfaceOrNone
<1>11. CASE Publish
  BY <1>11, ParkedFields DEF Publish, Parked, BridgeInv, BridgeTypes, PublishedTrue, IsUp, kernel, IfaceOrNone
<1> QED BY <1>1, <1>2, <1>3, <1>4, <1>5, <1>6, <1>7, <1>8, <1>9, <1>10, <1>11 DEF TaskSteps

\* The runtime ends, and its device with it.
LEMMA ShutDownBridge ==
  ASSUME BridgeInv, ShutDown, bridge # NoIface
  PROVE  /\ bridge' = NoIface /\ own' = {}
         /\ own' = {i \in Ifaces : device'[i] = "ours"}
         /\ device' \in [Ifaces -> {"none", "ours", "vpn"}] /\ route' \in [Cidrs -> IfaceOrNone]
<1>1. /\ own = {bridge} /\ bridge \in Ifaces /\ own = {i \in Ifaces : device[i] = "ours"}
  BY DEF BridgeInv, BridgeTypes, PublishedTrue, IsUp, IfaceOrNone
<1>2. route' \in [Cidrs -> IfaceOrNone]
  BY DEF ShutDown, LeaveWith, BridgeInv, BridgeTypes, IfaceOrNone
<1>3. device' = [device EXCEPT ![bridge] = "none"] /\ own' = own \ {bridge} /\ bridge' = NoIface
  BY DEF ShutDown, Forgotten
<1> QED BY <1>1, <1>2, <1>3 DEF BridgeInv, BridgeTypes

\* The next message.
LEMMA ControlBridge ==
  ASSUME BridgeInv, TakeControl
  PROVE  BridgeInv'
<1>0. task.pc = "idle"
  BY DEF TakeControl
<1>1. CASE OnEnable
  BY <1>0, <1>1, ParkedFields DEF OnEnable, StartAll, Parked, BridgeInv, BridgeTypes, PublishedTrue, IsUp, kernel, IfaceOrNone
<1>2. CASE OnDisable
  <2>1. CASE bridge = NoIface
    BY <1>0, <1>2, <2>1, ParkedFields DEF OnDisable, Parked, BridgeInv, BridgeTypes, PublishedTrue, IsUp, kernel, IfaceOrNone
  <2>2. CASE bridge # NoIface
    <3>1. task' = Parked("drop", "disable") /\ ShutDown
      BY <1>2, <2>2 DEF OnDisable
    <3>2. BridgeTypes'
      BY <3>1, <2>2, ShutDownBridge DEF BridgeTypes, Parked, IfaceOrNone
    <3> QED BY <2>2, <3>1, <3>2, ShutDownBridge, ParkedFields DEF BridgeInv, PublishedTrue, IsUp
  <2> QED BY <2>1, <2>2
<1>3. ASSUME NEW m \in Modes, OnSetMode(m) PROVE BridgeInv'
  <2>1. CASE m = bridgeMode \/ bridge = NoIface
    BY <1>0, <1>3, <2>1, ParkedFields DEF OnSetMode, Parked, BridgeInv, BridgeTypes, PublishedTrue, IsUp, kernel, IfaceOrNone
  <2>2. CASE ~(m = bridgeMode \/ bridge = NoIface)
    <3>1. task' = Parked("drop", "mode") /\ ShutDown
      BY <1>3, <2>2 DEF OnSetMode
    <3>2. BridgeTypes'
      BY <3>1, <2>2, ShutDownBridge DEF BridgeTypes, Parked, IfaceOrNone
    <3> QED BY <2>2, <3>1, <3>2, ShutDownBridge, ParkedFields DEF BridgeInv, PublishedTrue, IsUp
  <2> QED BY <2>1, <2>2
<1> QED BY <1>1, <1>2, <1>3 DEF TakeControl

\* The daemon dies and comes back.
LEMMA RestartBridge ==
  ASSUME BridgeInv, BridgeRestart
  PROVE  BridgeInv'
<1>1. /\ task' = Parked("boot", "boot") /\ bridge' = NoIface /\ own' = {}
      /\ device' = [i \in Ifaces |-> IF i \in own THEN "none" ELSE device[i]]
  BY DEF BridgeRestart
<1>2. own' = {i \in Ifaces : device'[i] = "ours"}
  BY <1>1 DEF BridgeInv, PublishedTrue
<1>3. BridgeTypes'
  BY <1>1 DEF BridgeRestart, LeaveWith, BridgeInv, BridgeTypes, Parked, IfaceOrNone
<1> QED BY <1>1, <1>2, <1>3, ParkedFields DEF BridgeInv, PublishedTrue, IsUp

\* A VPN and Docker do not touch what is ours; nor does a repair.
LEMMA OutsideBridge ==
  ASSUME BridgeInv, ModeTypes, OutsideSteps \/ PlanAnswered \/ PlanUnanswered \/ \E c \in Cidrs : RepairRoute(c)
  PROVE  BridgeInv'
<1>1. CASE SetupGone \/ \E n \in DockerNets : ContainersChange(n)
  BY <1>1 DEF SetupGone, ContainersChange, BridgeInv, BridgeTypes, PublishedTrue, IsUp, published, kernel
<1>2. ASSUME NEW i \in Ifaces, VpnStarts(i) \/ VpnEnds(i) PROVE BridgeInv'
  <2>1. /\ UNCHANGED <<task, bridge, shown, setup, own>> /\ device[i] # "ours"
        /\ device' = [device EXCEPT ![i] = "vpn"] \/ device' = [device EXCEPT ![i] = "none"]
    BY <1>2 DEF VpnStarts, VpnEnds, IsAlive, published
  <2>2. route' \in [Cidrs -> IfaceOrNone]
    BY <1>2 DEF VpnStarts, VpnEnds, LeaveWith, BridgeInv, BridgeTypes, IfaceOrNone
  <2>3. BridgeTypes' /\ own = {j \in Ifaces : device'[j] = "ours"}
    BY <2>1, <2>2 DEF BridgeInv, BridgeTypes, PublishedTrue
  <2> QED BY <2>1, <2>3 DEF BridgeInv, PublishedTrue, IsUp
<1>3. ASSUME NEW i \in Ifaces, NEW c \in Cidrs, VpnRoutes(i, c) PROVE BridgeInv'
  BY <1>3 DEF VpnRoutes, BridgeInv, BridgeTypes, PublishedTrue, IsUp, published, IfaceOrNone
<1>4. CASE PlanAnswered \/ PlanUnanswered
  BY <1>4 DEF PlanAnswered, PlanUnanswered, PlanRepairs, BridgeInv, BridgeTypes, PublishedTrue, IsUp, published, kernel
<1>5. ASSUME NEW c \in Cidrs, RepairRoute(c) PROVE BridgeInv'
  <2>1. UNCHANGED <<task, bridge, shown, setup, device, own>>
    BY <1>5 DEF RepairRoute, published
  <2>2. route' \in [Cidrs -> IfaceOrNone]
    BY <1>5, EnsuredTyped DEF RepairRoute, BridgeInv, BridgeTypes, ModeTypes
  <2>3. repairs'.iface = repairs.iface
    BY <1>5 DEF RepairRoute
  <2> QED BY <2>1, <2>2, <2>3 DEF BridgeInv, BridgeTypes, PublishedTrue, IsUp
<1> QED BY <1>1, <1>2, <1>3, <1>4, <1>5 DEF OutsideSteps

\* Of the modes and the reconciler's device only the types matter here.
LEMMA ModesStep == BridgeInv /\ ModeTypes /\ [NetbridgeNext]_bridgeVars => ModeTypes'
<1> SUFFICES ASSUME BridgeInv, ModeTypes, [NetbridgeNext]_bridgeVars PROVE ModeTypes'
  OBVIOUS
<1>1. CASE UNCHANGED bridgeVars
  BY <1>1 DEF bridgeVars, ModeTypes
<1>2. CASE TaskSteps
  <2>1. CASE Publish
    BY <2>1 DEF Publish, Saved, IsUp, ModeTypes
  <2>2. CASE UNCHANGED <<bridgeMode, stateFile, repairs>>
    BY <2>2 DEF ModeTypes
  <2> QED BY <1>2, <2>1, <2>2 DEF TaskSteps, Prepare, ClearSetup, SpawnSetup, BridgeStarted,
             StartFails, CreateUtun, InstallRoute, Boot, DropSetup, AfterDrop, published
<1>3. CASE TakeControl
  BY <1>3 DEF TakeControl, OnEnable, OnDisable, OnSetMode, ModeTypes
<1>4. CASE BridgeRestart
  BY <1>4 DEF BridgeRestart, NoRepairs, IfaceOrNone, ModeTypes
<1>5. CASE PlanAnswered \/ PlanUnanswered
  BY <1>5 DEF PlanAnswered, PlanUnanswered, PlanRepairs, published, BridgeInv, BridgeTypes, ModeTypes
<1>6. ASSUME NEW c \in Cidrs, RepairRoute(c) PROVE ModeTypes'
  BY <1>6 DEF RepairRoute, published, ModeTypes
<1>7. CASE OutsideSteps
  BY <1>7 DEF OutsideSteps, SetupGone, ContainersChange, VpnStarts, VpnEnds, VpnRoutes, published, ModeTypes
<1> QED BY <1>1, <1>2, <1>3, <1>4, <1>5, <1>6, <1>7 DEF NetbridgeNext

\* Every step keeps both.
LEMMA NextBridge == BridgeInv /\ ModeTypes /\ [NetbridgeNext]_bridgeVars => BridgeInv' /\ ModeTypes'
<1> SUFFICES ASSUME BridgeInv, ModeTypes, [NetbridgeNext]_bridgeVars PROVE BridgeInv'
  BY ModesStep
<1>1. CASE UNCHANGED bridgeVars
  BY <1>1 DEF bridgeVars, BridgeInv, BridgeTypes, PublishedTrue, IsUp
<1> QED BY <1>1, TaskStepsBridge, ControlBridge, RestartBridge, OutsideBridge DEF NetbridgeNext

\* A route the kernel deletes with a device that is not a VPN's.
LEMMA LeaveKeepsVpn ==
  ASSUME BridgeInv, NEW j, LeaveWith(j), j \notin Ifaces \/ device[j] # "vpn"
  PROVE  VpnKept
  BY DEF LeaveWith, VpnKept, BridgeInv, BridgeTypes, Cidrs

\* ensure_route_command leaves alone what a VPN that lives routes.
LEMMA EnsuredKeepsVpn ==
  ASSUME BridgeInv, NEW c, NEW j, route' = Ensured(c, j)
  PROVE  VpnKept
<1> SUFFICES ASSUME NEW d \in DockerNets, NEW i \in Ifaces, route[d] = i, device[i] = "vpn"
             PROVE  route'[d] = i
  BY DEF VpnKept
<1>1. i \notin own /\ i # NoIface /\ d # Subnet /\ IsAlive(i)
  BY NetbridgeAssumption DEF BridgeInv, PublishedTrue, IsAlive
<1>2. CASE c = d
  BY <1>1, <1>2 DEF Ensured, Repairable
<1>3. CASE c # d
  BY <1>3 DEF Ensured, BridgeInv, BridgeTypes, Cidrs
<1> QED BY <1>2, <1>3

\* No step takes a VPN's route while the VPN lives, if `route delete` tells the
\* devices apart.
LEMMA NextKeepsVpn ==
  ASSUME BridgeInv, [NetbridgeNext]_bridgeVars, DeleteIgnoresIface = FALSE
  PROVE  VpnKept
<1>1. CASE UNCHANGED route
  BY <1>1 DEF VpnKept
<1>2. CASE StartFails
  <2> SUFFICES ASSUME NEW d \in DockerNets, NEW i \in Ifaces, route[d] = i, device[i] = "vpn"
               PROVE  route'[d] = i
    BY DEF VpnKept
  <2>1. task.iface # i
    BY <1>2, NetbridgeAssumption DEF BridgeInv, PublishedTrue, StartFails
  <2> QED BY <1>2, <2>1 DEF StartFails, RolledBack, Cidrs
<1>3. CASE TakeControl
  <2>1. ASSUME ShutDown, bridge # NoIface PROVE VpnKept
    <3>1. device[bridge] # "vpn"
      BY <2>1 DEF BridgeInv, PublishedTrue, IsUp
    <3> QED BY <2>1, <3>1, LeaveKeepsVpn DEF ShutDown
  <2> QED BY <1>1, <1>3, <2>1 DEF TakeControl, OnEnable, OnDisable, OnSetMode, kernel
<1>4. CASE BridgeRestart
  <2>1. PICK j \in own \cup {NoIface} : LeaveWith(j)
    BY <1>4 DEF BridgeRestart
  <2>2. j \notin Ifaces \/ device[j] # "vpn"
    BY <2>1, NetbridgeAssumption DEF BridgeInv, PublishedTrue
  <2> QED BY <2>1, <2>2, LeaveKeepsVpn
<1>5. ASSUME NEW c \in Cidrs, RepairRoute(c) PROVE VpnKept
  BY <1>1, <1>5, EnsuredKeepsVpn DEF RepairRoute
<1>6. ASSUME NEW c \in Cidrs, InstallRoute(c) PROVE VpnKept
  BY <1>6, EnsuredKeepsVpn DEF InstallRoute
<1>7. ASSUME NEW j \in Ifaces, VpnEnds(j) PROVE VpnKept
  <2> SUFFICES ASSUME NEW d \in DockerNets, NEW i \in Ifaces, route[d] = i, device'[i] = "vpn"
               PROVE  route'[d] = i
    BY DEF VpnKept
  <2>1. i # j
    BY <1>7 DEF VpnEnds, BridgeInv, BridgeTypes
  <2> QED BY <1>7, <2>1 DEF VpnEnds, LeaveWith, Cidrs
<1>8. ASSUME NEW j \in Ifaces, NEW c \in Cidrs, VpnRoutes(j, c) PROVE VpnKept
  <2> SUFFICES ASSUME NEW d \in DockerNets, NEW i \in Ifaces, route[d] = i, device[i] = "vpn"
               PROVE  route'[d] = i
    BY DEF VpnKept
  <2> QED BY <1>8 DEF VpnRoutes, BridgeInv, BridgeTypes, Cidrs
<1>9. \/ UNCHANGED route \/ StartFails \/ TakeControl \/ BridgeRestart
      \/ \E c \in Cidrs : RepairRoute(c)
      \/ \E c \in Cidrs : InstallRoute(c)
      \/ \E j \in Ifaces : VpnEnds(j)
      \/ \E j \in Ifaces, c \in Cidrs : VpnRoutes(j, c)
  BY DEF NetbridgeNext, bridgeVars, TaskSteps, Prepare, ClearSetup, SpawnSetup, BridgeStarted,
     CreateUtun, Boot, DropSetup, AfterDrop, Publish, OutsideSteps, SetupGone, ContainersChange,
     VpnStarts, PlanAnswered, PlanUnanswered, PlanRepairs, kernel
<1> QED BY <1>1, <1>2, <1>3, <1>4, <1>5, <1>6, <1>7, <1>8, <1>9

\* After every step what the bridge publishes and owns is so, and while a VPN's
\* device lives no start, repair or rollback takes a route of it to anything but
\* the bridge's own subnet (netbridge.rs:119, runtime.rs:1044), if deleting a
\* route by one device leaves another device's alone.
THEOREM BridgeIsHonest ==
  ASSUME DeleteIgnoresIface = FALSE
  PROVE  NetbridgeSpec => BridgeHonest
<1>1. NetbridgeInit => BridgeInv /\ ModeTypes
  BY InitBridge DEF NetbridgeInit, ModeTypes, NoRepairs, IfaceOrNone
<1>2. BridgeInv /\ ModeTypes /\ [NetbridgeNext]_bridgeVars => (BridgeInv /\ ModeTypes)'
  BY NextBridge
<1>3. BridgeInv /\ [NetbridgeNext]_bridgeVars /\ BridgeInv'
      => [/\ PublishedTrue'
          /\ \A c \in DockerNets, i \in Ifaces :
                route[c] = i /\ device[i] = "vpn" /\ device'[i] = "vpn" => route'[c] = i]_bridgeVars
  <2> SUFFICES ASSUME BridgeInv, [NetbridgeNext]_bridgeVars, BridgeInv'
      PROVE /\ PublishedTrue'
            /\ \A c \in DockerNets, i \in Ifaces :
                route[c] = i /\ device[i] = "vpn" /\ device'[i] = "vpn" => route'[c] = i
    OBVIOUS
  <2>1. VpnKept
    BY NextKeepsVpn
  <2> QED BY <2>1 DEF BridgeInv, VpnKept
<1> QED BY <1>1, <1>2, <1>3, PTL DEF NetbridgeSpec, BridgeHonest
=============================================================================

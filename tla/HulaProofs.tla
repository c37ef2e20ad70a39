----------------------------- MODULE HulaProofs -----------------------------
(***************************************************************************)
(* Next hops lead to the destination in every leaf-spine network, for any  *)
(* number of racks, spines, probes and losses.                             *)
(***************************************************************************)
EXTENDS Hula, TLAPS

\* Packet p waits on link l.
On(l, p) == \E i \in DOMAIN link[l] : link[l][i] = p

LinksTyped == link \in [Links -> Seq(Packet)]

\* What is left of a queue, and what is added to one.
LEMMA QueueFacts ==
    ASSUME NEW S, NEW q \in Seq(S)
    PROVE  /\ q # <<>> => /\ Head(q) \in S /\ Tail(q) \in Seq(S)
                          /\ \E i \in DOMAIN q : q[i] = Head(q)
                          /\ \A i \in DOMAIN Tail(q) : \E j \in DOMAIN q : q[j] = Tail(q)[i]
           /\ \A e \in S : /\ Append(q, e) \in Seq(S)
                           /\ \A i \in DOMAIN Append(q, e) :
                                 Append(q, e)[i] = e \/ \E j \in DOMAIN q : q[j] = Append(q, e)[i]
OBVIOUS

\* Taking a packet adds none.
LEMMA TakeFacts ==
    ASSUME LinksTyped, NEW k \in Links, link[k] # <<>>, link' = Take(k[1], k[2])
    PROVE  /\ LinksTyped'
           /\ \A l \in Links : \A p : On(l, p)' => On(l, p)
<1>1. k = <<k[1], k[2]>>
  BY DEF Links
<1>2. link[k] \in Seq(Packet)
  BY DEF LinksTyped
<1>3. /\ Tail(link[k]) \in Seq(Packet)
      /\ \A i \in DOMAIN Tail(link[k]) : \E j \in DOMAIN link[k] : link[k][j] = Tail(link[k])[i]
  BY <1>2, QueueFacts
<1>4. link' = [link EXCEPT ![k] = Tail(link[k])]
  BY <1>1, Zenon DEF Take
<1>5. LinksTyped'
  BY <1>3, <1>4 DEF LinksTyped
<1>6. \A l \in Links : link'[l] = IF l = k THEN Tail(link[k]) ELSE link[l]
  BY <1>4 DEF LinksTyped
<1> QED
  BY <1>3, <1>5, <1>6, ZenonT(60) DEF On

\* Taking a packet and sending one adds that one to its link.
LEMMA TakeSendFacts ==
    ASSUME LinksTyped, NEW k \in Links, link[k] # <<>>, NEW z, NEW e \in Packet,
           k # <<k[2], z>>, link' = TakeSend(k[1], k[2], z, e)
    PROVE  /\ LinksTyped'
           /\ \A l \in Links : \A p :
                 On(l, p)' => On(l, p) \/ (l = <<k[2], z>> /\ p = e)
<1> DEFINE m == <<k[2], z>>
<1>1. k = <<k[1], k[2]>> /\ k # m
  BY DEF Links
<1>2. link[k] \in Seq(Packet) /\ \A l \in Links : link[l] \in Seq(Packet)
  BY DEF LinksTyped
<1>3. /\ Tail(link[k]) \in Seq(Packet)
      /\ \A i \in DOMAIN Tail(link[k]) : \E j \in DOMAIN link[k] : link[k][j] = Tail(link[k])[i]
  BY <1>2, QueueFacts
<1>4. ASSUME m \in Links
      PROVE  /\ Append(link[m], e) \in Seq(Packet)
             /\ \A i \in DOMAIN Append(link[m], e) :
                   Append(link[m], e)[i] = e
                   \/ \E j \in DOMAIN link[m] : link[m][j] = Append(link[m], e)[i]
  <2>1. link[m] \in Seq(Packet)
    BY <1>2, <1>4
  <2> QED
    BY <2>1, QueueFacts, SMTT(60)
<1>5. link' = [[link EXCEPT ![k] = Tail(link[k])] EXCEPT ![m] = Append(@, e)]
  BY <1>1, Zenon DEF TakeSend
<1> HIDE DEF m
<1>6. \A l \in Links : link'[l] = IF l = m THEN Append(link[m], e)
                                  ELSE IF l = k THEN Tail(link[k]) ELSE link[l]
  BY <1>1, <1>5, Zenon DEF LinksTyped
<1>7. LinksTyped'
  <2>1. \A l \in Links : link'[l] \in Seq(Packet)
    BY <1>2, <1>3, <1>4, <1>6, Zenon
  <2>2. DOMAIN link' = Links /\ link' = [l \in Links |-> link'[l]]
    BY <1>5, Zenon DEF LinksTyped
  <2> QED
    BY <2>1, <2>2 DEF LinksTyped
<1>8. ASSUME NEW l \in Links, NEW p, On(l, p)' PROVE On(l, p) \/ (l = m /\ p = e)
  <2>1. PICK i \in DOMAIN link'[l] : link'[l][i] = p
    BY <1>8 DEF On
  <2>2. CASE l = m
    BY <1>4, <1>6, <2>1, <2>2, ZenonT(60) DEF On
  <2>3. CASE l # m /\ l = k
    BY <1>3, <1>6, <2>1, <2>3, ZenonT(60) DEF On
  <2>4. CASE l # m /\ l # k
    BY <1>6, <2>1, <2>4 DEF On
  <2> QED
    BY <2>2, <2>3, <2>4
<1> QED
  BY <1>7, <1>8 DEF m

\* Sending a packet adds it to its link.
LEMMA SendFacts ==
    ASSUME LinksTyped, NEW k \in Links, NEW e \in Packet,
           link' = [link EXCEPT ![k] = Append(@, e)]
    PROVE  /\ LinksTyped'
           /\ \A l \in Links : \A p : On(l, p)' => On(l, p) \/ (l = k /\ p = e)
<1>1. link[k] \in Seq(Packet)
  BY DEF LinksTyped
<1>2. /\ Append(link[k], e) \in Seq(Packet)
      /\ \A i \in DOMAIN Append(link[k], e) :
            Append(link[k], e)[i] = e
            \/ \E j \in DOMAIN link[k] : link[k][j] = Append(link[k], e)[i]
  BY <1>1, QueueFacts
<1>3. LinksTyped'
  BY <1>2 DEF LinksTyped
<1>4. \A l \in Links : link'[l] = IF l = k THEN Append(link[k], e) ELSE link[l]
  BY DEF LinksTyped
<1> QED
  BY <1>2, <1>3, <1>4 DEF On

\* A link connects a rack and a spine, or the hosts and a rack.
LEMMA LinkFacts ==
    ASSUME NEW k \in Links
    PROVE  /\ k = <<k[1], k[2]>> /\ k[1] # k[2] /\ k[2] \in Switches
           /\ \/ k[1] \in ToRs /\ k[2] \in Spines /\ k[1] # "host"
              \/ k[1] \in Spines /\ k[2] \in ToRs /\ k[1] # "host"
              \/ k[1] = "host" /\ k[2] \in ToRs
BY HulaAssumption DEF Links, Switches

-----------------------------------------------------------------------------
(* The invariant.  A returned probe on its way from a spine finds that     *)
(* spine pointing to the destination already, and a spine never points     *)
(* anywhere else.                                                          *)

ProbeOK(nhop, l, p) ==
    /\ p.src # p.dst
    /\ l[1] = "host" => p.dir = 0 /\ p.src = l[2]
    /\ p.dir = 1 /\ l[1] \in ToRs => l[1] = p.dst
    /\ p.dir = 1 /\ l[1] \in Spines => l[2] = p.src /\ nhop[l[1]][p.dst] = p.dst

NhopTyped == dstindex_nhop \in [Switches -> [ToRs -> Ports]]

SpinesPoint == \A s \in Spines, b \in ToRs : dstindex_nhop[s][b] \in {"none", b}

ProbesOK ==
    \A l \in Links : \A p \in Packet :
        On(l, p) /\ IsProbe(p) => ProbeOK(dstindex_nhop, l, p)

SentTyped == sent \in [Flows -> Nat]

RoutesInv == LinksTyped /\ SentTyped /\ NhopTyped /\ SpinesPoint /\ ProbesOK /\ RoutesReach

\* A step that adds at most one packet, which is as it should be, and turns no
\* spine away from a destination, keeps the probes as they should be.
LEMMA OnePacket ==
    ASSUME ProbesOK, LinksTyped, NEW m, NEW e,
           \A l \in Links : \A p : On(l, p)' => On(l, p) \/ (l = m /\ p = e),
           \A s \in Spines, b \in ToRs :
               dstindex_nhop[s][b] = b => dstindex_nhop'[s][b] = b,
           m \in Links /\ IsProbe(e) => ProbeOK(dstindex_nhop', m, e)
    PROVE  ProbesOK'
<1> SUFFICES ASSUME NEW l \in Links, NEW p \in Packet, On(l, p)', IsProbe(p)
             PROVE  ProbeOK(dstindex_nhop', l, p)
  BY DEF ProbesOK, IsProbe, ProbeOK
<1>1. CASE On(l, p)
  <2>1. ProbeOK(dstindex_nhop, l, p)
    BY <1>1 DEF ProbesOK
  <2>2. p.dst \in ToRs
    BY DEF Packet, IsProbe
  <2> QED
    BY <2>1, <2>2 DEF ProbeOK
<1>2. CASE l = m /\ p = e
  BY <1>2
<1> QED
  BY <1>1, <1>2

\* Nothing but the links changes.
LEMMA SameRoutes ==
    ASSUME RoutesInv, UNCHANGED dstindex_nhop, SentTyped', LinksTyped', ProbesOK'
    PROVE  RoutesInv'
BY DEF RoutesInv, NhopTyped, SpinesPoint, RoutesReach

\* The packet a switch takes is one that is waiting for it.
LEMMA HeadFacts ==
    ASSUME RoutesInv, NEW k \in Links, link[k] # <<>>
    PROVE  /\ Head(link[k]) \in Packet
           /\ On(k, Head(link[k]))
           /\ IsProbe(Head(link[k])) => ProbeOK(dstindex_nhop, k, Head(link[k]))
<1>1. link[k] \in Seq(Packet)
  BY DEF RoutesInv, LinksTyped
<1>2. Head(link[k]) \in Packet /\ On(k, Head(link[k]))
  BY <1>1, QueueFacts DEF On
<1> QED
  BY <1>2 DEF RoutesInv, ProbesOK

\* A new probe sets out from its own rack.
LEMMA RoutesSend == ASSUME RoutesInv, NEW r \in Probed, NEW s \in Spines, SendProbe(r[1], r[2], s)
                    PROVE  RoutesInv'
<1> DEFINE k == <<"host", r[1]>>
           e == [kind |-> "hula", src |-> r[1], dst |-> r[2], via |-> s, dir |-> 0, qdepth |-> 0]
<1>1. r[1] \in ToRs /\ r[2] \in ToRs /\ r[1] # r[2]
  BY HulaAssumption
<1>2. k \in Links /\ e \in Packet
  BY <1>1, HulaAssumption DEF Links, Switches, Packet
<1>3. link' = [link EXCEPT ![k] = Append(@, e)] /\ UNCHANGED dstindex_nhop
  BY DEF SendProbe
<1>4. ProbeOK(dstindex_nhop', k, e)
  BY <1>1, HulaAssumption DEF ProbeOK, Switches
<1> HIDE DEF k, e
<1>5. LinksTyped' /\ \A l \in Links : \A p : On(l, p)' => On(l, p) \/ (l = k /\ p = e)
  BY <1>2, <1>3, SendFacts, Zenon DEF RoutesInv
<1>6. ProbesOK'
  BY <1>3, <1>4, <1>5, OnePacket DEF RoutesInv
<1>7. SentTyped'
  BY DEF SendProbe, data, RoutesInv, SentTyped
<1> QED
  BY <1>3, <1>5, <1>6, <1>7, SameRoutes

\* Data is no probe.
LEMMA RoutesSendData == ASSUME RoutesInv, NEW f \in Flows, SendData(f) PROVE RoutesInv'
<1>1. SentTyped'
  BY DEF SendData, RoutesInv, SentTyped
<1>2. PICK n \in Nat : n = sent'[f]
  BY <1>1 DEF SentTyped
<1> DEFINE k == <<"host", FlowSrc[f]>>
           e == [kind |-> "data", flow |-> f, n |-> n]
<1>3. k \in Links /\ e \in Packet /\ ~IsProbe(e)
  BY HulaAssumption DEF Links, Switches, Packet, IsProbe
<1>4. link' = [link EXCEPT ![k] = Append(@, e)] /\ UNCHANGED dstindex_nhop
  BY <1>2 DEF SendData
<1> HIDE DEF k, e
<1>5. LinksTyped' /\ \A l \in Links : \A p : On(l, p)' => On(l, p) \/ (l = k /\ p = e)
  BY <1>3, <1>4, SendFacts, Zenon DEF RoutesInv
<1>6. ProbesOK'
  BY <1>3, <1>4, <1>5, OnePacket DEF RoutesInv
<1> QED
  BY <1>1, <1>4, <1>5, <1>6, SameRoutes

\* A probe that is lost, or ends, is one less.
LEMMA RoutesTake ==
    ASSUME RoutesInv, NEW k \in Links, link[k] # <<>>, link' = Take(k[1], k[2]),
           UNCHANGED <<dstindex_nhop, sent>>
    PROVE  RoutesInv'
<1>1. LinksTyped' /\ \A l \in Links : \A p : On(l, p)' => On(l, p)
  BY TakeFacts DEF RoutesInv
<1>2. ProbesOK'
  BY <1>1 DEF RoutesInv, ProbesOK, IsProbe, ProbeOK
<1> QED
  BY <1>1, <1>2, SameRoutes DEF RoutesInv, SentTyped

\* A packet that is passed on, where the next hops stay.
LEMMA RoutesTakeSend ==
    ASSUME RoutesInv, NEW k \in Links, link[k] # <<>>, NEW z, NEW e \in Packet,
           link' = TakeSend(k[1], k[2], z, e),
           IsProbe(e) => ProbeOK(dstindex_nhop, <<k[2], z>>, e),
           UNCHANGED <<dstindex_nhop, sent>>
    PROVE  RoutesInv'
<1> DEFINE m == <<k[2], z>>
<1>1. k # m
  BY LinkFacts
<1>2. /\ LinksTyped'
      /\ \A l \in Links : \A p : On(l, p)' => On(l, p) \/ (l = m /\ p = e)
  BY <1>1, TakeSendFacts, Zenon DEF RoutesInv
<1>3. IsProbe(e) => ProbeOK(dstindex_nhop', m, e)
  OBVIOUS
<1> HIDE DEF m
<1>4. ProbesOK'
  BY <1>2, <1>3, OnePacket DEF RoutesInv
<1> QED
  BY <1>2, <1>4, SameRoutes DEF RoutesInv, SentTyped

\* A probe on its way to the destination.
LEMMA RoutesFwd == ASSUME RoutesInv, NEW k \in Links, hula_fwd(k[1], k[2]) PROVE RoutesInv'
<1>1. k = <<k[1], k[2]>> /\ k[2] # "host" /\ k[2] \in Switches
  BY LinkFacts, HulaAssumption
<1>2. link[k] # <<>>
  BY <1>1 DEF hula_fwd
<1>3. PICK p \in Packet : p = Head(link[k])
  BY <1>2, HeadFacts
<1>4. IsProbe(p) /\ p.dir = 0 /\ ProbeOK(dstindex_nhop, k, p) /\ p.via \in Spines
  BY <1>1, <1>2, <1>3, HeadFacts DEF hula_fwd, IsProbe, Packet
<1>5. PICK d \in 0..MaxDepth :
         link' = TakeSend(k[1], k[2], srcRoute_nhop(p, k[2]), MaxQdepth(p, d))
  BY <1>1, <1>3 DEF hula_fwd
<1>6. PICK z : z = srcRoute_nhop(p, k[2])
  OBVIOUS
<1>7. PICK e : e = MaxQdepth(p, d)
  OBVIOUS
<1>8. e \in Packet /\ e.dir = 0 /\ e.src = p.src /\ e.dst = p.dst
  BY <1>4, <1>5, <1>7 DEF MaxQdepth, Packet, IsProbe
<1>9. ProbeOK(dstindex_nhop, <<k[2], z>>, e)
  BY <1>1, <1>4, <1>8 DEF ProbeOK
<1>10. link' = TakeSend(k[1], k[2], z, e)
  BY <1>5, <1>6, <1>7
<1>11. UNCHANGED <<dstindex_nhop, sent>>
  BY DEF hula_fwd, data
<1> QED
  BY <1>2, <1>8, <1>9, <1>10, <1>11, RoutesTakeSend

\* A probe at its destination: it came from a spine and goes back to it.
LEMMA RoutesDst == ASSUME RoutesInv, NEW k \in Links, hula_dst(k[1], k[2]) PROVE RoutesInv'
<1>1. k = <<k[1], k[2]>>
  BY LinkFacts
<1>2. link[k] # <<>>
  BY <1>1 DEF hula_dst
<1>3. PICK p \in Packet : p = Head(link[k])
  BY <1>2, HeadFacts
<1>4. IsProbe(p) /\ p.dst = k[2] /\ ProbeOK(dstindex_nhop, k, p) /\ p.dst \in ToRs
  BY <1>1, <1>2, <1>3, HeadFacts DEF hula_dst, IsProbe, Packet
<1>5. k[2] \notin Spines /\ k[2] # "host"
  BY <1>4, HulaAssumption DEF Switches
<1>6. UNCHANGED <<dstindex_nhop, sent>>
  BY Zenon DEF hula_dst, data
<1>7. CASE link' = Take(k[1], k[2])
  BY <1>2, <1>6, <1>7, RoutesTake
<1>8. CASE link' = TakeSend(k[1], k[2], k[1], [p EXCEPT !.dir = 1])
  <2>1. PICK e : e = [p EXCEPT !.dir = 1]
    BY Zenon
  <2>2. e \in Packet /\ e.dir = 1 /\ e.src = p.src /\ e.dst = p.dst
    BY <1>4, <2>1 DEF Packet, IsProbe
  <2>3. ProbeOK(dstindex_nhop, <<k[2], k[1]>>, e)
    BY <1>4, <1>5, <2>2 DEF ProbeOK
  <2> QED
    BY <1>2, <1>6, <1>8, <2>1, <2>2, <2>3, RoutesTakeSend
<1>9. \/ link' = Take(k[1], k[2])
      \/ link' = TakeSend(k[1], k[2], k[1], [p EXCEPT !.dir = 1])
  BY <1>1, <1>3, Zenon DEF hula_dst
<1> QED
  BY <1>7, <1>8, <1>9, Zenon

\* A data packet.
LEMMA RoutesData == ASSUME RoutesInv, NEW k \in Links, forward(k[1], k[2]) PROVE RoutesInv'
<1>1. k = <<k[1], k[2]>>
  BY LinkFacts
<1>2. link[k] # <<>>
  BY <1>1, Zenon DEF forward
<1>3. PICK p \in Packet : p = Head(link[k])
  BY <1>2, HeadFacts
<1>4. ~IsProbe(p)
  BY <1>1, <1>3, Zenon DEF forward
<1>5. UNCHANGED <<dstindex_nhop, sent>>
  BY DEF forward
<1>6. CASE link' = Take(k[1], k[2])
  BY <1>2, <1>5, <1>6, RoutesTake
<1>7. CASE link' = TakeSend(k[1], k[2], NextHop(k[2], p.flow), p)
  BY <1>2, <1>4, <1>5, <1>7, RoutesTakeSend, Zenon
<1>8. \/ link' = Take(k[1], k[2])
      \/ link' = TakeSend(k[1], k[2], NextHop(k[2], p.flow), p)
  BY <1>1, <1>3, Zenon DEF forward
<1> QED
  BY <1>6, <1>7, <1>8, Zenon

\* A returned probe.  At a spine it comes from the destination, and points the
\* spine there; at its source it comes from a spine that points there already.
LEMMA RoutesBwd == ASSUME RoutesInv, NEW k \in Links, hula_bwd(k[1], k[2]) PROVE RoutesInv'
<1>1. k = <<k[1], k[2]>> /\ k[2] \in Switches /\ k[1] # k[2]
  BY LinkFacts
<1>2. link[k] # <<>>
  BY <1>1 DEF hula_bwd
<1>3. PICK p \in Packet : p = Head(link[k])
  BY <1>2, HeadFacts
<1>4. /\ IsProbe(p) /\ p.dir = 1 /\ ProbeOK(dstindex_nhop, k, p)
      /\ p.dst \in ToRs /\ p.src \in ToRs /\ p.src # p.dst
  BY <1>1, <1>2, <1>3, HeadFacts DEF hula_bwd, IsProbe, Packet, ProbeOK
<1>5. dstindex_nhop' = [dstindex_nhop EXCEPT ![k[2]][p.dst] = k[1]]
  BY <1>1, <1>3, Zenon DEF hula_bwd, hula_set_nhop
<1>6. SentTyped'
  BY DEF hula_bwd, data, RoutesInv, SentTyped
<1>7. CASE k[2] \in Spines
  <2>1. k[1] = p.dst /\ k[2] # p.src /\ k[2] # "host" /\ k[2] \notin ToRs
    BY <1>4, <1>7, LinkFacts, HulaAssumption DEF ProbeOK, Switches
  <2>2. /\ NhopTyped'
        /\ \A x \in Switches, b \in ToRs :
              dstindex_nhop'[x][b] = IF x = k[2] /\ b = p.dst THEN p.dst ELSE dstindex_nhop[x][b]
    BY <1>1, <1>4, <1>5, <2>1 DEF RoutesInv, NhopTyped, Ports, Switches
  <2>3. SpinesPoint'
    BY <2>2 DEF RoutesInv, SpinesPoint, Switches
  <2>4. RoutesReach'
    BY <1>7, <2>1, <2>2, HulaAssumption, SMTT(60) DEF RoutesInv, RoutesReach, Switches
  <2>5. link' = TakeSend(k[1], k[2], p.src, p)
    BY <1>1, <1>3, <1>4, <2>1, Zenon DEF hula_bwd, srcRoute_nhop
  <2> DEFINE m == <<k[2], p.src>>
  <2>6. k # m
    BY <1>1
  <2>7. /\ LinksTyped'
        /\ \A l \in Links : \A q : On(l, q)' => On(l, q) \/ (l = m /\ q = p)
    BY <1>2, <2>5, <2>6, TakeSendFacts, Zenon DEF RoutesInv
  <2>8. ProbeOK(dstindex_nhop', m, p)
    BY <1>1, <1>4, <1>7, <2>1, <2>2 DEF ProbeOK
  <2>9. \A s \in Spines, b \in ToRs : dstindex_nhop[s][b] = b => dstindex_nhop'[s][b] = b
    BY <2>2 DEF Switches
  <2> HIDE DEF m
  <2>10. ProbesOK'
    BY <2>7, <2>8, <2>9, OnePacket, SMTT(60) DEF RoutesInv
  <2> QED
    BY <1>6, <2>2, <2>3, <2>4, <2>7, <2>10 DEF RoutesInv
<1>8. CASE k[2] \in ToRs
  <2>1. /\ k[1] \in Spines /\ k[2] = p.src /\ k[2] \notin Spines
        /\ dstindex_nhop[k[1]][p.dst] = p.dst
    BY <1>4, <1>8, LinkFacts, HulaAssumption DEF ProbeOK
  <2>2. /\ NhopTyped'
        /\ \A x \in Switches, b \in ToRs :
              dstindex_nhop'[x][b] = IF x = k[2] /\ b = p.dst THEN k[1] ELSE dstindex_nhop[x][b]
    BY <1>1, <1>4, <1>5, <2>1 DEF RoutesInv, NhopTyped, Ports, Switches
  <2>3. SpinesPoint'
    BY <2>1, <2>2 DEF RoutesInv, SpinesPoint, Switches
  <2>4. RoutesReach'
    BY <1>1, <2>1, <2>2 DEF RoutesInv, RoutesReach, Switches
  <2>5. link' = Take(k[1], k[2])
    BY <1>1, <1>3, <2>1, Zenon DEF hula_bwd
  <2>6. LinksTyped' /\ \A l \in Links : \A q : On(l, q)' => On(l, q)
    BY <1>2, <2>5, TakeFacts DEF RoutesInv
  <2>7. \A s \in Spines, b \in ToRs : dstindex_nhop'[s][b] = dstindex_nhop[s][b]
    BY <2>1, <2>2 DEF Switches
  <2>8. ProbesOK'
    <3>1. \A l \in Links : \A q \in Packet : On(l, q)' /\ IsProbe(q) =>
              ProbeOK(dstindex_nhop, l, q) /\ q.dst \in ToRs
      BY <2>6 DEF RoutesInv, ProbesOK, Packet, IsProbe
    <3> QED
      BY <2>7, <3>1 DEF ProbesOK, ProbeOK, IsProbe
  <2> QED
    BY <1>6, <2>2, <2>3, <2>4, <2>6, <2>8 DEF RoutesInv
<1> QED
  BY <1>1, <1>7, <1>8 DEF Switches

\* Next hops lead to the destination, whatever probes race and are lost.
THEOREM RoutesHold == Spec => []RoutesReach
<1>1. Init => RoutesInv
  <2> SUFFICES ASSUME Init PROVE RoutesInv
    OBVIOUS
  <2>1. LinksTyped /\ SentTyped /\ NhopTyped
    BY DEF Init, LinksTyped, SentTyped, NhopTyped, Ports
  <2>2. SpinesPoint /\ RoutesReach
    BY HulaAssumption DEF Init, SpinesPoint, RoutesReach, Switches
  <2>3. ProbesOK
    BY DEF Init, ProbesOK, On
  <2> QED
    BY <2>1, <2>2, <2>3 DEF RoutesInv
<1>2. RoutesInv /\ [Next]_vars => RoutesInv'
  <2> SUFFICES ASSUME RoutesInv, [Next]_vars PROVE RoutesInv'
    OBVIOUS
  <2>1. ASSUME NEW l \in Links, Lose(l[1], l[2]) PROVE RoutesInv'
    <3>1. l = <<l[1], l[2]>>
      BY LinkFacts
    <3>2. link[l] # <<>> /\ link' = Take(l[1], l[2]) /\ UNCHANGED <<dstindex_nhop, sent>>
      BY <2>1, <3>1 DEF Lose, data
    <3> QED
      BY <3>2, RoutesTake
  <2>2. CASE UNCHANGED vars
    <3>1. UNCHANGED <<link, dstindex_nhop, sent>>
      BY <2>2 DEF vars, data
    <3> QED
      BY <3>1, SMTT(60) DEF RoutesInv, LinksTyped, SentTyped, NhopTyped, SpinesPoint, ProbesOK,
                  RoutesReach, On, IsProbe, ProbeOK
  <2> QED
    BY <2>1, <2>2, RoutesSend, RoutesSendData, RoutesFwd, RoutesDst, RoutesBwd, RoutesData
    DEF Next, Receive
<1>3. RoutesInv => RoutesReach
  BY DEF RoutesInv
<1> QED
  BY <1>1, <1>2, <1>3, PTL DEF Spec
=============================================================================
